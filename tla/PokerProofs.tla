---------------------------- MODULE PokerProofs ----------------------------
(***************************************************************************)
(* Proofs about the kinds of hands, for hands of any length, whatever the  *)
(* highest number of a card: the code sorts a hand and compares cards at   *)
(* fixed places, the meaning counts how often each number is held.         *)
(***************************************************************************)
EXTENDS Poker, RecursionTheorems, SequenceTheorems

----------------------------------------------------------------------------
(* Sorted hands: the cards of a number stand together, behind those below. *)

Below(s, n) == Cardinality({k \in DOMAIN s : s[k] < n})
Sorted(s) == s \in Seq(Number) /\ \A j, k \in 1..Len(s) : j <= k => s[j] <= s[k]

LEMMA NumberIs ==
    /\ Number = 0..KING /\ KING \in Nat /\ KING >= 5
    /\ \A n \in Number : n \in Int /\ n \in Nat /\ 0 <= n /\ n <= KING
BY NumbersAssumption DEF Number

LEMMA HandIs ==
    ASSUME NEW s \in Seq(Number)
    PROVE  /\ DOMAIN s = 1..Len(s) /\ Len(s) \in Nat
           /\ \A k \in 1..Len(s) : s[k] \in Number /\ s[k] \in Int /\ s[k] \in 0..KING
<1>1. DOMAIN s = 1..Len(s) /\ Len(s) \in Nat /\ \A k \in 1..Len(s) : s[k] \in Number
  OBVIOUS
<1> QED BY <1>1, NumberIs

LEMMA SortedIs ==
    ASSUME NEW s, Sorted(s)
    PROVE  /\ s \in Seq(Number) /\ DOMAIN s = 1..Len(s) /\ Len(s) \in Nat
           /\ \A k \in 1..Len(s) : s[k] \in Number /\ s[k] \in Int /\ s[k] \in 0..KING
           /\ \A j, k \in 1..Len(s) : j <= k => s[j] <= s[k]
<1>1. s \in Seq(Number) /\ \A j, k \in 1..Len(s) : j <= k => s[j] <= s[k]
  BY DEF Sorted
<1> QED BY <1>1, HandIs

LEMMA UpToCard ==
    ASSUME NEW n \in Nat
    PROVE  IsFiniteSet(1..n) /\ Cardinality(1..n) = n
BY FS_Interval

LEMMA PartOf ==
    ASSUME NEW s, Len(s) \in Nat, NEW P \in SUBSET (1..Len(s))
    PROVE  IsFiniteSet(P) /\ Cardinality(P) \in 0..Len(s)
<1>1. IsFiniteSet(1..Len(s)) /\ Cardinality(1..Len(s)) = Len(s)
  BY UpToCard
<1>2. IsFiniteSet(P) /\ Cardinality(P) <= Len(s)
  BY <1>1, FS_Subset
<1> QED BY <1>2, FS_CardinalityType

LEMMA CountIs ==
    ASSUME NEW s \in Seq(Number), NEW n \in Int
    PROVE  /\ GetNumberCount(s, n) \in Nat /\ GetNumberCount(s, n) <= Len(s)
           /\ Below(s, n) \in Nat /\ Below(s, n) <= Len(s)
           /\ Below(s, n + 1) = Below(s, n) + GetNumberCount(s, n)
<1> DEFINE P == {k \in DOMAIN s : s[k] = n}
           Q == {k \in DOMAIN s : s[k] < n}
           R == {k \in DOMAIN s : s[k] < n + 1}
<1>1. DOMAIN s = 1..Len(s) /\ Len(s) \in Nat /\ \A k \in 1..Len(s) : s[k] \in Int
  BY HandIs
<1>2. /\ IsFiniteSet(P) /\ Cardinality(P) \in 0..Len(s)
      /\ IsFiniteSet(Q) /\ Cardinality(Q) \in 0..Len(s)
      /\ Cardinality(P) \in Nat /\ Cardinality(Q) \in Nat /\ Cardinality(P) <= Len(s) /\ Cardinality(Q) <= Len(s)
  BY <1>1, PartOf
<1>3. R = P \union Q /\ P \intersect Q = {}
  BY <1>1
<1>4. Cardinality(R) = Cardinality(P) + Cardinality(Q)
  <2>1. Cardinality(R) = Cardinality(P) + Cardinality(Q) - Cardinality(P \intersect Q)
    BY <1>2, <1>3, FS_Union
  <2>2. Cardinality(P \intersect Q) = 0
    BY <1>3, FS_EmptySet
  <2> QED BY <1>2, <2>1, <2>2
<1> QED BY <1>2, <1>4 DEF GetNumberCount, Below

LEMMA NoneOf ==
    ASSUME NEW s \in Seq(Number), NEW n \in Int
    PROVE  GetNumberCount(s, n) = 0 <=> \A k \in 1..Len(s) : s[k] # n
<1> DEFINE P == {k \in DOMAIN s : s[k] = n}
<1>1. DOMAIN s = 1..Len(s) /\ Len(s) \in Nat
  BY HandIs
<1>2. Cardinality(P) = 0 <=> P = {}
  <2>1. IsFiniteSet(P)
    BY <1>1, PartOf
  <2> HIDE DEF P
  <2> QED BY <2>1, FS_EmptySet
<1> QED BY <1>1, <1>2 DEF GetNumberCount

LEMMA SomeOf ==
    ASSUME NEW s \in Seq(Number), NEW n \in Int, GetNumberCount(s, n) # 0
    PROVE  \E k \in 1..Len(s) : s[k] = n
BY NoneOf

LEMMA BelowGrows ==
    ASSUME NEW s \in Seq(Number), NEW m \in Int, NEW n \in Int, m <= n
    PROVE  Below(s, m) <= Below(s, n)
<1> DEFINE Q == {k \in DOMAIN s : s[k] < m}
           R == {k \in DOMAIN s : s[k] < n}
<1>1. DOMAIN s = 1..Len(s) /\ Len(s) \in Nat /\ \A k \in 1..Len(s) : s[k] \in Int
  BY HandIs
<1>2. IsFiniteSet(R) /\ Q \in SUBSET R
  BY <1>1, PartOf
<1> QED BY <1>2, FS_Subset DEF Below

\* Of a sorted hand the first are the lowest.
LEMMA BelowIs ==
    ASSUME NEW s, Sorted(s), NEW n \in Int, NEW k \in 1..Len(s)
    PROVE  s[k] < n <=> k <= Below(s, n)
<1> DEFINE Q == {i \in DOMAIN s : s[i] < n}
<1>1. /\ DOMAIN s = 1..Len(s) /\ Len(s) \in Nat /\ \A i \in 1..Len(s) : s[i] \in Int
      /\ \A i, j \in 1..Len(s) : i <= j => s[i] <= s[j]
  BY SortedIs
<1>2. IsFiniteSet(Q) /\ Cardinality(Q) \in Nat
  BY <1>1, PartOf
<1>3. ASSUME s[k] < n PROVE k <= Cardinality(Q)
  <2>1. 1..k \in SUBSET Q
    BY <1>1, <1>3
  <2>2. Cardinality(1..k) = k
    BY FS_Interval
  <2> HIDE DEF Q
  <2> QED BY <1>2, <2>1, <2>2, FS_Subset
<1>4. ASSUME ~(s[k] < n) PROVE Cardinality(Q) <= k - 1
  <2>1. Q \in SUBSET (1..k - 1)
    <3> SUFFICES ASSUME NEW i \in Q PROVE i \in 1..k - 1
      OBVIOUS
    <3>1. i \in 1..Len(s) /\ s[i] < n /\ s[i] \in Int /\ s[k] \in Int
      BY <1>1
    <3>2. ~(k <= i)
      BY <1>1, <1>4, <3>1
    <3> QED BY <3>1, <3>2
  <2>2. IsFiniteSet(1..k - 1) /\ Cardinality(1..k - 1) = k - 1
    BY FS_Interval
  <2> HIDE DEF Q
  <2> QED BY <2>1, <2>2, FS_Subset
<1> QED BY <1>2, <1>3, <1>4 DEF Below

LEMMA Block ==
    ASSUME NEW s, Sorted(s), NEW n \in Int, NEW k \in 1..Len(s)
    PROVE  s[k] = n <=> Below(s, n) < k /\ k <= Below(s, n) + GetNumberCount(s, n)
<1>1. /\ s \in Seq(Number) /\ s[k] \in Int /\ n + 1 \in Int /\ Len(s) \in Nat
      /\ k \in Int
  BY SortedIs
<1>2. s[k] < n <=> k <= Below(s, n)
  BY BelowIs
<1>3. s[k] < n + 1 <=> k <= Below(s, n + 1)
  BY <1>1, BelowIs
<1>4. Below(s, n) \in Nat /\ Below(s, n + 1) = Below(s, n) + GetNumberCount(s, n)
  BY <1>1, CountIs
<1>5. s[k] < n + 1 <=> s[k] = n \/ s[k] < n
  BY <1>1
<1> QED BY <1>1, <1>2, <1>3, <1>4, <1>5

----------------------------------------------------------------------------
(* Sorting.                                                                *)

\* n is the k-th lowest.
Ranked(s, k, n) == Below(s, n) < k /\ k <= Below(s, n + 1)

LEMMA RankExists ==
    ASSUME NEW s \in Seq(Number), NEW k \in 1..Len(s)
    PROVE  \E n \in Number : Ranked(s, k, n)
<1> DEFINE S == {n \in Number : k <= Below(s, n + 1)}
<1>1. KING \in Nat /\ Len(s) \in Nat /\ DOMAIN s = 1..Len(s) /\ \A i \in 1..Len(s) : s[i] \in 0..KING
  BY NumbersAssumption DEF Number
<1>2. KING \in S
  <2>1. {i \in DOMAIN s : s[i] < KING + 1} = 1..Len(s)
    BY <1>1
  <2>2. Below(s, KING + 1) = Len(s)
    <3>1. Cardinality(1..Len(s)) = Len(s)
      BY <1>1, UpToCard
    <3> QED BY <2>1, <3>1 DEF Below
  <2> QED BY <1>1, <2>2 DEF Number
<1>3. S \in SUBSET Nat
  BY <1>1 DEF Number
<1>4. PICK n \in S : \A m \in S : n <= m
  <2> HIDE DEF S
  <2> QED BY <1>2, <1>3, LeastNatural
<1>5. n \in 0..KING /\ k <= Below(s, n + 1)
  BY <1>4 DEF Number
<1>6. CASE n = 0
  <2>1. {i \in DOMAIN s : s[i] < 0} = {}
    BY <1>1
  <2>2. Below(s, 0) = 0
    BY <2>1, FS_EmptySet DEF Below
  <2> QED BY <1>5, <1>6, <2>2 DEF Ranked, Number
<1>7. CASE n # 0
  <2>1. n - 1 \in Number /\ (n - 1) + 1 = n /\ ~(n <= n - 1)
    BY <1>1, <1>5, <1>7 DEF Number
  <2>2. n - 1 \notin S
    BY <1>4, <2>1
  <2>3. ~(k <= Below(s, n))
    BY <2>1, <2>2
  <2>4. Below(s, n) \in Int
    BY <1>5, CountIs
  <2> QED BY <1>5, <2>3, <2>4 DEF Ranked, Number
<1> QED BY <1>6, <1>7

LEMMA SortIs ==
    ASSUME NEW s \in Seq(Number)
    PROVE  /\ Sort(s) \in Seq(Number) /\ Len(Sort(s)) = Len(s)
           /\ \A k \in 1..Len(s) : Ranked(s, k, Sort(s)[k])
<1> DEFINE below == [n \in 0..KING + 1 |-> Cardinality({k \in DOMAIN s : s[k] < n})]
<1>1. DOMAIN s = 1..Len(s) /\ Len(s) \in Nat /\ KING \in Nat
  BY NumbersAssumption
<1>2. \A n \in Number : n \in 0..KING + 1 /\ n + 1 \in 0..KING + 1
  BY <1>1 DEF Number
<1>3. \A n \in Number : below[n] = Below(s, n) /\ below[n + 1] = Below(s, n + 1)
  BY <1>2 DEF Below
<1>4. Sort(s) = [k \in 1..Len(s) |-> CHOOSE n \in Number : below[n] < k /\ k <= below[n + 1]]
  BY <1>1 DEF Sort
<1> HIDE DEF below
<1>5. ASSUME NEW k \in 1..Len(s)
      PROVE  Sort(s)[k] \in Number /\ Ranked(s, k, Sort(s)[k])
  <2>1. \E n \in Number : below[n] < k /\ k <= below[n + 1]
    BY <1>3, RankExists DEF Ranked
  <2>2. Sort(s)[k] \in Number /\ below[Sort(s)[k]] < k /\ k <= below[Sort(s)[k] + 1]
    BY <1>4, <2>1
  <2> QED BY <1>3, <2>2 DEF Ranked
<1>6. Sort(s) \in [1..Len(s) -> Number]
  BY <1>4, <1>5
<1> QED BY <1>1, <1>5, <1>6

LEMMA RankUnique ==
    ASSUME NEW s \in Seq(Number), NEW j \in Int, NEW k \in Int, NEW m \in Int, NEW n \in Int,
           Ranked(s, j, m), Ranked(s, k, n), j <= k
    PROVE  m <= n
<1> SUFFICES ASSUME n < m PROVE FALSE
  OBVIOUS
<1>1. Below(s, n + 1) <= Below(s, m)
  BY BelowGrows
<1>2. Below(s, n + 1) \in Int /\ Below(s, m) \in Int
  <2>1. n + 1 \in Int
    OBVIOUS
  <2> QED BY <2>1, CountIs
<1> QED BY <1>1, <1>2 DEF Ranked

LEMMA SortSorts ==
    ASSUME NEW s \in Seq(Number)
    PROVE  Sorted(Sort(s)) /\ Len(Sort(s)) = Len(s)
<1>1. /\ Sort(s) \in Seq(Number) /\ Len(Sort(s)) = Len(s)
      /\ \A k \in 1..Len(s) : Ranked(s, k, Sort(s)[k]) /\ Sort(s)[k] \in Int
  BY SortIs, HandIs
<1>2. ASSUME NEW j \in 1..Len(s), NEW k \in 1..Len(s), j <= k PROVE Sort(s)[j] <= Sort(s)[k]
  BY <1>1, <1>2, RankUnique
<1> QED BY <1>1, <1>2 DEF Sorted

\* Sorting leaves a sorted hand as it is.
LEMMA SortKeeps ==
    ASSUME NEW s, Sorted(s)
    PROVE  Sort(s) = s
<1>1. /\ s \in Seq(Number) /\ Sort(s) \in Seq(Number) /\ Len(Sort(s)) = Len(s)
      /\ \A k \in 1..Len(s) : /\ Ranked(s, k, Sort(s)[k]) /\ Sort(s)[k] \in Int
                              /\ s[k] \in Int
  BY SortIs, HandIs, SortedIs
<1>2. ASSUME NEW k \in 1..Len(s) PROVE Sort(s)[k] = s[k]
  <2>1. Ranked(s, k, s[k])
    <3>1. s[k] \in Int /\ s[k] + 1 \in Int
      BY <1>1
    <3>2. Below(s, s[k]) \in Nat
      BY <1>1, <3>1, CountIs
    <3> QED BY <3>1, <3>2, BelowIs DEF Ranked
  <2>2. k \in Int /\ k <= k
    OBVIOUS
  <2> QED BY <1>1, <2>1, <2>2, RankUnique
<1> QED BY <1>1, <1>2, SeqEqual

\* Sorting leaves the numbers as they are.
LEMMA SortCounts ==
    ASSUME NEW s \in Seq(Number), NEW n \in Int
    PROVE  /\ GetNumberCount(Sort(s), n) = GetNumberCount(s, n)
           /\ Below(Sort(s), n) = Below(s, n)
<1> DEFINE t == Sort(s)
<1>1. /\ t \in Seq(Number) /\ Len(t) = Len(s) /\ DOMAIN t = 1..Len(s) /\ Len(s) \in Nat
      /\ \A k \in 1..Len(s) : Ranked(s, k, t[k]) /\ t[k] \in Int
  BY SortIs, HandIs
<1> HIDE DEF t
<1>2. ASSUME NEW m \in Int PROVE Below(t, m) = Below(s, m)
  <2>1. Below(s, m) \in Nat /\ Below(s, m) <= Len(s)
    BY CountIs
  <2>2. ASSUME NEW k \in 1..Len(s) PROVE t[k] < m <=> k <= Below(s, m)
    <3>1. t[k] \in Int /\ t[k] + 1 \in Int /\ Ranked(s, k, t[k])
      BY <1>1
    <3>2. Below(s, t[k]) \in Nat /\ Below(s, t[k] + 1) \in Nat
      BY <3>1, CountIs
    <3>3. ASSUME t[k] < m PROVE k <= Below(s, m)
      <4>1. Below(s, t[k] + 1) <= Below(s, m)
        BY <3>1, <3>3, BelowGrows
      <4> QED BY <2>1, <3>1, <3>2, <4>1 DEF Ranked
    <3>4. ASSUME ~(t[k] < m) PROVE ~(k <= Below(s, m))
      <4>1. Below(s, m) <= Below(s, t[k])
        BY <3>1, <3>4, BelowGrows
      <4> QED BY <2>1, <3>1, <3>2, <4>1 DEF Ranked
    <3> QED BY <3>3, <3>4
  <2>3. {k \in DOMAIN t : t[k] < m} = 1..Below(s, m)
    BY <1>1, <2>1, <2>2
  <2>4. Cardinality(1..Below(s, m)) = Below(s, m)
    BY <2>1, FS_Interval
  <2> QED BY <2>3, <2>4 DEF Below
<1>3. /\ GetNumberCount(t, n) \in Nat /\ GetNumberCount(s, n) \in Nat /\ Below(s, n) \in Nat
      /\ Below(t, n + 1) = Below(t, n) + GetNumberCount(t, n)
      /\ Below(s, n + 1) = Below(s, n) + GetNumberCount(s, n)
  BY <1>1, CountIs
<1>4. n + 1 \in Int
  OBVIOUS
<1> QED BY <1>2, <1>3, <1>4 DEF t

----------------------------------------------------------------------------
(* The kind by the number of cards.                                        *)

LEMMA TypeIs ==
    ASSUME NEW s, Len(s) \in Nat
    PROVE  /\ Len(s) = 1 => Type(s) = "SINGLE"
           /\ Len(s) = 2 => Type(s) = IF ~Same(s, 1..2) THEN "NONE"
                                      ELSE IF s[1] = 0 THEN "ROCKET" ELSE "DUAL"
           /\ Len(s) = 3 => Type(s) = IF Same(s, 1..3) THEN "TRIPLE" ELSE "NONE"
           /\ Len(s) = 4 => Type(s) = TypeOfFour(s)
           /\ Len(s) = 5 => Type(s) = TypeOfFive(s)
           /\ Len(s) = 6 => Type(s) = IF IsTWOTRIPLE(s) THEN "TWOTRIPLE"
                                      ELSE IF IsQUADDUAL(s) THEN "QUADDUAL"
                                      ELSE IF IsDUALTHREE(s) THEN "DUALTHREE" ELSE "NONE"
           /\ Len(s) \in {7, 9} => Type(s) = IF IsSTRAIGHT(s) THEN "STRAIGHT" ELSE "NONE"
           /\ Len(s) = 0 \/ Len(s) > 10 => Type(s) = "NONE"
<1>1. Len(s) = 1 => Type(s) = "SINGLE"
  BY DEF Type
<1>2. Len(s) = 2 => Type(s) = IF ~Same(s, 1..2) THEN "NONE"
                              ELSE IF s[1] = 0 THEN "ROCKET" ELSE "DUAL"
  BY DEF Type
<1>3. Len(s) = 3 => Type(s) = IF Same(s, 1..3) THEN "TRIPLE" ELSE "NONE"
  BY DEF Type
<1>4. /\ Len(s) = 4 => Type(s) = TypeOfFour(s)
      /\ Len(s) = 5 => Type(s) = TypeOfFive(s)
  <2>1. ASSUME Len(s) = 4 PROVE Type(s) = TypeOfFour(s)
    BY <2>1 DEF Type
  <2>2. ASSUME Len(s) = 5 PROVE Type(s) = TypeOfFive(s)
    BY <2>2 DEF Type
  <2> QED BY <2>1, <2>2
<1>5. Len(s) = 6 => Type(s) = IF IsTWOTRIPLE(s) THEN "TWOTRIPLE"
                              ELSE IF IsQUADDUAL(s) THEN "QUADDUAL"
                              ELSE IF IsDUALTHREE(s) THEN "DUALTHREE" ELSE "NONE"
  BY DEF Type
<1>6. Len(s) \in {7, 9} => Type(s) = IF IsSTRAIGHT(s) THEN "STRAIGHT" ELSE "NONE"
  <2> SUFFICES ASSUME Len(s) \in {7, 9}
               PROVE  Type(s) = IF IsSTRAIGHT(s) THEN "STRAIGHT" ELSE "NONE"
    OBVIOUS
  <2>1. /\ Len(s) # 1 /\ Len(s) # 2 /\ Len(s) # 3 /\ Len(s) # 4 /\ Len(s) # 5 /\ Len(s) # 6
        /\ Len(s) # 8 /\ Len(s) # 10 /\ Len(s) \in 7..10
    <3>1. CASE Len(s) = 7
      BY <3>1
    <3>2. CASE Len(s) = 9
      BY <3>2
    <3> QED BY <3>1, <3>2
  <2>2. CASE IsSTRAIGHT(s)
    BY <2>1, <2>2 DEF Type
  <2>3. CASE ~IsSTRAIGHT(s)
    BY <2>1, <2>3 DEF Type
  <2> QED BY <2>2, <2>3
<1>7. Len(s) = 0 \/ Len(s) > 10 => Type(s) = "NONE"
  <2> SUFFICES ASSUME Len(s) = 0 \/ Len(s) > 10 PROVE Type(s) = "NONE"
    OBVIOUS
  <2>1. /\ Len(s) # 1 /\ Len(s) # 2 /\ Len(s) # 3 /\ Len(s) # 4 /\ Len(s) # 5 /\ Len(s) # 6
        /\ Len(s) # 8 /\ Len(s) # 10 /\ Len(s) \notin 7..10
    <3>1. CASE Len(s) = 0
      BY <3>1
    <3>2. CASE Len(s) > 10
      <4>1. \A n \in Nat : n > 10 => /\ n # 1 /\ n # 2 /\ n # 3 /\ n # 4 /\ n # 5 /\ n # 6
                                     /\ n # 8 /\ n # 10 /\ n \notin 7..10
        OBVIOUS
      <4> QED BY <3>2, <4>1
    <3> QED BY <3>1, <3>2
  <2> HIDE DEF Same
  <2> QED BY ONLY <2>1 DEF Type
<1> QED BY <1>1, <1>2, <1>3, <1>4, <1>5, <1>6, <1>7

LEMMA TypeOfEight ==
    ASSUME NEW s, Len(s) = 8, ~(IsFLIGHTONE(s) /\ IsSTRAIGHT(s))
    PROVE  Type(s) = IF IsFLIGHTONE(s) THEN "FLIGHTONE"
                     ELSE IF IsSTRAIGHT(s) THEN "STRAIGHT" ELSE "NONE"
BY DEF Type

LEMMA TypeOfTen ==
    ASSUME NEW s, Len(s) = 10, ~(IsFLIGHTTWO(s) /\ IsSTRAIGHT(s))
    PROVE  Type(s) = IF IsFLIGHTTWO(s) THEN "FLIGHTTWO"
                     ELSE IF IsSTRAIGHT(s) THEN "STRAIGHT" ELSE "NONE"
BY DEF Type

\* Hands of the same length are of a kind when they are alike in every test.
LEMMA TypeLike ==
    ASSUME NEW s, NEW t, Len(s) \in Nat, Len(t) = Len(s), Len(s) \notin 1..5,
           IsSTRAIGHT(s) <=> IsSTRAIGHT(t), IsTWOTRIPLE(s) <=> IsTWOTRIPLE(t),
           IsQUADDUAL(s) <=> IsQUADDUAL(t), IsDUALTHREE(s) <=> IsDUALTHREE(t),
           IsFLIGHTONE(s) <=> IsFLIGHTONE(t), IsFLIGHTTWO(s) <=> IsFLIGHTTWO(t)
    PROVE  Type(s) = Type(t)
BY DEF Type

----------------------------------------------------------------------------
(* No order of a hand makes it another kind.                               *)

\* Where the m cards of a number are in a sorted hand.
Stands(s, n, p, m) ==
    /\ p \in 0..Len(s) - m
    /\ \A k \in 1..Len(s) : s[k] = n <=> p < k /\ k <= p + m

LEMMA BlockAt ==
    ASSUME NEW s, Sorted(s), NEW n \in Int, NEW m \in Nat, GetNumberCount(s, n) = m
    PROVE  Stands(s, n, Below(s, n), m)
<1>1. s \in Seq(Number) /\ Len(s) \in Nat
  BY SortedIs
<1>2. n + 1 \in Int /\ Below(s, n) \in Nat /\ Below(s, n + 1) = Below(s, n) + m
  BY <1>1, CountIs
<1>3. Below(s, n + 1) <= Len(s)
  BY <1>1, <1>2, CountIs
<1>4. Below(s, n) \in 0..Len(s) - m
  BY <1>1, <1>2, <1>3
<1>5. \A k \in 1..Len(s) : s[k] = n <=> Below(s, n) < k /\ k <= Below(s, n) + m
  BY Block
<1> QED BY <1>4, <1>5 DEF Stands

\* How many of a number, from the places where it is.
At(s, n, K) == K \in SUBSET (1..Len(s)) /\ \A k \in 1..Len(s) : s[k] = n <=> k \in K

LEMMA CountAt ==
    ASSUME NEW s \in Seq(Number), NEW n \in Int, NEW K, At(s, n, K)
    PROVE  GetNumberCount(s, n) = Cardinality(K)
<1>1. DOMAIN s = 1..Len(s)
  BY HandIs
<1>2. {k \in DOMAIN s : s[k] = n} = K
  BY <1>1 DEF At
<1> QED BY <1>2 DEF GetNumberCount

LEMMA PairCard ==
    ASSUME NEW x, NEW y, x # y
    PROVE  IsFiniteSet({x, y}) /\ Cardinality({x, y}) = 2
<1>1. IsFiniteSet({x}) /\ Cardinality({x}) = 1
  BY FS_Singleton
<1>2. IsFiniteSet({x} \union {y}) /\ Cardinality({x} \union {y}) = 2
  BY <1>1, FS_AddElement
<1>3. {x} \union {y} = {x, y}
  OBVIOUS
<1> QED BY <1>2, <1>3

LEMMA TripleCard ==
    ASSUME NEW x, NEW y, NEW z, x # y, y # z, x # z
    PROVE  IsFiniteSet({x, y, z}) /\ Cardinality({x, y, z}) = 3
<1>1. IsFiniteSet({x, y}) /\ Cardinality({x, y}) = 2
  BY PairCard
<1>2. {x, y} \union {z} = {x, y, z}
  OBVIOUS
<1>3. IsFiniteSet({x, y} \union {z}) /\ Cardinality({x, y} \union {z}) = 3
  BY <1>1, FS_AddElement
<1> QED BY <1>2, <1>3

LEMMA FirstThree == Cardinality({1, 2, 3}) = 3
<1>1. IsFiniteSet(1..3) /\ Cardinality(1..3) = 3
  <2> 3 \in Nat
    OBVIOUS
  <2> QED BY UpToCard
<1>2. 1..3 = {1, 2, 3}
  OBVIOUS
<1> QED BY <1>1, <1>2

\* The tests of more than five cards are of the sorted hand.
LEMMA SortedTests ==
    ASSUME NEW s \in Seq(Number), NEW t, t = Sort(s)
    PROVE  /\ IsSTRAIGHT(s) <=> IsSTRAIGHT(t)
           /\ IsTWOTRIPLE(s) <=> IsTWOTRIPLE(t)
           /\ IsQUADDUAL(s) <=> IsQUADDUAL(t)
           /\ IsDUALTHREE(s) <=> IsDUALTHREE(t)
           /\ IsFLIGHTONE(s) <=> IsFLIGHTONE(t)
           /\ IsFLIGHTTWO(s) <=> IsFLIGHTTWO(t)
<1>1. Sort(s) = t /\ Sort(t) = t /\ Len(t) = Len(s)
  BY SortSorts, SortKeeps
<1>2. IsTWOTRIPLE(s) <=> IsTWOTRIPLE(t)
  <2>1. \A n \in Number : n \in Int /\ n + 1 \in Int
    BY NumberIs
  <2>2. \A n \in Number : /\ GetNumberCount(s, n) = GetNumberCount(t, n)
                          /\ GetNumberCount(s, n + 1) = GetNumberCount(t, n + 1)
    BY <2>1, SortCounts
  <2> QED BY <2>2 DEF IsTWOTRIPLE
<1>3. IsSTRAIGHT(s) <=> IsSTRAIGHT(t)
  BY ONLY <1>1 DEF IsSTRAIGHT
<1>4. (IsQUADDUAL(s) <=> IsQUADDUAL(t)) /\ (IsDUALTHREE(s) <=> IsDUALTHREE(t))
  BY ONLY <1>1 DEF IsQUADDUAL, IsDUALTHREE
<1>5. (IsFLIGHTONE(s) <=> IsFLIGHTONE(t)) /\ (IsFLIGHTTWO(s) <=> IsFLIGHTTWO(t))
  BY ONLY <1>1 DEF IsFLIGHTONE, IsFLIGHTTWO
<1> QED BY <1>2, <1>3, <1>4, <1>5

LEMMA OrderOfUpToThree ==
    ASSUME NEW s \in Seq(Number), Len(s) \in 1..3
    PROVE  Type(s) \in {"NONE", Type(Sort(s))}
<1>1. Len(s) \in Nat /\ Len(Sort(s)) = Len(s)
  BY SortSorts
<1>2. CASE Len(s) = 1
  BY <1>1, <1>2, TypeIs
<1>3. CASE Len(s) # 1
  <2>1. CASE Same(s, 1..Len(s))
    <3>1. \A j, k \in 1..Len(s) : s[j] = s[k] /\ s[j] \in Int
      BY <2>1, HandIs DEF Same
    <3>2. Sorted(s)
      BY <3>1 DEF Sorted
    <3> QED BY <3>2, SortKeeps
  <2>2. CASE ~Same(s, 1..Len(s))
    <3>1. CASE Len(s) = 2
      BY <1>1, <2>2, <3>1, TypeIs
    <3>2. CASE Len(s) = 3
      BY <1>1, <2>2, <3>2, TypeIs
    <3> QED BY <1>3, <3>1, <3>2
  <2> QED BY <2>1, <2>2
<1> QED BY <1>2, <1>3

LEMMA OrderOfFour ==
    ASSUME NEW s \in Seq(Number), Len(s) = 4
    PROVE  Type(s) \in {"NONE", Type(Sort(s))}
<1> DEFINE t == Sort(s)
<1>1. /\ t = Sort(s) /\ Sorted(t) /\ t \in Seq(Number) /\ Len(t) = 4 /\ DOMAIN s = 1..4
      /\ \A k \in 1..4 : s[k] \in Number /\ s[k] \in Int
  BY SortSorts, HandIs, SortedIs
<1>2. Type(s) = TypeOfFour(s) /\ Type(t) = TypeOfFour(t)
  BY <1>1, TypeIs
<1> HIDE DEF t
<1>3. CASE Same(s, 1..4)
  <2>1. \A j, k \in 1..4 : s[j] = s[k]
    BY <1>3 DEF Same
  <2>2. Sorted(s)
    BY <1>1, <2>1 DEF Sorted
  <2> QED BY <1>1, <2>2, SortKeeps
<1>4. CASE ~Same(s, 1..4) /\ \E K \in {1..3, {1, 2, 4}, 2..4} : Same(s, K)
  <2>1. PICK K \in {{1, 2, 3}, {1, 2, 4}, {2, 3, 4}} : Same(s, K)
    <3>1. 1..3 = {1, 2, 3} /\ 2..4 = {2, 3, 4}
      OBVIOUS
    <3> QED BY <1>4, <3>1
  <2>2. Cardinality(K) = 3
    <3> 1 # 2 /\ 2 # 3 /\ 1 # 3 /\ 2 # 4 /\ 1 # 4 /\ 3 # 4
      OBVIOUS
    <3>1. Cardinality({1, 2, 3}) = 3
      BY FirstThree
    <3>2. Cardinality({1, 2, 4}) = 3
      BY TripleCard
    <3>3. Cardinality({2, 3, 4}) = 3
      BY TripleCard
    <3> QED BY <2>1, <3>1, <3>2, <3>3
  <2>3. PICK n \in Number : \A k \in 1..4 : s[k] = n <=> k \in K
    <3>1. 2 \in K /\ K \in SUBSET (1..4)
      BY <2>1
    <3>2. \A k \in K : s[k] = s[2]
      BY <2>1, <3>1 DEF Same
    <3>3. \A k \in 1..4 : s[k] = s[2] => k \in K
      BY <1>4, <2>1, <3>2 DEF Same
    <3> QED BY <1>1, <3>1, <3>2, <3>3
  <2>4. n \in Int /\ K \in SUBSET (1..4)
    BY <2>1, NumberIs
  <2>5. GetNumberCount(s, n) = 3
    <3>1. At(s, n, K)
      BY <2>3, <2>4 DEF At
    <3> QED BY <2>2, <2>4, <3>1, CountAt
  <2>6. GetNumberCount(t, n) = 3
    BY <1>1, <2>4, <2>5, SortCounts
  <2>7. PICK p \in 0..1 : \A k \in 1..4 : t[k] = n <=> p < k /\ k <= p + 3
    <3>1. 3 \in Nat
      OBVIOUS
    <3>2. Stands(t, n, Below(t, n), 3)
      BY <1>1, <2>4, <2>6, <3>1, BlockAt
    <3> QED BY <1>1, <3>2 DEF Stands
  <2>8. ~Same(t, 1..4) /\ (Same(t, 1..3) \/ Same(t, 2..4))
    BY <2>7 DEF Same
  <2>9. 1..3 \in {1..3, {1, 2, 4}, 2..4} /\ 2..4 \in {1..3, {1, 2, 4}, 2..4}
    OBVIOUS
  <2>10. TypeOfFour(s) = "TRIPLEONE"
    BY <1>4 DEF TypeOfFour
  <2>11. TypeOfFour(t) = "TRIPLEONE"
    BY <2>8, <2>9 DEF TypeOfFour
  <2> QED BY <1>1, <1>2, <2>10, <2>11
<1>5. CASE ~Same(s, 1..4) /\ ~\E K \in {1..3, {1, 2, 4}, 2..4} : Same(s, K)
  BY <1>2, <1>5 DEF TypeOfFour
<1> QED BY <1>1, <1>3, <1>4, <1>5

\* A sorted hand with its first card behind the others as an ace.
LEMMA AceLast ==
    ASSUME NEW s \in Seq(Number), Len(s) # 0
    PROVE  /\ Append(Tail(s), 1) \in Seq(Number) /\ Len(Append(Tail(s), 1)) = Len(s)
           /\ \A k \in 1..Len(s) - 1 : Append(Tail(s), 1)[k] = s[k + 1]
           /\ Append(Tail(s), 1)[Len(s)] = 1
<1>1. s # << >> /\ Len(s) \in Nat
  OBVIOUS
<1>2. /\ Tail(s) \in Seq(Number) /\ Len(Tail(s)) = Len(s) - 1
      /\ \A i \in 1..Len(Tail(s)) : Tail(s)[i] = s[i + 1]
  BY <1>1, HeadTailProperties
<1>3. 1 \in Number
  BY NumberIs
<1>4. /\ Append(Tail(s), 1) \in Seq(Number) /\ Len(Append(Tail(s), 1)) = Len(Tail(s)) + 1
      /\ \A i \in 1..Len(Tail(s)) : Append(Tail(s), 1)[i] = Tail(s)[i]
      /\ Append(Tail(s), 1)[Len(Tail(s)) + 1] = 1
  BY <1>2, <1>3, AppendProperties
<1>5. Len(Tail(s)) + 1 = Len(s)
  BY <1>1, <1>2
<1> QED BY <1>2, <1>4, <1>5

PairAndTriple(s) == \/ Same(s, {1, 2}) /\ Same(s, 3..5)
                    \/ Same(s, 1..3) /\ Same(s, {4, 5})

LEMMA FiveIs ==
    ASSUME NEW s
    PROVE  TypeOfFive(s) = IF PairAndTriple(s) THEN "TRIPLETWO"
                           ELSE IF IsSTRAIGHT(s) THEN "STRAIGHT" ELSE "NONE"
BY Zenon DEF TypeOfFive, PairAndTriple

LEMMA PairAndTripleIs ==
    ASSUME NEW s
    PROVE  PairAndTriple(s) <=> /\ s[1] = s[2] /\ s[4] = s[5]
                                /\ s[3] = s[4] \/ s[2] = s[3]
<1>1. 3..5 = {3, 4, 5} /\ 1..3 = {1, 2, 3}
  OBVIOUS
<1> QED BY <1>1 DEF PairAndTriple, Same

LEMMA OrderOfFive ==
    ASSUME NEW s \in Seq(Number), Len(s) = 5
    PROVE  Type(s) \in {"NONE", Type(Sort(s))}
<1> DEFINE t == Sort(s)
<1>1. /\ t = Sort(s) /\ Sorted(t) /\ t \in Seq(Number) /\ Len(t) = 5 /\ DOMAIN s = 1..5
      /\ \A k \in 1..5 : s[k] \in Number /\ s[k] \in Int /\ t[k] \in Number /\ t[k] \in Int
  BY SortSorts, HandIs, SortedIs
<1>2. Type(s) = TypeOfFive(s) /\ Type(t) = TypeOfFive(t)
  BY <1>1, TypeIs
<1>3. IsSTRAIGHT(s) <=> IsSTRAIGHT(t)
  BY <1>1, SortedTests
<1> HIDE DEF t
<1>4. ASSUME PairAndTriple(s) PROVE PairAndTriple(t)
  <2>1. /\ s[1] = s[2] /\ s[4] = s[5]
        /\ s[3] = s[4] \/ s[2] = s[3]
    BY <1>4, PairAndTripleIs
  <2>2. CASE s[1] = s[5]
    <3>1. \A j, k \in 1..5 : s[j] = s[k]
      <4>1. s[1] = s[2] /\ s[3] = s[2] /\ s[4] = s[2] /\ s[5] = s[2]
        BY <2>1, <2>2
      <4>2. \A k \in 1..5 : k \in {1, 2, 3, 4, 5}
        OBVIOUS
      <4>3. \A k \in 1..5 : s[k] = s[2]
        BY <4>1, <4>2
      <4> QED BY <4>3
    <3>2. Sorted(s)
      BY <1>1, <3>1 DEF Sorted
    <3> QED BY <1>1, <1>4, <3>2, SortKeeps
  <2>3. CASE s[1] # s[5]
    <3>1. PICK m \in Number, n \in Number :
            /\ GetNumberCount(s, m) = 2 /\ GetNumberCount(s, n) = 3 /\ m # n
      <4>1. CASE s[3] = s[4]
        <5>1. \A k \in 1..5 : (s[k] = s[1] <=> k \in {1, 2}) /\ (s[k] = s[5] <=> k \in {3, 4, 5})
          BY <2>1, <2>3, <4>1
        <5>2. Cardinality({1, 2}) = 2 /\ Cardinality({3, 4, 5}) = 3
          <6> 1 # 2 /\ 3 # 4 /\ 4 # 5 /\ 3 # 5
            OBVIOUS
          <6>1. Cardinality({1, 2}) = 2
            BY PairCard
          <6>2. Cardinality({3, 4, 5}) = 3
            BY TripleCard
          <6> QED BY <6>1, <6>2
        <5>3. At(s, s[1], {1, 2}) /\ At(s, s[5], {3, 4, 5})
          BY <1>1, <5>1 DEF At
        <5>4. GetNumberCount(s, s[1]) = 2 /\ GetNumberCount(s, s[5]) = 3
          BY <1>1, <5>1, <5>2, <5>3, CountAt
        <5> QED BY <1>1, <2>3, <5>4
      <4>2. CASE s[2] = s[3]
        <5>1. \A k \in 1..5 : (s[k] = s[1] <=> k \in {1, 2, 3}) /\ (s[k] = s[5] <=> k \in {4, 5})
          BY <2>1, <2>3, <4>2
        <5>2. Cardinality({1, 2, 3}) = 3 /\ Cardinality({4, 5}) = 2
          <6> 4 # 5
            OBVIOUS
          <6>1. Cardinality({1, 2, 3}) = 3
            BY FirstThree
          <6>2. Cardinality({4, 5}) = 2
            BY PairCard
          <6> QED BY <6>1, <6>2
        <5>3. At(s, s[1], {1, 2, 3}) /\ At(s, s[5], {4, 5})
          BY <1>1, <5>1 DEF At
        <5>4. GetNumberCount(s, s[1]) = 3 /\ GetNumberCount(s, s[5]) = 2
          BY <1>1, <5>1, <5>2, <5>3, CountAt
        <5> QED BY <1>1, <2>3, <5>4
      <4> QED BY <2>1, <4>1, <4>2
    <3>2. m \in Int /\ n \in Int
      BY NumberIs
    <3>3. GetNumberCount(t, m) = 2 /\ GetNumberCount(t, n) = 3
      BY <1>1, <3>1, <3>2, SortCounts
    <3>4. PICK p \in 0..3 : \A k \in 1..5 : t[k] = m <=> p < k /\ k <= p + 2
      <4>1. Stands(t, m, Below(t, m), 2)
        <5> 2 \in Nat
          OBVIOUS
        <5> QED BY <1>1, <3>2, <3>3, BlockAt
      <4> QED BY <1>1, <4>1, SMTT(30) DEF Stands
    <3>5. PICK q \in 0..2 : \A k \in 1..5 : t[k] = n <=> q < k /\ k <= q + 3
      <4>1. Stands(t, n, Below(t, n), 3)
        <5> 3 \in Nat
          OBVIOUS
        <5> QED BY <1>1, <3>2, <3>3, BlockAt
      <4> QED BY <1>1, <4>1, SMTT(30) DEF Stands
    <3>6. (p = 0 /\ q = 2) \/ (p = 3 /\ q = 0)
      <4>1. \A k \in 1..5 : ~(p < k /\ k <= p + 2 /\ q < k /\ k <= q + 3)
        BY <3>1, <3>4, <3>5
      <4>2. 2 \in 1..5 /\ 3 \in 1..5 /\ 4 \in 1..5
        OBVIOUS
      <4>3. /\ ~(p < 2 /\ 2 <= p + 2 /\ q < 2 /\ 2 <= q + 3)
            /\ ~(p < 3 /\ 3 <= p + 2 /\ q < 3 /\ 3 <= q + 3)
            /\ ~(p < 4 /\ 4 <= p + 2 /\ q < 4 /\ 4 <= q + 3)
        BY <4>1, <4>2
      <4>4. p \in 0..3 /\ q \in 0..2
        BY <3>4, <3>5
      <4> QED BY ONLY <4>3, <4>4
    <3>7. t[1] = t[2] /\ t[4] = t[5] /\ (t[3] = t[4] \/ t[2] = t[3])
      BY <3>4, <3>5, <3>6
    <3> QED BY <3>7, PairAndTripleIs
  <2> QED BY <2>2, <2>3
<1>5. ASSUME IsSTRAIGHT(t) PROVE ~PairAndTriple(t)
  <2>1. Sort(t) = t
    BY <1>1, SortKeeps
  <2>2. t[2] - t[1] = 1 \/ t[5] - t[4] = 1
    <3>1. CASE t[1] = 1
      <4> DEFINE r == Append(Tail(t), 1)
      <4>1. Len(r) = 5 /\ r[4] = t[5] /\ r[3] = t[4]
        <5>1. Len(r) = Len(t) /\ \A k \in 1..Len(t) - 1 : r[k] = t[k + 1]
          <6> t \in Seq(Number) /\ Len(t) # 0
            BY <1>1
          <6> QED BY AceLast
        <5>2. 3 \in 1..Len(t) - 1 /\ 4 \in 1..Len(t) - 1 /\ 3 + 1 = 4 /\ 4 + 1 = 5
          BY <1>1
        <5> QED BY <1>1, <5>1, <5>2
      <4>2. r[4] - r[3] = 1
        BY <1>5, <2>1, <3>1, <4>1 DEF IsSTRAIGHT
      <4> QED BY <4>1, <4>2
    <3>2. CASE t[1] # 1
      <4>1. \A k \in 1..Len(t) - 1 : t[k + 1] - t[k] = 1
        BY <1>5, <2>1, <3>2 DEF IsSTRAIGHT
      <4>2. 1 \in 1..Len(t) - 1 /\ 1 + 1 = 2
        BY <1>1
      <4> QED BY <4>1, <4>2
    <3> QED BY <3>1, <3>2
  <2> QED BY <1>1, <2>2, PairAndTripleIs, SMTT(30)
<1> QED BY <1>1, <1>2, <1>3, <1>4, <1>5, FiveIs

\* Poker.cpp:241-318: in whatever order a hand of any length is held, it is of the
\* kind it is of when sorted, or of none: up to five cards are compared as they
\* are held, more are sorted first.
THEOREM KindInAnyOrder ==
    ASSUME NEW s \in Seq(Number)
    PROVE  Type(s) \in {"NONE", Type(Sort(s))}
<1>1. Len(s) \in Nat /\ Len(Sort(s)) = Len(s)
  BY SortSorts
<1>2. CASE Len(s) \notin 1..5
  <2> DEFINE t == Sort(s)
  <2>1. Len(t) = Len(s) /\ t = Sort(s)
    BY <1>1
  <2>2. /\ IsSTRAIGHT(s) <=> IsSTRAIGHT(t)
        /\ IsTWOTRIPLE(s) <=> IsTWOTRIPLE(t)
        /\ IsQUADDUAL(s) <=> IsQUADDUAL(t)
        /\ IsDUALTHREE(s) <=> IsDUALTHREE(t)
        /\ IsFLIGHTONE(s) <=> IsFLIGHTONE(t)
        /\ IsFLIGHTTWO(s) <=> IsFLIGHTTWO(t)
    BY <2>1, SortedTests
  <2> HIDE DEF t
  <2>3. Type(s) = Type(t)
    BY <1>1, <1>2, <2>1, <2>2, TypeLike
  <2> QED BY <2>1, <2>3
<1>3. CASE Len(s) \in 1..3
  BY <1>3, OrderOfUpToThree
<1>4. CASE Len(s) \in {4, 5}
  BY <1>4, OrderOfFour, OrderOfFive
<1> QED BY <1>1, <1>2, <1>3, <1>4

----------------------------------------------------------------------------
(* The numbers held once, twice and so on account for the cards of a hand. *)

Kinds(s, m) == {n \in Number : GetNumberCount(s, n) = m}
HowMany(s, m) == Cardinality(Kinds(s, m))

\* A hand as it is held: sorted, at most four of a number, at most two kings.
Held(s) == /\ Sorted(s) /\ GetNumberCount(s, 0) <= 2
           /\ \A n \in Number : GetNumberCount(s, n) <= 4

LEMMA HasIs ==
    ASSUME NEW s, NEW m
    PROVE  HowMany(s, m) \in Nat /\ IsFiniteSet(Kinds(s, m))
<1>1. IsFiniteSet(Number)
  BY NumberIs, FS_Interval
<1>2. Kinds(s, m) \in SUBSET Number
  BY DEF Kinds
<1>3. IsFiniteSet(Kinds(s, m))
  BY <1>1, <1>2, FS_Subset
<1> QED BY <1>3, FS_CardinalityType DEF HowMany

\* Weights of the numbers below n.
Lower(s, n, m) == {j \in 0..n - 1 : GetNumberCount(s, j) = m}
Weighs(s, n) == /\ \A m \in 1..4 : IsFiniteSet(Lower(s, n, m)) /\ Cardinality(Lower(s, n, m)) \in Nat
                /\ Below(s, n) = Cardinality(Lower(s, n, 1)) + 2 * Cardinality(Lower(s, n, 2))
                                 + 3 * Cardinality(Lower(s, n, 3)) + 4 * Cardinality(Lower(s, n, 4))

LEMMA LowerGrows ==
    ASSUME NEW s, NEW n \in Nat, NEW m,
           IsFiniteSet(Lower(s, n, m)), Cardinality(Lower(s, n, m)) \in Nat
    PROVE  /\ IsFiniteSet(Lower(s, n + 1, m))
           /\ Cardinality(Lower(s, n + 1, m)) = Cardinality(Lower(s, n, m))
                                                + IF GetNumberCount(s, n) = m THEN 1 ELSE 0
<1>1. 0..(n + 1) - 1 = (0..n - 1) \union {n} /\ n \notin 0..n - 1
  OBVIOUS
<1>2. CASE GetNumberCount(s, n) = m
  <2>1. Lower(s, n + 1, m) = Lower(s, n, m) \union {n} /\ n \notin Lower(s, n, m)
    BY <1>1, <1>2 DEF Lower
  <2> QED BY <1>2, <2>1, FS_AddElement
<1>3. CASE GetNumberCount(s, n) # m
  <2>1. Lower(s, n + 1, m) = Lower(s, n, m)
    BY <1>1, <1>3 DEF Lower
  <2> QED BY <1>3, <2>1
<1> QED BY <1>2, <1>3

LEMMA WeighsOn ==
    ASSUME NEW s \in Seq(Number), NEW n \in Number, GetNumberCount(s, n) <= 4, Weighs(s, n)
    PROVE  Weighs(s, n + 1)
<1>1. n \in Nat /\ n \in Int
  BY NumberIs
<1>2. PICK g \in Nat, w \in Nat : /\ g = GetNumberCount(s, n) /\ g <= 4
                                 /\ w = Below(s, n) /\ Below(s, n + 1) = w + g
  BY <1>1, CountIs
<1>3. PICK a \in Nat, b \in Nat, c \in Nat, d \in Nat :
        /\ a = Cardinality(Lower(s, n, 1)) /\ b = Cardinality(Lower(s, n, 2))
        /\ c = Cardinality(Lower(s, n, 3)) /\ d = Cardinality(Lower(s, n, 4))
        /\ w = a + 2 * b + 3 * c + 4 * d
  <2>1. 1 \in 1..4 /\ 2 \in 1..4 /\ 3 \in 1..4 /\ 4 \in 1..4
    OBVIOUS
  <2> QED BY <1>2, <2>1 DEF Weighs
<1>4. \A m \in 1..4 : /\ IsFiniteSet(Lower(s, n + 1, m))
                      /\ Cardinality(Lower(s, n + 1, m)) = Cardinality(Lower(s, n, m))
                                                           + IF g = m THEN 1 ELSE 0
  <2> TAKE m \in 1..4
  <2>1. IsFiniteSet(Lower(s, n, m)) /\ Cardinality(Lower(s, n, m)) \in Nat
    BY DEF Weighs
  <2> QED BY <1>1, <1>2, <2>1, LowerGrows
<1>5. \A m \in 1..4 : Cardinality(Lower(s, n + 1, m)) \in Nat
  BY <1>4, FS_CardinalityType
<1>6. PICK aa \in Nat, bb \in Nat, cc \in Nat, dd \in Nat :
        /\ aa = Cardinality(Lower(s, n + 1, 1)) /\ bb = Cardinality(Lower(s, n + 1, 2))
        /\ cc = Cardinality(Lower(s, n + 1, 3)) /\ dd = Cardinality(Lower(s, n + 1, 4))
        /\ aa = a + (IF g = 1 THEN 1 ELSE 0) /\ bb = b + (IF g = 2 THEN 1 ELSE 0)
        /\ cc = c + (IF g = 3 THEN 1 ELSE 0) /\ dd = d + (IF g = 4 THEN 1 ELSE 0)
  <2>1. 1 \in 1..4 /\ 2 \in 1..4 /\ 3 \in 1..4 /\ 4 \in 1..4
    OBVIOUS
  <2> QED BY <1>3, <1>4, <1>5, <2>1
<1>7. w + g = aa + 2 * bb + 3 * cc + 4 * dd
  <2>1. /\ w = a + 2 * b + 3 * c + 4 * d
        /\ g = 0 \/ g = 1 \/ g = 2 \/ g = 3 \/ g = 4
    <3>1. g \in Nat /\ g <= 4
      BY <1>2
    <3> QED BY ONLY <1>3, <3>1
  <2>2. /\ aa = a + (IF g = 1 THEN 1 ELSE 0) /\ bb = b + (IF g = 2 THEN 1 ELSE 0)
        /\ cc = c + (IF g = 3 THEN 1 ELSE 0) /\ dd = d + (IF g = 4 THEN 1 ELSE 0)
    BY <1>6
  <2>3. CASE g = 0
    BY ONLY <2>1, <2>2, <2>3
  <2>4. CASE g = 1
    BY ONLY <2>1, <2>2, <2>4
  <2>5. CASE g = 2
    BY ONLY <2>1, <2>2, <2>5
  <2>6. CASE g = 3
    BY ONLY <2>1, <2>2, <2>6
  <2>7. CASE g = 4
    BY ONLY <2>1, <2>2, <2>7
  <2> QED BY <2>1, <2>3, <2>4, <2>5, <2>6, <2>7
<1> QED BY <1>2, <1>4, <1>5, <1>6, <1>7 DEF Weighs

LEMMA Weight ==
    ASSUME NEW s \in Seq(Number), \A n \in Number : GetNumberCount(s, n) <= 4
    PROVE  HowMany(s, 1) + 2 * HowMany(s, 2) + 3 * HowMany(s, 3) + 4 * HowMany(s, 4) = Len(s)
<1> DEFINE W == {n \in 0..KING + 1 : Weighs(s, n)}
<1>1. KING \in Nat /\ KING + 1 \in Nat /\ Number = 0..KING
  BY NumberIs
<1>2. 0 \in W
  <2>1. \A m : Lower(s, 0, m) = {}
    BY DEF Lower
  <2>2. Below(s, 0) = 0
    <3>1. {k \in DOMAIN s : s[k] < 0} = {}
      BY HandIs
    <3> QED BY <3>1, FS_EmptySet DEF Below
  <2>3. IsFiniteSet({}) /\ Cardinality({}) = 0
    BY FS_EmptySet
  <2>4. \A m : IsFiniteSet(Lower(s, 0, m)) /\ Cardinality(Lower(s, 0, m)) = 0
    BY <2>1, <2>3
  <2>5. 0 = 0 + 2 * 0 + 3 * 0 + 4 * 0 /\ 0 \in Nat
    OBVIOUS
  <2>6. Weighs(s, 0)
    BY ONLY <2>2, <2>4, <2>5 DEF Weighs
  <2> QED BY <1>1, <2>6
<1>3. \A k \in 1..KING + 1 : k - 1 \in W => k \in W
  <2> SUFFICES ASSUME NEW k \in 1..KING + 1, k - 1 \in W PROVE k \in W
    OBVIOUS
  <2>1. k - 1 \in Number /\ (k - 1) + 1 = k /\ Weighs(s, k - 1)
    BY <1>1
  <2> HIDE DEF W
  <2>2. Weighs(s, (k - 1) + 1)
    BY ONLY <2>1, WeighsOn, s \in Seq(Number), \A n \in Number : GetNumberCount(s, n) <= 4
  <2> QED BY <2>1, <2>2 DEF W
<1>4. Weighs(s, KING + 1)
  <2> HIDE DEF W
  <2>1. KING + 1 \in W
    <3>1. \A k \in 0..KING + 1 : k \in W
      BY <1>1, <1>2, <1>3, UpTo
    <3> QED BY <1>1, <3>1
  <2> QED BY <2>1 DEF W
<1>5. \A m \in 1..4 : Lower(s, KING + 1, m) = Kinds(s, m)
  <2>1. 0..(KING + 1) - 1 = Number
    BY <1>1
  <2> QED BY <2>1 DEF Lower, Kinds
<1>6. Below(s, KING + 1) = Len(s)
  <2>1. Len(s) \in Nat /\ {k \in DOMAIN s : s[k] < KING + 1} = 1..Len(s)
    BY <1>1, HandIs
  <2> QED BY <2>1, UpToCard DEF Below
<1> QED BY <1>4, <1>5, <1>6 DEF Weighs, HowMany

\* Sets of one, two and three numbers.
LEMMA HasNone ==
    ASSUME NEW s, NEW m
    PROVE  HowMany(s, m) = 0 <=> Kinds(s, m) = {}
BY HasIs, FS_EmptySet DEF HowMany

LEMMA HasTwo ==
    ASSUME NEW s, NEW m, NEW x \in Kinds(s, m), NEW y \in Kinds(s, m), x # y
    PROVE  /\ HowMany(s, m) >= 2
           /\ HowMany(s, m) = 2 => Kinds(s, m) = {x, y}
<1> DEFINE D == Kinds(s, m) \ {x, y}
<1>1. IsFiniteSet(Kinds(s, m)) /\ {x, y} \in SUBSET Kinds(s, m) /\ HowMany(s, m) \in Nat
  BY HasIs
<1>2. Cardinality({x, y}) = 2 /\ IsFiniteSet({x, y})
  BY PairCard
<1>3. Cardinality({x, y}) <= HowMany(s, m)
  BY <1>1, FS_Subset DEF HowMany
<1>4. ASSUME HowMany(s, m) = 2 PROVE Kinds(s, m) = {x, y}
  BY <1>1, <1>2, <1>4, FS_Subset DEF HowMany
<1> QED BY <1>1, <1>2, <1>3, <1>4

LEMMA HasThree ==
    ASSUME NEW s, NEW m, NEW x \in Kinds(s, m), NEW y \in Kinds(s, m), NEW z \in Kinds(s, m),
           x # y, y # z, x # z
    PROVE  /\ HowMany(s, m) >= 3
           /\ HowMany(s, m) = 3 => Kinds(s, m) = {x, y, z}
<1>1. IsFiniteSet(Kinds(s, m)) /\ {x, y, z} \in SUBSET Kinds(s, m) /\ HowMany(s, m) \in Nat
  BY HasIs
<1>2. Cardinality({x, y, z}) = 3 /\ IsFiniteSet({x, y, z})
  BY TripleCard
<1>3. Cardinality({x, y, z}) <= HowMany(s, m)
  BY <1>1, FS_Subset DEF HowMany
<1>4. ASSUME HowMany(s, m) = 3 PROVE Kinds(s, m) = {x, y, z}
  BY <1>1, <1>2, <1>4, FS_Subset DEF HowMany
<1> QED BY <1>1, <1>2, <1>3, <1>4

LEMMA HasMore ==
    ASSUME NEW s, NEW m, HowMany(s, m) >= 2
    PROVE  \E x, y \in Kinds(s, m) : x < y
<1>1. HowMany(s, m) \in Nat /\ IsFiniteSet(Kinds(s, m)) /\ Kinds(s, m) # {}
  BY HasIs, HasNone
<1>2. PICK x \in Kinds(s, m) : TRUE
  BY <1>1
<1>3. \E y \in Kinds(s, m) : y # x
  <2> SUFFICES ASSUME Kinds(s, m) = {x} PROVE FALSE
    BY <1>2
  <2>1. Cardinality({x}) = 1
    BY FS_Singleton
  <2> QED BY <2>1 DEF HowMany
<1>4. \A z \in Kinds(s, m) : z \in Int
  BY NumberIs DEF Kinds
<1>5. PICK y \in Kinds(s, m) : y # x
  BY <1>3
<1> QED BY <1>2, <1>4, <1>5

----------------------------------------------------------------------------
(* What a hand is meant to be, by how many numbers it has once, twice ...  *)

Shape(s, a, b, c, d) == HowMany(s, 1) = a /\ HowMany(s, 2) = b /\ HowMany(s, 3) = c /\ HowMany(s, 4) = d
RowOf(s, m) == Row(Kinds(s, m))

LEMMA ShapeIs ==
    ASSUME NEW s, NEW a, NEW b, NEW c, NEW d
    PROVE  [m \in 1..4 |-> HowMany(s, m)] = << a, b, c, d >> <=> Shape(s, a, b, c, d)
<1> DEFINE f == [m \in 1..4 |-> HowMany(s, m)]
           t == << a, b, c, d >>
<1>1. f = t <=> \A m \in 1..4 : f[m] = t[m]
  <2>1. DOMAIN t = 1..4 /\ DOMAIN f = 1..4
    OBVIOUS
  <2>2. t = [m \in 1..4 |-> t[m]] /\ f = [m \in 1..4 |-> f[m]]
    OBVIOUS
  <2> HIDE DEF f, t
  <2> QED BY <2>2
<1>2. (\A m \in 1..4 : f[m] = t[m]) <=> Shape(s, a, b, c, d)
  <2>1. 1..4 = {1, 2, 3, 4}
    OBVIOUS
  <2>2. t[1] = a /\ t[2] = b /\ t[3] = c /\ t[4] = d
    OBVIOUS
  <2>3. f[1] = HowMany(s, 1) /\ f[2] = HowMany(s, 2) /\ f[3] = HowMany(s, 3) /\ f[4] = HowMany(s, 4)
    OBVIOUS
  <2> HIDE DEF f, t
  <2> QED BY <2>1, <2>2, <2>3 DEF Shape
<1> QED BY <1>1, <1>2

LEMMA MeantIs ==
    ASSUME NEW s
    PROVE  MeantType(s) =
      CASE Shape(s, 1, 0, 0, 0) -> "SINGLE"
        [] Shape(s, 0, 1, 0, 0) -> IF s[1] = 0 THEN "ROCKET" ELSE "DUAL"
        [] Shape(s, 0, 0, 1, 0) -> "TRIPLE"
        [] Shape(s, 0, 0, 0, 1) -> "BOMB"
        [] Shape(s, 1, 0, 1, 0) -> "TRIPLEONE"
        [] Shape(s, 0, 1, 1, 0) -> "TRIPLETWO"
        [] Shape(s, 0, 1, 0, 1) -> "QUADDUAL"
        [] Shape(s, 0, 0, 2, 0) /\ RowOf(s, 3) -> "TWOTRIPLE"
        [] Shape(s, 0, 3, 0, 0) /\ RowOf(s, 2) -> "DUALTHREE"
        [] HowMany(s, 1) >= 5 /\ Shape(s, HowMany(s, 1), 0, 0, 0) /\ RowOf(s, 1) -> "STRAIGHT"
        [] (Shape(s, 2, 0, 2, 0) \/ Shape(s, 0, 1, 2, 0)) /\ RowOf(s, 3) -> "FLIGHTONE"
        [] Shape(s, 0, 2, 2, 0) /\ RowOf(s, 3) -> "FLIGHTTWO"
        [] OTHER -> "NONE"
<1> DEFINE count == [n \in Number |-> GetNumberCount(s, n)]
           shape == [m \in 1..4 |-> Cardinality({n \in Number : count[n] = m})]
<1>1. \A m : {n \in Number : count[n] = m} = Kinds(s, m)
  BY DEF Kinds
<1>2. shape = [m \in 1..4 |-> HowMany(s, m)] /\ shape[1] = HowMany(s, 1)
  <2>1. \A m : Cardinality({n \in Number : count[n] = m}) = HowMany(s, m)
    BY <1>1 DEF HowMany
  <2> HIDE DEF count
  <2> QED BY <2>1
<1>3. \A a, b, c, d : shape = << a, b, c, d >> <=> Shape(s, a, b, c, d)
  BY <1>2, ShapeIs
<1>4. shape \in {<< 2, 0, 2, 0 >>, << 0, 1, 2, 0 >>} <=> Shape(s, 2, 0, 2, 0) \/ Shape(s, 0, 1, 2, 0)
  <2> HIDE DEF shape
  <2> QED BY <1>3
<1>5. \A m : Row({n \in Number : count[n] = m}) <=> RowOf(s, m)
  BY <1>1 DEF RowOf
<1>6. MeantType(s) =
        CASE shape = << 1, 0, 0, 0 >> -> "SINGLE"
          [] shape = << 0, 1, 0, 0 >> -> IF s[1] = 0 THEN "ROCKET" ELSE "DUAL"
          [] shape = << 0, 0, 1, 0 >> -> "TRIPLE"
          [] shape = << 0, 0, 0, 1 >> -> "BOMB"
          [] shape = << 1, 0, 1, 0 >> -> "TRIPLEONE"
          [] shape = << 0, 1, 1, 0 >> -> "TRIPLETWO"
          [] shape = << 0, 1, 0, 1 >> -> "QUADDUAL"
          [] shape = << 0, 0, 2, 0 >> /\ Row({n \in Number : count[n] = 3}) -> "TWOTRIPLE"
          [] shape = << 0, 3, 0, 0 >> /\ Row({n \in Number : count[n] = 2}) -> "DUALTHREE"
          [] shape[1] >= 5 /\ shape = << shape[1], 0, 0, 0 >>
               /\ Row({n \in Number : count[n] = 1}) -> "STRAIGHT"
          [] shape \in {<< 2, 0, 2, 0 >>, << 0, 1, 2, 0 >>}
               /\ Row({n \in Number : count[n] = 3}) -> "FLIGHTONE"
          [] shape = << 0, 2, 2, 0 >> /\ Row({n \in Number : count[n] = 3}) -> "FLIGHTTWO"
          [] OTHER -> "NONE"
  BY DEF MeantType
<1> HIDE DEF shape, count
<1> QED BY <1>2, <1>3, <1>4, <1>5, <1>6

\* The kind t of a hand of that shape.
Reads(s, t, a, b, c, d) ==
    /\ a = 1 /\ b = 0 /\ c = 0 /\ d = 0 => t = "SINGLE"
    /\ a = 0 /\ b = 1 /\ c = 0 /\ d = 0 => t = IF s[1] = 0 THEN "ROCKET" ELSE "DUAL"
    /\ a = 0 /\ b = 0 /\ c = 1 /\ d = 0 => t = "TRIPLE"
    /\ a = 0 /\ b = 0 /\ c = 0 /\ d = 1 => t = "BOMB"
    /\ a = 1 /\ b = 0 /\ c = 1 /\ d = 0 => t = "TRIPLEONE"
    /\ a = 0 /\ b = 1 /\ c = 1 /\ d = 0 => t = "TRIPLETWO"
    /\ a = 0 /\ b = 1 /\ c = 0 /\ d = 1 => t = "QUADDUAL"
    /\ a = 0 /\ b = 0 /\ c = 2 /\ d = 0 /\ RowOf(s, 3) => t = "TWOTRIPLE"
    /\ a = 0 /\ b = 3 /\ c = 0 /\ d = 0 /\ RowOf(s, 2) => t = "DUALTHREE"
    /\ b = 0 /\ c = 0 /\ d = 0 /\ a >= 5 /\ RowOf(s, 1) => t = "STRAIGHT"
    /\ a = 2 /\ b = 0 /\ c = 2 /\ d = 0 /\ RowOf(s, 3) => t = "FLIGHTONE"
    /\ a = 0 /\ b = 1 /\ c = 2 /\ d = 0 /\ RowOf(s, 3) => t = "FLIGHTONE"
    /\ a = 0 /\ b = 2 /\ c = 2 /\ d = 0 /\ RowOf(s, 3) => t = "FLIGHTTWO"
    /\ /\ ~(a = 1 /\ b = 0 /\ c = 0 /\ d = 0)
       /\ ~(a = 0 /\ b = 1 /\ c = 0 /\ d = 0)
       /\ ~(a = 0 /\ b = 0 /\ c = 1 /\ d = 0)
       /\ ~(a = 0 /\ b = 0 /\ c = 0 /\ d = 1)
       /\ ~(a = 1 /\ b = 0 /\ c = 1 /\ d = 0)
       /\ ~(a = 0 /\ b = 1 /\ c = 1 /\ d = 0)
       /\ ~(a = 0 /\ b = 1 /\ c = 0 /\ d = 1)
       /\ ~(a = 0 /\ b = 0 /\ c = 2 /\ d = 0 /\ RowOf(s, 3))
       /\ ~(a = 0 /\ b = 3 /\ c = 0 /\ d = 0 /\ RowOf(s, 2))
       /\ ~(b = 0 /\ c = 0 /\ d = 0 /\ a >= 5 /\ RowOf(s, 1))
       /\ ~(a = 2 /\ b = 0 /\ c = 2 /\ d = 0 /\ RowOf(s, 3))
       /\ ~(a = 0 /\ b = 1 /\ c = 2 /\ d = 0 /\ RowOf(s, 3))
       /\ ~(a = 0 /\ b = 2 /\ c = 2 /\ d = 0 /\ RowOf(s, 3))
       => t = "NONE"

LEMMA MeantBy ==
    ASSUME NEW s, NEW a \in Nat, NEW b \in Nat, NEW c \in Nat, NEW d \in Nat, Shape(s, a, b, c, d)
    PROVE  Reads(s, MeantType(s), a, b, c, d)
<1>1. HowMany(s, 1) = a /\ HowMany(s, 2) = b /\ HowMany(s, 3) = c /\ HowMany(s, 4) = d
  BY DEF Shape
<1>2. ASSUME a = 1 /\ b = 0 /\ c = 0 /\ d = 0 PROVE MeantType(s) = "SINGLE"
  BY ONLY <1>1, <1>2, MeantIs DEF Shape
<1>3. ASSUME a = 0 /\ b = 1 /\ c = 0 /\ d = 0 PROVE MeantType(s) = IF s[1] = 0 THEN "ROCKET" ELSE "DUAL"
  BY ONLY <1>1, <1>3, MeantIs DEF Shape
<1>4. ASSUME a = 0 /\ b = 0 /\ c = 1 /\ d = 0 PROVE MeantType(s) = "TRIPLE"
  BY ONLY <1>1, <1>4, MeantIs DEF Shape
<1>5. ASSUME a = 0 /\ b = 0 /\ c = 0 /\ d = 1 PROVE MeantType(s) = "BOMB"
  BY ONLY <1>1, <1>5, MeantIs DEF Shape
<1>6. ASSUME a = 1 /\ b = 0 /\ c = 1 /\ d = 0 PROVE MeantType(s) = "TRIPLEONE"
  BY ONLY <1>1, <1>6, MeantIs DEF Shape
<1>7. ASSUME a = 0 /\ b = 1 /\ c = 1 /\ d = 0 PROVE MeantType(s) = "TRIPLETWO"
  BY ONLY <1>1, <1>7, MeantIs DEF Shape
<1>8. ASSUME a = 0 /\ b = 1 /\ c = 0 /\ d = 1 PROVE MeantType(s) = "QUADDUAL"
  BY ONLY <1>1, <1>8, MeantIs DEF Shape
<1>9. ASSUME a = 0 /\ b = 0 /\ c = 2 /\ d = 0 /\ RowOf(s, 3) PROVE MeantType(s) = "TWOTRIPLE"
  BY ONLY <1>1, <1>9, MeantIs DEF Shape
<1>10. ASSUME a = 0 /\ b = 3 /\ c = 0 /\ d = 0 /\ RowOf(s, 2) PROVE MeantType(s) = "DUALTHREE"
  BY ONLY <1>1, <1>10, MeantIs DEF Shape
<1>11. ASSUME b = 0 /\ c = 0 /\ d = 0 /\ a >= 5 /\ RowOf(s, 1) PROVE MeantType(s) = "STRAIGHT"
  BY ONLY <1>1, <1>11, MeantIs DEF Shape
<1>12. ASSUME a = 2 /\ b = 0 /\ c = 2 /\ d = 0 /\ RowOf(s, 3) PROVE MeantType(s) = "FLIGHTONE"
  BY ONLY <1>1, <1>12, MeantIs DEF Shape
<1>13. ASSUME a = 0 /\ b = 1 /\ c = 2 /\ d = 0 /\ RowOf(s, 3) PROVE MeantType(s) = "FLIGHTONE"
  BY ONLY <1>1, <1>13, MeantIs DEF Shape
<1>14. ASSUME a = 0 /\ b = 2 /\ c = 2 /\ d = 0 /\ RowOf(s, 3) PROVE MeantType(s) = "FLIGHTTWO"
  BY ONLY <1>1, <1>14, MeantIs DEF Shape
<1>15. ASSUME ~(a = 1 /\ b = 0 /\ c = 0 /\ d = 0),
              ~(a = 0 /\ b = 1 /\ c = 0 /\ d = 0),
              ~(a = 0 /\ b = 0 /\ c = 1 /\ d = 0),
              ~(a = 0 /\ b = 0 /\ c = 0 /\ d = 1),
              ~(a = 1 /\ b = 0 /\ c = 1 /\ d = 0),
              ~(a = 0 /\ b = 1 /\ c = 1 /\ d = 0),
              ~(a = 0 /\ b = 1 /\ c = 0 /\ d = 1),
              ~(a = 0 /\ b = 0 /\ c = 2 /\ d = 0 /\ RowOf(s, 3)),
              ~(a = 0 /\ b = 3 /\ c = 0 /\ d = 0 /\ RowOf(s, 2)),
              ~(b = 0 /\ c = 0 /\ d = 0 /\ a >= 5 /\ RowOf(s, 1)),
              ~(a = 2 /\ b = 0 /\ c = 2 /\ d = 0 /\ RowOf(s, 3)),
              ~(a = 0 /\ b = 1 /\ c = 2 /\ d = 0 /\ RowOf(s, 3)),
              ~(a = 0 /\ b = 2 /\ c = 2 /\ d = 0 /\ RowOf(s, 3))
       PROVE  MeantType(s) = "NONE"
  BY ONLY <1>1, <1>15, MeantIs DEF Shape
<1> QED BY <1>2, <1>3, <1>4, <1>5, <1>6, <1>7, <1>8, <1>9, <1>10, <1>11, <1>12, <1>13, <1>14, <1>15 DEF Reads

LEMMA ShapeOf ==
    ASSUME NEW s \in Seq(Number), \A n \in Number : GetNumberCount(s, n) <= 4
    PROVE  \E a, b, c, d, k \in Nat :
              /\ Shape(s, a, b, c, d) /\ k = Len(s) /\ a + 2 * b + 3 * c + 4 * d = k
              /\ Reads(s, MeantType(s), a, b, c, d)
<1>1. PICK a \in Nat, b \in Nat, c \in Nat, d \in Nat, k \in Nat :
        /\ Shape(s, a, b, c, d) /\ k = Len(s) /\ a + 2 * b + 3 * c + 4 * d = k
  BY HasIs, Weight, HandIs DEF Shape
<1>2. Reads(s, MeantType(s), a, b, c, d)
  BY <1>1, MeantBy
<1> QED BY <1>1, <1>2

LEMMA MeantOne ==
    ASSUME NEW s \in Seq(Number), \A n \in Number : GetNumberCount(s, n) <= 4, Len(s) = 1
    PROVE  MeantType(s) = "SINGLE"
<1>1. PICK a \in Nat, b \in Nat, c \in Nat, d \in Nat :
        /\ Shape(s, a, b, c, d) /\ a + 2 * b + 3 * c + 4 * d = 1
        /\ Reads(s, MeantType(s), a, b, c, d)
  BY ShapeOf
<1> DEFINE t == MeantType(s)
<1>2. /\ HowMany(s, 1) = a /\ HowMany(s, 2) = b /\ HowMany(s, 3) = c /\ HowMany(s, 4) = d
      /\ Reads(s, t, a, b, c, d)
  BY <1>1 DEF Shape
<1> HIDE DEF t
<1>3. CASE a = 1 /\ b = 0 /\ c = 0 /\ d = 0
  BY ONLY <1>2, <1>3 DEF Reads, t
<1> QED
  <2>1. \/ a = 1 /\ b = 0 /\ c = 0 /\ d = 0
    BY ONLY <1>1, a \in Nat, b \in Nat, c \in Nat, d \in Nat
  <2> QED BY <2>1, <1>3

LEMMA MeantTwo ==
    ASSUME NEW s \in Seq(Number), \A n \in Number : GetNumberCount(s, n) <= 4, Len(s) = 2
    PROVE  MeantType(s) = IF HowMany(s, 2) # 0 THEN IF s[1] = 0 THEN "ROCKET" ELSE "DUAL"
                          ELSE "NONE"
<1>1. PICK a \in Nat, b \in Nat, c \in Nat, d \in Nat :
        /\ Shape(s, a, b, c, d) /\ a + 2 * b + 3 * c + 4 * d = 2
        /\ Reads(s, MeantType(s), a, b, c, d)
  BY ShapeOf
<1> DEFINE t == MeantType(s)
<1>2. /\ HowMany(s, 1) = a /\ HowMany(s, 2) = b /\ HowMany(s, 3) = c /\ HowMany(s, 4) = d
      /\ Reads(s, t, a, b, c, d)
  BY <1>1 DEF Shape
<1> HIDE DEF t
<1>3. CASE a = 2 /\ b = 0 /\ c = 0 /\ d = 0
  BY ONLY <1>2, <1>3 DEF Reads, t
<1>4. CASE a = 0 /\ b = 1 /\ c = 0 /\ d = 0
  BY ONLY <1>2, <1>4 DEF Reads, t
<1> QED
  <2>1. \/ a = 2 /\ b = 0 /\ c = 0 /\ d = 0
        \/ a = 0 /\ b = 1 /\ c = 0 /\ d = 0
    BY ONLY <1>1, a \in Nat, b \in Nat, c \in Nat, d \in Nat
  <2> QED BY <2>1, <1>3, <1>4

LEMMA MeantThree ==
    ASSUME NEW s \in Seq(Number), \A n \in Number : GetNumberCount(s, n) <= 4, Len(s) = 3
    PROVE  MeantType(s) = IF HowMany(s, 3) # 0 THEN "TRIPLE" ELSE "NONE"
<1>1. PICK a \in Nat, b \in Nat, c \in Nat, d \in Nat :
        /\ Shape(s, a, b, c, d) /\ a + 2 * b + 3 * c + 4 * d = 3
        /\ Reads(s, MeantType(s), a, b, c, d)
  BY ShapeOf
<1> DEFINE t == MeantType(s)
<1>2. /\ HowMany(s, 1) = a /\ HowMany(s, 2) = b /\ HowMany(s, 3) = c /\ HowMany(s, 4) = d
      /\ Reads(s, t, a, b, c, d)
  BY <1>1 DEF Shape
<1> HIDE DEF t
<1>3. CASE a = 3 /\ b = 0 /\ c = 0 /\ d = 0
  BY ONLY <1>2, <1>3 DEF Reads, t
<1>4. CASE a = 1 /\ b = 1 /\ c = 0 /\ d = 0
  BY ONLY <1>2, <1>4 DEF Reads, t
<1>5. CASE a = 0 /\ b = 0 /\ c = 1 /\ d = 0
  BY ONLY <1>2, <1>5 DEF Reads, t
<1> QED
  <2>1. \/ a = 3 /\ b = 0 /\ c = 0 /\ d = 0
        \/ a = 1 /\ b = 1 /\ c = 0 /\ d = 0
        \/ a = 0 /\ b = 0 /\ c = 1 /\ d = 0
    BY ONLY <1>1, a \in Nat, b \in Nat, c \in Nat, d \in Nat
  <2> QED BY <2>1, <1>3, <1>4, <1>5

LEMMA MeantFour ==
    ASSUME NEW s \in Seq(Number), \A n \in Number : GetNumberCount(s, n) <= 4, Len(s) = 4
    PROVE  MeantType(s) = IF HowMany(s, 4) # 0 THEN "BOMB"
                          ELSE IF HowMany(s, 3) # 0 THEN "TRIPLEONE" ELSE "NONE"
<1>1. PICK a \in Nat, b \in Nat, c \in Nat, d \in Nat :
        /\ Shape(s, a, b, c, d) /\ a + 2 * b + 3 * c + 4 * d = 4
        /\ Reads(s, MeantType(s), a, b, c, d)
  BY ShapeOf
<1> DEFINE t == MeantType(s)
<1>2. /\ HowMany(s, 1) = a /\ HowMany(s, 2) = b /\ HowMany(s, 3) = c /\ HowMany(s, 4) = d
      /\ Reads(s, t, a, b, c, d)
  BY <1>1 DEF Shape
<1> HIDE DEF t
<1>3. CASE a = 4 /\ b = 0 /\ c = 0 /\ d = 0
  BY ONLY <1>2, <1>3 DEF Reads, t
<1>4. CASE a = 2 /\ b = 1 /\ c = 0 /\ d = 0
  BY ONLY <1>2, <1>4 DEF Reads, t
<1>5. CASE a = 0 /\ b = 2 /\ c = 0 /\ d = 0
  BY ONLY <1>2, <1>5 DEF Reads, t
<1>6. CASE a = 1 /\ b = 0 /\ c = 1 /\ d = 0
  BY ONLY <1>2, <1>6 DEF Reads, t
<1>7. CASE a = 0 /\ b = 0 /\ c = 0 /\ d = 1
  BY ONLY <1>2, <1>7 DEF Reads, t
<1> QED
  <2>1. \/ a = 4 /\ b = 0 /\ c = 0 /\ d = 0
        \/ a = 2 /\ b = 1 /\ c = 0 /\ d = 0
        \/ a = 0 /\ b = 2 /\ c = 0 /\ d = 0
        \/ a = 1 /\ b = 0 /\ c = 1 /\ d = 0
        \/ a = 0 /\ b = 0 /\ c = 0 /\ d = 1
    BY ONLY <1>1, a \in Nat, b \in Nat, c \in Nat, d \in Nat
  <2> QED BY <2>1, <1>3, <1>4, <1>5, <1>6, <1>7

LEMMA MeantFive ==
    ASSUME NEW s \in Seq(Number), \A n \in Number : GetNumberCount(s, n) <= 4, Len(s) = 5
    PROVE  MeantType(s) = IF HowMany(s, 2) # 0 /\ HowMany(s, 3) # 0 THEN "TRIPLETWO"
                          ELSE IF HowMany(s, 1) = 5 /\ RowOf(s, 1) THEN "STRAIGHT" ELSE "NONE"
<1>1. PICK a \in Nat, b \in Nat, c \in Nat, d \in Nat :
        /\ Shape(s, a, b, c, d) /\ a + 2 * b + 3 * c + 4 * d = 5
        /\ Reads(s, MeantType(s), a, b, c, d)
  BY ShapeOf
<1> DEFINE t == MeantType(s)
<1>2. /\ HowMany(s, 1) = a /\ HowMany(s, 2) = b /\ HowMany(s, 3) = c /\ HowMany(s, 4) = d
      /\ Reads(s, t, a, b, c, d)
  BY <1>1 DEF Shape
<1> HIDE DEF t
<1>3. CASE a = 5 /\ b = 0 /\ c = 0 /\ d = 0
  BY ONLY <1>2, <1>3 DEF Reads, t
<1>4. CASE a = 3 /\ b = 1 /\ c = 0 /\ d = 0
  BY ONLY <1>2, <1>4 DEF Reads, t
<1>5. CASE a = 1 /\ b = 2 /\ c = 0 /\ d = 0
  BY ONLY <1>2, <1>5 DEF Reads, t
<1>6. CASE a = 2 /\ b = 0 /\ c = 1 /\ d = 0
  BY ONLY <1>2, <1>6 DEF Reads, t
<1>7. CASE a = 0 /\ b = 1 /\ c = 1 /\ d = 0
  BY ONLY <1>2, <1>7 DEF Reads, t
<1>8. CASE a = 1 /\ b = 0 /\ c = 0 /\ d = 1
  BY ONLY <1>2, <1>8 DEF Reads, t
<1> QED
  <2>1. \/ a = 5 /\ b = 0 /\ c = 0 /\ d = 0
        \/ a = 3 /\ b = 1 /\ c = 0 /\ d = 0
        \/ a = 1 /\ b = 2 /\ c = 0 /\ d = 0
        \/ a = 2 /\ b = 0 /\ c = 1 /\ d = 0
        \/ a = 0 /\ b = 1 /\ c = 1 /\ d = 0
        \/ a = 1 /\ b = 0 /\ c = 0 /\ d = 1
    BY ONLY <1>1, a \in Nat, b \in Nat, c \in Nat, d \in Nat
  <2> QED BY <2>1, <1>3, <1>4, <1>5, <1>6, <1>7, <1>8

LEMMA MeantSix ==
    ASSUME NEW s \in Seq(Number), \A n \in Number : GetNumberCount(s, n) <= 4, Len(s) = 6
    PROVE  MeantType(s) = IF HowMany(s, 3) = 2 /\ RowOf(s, 3) THEN "TWOTRIPLE"
                          ELSE IF HowMany(s, 2) # 0 /\ HowMany(s, 4) # 0 THEN "QUADDUAL"
                          ELSE IF HowMany(s, 2) = 3 /\ RowOf(s, 2) THEN "DUALTHREE"
                          ELSE IF HowMany(s, 1) = 6 /\ RowOf(s, 1) THEN "STRAIGHT" ELSE "NONE"
<1>1. PICK a \in Nat, b \in Nat, c \in Nat, d \in Nat :
        /\ Shape(s, a, b, c, d) /\ a + 2 * b + 3 * c + 4 * d = 6
        /\ Reads(s, MeantType(s), a, b, c, d)
  BY ShapeOf
<1> DEFINE t == MeantType(s)
<1>2. /\ HowMany(s, 1) = a /\ HowMany(s, 2) = b /\ HowMany(s, 3) = c /\ HowMany(s, 4) = d
      /\ Reads(s, t, a, b, c, d)
  BY <1>1 DEF Shape
<1> HIDE DEF t
<1>3. CASE a = 6 /\ b = 0 /\ c = 0 /\ d = 0
  BY ONLY <1>2, <1>3 DEF Reads, t
<1>4. CASE a = 4 /\ b = 1 /\ c = 0 /\ d = 0
  BY ONLY <1>2, <1>4 DEF Reads, t
<1>5. CASE a = 2 /\ b = 2 /\ c = 0 /\ d = 0
  BY ONLY <1>2, <1>5 DEF Reads, t
<1>6. CASE a = 0 /\ b = 3 /\ c = 0 /\ d = 0
  BY ONLY <1>2, <1>6 DEF Reads, t
<1>7. CASE a = 3 /\ b = 0 /\ c = 1 /\ d = 0
  BY ONLY <1>2, <1>7 DEF Reads, t
<1>8. CASE a = 1 /\ b = 1 /\ c = 1 /\ d = 0
  BY ONLY <1>2, <1>8 DEF Reads, t
<1>9. CASE a = 0 /\ b = 0 /\ c = 2 /\ d = 0
  BY ONLY <1>2, <1>9 DEF Reads, t
<1>10. CASE a = 2 /\ b = 0 /\ c = 0 /\ d = 1
  BY ONLY <1>2, <1>10 DEF Reads, t
<1>11. CASE a = 0 /\ b = 1 /\ c = 0 /\ d = 1
  BY ONLY <1>2, <1>11 DEF Reads, t
<1> QED
  <2>1. \/ a = 6 /\ b = 0 /\ c = 0 /\ d = 0
        \/ a = 4 /\ b = 1 /\ c = 0 /\ d = 0
        \/ a = 2 /\ b = 2 /\ c = 0 /\ d = 0
        \/ a = 0 /\ b = 3 /\ c = 0 /\ d = 0
        \/ a = 3 /\ b = 0 /\ c = 1 /\ d = 0
        \/ a = 1 /\ b = 1 /\ c = 1 /\ d = 0
        \/ a = 0 /\ b = 0 /\ c = 2 /\ d = 0
        \/ a = 2 /\ b = 0 /\ c = 0 /\ d = 1
        \/ a = 0 /\ b = 1 /\ c = 0 /\ d = 1
    BY ONLY <1>1, a \in Nat, b \in Nat, c \in Nat, d \in Nat
  <2> QED BY <2>1, <1>3, <1>4, <1>5, <1>6, <1>7, <1>8, <1>9, <1>10, <1>11

LEMMA MeantLong ==
    ASSUME NEW s \in Seq(Number), \A n \in Number : GetNumberCount(s, n) <= 4, Len(s) > 6
    PROVE  MeantType(s) = IF HowMany(s, 1) = Len(s) /\ RowOf(s, 1) THEN "STRAIGHT"
                          ELSE IF Len(s) = 8 /\ HowMany(s, 3) = 2 /\ RowOf(s, 3) THEN "FLIGHTONE"
                          ELSE IF Len(s) = 10 /\ HowMany(s, 2) = 2 /\ HowMany(s, 3) = 2 /\ RowOf(s, 3)
                               THEN "FLIGHTTWO" ELSE "NONE"
<1>1. PICK a \in Nat, b \in Nat, c \in Nat, d \in Nat, k \in Nat :
        /\ Shape(s, a, b, c, d) /\ k = Len(s) /\ a + 2 * b + 3 * c + 4 * d = k
        /\ Reads(s, MeantType(s), a, b, c, d)
  BY ShapeOf
<1> DEFINE t == MeantType(s)
<1>2. /\ HowMany(s, 1) = a /\ HowMany(s, 2) = b /\ HowMany(s, 3) = c /\ HowMany(s, 4) = d /\ Len(s) = k
      /\ Reads(s, t, a, b, c, d)
  BY <1>1 DEF Shape
<1>3. a + 2 * b + 3 * c + 4 * d = k /\ k > 6
  BY <1>1
<1> HIDE DEF t
<1>4. CASE a = k /\ RowOf(s, 1)
  <2>1. b = 0 /\ c = 0 /\ d = 0 /\ a >= 5
    BY ONLY <1>3, <1>4, a \in Nat, b \in Nat, c \in Nat, d \in Nat
  <2> QED BY ONLY <1>2, <1>4, <2>1 DEF Reads, t
<1>5. CASE ~(a = k /\ RowOf(s, 1)) /\ k = 8 /\ c = 2 /\ RowOf(s, 3)
  <2>1. \/ a = 2 /\ b = 0 /\ c = 2 /\ d = 0
        \/ a = 0 /\ b = 1 /\ c = 2 /\ d = 0
    BY ONLY <1>3, <1>5, a \in Nat, b \in Nat, c \in Nat, d \in Nat
  <2>2. CASE a = 2 /\ b = 0 /\ c = 2 /\ d = 0
    BY ONLY <1>2, <1>5, <2>2 DEF Reads, t
  <2>3. CASE a = 0 /\ b = 1 /\ c = 2 /\ d = 0
    BY ONLY <1>2, <1>5, <2>3 DEF Reads, t
  <2> QED BY <2>1, <2>2, <2>3
<1>6. CASE ~(a = k /\ RowOf(s, 1)) /\ k = 10 /\ b = 2 /\ c = 2 /\ RowOf(s, 3)
  <2>1. a = 0 /\ b = 2 /\ c = 2 /\ d = 0
    BY ONLY <1>3, <1>6, a \in Nat, b \in Nat, c \in Nat, d \in Nat
  <2> QED BY ONLY <1>2, <1>6, <2>1 DEF Reads, t
<1>7. CASE /\ ~(a = k /\ RowOf(s, 1)) /\ ~(k = 8 /\ c = 2 /\ RowOf(s, 3))
           /\ ~(k = 10 /\ b = 2 /\ c = 2 /\ RowOf(s, 3))
  <2>1. ~(a = 1 /\ b = 0 /\ c = 0 /\ d = 0)
    BY ONLY <1>3, <1>7, a \in Nat
  <2>2. ~(a = 0 /\ b = 1 /\ c = 0 /\ d = 0)
    BY ONLY <1>3, <1>7, a \in Nat
  <2>3. ~(a = 0 /\ b = 0 /\ c = 1 /\ d = 0)
    BY ONLY <1>3, <1>7, a \in Nat
  <2>4. ~(a = 0 /\ b = 0 /\ c = 0 /\ d = 1)
    BY ONLY <1>3, <1>7, a \in Nat
  <2>5. ~(a = 1 /\ b = 0 /\ c = 1 /\ d = 0)
    BY ONLY <1>3, <1>7, a \in Nat
  <2>6. ~(a = 0 /\ b = 1 /\ c = 1 /\ d = 0)
    BY ONLY <1>3, <1>7, a \in Nat
  <2>7. ~(a = 0 /\ b = 1 /\ c = 0 /\ d = 1)
    BY ONLY <1>3, <1>7, a \in Nat
  <2>8. ~(a = 0 /\ b = 0 /\ c = 2 /\ d = 0 /\ RowOf(s, 3))
    BY ONLY <1>3, <1>7, a \in Nat
  <2>9. ~(a = 0 /\ b = 3 /\ c = 0 /\ d = 0 /\ RowOf(s, 2))
    BY ONLY <1>3, <1>7, a \in Nat
  <2>10. ~(b = 0 /\ c = 0 /\ d = 0 /\ a >= 5 /\ RowOf(s, 1))
    BY ONLY <1>3, <1>7, a \in Nat
  <2>11. ~(a = 2 /\ b = 0 /\ c = 2 /\ d = 0 /\ RowOf(s, 3))
    BY ONLY <1>3, <1>7, a \in Nat
  <2>12. ~(a = 0 /\ b = 1 /\ c = 2 /\ d = 0 /\ RowOf(s, 3))
    BY ONLY <1>3, <1>7, a \in Nat
  <2>13. ~(a = 0 /\ b = 2 /\ c = 2 /\ d = 0 /\ RowOf(s, 3))
    BY ONLY <1>3, <1>7, a \in Nat
  <2>14. t = "NONE"
    BY ONLY <1>2, <2>1, <2>2, <2>3, <2>4, <2>5, <2>6, <2>7, <2>8, <2>9, <2>10, <2>11, <2>12, <2>13 DEF Reads
  <2> QED BY ONLY <1>2, <1>7, <2>14 DEF t
<1> QED BY <1>4, <1>5, <1>6, <1>7

----------------------------------------------------------------------------
(* Numbers in a row, the ace above the KING.                               *)

LEMMA RowTwo ==
    ASSUME NEW x \in Number, NEW y \in Number, x < y
    PROVE  Row({x, y}) <=> x # 0 /\ y = IF x = 1 THEN KING ELSE x + 1
<1> DEFINE R == {Rank(n) : n \in {x, y}}
<1>1. /\ KING \in Nat /\ KING >= 5 /\ x \in Nat /\ y \in Nat /\ y <= KING
      /\ Cardinality({x, y}) = 2
  <2>1. x # y
    BY NumberIs
  <2> QED BY <2>1, NumberIs, PairCard
<1>2. R = {Rank(x), Rank(y)}
  OBVIOUS
<1>3. Row({x, y}) <=> x # 0 /\ \E lo \in 2..KING : R = lo..lo + 1
  <2>1. \A lo \in 2..KING : lo + 2 - 1 = lo + 1
    OBVIOUS
  <2>2. 0 \notin {x, y} <=> x # 0
    BY <1>1
  <2> QED BY <1>1, <2>1, <2>2 DEF Row
<1>4. \A lo \in 2..KING : lo..lo + 1 = {lo, lo + 1}
  BY <1>1
<1>5. ASSUME x # 0 PROVE Rank(y) = y /\ Rank(x) = IF x = 1 THEN KING + 1 ELSE x
  BY <1>1, <1>5 DEF Rank
<1> HIDE DEF R
<1>6. ASSUME x # 0, NEW lo \in 2..KING, R = lo..lo + 1
      PROVE  y = IF x = 1 THEN KING ELSE x + 1
  <2>1. {Rank(x), y} = {lo, lo + 1}
    BY <1>2, <1>4, <1>5, <1>6
  <2>2. \/ Rank(x) = lo /\ y = lo + 1
        \/ Rank(x) = lo + 1 /\ y = lo
    BY <2>1
  <2> QED BY <1>1, <1>5, <1>6, <2>2
<1>7. ASSUME x # 0, y = IF x = 1 THEN KING ELSE x + 1
      PROVE  \E lo \in 2..KING : R = lo..lo + 1
  <2>1. CASE x = 1
    <3>1. R = {KING, KING + 1} /\ KING \in 2..KING
      BY <1>1, <1>2, <1>5, <1>7, <2>1
    <3> QED BY <1>4, <3>1
  <2>2. CASE x # 1
    <3>1. R = {x, x + 1} /\ x \in 2..KING
      BY <1>1, <1>2, <1>5, <1>7, <2>2
    <3> QED BY <1>4, <3>1
  <2> QED BY <2>1, <2>2
<1> QED BY <1>3, <1>6, <1>7

LEMMA RowThree ==
    ASSUME NEW x \in Number, NEW y \in Number, NEW z \in Number, x < y, y < z
    PROVE  Row({x, y, z}) <=> /\ x # 0
                              /\ IF x = 1 THEN y = KING - 1 /\ z = KING
                                          ELSE x + 1 = y /\ y + 1 = z
<1> DEFINE R == {Rank(n) : n \in {x, y, z}}
<1>1. /\ KING \in Nat /\ KING >= 5 /\ x \in Nat /\ y \in Nat /\ z \in Nat /\ z <= KING
      /\ x # y /\ y # z /\ x # z
  BY NumberIs
<1>2. R = {Rank(x), Rank(y), Rank(z)} /\ Cardinality({x, y, z}) = 3
  BY <1>1, TripleCard
<1>3. Row({x, y, z}) <=> x # 0 /\ \E lo \in 2..KING : R = lo..lo + 2
  <2>1. \A lo \in 2..KING : lo + 3 - 1 = lo + 2
    OBVIOUS
  <2>2. 0 \notin {x, y, z} <=> x # 0
    BY <1>1
  <2> QED BY <1>2, <2>1, <2>2 DEF Row
<1>4. \A lo \in 2..KING : lo..lo + 2 = {lo, lo + 1, lo + 2}
  BY <1>1
<1>5. ASSUME x # 0 PROVE Rank(z) = z /\ Rank(y) = y /\ Rank(x) = IF x = 1 THEN KING + 1 ELSE x
  BY <1>1, <1>5 DEF Rank
<1> HIDE DEF R
<1>6. ASSUME x # 0, NEW lo \in 2..KING, R = lo..lo + 2
      PROVE  IF x = 1 THEN y = KING - 1 /\ z = KING ELSE x + 1 = y /\ y + 1 = z
  <2>1. {Rank(x), y, z} = {lo, lo + 1, lo + 2}
    BY <1>2, <1>4, <1>5, <1>6
  <2>2. /\ Rank(x) \in {lo, lo + 1, lo + 2} /\ y \in {lo, lo + 1, lo + 2} /\ z \in {lo, lo + 1, lo + 2}
        /\ Rank(x) = IF x = 1 THEN KING + 1 ELSE x
    BY <1>5, <1>6, <2>1
  <2> QED BY <1>1, <2>2
<1>7. ASSUME x # 0, IF x = 1 THEN y = KING - 1 /\ z = KING ELSE x + 1 = y /\ y + 1 = z
      PROVE  \E lo \in 2..KING : R = lo..lo + 2
  <2>1. CASE x = 1
    <3>1. R = {KING - 1, (KING - 1) + 1, (KING - 1) + 2} /\ KING - 1 \in 2..KING
      <4>1. (KING - 1) + 1 = KING /\ (KING - 1) + 2 = KING + 1 /\ KING - 1 \in 2..KING
        BY <1>1
      <4> QED BY <1>2, <1>5, <1>7, <2>1, <4>1
    <3> QED BY <1>4, <3>1
  <2>2. CASE x # 1
    <3>1. R = {x, x + 1, x + 2} /\ x \in 2..KING
      <4>1. y = x + 1 /\ z = x + 2 /\ x \in 2..KING
        BY <1>1, <1>7, <2>2
      <4> QED BY <1>2, <1>5, <1>7, <2>2, <4>1
    <3> QED BY <1>4, <3>1
  <2> QED BY <2>1, <2>2
<1> QED BY <1>3, <1>6, <1>7

LEMMA RowPlain ==
    ASSUME NEW S \in SUBSET Number, 1 \notin S
    PROVE  Row(S) <=> 0 \notin S /\ \E lo \in 2..KING : S = lo..lo + Cardinality(S) - 1
<1>1. {Rank(n) : n \in S} = S
  BY DEF Rank
<1> QED BY <1>1 DEF Row

----------------------------------------------------------------------------
(* A straight.                                                             *)

InRow(s) == s[1] # 0 /\ s[1] # 1 /\ \A k \in 1..Len(s) - 1 : s[k + 1] = s[k] + 1

LEMMA StraightInRow ==
    ASSUME NEW s, Sorted(s), Len(s) >= 5
    PROVE  IsSTRAIGHT(s) <=> InRow(s)
<1>1. /\ Sort(s) = s /\ s \in Seq(Number) /\ Len(s) \in Nat /\ s[1] \in Nat /\ s[Len(s)] \in Nat
      /\ s[1] <= s[Len(s)] /\ \A k \in 1..Len(s) : s[k] \in Int
  <2>1. s \in Seq(Number) /\ Len(s) \in Nat /\ \A k \in 1..Len(s) : s[k] \in Int /\ s[k] \in 0..KING
    BY SortedIs
  <2>2. 1 \in 1..Len(s) /\ Len(s) \in 1..Len(s) /\ 1 <= Len(s)
    BY <2>1
  <2>3. s[1] <= s[Len(s)]
    BY <2>2, SortedIs
  <2> QED BY <2>1, <2>2, <2>3, SortKeeps
<1>2. CASE s[1] = 1
  <2> DEFINE r == Append(Tail(s), 1)
  <2>1. Len(r) = Len(s) /\ r[Len(s)] = 1 /\ \A k \in 1..Len(s) - 1 : r[k] = s[k + 1]
    BY <1>1, AceLast
  <2> HIDE DEF r
  <2>2. Len(s) - 1 \in 1..Len(s) - 1 /\ (Len(s) - 1) + 1 = Len(s)
    BY <1>1
  <2>3. r[Len(s) - 1] = s[Len(s)]
    BY <2>1, <2>2
  <2>4. ASSUME \A k \in 1..Len(r) - 1 : r[k + 1] - r[k] = 1 PROVE FALSE
    <3>1. r[Len(s)] - r[Len(s) - 1] = 1
      BY <2>1, <2>2, <2>4
    <3>2. 1 - s[Len(s)] = 1 /\ s[Len(s)] >= 1
      BY <1>1, <1>2, <2>1, <2>3, <3>1
    <3> QED BY ONLY <1>1, <3>2
  <2>5. ~IsSTRAIGHT(s)
    BY <1>1, <1>2, <2>4 DEF IsSTRAIGHT, r
  <2> QED BY <1>2, <2>5 DEF InRow
<1>3. CASE s[1] # 1
  <2>1. \A k \in 1..Len(s) - 1 : s[k + 1] - s[k] = 1 <=> s[k + 1] = s[k] + 1
    <3> TAKE k \in 1..Len(s) - 1
    <3>1. s[k] \in Int /\ s[k + 1] \in Int
      BY <1>1
    <3> QED BY <3>1
  <2>2. IsSTRAIGHT(s) <=> s[1] # 0 /\ \A k \in 1..Len(s) - 1 : s[k + 1] - s[k] = 1
    BY <1>1, <1>3 DEF IsSTRAIGHT
  <2> QED BY <1>3, <2>1, <2>2 DEF InRow
<1> QED BY <1>2, <1>3

LEMMA RowSingles ==
    ASSUME NEW s, Sorted(s), Len(s) >= 5, InRow(s)
    PROVE  HowMany(s, 1) = Len(s) /\ RowOf(s, 1) /\ GetNumberCount(s, 1) = 0
<1>1. /\ s \in Seq(Number) /\ Len(s) \in Nat /\ \A k \in 1..Len(s) : s[k] \in Number /\ s[k] \in Int
      /\ 1 \in 1..Len(s)
  BY SortedIs
<1> DEFINE lo == s[1]
           W == {k \in 0..Len(s) - 1 : s[k + 1] = lo + k}
<1>2. lo \in 2..KING
  BY <1>1, NumberIs DEF InRow
<1>3. \A k \in 1..Len(s) : s[k] = lo + k - 1
  <2>1. 0 \in W
    BY <1>1, <1>2
  <2>2. \A k \in 1..Len(s) - 1 : k - 1 \in W => k \in W
    <3> SUFFICES ASSUME NEW k \in 1..Len(s) - 1, k - 1 \in W PROVE k \in W
      OBVIOUS
    <3>1. s[k] = lo + (k - 1) /\ s[k + 1] = s[k] + 1 /\ k \in 0..Len(s) - 1
      BY <1>1 DEF InRow
    <3> QED BY <1>2, <3>1
  <2>3. Len(s) - 1 \in Nat
    BY <1>1
  <2> HIDE DEF W
  <2>4. \A k \in 0..Len(s) - 1 : k \in W
    BY <2>1, <2>2, <2>3, UpTo
  <2> USE DEF W
  <2>5. \A k \in 0..Len(s) - 1 : s[k + 1] = lo + k
    BY <2>4
  <2> TAKE k \in 1..Len(s)
  <2>6. k - 1 \in 0..Len(s) - 1 /\ (k - 1) + 1 = k
    BY <1>1
  <2>7. s[(k - 1) + 1] = lo + (k - 1)
    BY <2>5, <2>6
  <2> QED BY <1>2, <2>6, <2>7
<1> HIDE DEF W, lo
<1>4. \A n \in Number : GetNumberCount(s, n) = IF n \in lo..lo + Len(s) - 1 THEN 1 ELSE 0
  <2> TAKE n \in Number
  <2>1. n \in Int
    BY NumberIs
  <2>2. CASE n \in lo..lo + Len(s) - 1
    <3>1. n - lo + 1 \in 1..Len(s) /\ \A k \in 1..Len(s) : s[k] = n <=> k = n - lo + 1
      BY <1>1, <1>2, <1>3, <2>1, <2>2
    <3>2. At(s, n, {n - lo + 1})
      BY <3>1 DEF At
    <3>3. Cardinality({n - lo + 1}) = 1
      BY FS_Singleton
    <3> QED BY <1>1, <2>1, <2>2, <3>2, <3>3, CountAt
  <2>3. CASE n \notin lo..lo + Len(s) - 1
    <3>1. \A k \in 1..Len(s) : s[k] # n
      BY <1>1, <1>2, <1>3, <2>3
    <3>2. GetNumberCount(s, n) = 0
      BY <1>1, <2>1, <3>1, NoneOf
    <3> QED BY <2>3, <3>2
  <2> QED BY <2>2, <2>3
<1>5. lo..lo + Len(s) - 1 \in SUBSET Number
  <2>1. s[Len(s)] \in Number /\ s[Len(s)] = lo + Len(s) - 1
    BY <1>1, <1>3
  <2> QED BY <1>1, <1>2, <2>1, NumberIs
<1>6. Kinds(s, 1) = lo..lo + Len(s) - 1
  BY <1>4, <1>5 DEF Kinds
<1>7. Cardinality(lo..lo + Len(s) - 1) = Len(s)
  <2>1. lo \in Int /\ lo + Len(s) - 1 \in Int
    BY <1>1, <1>2
  <2>2. Cardinality(lo..lo + Len(s) - 1) = IF lo > lo + Len(s) - 1 THEN 0 ELSE (lo + Len(s) - 1) - lo + 1
    BY <2>1, FS_Interval
  <2> QED BY <1>1, <2>1, <2>2
<1>8. 0 \notin Kinds(s, 1) /\ 1 \notin Kinds(s, 1) /\ Kinds(s, 1) \in SUBSET Number
  BY <1>2, <1>5, <1>6
<1>9. Row(Kinds(s, 1))
  BY <1>2, <1>6, <1>7, <1>8, RowPlain
<1>10. GetNumberCount(s, 1) = 0
  <2>1. 1 \in Number
    BY NumberIs
  <2> QED BY <1>2, <1>4, <2>1
<1> QED BY <1>6, <1>7, <1>9, <1>10 DEF HowMany, RowOf

LEMMA HeldIs ==
    ASSUME NEW s, Held(s)
    PROVE  /\ Sorted(s) /\ s \in Seq(Number) /\ Len(s) \in Nat
           /\ \A k \in 1..Len(s) : s[k] \in Number /\ s[k] \in Int
           /\ \A j, k \in 1..Len(s) : j <= k => s[j] <= s[k]
           /\ \A n \in Number : GetNumberCount(s, n) <= 4
BY SortedIs DEF Held

LEMMA HeldShape ==
    ASSUME NEW s, Held(s)
    PROVE  \E a, b, c, d \in Nat :
              Shape(s, a, b, c, d) /\ a + 2 * b + 3 * c + 4 * d = Len(s)
<1>1. s \in Seq(Number) /\ \A n \in Number : GetNumberCount(s, n) <= 4
  BY HeldIs
<1> QED BY <1>1, HasIs, Weight DEF Shape

LEMMA OnlySingles ==
    ASSUME NEW s, Held(s), HowMany(s, 1) = Len(s)
    PROVE  /\ HowMany(s, 2) = 0 /\ HowMany(s, 3) = 0 /\ HowMany(s, 4) = 0
           /\ \A n \in Number : GetNumberCount(s, n) = IF n \in Kinds(s, 1) THEN 1 ELSE 0
<1>1. s \in Seq(Number) /\ \A n \in Number : GetNumberCount(s, n) <= 4
  BY HeldIs
<1>2. HowMany(s, 2) = 0 /\ HowMany(s, 3) = 0 /\ HowMany(s, 4) = 0
  <2>1. PICK a \in Nat, b \in Nat, c \in Nat, d \in Nat :
          /\ HowMany(s, 1) = a /\ HowMany(s, 2) = b /\ HowMany(s, 3) = c /\ HowMany(s, 4) = d
          /\ a + 2 * b + 3 * c + 4 * d = Len(s)
    BY <1>1, HasIs, Weight
  <2>2. a + 2 * b + 3 * c + 4 * d = a
    BY <2>1
  <2> QED BY ONLY <2>1, <2>2
<1>3. \A n \in Number : GetNumberCount(s, n) = IF n \in Kinds(s, 1) THEN 1 ELSE 0
  <2> TAKE n \in Number
  <2>1. GetNumberCount(s, n) \in Nat /\ GetNumberCount(s, n) <= 4
    BY <1>1, NumberIs, CountIs
  <2>2. n \notin Kinds(s, 2) /\ n \notin Kinds(s, 3) /\ n \notin Kinds(s, 4)
    BY <1>2, HasNone
  <2> QED BY <2>1, <2>2 DEF Kinds
<1> QED BY <1>2, <1>3

LEMMA SinglesInRow ==
    ASSUME NEW s, Held(s), Len(s) >= 5,
           HowMany(s, 1) = Len(s), RowOf(s, 1), GetNumberCount(s, 1) = 0
    PROVE  InRow(s)
<1>1. /\ s \in Seq(Number) /\ Sorted(s) /\ Len(s) \in Nat
      /\ \A k \in 1..Len(s) : s[k] \in Number /\ s[k] \in Int
  BY SortedIs DEF Held
<1>2. \A n \in Number : GetNumberCount(s, n) = IF n \in Kinds(s, 1) THEN 1 ELSE 0
  BY OnlySingles
<1>3. PICK lo \in 2..KING : Kinds(s, 1) = lo..lo + Len(s) - 1
  <2>1. 1 \notin Kinds(s, 1) /\ Kinds(s, 1) \in SUBSET Number
    BY DEF Kinds
  <2>2. Row(Kinds(s, 1)) /\ Cardinality(Kinds(s, 1)) = Len(s)
    BY DEF RowOf, HowMany
  <2> QED BY <2>1, <2>2, RowPlain
<1>4. \A k \in 1..Len(s) : s[k] \in Kinds(s, 1)
  <2> TAKE k \in 1..Len(s)
  <2>1. GetNumberCount(s, s[k]) # 0
    BY <1>1, NoneOf
  <2> QED BY <1>1, <1>2, <2>1
<1> DEFINE W == {j \in 0..Len(s) : Below(s, lo + j) = j}
<1>5. \A j \in 0..Len(s) : Below(s, lo + j) = j
  <2>1. 0 \in W
    <3>1. {k \in DOMAIN s : s[k] < lo} = {}
      BY <1>1, <1>3, <1>4, HandIs
    <3>2. Below(s, lo) = 0
      BY <3>1, FS_EmptySet DEF Below
    <3> QED BY <1>1, <3>2
  <2>2. \A k \in 1..Len(s) : k - 1 \in W => k \in W
    <3> SUFFICES ASSUME NEW k \in 1..Len(s), k - 1 \in W PROVE k \in W
      OBVIOUS
    <3>1. lo + (k - 1) \in Kinds(s, 1) /\ lo + (k - 1) \in Int /\ lo + k = (lo + (k - 1)) + 1
      BY <1>1, <1>3
    <3>2. GetNumberCount(s, lo + (k - 1)) = 1 /\ Below(s, lo + (k - 1)) = k - 1
      BY <3>1 DEF Kinds
    <3>3. Below(s, lo + k) = Below(s, lo + (k - 1)) + GetNumberCount(s, lo + (k - 1))
      BY <1>1, <3>1, CountIs
    <3>4. Below(s, lo + k) = k
      BY <3>2, <3>3
    <3> QED BY <3>4
  <2> HIDE DEF W
  <2>3. \A k \in 0..Len(s) : k \in W
    BY <1>1, <2>1, <2>2, UpTo
  <2> QED BY <2>3 DEF W
<1>6. \A k \in 1..Len(s) : s[k] = lo + (k - 1)
  <2> TAKE k \in 1..Len(s)
  <2>1. lo + (k - 1) \in Int /\ lo + (k - 1) \in Kinds(s, 1) /\ k - 1 \in 0..Len(s)
    BY <1>1, <1>3
  <2>2. Below(s, lo + (k - 1)) = k - 1 /\ GetNumberCount(s, lo + (k - 1)) = 1
    BY <1>5, <2>1 DEF Kinds
  <2>3. s[k] = lo + (k - 1) <=> Below(s, lo + (k - 1)) < k
                                /\ k <= Below(s, lo + (k - 1)) + GetNumberCount(s, lo + (k - 1))
    BY <1>1, <2>1, Block
  <2> QED BY <2>2, <2>3
<1>7. s[1] = lo
  BY <1>1, <1>6
<1>8. \A k \in 1..Len(s) - 1 : s[k + 1] = s[k] + 1
  <2> TAKE k \in 1..Len(s) - 1
  <2>1. k \in 1..Len(s) /\ k + 1 \in 1..Len(s)
    BY <1>1
  <2>2. s[k] = lo + (k - 1) /\ s[k + 1] = lo + ((k + 1) - 1)
    BY <1>6, <2>1
  <2> QED BY <2>2
<1> QED BY <1>7, <1>8 DEF InRow

LEMMA StraightIs ==
    ASSUME NEW s, Held(s), Len(s) >= 5
    PROVE  IsSTRAIGHT(s) <=> HowMany(s, 1) = Len(s) /\ RowOf(s, 1) /\ GetNumberCount(s, 1) = 0
<1>1. Sorted(s)
  BY DEF Held
<1> QED BY <1>1, StraightInRow, RowSingles, SinglesInRow

----------------------------------------------------------------------------
(* Up to five cards.                                                       *)

\* The g cards like the j-th of a sorted hand are behind the p-th.
Run(s, j, p, g) ==
    /\ g \in 1..4 /\ p \in Nat /\ p < j /\ j <= p + g /\ p + g <= Len(s)
    /\ s[j] \in Kinds(s, g) /\ GetNumberCount(s, s[j]) = g
    /\ \A k \in 1..Len(s) : s[k] = s[j] <=> p < k /\ k <= p + g

LEMMA RunAt ==
    ASSUME NEW s, Held(s), NEW j \in 1..Len(s)
    PROVE  \E p, g \in Nat : Run(s, j, p, g)
<1> DEFINE g == GetNumberCount(s, s[j])
           p == Below(s, s[j])
<1>1. /\ Sorted(s) /\ s \in Seq(Number) /\ Len(s) \in Nat /\ s[j] \in Number /\ s[j] \in Int
      /\ j \in Nat
  BY HeldIs
<1>2. g \in Nat /\ g <= 4
  BY <1>1, CountIs, HeldIs
<1>3. g # 0
  BY <1>1, NoneOf
<1>4. Stands(s, s[j], p, g)
  BY <1>1, <1>2, BlockAt
<1>5. s[j] \in Kinds(s, g)
  BY <1>1 DEF Kinds
<1> HIDE DEF g, p
<1>6. /\ p \in 0..Len(s) - g
      /\ \A k \in 1..Len(s) : s[k] = s[j] <=> p < k /\ k <= p + g
  BY <1>4 DEF Stands
<1>7. p \in Nat /\ p + g <= Len(s) /\ g \in 1..4 /\ p < j /\ j <= p + g
  BY <1>1, <1>2, <1>3, <1>6
<1>8. Run(s, j, p, g)
  BY <1>5, <1>6, <1>7 DEF Run, g
<1> QED BY <1>2, <1>7, <1>8

LEMMA BlockOf ==
    ASSUME NEW s, Held(s), NEW m \in 1..4, NEW n \in Kinds(s, m)
    PROVE  n \in Number /\ \E p \in Nat : Stands(s, n, p, m)
<1>1. Sorted(s) /\ s \in Seq(Number) /\ n \in Number /\ n \in Int /\ m \in Nat /\ GetNumberCount(s, n) = m
  BY HeldIs, NumberIs DEF Kinds
<1>2. Stands(s, n, Below(s, n), m) /\ Below(s, n) \in Nat
  BY <1>1, BlockAt, CountIs
<1> QED BY <1>1, <1>2

LEMMA AllSame ==
    ASSUME NEW s, Held(s), Len(s) \in 1..4
    PROVE  Same(s, 1..Len(s)) <=> HowMany(s, Len(s)) # 0
<1>1. ASSUME Same(s, 1..Len(s)) PROVE HowMany(s, Len(s)) # 0
  <2>1. PICK p \in Nat, g \in Nat : Run(s, 1, p, g)
    <3> 1 \in 1..Len(s)
      <4>1. \A n \in 1..4 : 1 \in 1..n
        OBVIOUS
      <4> QED BY <4>1
    <3> QED BY RunAt
  <2>2. s[Len(s)] = s[1]
    BY <1>1 DEF Same
  <2>3. p = 0 /\ Len(s) <= p + g /\ p + g <= Len(s)
    BY <2>1, <2>2 DEF Run
  <2>4. g = Len(s) /\ s[1] \in Kinds(s, g)
    BY <2>1, <2>3 DEF Run
  <2> QED BY <2>4, HasNone
<1>2. ASSUME HowMany(s, Len(s)) # 0 PROVE Same(s, 1..Len(s))
  <2>1. PICK n \in Kinds(s, Len(s)) : TRUE
    BY <1>2, HasNone
  <2>2. PICK p \in Nat : Stands(s, n, p, Len(s))
    BY BlockOf
  <2>3. \A k \in 1..Len(s) : s[k] = n
    BY <2>2 DEF Stands
  <2> QED BY <2>3 DEF Same
<1> QED BY <1>1, <1>2

LEMMA FourIs ==
    ASSUME NEW s, Held(s), Len(s) = 4
    PROVE  TypeOfFour(s) = IF HowMany(s, 4) # 0 THEN "BOMB"
                           ELSE IF HowMany(s, 3) # 0 THEN "TRIPLEONE" ELSE "NONE"
<1>1. Same(s, 1..4) <=> HowMany(s, 4) # 0
  BY AllSame
<1>2. CASE Same(s, 1..4)
  BY <1>1, <1>2 DEF TypeOfFour
<1>3. CASE ~Same(s, 1..4)
  <2> DEFINE Three == \E K \in {1..3, {1, 2, 4}, 2..4} : Same(s, K)
  <2>1. ASSUME Three PROVE HowMany(s, 3) # 0
    <3>1. PICK K \in {{1, 2, 3}, {1, 2, 4}, {2, 3, 4}} : Same(s, K)
      <4>1. 1..3 = {1, 2, 3} /\ 2..4 = {2, 3, 4}
        OBVIOUS
      <4> QED BY <2>1, <4>1
    <3>2. /\ s[1] <= s[2] /\ s[2] <= s[3] /\ s[3] <= s[4]
          /\ s[1] \in Int /\ s[2] \in Int /\ s[3] \in Int /\ s[4] \in Int
      <4>1. \A k \in 1..Len(s) : s[k] \in Int
        BY HeldIs
      <4>2. \A j, k \in 1..Len(s) : j <= k => s[j] <= s[k]
        BY HeldIs
      <4> QED BY <4>1, <4>2
    <3>3. s[2] = s[3] /\ (s[1] = s[2] \/ s[3] = s[4])
      <4>1. \/ s[1] = s[2] /\ s[2] = s[3]
            \/ s[1] = s[2] /\ s[2] = s[4]
            \/ s[2] = s[3] /\ s[3] = s[4]
        BY <3>1 DEF Same
      <4> QED BY <3>2, <4>1
    <3>4. ~(s[1] = s[2] /\ s[2] = s[3] /\ s[3] = s[4])
      <4> SUFFICES ASSUME s[1] = s[2] /\ s[2] = s[3] /\ s[3] = s[4] PROVE FALSE
        OBVIOUS
      <4>1. \A k \in {1, 2, 3, 4} : s[k] = s[1]
        OBVIOUS
      <4>2. \A k \in 1..4 : s[k] = s[1]
        BY <4>1
      <4> QED BY <1>3, <4>2 DEF Same
    <3>5. PICK p \in Nat, g \in Nat : Run(s, 2, p, g)
      <4> 2 \in 1..Len(s)
        OBVIOUS
      <4> QED BY RunAt
    <3>6. g = 3
      BY <3>3, <3>4, <3>5 DEF Run
    <3> QED BY <3>5, <3>6, HasNone DEF Run
  <2>2. ASSUME HowMany(s, 3) # 0 PROVE Three
    <3>1. PICK n \in Kinds(s, 3) : TRUE
      BY <2>2, HasNone
    <3>2. PICK p \in Nat : Stands(s, n, p, 3)
      BY BlockOf
    <3>3. Same(s, 1..3) \/ Same(s, 2..4)
      BY <3>2 DEF Same, Stands
    <3>4. 1..3 \in {1..3, {1, 2, 4}, 2..4} /\ 2..4 \in {1..3, {1, 2, 4}, 2..4}
      OBVIOUS
    <3> QED BY <3>3, <3>4
  <2>3. TypeOfFour(s) = IF Three THEN "TRIPLEONE" ELSE "NONE"
    BY <1>3 DEF TypeOfFour
  <2> QED BY <1>1, <1>3, <2>1, <2>2, <2>3
<1> QED BY <1>2, <1>3

LEMMA FiveHas ==
    ASSUME NEW s, Held(s), Len(s) = 5
    PROVE  PairAndTriple(s) <=> HowMany(s, 2) # 0 /\ HowMany(s, 3) # 0
<1>1. /\ s[1] <= s[2] /\ s[2] <= s[3] /\ s[3] <= s[4] /\ s[4] <= s[5]
      /\ s[1] \in Int /\ s[2] \in Int /\ s[3] \in Int /\ s[4] \in Int /\ s[5] \in Int
  <2>1. \A k \in 1..Len(s) : s[k] \in Int
    BY HeldIs
  <2>2. \A j, k \in 1..Len(s) : j <= k => s[j] <= s[k]
    BY HeldIs
  <2> QED BY <2>1, <2>2
<1>2. ASSUME PairAndTriple(s) PROVE HowMany(s, 2) # 0 /\ HowMany(s, 3) # 0
  <2>1. PICK p \in Nat, g \in Nat : Run(s, 1, p, g)
    <3> 1 \in 1..Len(s)
      OBVIOUS
    <3> QED BY RunAt
  <2>2. PICK q \in Nat, h \in Nat : Run(s, 5, q, h)
    <3> 5 \in 1..Len(s)
      OBVIOUS
    <3> QED BY RunAt
  <2>3. s[1] = s[2] /\ s[4] = s[5] /\ (s[3] = s[4] \/ s[2] = s[3])
    BY <1>2, PairAndTripleIs
  <2>4. /\ g \in 1..4 /\ p = 0 /\ s[1] \in Kinds(s, g)
        /\ s[2] = s[1] <=> 2 <= g
        /\ s[3] = s[1] <=> 3 <= g
        /\ s[4] = s[1] <=> 4 <= g
        /\ s[5] # s[1]
    BY <2>1 DEF Run
  <2>5. /\ h \in 1..4 /\ q = 5 - h /\ s[5] \in Kinds(s, h)
        /\ s[2] = s[5] <=> q < 2
        /\ s[3] = s[5] <=> q < 3
        /\ s[4] = s[5] <=> q < 4
    BY <2>2 DEF Run
  <2>6. (g = 2 /\ h = 3) \/ (g = 3 /\ h = 2)
    BY ONLY <2>3, <2>4, <2>5
  <2> QED BY <2>4, <2>5, <2>6, HasNone
<1>3. ASSUME HowMany(s, 2) # 0, HowMany(s, 3) # 0 PROVE PairAndTriple(s)
  <2>1. PICK m \in Kinds(s, 2), n \in Kinds(s, 3) : m # n
    BY <1>3, HasNone DEF Kinds
  <2>2. PICK p \in Nat : Stands(s, m, p, 2)
    BY BlockOf
  <2>3. PICK q \in Nat : Stands(s, n, q, 3)
    BY BlockOf
  <2>4. p \in 0..3 /\ \A k \in 1..5 : s[k] = m <=> p < k /\ k <= p + 2
    BY <2>2 DEF Stands
  <2>5. q \in 0..2 /\ \A k \in 1..5 : s[k] = n <=> q < k /\ k <= q + 3
    BY <2>3 DEF Stands
  <2>6. (p = 0 /\ q = 2) \/ (p = 3 /\ q = 0)
    <3>1. \A k \in 1..5 : ~(p < k /\ k <= p + 2 /\ q < k /\ k <= q + 3)
      BY <2>1, <2>4, <2>5
    <3>2. 2 \in 1..5 /\ 3 \in 1..5 /\ 4 \in 1..5
      OBVIOUS
    <3>3. /\ ~(p < 2 /\ 2 <= p + 2 /\ q < 2 /\ 2 <= q + 3)
          /\ ~(p < 3 /\ 3 <= p + 2 /\ q < 3 /\ 3 <= q + 3)
          /\ ~(p < 4 /\ 4 <= p + 2 /\ q < 4 /\ 4 <= q + 3)
      BY <3>1, <3>2
    <3>4. p \in 0..3 /\ q \in 0..2
      BY <2>4, <2>5
    <3> QED BY ONLY <3>3, <3>4
  <2>7. s[1] = s[2] /\ s[4] = s[5] /\ (s[3] = s[4] \/ s[2] = s[3])
    BY <2>4, <2>5, <2>6
  <2> QED BY <2>7, PairAndTripleIs
<1> QED BY <1>2, <1>3

LEMMA StraightMeant ==
    ASSUME NEW s, Held(s), Len(s) >= 5, ~Gap(s),
           HowMany(s, 1) = Len(s) /\ RowOf(s, 1) => MeantType(s) = "STRAIGHT"
    PROVE  IsSTRAIGHT(s) <=> HowMany(s, 1) = Len(s) /\ RowOf(s, 1)
<1>1. ASSUME HowMany(s, 1) = Len(s), RowOf(s, 1) PROVE GetNumberCount(s, 1) = 0
  <2>1. GetNumberCount(s, 1) # 1
    BY <1>1 DEF Gap
  <2>2. 1 \in Number
    BY NumberIs
  <2> QED BY <1>1, <2>1, <2>2, OnlySingles
<1> QED BY <1>1, StraightIs

LEMMA KindUpToFive ==
    ASSUME NEW s, Held(s), Len(s) \in 1..5, ~Gap(s)
    PROVE  Type(s) = MeantType(s)
<1>1. s \in Seq(Number) /\ Len(s) \in Nat /\ \A n \in Number : GetNumberCount(s, n) <= 4
  BY HeldIs
<1>2. CASE Len(s) = 1
  BY <1>1, <1>2, TypeIs, MeantOne
<1>3. CASE Len(s) = 2
  <2>1. Same(s, 1..2) <=> HowMany(s, 2) # 0
    <3>1. Len(s) \in 1..4
      BY <1>3
    <3>2. Same(s, 1..Len(s)) <=> HowMany(s, Len(s)) # 0
      BY <3>1, AllSame
    <3> QED BY <1>3, <3>2
  <2> QED BY <1>1, <1>3, <2>1, TypeIs, MeantTwo
<1>4. CASE Len(s) = 3
  <2>1. Same(s, 1..3) <=> HowMany(s, 3) # 0
    <3>1. Len(s) \in 1..4
      BY <1>4
    <3>2. Same(s, 1..Len(s)) <=> HowMany(s, Len(s)) # 0
      BY <3>1, AllSame
    <3> QED BY <1>4, <3>2
  <2> QED BY <1>1, <1>4, <2>1, TypeIs, MeantThree
<1>5. CASE Len(s) = 4
  BY <1>1, <1>5, FourIs, TypeIs, MeantFour
<1>6. CASE Len(s) = 5
  <2>1. MeantType(s) = IF HowMany(s, 2) # 0 /\ HowMany(s, 3) # 0 THEN "TRIPLETWO"
                       ELSE IF HowMany(s, 1) = 5 /\ RowOf(s, 1) THEN "STRAIGHT" ELSE "NONE"
    BY <1>1, <1>6, MeantFive
  <2>2. HowMany(s, 1) = 5 => HowMany(s, 2) = 0
    BY <1>6, OnlySingles
  <2>3. IsSTRAIGHT(s) <=> HowMany(s, 1) = 5 /\ RowOf(s, 1)
    <3>1. Len(s) >= 5
      BY <1>6
    <3>2. HowMany(s, 1) = Len(s) /\ RowOf(s, 1) => MeantType(s) = "STRAIGHT"
      BY <1>6, <2>1, <2>2
    <3>3. IsSTRAIGHT(s) <=> HowMany(s, 1) = Len(s) /\ RowOf(s, 1)
      BY <3>1, <3>2, StraightMeant
    <3> QED BY <1>6, <3>3
  <2>4. Type(s) = IF PairAndTriple(s) THEN "TRIPLETWO"
                  ELSE IF IsSTRAIGHT(s) THEN "STRAIGHT" ELSE "NONE"
    BY <1>1, <1>6, TypeIs, FiveIs
  <2> QED BY <1>6, <2>1, <2>3, <2>4, FiveHas
<1> QED BY <1>1, <1>2, <1>3, <1>4, <1>5, <1>6

----------------------------------------------------------------------------
(* Six cards.                                                              *)

\* No number is held more often than the rest of the hand allows.
LEMMA TwoTripleIs ==
    ASSUME NEW s, Held(s), Len(s) = 6, GetNumberCount(s, 1) # 3
    PROVE  IsTWOTRIPLE(s) <=> HowMany(s, 3) = 2 /\ RowOf(s, 3)
<1>1. s \in Seq(Number) /\ Sorted(s) /\ KING \in Nat /\ Number = 0..KING /\ GetNumberCount(s, 0) <= 2
  BY HeldIs, NumberIs DEF Held
<1>2. ASSUME NEW n \in Number, GetNumberCount(s, n) = 3, GetNumberCount(s, n + 1) = 3
      PROVE  HowMany(s, 3) = 2 /\ RowOf(s, 3)
  <2>1. n + 1 \in Number
    <3>1. PICK k \in 1..Len(s) : s[k] = n + 1
      <4>1. n + 1 \in Int /\ GetNumberCount(s, n + 1) # 0
        BY <1>1, <1>2
      <4> QED BY <1>1, <4>1, SomeOf
    <3> QED BY <3>1, HeldIs
  <2>2. n \in Kinds(s, 3) /\ n + 1 \in Kinds(s, 3) /\ n # n + 1 /\ n < n + 1
    BY <1>1, <1>2, <2>1 DEF Kinds
  <2>3. HowMany(s, 3) >= 2 /\ (HowMany(s, 3) = 2 => Kinds(s, 3) = {n, n + 1})
    BY <2>2, HasTwo
  <2>4. HowMany(s, 3) = 2
    <3>1. PICK a \in Nat, b \in Nat, c \in Nat, d \in Nat :
            /\ Shape(s, a, b, c, d) /\ a + 2 * b + 3 * c + 4 * d = Len(s)
      BY HeldShape
    <3>2. HowMany(s, 3) = c
      BY <3>1 DEF Shape
    <3>3. a + 2 * b + 3 * c + 4 * d = 6
      BY <3>1
    <3> QED BY ONLY <2>3, <3>2, <3>3, a \in Nat, b \in Nat, c \in Nat, d \in Nat
  <2>5. n # 0 /\ n # 1
    BY <1>1, <1>2
  <2>6. Row({n, n + 1})
    BY <2>1, <2>2, <2>5, RowTwo
  <2> QED BY <2>3, <2>4, <2>6 DEF RowOf
<1>3. ASSUME HowMany(s, 3) = 2, RowOf(s, 3) PROVE IsTWOTRIPLE(s)
  <2>1. PICK x \in Kinds(s, 3), y \in Kinds(s, 3) : x < y
    BY <1>3, HasMore
  <2>2. x \in Number /\ y \in Number /\ x # y /\ GetNumberCount(s, x) = 3 /\ GetNumberCount(s, y) = 3
    BY <1>1, <2>1 DEF Kinds
  <2>3. Kinds(s, 3) = {x, y}
    BY <1>3, <2>2, HasTwo
  <2>4. y = IF x = 1 THEN KING ELSE x + 1
    BY <1>3, <2>1, <2>2, <2>3, RowTwo DEF RowOf
  <2>5. y = x + 1
    BY <2>2, <2>4
  <2> QED BY <2>2, <2>5 DEF IsTWOTRIPLE
<1> QED BY <1>2, <1>3 DEF IsTWOTRIPLE

LEMMA SixSteps ==
    ASSUME NEW s, Held(s), Len(s) = 6
    PROVE  /\ s[1] <= s[2] /\ s[2] <= s[3] /\ s[3] <= s[4] /\ s[4] <= s[5] /\ s[5] <= s[6]
           /\ s[1] \in Int /\ s[2] \in Int /\ s[3] \in Int
           /\ s[4] \in Int /\ s[5] \in Int /\ s[6] \in Int
<1>1. \A k \in 1..Len(s) : s[k] \in Int
  BY HeldIs
<1>2. \A j, k \in 1..Len(s) : j <= k => s[j] <= s[k]
  BY HeldIs
<1> QED BY <1>1, <1>2

LEMMA QuadDualIs ==
    ASSUME NEW s, Held(s), Len(s) = 6
    PROVE  IsQUADDUAL(s) <=> HowMany(s, 2) # 0 /\ HowMany(s, 4) # 0
<1>1. Sort(s) = s
  BY HeldIs, SortKeeps
<1>2. IsQUADDUAL(s) <=> \/ s[1] = s[2] /\ s[1] # s[3] /\ Same(s, 3..6)
                        \/ ~(s[1] = s[2] /\ s[1] # s[3]) /\ s[5] = s[6] /\ Same(s, 1..4)
  BY <1>1 DEF IsQUADDUAL
<1>3. PICK p \in Nat, g \in Nat : Run(s, 1, p, g)
  <2> 1 \in 1..Len(s)
    OBVIOUS
  <2> QED BY RunAt
<1>4. PICK q \in Nat, h \in Nat : Run(s, 6, q, h)
  <2> 6 \in 1..Len(s)
    OBVIOUS
  <2> QED BY RunAt
<1>5. /\ g \in 1..4 /\ p = 0 /\ s[1] \in Kinds(s, g)
      /\ s[2] = s[1] <=> 2 <= g
      /\ s[3] = s[1] <=> 3 <= g
      /\ s[4] = s[1] <=> 4 <= g
      /\ s[5] # s[1] /\ s[6] # s[1]
  BY <1>3 DEF Run
<1>6. /\ h \in 1..4 /\ q = 6 - h /\ s[6] \in Kinds(s, h)
      /\ s[2] # s[6]
      /\ s[3] = s[6] <=> q < 3
      /\ s[4] = s[6] <=> q < 4
      /\ s[5] = s[6] <=> q < 5
  BY <1>4 DEF Run
<1>7. ASSUME IsQUADDUAL(s) PROVE HowMany(s, 2) # 0 /\ HowMany(s, 4) # 0
  <2>1. CASE s[1] = s[2] /\ s[1] # s[3] /\ Same(s, 3..6)
    <3>1. s[3] = s[6]
      BY <2>1 DEF Same
    <3>2. g = 2 /\ h = 4
      BY ONLY <1>5, <1>6, <2>1, <3>1
    <3> QED BY <1>5, <1>6, <3>2, HasNone
  <2>2. CASE s[5] = s[6] /\ Same(s, 1..4)
    <3>1. s[4] = s[1] /\ s[4] # s[6]
      BY <1>5, <2>2 DEF Same
    <3>2. s[1] = s[2] /\ s[1] = s[3] /\ s[1] = s[4]
      BY <2>2 DEF Same
    <3>3. g = 4 /\ h = 2
      BY ONLY <1>5, <1>6, <2>2, <3>1, <3>2
    <3> QED BY <1>5, <1>6, <3>3, HasNone
  <2> QED BY <1>2, <1>7, <2>1, <2>2
<1>8. ASSUME HowMany(s, 2) # 0, HowMany(s, 4) # 0 PROVE IsQUADDUAL(s)
  <2>1. PICK m \in Kinds(s, 2), n \in Kinds(s, 4) : m # n
    BY <1>8, HasNone DEF Kinds
  <2>2. PICK a \in Nat : Stands(s, m, a, 2)
    BY BlockOf
  <2>3. PICK b \in Nat : Stands(s, n, b, 4)
    BY BlockOf
  <2>4. a \in 0..4 /\ \A k \in 1..6 : s[k] = m <=> a < k /\ k <= a + 2
    BY <2>2 DEF Stands
  <2>5. b \in 0..2 /\ \A k \in 1..6 : s[k] = n <=> b < k /\ k <= b + 4
    BY <2>3 DEF Stands
  <2>6. (a = 0 /\ b = 2) \/ (a = 4 /\ b = 0)
    <3>1. \A k \in 1..6 : ~(a < k /\ k <= a + 2 /\ b < k /\ k <= b + 4)
      BY <2>1, <2>4, <2>5
    <3>2. 2 \in 1..6 /\ 3 \in 1..6 /\ 4 \in 1..6 /\ 5 \in 1..6
      OBVIOUS
    <3>3. /\ ~(a < 2 /\ 2 <= a + 2 /\ b < 2 /\ 2 <= b + 4)
          /\ ~(a < 3 /\ 3 <= a + 2 /\ b < 3 /\ 3 <= b + 4)
          /\ ~(a < 4 /\ 4 <= a + 2 /\ b < 4 /\ 4 <= b + 4)
          /\ ~(a < 5 /\ 5 <= a + 2 /\ b < 5 /\ 5 <= b + 4)
      BY <3>1, <3>2
    <3>4. a \in 0..4 /\ b \in 0..2
      BY <2>4, <2>5
    <3> QED BY ONLY <3>3, <3>4
  <2>7. CASE a = 0 /\ b = 2
    <3>1. s[1] = s[2] /\ s[1] # s[3]
      BY <2>1, <2>4, <2>7
    <3>2. Same(s, 3..6)
      BY <2>5, <2>7 DEF Same
    <3> QED BY <1>2, <3>1, <3>2
  <2>8. CASE a = 4 /\ b = 0
    <3>1. s[5] = s[6] /\ s[1] = s[3]
      BY <2>4, <2>5, <2>8
    <3>2. Same(s, 1..4)
      BY <2>5, <2>8 DEF Same
    <3> QED BY <1>2, <3>1, <3>2
  <2> QED BY <2>6, <2>7, <2>8
<1> QED BY <1>7, <1>8

LEMMA DualThreeIs ==
    ASSUME NEW s, Held(s), Len(s) = 6
    PROVE  IsDUALTHREE(s) <=> HowMany(s, 2) = 3 /\ RowOf(s, 2)
<1>1. /\ Sort(s) = s /\ KING \in Nat /\ KING >= 5
      /\ s[1] \in Number /\ s[3] \in Number /\ s[5] \in Number
  <2>1. \A k \in 1..Len(s) : s[k] \in Number
    BY HeldIs
  <2> QED BY <2>1, HeldIs, SortKeeps, NumberIs
<1>2. IsDUALTHREE(s) <=>
        /\ s[1] \in Kinds(s, 2) /\ s[3] \in Kinds(s, 2) /\ s[5] \in Kinds(s, 2)
        /\ s[1] # 0
        /\ IF s[1] = 1 THEN s[3] = KING - 1 /\ s[5] = KING
                       ELSE s[1] + 1 = s[3] /\ s[3] + 1 = s[5]
  BY <1>1 DEF IsDUALTHREE, Kinds
<1>3. /\ s[1] <= s[2] /\ s[2] <= s[3] /\ s[3] <= s[4] /\ s[4] <= s[5] /\ s[5] <= s[6]
      /\ s[1] \in Int /\ s[2] \in Int /\ s[3] \in Int
      /\ s[4] \in Int /\ s[5] \in Int /\ s[6] \in Int
  BY SixSteps
<1>4. ASSUME s[1] \in Kinds(s, 2), s[3] \in Kinds(s, 2), s[5] \in Kinds(s, 2)
      PROVE  s[1] < s[3] /\ s[3] < s[5]
  <2>1. PICK p \in Nat, g \in Nat : Run(s, 1, p, g)
    <3> 1 \in 1..Len(s)
      OBVIOUS
    <3> QED BY RunAt
  <2>2. PICK q \in Nat, h \in Nat : Run(s, 3, q, h)
    <3> 3 \in 1..Len(s)
      OBVIOUS
    <3> QED BY RunAt
  <2>3. g = 2 /\ p = 0 /\ s[2] = s[1] /\ s[3] # s[1]
    BY <1>4, <2>1 DEF Run, Kinds
  <2>4. h = 2 /\ s[2] # s[3] /\ s[5] # s[3]
    <3>1. h = 2 /\ q < 3 /\ 3 <= q + 2
      BY <1>4, <2>2 DEF Run, Kinds
    <3>2. s[2] = s[3] <=> q < 2 /\ 2 <= q + 2
      BY <2>2, <3>1 DEF Run
    <3>3. s[5] = s[3] <=> q < 5 /\ 5 <= q + 2
      BY <2>2, <3>1 DEF Run
    <3> QED BY <2>3, <3>1, <3>2, <3>3
  <2> QED BY ONLY <1>3, <2>3, <2>4
<1>5. ASSUME s[1] \in Kinds(s, 2), s[3] \in Kinds(s, 2), s[5] \in Kinds(s, 2)
      PROVE  HowMany(s, 2) = 3 /\ Kinds(s, 2) = {s[1], s[3], s[5]}
  <2>1. s[1] # s[3] /\ s[3] # s[5] /\ s[1] # s[5]
    BY <1>3, <1>4, <1>5
  <2>2. HowMany(s, 2) >= 3 /\ (HowMany(s, 2) = 3 => Kinds(s, 2) = {s[1], s[3], s[5]})
    BY <1>5, <2>1, HasThree
  <2>3. PICK a \in Nat, b \in Nat, c \in Nat, d \in Nat :
          /\ Shape(s, a, b, c, d) /\ a + 2 * b + 3 * c + 4 * d = Len(s)
    BY HeldShape
  <2>4. HowMany(s, 2) = b /\ a + 2 * b + 3 * c + 4 * d = 6
    BY <2>3 DEF Shape
  <2>5. HowMany(s, 2) = 3
    BY ONLY <2>2, <2>4, a \in Nat, b \in Nat, c \in Nat, d \in Nat
  <2> QED BY <2>2, <2>5
<1>6. ASSUME HowMany(s, 2) = 3
      PROVE  s[1] \in Kinds(s, 2) /\ s[3] \in Kinds(s, 2) /\ s[5] \in Kinds(s, 2)
  <2>1. PICK a \in Nat, b \in Nat, c \in Nat, d \in Nat :
          /\ Shape(s, a, b, c, d) /\ a + 2 * b + 3 * c + 4 * d = Len(s)
    BY HeldShape
  <2>2. a + 2 * 3 + 3 * c + 4 * d = 6 /\ HowMany(s, 1) = a /\ HowMany(s, 3) = c /\ HowMany(s, 4) = d
    BY <1>6, <2>1 DEF Shape
  <2>3. HowMany(s, 1) = 0 /\ HowMany(s, 3) = 0 /\ HowMany(s, 4) = 0
    BY ONLY <2>2, a \in Nat, c \in Nat, d \in Nat
  <2>4. Kinds(s, 1) = {} /\ Kinds(s, 3) = {} /\ Kinds(s, 4) = {}
    BY <2>3, HasNone
  <2>5. ASSUME NEW j \in 1..Len(s) PROVE s[j] \in Kinds(s, 2)
    <3>1. PICK p \in Nat, g \in Nat : Run(s, j, p, g)
      BY RunAt
    <3>2. g \in 1..4 /\ s[j] \in Kinds(s, g)
      BY <3>1 DEF Run
    <3> QED BY <2>4, <3>2
  <2> QED BY <2>5
<1>7. ASSUME s[1] \in Kinds(s, 2), s[3] \in Kinds(s, 2), s[5] \in Kinds(s, 2)
      PROVE  RowOf(s, 2) <=> /\ s[1] # 0
                             /\ IF s[1] = 1 THEN s[3] = KING - 1 /\ s[5] = KING
                                            ELSE s[1] + 1 = s[3] /\ s[3] + 1 = s[5]
  BY <1>1, <1>4, <1>5, <1>7, RowThree DEF RowOf
<1> QED BY <1>2, <1>5, <1>6, <1>7

LEMMA KindOfSix ==
    ASSUME NEW s, Held(s), Len(s) = 6, ~Gap(s)
    PROVE  Type(s) = MeantType(s)
<1>1. s \in Seq(Number) /\ Len(s) \in Nat /\ \A n \in Number : GetNumberCount(s, n) <= 4
  BY HeldIs
<1>2. MeantType(s) # "STRAIGHT" /\ GetNumberCount(s, 1) # 3
  BY DEF Gap
<1>3. MeantType(s) = IF HowMany(s, 3) = 2 /\ RowOf(s, 3) THEN "TWOTRIPLE"
                     ELSE IF HowMany(s, 2) # 0 /\ HowMany(s, 4) # 0 THEN "QUADDUAL"
                     ELSE IF HowMany(s, 2) = 3 /\ RowOf(s, 2) THEN "DUALTHREE"
                     ELSE IF HowMany(s, 1) = 6 /\ RowOf(s, 1) THEN "STRAIGHT" ELSE "NONE"
  BY <1>1, MeantSix
<1>4. Type(s) = IF IsTWOTRIPLE(s) THEN "TWOTRIPLE"
                ELSE IF IsQUADDUAL(s) THEN "QUADDUAL"
                ELSE IF IsDUALTHREE(s) THEN "DUALTHREE" ELSE "NONE"
  BY <1>1, TypeIs
<1>5. /\ IsTWOTRIPLE(s) <=> HowMany(s, 3) = 2 /\ RowOf(s, 3)
      /\ IsQUADDUAL(s) <=> HowMany(s, 2) # 0 /\ HowMany(s, 4) # 0
      /\ IsDUALTHREE(s) <=> HowMany(s, 2) = 3 /\ RowOf(s, 2)
  BY <1>2, TwoTripleIs, QuadDualIs, DualThreeIs
<1> QED BY ONLY <1>2, <1>3, <1>4, <1>5

----------------------------------------------------------------------------
(* Seven cards and more.                                                   *)

LEMMA BlockCount ==
    ASSUME NEW s \in Seq(Number), NEW n \in Int, NEW p \in Nat, NEW m \in Nat, Stands(s, n, p, m)
    PROVE  GetNumberCount(s, n) = m
<1>1. /\ p \in 0..Len(s) - m /\ Len(s) \in Nat
      /\ \A k \in 1..Len(s) : s[k] = n <=> p < k /\ k <= p + m
  BY HandIs DEF Stands
<1>2. At(s, n, p + 1..p + m)
  BY <1>1 DEF At
<1>3. Cardinality(p + 1..p + m) = m
  <2>1. p + 1 \in Int /\ p + m \in Int
    OBVIOUS
  <2>2. Cardinality(p + 1..p + m) = IF p + 1 > p + m THEN 0 ELSE (p + m) - (p + 1) + 1
    BY <2>1, FS_Interval
  <2> QED BY <2>2
<1> QED BY <1>2, <1>3, CountAt

LEMMA RemoveIs ==
    ASSUME NEW s, Sorted(s), NEW n \in Int
    PROVE  /\ Sorted(RemoveNumber(s, n))
           /\ Len(RemoveNumber(s, n)) = Len(s) - GetNumberCount(s, n)
           /\ \A m \in Int : GetNumberCount(RemoveNumber(s, n), m)
                             = IF m = n THEN 0 ELSE GetNumberCount(s, m)
<1>1. /\ s \in Seq(Number) /\ Len(s) \in Nat /\ \A k \in 1..Len(s) : s[k] \in Number /\ s[k] \in Int
      /\ \A j, k \in 1..Len(s) : j <= k => s[j] <= s[k]
  BY SortedIs
<1>2. PICK c \in Nat, b \in Nat : /\ c = GetNumberCount(s, n) /\ b = Below(s, n)
                                 /\ b + c <= Len(s) /\ Below(s, n + 1) = b + c
  <2>1. n + 1 \in Int /\ GetNumberCount(s, n) \in Nat /\ Below(s, n) \in Nat
    <3>1. GetNumberCount(s, n) \in Nat /\ Below(s, n) \in Nat
      BY <1>1, CountIs
    <3> QED BY <3>1
  <2>2. Below(s, n + 1) = Below(s, n) + GetNumberCount(s, n)
    BY <1>1, CountIs
  <2>3. Below(s, n + 1) <= Len(s)
    BY <1>1, <2>1, CountIs
  <2> QED BY <2>1, <2>2, <2>3
<1> DEFINE r == RemoveNumber(s, n)
           L == Len(s) - c
<1>3. \A k \in 1..Len(s) : /\ s[k] < n <=> k <= b
                           /\ s[k] = n <=> b < k /\ k <= b + c
  BY <1>2, BelowIs, Block
<1>4. r = [k \in 1..L |-> IF s[k] < n THEN s[k] ELSE s[k + c]]
  BY <1>2 DEF RemoveNumber
<1>5. L \in Nat /\ \A k \in 1..L : k \in 1..Len(s) /\ k + c \in 1..Len(s)
  BY <1>1, <1>2
<1>6. r \in [1..L -> Number]
  BY <1>1, <1>4, <1>5
<1>7. r \in Seq(Number) /\ Len(r) = L
  <2>1. L \in Nat
    BY <1>5
  <2> HIDE DEF L, r
  <2> QED BY <1>6, <2>1
<1>8. \A k \in 1..L : r[k] = IF k <= b THEN s[k] ELSE s[k + c]
  BY <1>3, <1>4, <1>5
<1> HIDE DEF r
<1>9. Sorted(r)
  <2> SUFFICES ASSUME NEW j \in 1..L, NEW k \in 1..L, j <= k PROVE r[j] <= r[k]
    BY <1>7 DEF Sorted
  <2>1. r[j] = (IF j <= b THEN s[j] ELSE s[j + c]) /\ r[k] = (IF k <= b THEN s[k] ELSE s[k + c])
    BY <1>8
  <2>2. j <= k /\ j <= k + c /\ j + c <= k + c
    OBVIOUS
  <2>3. /\ j \in 1..Len(s) /\ k \in 1..Len(s) /\ j + c \in 1..Len(s) /\ k + c \in 1..Len(s)
    BY <1>5
  <2>4. s[j] <= s[k] /\ s[j] <= s[k + c] /\ s[j + c] <= s[k + c]
    BY <1>1, <2>2, <2>3
  <2> QED BY <2>1, <2>4
<1>10. ASSUME NEW m \in Int
       PROVE  GetNumberCount(r, m) = IF m = n THEN 0 ELSE GetNumberCount(s, m)
  <2>1. CASE m = n
    <3>1. \A k \in 1..L : r[k] # n
      <4> TAKE k \in 1..L
      <4>1. CASE k <= b
        <5>1. s[k] < n /\ s[k] \in Int
          BY <1>1, <1>3, <1>5, <4>1
        <5> QED BY <1>8, <4>1, <5>1
      <4>2. CASE ~(k <= b)
        <5>1. ~(k + c <= b + c)
          BY <4>2
        <5>2. s[k + c] # n
          BY <1>3, <1>5, <5>1
        <5> QED BY <1>8, <4>2, <5>2
      <4> QED BY <4>1, <4>2
    <3> QED BY <1>7, <2>1, <3>1, NoneOf
  <2>2. CASE m # n
    <3>1. PICK g \in Nat, p \in Nat :
            /\ g = GetNumberCount(s, m) /\ p = Below(s, m) /\ Below(s, m + 1) = p + g
            /\ p + g <= Len(s)
      <4>1. m + 1 \in Int /\ GetNumberCount(s, m) \in Nat /\ Below(s, m) \in Nat
        <5>1. GetNumberCount(s, m) \in Nat /\ Below(s, m) \in Nat
          BY <1>1, CountIs
        <5> QED BY <5>1
      <4>2. Below(s, m + 1) = Below(s, m) + GetNumberCount(s, m)
        BY <1>1, CountIs
      <4>3. Below(s, m + 1) <= Len(s)
        BY <1>1, <4>1, CountIs
      <4> QED BY <4>1, <4>2, <4>3
    <3>2. \A k \in 1..Len(s) : s[k] = m <=> p < k /\ k <= p + g
      BY <3>1, Block
    <3>3. CASE m < n
      <4>1. p + g <= b
        <5>1. m + 1 \in Int /\ m + 1 <= n
          BY <3>3
        <5> QED BY <1>1, <1>2, <3>1, <5>1, BelowGrows
      <4>2. Stands(r, m, p, g)
        <5>1. p \in 0..L - g
          BY <1>2, <1>5, <4>1, SMTT(30)
        <5>2. \A k \in 1..L : r[k] = m <=> p < k /\ k <= p + g
          <6> TAKE k \in 1..L
          <6>1. CASE k <= b
            BY <1>5, <1>8, <3>2, <6>1
          <6>2. CASE ~(k <= b)
            <7>1. ~(s[k + c] < n)
              BY <1>2, <1>3, <1>5, <6>2, SMTT(30)
            <7>2. r[k] # m
              BY <1>1, <1>5, <1>8, <3>3, <6>2, <7>1
            <7> QED BY <4>1, <6>2, <7>2
          <6> QED BY <6>1, <6>2
        <5> QED BY <1>7, <5>1, <5>2 DEF Stands
      <4> QED BY <1>7, <2>2, <3>1, <4>2, BlockCount
    <3>4. CASE n < m
      <4>1. b + c <= p
        <5>1. n + 1 \in Int /\ n + 1 <= m
          BY <3>4
        <5> QED BY <1>1, <1>2, <3>1, <5>1, BelowGrows
      <4>2. p - c \in Nat
        <5>1. p \in Nat /\ b \in Nat /\ c \in Nat
          BY <1>2, <3>1
        <5> QED BY ONLY <4>1, <5>1
      <4>3. Stands(r, m, p - c, g)
        <5>1. p - c \in 0..L - g
          BY <1>1, <1>2, <3>1, <4>1, <4>2, SMTT(30)
        <5>2. \A k \in 1..L : r[k] = m <=> p - c < k /\ k <= (p - c) + g
          <6> TAKE k \in 1..L
          <6>1. CASE k <= b
            <7>1. s[k] < n
              BY <1>3, <1>5, <6>1
            <7>2. r[k] # m
              BY <1>1, <1>5, <1>8, <3>4, <6>1, <7>1
            <7>3. ~(p - c < k)
              BY <3>1, <4>1, <6>1
            <7> QED BY <7>2, <7>3
          <6>2. CASE ~(k <= b)
            <7>1. r[k] = m <=> p < k + c /\ k + c <= p + g
              BY <1>5, <1>8, <3>2, <6>2
            <7> QED BY <3>1, <7>1
          <6> QED BY <6>1, <6>2
        <5> QED BY <1>7, <5>1, <5>2 DEF Stands
      <4> QED BY <1>7, <2>2, <3>1, <4>2, <4>3, BlockCount
    <3> QED BY <2>2, <3>3, <3>4
  <2> QED BY <2>1, <2>2
<1> QED BY <1>2, <1>7, <1>9, <1>10 DEF r

\* Two triples of eight or ten cards, the ace after the KING.
LEMMA FlightOneIs ==
    ASSUME NEW s, Held(s), Len(s) = 8
    PROVE  IsFLIGHTONE(s) <=> HowMany(s, 3) = 2 /\ RowOf(s, 3)
<1>1. /\ Sort(s) = s /\ KING \in Nat /\ KING >= 5 /\ s[3] \in Number /\ s[6] \in Number
      /\ s[3] \in Nat /\ s[6] \in Nat
  <2>1. \A k \in 1..Len(s) : s[k] \in Number
    BY HeldIs
  <2>2. s[3] \in Number /\ s[6] \in Number
    BY <2>1
  <2> QED BY <2>2, HeldIs, SortKeeps, NumberIs
<1>2. IsFLIGHTONE(s) <=> /\ s[3] \in Kinds(s, 3) /\ s[6] \in Kinds(s, 3)
                         /\ s[6] = IF s[3] = 1 THEN KING ELSE s[3] + 1
  BY <1>1 DEF IsFLIGHTONE, Kinds
<1>3. ASSUME IsFLIGHTONE(s) PROVE HowMany(s, 3) = 2 /\ RowOf(s, 3)
  <2>1. s[3] # 0
    BY <1>2, <1>3 DEF Held, Kinds
  <2>2. s[3] < s[6]
    BY <1>1, <1>2, <1>3, <2>1
  <2>3. HowMany(s, 3) >= 2 /\ (HowMany(s, 3) = 2 => Kinds(s, 3) = {s[3], s[6]})
    BY <1>2, <1>3, <2>2, <1>1, HasTwo
  <2>4. PICK a \in Nat, b \in Nat, c \in Nat, d \in Nat :
          /\ Shape(s, a, b, c, d) /\ a + 2 * b + 3 * c + 4 * d = Len(s)
    BY HeldShape
  <2>5. HowMany(s, 3) = c /\ a + 2 * b + 3 * c + 4 * d = 8
    BY <2>4 DEF Shape
  <2>6. HowMany(s, 3) = 2
    BY ONLY <2>3, <2>5, a \in Nat, b \in Nat, c \in Nat, d \in Nat
  <2>7. Row({s[3], s[6]})
    BY <1>1, <1>2, <1>3, <2>1, <2>2, RowTwo
  <2> QED BY <2>3, <2>6, <2>7 DEF RowOf
<1>4. ASSUME HowMany(s, 3) = 2, RowOf(s, 3) PROVE IsFLIGHTONE(s)
  <2>1. PICK x \in Kinds(s, 3), y \in Kinds(s, 3) : x < y
    BY <1>4, HasMore
  <2>2. x \in Number /\ y \in Number /\ x # y
    <3>1. x \in Number /\ y \in Number
      BY DEF Kinds
    <3> QED BY <2>1, <3>1, NumberIs
  <2>3. Kinds(s, 3) = {x, y}
    BY <1>4, <2>2, HasTwo
  <2>4. y = IF x = 1 THEN KING ELSE x + 1
    BY <1>4, <2>1, <2>2, <2>3, RowTwo DEF RowOf
  <2>5. PICK p \in Nat : Stands(s, x, p, 3)
    BY BlockOf
  <2>6. PICK q \in Nat : Stands(s, y, q, 3)
    BY BlockOf
  <2>7. p \in 0..5 /\ \A k \in 1..8 : s[k] = x <=> p < k /\ k <= p + 3
    BY <2>5 DEF Stands
  <2>8. q \in 0..5 /\ \A k \in 1..8 : s[k] = y <=> q < k /\ k <= q + 3
    BY <2>6 DEF Stands
  <2>9. p + 3 <= q
    <3>1. \A j, k \in 1..8 : j <= k => s[j] <= s[k]
      BY HeldIs
    <3>2. p + 1 \in 1..8 /\ p + 3 \in 1..8 /\ q + 1 \in 1..8 /\ q + 3 \in 1..8
      BY <2>7, <2>8
    <3>3. s[p + 3] = x /\ s[q + 1] = y
      BY <2>7, <2>8, <3>2
    <3>4. ~(y <= x)
      BY <2>1, <2>2, NumberIs
    <3>5. ~(q + 1 <= p + 3)
      BY <3>1, <3>2, <3>3, <3>4
    <3> QED BY <2>7, <2>8, <3>5
  <2>10. s[3] = x /\ s[6] = y
    <3>1. p < 3 /\ 3 <= p + 3 /\ q < 6 /\ 6 <= q + 3
      BY <2>7, <2>8, <2>9
    <3> QED BY <2>7, <2>8, <3>1
  <2> QED BY <1>2, <2>3, <2>4, <2>10
<1> QED BY <1>3, <1>4

\* What is left of a sorted hand without two numbers.
LEMMA RemoveTwoIs ==
    ASSUME NEW s, Sorted(s), NEW x \in Int, NEW y \in Int, x # y
    PROVE  LET r == RemoveNumber(RemoveNumber(s, x), y) IN
           /\ Sorted(r) /\ Len(r) = Len(s) - GetNumberCount(s, x) - GetNumberCount(s, y)
           /\ \A m \in Int : GetNumberCount(r, m)
                             = IF m \in {x, y} THEN 0 ELSE GetNumberCount(s, m)
<1> DEFINE q == RemoveNumber(s, x)
<1>1. /\ Sorted(q) /\ Len(q) = Len(s) - GetNumberCount(s, x)
      /\ \A m \in Int : GetNumberCount(q, m) = IF m = x THEN 0 ELSE GetNumberCount(s, m)
  BY RemoveIs
<1> HIDE DEF q
<1>2. /\ Sorted(RemoveNumber(q, y)) /\ Len(RemoveNumber(q, y)) = Len(q) - GetNumberCount(q, y)
      /\ \A m \in Int : GetNumberCount(RemoveNumber(q, y), m)
                        = IF m = y THEN 0 ELSE GetNumberCount(q, m)
  BY <1>1, RemoveIs
<1> DEFINE r == RemoveNumber(q, y)
<1> HIDE DEF r
<1>3. /\ Sorted(r) /\ Len(r) = Len(s) - GetNumberCount(s, x) - GetNumberCount(s, y)
      /\ \A m \in Int : GetNumberCount(r, m)
                        = IF m \in {x, y} THEN 0 ELSE GetNumberCount(s, m)
  BY <1>1, <1>2 DEF r
<1> QED BY <1>3 DEF r, q

LEMMA FlightTwoPairs ==
    ASSUME NEW r, Sorted(r), Len(r) = 4,
           GetNumberCount(r, r[1]) = 2, GetNumberCount(r, r[4]) = 2
    PROVE  r[1] # r[4]
<1> SUFFICES ASSUME r[1] = r[4] PROVE FALSE
  OBVIOUS
<1>1. r \in Seq(Number) /\ \A k \in 1..Len(r) : r[k] \in Int
  BY SortedIs
<1>2. \A j, k \in 1..Len(r) : j <= k => r[j] <= r[k]
  BY SortedIs
<1>3. \A k \in 1..4 : r[k] = r[1]
  <2> TAKE k \in 1..4
  <2>1. r[1] <= r[k] /\ r[k] <= r[4] /\ r[1] \in Int /\ r[k] \in Int /\ r[4] \in Int
    BY <1>1, <1>2
  <2> QED BY <2>1
<1>4. At(r, r[1], 1..4)
  BY <1>3 DEF At
<1>5. Cardinality(1..4) = 4
  <2> 4 \in Nat
    OBVIOUS
  <2> QED BY UpToCard
<1>6. r[1] \in Int
  BY <1>1
<1> QED BY <1>1, <1>4, <1>5, <1>6, CountAt

\* The lowest of the triples, and the one to follow it.
Lowest(T) == CHOOSE n \in T : \A m \in T : n <= m
Next3(n) == IF n = 1 THEN KING ELSE n + 1

LEMMA LowestIs ==
    ASSUME NEW T \in SUBSET Number, T # {}
    PROVE  Lowest(T) \in T /\ \A m \in T : Lowest(T) <= m
<1>1. T \in SUBSET Nat
  BY NumberIs
<1>2. \E n \in T : \A m \in T : n <= m
  BY <1>1, LeastNatural
<1> QED BY <1>2 DEF Lowest

LEMMA FlightTwoParts ==
    ASSUME NEW s, Sorted(s), NEW x, NEW y, NEW r,
           x = Lowest(Kinds(s, 3)), y = Next3(x),
           r = RemoveNumber(RemoveNumber(s, x), y)
    PROVE  IsFLIGHTTWO(s) <=>
             /\ Kinds(s, 3) # {} /\ GetNumberCount(s, y) = 3
             /\ Len(r) = 4 /\ GetNumberCount(r, r[1]) = 2 /\ GetNumberCount(r, r[4]) = 2
<1>1. Sort(s) = s
  BY SortKeeps
<1> QED BY <1>1 DEF IsFLIGHTTWO, Lowest, Next3, Kinds

LEMMA FlightTwoIs ==
    ASSUME NEW s, Held(s), Len(s) = 10
    PROVE  IsFLIGHTTWO(s) <=> HowMany(s, 2) = 2 /\ HowMany(s, 3) = 2 /\ RowOf(s, 3)
<1> DEFINE x == Lowest(Kinds(s, 3))
           y == Next3(x)
           r == RemoveNumber(RemoveNumber(s, x), y)
<1>1. Sorted(s) /\ s \in Seq(Number) /\ KING \in Nat /\ KING >= 5 /\ Kinds(s, 3) \in SUBSET Number
  BY HeldIs, NumberIs DEF Kinds
<1>2. IsFLIGHTTWO(s) <=>
        /\ Kinds(s, 3) # {} /\ GetNumberCount(s, y) = 3
        /\ Len(r) = 4 /\ GetNumberCount(r, r[1]) = 2 /\ GetNumberCount(r, r[4]) = 2
  BY <1>1, FlightTwoParts
<1>3. ASSUME Kinds(s, 3) # {}
      PROVE  /\ x \in Kinds(s, 3) /\ x \in Number /\ x \in Nat /\ x # 0 /\ y \in Nat /\ x < y
             /\ GetNumberCount(s, x) = 3
  <2>1. x \in Kinds(s, 3)
    BY <1>1, <1>3, LowestIs
  <2>2. x \in Number /\ GetNumberCount(s, x) = 3
    BY <2>1 DEF Kinds
  <2>3. x # 0 /\ x \in Nat
    BY <2>2, NumberIs DEF Held
  <2> HIDE DEF x
  <2> QED BY <1>1, <2>1, <2>2, <2>3 DEF Next3
<1>4. ASSUME Kinds(s, 3) # {}
      PROVE  /\ Sorted(r) /\ Len(r) = Len(s) - GetNumberCount(s, x) - GetNumberCount(s, y)
             /\ \A m \in Int : GetNumberCount(r, m)
                               = IF m \in {x, y} THEN 0 ELSE GetNumberCount(s, m)
  <2>1. x \in Int /\ y \in Int /\ x # y
    BY <1>3, <1>4
  <2> HIDE DEF x, y
  <2> QED BY <1>1, <2>1, RemoveTwoIs
<1> HIDE DEF x, r
<1>5. ASSUME IsFLIGHTTWO(s) PROVE HowMany(s, 2) = 2 /\ HowMany(s, 3) = 2 /\ RowOf(s, 3)
  <2>1. /\ Kinds(s, 3) # {} /\ GetNumberCount(s, y) = 3
        /\ Len(r) = 4 /\ GetNumberCount(r, r[1]) = 2 /\ GetNumberCount(r, r[4]) = 2
    BY <1>2, <1>5
  <2> HIDE DEF y
  <2>2. /\ Sorted(r) /\ r[1] \in Number /\ r[4] \in Number /\ r[1] \in Int /\ r[4] \in Int
    <3>1. Sorted(r)
      BY <1>4, <2>1
    <3>2. \A k \in 1..Len(r) : r[k] \in Number /\ r[k] \in Int
      BY <3>1, SortedIs
    <3> QED BY <2>1, <3>1, <3>2
  <2>3. r[1] \in Kinds(s, 2) /\ r[4] \in Kinds(s, 2)
    <3>1. \A m \in Int : GetNumberCount(r, m) = 2 => GetNumberCount(s, m) = 2
      BY <1>4, <2>1
    <3> QED BY <2>1, <2>2, <3>1 DEF Kinds
  <2>4. r[1] # r[4]
    BY <2>1, <2>2, FlightTwoPairs
  <2>5. HowMany(s, 2) >= 2
    BY <2>3, <2>4, HasTwo
  <2>6. y \in Kinds(s, 3) /\ y \in Number
    <3>1. y \in Int /\ GetNumberCount(s, y) # 0
      BY <1>3, <2>1
    <3>2. PICK k \in 1..Len(s) : s[k] = y
      BY <1>1, <3>1, SomeOf
    <3>3. y \in Number
      BY <3>2, HeldIs
    <3> QED BY <2>1, <3>3 DEF Kinds
  <2>7. x \in Kinds(s, 3) /\ x \in Number /\ x \in Nat /\ y \in Nat /\ x # 0 /\ x < y
    BY <1>3, <2>1
  <2>8. HowMany(s, 3) >= 2 /\ (HowMany(s, 3) = 2 => Kinds(s, 3) = {x, y})
    BY <2>6, <2>7, HasTwo
  <2>9. PICK a \in Nat, b \in Nat, c \in Nat, d \in Nat :
          /\ Shape(s, a, b, c, d) /\ a + 2 * b + 3 * c + 4 * d = Len(s)
    BY HeldShape
  <2>10. HowMany(s, 2) = b /\ HowMany(s, 3) = c /\ a + 2 * b + 3 * c + 4 * d = 10
    BY <2>9 DEF Shape
  <2>11. HowMany(s, 2) = 2 /\ HowMany(s, 3) = 2
    BY ONLY <2>5, <2>8, <2>10, a \in Nat, b \in Nat, c \in Nat, d \in Nat
  <2>12. Row({x, y})
    BY <2>6, <2>7, RowTwo DEF y, Next3
  <2> QED BY <2>8, <2>11, <2>12 DEF RowOf
<1>6. ASSUME HowMany(s, 2) = 2, HowMany(s, 3) = 2, RowOf(s, 3) PROVE IsFLIGHTTWO(s)
  <2>1. PICK v \in Kinds(s, 3), w \in Kinds(s, 3) : v < w
    BY <1>6, HasMore
  <2>2. v \in Number /\ w \in Number /\ v # w /\ v \in Nat /\ w \in Nat
    <3>1. v \in Number /\ w \in Number
      BY DEF Kinds
    <3> QED BY <2>1, <3>1, NumberIs
  <2>3. Kinds(s, 3) = {v, w}
    BY <1>6, <2>2, HasTwo
  <2>4. w = IF v = 1 THEN KING ELSE v + 1
    BY <1>6, <2>1, <2>2, <2>3, RowTwo DEF RowOf
  <2>5. x = v
    <3>1. x \in {v, w} /\ \A m \in {v, w} : x <= m
      BY <1>1, <2>3, LowestIs DEF x
    <3> QED BY <2>1, <2>2, <3>1
  <2>6. y = w
    BY <2>4, <2>5 DEF Next3
  <2> HIDE DEF y
  <2>7. GetNumberCount(s, x) = 3 /\ GetNumberCount(s, y) = 3 /\ Kinds(s, 3) # {} /\ Kinds(s, 3) = {x, y}
    BY <2>3, <2>5, <2>6 DEF Kinds
  <2>8. Sorted(r) /\ Len(r) = 4
    BY <1>4, <2>7
  <2>9. PICK a \in Nat, b \in Nat, c \in Nat, d \in Nat :
          /\ Shape(s, a, b, c, d) /\ a + 2 * b + 3 * c + 4 * d = Len(s)
    BY HeldShape
  <2>10. /\ a + 2 * 2 + 3 * 2 + 4 * d = 10 /\ HowMany(s, 1) = a /\ HowMany(s, 4) = d
    BY <1>6, <2>9 DEF Shape
  <2>11. HowMany(s, 1) = 0 /\ HowMany(s, 4) = 0
    BY ONLY <2>10, a \in Nat, d \in Nat
  <2>12. Kinds(s, 1) = {} /\ Kinds(s, 4) = {}
    BY <2>11, HasNone
  <2>13. ASSUME NEW j \in 1..Len(r) PROVE GetNumberCount(r, r[j]) = 2
    <3>1. r \in Seq(Number) /\ r[j] \in Number /\ r[j] \in Int
      BY <2>8, SortedIs
    <3>2. GetNumberCount(r, r[j]) # 0
      BY <3>1, NoneOf
    <3>3. r[j] \notin {x, y} /\ GetNumberCount(r, r[j]) = GetNumberCount(s, r[j])
      BY <1>4, <2>7, <3>1, <3>2
    <3>4. GetNumberCount(s, r[j]) \in Nat /\ GetNumberCount(s, r[j]) <= 4
      BY <1>1, <3>1, CountIs, HeldIs
    <3>5. r[j] \notin Kinds(s, 1) /\ r[j] \notin Kinds(s, 3) /\ r[j] \notin Kinds(s, 4)
      BY <2>7, <2>12, <3>3
    <3> QED BY <3>1, <3>2, <3>3, <3>4, <3>5 DEF Kinds
  <2>14. GetNumberCount(r, r[1]) = 2 /\ GetNumberCount(r, r[4]) = 2
    BY <2>8, <2>13
  <2> QED BY <1>2, <2>7, <2>8, <2>14
<1> QED BY <1>5, <1>6

LEMMA KindOfMore ==
    ASSUME NEW s, Held(s), Len(s) > 6, ~Gap(s)
    PROVE  Type(s) = MeantType(s)
<1>1. s \in Seq(Number) /\ Len(s) \in Nat /\ \A n \in Number : GetNumberCount(s, n) <= 4
  BY HeldIs
<1>2. MeantType(s) = IF HowMany(s, 1) = Len(s) /\ RowOf(s, 1) THEN "STRAIGHT"
                     ELSE IF Len(s) = 8 /\ HowMany(s, 3) = 2 /\ RowOf(s, 3) THEN "FLIGHTONE"
                     ELSE IF Len(s) = 10 /\ HowMany(s, 2) = 2 /\ HowMany(s, 3) = 2 /\ RowOf(s, 3)
                          THEN "FLIGHTTWO" ELSE "NONE"
  BY <1>1, MeantLong
<1>3. IsSTRAIGHT(s) <=> HowMany(s, 1) = Len(s) /\ RowOf(s, 1)
  BY <1>1, <1>2, StraightMeant
<1>4. HowMany(s, 1) = Len(s) => HowMany(s, 3) = 0
  BY OnlySingles
<1>5. CASE Len(s) > 10
  <2>1. Type(s) = "NONE"
    BY <1>1, <1>5, TypeIs
  <2>2. MeantType(s) # "STRAIGHT"
    BY <1>5 DEF Gap
  <2>3. \A n \in Nat : n > 10 => n # 8 /\ n # 10
    OBVIOUS
  <2>4. Len(s) # 8 /\ Len(s) # 10
    BY <1>1, <1>5, <2>3
  <2> QED BY <1>2, <2>1, <2>2, <2>4
<1>6. CASE Len(s) \in {7, 9}
  <2>1. Type(s) = IF IsSTRAIGHT(s) THEN "STRAIGHT" ELSE "NONE"
    BY <1>1, <1>6, TypeIs
  <2>2. \A n \in {7, 9} : n # 8 /\ n # 10
    OBVIOUS
  <2>3. Len(s) # 8 /\ Len(s) # 10
    BY <1>6, <2>2
  <2> QED BY <1>2, <1>3, <2>1, <2>3
<1>7. CASE Len(s) = 8
  <2>1. IsFLIGHTONE(s) <=> HowMany(s, 3) = 2 /\ RowOf(s, 3)
    BY <1>7, FlightOneIs
  <2>2. Type(s) = IF IsFLIGHTONE(s) THEN "FLIGHTONE"
                  ELSE IF IsSTRAIGHT(s) THEN "STRAIGHT" ELSE "NONE"
    BY <1>3, <1>4, <1>7, <2>1, TypeOfEight
  <2> QED BY <1>2, <1>3, <1>4, <1>7, <2>1, <2>2
<1>8. CASE Len(s) = 10
  <2>1. IsFLIGHTTWO(s) <=> HowMany(s, 2) = 2 /\ HowMany(s, 3) = 2 /\ RowOf(s, 3)
    BY <1>8, FlightTwoIs
  <2>2. Type(s) = IF IsFLIGHTTWO(s) THEN "FLIGHTTWO"
                  ELSE IF IsSTRAIGHT(s) THEN "STRAIGHT" ELSE "NONE"
    BY <1>3, <1>4, <1>8, <2>1, TypeOfTen
  <2> QED BY <1>2, <1>3, <1>4, <1>8, <2>1, <2>2
<1> QED
  <2>1. \A n \in Nat : n > 6 => n > 10 \/ n \in {7, 9} \/ n = 8 \/ n = 10
    OBVIOUS
  <2> QED BY <1>1, <1>5, <1>6, <1>7, <1>8, <2>1

\* Poker.cpp:241-318: a sorted hand of any length, of at most four cards of a number
\* and two kings, is of the kind it is meant to be, but for the gaps.
THEOREM KindIsMeant ==
    ASSUME NEW s, Held(s), Len(s) # 0, ~Gap(s)
    PROVE  Type(s) = MeantType(s)
<1>1. Len(s) \in Nat
  BY HeldIs
<1>2. \A n \in Nat : n # 0 => n \in 1..5 \/ n = 6 \/ n > 6
  OBVIOUS
<1> QED BY <1>1, <1>2, KindUpToFive, KindOfSix, KindOfMore
----------------------------------------------------------------------------
(* Which hand beats which.                                                 *)

LEMMA NoCardNoKind == \A h : Len(h) = 0 => Type(h) = "NONE"
BY DEF Type

\* Poker.cpp:320-352: of two hands of any length, with whatever numbers, at most one
\* beats the other, unless they are a bomb and a rocket; no hand beats itself.
THEOREM AtMostOneBeats ==
    ASSUME NEW g \in Seq(Number), NEW h \in Seq(Number), Beats(g, h), Beats(h, g)
    PROVE  {Type(g), Type(h)} = {"BOMB", "ROCKET"} /\ g # h
<1>1. ASSUME Type(g) = Type(h) PROVE FALSE
  <2>1. g[1] > h[1] /\ h[1] > g[1] /\ Type(g) # "NONE" /\ Type(h) # "NONE"
    BY <1>1 DEF Beats
  <2>2. Len(g) >= 1 /\ Len(h) >= 1
    <3>1. Len(g) \in Nat /\ Len(h) \in Nat
      OBVIOUS
    <3> QED BY ONLY <2>1, <3>1, NoCardNoKind
  <2>3. g[1] \in Int /\ h[1] \in Int
    <3>1. g[1] \in Number /\ h[1] \in Number
      BY <2>2
    <3> QED BY <3>1 DEF Number
  <2> QED BY ONLY <2>1, <2>3
<1>2. Type(g) \in {"BOMB", "ROCKET"} /\ Type(h) \in {"BOMB", "ROCKET"}
  BY <1>1 DEF Beats
<1> QED BY <1>1, <1>2
----------------------------------------------------------------------------
(* The hands that are looked at.                                           *)

\* Hands as they are held, of numbers from lo to hi.
Within(h, lo, hi) == Held(h) /\ \A k \in 1..Len(h) : lo <= h[k] /\ h[k] <= hi

Fits(h, n) == /\ GetNumberCount(h, n) < IF n = 0 THEN 2 ELSE 4
              /\ h # << >> => h[Len(h)] <= n
Longer(S, lo, hi) == UNION {{Append(h, n) : n \in {m \in lo..hi : Fits(h, m)}} : h \in S}

LEMMA EmptyIsHeld ==
    ASSUME NEW lo \in Nat, NEW hi \in Nat
    PROVE  << >> \in Seq(Number) /\ Within(<< >>, lo, hi)
<1>1. << >> \in Seq(Number) /\ Len(<< >>) = 0 /\ 1..0 = {}
  OBVIOUS
<1>2. Sorted(<< >>)
  BY <1>1 DEF Sorted
<1>3. \A n \in Int : GetNumberCount(<< >>, n) \in Nat /\ GetNumberCount(<< >>, n) <= Len(<< >>)
  BY <1>1, CountIs
<1>4. \A n \in Number : GetNumberCount(<< >>, n) <= 0
  BY <1>1, <1>3, NumberIs
<1>5. 0 \in Number /\ \A n \in Number : n \in Int
  BY NumberIs
<1>6. \A n \in Number : GetNumberCount(<< >>, n) \in Nat
  BY <1>3, <1>5
<1> QED BY <1>1, <1>2, <1>4, <1>5, <1>6 DEF Within, Held

LEMMA CountOfAppend ==
    ASSUME NEW h \in Seq(Number), NEW x \in Number, NEW n \in Number
    PROVE  GetNumberCount(Append(h, x), n) = GetNumberCount(h, n) + (IF n = x THEN 1 ELSE 0)
<1> DEFINE g == Append(h, x)
           P == {k \in DOMAIN h : h[k] = n}
           Q == {k \in DOMAIN g : g[k] = n}
<1>1. /\ g \in Seq(Number) /\ Len(g) = Len(h) + 1 /\ g[Len(h) + 1] = x
      /\ \A k \in 1..Len(h) : g[k] = h[k]
  BY AppendProperties
<1>2. /\ DOMAIN g = 1..Len(g) /\ DOMAIN h = 1..Len(h) /\ Len(h) \in Nat
      /\ 1..Len(h) + 1 = (1..Len(h)) \union {Len(h) + 1} /\ Len(h) + 1 \notin 1..Len(h)
  BY <1>1, HandIs
<1> HIDE DEF g
<1>3. IsFiniteSet(P) /\ Cardinality(P) \in 0..Len(h)
  BY <1>2, PartOf
<1>4. CASE n = x
  <2>1. Q = P \union {Len(h) + 1} /\ Len(h) + 1 \notin P
    BY <1>1, <1>2, <1>4
  <2> QED BY <1>3, <1>4, <2>1, FS_AddElement DEF GetNumberCount, g
<1>5. CASE n # x
  <2>1. Q = P
    BY <1>1, <1>2, <1>5
  <2>2. GetNumberCount(h, n) = Cardinality(P) /\ GetNumberCount(g, n) = Cardinality(Q)
    BY DEF GetNumberCount
  <2>3. Cardinality(P) \in Nat
    BY <1>3
  <2> HIDE DEF P, Q
  <2> QED BY <1>5, <2>1, <2>2, <2>3 DEF g
<1> QED BY <1>4, <1>5

LEMMA AppendIsHeld ==
    ASSUME NEW lo \in Nat, NEW hi \in Nat, hi <= KING,
           NEW h, h \in Seq(Number), Within(h, lo, hi), NEW x \in lo..hi, Fits(h, x)
    PROVE  Append(h, x) \in Seq(Number) /\ Within(Append(h, x), lo, hi)
<1> DEFINE g == Append(h, x)
<1>1. x \in Number /\ x \in Int /\ lo <= x /\ x <= hi
  BY NumberIs
<1>2. /\ Held(h) /\ Len(h) \in Nat /\ \A k \in 1..Len(h) : h[k] \in Int /\ lo <= h[k] /\ h[k] <= hi
      /\ \A j, k \in 1..Len(h) : j <= k => h[j] <= h[k]
  BY HeldIs DEF Within
<1>3. /\ g \in Seq(Number) /\ Len(g) = Len(h) + 1 /\ g[Len(h) + 1] = x
      /\ \A k \in 1..Len(h) : g[k] = h[k]
  BY <1>1, AppendProperties
<1>4. \A n \in Number : GetNumberCount(g, n) = GetNumberCount(h, n) + (IF n = x THEN 1 ELSE 0)
  BY <1>1, CountOfAppend
<1>5. \A n \in Number : GetNumberCount(h, n) \in Nat
  BY NumberIs, CountIs
<1> HIDE DEF g
<1>6. \A k \in 1..Len(h) : h[k] <= x
  <2> TAKE k \in 1..Len(h)
  <2>1. h # << >> /\ Len(h) \in 1..Len(h) /\ k <= Len(h)
    BY <1>2
  <2>2. h[k] <= h[Len(h)] /\ h[Len(h)] <= x
    BY <1>2, <2>1 DEF Fits
  <2> QED BY <1>1, <1>2, <2>1, <2>2
<1>7. \A k \in 1..Len(g) : k \in 1..Len(h) \/ k = Len(h) + 1
  BY <1>2, <1>3
<1>8. Sorted(g)
  <2>1. ASSUME NEW j \in 1..Len(g), NEW k \in 1..Len(g), j <= k PROVE g[j] <= g[k]
    <3>1. CASE k \in 1..Len(h)
      <4>1. j \in 1..Len(h)
        BY <1>2, <1>3, <2>1, <3>1
      <4> QED BY <1>2, <1>3, <2>1, <3>1, <4>1
    <3>2. CASE k = Len(h) + 1
      <4>1. CASE j = Len(h) + 1
        BY <1>1, <1>3, <3>2, <4>1
      <4>2. CASE j \in 1..Len(h)
        BY <1>3, <1>6, <3>2, <4>2
      <4> QED BY <1>7, <4>1, <4>2
    <3> QED BY <1>7, <3>1, <3>2
  <2> QED BY <1>3, <2>1 DEF Sorted
<1>9. GetNumberCount(g, 0) <= 2 /\ \A n \in Number : GetNumberCount(g, n) <= 4
  <2>1. GetNumberCount(h, 0) <= 2 /\ \A n \in Number : GetNumberCount(h, n) <= 4
    BY <1>2 DEF Held
  <2>2. 0 \in Number
    BY NumberIs
  <2>3. GetNumberCount(h, x) < IF x = 0 THEN 2 ELSE 4
    BY DEF Fits
  <2>4. GetNumberCount(g, 0) <= 2
    <3>1. CASE x = 0
      BY <1>4, <1>5, <2>2, <2>3, <3>1
    <3>2. CASE x # 0
      BY <1>4, <1>5, <2>1, <2>2, <3>2
    <3> QED BY <3>1, <3>2
  <2>5. ASSUME NEW n \in Number PROVE GetNumberCount(g, n) <= 4
    <3>1. CASE x = n
      BY <1>4, <1>5, <2>3, <3>1
    <3>2. CASE x # n
      BY <1>4, <1>5, <2>1, <3>2
    <3> QED BY <3>1, <3>2
  <2> QED BY <2>4, <2>5
<1>10. \A k \in 1..Len(g) : lo <= g[k] /\ g[k] <= hi
  BY <1>1, <1>2, <1>3, <1>7
<1>11. g \in Seq(Number) /\ Within(g, lo, hi)
  BY <1>3, <1>8, <1>9, <1>10 DEF Within, Held
<1> QED BY <1>11 DEF g

LEMMA HandsAreHeld ==
    ASSUME NEW k \in Nat, NEW lo \in Nat, NEW hi \in Nat, hi <= KING
    PROVE  \A h \in Hands(k, lo, hi) : h \in Seq(Number) /\ Within(h, lo, hi)
<1> DEFINE W == {h \in Seq(Number) : Within(h, lo, hi)}
           G == [i \in 1..k |-> [S \in SUBSET W |-> S \union Longer(S, lo, hi)]]
           f0 == CHOOSE f : f = [i \in 0..k |-> IF i = 0 THEN {<< >>} ELSE f[i - 1] \union Longer(f[i - 1], lo, hi)]
<1>1. Hands(k, lo, hi) = f0[k]
  BY DEF Hands, Fits, Longer
<1>2. {<< >>} \in SUBSET W
  BY EmptyIsHeld
<1>3. ASSUME NEW S \in SUBSET W PROVE S \union Longer(S, lo, hi) \in SUBSET W
  <2> SUFFICES ASSUME NEW x \in Longer(S, lo, hi) PROVE x \in W
    BY <1>3
  <2>1. PICK h \in S, n \in lo..hi : Fits(h, n) /\ x = Append(h, n)
    BY DEF Longer
  <2>2. h \in Seq(Number) /\ Within(h, lo, hi)
    BY <1>3
  <2>3. Append(h, n) \in Seq(Number) /\ Within(Append(h, n), lo, hi)
    BY <2>1, <2>2, AppendIsHeld
  <2> QED BY <2>1, <2>3
<1> HIDE DEF W, f0
<1>4. \E f : f = [i \in 0..k |-> IF i = 0 THEN {<< >>} ELSE f[i - 1] \union Longer(f[i - 1], lo, hi)]
  <2>1. \A i \in 1..k, S \in SUBSET W : G[i][S] = S \union Longer(S, lo, hi) /\ G[i][S] \in SUBSET W
    BY <1>3
  <2> HIDE DEF G
  <2>2. PICK f \in [0..k -> SUBSET W] : \A i \in 0..k : f[i] = Then(f, {<< >>}, G, i)
    <3> DEFINE V == SUBSET W
               a == {<< >>}
    <3>1. Stepping(k, V, a, G)
      BY <1>2, <2>1 DEF Stepping
    <3> HIDE DEF V, a
    <3>2. \E f \in [0..k -> V] : \A j \in 0..k : f[j] = Then(f, a, G, j)
      <4> DEFINE N == k
      <4>1. Stepping(N, V, a, G)
        BY <3>1
      <4> HIDE DEF N
      <4>2. \E f \in [0..N -> V] : \A j \in 0..N : f[j] = Then(f, a, G, j)
        BY ONLY <4>1, StepByStep
      <4> QED BY <4>2 DEF N
    <3> QED BY <3>2 DEF V, a
  <2>3. \A i \in 0..k : f[i] = IF i = 0 THEN {<< >>} ELSE f[i - 1] \union Longer(f[i - 1], lo, hi)
    <3> TAKE i \in 0..k
    <3>1. i # 0 => i \in 1..k /\ i - 1 \in 0..k
      OBVIOUS
    <3> QED BY <2>1, <2>2, <3>1 DEF Then
  <2> QED BY <2>3
<1>5. f0 = [i \in 0..k |-> IF i = 0 THEN {<< >>} ELSE f0[i - 1] \union Longer(f0[i - 1], lo, hi)]
  BY <1>4 DEF f0
<1>6. f0[0] = {<< >>} /\ \A i \in 1..k : f0[i] = f0[i - 1] \union Longer(f0[i - 1], lo, hi)
  <2>1. 0 \in 0..k /\ \A i \in 1..k : i \in 0..k /\ i # 0
    OBVIOUS
  <2> QED BY <1>5, <2>1
<1> DEFINE D == {i \in 0..k : f0[i] \in SUBSET W}
<1>7. 0 \in D
  BY <1>2, <1>6
<1>8. \A i \in 1..k : i - 1 \in D => i \in D
  BY <1>3, <1>6
<1> HIDE DEF D
<1>9. \A i \in 0..k : i \in D
  BY <1>7, <1>8, UpTo
<1>10. f0[k] \in SUBSET W
  BY <1>9 DEF D
<1> QED BY <1>1, <1>10 DEF W
\* A hand of lower numbers before one of higher numbers.
LEMMA TogetherAreHeld ==
    ASSUME NEW m \in Nat, m <= KING, NEW g, NEW h, Within(g, 0, m), Within(h, m + 1, KING)
    PROVE  Held(g \o h) /\ Len(g \o h) = Len(g) + Len(h)
<1> DEFINE s == g \o h
<1>1. /\ g \in Seq(Number) /\ h \in Seq(Number) /\ Len(g) \in Nat /\ Len(h) \in Nat
      /\ DOMAIN g = 1..Len(g) /\ DOMAIN h = 1..Len(h)
      /\ \A k \in 1..Len(g) : g[k] \in Int /\ g[k] <= m
      /\ \A k \in 1..Len(h) : h[k] \in Int /\ m < h[k]
      /\ \A j, k \in 1..Len(g) : j <= k => g[j] <= g[k]
      /\ \A j, k \in 1..Len(h) : j <= k => h[j] <= h[k]
  <2>1. Held(g) /\ Held(h)
    BY DEF Within
  <2>2. \A k \in 1..Len(h) : h[k] \in Int
    BY <2>1, HeldIs
  <2>3. \A k \in 1..Len(h) : m < h[k]
    BY <2>2 DEF Within
  <2> QED BY <2>1, <2>2, <2>3, HeldIs DEF Within
<1>2. PICK a \in Nat, b \in Nat : Len(g) = a /\ Len(h) = b
  BY <1>1
<1>3. /\ s \in Seq(Number) /\ Len(s) = a + b /\ DOMAIN s = 1..a + b
      /\ \A k \in 1..a : s[k] = g[k]
      /\ \A k \in a + 1..a + b : s[k] = h[k - a] /\ k - a \in 1..b
  <2>1. /\ s \in Seq(Number) /\ Len(s) = a + b
        /\ \A k \in 1..a + b : s[k] = IF k <= a THEN g[k] ELSE h[k - a]
    BY <1>1, <1>2, ConcatProperties
  <2> HIDE DEF s
  <2>2. DOMAIN s = 1..a + b
    BY <2>1
  <2>3. \A k \in 1..a : k \in 1..a + b /\ k <= a
    OBVIOUS
  <2>4. \A k \in a + 1..a + b : k \in 1..a + b /\ ~(k <= a) /\ k - a \in 1..b
    OBVIOUS
  <2> QED BY <2>1, <2>2, <2>3, <2>4
<1> HIDE DEF s
<1>4. \A k \in 1..a + b : k \in 1..a \/ k \in a + 1..a + b
  OBVIOUS
<1>5. Sorted(s)
  <2>1. ASSUME NEW j \in 1..a + b, NEW k \in 1..a + b, j <= k PROVE s[j] <= s[k]
    <3>1. CASE k \in 1..a
      <4>1. j \in 1..a
        BY <2>1, <3>1
      <4> QED BY <1>1, <1>2, <1>3, <2>1, <3>1, <4>1
    <3>2. CASE j \in 1..a /\ k \in a + 1..a + b
      <4>1. s[j] \in Int /\ s[k] \in Int /\ s[j] <= m /\ m < s[k]
        BY <1>1, <1>2, <1>3, <3>2
      <4> QED BY <4>1
    <3>3. CASE j \in a + 1..a + b /\ k \in a + 1..a + b
      <4>1. j - a \in 1..b /\ k - a \in 1..b /\ j - a <= k - a
        BY <2>1, <3>3
      <4> QED BY <1>1, <1>2, <1>3, <3>3, <4>1
    <3>4. k \in a + 1..a + b \/ k \in 1..a
      BY <1>4
    <3>5. j \in a + 1..a + b \/ j \in 1..a
      BY <1>4
    <3> QED BY <3>1, <3>2, <3>3, <3>4, <3>5
  <2> QED BY <1>3, <2>1 DEF Sorted
<1>6. \A n \in Number : n <= m => GetNumberCount(s, n) = GetNumberCount(g, n)
  <2> SUFFICES ASSUME NEW n \in Number, n <= m
               PROVE  {k \in DOMAIN s : s[k] = n} = {k \in DOMAIN g : g[k] = n}
    BY DEF GetNumberCount
  <2>1. n \in Int
    BY NumberIs
  <2>2. \A k \in a + 1..a + b : s[k] # n
    BY <1>1, <1>2, <1>3, <2>1
  <2>3. \A k \in 1..a : k \in 1..a + b /\ s[k] = g[k]
    BY <1>3
  <2> QED BY <1>1, <1>2, <1>3, <1>4, <2>2, <2>3
<1>7. \A n \in Number : ~(n <= m) => GetNumberCount(s, n) <= GetNumberCount(h, n)
  <2> SUFFICES ASSUME NEW n \in Number, ~(n <= m)
               PROVE  GetNumberCount(s, n) <= GetNumberCount(h, n)
    OBVIOUS
  <2> DEFINE P == {k \in DOMAIN s : s[k] = n}
             Q == {k \in DOMAIN h : h[k] = n}
             f == [k \in P |-> k - a]
  <2>1. n \in Int
    BY NumberIs
  <2>2. \A k \in 1..a : s[k] # n
    BY <1>1, <1>2, <1>3, <2>1
  <2>3. \A k \in P : k \in a + 1..a + b /\ k \in Int
    BY <1>3, <1>4, <2>2
  <2>4. \A k \in P : k - a \in Q
    <3> TAKE k \in P
    <3>1. k \in a + 1..a + b /\ s[k] = n
      BY <2>3
    <3> QED BY <1>1, <1>2, <1>3, <3>1
  <2>5. IsFiniteSet(Q)
    BY <1>1, PartOf
  <2>6. f \in Injection(P, Q)
    <3>1. f \in [P -> Q]
      BY <2>4
    <3>2. ASSUME NEW j \in P, NEW k \in P, f[j] = f[k] PROVE j = k
      <4>1. j \in Int /\ k \in Int /\ j - a = k - a
        BY <2>3, <3>2
      <4> QED BY <4>1
    <3> HIDE DEF f, P, Q
    <3> QED BY <3>1, <3>2 DEF Injection, IsInjective
  <2>7. Cardinality(P) <= Cardinality(Q)
    <3> HIDE DEF f, P, Q
    <3> QED BY <2>5, <2>6, FS_Injection
  <2> QED BY <2>7 DEF GetNumberCount
<1>8. Held(s)
  <2>1. /\ GetNumberCount(g, 0) <= 2 /\ \A n \in Number : GetNumberCount(g, n) <= 4
        /\ \A n \in Number : GetNumberCount(h, n) <= 4
    BY DEF Within, Held
  <2>2. 0 \in Number /\ 0 <= m
    BY NumberIs
  <2>3. \A n \in Number : /\ GetNumberCount(s, n) \in Nat /\ GetNumberCount(g, n) \in Nat
                          /\ GetNumberCount(h, n) \in Nat
    BY <1>1, <1>3, NumberIs, CountIs
  <2>4. ASSUME NEW n \in Number PROVE GetNumberCount(s, n) <= 4
    <3>1. CASE n <= m
      BY <1>6, <2>1, <3>1
    <3>2. CASE ~(n <= m)
      BY <1>7, <2>1, <2>3, <3>2
    <3> QED BY <3>1, <3>2
  <2> QED BY <1>5, <1>6, <2>1, <2>2, <2>4 DEF Held
<1> QED BY <1>2, <1>3, <1>8 DEF s

LEMMA HalfIs == Half \in Nat /\ Half + 1 \in Nat /\ Half <= KING
<1>1. \A k \in Nat : k \div 2 \in Nat /\ k \div 2 + 1 \in Nat /\ k \div 2 <= k
  OBVIOUS
<1> QED BY <1>1, NumberIs DEF Half

\* Poker.cpp:241-352, for hands up to any length, whatever the highest number of a
\* card: a sorted hand is of the kind it is meant to
\* be but for the gaps, the order of a hand's cards makes it of no other kind,
\* and of two hands at most one beats the other, unless a bomb and a rocket do.
THEOREM KindsAgreeHolds == KindsAgree
<1>1. SortedKinds
  <2> SUFFICES ASSUME NEW g \in Hands(MaxHand, 0, Half), NEW h \in Hands(MaxHand, Half + 1, KING),
                      Len(g) + Len(h) \in 1..MaxHand, ~Gap(g \o h)
               PROVE  Type(g \o h) = MeantType(g \o h)
    BY DEF SortedKinds
  <2>1. MaxHand \in Nat /\ KING \in Nat /\ KING <= KING /\ 0 \in Nat
    BY NumbersAssumption
  <2>2. Within(g, 0, Half)
    BY <2>1, HalfIs, HandsAreHeld
  <2>3. Within(h, Half + 1, KING)
    BY <2>1, HalfIs, HandsAreHeld
  <2>4. Held(g \o h) /\ Len(g \o h) = Len(g) + Len(h)
    BY <2>2, <2>3, HalfIs, TogetherAreHeld
  <2>5. \A k \in 1..MaxHand : k # 0
    BY <2>1
  <2> QED BY <2>4, <2>5, KindIsMeant
<1>2. AnyOrder
  <2> SUFFICES ASSUME NEW k \in 1..5, NEW h \in [1..k -> Number]
               PROVE  Type(h) \in {"NONE", Type(Sort(h))}
    BY DEF AnyOrder
  <2>1. h \in Seq(Number)
    OBVIOUS
  <2> QED BY <2>1, KindInAnyOrder
<1>3. OneBeats
  <2> SUFFICES ASSUME NEW g \in Hands(4, 0, 3), NEW h \in Hands(4, 0, 3), Beats(g, h), Beats(h, g)
               PROVE  {Type(g), Type(h)} = {"BOMB", "ROCKET"}
    BY DEF OneBeats
  <2>1. 4 \in Nat /\ 0 \in Nat /\ 3 \in Nat /\ 3 <= KING
    BY NumberIs
  <2>2. \A f \in Hands(4, 0, 3) : f \in Seq(Number)
    BY <2>1, HandsAreHeld
  <2> QED BY <2>2, AtMostOneBeats
<1> QED BY <1>1, <1>2, <1>3 DEF KindsAgree
=============================================================================
