------------------------------- MODULE Poker -------------------------------
(***************************************************************************)
(* Hands of cards (source/Poker.cpp, include/Poker.h).  The kind of a hand *)
(* depends on the numbers of its cards only, in the order they are held: a *)
(* hand is here the sequence of its numbers, 0 a king (joker), 1 the ace.  *)
(***************************************************************************)
EXTENDS Integers, Sequences, FiniteSets

CONSTANTS KING,     \* the highest number of a card; 13 in the code
          MaxHand   \* the longest hands HandTypes looks at

ASSUME NumbersAssumption == KING \in Nat /\ KING >= 5 /\ MaxHand \in Nat

Number == 0..KING

\* The k-th number is the one with less than k below it, and k not above it.
Sort(ns) ==
    LET below == [n \in 0..KING + 1 |-> Cardinality({k \in DOMAIN ns : ns[k] < n})]
    IN [k \in DOMAIN ns |-> CHOOSE n \in Number : below[n] < k /\ k <= below[n + 1]]
GetNumberCount(ns, n) == Cardinality({k \in DOMAIN ns : ns[k] = n})

\* Of a sorted hand, as it is called for: what is above n moves down.
RemoveNumber(ns, n) ==
    LET c == GetNumberCount(ns, n)
    IN [k \in 1..Len(ns) - c |-> IF ns[k] < n THEN ns[k] ELSE ns[k + c]]

Same(ns, K) == \A j, k \in K : ns[j] = ns[k]

\* The ace goes to the end, but keeps its number.
IsSTRAIGHT(ns) ==
    LET s == Sort(ns)
        r == IF s[1] = 1 THEN Append(Tail(s), 1) ELSE s
    IN /\ Len(ns) >= 5 /\ s[1] # 0
       /\ \A k \in 1..Len(r) - 1 : r[k + 1] - r[k] = 1

\* Two cards of a number before or after four of another.
IsQUADDUAL(ns) ==
    LET s == Sort(ns)
    IN IF s[1] = s[2] /\ s[1] # s[3] THEN Same(s, 3..6)
                                     ELSE s[5] = s[6] /\ Same(s, 1..4)

IsTWOTRIPLE(ns) ==
    \E n \in Number : GetNumberCount(ns, n) = 3 /\ GetNumberCount(ns, n + 1) = 3

IsDUALTHREE(ns) ==
    LET s == Sort(ns)
    IN /\ \A k \in {1, 3, 5} : GetNumberCount(s, s[k]) = 2
       /\ s[1] # 0
       /\ IF s[1] = 1 THEN s[3] = KING - 1 /\ s[5] = KING
                      ELSE s[1] + 1 = s[3] /\ s[3] + 1 = s[5]

\* The triples are looked for one place too early.
IsFLIGHTONE_Early(ns) ==
    LET s == Sort(ns)
    IN /\ GetNumberCount(s, s[2]) = 3 /\ GetNumberCount(s, s[5]) = 3
       /\ s[5] = IF s[2] = 1 THEN KING ELSE s[2] + 1

\* Of eight sorted cards the third and the sixth are in the triples.
IsFLIGHTONE(ns) ==
    LET s == Sort(ns)
    IN /\ GetNumberCount(s, s[3]) = 3 /\ GetNumberCount(s, s[6]) = 3
       /\ s[6] = IF s[3] = 1 THEN KING ELSE s[3] + 1

\* The lowest triple, the next, and two pairs are left.
IsFLIGHTTWO(ns) ==
    LET s == Sort(ns)
        T == {n \in Number : GetNumberCount(s, n) = 3}
        n0 == CHOOSE n \in T : \A m \in T : n <= m
        n1 == IF n0 = 1 THEN KING ELSE n0 + 1
        r == RemoveNumber(RemoveNumber(s, n0), n1)
    IN /\ T # {} /\ GetNumberCount(s, n1) = 3
       /\ Len(r) = 4 /\ GetNumberCount(r, r[1]) = 2 /\ GetNumberCount(r, r[4]) = 2

TypeOfFour(ns) ==
    IF Same(ns, 1..4) THEN "BOMB"
    ELSE IF \E K \in {1..3, {1, 2, 4}, 2..4} : Same(ns, K) THEN "TRIPLEONE"
    ELSE "NONE"

TypeOfFive(ns) ==
    IF \/ Same(ns, {1, 2}) /\ Same(ns, 3..5)
       \/ Same(ns, 1..3) /\ Same(ns, {4, 5})
    THEN "TRIPLETWO"
    ELSE IF IsSTRAIGHT(ns) THEN "STRAIGHT" ELSE "NONE"

Type(ns) ==
    CASE Len(ns) = 1  -> "SINGLE"
      [] Len(ns) = 2  -> IF ~Same(ns, 1..2) THEN "NONE"
                         ELSE IF ns[1] = 0 THEN "ROCKET" ELSE "DUAL"
      [] Len(ns) = 3  -> IF Same(ns, 1..3) THEN "TRIPLE" ELSE "NONE"
      [] Len(ns) = 4  -> TypeOfFour(ns)
      [] Len(ns) = 5  -> TypeOfFive(ns)
      [] Len(ns) = 6  -> IF IsTWOTRIPLE(ns) THEN "TWOTRIPLE"
                         ELSE IF IsQUADDUAL(ns) THEN "QUADDUAL"
                         ELSE IF IsDUALTHREE(ns) THEN "DUALTHREE" ELSE "NONE"
      [] Len(ns) = 8 /\ IsFLIGHTONE(ns)  -> "FLIGHTONE"
      [] Len(ns) = 10 /\ IsFLIGHTTWO(ns) -> "FLIGHTTWO"
      [] Len(ns) \in 7..10 /\ IsSTRAIGHT(ns) -> "STRAIGHT"
      [] OTHER -> "NONE"

\* operator>: only hands of one kind of the first four are compared, by the
\* number of the card held first.
Beats(ns, os) ==
    LET t == Type(ns)  ot == Type(os)
    IN /\ t # "NONE" /\ ot # "NONE"
       /\ IF t = ot THEN t \in {"SINGLE", "DUAL", "TRIPLE", "BOMB"} /\ ns[1] > os[1]
                    ELSE t \in {"BOMB", "ROCKET"}
----------------------------------------------------------------------------
(* What the kinds are meant to be: by how often each number is held, the   *)
(* ace above the KING.                                                     *)

Rank(n) == IF n = 1 THEN KING + 1 ELSE n
Row(S) == 0 \notin S /\ \E lo \in 2..KING : {Rank(n) : n \in S} = lo..lo + Cardinality(S) - 1
MeantType(ns) ==
    LET count == [n \in Number |-> GetNumberCount(ns, n)]
        kinds(m) == {n \in Number : count[n] = m}
        shape == [m \in 1..4 |-> Cardinality(kinds(m))]
        row(m) == Row(kinds(m))
    IN CASE shape = <<1, 0, 0, 0>> -> "SINGLE"
         [] shape = <<0, 1, 0, 0>> -> IF ns[1] = 0 THEN "ROCKET" ELSE "DUAL"
         [] shape = <<0, 0, 1, 0>> -> "TRIPLE"
         [] shape = <<0, 0, 0, 1>> -> "BOMB"
         [] shape = <<1, 0, 1, 0>> -> "TRIPLEONE"
         [] shape = <<0, 1, 1, 0>> -> "TRIPLETWO"
         [] shape = <<0, 1, 0, 1>> -> "QUADDUAL"
         [] shape = <<0, 0, 2, 0>> /\ row(3) -> "TWOTRIPLE"
         [] shape = <<0, 3, 0, 0>> /\ row(2) -> "DUALTHREE"
         [] shape[1] >= 5 /\ shape = <<shape[1], 0, 0, 0>> /\ row(1) -> "STRAIGHT"
         [] shape \in {<<2, 0, 2, 0>>, <<0, 1, 2, 0>>} /\ row(3) -> "FLIGHTONE"
         [] shape = <<0, 2, 2, 0>> /\ row(3) -> "FLIGHTTWO"
         [] OTHER -> "NONE"

\* Where the code is known to differ: no straight has an ace, nor six cards,
\* nor more than ten; two triples with aces go with twos instead of kings.
Gap(ns) == \/ /\ MeantType(ns) = "STRAIGHT"
              /\ GetNumberCount(ns, 1) = 1 \/ Len(ns) = 6 \/ Len(ns) > 10
           \/ Len(ns) = 6 /\ GetNumberCount(ns, 1) = 3

\* Sorted hands of up to k cards with numbers from lo to hi, at most four of a
\* number and two kings, and no card at all.
Hands(k, lo, hi) ==
    LET may(h, n) == /\ GetNumberCount(h, n) < IF n = 0 THEN 2 ELSE 4
                     /\ h # << >> => h[Len(h)] <= n
        longer(S) == UNION {{Append(h, n) : n \in {m \in lo..hi : may(h, m)}} : h \in S}
        upTo[i \in 0..k] == IF i = 0 THEN {<< >>}
                            ELSE LET S == upTo[i - 1] IN S \union longer(S)
    IN upTo[k]

\* Every sorted hand is of the kind it is meant to be but for the gaps, no order
\* of a hand makes it another kind, and of two hands at most one beats the other
\* unless they are a bomb and a rocket.
Half == KING \div 2
SortedKinds ==
    \A g \in Hands(MaxHand, 0, Half), h \in Hands(MaxHand, Half + 1, KING) :
        Len(g) + Len(h) \in 1..MaxHand /\ ~Gap(g \o h) => Type(g \o h) = MeantType(g \o h)
AnyOrder ==
    \A k \in 1..5 : \A h \in [1..k -> Number] : Type(h) \in {"NONE", Type(Sort(h))}
OneBeats ==
    \A g, h \in Hands(4, 0, 3) : Beats(g, h) /\ Beats(h, g) => {Type(g), Type(h)} = {"BOMB", "ROCKET"}
KindsAgree == SortedKinds /\ AnyOrder /\ OneBeats
=============================================================================
