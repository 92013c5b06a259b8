-------------------------- MODULE PlayerStoreProofs --------------------------
(***************************************************************************)
(* TLAPS proofs about PlayerStore.                                         *)
(***************************************************************************)
EXTENDS PlayerStore, RecursionTheorems, SequenceTheorems

----------------------------------------------------------------------------
(* Texts of numbers.                                                       *)

\* What the text of n is made of, given those of smaller numbers.
Written(g, n) == IF n < 10 THEN <<Digit[n + 1]>> ELSE g[n \div 10] \o <<Digit[(n % 10) + 1]>>
WrittenTo(g, n) == \A m \in 0..n : g[m] = Written(g, m)

LEMMA Tenth ==
    ASSUME NEW n \in Nat, ~(n < 10)
    PROVE  n \div 10 \in Nat /\ n \div 10 < n /\ 10 * (n \div 10) + (n % 10) = n
OBVIOUS

LEMMA LastDigit ==
    ASSUME NEW n \in Nat
    PROVE  n % 10 \in 0..9 /\ n \div 10 \in Nat
OBVIOUS

LEMMA WrittenExists ==
    ASSUME NEW n \in Nat
    PROVE  \E g : WrittenTo(g, n)
<1> DEFINE S == {k \in Nat : \E g : WrittenTo(g, k)}
<1>1. 0 \in S
  <2>1. WrittenTo([k \in Nat |-> <<Digit[1]>>], 0)
    BY DEF WrittenTo, Written
  <2> QED BY <2>1
<1>2. ASSUME NEW k \in S PROVE k + 1 \in S
  <2>1. PICK g : WrittenTo(g, k)
    OBVIOUS
  <2> DEFINE h == [m \in Nat |-> IF m <= k THEN g[m] ELSE Written(g, k + 1)]
  <2>2. ASSUME NEW m \in 0..k PROVE h[m] = Written(h, m)
    <3>1. g[m] = Written(g, m) /\ h[m] = g[m]
      BY <2>1 DEF WrittenTo
    <3>2. ~(m < 10) => h[m \div 10] = g[m \div 10]
      BY Tenth
    <3> QED BY <3>1, <3>2 DEF Written
  <2>3. h[k + 1] = Written(h, k + 1)
    <3>1. h[k + 1] = Written(g, k + 1)
      OBVIOUS
    <3>2. ~(k + 1 < 10) => h[(k + 1) \div 10] = g[(k + 1) \div 10]
      BY Tenth
    <3> QED BY <3>1, <3>2 DEF Written
  <2>4. WrittenTo(h, k + 1)
    BY <2>2, <2>3 DEF WrittenTo
  <2> QED BY <2>4
<1>3. S = Nat
  <2> HIDE DEF S
  <2>1. S \in SUBSET Nat
    BY DEF S
  <2> QED BY <1>1, <1>2, <2>1, SetInduction
<1> QED BY <1>3

LEMMA WrittenUnique ==
    ASSUME NEW g, NEW h, NEW n \in Nat, WrittenTo(g, n), WrittenTo(h, n)
    PROVE  \A m \in 0..n : g[m] = h[m]
<1> DEFINE D == {m \in 0..n : g[m] # h[m]}
<1> SUFFICES ASSUME D # {} PROVE FALSE
  OBVIOUS
<1>1. PICK m \in D : \A k \in D : m <= k
  <2>1. D \in SUBSET Nat
    OBVIOUS
  <2> HIDE DEF D
  <2> QED BY <2>1, LeastNatural
<1>2. g[m] = Written(g, m) /\ h[m] = Written(h, m)
  BY DEF WrittenTo
<1>3. m < 10 => g[m] = h[m]
  BY <1>2 DEF Written
<1>4. ~(m < 10) => g[m] = h[m]
  <2> SUFFICES ASSUME ~(m < 10) PROVE g[m] = h[m]
    OBVIOUS
  <2>1. m \div 10 \in 0..n /\ m \div 10 < m
    BY Tenth
  <2>2. g[m \div 10] = h[m \div 10]
    BY <1>1, <2>1
  <2> QED BY <1>2, <2>2 DEF Written
<1> QED BY <1>3, <1>4

\* The recursive definition of Text defines what it says.
LEMMA TextIs == \A n \in Nat : Text[n] = Written(Text, n)
<1> DEFINE G(n) == CHOOSE g : WrittenTo(g, n)
           F == [n \in Nat |-> G(n)[n]]
<1>1. ASSUME NEW n \in Nat PROVE WrittenTo(G(n), n)
  BY WrittenExists
<1>2. ASSUME NEW n \in Nat, NEW m \in 0..n PROVE F[m] = G(n)[m]
  <2>1. WrittenTo(G(n), m)
    <3>1. WrittenTo(G(n), n)
      BY <1>1
    <3>2. 0..m \subseteq 0..n
      OBVIOUS
    <3> HIDE DEF G
    <3> QED BY <3>1, <3>2 DEF WrittenTo
  <2>2. WrittenTo(G(m), m) /\ F[m] = G(m)[m]
    BY <1>1
  <2> HIDE DEF G, F
  <2> QED BY <2>1, <2>2, WrittenUnique
<1>3. ASSUME NEW n \in Nat PROVE F[n] = Written(F, n)
  <2>1. F[n] = Written(G(n), n)
    BY <1>1, <1>2 DEF WrittenTo
  <2>2. ~(n < 10) => F[n \div 10] = G(n)[n \div 10]
    <3> HIDE DEF F, G
    <3> QED BY <1>2, Tenth
  <2> HIDE DEF F, G
  <2> QED BY <2>1, <2>2 DEF Written
<1>4. F = [n \in Nat |-> Written(F, n)]
  <2>1. F = [n \in Nat |-> F[n]]
    OBVIOUS
  <2> HIDE DEF F
  <2> QED BY <1>3, <2>1
<1>5. Text = CHOOSE f : f = [n \in Nat |-> Written(f, n)]
  BY DEF Text, Written
<1>6. Text = [n \in Nat |-> Written(Text, n)]
  <2> HIDE DEF F
  <2> QED BY <1>4, <1>5
<1> QED BY <1>6

\* The value of the first k digits of t, given those of fewer.
Counted(g, t, k) == IF k = 0 THEN 0 ELSE 10 * g[k - 1] + DigitOf(t[k])
CountedTo(g, t, n) == \A k \in 0..n : g[k] = Counted(g, t, k)

LEMMA CountedExists ==
    ASSUME NEW t, NEW n \in Nat
    PROVE  \E g : CountedTo(g, t, n)
<1> DEFINE S == {k \in Nat : \E g : CountedTo(g, t, k)}
<1>1. 0 \in S
  <2>1. CountedTo([k \in Nat |-> 0], t, 0)
    BY DEF CountedTo, Counted
  <2> QED BY <2>1
<1>2. ASSUME NEW k \in S PROVE k + 1 \in S
  <2>1. PICK g : CountedTo(g, t, k)
    OBVIOUS
  <2> DEFINE h == [m \in Nat |-> IF m <= k THEN g[m] ELSE Counted(g, t, k + 1)]
  <2>2. ASSUME NEW m \in 0..k PROVE h[m] = Counted(h, t, m)
    <3>1. g[m] = Counted(g, t, m) /\ h[m] = g[m]
      BY <2>1 DEF CountedTo
    <3>2. m # 0 => h[m - 1] = g[m - 1]
      OBVIOUS
    <3> HIDE DEF h
    <3> QED BY <3>1, <3>2 DEF Counted
  <2>3. h[k + 1] = Counted(h, t, k + 1)
    <3>1. h[k + 1] = Counted(g, t, k + 1) /\ h[k] = g[k]
      OBVIOUS
    <3> HIDE DEF h
    <3> QED BY <3>1 DEF Counted
  <2>4. CountedTo(h, t, k + 1)
    <3> HIDE DEF h
    <3> QED BY <2>2, <2>3 DEF CountedTo
  <2> QED BY <2>4
<1>3. S = Nat
  <2> HIDE DEF S
  <2>1. S \in SUBSET Nat
    BY DEF S
  <2> QED BY <1>1, <1>2, <2>1, SetInduction
<1> QED BY <1>3

LEMMA CountedUnique ==
    ASSUME NEW g, NEW h, NEW t, NEW u, NEW n \in Nat,
           \A k \in 1..n : t[k] = u[k],
           CountedTo(g, t, n), CountedTo(h, u, n)
    PROVE  \A m \in 0..n : g[m] = h[m]
<1> DEFINE D == {m \in 0..n : g[m] # h[m]}
<1> SUFFICES ASSUME D # {} PROVE FALSE
  OBVIOUS
<1>1. PICK m \in D : \A k \in D : m <= k
  <2>1. D \in SUBSET Nat
    OBVIOUS
  <2> HIDE DEF D
  <2> QED BY <2>1, LeastNatural
<1>2. g[m] = Counted(g, t, m) /\ h[m] = Counted(h, u, m)
  BY DEF CountedTo
<1>3. m = 0 => g[m] = h[m]
  BY <1>2 DEF Counted
<1>4. m # 0 => g[m] = h[m]
  <2> SUFFICES ASSUME m # 0 PROVE g[m] = h[m]
    OBVIOUS
  <2>1. g[m - 1] = h[m - 1]
    BY <1>1
  <2> QED BY <1>2, <2>1 DEF Counted
<1> QED BY <1>3, <1>4

\* The recursive definition in Value defines what it says.
LEMMA ValueIs ==
    ASSUME NEW t, Len(t) \in Nat
    PROVE  \E v : CountedTo(v, t, Len(t)) /\ Value(t) = v[Len(t)]
<1>1. PICK g : CountedTo(g, t, Len(t))
  BY CountedExists
<1> DEFINE F == [k \in 0..Len(t) |-> g[k]]
           U == CHOOSE f : f = [k \in 0..Len(t) |-> Counted(f, t, k)]
<1>2. ASSUME NEW k \in 0..Len(t) PROVE F[k] = Counted(F, t, k)
  <2>1. F[k] = Counted(g, t, k)
    BY <1>1 DEF CountedTo
  <2>2. k # 0 => F[k - 1] = g[k - 1]
    OBVIOUS
  <2> HIDE DEF F
  <2> QED BY <2>1, <2>2 DEF Counted
<1>3. F = [k \in 0..Len(t) |-> Counted(F, t, k)]
  <2>1. F = [k \in 0..Len(t) |-> F[k]]
    OBVIOUS
  <2> HIDE DEF F
  <2> QED BY <1>2, <2>1
<1>4. U = [k \in 0..Len(t) |-> Counted(U, t, k)]
  <2> HIDE DEF F
  <2> QED BY <1>3
<1>5. Value(t) = U[Len(t)]
  BY DEF Value, Counted
<1>6. CountedTo(U, t, Len(t))
  <2> HIDE DEF U
  <2> QED BY <1>4 DEF CountedTo
<1> HIDE DEF U
<1> QED BY <1>5, <1>6

Pieces == Letters \union {Digit[d] : d \in 1..10}

LEMMA TextsAre == Texts = Seq(Pieces)
BY DEF Texts, Pieces

LEMMA DigitBack ==
    \A d \in 0..9 : Digit[d + 1] \in Pieces /\ DigitOf(Digit[d + 1]) = d
<1>1. \A c, d \in 0..9 : Digit[c + 1] = Digit[d + 1] => c = d
  BY DEF Digit
<1>2. \A d \in 0..9 : Digit[d + 1] \in Pieces
  <2> HIDE DEF Digit
  <2>1. \A d \in 0..9 : d + 1 \in 1..10
    OBVIOUS
  <2> QED BY <2>1 DEF Pieces
<1> QED BY <1>1, <1>2 DEF DigitOf

\* The value of a number is one.
LEMMA ValueType ==
    ASSUME NEW t \in Seq(Pieces), IsNumber(t)
    PROVE  Value(t) \in Nat
<1>1. PICK v : CountedTo(v, t, Len(t)) /\ Value(t) = v[Len(t)]
  BY ValueIs
<1>2. \A k \in 1..Len(t) : DigitOf(t[k]) \in 0..9
  <2> SUFFICES ASSUME NEW k \in 1..Len(t) PROVE DigitOf(t[k]) \in 0..9
    OBVIOUS
  <2>1. PICK d \in 1..10 : Digit[d] = t[k]
    BY DEF IsNumber
  <2>2. d - 1 \in 0..9 /\ (d - 1) + 1 = d
    OBVIOUS
  <2> QED BY <2>1, <2>2, DigitBack
<1> DEFINE D == {m \in 0..Len(t) : v[m] \notin Nat}
<1> SUFFICES ASSUME D # {} PROVE FALSE
  BY <1>1
<1>3. PICK m \in D : \A k \in D : m <= k
  <2>1. D \in SUBSET Nat
    OBVIOUS
  <2> HIDE DEF D
  <2> QED BY <2>1, LeastNatural
<1>4. v[m] = Counted(v, t, m)
  BY <1>1 DEF CountedTo
<1>5. m # 0
  BY <1>4 DEF Counted
<1>6. v[m - 1] \in Nat
  BY <1>3, <1>5
<1>7. DigitOf(t[m]) \in Nat
  BY <1>2, <1>5
<1>8. v[m] = 10 * v[m - 1] + DigitOf(t[m])
  BY <1>4, <1>5 DEF Counted
<1>9. v[m] \in Nat
  BY <1>6, <1>7, <1>8
<1> QED BY <1>9

\* A digit more.
LEMMA ValueOfMore ==
    ASSUME NEW t \in Seq(Pieces), NEW d \in 0..9
    PROVE  Value(t \o <<Digit[d + 1]>>) = 10 * Value(t) + d
<1> DEFINE u == t \o <<Digit[d + 1]>>
<1>1. Digit[d + 1] \in Pieces
  BY DigitBack
<1>2. u \in Seq(Pieces) /\ Len(u) = Len(t) + 1 /\ u[Len(t) + 1] = Digit[d + 1]
      /\ \A k \in 1..Len(t) : t[k] = u[k]
  BY <1>1
<1> HIDE DEF u
<1>3. PICK v : CountedTo(v, t, Len(t)) /\ Value(t) = v[Len(t)]
  BY ValueIs
<1>4. PICK w : CountedTo(w, u, Len(u)) /\ Value(u) = w[Len(u)]
  BY <1>2, ValueIs
<1>5. CountedTo(w, u, Len(t))
  BY <1>2, <1>4 DEF CountedTo
<1>6. w[Len(t)] = v[Len(t)]
  BY <1>2, <1>3, <1>5, CountedUnique
<1>7. w[Len(t) + 1] = Counted(w, u, Len(t) + 1)
  BY <1>2, <1>4 DEF CountedTo
<1>8. Value(u) = 10 * Value(t) + DigitOf(Digit[d + 1])
  BY <1>2, <1>3, <1>4, <1>6, <1>7 DEF Counted
<1> QED BY <1>8, DigitBack DEF u

LEMMA ValueOfOne ==
    ASSUME NEW d \in 0..9
    PROVE  Value(<<Digit[d + 1]>>) = d
<1> DEFINE u == <<Digit[d + 1]>>
<1>1. Len(u) = 1 /\ u[1] = Digit[d + 1]
  OBVIOUS
<1> HIDE DEF u
<1>2. PICK v : CountedTo(v, u, Len(u)) /\ Value(u) = v[Len(u)]
  <2>1. Len(u) \in Nat
    BY <1>1
  <2> QED BY <2>1, ValueIs
<1>3. v[0] = 0 /\ v[1] = 10 * v[0] + DigitOf(u[1])
  BY <1>1, <1>2 DEF CountedTo, Counted
<1> QED BY <1>1, <1>2, <1>3, DigitBack DEF u

\* What is written for a number is read back as that number.
LEMMA NumberBack ==
    \A n \in Nat : Text[n] \in Seq(Pieces) \ {<< >>} /\ IsNumber(Text[n]) /\ Value(Text[n]) = n
<1> DEFINE Back(n) == Text[n] \in Seq(Pieces) \ {<< >>} /\ IsNumber(Text[n]) /\ Value(Text[n]) = n
           D == {n \in Nat : ~Back(n)}
<1> SUFFICES ASSUME D # {} PROVE FALSE
  OBVIOUS
<1>1. PICK n \in D : \A k \in D : n <= k
  <2>1. D \in SUBSET Nat
    OBVIOUS
  <2> HIDE DEF D
  <2> QED BY <2>1, LeastNatural
<1>2. Text[n] = Written(Text, n)
  BY TextIs
<1>3. ASSUME NEW d \in 0..9 PROVE <<Digit[d + 1]>> \in Seq(Pieces) \ {<< >>} /\ IsNumber(<<Digit[d + 1]>>)
  BY DigitBack DEF IsNumber
<1>4. CASE n < 10
  <2>1. Text[n] = <<Digit[n + 1]>> /\ n \in 0..9
    BY <1>2, <1>4 DEF Written
  <2> QED BY <2>1, <1>3, ValueOfOne
<1>5. CASE ~(n < 10)
  <2> DEFINE m == n \div 10
             d == n % 10
  <2>1. m \in Nat /\ m < n /\ d \in 0..9 /\ 10 * m + d = n
    BY <1>5, Tenth, LastDigit
  <2>2. Text[n] = Text[m] \o <<Digit[d + 1]>>
    BY <1>2, <1>5 DEF Written
  <2>3. Text[m] \in Seq(Pieces) \ {<< >>} /\ IsNumber(Text[m]) /\ Value(Text[m]) = m
    BY <2>1, <1>1
  <2> HIDE DEF m, d
  <2>4. Value(Text[n]) = n
    BY <2>1, <2>2, <2>3, ValueOfMore
  <2>5. Text[n] \in Seq(Pieces) \ {<< >>}
    BY <2>1, <2>2, <2>3, <1>3, SMTT(60)
  <2>6. IsNumber(Text[n])
    <3>1. Digit[d + 1] \in Pieces
      BY <2>1, DigitBack
    <3>2. d + 1 \in 1..10
      BY <2>1
    <3> DEFINE t == Text[m]
    <3>3. t \in Seq(Pieces) /\ \A i \in 1..Len(t) : \E c \in 1..10 : Digit[c] = t[i]
      BY <2>3 DEF IsNumber
    <3> HIDE DEF t
    <3>4. Len(t \o <<Digit[d + 1]>>) = Len(t) + 1
      BY <3>1, <3>3
    <3>5. ASSUME NEW i \in 1..Len(t) + 1
          PROVE  \E c \in 1..10 : Digit[c] = (t \o <<Digit[d + 1]>>)[i]
      <4>1. CASE i \in 1..Len(t)
        <5>1. (t \o <<Digit[d + 1]>>)[i] = t[i]
          BY <3>1, <3>3, <4>1
        <5> QED BY <5>1, <3>3, <4>1
      <4>2. CASE i = Len(t) + 1
        <5>1. (t \o <<Digit[d + 1]>>)[i] = Digit[d + 1]
          BY <3>1, <3>3, <4>2
        <5> QED BY <5>1, <3>2
      <4> QED BY <4>1, <4>2, <3>3
    <3> QED BY <2>2, <3>4, <3>5 DEF IsNumber, t
  <2> QED BY <2>4, <2>5, <2>6
<1> QED BY <1>4, <1>5
----------------------------------------------------------------------------
(* The invariants.                                                         *)

FileType == [exists : BOOLEAN, ended : BOOLEAN, texts : Seq(Texts)]
FinType  == [pos : Nat, id : Nat, name : Seq(Texts), eof : BOOLEAN, fail : BOOLEAN]
Writing  == pc \in {"write", "answer"}

\* TypeOK, with what its parts rest on: what is being read or written has a
\* type, and there are finitely many users.
TypeInv ==
    /\ TypeOK
    /\ file \in FileType
    /\ fin \in FinType
    /\ Writing => req.id \in Nat /\ req.name \in Names
    /\ pc # "load" => fin.pos = 1
    /\ IsFiniteSet(DOMAIN users)
    /\ \A n \in DOMAIN told : told[n] \in Nat

\* Each name has one word, and lines are written whole.
Plain == habits \intersect {"words", "cut"} = {}

\* The lines of a file of which each is a number and a word.
Lines(ts)     == Len(ts) \div 2
Number(ts, k) == Value(ts[2 * k - 1])
Name(ts, k)   == <<ts[2 * k]>>

\* The file holds whole lines, no number and no name twice, and names only of
\* those who asked.
Tidy ==
    /\ file.ended /\ Len(file.texts) = 2 * Lines(file.texts)
    /\ \A k \in 1..Lines(file.texts) :
           IsNumber(file.texts[2 * k - 1]) /\ Name(file.texts, k) \in asked
    /\ \A j, k \in 1..Lines(file.texts) :
           \/ Number(file.texts, j) = Number(file.texts, k)
           \/ Name(file.texts, j) = Name(file.texts, k)
           => j = k
    /\ ~file.exists => file.texts = << >>
    /\ file.exists /\ file.texts = << >> => pc = "write" \/ Has("crash_open")

\* Where loading is, and what was read last.
Loading == pc = "load" =>
    /\ \E i \in 0..Lines(file.texts) :
           /\ fin.pos = 2 * i + 1
           /\ fin.name = IF i = 0 THEN << >> ELSE Name(file.texts, i)
           /\ i > 0 => fin.id = Number(file.texts, i)
           /\ fin.eof => i = Lines(file.texts)
    /\ ~fin.eof => ~fin.fail

\* How many lines of the file have been entered.
Entered == IF pc = "load" THEN (fin.pos - 1) \div 2 ELSE Lines(file.texts)

\* Whose lines have been entered is a user under its number; other users are the
\* one who is being written, those who could not be written, and the one without
\* a name that is read from an empty file.
Entries ==
    /\ \A k \in 1..Entered : LET id == Number(file.texts, k) IN
           id \in DOMAIN users /\ users[id] = Name(file.texts, k)
    /\ \A id \in DOMAIN users :
           \/ \E k \in 1..Entered : id = Number(file.texts, k) /\ users[id] = Name(file.texts, k)
           \/ pc = "write" /\ id = req.id /\ users[id] = req.name
           \/ Has("noopen") /\ users[id] \in asked
           \/ Has("crash_open") /\ users[id] = << >>

\* The user being written is new to the file, and in it when it is answered.
Request ==
    /\ Writing => req.name \in asked /\ Len(req.name) = 1
    /\ pc = "write" => req.id \in DOMAIN users /\ users[req.id] = req.name
    /\ pc = "write" => \A k \in 1..Lines(file.texts) :
           req.id # Number(file.texts, k) /\ req.name # Name(file.texts, k)
    /\ pc = "answer" => \E k \in 1..Lines(file.texts) :
           req.id = Number(file.texts, k) /\ req.name = Name(file.texts, k)

\* Who was told is in the file.
Promised == ~Has("noopen") => \A n \in DOMAIN told : \E k \in 1..Lines(file.texts) :
                told[n] = Number(file.texts, k) /\ n = Name(file.texts, k)

Whole == /\ Tidy /\ Loading /\ Entries
         /\ Request /\ Promised
StoreInv == Plain => Whole
----------------------------------------------------------------------------
(* What the helpers return.                                                *)

\* A finite set of naturals has an upper bound.
LEMMA Bounded ==
    ASSUME NEW S \in SUBSET Nat, IsFiniteSet(S)
    PROVE  \E n \in Nat : \A m \in S : m <= n
<1> DEFINE Has_(U) == \E n \in Nat : \A m \in U : m <= n
           T == {U \in SUBSET S : ~Has_(U)}
           R == StrictSubsetOrdering(S)
<1> SUFFICES ASSUME T # {} PROVE FALSE
  OBVIOUS
<1>1. IsWellFoundedOn(R, FiniteSubsetsOf(S))
  BY FS_StrictSubsetOrderingWellFounded
<1>2. T \subseteq FiniteSubsetsOf(S)
  BY FS_FiniteSubsetsOfFinite
<1>3. PICK U \in T : \A V \in T : ~(<<V, U>> \in R)
  <2> HIDE DEF R, T
  <2> QED BY <1>1, <1>2, WFMin
<1>4. U # {}
  <2>1. ~Has_(U)
    OBVIOUS
  <2>2. 0 \in Nat
    OBVIOUS
  <2> QED BY <2>1, <2>2
<1>5. PICK x \in U : TRUE
  BY <1>4
<1>6. Has_(U \ {x})
  <2>1. U \ {x} \in SUBSET S /\ U \in SUBSET S /\ U \ {x} # U
    OBVIOUS
  <2>2. <<U \ {x}, U>> \in R
    BY <2>1 DEF StrictSubsetOrdering
  <2>3. U \ {x} \notin T
    BY <1>3, <2>2
  <2> QED BY <2>1, <2>3
<1>7. PICK n \in Nat : \A m \in U \ {x} : m <= n
  BY <1>6
<1>8. x \in Nat /\ U \subseteq Nat
  OBVIOUS
<1>9. \A m \in U : m <= n + x
  BY <1>7, <1>8
<1>10. n + x \in Nat
  BY <1>8
<1> QED BY <1>9, <1>10

\* The number that is generated is larger than all there are.
LEMMA Generated ==
    ASSUME DOMAIN users \subseteq Nat, IsFiniteSet(DOMAIN users)
    PROVE  /\ GenerateValidID \in Nat
           /\ \A id \in DOMAIN users : id < GenerateValidID
<1> DEFINE D == DOMAIN users \union {0}
           B == {n \in Nat : \A m \in D : m <= n}
           C == {id + 1 : id \in D}
<1>1. B # {}
  <2>1. PICK n \in Nat : \A m \in DOMAIN users : m <= n
    BY Bounded
  <2>2. \A m \in D : m <= n
    BY <2>1
  <2> QED BY <2>2
<1>2. PICK b \in B : \A n \in B : b <= n
  <2>1. B \in SUBSET Nat
    OBVIOUS
  <2> HIDE DEF B
  <2> QED BY <1>1, <2>1, LeastNatural
<1>3. b \in D
  <2> SUFFICES ASSUME b \notin D PROVE FALSE
    OBVIOUS
  <2>1. \A m \in D : m \in Nat /\ m <= b /\ m # b
    OBVIOUS
  <2>2. b # 0 /\ b - 1 \in Nat
    BY <2>1
  <2>3. b - 1 \in B
    BY <2>1, <2>2
  <2> QED BY <1>2, <2>2, <2>3
<1>4. b + 1 \in C /\ \A id \in DOMAIN users : id < b + 1
  BY <1>3
<1>5. GenerateValidID \in C /\ \A id \in DOMAIN users : id < GenerateValidID
  <2>1. GenerateValidID = CHOOSE n \in C : \A id \in DOMAIN users : id < n
    BY DEF GenerateValidID
  <2> HIDE DEF C
  <2> QED BY <1>4, <2>1
<1>6. C \subseteq Nat
  OBVIOUS
<1> QED BY <1>5, <1>6

\* Texts are written behind those there are, or the first glued to the last.
LEMMA WriteType ==
    ASSUME NEW f \in FileType, NEW ts \in Seq(Texts), ts # << >>, NEW ended \in BOOLEAN
    PROVE  Write(f, ts, ended) \in FileType
<1> DEFINE k == Len(f.texts)
<1>1. f.texts \in Seq(Texts) /\ k \in Nat
  BY DEF FileType
<1>2. f.texts \o ts \in Seq(Texts)
  BY <1>1
<1>3. ASSUME f.texts # << >>
      PROVE SubSeq(f.texts, 1, k - 1) \o <<f.texts[k] \o ts[1]>> \o Tail(ts) \in Seq(Texts)
  <2>1. k \in 1..Len(f.texts) /\ 1 \in 1..Len(ts)
    BY <1>1, <1>3
  <2>2. f.texts[k] \in Seq(Pieces) /\ ts[1] \in Seq(Pieces)
    BY <1>1, <2>1, TextsAre
  <2>3. f.texts[k] \o ts[1] \in Texts
    BY <2>2, TextsAre
  <2>4. Tail(ts) \in Seq(Texts)
    OBVIOUS
  <2>5. SubSeq(f.texts, 1, k - 1) \in Seq(Texts)
    BY <1>1, <2>1
  <2>6. <<f.texts[k] \o ts[1]>> \in Seq(Texts)
    BY <2>3
  <2> HIDE DEF k
  <2> QED BY <2>4, <2>5, <2>6
<1> QED BY <1>1, <1>2, <1>3 DEF Write, FileType

\* A name is made of texts, and so is a line.
LEMMA NameType == \A n \in Names : n \in Seq(Texts)
BY NamesAssumption

LEMMA NumberTexts == \A n \in Nat : Text[n] \in Texts
BY NumberBack, TextsAre

LEMMA LineType ==
    ASSUME NEW n \in Nat, NEW name \in Seq(Texts)
    PROVE  <<Text[n]>> \o name \in Seq(Texts) /\ <<Text[n]>> \o name # << >>
<1>1. <<Text[n]>> \in Seq(Texts) /\ Len(<<Text[n]>>) = 1
  BY NumberTexts
<1> QED BY <1>1

LEMMA PastType ==
    ASSUME NEW r \in FinType
    PROVE  Past(r) \in FinType /\ Past(r).pos = r.pos + 1
<1> DEFINE e == r.pos = Len(file.texts) /\ ~file.ended
<1>1. e \in BOOLEAN
  OBVIOUS
<1>2. Past(r) = [r EXCEPT !.pos = r.pos + 1, !.eof = e]
  BY DEF Past
<1> HIDE DEF e
<1> DEFINE q == [r EXCEPT !.pos = r.pos + 1, !.eof = e]
<1>3. r.pos + 1 \in Nat
  BY DEF FinType
<1>4. q \in FinType
  BY <1>1, <1>3 DEF FinType
<1>5. q.pos = r.pos + 1
  BY DEF FinType
<1> QED BY <1>2, <1>4, <1>5

LEMMA ReadIdType ==
    ASSUME file \in FileType, NEW r \in FinType, r.pos \in 1..Len(file.texts) + 1
    PROVE  ReadId(r) \in FinType /\ ReadId(r).pos \in 1..Len(file.texts) + 1
<1>1. file.texts \in Seq(Texts) /\ Len(file.texts) \in Nat /\ file.ended \in BOOLEAN
  BY DEF FileType
<1>2. ASSUME r.pos <= Len(file.texts), IsNumber(file.texts[r.pos])
      PROVE Value(file.texts[r.pos]) \in Nat
  BY <1>1, <1>2, TextsAre, ValueType
<1>3. [r EXCEPT !.fail = TRUE] \in FinType
  BY DEF FinType
<1>4. [r EXCEPT !.eof = TRUE, !.fail = TRUE] \in FinType
  BY DEF FinType
<1>5. [r EXCEPT !.fail = TRUE, !.id = 0] \in FinType
  BY DEF FinType
<1>6. CASE r.eof \/ r.fail
  BY <1>3, <1>6 DEF ReadId, FinType
<1>7. CASE ~(r.eof \/ r.fail) /\ r.pos > Len(file.texts)
  BY <1>4, <1>7 DEF ReadId, AtEnd, FinType
<1>8. CASE ~(r.eof \/ r.fail) /\ r.pos <= Len(file.texts) /\ ~IsNumber(file.texts[r.pos])
  <2>1. ~(r.pos > Len(file.texts))
    BY <1>1, <1>8
  <2> QED BY <1>5, <1>8, <2>1 DEF ReadId, AtEnd, FinType
<1>9. CASE ~(r.eof \/ r.fail) /\ r.pos <= Len(file.texts) /\ IsNumber(file.texts[r.pos])
  <2> DEFINE v == Value(file.texts[r.pos])
             q == [Past(r) EXCEPT !.id = v]
  <2>1. v \in Nat
    BY <1>2, <1>9
  <2>2. ReadId(r) = q
    BY <1>1, <1>9 DEF ReadId, AtEnd
  <2>3. Past(r) \in FinType /\ Past(r).pos = r.pos + 1
    BY PastType
  <2> HIDE DEF v
  <2>4. q \in FinType /\ q.pos = r.pos + 1
    BY <2>1, <2>3 DEF FinType
  <2>5. r.pos + 1 \in 1..Len(file.texts) + 1
    BY <1>1, <1>9
  <2> HIDE DEF q
  <2> QED BY <2>2, <2>4, <2>5
<1>10. r.pos > Len(file.texts) \/ r.pos <= Len(file.texts)
  BY <1>1
<1> QED BY <1>6, <1>7, <1>8, <1>9, <1>10

LEMMA ReadNameType ==
    ASSUME file \in FileType, NEW r \in FinType, r.pos \in 1..Len(file.texts) + 1
    PROVE  ReadName(r) \in FinType /\ ReadName(r).pos \in 1..Len(file.texts) + 1
<1>1. file.texts \in Seq(Texts) /\ Len(file.texts) \in Nat /\ file.ended \in BOOLEAN
  BY DEF FileType
<1>2. ASSUME r.pos <= Len(file.texts)
      PROVE <<file.texts[r.pos]>> \in Seq(Texts)
  BY <1>1, <1>2
<1>3. [r EXCEPT !.fail = TRUE] \in FinType
  BY DEF FinType
<1>4. [r EXCEPT !.eof = TRUE, !.fail = TRUE] \in FinType
  BY DEF FinType
<1>5. CASE r.eof \/ r.fail
  BY <1>3, <1>5 DEF ReadName, FinType
<1>6. CASE ~(r.eof \/ r.fail) /\ r.pos > Len(file.texts)
  BY <1>4, <1>6 DEF ReadName, AtEnd, FinType
<1>7. CASE ~(r.eof \/ r.fail) /\ r.pos <= Len(file.texts)
  <2> DEFINE t == <<file.texts[r.pos]>>
             q == [Past(r) EXCEPT !.name = t]
  <2>1. t \in Seq(Texts)
    BY <1>2, <1>7
  <2>2. ReadName(r) = q
    BY <1>1, <1>7 DEF ReadName, AtEnd
  <2>3. Past(r) \in FinType /\ Past(r).pos = r.pos + 1
    BY PastType
  <2> HIDE DEF t
  <2>4. q \in FinType /\ q.pos = r.pos + 1
    BY <2>1, <2>3 DEF FinType
  <2>5. r.pos + 1 \in 1..Len(file.texts) + 1
    BY <1>1, <1>7
  <2> HIDE DEF q
  <2> QED BY <2>2, <2>4, <2>5
<1>8. r.pos > Len(file.texts) \/ r.pos <= Len(file.texts)
  BY <1>1
<1> QED BY <1>5, <1>6, <1>7, <1>8

LEMMA PutIs ==
    ASSUME NEW m, NEW k, NEW v
    PROVE  /\ DOMAIN Put(m, k, v) = DOMAIN m \union {k}
           /\ Put(m, k, v)[k] = v
           /\ \A x \in DOMAIN m : x # k => Put(m, k, v)[x] = m[x]
BY DEF Put
----------------------------------------------------------------------------
(* Types.                                                                  *)

LEMMA TypeInit == Init => TypeInv
<1> SUFFICES ASSUME Init PROVE TypeInv
  OBVIOUS
<1> USE DEF Init
<1>1. IsFiniteSet(DOMAIN users) /\ DOMAIN users = {} /\ DOMAIN told = {}
  BY FS_EmptySet DEF EmptyMap
<1>2. << >> \in Seq(Texts)
  OBVIOUS
<1>3. file \in FileType
  BY <1>2 DEF FileType
<1>4. fin \in FinType /\ fin.pos = 1
  <2>1. PICK g \in Garbage : fin = [Closed EXCEPT !.id = g]
    BY DEF Opened
  <2>2. g \in Nat
    BY BoundsAssumption
  <2> QED BY <1>2, <2>1, <2>2 DEF FinType, Closed
<1>5. 0 \in 0..MaxCrashes
  BY BoundsAssumption
<1> QED BY <1>1, <1>2, <1>3, <1>4, <1>5 DEF TypeInv, TypeOK, Writing, FileType, FinType

\* Entering a user under a number.
LEMMA PutUser ==
    ASSUME TypeInv, NEW id \in Nat, NEW name \in Seq(Texts), users' = Put(users, id, name)
    PROVE  /\ DOMAIN users' \subseteq Nat
           /\ \A k \in DOMAIN users' : users'[k] \in Seq(Texts)
           /\ IsFiniteSet(DOMAIN users')
<1>1. IsFiniteSet(DOMAIN users \union {id})
  BY FS_AddElement DEF TypeInv
<1>2. DOMAIN users' = DOMAIN users \union {id}
  BY PutIs
<1>3. \A k \in DOMAIN users' : users'[k] = IF k = id THEN name ELSE users[k]
  BY DEF Put
<1> QED BY <1>1, <1>2, <1>3 DEF TypeInv, TypeOK

LEMMA TypeLoadLine == TypeInv /\ LoadLine => TypeInv'
<1> SUFFICES ASSUME TypeInv, LoadLine PROVE TypeInv'
  OBVIOUS
<1>1. fin \in FinType /\ fin.pos \in 1..Len(file.texts) + 1 /\ file \in FileType
  BY DEF TypeInv, TypeOK
<1>2. ReadId(fin) \in FinType /\ ReadId(fin).pos \in 1..Len(file.texts) + 1
  BY <1>1, ReadIdType
<1>3. fin' \in FinType /\ fin'.pos \in 1..Len(file.texts) + 1
  BY <1>1, <1>2, ReadNameType DEF LoadLine
<1>4. fin'.id \in Nat /\ fin'.name \in Seq(Texts)
  BY <1>3 DEF FinType
<1>5. users' = Put(users, fin'.id, fin'.name)
  BY DEF LoadLine
<1>6. /\ DOMAIN users' \subseteq Nat
      /\ \A k \in DOMAIN users' : users'[k] \in Seq(Texts)
      /\ IsFiniteSet(DOMAIN users')
  BY <1>4, <1>5, PutUser
<1>7. UNCHANGED <<file, pc, req, told, asked, crashes, habits>> /\ pc = "load"
  BY DEF LoadLine
<1> QED BY <1>3, <1>4, <1>6, <1>7 DEF TypeInv, TypeOK, Writing

LEMMA ClosedType == Closed \in FinType /\ Closed.pos = 1 /\ Closed.id = 0
<1>1. << >> \in Seq(Texts)
  OBVIOUS
<1> QED BY <1>1 DEF Closed, FinType

LEMMA TypeLoadEnds == TypeInv /\ (LoadNone \/ LoadEnd) => TypeInv'
<1> SUFFICES ASSUME TypeInv, LoadNone \/ LoadEnd PROVE TypeInv'
  OBVIOUS
<1>1. pc' = "serve" /\ fin' = Closed /\ UNCHANGED <<users, file, req, told, asked, crashes, habits>>
  BY DEF LoadNone, LoadEnd
<1>2. Len(file.texts) \in Nat
  BY DEF TypeInv, FileType
<1>3. fin'.pos \in 1..Len(file.texts) + 1 /\ fin'.pos = 1
  BY <1>1, <1>2, ClosedType
<1>4. fin' \in FinType
  BY <1>1, ClosedType
<1>5. fin'.id \in Nat
  BY <1>1, ClosedType
<1>6. ~Writing'
  BY <1>1 DEF Writing
<1> QED BY <1>1, <1>3, <1>4, <1>5, <1>6 DEF TypeInv, TypeOK

LEMMA TypeSignUp ==
    ASSUME TypeInv, NEW n \in Names, SignUp(n)
    PROVE  TypeInv'
<1>1. GenerateValidID \in Nat
  BY Generated DEF TypeInv, TypeOK
<1>2. n \in Seq(Texts)
  BY NameType
<1>3. users' = Put(users, GenerateValidID, n)
  BY DEF SignUp
<1>4. /\ DOMAIN users' \subseteq Nat
      /\ \A k \in DOMAIN users' : users'[k] \in Seq(Texts)
      /\ IsFiniteSet(DOMAIN users')
  BY <1>1, <1>2, <1>3, PutUser
<1>5. UNCHANGED <<fin, told, crashes, habits>> /\ asked' = asked \union {n} /\ fin.pos = 1
  BY DEF SignUp, TypeInv
<1>6. CASE pc' = "write" /\ req' = [id |-> GenerateValidID, name |-> n]
           /\ file' = [file EXCEPT !.exists = TRUE]
  <2>1. file' \in FileType /\ file'.texts = file.texts /\ file'.ended = file.ended /\ file'.exists = TRUE
    BY <1>6 DEF TypeInv, FileType
  <2>2. req'.id \in Nat /\ req'.name \in Names
    BY <1>1, <1>6
  <2>3. pc' = "write"
    BY <1>6
  <2> QED BY <1>4, <1>5, <2>1, <2>2, <2>3 DEF TypeInv, TypeOK
<1>7. CASE UNCHANGED <<pc, req, file>>
  BY <1>4, <1>5, <1>7 DEF TypeInv, TypeOK, Writing
<1> QED BY <1>6, <1>7 DEF SignUp

LEMMA TypeAlready ==
    ASSUME TypeInv, NEW n \in Names, AlreadySignedUp(n)
    PROVE  TypeInv'
<1>1. PICK id \in FindSignedUpUID(n) : told' = Put(told, n, id)
  BY DEF AlreadySignedUp
<1>2. id \in Nat
  BY DEF FindSignedUpUID, TypeInv, TypeOK
<1>3. UNCHANGED <<users, file, pc, fin, req, crashes, habits>> /\ asked' = asked \union {n}
  BY DEF AlreadySignedUp
<1>4. DOMAIN told' \subseteq Names /\ \A m \in DOMAIN told' : told'[m] \in Nat
  BY <1>1, <1>2 DEF TypeInv, TypeOK, Put
<1> QED BY <1>3, <1>4 DEF TypeInv, TypeOK, Writing

\* Whatever of a line is written, the file keeps its type and does not shrink.
LEMMA WrittenFile ==
    ASSUME TypeInv, WriteLine \/ WriteCut
    PROVE  file' \in FileType
<1>1. req.id \in Nat /\ req.name \in Seq(Texts) /\ file \in FileType
  BY NameType DEF TypeInv, Writing, WriteLine, WriteCut
<1>2. Text[req.id] \in Texts
  BY <1>1, NumberTexts
<1>3. <<Text[req.id]>> \o req.name \in Seq(Texts) /\ <<Text[req.id]>> \o req.name # << >>
  BY <1>1, LineType
<1>4. CASE WriteLine
  BY <1>1, <1>3, <1>4, WriteType DEF WriteLine
<1>5. CASE WriteCut
  <2> DEFINE id == <<Text[req.id]>>
             part == <<Text[req.id], <<req.name[1][1]>>>>
  <2>1. id \in Seq(Texts) /\ id # << >>
    BY <1>2
  <2>2. <<req.name[1][1]>> \in Texts
    <3>1. req.name \in Seq(Texts \ {<< >>}) /\ req.name # << >>
      BY <1>5, NamesAssumption DEF WriteCut, TypeInv, Writing
    <3>2. req.name[1] \in Texts \ {<< >>}
      BY <3>1
    <3>3. req.name[1][1] \in Pieces
      BY <3>2, TextsAre
    <3> QED BY <3>3, TextsAre
  <2>3. part \in Seq(Texts) /\ part # << >>
    BY <1>2, <2>2
  <2>4. \/ file' = file
        \/ file' = Write(file, id, FALSE) \/ file' = Write(file, id, TRUE)
        \/ file' = Write(file, part, FALSE)
        \/ file' = Write(file, <<Text[req.id]>> \o req.name, FALSE)
    BY <1>5 DEF WriteCut
  <2> HIDE DEF id, part
  <2> QED BY <1>1, <1>3, <2>1, <2>3, <2>4, WriteType
<1> QED BY <1>4, <1>5

LEMMA TypeWrite == TypeInv /\ (WriteLine \/ WriteCut) => TypeInv'
<1> SUFFICES ASSUME TypeInv, WriteLine \/ WriteCut PROVE TypeInv'
  OBVIOUS
<1>1. file' \in FileType
  BY WrittenFile
<1>2. pc = "write" /\ pc' = "answer" /\ UNCHANGED <<users, fin, req, told, asked, crashes, habits>>
  BY DEF WriteLine, WriteCut
<1>3. fin.pos = 1
  BY <1>2 DEF TypeInv
<1>4. fin'.pos \in 1..Len(file'.texts) + 1
  BY <1>1, <1>2, <1>3 DEF FileType
<1>5. req'.id \in Nat /\ req'.name \in Names
  BY <1>2 DEF TypeInv, Writing
<1> QED BY <1>1, <1>2, <1>4, <1>5 DEF TypeInv, TypeOK, FileType

LEMMA TypeAnswer == TypeInv /\ Answer => TypeInv'
<1> SUFFICES ASSUME TypeInv, Answer PROVE TypeInv'
  OBVIOUS
<1>1. told' = Put(told, req.name, req.id) /\ pc' = "serve"
      /\ UNCHANGED <<users, file, fin, asked, crashes, habits>> /\ fin.pos = 1
  BY DEF Answer, TypeInv
<1>2. req.id \in Nat /\ req.name \in Names
  BY DEF TypeInv, Writing, Answer
<1>3. DOMAIN told' \subseteq Names /\ \A m \in DOMAIN told' : told'[m] \in Nat
  BY <1>1, <1>2 DEF TypeInv, TypeOK, Put
<1>4. ~Writing'
  BY <1>1 DEF Writing
<1> QED BY <1>1, <1>3, <1>4 DEF TypeInv, TypeOK

LEMMA TypeCrash == TypeInv /\ Crash => TypeInv'
<1> SUFFICES ASSUME TypeInv, Crash PROVE TypeInv'
  OBVIOUS
<1>1. users' = EmptyMap /\ pc' = "load" /\ fin' \in Opened /\ crashes' = crashes + 1
      /\ UNCHANGED <<file, told, asked, habits>> /\ crashes < MaxCrashes
  BY DEF Crash
<1>2. DOMAIN users' = {} /\ IsFiniteSet(DOMAIN users')
  BY <1>1, FS_EmptySet DEF EmptyMap
<1>3. fin' \in FinType /\ fin'.pos = 1
  BY <1>1, ClosedType, BoundsAssumption DEF Opened, FinType
<1>4. fin'.id \in Nat
  BY <1>3 DEF FinType
<1>5. fin'.pos \in 1..Len(file'.texts) + 1
  BY <1>1, <1>3 DEF TypeInv, FileType
<1>6. crashes' \in 0..MaxCrashes
  BY <1>1, BoundsAssumption DEF TypeInv, TypeOK
<1>7. ~Writing'
  BY <1>1 DEF Writing
<1> QED BY <1>1, <1>2, <1>3, <1>4, <1>5, <1>6, <1>7 DEF TypeInv, TypeOK

LEMMA TypeNext == TypeInv /\ [Next]_vars => TypeInv'
<1> SUFFICES ASSUME TypeInv, [Next]_vars PROVE TypeInv'
  OBVIOUS
<1>1. CASE Server
  BY <1>1, TypeLoadLine, TypeLoadEnds, TypeWrite, TypeAnswer DEF Server
<1>2. CASE Crash
  BY <1>2, TypeCrash
<1>3. CASE \E n \in Names : MayAsk(n) /\ (SignUp(n) \/ AlreadySignedUp(n))
  BY <1>3, TypeSignUp, TypeAlready
<1>4. CASE UNCHANGED vars
  BY <1>4 DEF vars, TypeInv, TypeOK, Writing
<1> QED BY <1>1, <1>2, <1>3, <1>4 DEF Next

\* Every variable of the store keeps its type, and the stream stays within the
\* file, whatever is written, cut short and read back.
THEOREM StoreTypes == Spec => []TypeOK
<1>1. Init => TypeInv
  BY TypeInit
<1>2. TypeInv /\ [Next]_vars => TypeInv'
  BY TypeNext
<1>3. TypeInv => TypeOK
  BY DEF TypeInv
<1> QED BY <1>1, <1>2, <1>3, PTL DEF Spec
----------------------------------------------------------------------------
(* Lines.                                                                  *)

LEMMA LinesType ==
    ASSUME TypeInv
    PROVE  Lines(file.texts) \in Nat /\ file.texts \in Seq(Texts) /\ Len(file.texts) \in Nat
<1>1. file.texts \in Seq(Texts) /\ Len(file.texts) \in Nat
  BY DEF TypeInv, FileType
<1>2. \A n \in Nat : n \div 2 \in Nat
  OBVIOUS
<1> QED BY <1>1, <1>2 DEF Lines

\* Nothing of these parts looks at more than what is unchanged here.
LEMMA TidyStays ==
    ASSUME Tidy, file' = file, asked \subseteq asked', habits' = habits,
           pc = "write" => pc' = "write" \/ Has("crash_open")
    PROVE  Tidy'
BY DEF Tidy, Lines, Number, Name, Has

LEMMA PromisedStays ==
    ASSUME Promised, file' = file, told' = told, habits' = habits
    PROVE  Promised'
BY DEF Promised, Lines, Number, Name, Has

\* The next line, or the end of the file, is read.
LEMMA NextLine ==
    ASSUME TypeInv, Tidy, Loading, LoadLine
    PROVE  \E i \in 0..Lines(file.texts) :
             /\ fin.pos = 2 * i + 1
             /\ \/ /\ i < Lines(file.texts)
                   /\ fin'.pos = 2 * (i + 1) + 1
                   /\ fin'.id = Number(file.texts, i + 1)
                   /\ fin'.name = Name(file.texts, i + 1)
                   /\ ~fin'.eof /\ ~fin'.fail
                \/ /\ i = Lines(file.texts)
                   /\ fin'.pos = fin.pos /\ fin'.id = fin.id /\ fin'.name = fin.name
                   /\ fin'.eof
                   /\ fin.name = IF i = 0 THEN << >> ELSE Name(file.texts, i)
                   /\ i > 0 => fin.id = Number(file.texts, i)
<1> DEFINE L == Lines(file.texts)
           ts == file.texts
<1>1. L \in Nat /\ Len(ts) = 2 * L /\ file.ended = TRUE
  BY LinesType DEF Tidy, TypeInv, FileType
<1>2. fin \in FinType /\ pc = "load" /\ fin' = ReadName(ReadId(fin)) /\ ~fin.eof /\ ~fin.fail
  BY DEF LoadLine, TypeInv, Loading
<1>3. PICK i \in 0..L : /\ fin.pos = 2 * i + 1
                        /\ fin.name = IF i = 0 THEN << >> ELSE Name(ts, i)
                        /\ i > 0 => fin.id = Number(ts, i)
  BY <1>2 DEF Loading
<1> HIDE DEF L
<1>4. CASE i < L
  <2>1. fin.pos <= Len(ts) /\ fin.pos = 2 * (i + 1) - 1 /\ i + 1 \in 1..L
    BY <1>1, <1>3, <1>4
  <2>2. IsNumber(ts[fin.pos])
    <3>1. IsNumber(ts[2 * (i + 1) - 1])
      BY <2>1 DEF Tidy, L
    <3> QED BY <2>1, <3>1
  <2> DEFINE r == [Past(fin) EXCEPT !.id = Value(ts[fin.pos])]
  <2>3. ReadId(fin) = r
    BY <1>2, <2>1, <2>2 DEF ReadId, AtEnd
  <2>4. r.pos = 2 * i + 2 /\ r.id = Value(ts[fin.pos]) /\ ~r.eof /\ ~r.fail
    <3>1. Past(fin).pos = fin.pos + 1 /\ ~Past(fin).eof /\ ~Past(fin).fail
      BY <1>1, <1>2 DEF Past, FinType
    <3>2. Past(fin) \in FinType
      BY <1>2, PastType
    <3> QED BY <3>1, <3>2, <1>3 DEF FinType
  <2>5. r \in FinType
    BY <1>2, <1>3, <2>1, <2>3, ReadIdType DEF TypeInv, TypeOK
  <2> HIDE DEF r
  <2> DEFINE q == [Past(r) EXCEPT !.name = <<ts[r.pos]>>]
  <2>6. r.pos <= Len(ts)
    BY <1>1, <1>4, <2>4
  <2>7. fin' = q
    BY <1>2, <2>3, <2>4, <2>6 DEF ReadName, AtEnd
  <2>8. Past(r).pos = r.pos + 1 /\ ~Past(r).eof /\ ~Past(r).fail /\ Past(r).id = r.id
    BY <1>1, <2>4, <2>5 DEF Past, FinType
  <2>9. Past(r) \in FinType
    BY <2>5, PastType
  <2>10. q.pos = r.pos + 1 /\ q.id = r.id /\ q.name = <<ts[r.pos]>> /\ ~q.eof /\ ~q.fail
    BY <2>8, <2>9 DEF FinType
  <2> HIDE DEF q
  <2>11. r.pos + 1 = 2 * (i + 1) + 1 /\ r.pos = 2 * (i + 1)
    BY <2>4
  <2>12. fin'.id = Number(ts, i + 1)
    BY <2>1, <2>4, <2>7, <2>10 DEF Number
  <2>13. fin'.name = Name(ts, i + 1)
    BY <2>7, <2>10, <2>11 DEF Name
  <2> QED BY <1>3, <1>4, <2>7, <2>10, <2>11, <2>12, <2>13 DEF L
<1>5. CASE i = L
  <2> DEFINE r == [fin EXCEPT !.eof = TRUE, !.fail = TRUE]
  <2>1. fin.pos > Len(ts)
    BY <1>1, <1>3, <1>5
  <2>2. ReadId(fin) = r
    BY <1>2, <2>1 DEF ReadId, AtEnd
  <2>3. r.eof /\ r.fail /\ r.pos = fin.pos /\ r.id = fin.id /\ r.name = fin.name /\ r \in FinType
    BY <1>2 DEF FinType
  <2> HIDE DEF r
  <2>4. fin' = [r EXCEPT !.fail = TRUE]
    BY <1>2, <2>2, <2>3 DEF ReadName
  <2>5. fin'.eof /\ fin'.pos = fin.pos /\ fin'.id = fin.id /\ fin'.name = fin.name
    BY <2>3, <2>4 DEF FinType
  <2> QED BY <1>3, <1>5, <2>5 DEF L
<1>6. i < L \/ i = L
  BY <1>1, <1>3
<1> QED BY <1>4, <1>5, <1>6
----------------------------------------------------------------------------
(* The store keeps its promises.                                           *)

LEMMA WholeInit == Init => Whole
<1> SUFFICES ASSUME Init PROVE Whole
  OBVIOUS
<1>1. /\ file.texts = << >> /\ file.ended /\ ~file.exists /\ pc = "load"
      /\ DOMAIN users = {} /\ DOMAIN told = {}
  BY DEF Init, EmptyMap
<1>2. fin.pos = 1 /\ fin.name = << >> /\ ~fin.eof /\ ~fin.fail
  BY DEF Init, Opened, Closed
<1>3. Len(file.texts) = 0 /\ Lines(file.texts) = 0
  BY <1>1 DEF Lines
<1>4. Entered = 0
  BY <1>1, <1>2 DEF Entered
<1>5. Tidy
  BY <1>1, <1>3 DEF Tidy
<1>6. Loading
  <2>1. 0 \in 0..0 /\ fin.pos = 2 * 0 + 1
    BY <1>2
  <2> QED BY <1>2, <1>3, <2>1 DEF Loading
<1>7. Entries
  BY <1>1, <1>4 DEF Entries
<1>8. Request /\ Promised
  BY <1>1 DEF Request, Writing, Promised
<1> QED BY <1>5, <1>6, <1>7, <1>8 DEF Whole

LEMMA WholeLoadLine ==
    ASSUME TypeInv, Whole, LoadLine
    PROVE  Whole'
<1> USE DEF Whole
<1> DEFINE L == Lines(file.texts)
           ts == file.texts
<1>1. L \in Nat
  BY LinesType
<1>2. /\ users' = Put(users, fin'.id, fin'.name)
      /\ UNCHANGED <<file, pc, req, told, asked, crashes, habits>> /\ pc = "load" /\ file.exists
  BY DEF LoadLine
<1>3. PICK i \in 0..L :
             /\ fin.pos = 2 * i + 1
             /\ \/ /\ i < L
                   /\ fin'.pos = 2 * (i + 1) + 1
                   /\ fin'.id = Number(ts, i + 1)
                   /\ fin'.name = Name(ts, i + 1)
                   /\ ~fin'.eof /\ ~fin'.fail
                \/ /\ i = L
                   /\ fin'.pos = fin.pos /\ fin'.id = fin.id /\ fin'.name = fin.name
                   /\ fin'.eof
                   /\ fin.name = IF i = 0 THEN << >> ELSE Name(ts, i)
                   /\ i > 0 => fin.id = Number(ts, i)
  BY NextLine
<1>4. Tidy'
  BY <1>2, TidyStays
<1>5. Request' /\ Promised'
  BY <1>2, PromisedStays DEF Request, Writing
<1>6. Lines(file'.texts) = L
  BY <1>2
<1>7. Entered = i
  BY <1>1, <1>2, <1>3 DEF Entered
<1>8. \A j, k \in 1..L : Number(ts, j) = Number(ts, k) => j = k
  BY DEF Tidy
<1>9. /\ \A k \in 1..i : Number(ts, k) \in DOMAIN users /\ users[Number(ts, k)] = Name(ts, k)
      /\ \A id \in DOMAIN users :
           \/ \E k \in 1..i : id = Number(ts, k) /\ users[id] = Name(ts, k)
           \/ Has("noopen") /\ users[id] \in asked
           \/ Has("crash_open") /\ users[id] = << >>
  BY <1>2, <1>7 DEF Entries
<1> HIDE DEF L
<1>10. CASE i < L
  <2>1. i + 1 \in 1..L /\ 1..i \subseteq 1..L /\ fin'.pos = 2 * (i + 1) + 1
        /\ fin'.id = Number(ts, i + 1) /\ fin'.name = Name(ts, i + 1) /\ ~fin'.eof /\ ~fin'.fail
    BY <1>1, <1>3, <1>10
  <2>2. Loading'
    <3>1. i + 1 \in 0..L /\ i + 1 # 0
      BY <1>1, <1>3, <1>10
    <3> QED BY <1>2, <1>6, <2>1, <3>1 DEF Loading
  <2>3. Entered' = i + 1
    <3>1. Entered' = (fin'.pos - 1) \div 2
      BY <1>2 DEF Entered
    <3>2. fin'.pos - 1 = 2 * (i + 1)
      BY <2>1
    <3> QED BY <3>1, <3>2
  <2>4. /\ DOMAIN users' = DOMAIN users \union {Number(ts, i + 1)}
        /\ users'[Number(ts, i + 1)] = Name(ts, i + 1)
        /\ \A id \in DOMAIN users : id # Number(ts, i + 1) => users'[id] = users[id]
    <3>1. users' = Put(users, Number(ts, i + 1), Name(ts, i + 1))
      BY <1>2, <2>1
    <3> QED BY <3>1 DEF Put
  <2>5. ASSUME NEW k \in 1..(i + 1)
        PROVE  Number(ts, k) \in DOMAIN users' /\ users'[Number(ts, k)] = Name(ts, k)
    <3>1. CASE k = i + 1
      BY <2>4, <3>1
    <3>2. CASE k \in 1..i
      <4>1. k # i + 1 /\ k \in 1..L
        BY <2>1, <3>2
      <4>2. Number(ts, k) # Number(ts, i + 1)
        BY <1>8, <2>1, <4>1
      <4> QED BY <1>9, <2>4, <3>2, <4>2
    <3> QED BY <3>1, <3>2
  <2>6. ASSUME NEW id \in DOMAIN users'
        PROVE  \/ \E k \in 1..(i + 1) : id = Number(ts, k) /\ users'[id] = Name(ts, k)
               \/ Has("noopen") /\ users'[id] \in asked
               \/ Has("crash_open") /\ users'[id] = << >>
    <3>1. CASE id = Number(ts, i + 1)
      <4>1. i + 1 \in 1..(i + 1)
        OBVIOUS
      <4> QED BY <2>4, <3>1, <4>1
    <3>2. CASE id # Number(ts, i + 1)
      <4>1. id \in DOMAIN users /\ users'[id] = users[id]
        BY <2>4, <3>2
      <4>2. 1..i \subseteq 1..(i + 1)
        OBVIOUS
      <4> QED BY <1>9, <4>1, <4>2
    <3> QED BY <3>1, <3>2
  <2>7. Entries'
    BY <1>2, <2>3, <2>5, <2>6 DEF Entries, Has
  <2> QED BY <1>4, <1>5, <2>2, <2>7
<1>11. CASE i = L
  <2>1. /\ fin'.pos = fin.pos /\ fin'.id = fin.id /\ fin'.name = fin.name /\ fin'.eof
        /\ fin.name = IF i = 0 THEN << >> ELSE Name(ts, i)
        /\ i > 0 => fin.id = Number(ts, i)
    BY <1>1, <1>3, <1>11
  <2>2. Loading'
    BY <1>2, <1>3, <1>6, <1>11, <2>1 DEF Loading
  <2>3. Entered' = i
    BY <1>2, <1>7, <2>1 DEF Entered
  <2>4. /\ DOMAIN users' = DOMAIN users \union {fin.id}
        /\ users'[fin.id] = fin.name
        /\ \A id \in DOMAIN users : id # fin.id => users'[id] = users[id]
    <3>1. users' = Put(users, fin.id, fin.name)
      BY <1>2, <2>1
    <3> QED BY <3>1 DEF Put
  <2>5. CASE i = 0
    <3>1. ts = << >>
      <4>1. Len(ts) = 0
        BY <1>11, <2>5 DEF Tidy, L
      <4> QED BY <4>1, LinesType
    <3>2. Has("crash_open")
      BY <1>2, <3>1 DEF Tidy
    <3>3. \A id \in DOMAIN users' : \/ Has("noopen") /\ users'[id] \in asked
                                    \/ Has("crash_open") /\ users'[id] = << >>
      <4>1. \A id \in DOMAIN users : \/ Has("noopen") /\ users[id] \in asked
                                     \/ Has("crash_open") /\ users[id] = << >>
        BY <1>9, <2>5
      <4> QED BY <2>1, <2>4, <2>5, <3>2, <4>1
    <3>4. Entries'
      BY <1>2, <2>3, <2>5, <3>3 DEF Entries, Has
    <3> QED BY <1>4, <1>5, <2>2, <3>4
  <2>6. CASE i # 0
    <3>1. i \in 1..i /\ fin.id = Number(ts, i) /\ fin.name = Name(ts, i)
      BY <1>3, <2>1, <2>6
    <3>2. fin.id \in DOMAIN users /\ users[fin.id] = fin.name
      BY <1>9, <3>1
    <3>3. DOMAIN users' = DOMAIN users /\ \A id \in DOMAIN users : users'[id] = users[id]
      BY <2>4, <3>2
    <3>4. Entries'
      BY <1>2, <1>9, <2>3, <3>3 DEF Entries, Has
    <3> QED BY <1>4, <1>5, <2>2, <3>4
  <2> QED BY <2>5, <2>6
<1>12. i < L \/ i = L
  BY <1>1, <1>3
<1> QED BY <1>10, <1>11, <1>12

LEMMA WholeLoadEnds ==
    ASSUME TypeInv, Whole, LoadNone \/ LoadEnd
    PROVE  Whole'
<1> USE DEF Whole
<1>1. pc = "load" /\ pc' = "serve" /\ fin' = Closed
      /\ UNCHANGED <<users, file, req, told, asked, crashes, habits>>
  BY DEF LoadNone, LoadEnd
<1>2. Entered = Lines(file.texts)
  <2>1. PICK i \in 0..Lines(file.texts) :
           fin.pos = 2 * i + 1 /\ (fin.eof => i = Lines(file.texts))
    BY <1>1 DEF Loading
  <2>2. Lines(file.texts) \in Nat
    BY LinesType
  <2>3. i = Lines(file.texts)
    <3>1. CASE LoadEnd
      BY <2>1, <3>1 DEF LoadEnd
    <3>2. CASE LoadNone
      <4>1. Lines(file.texts) = 0
        <5>1. file.texts = << >>
          BY <3>2 DEF LoadNone, Tidy
        <5>2. Len(file.texts) = 0
          BY <5>1
        <5> QED BY <5>2 DEF Lines
      <4> QED BY <2>1, <4>1
    <3> QED BY <3>1, <3>2
  <2>4. Entered = (fin.pos - 1) \div 2
    BY <1>1 DEF Entered
  <2>5. fin.pos - 1 = 2 * Lines(file.texts)
    BY <2>1, <2>2, <2>3
  <2> QED BY <2>2, <2>4, <2>5
<1>3. Entered' = Entered
  BY <1>1, <1>2 DEF Entered
<1>4. Tidy' /\ Promised'
  BY <1>1, TidyStays, PromisedStays
<1>5. Loading' /\ Request'
  BY <1>1 DEF Loading, Request, Writing
<1>6. Entries'
  BY <1>1, <1>3 DEF Entries, Has
<1> QED BY <1>4, <1>5, <1>6

\* A name of one word that is asked for is no user's yet.
LEMMA WholeSignUp ==
    ASSUME TypeInv, Whole, Plain, NEW n \in Names, MayAsk(n), SignUp(n)
    PROVE  Whole'
<1> USE DEF Whole
<1> DEFINE L == Lines(file.texts)
           ts == file.texts
           new == GenerateValidID
<1>1. /\ pc = "serve" /\ users' = Put(users, new, n) /\ asked' = asked \union {n}
      /\ UNCHANGED <<fin, told, crashes, habits>>
      /\ \A id \in DOMAIN users : users[id] # n
  BY DEF SignUp, IsUserSignedUp
<1>2. /\ \/ /\ pc' = "write" /\ req' = [id |-> new, name |-> n]
            /\ file' = [file EXCEPT !.exists = TRUE]
         \/ Has("noopen") /\ UNCHANGED <<pc, req, file>>
  BY DEF SignUp
<1>3. file'.texts = ts /\ file'.ended = file.ended
  BY <1>2 DEF TypeInv, FileType
<1>4. L \in Nat
  BY LinesType
<1>5. Len(n) = 1
  BY DEF MayAsk, Plain, Has
<1>6. new \in Nat /\ \A id \in DOMAIN users : id < new
  BY Generated DEF TypeInv, TypeOK
<1>7. Entered = L /\ Entered' = L
  BY <1>1, <1>2, <1>3 DEF Entered
<1>8. /\ DOMAIN users' = DOMAIN users \union {new} /\ users'[new] = n
      /\ \A id \in DOMAIN users : users'[id] = users[id]
  <2>1. new \notin DOMAIN users
    BY <1>6 DEF TypeInv, TypeOK
  <2> HIDE DEF new
  <2> QED BY <1>1, <2>1 DEF Put
<1>9. /\ \A k \in 1..L : Number(ts, k) \in DOMAIN users /\ users[Number(ts, k)] = Name(ts, k)
      /\ \A id \in DOMAIN users :
           \/ \E k \in 1..L : id = Number(ts, k) /\ users[id] = Name(ts, k)
           \/ Has("noopen") /\ users[id] \in asked
           \/ Has("crash_open") /\ users[id] = << >>
  BY <1>1, <1>7 DEF Entries
<1>10. Loading'
  BY <1>1, <1>2 DEF Loading
<1>11. Promised'
  BY <1>1, <1>3 DEF Promised, Has
<1>12. \A k \in 1..L : new # Number(ts, k) /\ n # Name(ts, k)
  <2> HIDE DEF new, L, ts
  <2> QED BY <1>1, <1>6, <1>9 DEF TypeInv, TypeOK
<1>13. Tidy'
  <2>1. ~file'.exists => ts = << >>
    BY <1>2 DEF Tidy, TypeInv, FileType
  <2>2. file'.exists /\ ts = << >> => pc' = "write" \/ Has("crash_open")
    BY <1>1, <1>2 DEF Tidy
  <2> HIDE DEF new
  <2> QED BY <1>1, <1>3, <2>1, <2>2 DEF Tidy, Has
<1>14. Request'
  <2>1. CASE pc' = "write" /\ req' = [id |-> new, name |-> n]
    <3>1. Writing' => req'.name \in asked' /\ Len(req'.name) = 1
      BY <1>1, <1>5, <2>1
    <3>2. pc' = "write" => \A k \in 1..L : req'.id # Number(ts, k) /\ req'.name # Name(ts, k)
      BY <1>12, <2>1
    <3>3. req'.id \in DOMAIN users' /\ users'[req'.id] = req'.name
      BY <1>8, <2>1
    <3> HIDE DEF new, L
    <3> QED BY <1>3, <2>1, <3>1, <3>2, <3>3 DEF Request, L
  <2>2. CASE UNCHANGED <<pc, req, file>>
    BY <1>1, <2>2 DEF Request, Writing, Lines
  <2> QED BY <1>2, <2>1, <2>2
<1>15. Entries'
  <2>1. \A k \in 1..L : Number(ts, k) \in DOMAIN users' /\ users'[Number(ts, k)] = Name(ts, k)
    <3> HIDE DEF new, L, ts
    <3> QED BY <1>8, <1>9
  <2>2. ASSUME NEW id \in DOMAIN users'
        PROVE  \/ \E k \in 1..L : id = Number(ts, k) /\ users'[id] = Name(ts, k)
               \/ pc' = "write" /\ id = req'.id /\ users'[id] = req'.name
               \/ Has("noopen") /\ users'[id] \in asked'
               \/ Has("crash_open") /\ users'[id] = << >>
    <3>1. CASE id = new
      BY <1>1, <1>2, <1>8, <3>1
    <3>2. CASE id # new
      <4>1. id \in DOMAIN users /\ users'[id] = users[id]
        BY <1>8, <3>2
      <4> HIDE DEF new, L, ts
      <4> QED BY <1>1, <1>9, <4>1
    <3> QED BY <3>1, <3>2
  <2> HIDE DEF new
  <2> QED BY <1>1, <1>3, <1>7, <2>1, <2>2 DEF Entries, Has
<1> QED BY <1>10, <1>11, <1>13, <1>14, <1>15

\* Who has a name of one word and can be found is in the file.
LEMMA WholeAlready ==
    ASSUME TypeInv, Whole, Plain, NEW n \in Names, MayAsk(n), AlreadySignedUp(n)
    PROVE  Whole'
<1> USE DEF Whole
<1>1. PICK id \in FindSignedUpUID(n) : told' = Put(told, n, id)
  BY DEF AlreadySignedUp
<1>2. /\ pc = "serve" /\ asked' = asked \union {n}
      /\ UNCHANGED <<users, file, pc, fin, req, crashes, habits>>
  BY DEF AlreadySignedUp
<1>3. Len(n) = 1
  BY DEF MayAsk, Plain, Has
<1>4. id \in DOMAIN users /\ users[id] = n
  BY DEF FindSignedUpUID
<1>5. ~Has("noopen") => \E k \in 1..Lines(file.texts) :
                            id = Number(file.texts, k) /\ n = Name(file.texts, k)
  <2>1. n # << >>
    BY <1>3
  <2>2. Entered = Lines(file.texts)
    BY <1>2 DEF Entered
  <2> QED BY <1>2, <1>4, <2>1, <2>2 DEF Entries
<1>6. Tidy' /\ Loading' /\ Request'
  BY <1>2, TidyStays DEF Loading, Request, Writing
<1>7. Entries'
  BY <1>2 DEF Entries, Entered, Has
<1>8. Promised'
  BY <1>1, <1>2, <1>5 DEF Promised, Put, Has
<1> QED BY <1>6, <1>7, <1>8

LEMMA OneAndOne == ASSUME NEW a, NEW b PROVE <<a>> \o <<b>> = <<a, b>>
<1>1. <<a>> \in Seq({a, b}) /\ <<b>> \in Seq({a, b}) /\ <<a, b>> \in Seq({a, b})
  OBVIOUS
<1> DEFINE s == <<a>> \o <<b>>
<1>2. s \in Seq({a, b}) /\ Len(s) = 2 /\ s[1] = a /\ s[2] = b
  BY <1>1, ConcatProperties
<1> HIDE DEF s
<1>3. s = <<a, b>>
  BY <1>1, <1>2
<1> QED BY <1>3 DEF s

LEMMA TwoMore ==
    ASSUME NEW S, NEW s \in Seq(S), NEW l \in Seq(S), Len(l) = 2
    PROVE  /\ Len(s) \in Nat /\ Len(s \o l) = Len(s) + 2
           /\ (s \o l)[Len(s) + 1] = l[1] /\ (s \o l)[Len(s) + 2] = l[2]
           /\ \A k \in 1..Len(s) : (s \o l)[k] = s[k]
<1> DEFINE t == s \o l
           n == Len(s)
<1>1. n \in Nat
  OBVIOUS
<1>2. Len(t) = n + 2 /\ \A i \in 1..(n + 2) : t[i] = IF i <= n THEN s[i] ELSE l[i - n]
  <2>1. Len(s \o l) = Len(s) + Len(l)
        /\ \A i \in 1..Len(s) + Len(l) : (s \o l)[i] = IF i <= Len(s) THEN s[i] ELSE l[i - Len(s)]
    BY ConcatProperties
  <2> QED BY <2>1
<1> HIDE DEF t, n
<1>3. t[n + 1] = l[1]
  BY <1>1, <1>2
<1>4. t[n + 2] = l[2]
  BY <1>1, <1>2
<1>5. \A k \in 1..n : t[k] = s[k]
  BY <1>1, <1>2
<1> QED BY <1>1, <1>2, <1>3, <1>4, <1>5 DEF t, n

\* The line goes behind those there are.
LEMMA WholeWrite ==
    ASSUME TypeInv, Whole, WriteLine
    PROVE  Whole'
<1> USE DEF Whole
<1> DEFINE L == Lines(file.texts)
           ts == file.texts
           us == file'.texts
<1>1. /\ pc = "write" /\ pc' = "answer" /\ UNCHANGED <<users, fin, req, told, asked, crashes, habits>>
      /\ file' = Write(file, <<Text[req.id]>> \o req.name, TRUE)
  BY DEF WriteLine
<1>2. /\ L \in Nat /\ Len(ts) = 2 * L /\ file.ended /\ ts \in Seq(Texts)
  BY LinesType DEF Tidy
<1>3. req.id \in Nat /\ req.name \in Seq(Texts) /\ Len(req.name) = 1 /\ req.name \in asked
  BY <1>1, NameType DEF TypeInv, Writing, Request
<1>4. Text[req.id] \in Texts /\ IsNumber(Text[req.id]) /\ Value(Text[req.id]) = req.id
  BY <1>3, NumberTexts, NumberBack
<1>5. /\ us = ts \o (<<Text[req.id]>> \o req.name)
      /\ file'.ended = TRUE /\ file'.exists = TRUE
  BY <1>1, <1>2 DEF Write
<1>6. /\ Len(us) = 2 * L + 2
      /\ us[2 * L + 1] = Text[req.id] /\ us[2 * L + 2] = req.name[1]
      /\ \A k \in 1..(2 * L) : us[k] = ts[k]
  <2> DEFINE line == <<Text[req.id]>> \o req.name
  <2>1. line \in Seq(Texts) /\ Len(line) = 2 /\ line[1] = Text[req.id] /\ line[2] = req.name[1]
    <3> DEFINE w == req.name[1]
    <3>1. req.name = <<w>> /\ w \in Texts
      BY <1>3
    <3>2. line = <<Text[req.id], w>>
      BY <3>1, OneAndOne
    <3> HIDE DEF w, line
    <3>3. <<Text[req.id], w>> \in Seq(Texts)
      BY <1>4, <3>1
    <3>4. line[1] = Text[req.id] /\ line[2] = w /\ Len(line) = 2
      BY <3>2
    <3> QED BY <3>2, <3>3, <3>4 DEF w
  <2>2. us = ts \o line
    BY <1>5
  <2>3. Len(ts) \in Nat /\ Len(us) = Len(ts) + 2 /\ us[Len(ts) + 1] = line[1] /\ us[Len(ts) + 2] = line[2]
        /\ \A k \in 1..Len(ts) : us[k] = ts[k]
    <3>1. ts \in Seq(Texts) /\ line \in Seq(Texts) /\ Len(line) = 2
      BY <1>2, <2>1
    <3> HIDE DEF line, ts, us
    <3> QED BY <2>2, <3>1, TwoMore
  <2> HIDE DEF line, L, ts, us
  <2> QED BY <1>2, <2>1, <2>3
<1>7. req.name = <<req.name[1]>>
  BY <1>3
<1> HIDE DEF us, L, ts
<1>8. Lines(us) = L + 1
  <2>1. 2 * L + 2 = 2 * (L + 1) /\ (2 * (L + 1)) \div 2 = L + 1
    BY <1>2
  <2> QED BY <1>6, <2>1 DEF Lines
<1>9. Number(us, L + 1) = req.id /\ Name(us, L + 1) = req.name /\ us[2 * (L + 1) - 1] = Text[req.id]
  <2>1. 2 * (L + 1) - 1 = 2 * L + 1 /\ 2 * (L + 1) = 2 * L + 2
    BY <1>2
  <2> QED BY <1>4, <1>6, <1>7, <2>1 DEF Number, Name
<1>10. \A k \in 1..L : Number(us, k) = Number(ts, k) /\ Name(us, k) = Name(ts, k)
                       /\ us[2 * k - 1] = ts[2 * k - 1]
  <2>1. \A k \in 1..L : 2 * k - 1 \in 1..(2 * L) /\ 2 * k \in 1..(2 * L)
    BY <1>2
  <2> QED BY <1>6, <2>1 DEF Number, Name
<1>11. \A k \in 1..(L + 1) : k \in 1..L \/ k = L + 1
  BY <1>2
<1>12. 1..L \subseteq 1..(L + 1) /\ L + 1 \in 1..(L + 1)
  BY <1>2
<1>13. \A k \in 1..L : req.id # Number(ts, k) /\ req.name # Name(ts, k)
  BY <1>1 DEF Request, L, ts
<1>14. Tidy'
  <2>1. \A k \in 1..L : IsNumber(ts[2 * k - 1]) /\ Name(ts, k) \in asked
    BY DEF Tidy, L, ts
  <2>2. \A k \in 1..(L + 1) : IsNumber(us[2 * k - 1]) /\ Name(us, k) \in asked
    BY <1>3, <1>4, <1>9, <1>10, <1>11, <2>1
  <2>3. \A j, k \in 1..L : \/ Number(ts, j) = Number(ts, k)
                           \/ Name(ts, j) = Name(ts, k)
                           => j = k
    BY DEF Tidy, L, ts
  <2>4. \A j, k \in 1..(L + 1) : \/ Number(us, j) = Number(us, k)
                                 \/ Name(us, j) = Name(us, k)
                                 => j = k
    BY <1>9, <1>10, <1>11, <1>13, <2>3
  <2>5. us # << >> /\ Len(us) = 2 * Lines(us)
    BY <1>2, <1>6, <1>8
  <2> QED BY <1>1, <1>5, <1>8, <2>2, <2>4, <2>5 DEF Tidy, us
<1>15. Loading'
  BY <1>1 DEF Loading
<1>16. Entered = L /\ Entered' = L + 1
  BY <1>1, <1>8 DEF Entered, L, ts, us
<1>17. Request'
  BY <1>1, <1>3, <1>8, <1>9, <1>12 DEF Request, Writing, us
<1>18. Promised'
  <2>1. \A n \in DOMAIN told : ~Has("noopen") => \E k \in 1..L : told[n] = Number(ts, k) /\ n = Name(ts, k)
    BY DEF Promised, L, ts
  <2>2. \A n \in DOMAIN told : ~Has("noopen") => \E k \in 1..(L + 1) : told[n] = Number(us, k) /\ n = Name(us, k)
    BY <1>10, <1>12, <2>1
  <2> QED BY <1>1, <1>8, <2>2 DEF Promised, Has, us
<1>19. Entries'
  <2>1. \A k \in 1..L : Number(ts, k) \in DOMAIN users /\ users[Number(ts, k)] = Name(ts, k)
    BY <1>16 DEF Entries, ts
  <2>2. req.id \in DOMAIN users /\ users[req.id] = req.name
    BY <1>1 DEF Request
  <2>3. \A k \in 1..(L + 1) : Number(us, k) \in DOMAIN users /\ users[Number(us, k)] = Name(us, k)
    BY <1>9, <1>10, <1>11, <2>1, <2>2
  <2>4. ASSUME NEW id \in DOMAIN users
        PROVE  \/ \E k \in 1..(L + 1) : id = Number(us, k) /\ users[id] = Name(us, k)
               \/ Has("noopen") /\ users[id] \in asked
               \/ Has("crash_open") /\ users[id] = << >>
    <3>1. \/ \E k \in 1..L : id = Number(ts, k) /\ users[id] = Name(ts, k)
          \/ id = req.id /\ users[id] = req.name
          \/ Has("noopen") /\ users[id] \in asked
          \/ Has("crash_open") /\ users[id] = << >>
      BY <1>16 DEF Entries, ts
    <3> QED BY <1>9, <1>10, <1>12, <3>1
  <2> QED BY <1>1, <1>16, <2>3, <2>4 DEF Entries, Has, us
<1> QED BY <1>14, <1>15, <1>17, <1>18, <1>19

LEMMA WholeAnswer ==
    ASSUME Whole, Answer
    PROVE  Whole'
<1> USE DEF Whole
<1>1. /\ pc = "answer" /\ pc' = "serve" /\ told' = Put(told, req.name, req.id)
      /\ UNCHANGED <<users, file, fin, asked, crashes, habits>>
  BY DEF Answer
<1>2. Tidy'
  BY <1>1, TidyStays
<1>3. Loading' /\ Request'
  BY <1>1 DEF Loading, Request, Writing
<1>4. Entries'
  BY <1>1 DEF Entries, Entered, Has
<1>5. \E k \in 1..Lines(file.texts) : req.id = Number(file.texts, k) /\ req.name = Name(file.texts, k)
  BY <1>1 DEF Request
<1>6. Promised'
  BY <1>1, <1>5 DEF Promised, Put, Has
<1> QED BY <1>2, <1>3, <1>4, <1>6

LEMMA WholeCrash ==
    ASSUME TypeInv, Whole, Crash
    PROVE  Whole'
<1> USE DEF Whole
<1>1. /\ pc' = "load" /\ fin' \in Opened /\ users' = EmptyMap
      /\ UNCHANGED <<file, told, asked, habits>>
      /\ pc = "write" => Has("crash_open")
  BY DEF Crash
<1>2. Tidy' /\ Promised'
  BY <1>1, TidyStays, PromisedStays
<1>3. fin'.pos = 1 /\ fin'.name = << >> /\ ~fin'.eof /\ ~fin'.fail
  BY <1>1 DEF Opened, Closed
<1>4. Loading'
  <2>1. 0 \in 0..Lines(file.texts) /\ fin'.pos = 2 * 0 + 1
    BY <1>3, LinesType
  <2> QED BY <1>1, <1>3, <2>1 DEF Loading
<1>5. Request'
  BY <1>1 DEF Request, Writing
<1>6. Entered' = 0 /\ DOMAIN users' = {}
  BY <1>1, <1>3 DEF Entered, EmptyMap
<1>7. Entries'
  BY <1>6 DEF Entries
<1> QED BY <1>2, <1>4, <1>5, <1>7

LEMMA WholeSame ==
    ASSUME Whole, UNCHANGED vars
    PROVE  Whole'
<1> USE DEF vars, Whole
<1>1. Tidy' /\ Promised'
  BY TidyStays, PromisedStays
<1>2. Loading'
  BY DEF Loading
<1>3. Entries'
  BY DEF Entries, Entered, Has
<1>4. Request'
  BY DEF Request, Writing
<1> QED BY <1>1, <1>2, <1>3, <1>4

LEMMA StoreNext == TypeInv /\ StoreInv /\ [Next]_vars => StoreInv'
<1> SUFFICES ASSUME TypeInv, StoreInv, [Next]_vars, Plain' PROVE Whole'
  BY DEF StoreInv
<1>1. habits' = habits
  BY DEF Next, Server, LoadNone, LoadLine, LoadEnd, WriteLine, WriteCut, Answer, Crash, SignUp,
         AlreadySignedUp, vars
<1>2. Plain /\ Whole
  BY <1>1 DEF StoreInv, Plain
<1>3. CASE Server
  <2>1. ~WriteCut
    BY <1>2 DEF WriteCut, Plain, Has
  <2> QED BY <1>2, <1>3, <2>1, WholeLoadLine, WholeLoadEnds, WholeWrite, WholeAnswer DEF Server
<1>4. CASE Crash
  BY <1>2, <1>4, WholeCrash
<1>5. CASE \E n \in Names : MayAsk(n) /\ (SignUp(n) \/ AlreadySignedUp(n))
  BY <1>2, <1>5, WholeSignUp, WholeAlready
<1>6. CASE UNCHANGED vars
  BY <1>2, <1>6, WholeSame
<1> QED BY <1>3, <1>4, <1>5, <1>6 DEF Next

StoreInvariant == TypeInv /\ StoreInv

LEMMA StoreAlways == Spec => []StoreInvariant
<1>1. Init => StoreInvariant
  BY TypeInit, WholeInit DEF StoreInvariant, StoreInv
<1>2. StoreInvariant /\ [Next]_vars => StoreInvariant'
  BY TypeNext, StoreNext DEF StoreInvariant
<1> QED BY <1>1, <1>2, PTL DEF Spec

\* Who was told a number is in the file under it.
LEMMA InFile ==
    ASSUME StoreInvariant, habits \intersect {"words", "cut", "noopen"} = {}
    PROVE  /\ Tidy /\ Entries
           /\ \A n \in DOMAIN told : \E k \in 1..Lines(file.texts) :
                  told[n] = Number(file.texts, k) /\ n = Name(file.texts, k)
<1>1. Whole /\ ~Has("noopen")
  BY DEF StoreInvariant, StoreInv, Plain, Has
<1> QED BY <1>1 DEF Whole, Promised

\* Two users told to be signed up never have the same number, though numbers are
\* generated anew after each restart from what the file brings back.
THEOREM StoreNumbersApart == Spec => []NumbersApart
<1>1. StoreInvariant => NumbersApart
  <2> SUFFICES ASSUME StoreInvariant, habits \intersect {"words", "cut", "noopen"} = {},
                      NEW n \in DOMAIN told, NEW m \in DOMAIN told, told[n] = told[m]
               PROVE  n = m
    BY DEF NumbersApart
  <2>1. PICK j \in 1..Lines(file.texts) : told[n] = Number(file.texts, j) /\ n = Name(file.texts, j)
    BY InFile
  <2>2. PICK k \in 1..Lines(file.texts) : told[m] = Number(file.texts, k) /\ m = Name(file.texts, k)
    BY InFile
  <2>3. j = k
    BY <2>1, <2>2, InFile, ZenonT(60) DEF Tidy
  <2> QED BY <2>1, <2>2, <2>3
<1> QED BY <1>1, StoreAlways, PTL

\* Who was told to be signed up is found under the number told whenever the
\* server serves, restarts included.
THEOREM StoreToldStays == Spec => []ToldStays
<1>1. StoreInvariant => ToldStays
  <2> SUFFICES ASSUME StoreInvariant, pc = "serve", habits \intersect {"words", "cut", "noopen"} = {},
                      NEW n \in DOMAIN told
               PROVE  FindSignedUpUID(n) = {told[n]}
    BY DEF ToldStays
  <2>1. PICK j \in 1..Lines(file.texts) : told[n] = Number(file.texts, j) /\ n = Name(file.texts, j)
    BY InFile
  <2>2. Entered = Lines(file.texts)
    BY DEF Entered
  <2>3. told[n] \in DOMAIN users /\ users[told[n]] = n
    BY <2>1, <2>2, InFile DEF Entries
  <2>4. ASSUME NEW id \in DOMAIN users, users[id] = n PROVE id = told[n]
    <3>1. n # << >>
      BY <2>1 DEF Name
    <3>2. PICK k \in 1..Lines(file.texts) : id = Number(file.texts, k) /\ n = Name(file.texts, k)
      BY <2>2, <2>4, <3>1, InFile DEF Entries, Has
    <3>3. k = j
      BY <2>1, <3>2, InFile DEF Tidy
    <3> QED BY <2>1, <3>2, <3>3
  <2>5. told[n] \in Nat
    BY <2>3 DEF StoreInvariant, TypeInv, TypeOK
  <2> QED BY <2>3, <2>4, <2>5 DEF FindSignedUpUID
<1> QED BY <1>1, StoreAlways, PTL

\* Loading invents nobody: every user has a name that somebody asked for.
THEOREM StoreNoneInvented == Spec => []NoneInvented
<1>1. StoreInvariant => NoneInvented
  <2> SUFFICES ASSUME StoreInvariant, habits \intersect {"words", "cut", "crash_open"} = {},
                      NEW id \in DOMAIN users
               PROVE  users[id] \in asked
    BY DEF NoneInvented
  <2>1. Whole /\ ~Has("crash_open") /\ TypeInv
    BY DEF StoreInvariant, StoreInv, Plain, Has
  <2>2. 1..Entered \subseteq 1..Lines(file.texts)
    <3>1. CASE pc = "load"
      <4>1. PICK i \in 0..Lines(file.texts) : fin.pos = 2 * i + 1
        BY <2>1, <3>1 DEF Whole, Loading
      <4>2. Entered = i
        BY <3>1, <4>1 DEF Entered
      <4> QED BY <2>1, <4>2, LinesType
    <3>2. CASE pc # "load"
      BY <3>2 DEF Entered
    <3> QED BY <3>1, <3>2
  <2>3. \/ \E k \in 1..Entered : users[id] = Name(file.texts, k)
        \/ pc = "write" /\ users[id] = req.name
        \/ users[id] \in asked
    BY <2>1 DEF Whole, Entries
  <2> QED BY <2>1, <2>2, <2>3 DEF Whole, Tidy, Request, Writing
<1> QED BY <1>1, StoreAlways, PTL
=============================================================================
