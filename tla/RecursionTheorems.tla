------------------------- MODULE RecursionTheorems -------------------------
(***************************************************************************)
(* Induction and recursion.  The library states them with operators as     *)
(* parameters; here they are stated with sets and functions.               *)
(***************************************************************************)
EXTENDS Integers, FiniteSetTheorems, TLAPS

\* Of the naturals in a set that has one, there is a least.
LEMMA LeastNatural ==
    ASSUME NEW S \in SUBSET Nat, S # {}
    PROVE  \E n \in S : \A m \in S : n <= m
<1> DEFINE R == StrictSubsetOrdering(Nat)
           T == {0..n : n \in S}
<1>1. IsWellFoundedOn(R, FiniteSubsetsOf(Nat))
  BY FS_StrictSubsetOrderingWellFounded
<1>2. T \subseteq FiniteSubsetsOf(Nat)
  <2>1. \A n \in Nat : IsFiniteSet(0..n)
    BY FS_Interval
  <2>2. \A n \in Nat : 0..n \in SUBSET Nat
    OBVIOUS
  <2> QED BY <2>1, <2>2 DEF FiniteSubsetsOf
<1>3. T # {}
  OBVIOUS
<1>4. PICK x \in T : \A y \in T : ~(<<y, x>> \in R)
  <2> HIDE DEF R, T
  <2> QED BY <1>1, <1>2, <1>3, WFMin
<1>5. PICK n \in S : x = 0..n
  OBVIOUS
<1>6. ASSUME NEW m \in S, m < n PROVE FALSE
  <2>1. 0..m \in T
    OBVIOUS
  <2>2. 0..m \subseteq 0..n /\ 0..m # 0..n
    BY <1>6
  <2>3. <<0..m, 0..n>> \in (SUBSET Nat) \X (SUBSET Nat)
    OBVIOUS
  <2>4. <<0..m, 0..n>> \in R
    BY <2>2, <2>3 DEF StrictSubsetOrdering
  <2> QED BY <2>1, <2>4, <1>4, <1>5
<1> QED BY <1>6

\* Induction.
LEMMA SetInduction ==
    ASSUME NEW S \in SUBSET Nat, 0 \in S, \A n \in S : n + 1 \in S
    PROVE  S = Nat
<1> SUFFICES ASSUME Nat \ S # {} PROVE FALSE
  OBVIOUS
<1>1. PICK n \in Nat \ S : \A m \in Nat \ S : n <= m
  BY LeastNatural
<1>2. n # 0 /\ n - 1 \in Nat
  OBVIOUS
<1>3. n - 1 \in S
  BY <1>1, <1>2
<1> QED BY <1>1, <1>3

\* Every set of what is in X has one with nothing of the set below it.
Grounded(X, below) == \A S \in SUBSET X : S # {} => \E x \in S : S \intersect below[x] = {}

\* G gives the value at x, in V, from those at what is below x.
Recursive(X, V, below, G) ==
    /\ V # {} /\ below \in [X -> SUBSET X] /\ Grounded(X, below)
    /\ \A x \in X, g \in [X -> V] : G[x][g] \in V
    /\ \A x \in X, g, h \in [X -> V] : (\A y \in below[x] : g[y] = h[y]) => G[x][g] = G[x][h]

LEMMA Recursion ==
    ASSUME NEW X, NEW V, NEW below, NEW G, Recursive(X, V, below, G)
    PROVE  \E f \in [X -> V] : \A x \in X : f[x] = G[x][f]
<1>1. /\ V # {} /\ below \in [X -> SUBSET X] /\ Grounded(X, below)
      /\ \A x \in X, g \in [X -> V] : G[x][g] \in V
      /\ \A x \in X, g, h \in [X -> V] : (\A y \in below[x] : g[y] = h[y]) => G[x][g] = G[x][h]
  BY DEF Recursive
<1> USE <1>1
<1> DEFINE Reaches(Q, x, g) == \A y \in below[x] : <<y, g[y]>> \in Q
           Closed(Q) == \A x \in X, g \in [X -> V] : Reaches(Q, x, g) => <<x, G[x][g]>> \in Q
           R == {p \in X \X V : \A Q \in SUBSET (X \X V) : Closed(Q) => p \in Q}
           One(x) == \E v \in V : <<x, v>> \in R /\ \A w \in V : <<x, w>> \in R => w = v
<1>2. R \in SUBSET (X \X V)
  OBVIOUS
<1>3. Closed(R)
  <2> SUFFICES ASSUME NEW x \in X, NEW g \in [X -> V], Reaches(R, x, g)
               PROVE  <<x, G[x][g]>> \in R
    OBVIOUS
  <2>1. ASSUME NEW Q \in SUBSET (X \X V), Closed(Q) PROVE <<x, G[x][g]>> \in Q
    <3>1. Reaches(Q, x, g)
      BY <2>1
    <3> QED BY <2>1, <3>1
  <2> HIDE DEF Closed
  <2>2. <<x, G[x][g]>> \in X \X V
    OBVIOUS
  <2> QED BY <2>1, <2>2
<1>4. \A Q \in SUBSET (X \X V) : Closed(Q) => R \subseteq Q
  <2> HIDE DEF Closed
  <2> QED OBVIOUS
<1> HIDE DEF R
<1>5. \A x \in X : One(x)
  <2> DEFINE D == {x \in X : ~One(x)}
  <2> SUFFICES ASSUME D # {} PROVE FALSE
    OBVIOUS
  <2>1. PICK x \in D : D \intersect below[x] = {}
    <3> HIDE DEF One
    <3> QED BY DEF Grounded
  <2>2. x \in X /\ ~One(x) /\ \A y \in below[x] : y \in X /\ One(y)
    <3> HIDE DEF One
    <3> QED BY <2>1
  <2> DEFINE g == [y \in X |-> IF y \in below[x] THEN CHOOSE v \in V : <<y, v>> \in R
                               ELSE CHOOSE v \in V : TRUE]
             v0 == G[x][g]
  <2>3. \A y \in below[x] : /\ (CHOOSE v \in V : <<y, v>> \in R) \in V
                            /\ <<y, CHOOSE v \in V : <<y, v>> \in R>> \in R
    BY <2>2
  <2>4. g \in [X -> V]
    BY <2>3
  <2>5. Reaches(R, x, g)
    BY <2>2, <2>3
  <2> HIDE DEF g
  <2>6. v0 \in V /\ <<x, v0>> \in R
    BY <1>3, <2>2, <2>4, <2>5
  <2>7. PICK w \in V : <<x, w>> \in R /\ w # v0
    BY <2>2, <2>6
  <2> DEFINE Q == R \ {<<x, w>>}
  <2>8. Closed(Q)
    <3> SUFFICES ASSUME NEW z \in X, NEW h \in [X -> V], Reaches(Q, z, h)
                 PROVE  <<z, G[z][h]>> \in Q
      OBVIOUS
    <3>1. <<z, G[z][h]>> \in R
      <4>1. Reaches(R, z, h)
        OBVIOUS
      <4> QED BY <1>3, <4>1
    <3>2. CASE z = x
      <4>1. \A y \in below[x] : h[y] = g[y]
        <5> TAKE y \in below[x]
        <5>1. <<y, h[y]>> \in R /\ <<y, g[y]>> \in R /\ One(y) /\ h[y] \in V /\ g[y] \in V
          BY <2>2, <2>4, <2>5, <3>2
        <5> QED BY <5>1
      <4>2. G[z][h] = v0
        <5>1. G[x][h] = G[x][g]
          BY ONLY <1>1, <2>2, <2>4, <4>1
        <5> QED BY <3>2, <5>1
      <4> QED BY <2>7, <3>1, <3>2, <4>2
    <3> QED BY <3>1, <3>2
  <2> QED BY <1>2, <1>4, <2>7, <2>8
<1> DEFINE f == [x \in X |-> CHOOSE v \in V : <<x, v>> \in R]
<1>6. f \in [X -> V] /\ \A x \in X : <<x, f[x]>> \in R
  BY <1>5
<1> HIDE DEF f
<1>7. \A x \in X : f[x] = G[x][f]
  <2> TAKE x \in X
  <2>1. Reaches(R, x, f)
    BY <1>6
  <2>2. <<x, G[x][f]>> \in R
    BY <1>3, <1>6, <2>1
  <2> QED BY <1>5, <1>6, <2>2
<1> QED BY <1>6, <1>7

\* Induction up to a natural, and functions defined from one value to the next.
LEMMA UpTo ==
    ASSUME NEW N \in Nat, NEW S, 0 \in S, \A k \in 1..N : k - 1 \in S => k \in S
    PROVE  \A k \in 0..N : k \in S
<1> DEFINE D == {k \in 0..N : k \notin S}
<1>1. ASSUME D # {} PROVE FALSE
  <2>1. D \in SUBSET Nat
    OBVIOUS
  <2> HIDE DEF D
  <2>2. PICK n \in D : \A m \in D : n <= m
    BY <1>1, <2>1, LeastNatural
  <2>3. n \in 0..N /\ n \notin S
    BY <2>2 DEF D
  <2>4. n \in 1..N /\ n - 1 \in 0..N /\ ~(n <= n - 1)
    BY <2>3
  <2>5. n - 1 \in S
    BY <2>2, <2>4 DEF D
  <2> QED BY <2>3, <2>4, <2>5
<1> QED BY <1>1

\* The value at k, given the first, a, and how G makes the next.
Then(f, a, G, k) == IF k = 0 THEN a ELSE G[k][f[k - 1]]

Stepping(N, V, a, G) == N \in Nat /\ a \in V /\ \A k \in 1..N, v \in V : G[k][v] \in V

LEMMA StepByStep ==
    ASSUME NEW N, NEW V, NEW a, NEW G, Stepping(N, V, a, G)
    PROVE  \E f \in [0..N -> V] : \A k \in 0..N : f[k] = Then(f, a, G, k)
<1> DEFINE X == 0..N
           below == [k \in X |-> IF k = 0 THEN {} ELSE {k - 1}]
           H == [k \in X |-> [f \in [X -> V] |-> Then(f, a, G, k)]]
<1>1. N \in Nat /\ a \in V /\ \A k \in 1..N, v \in V : G[k][v] \in V
  BY DEF Stepping
<1> USE <1>1
<1>2. Grounded(X, below)
  <2> SUFFICES ASSUME NEW S \in SUBSET X, S # {}
               PROVE  \E x \in S : S \intersect below[x] = {}
    BY DEF Grounded
  <2>1. S \in SUBSET Nat
    OBVIOUS
  <2>2. PICK n \in S : \A m \in S : n <= m
    BY <2>1, LeastNatural
  <2>3. n \in X
    OBVIOUS
  <2>4. \A m \in below[n] : m < n
    BY <2>3
  <2> HIDE DEF below
  <2>5. S \intersect below[n] = {}
    <3> SUFFICES ASSUME NEW m \in S, m \in below[n] PROVE FALSE
      OBVIOUS
    <3>1. n \in Nat /\ m \in Nat /\ n <= m /\ m < n
      BY <2>1, <2>2, <2>4
    <3> QED BY <3>1
  <2> QED BY <2>5
<1>3. below \in [X -> SUBSET X]
  OBVIOUS
<1>4. \A k \in X, f \in [X -> V] : H[k][f] \in V
  <2> TAKE k \in X, f \in [X -> V]
  <2>1. H[k][f] = Then(f, a, G, k)
    OBVIOUS
  <2>2. k # 0 => k \in 1..N /\ k - 1 \in X
    OBVIOUS
  <2> QED BY <2>1, <2>2 DEF Then
<1>5. \A k \in X, f, h \in [X -> V] : (\A y \in below[k] : f[y] = h[y]) => H[k][f] = H[k][h]
  BY DEF Then
<1>6. \E f \in [X -> V] : \A k \in X : f[k] = H[k][f]
  <2> HIDE DEF X, below, H
  <2>1. V # {}
    OBVIOUS
  <2>2. Recursive(X, V, below, H)
    BY ONLY <2>1, <1>2, <1>3, <1>4, <1>5 DEF Recursive
  <2> QED BY ONLY <2>2, Recursion
<1> QED BY <1>6
=============================================================================
