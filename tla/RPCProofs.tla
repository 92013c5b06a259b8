------------------------------ MODULE RPCProofs ------------------------------
(***************************************************************************)
(* Proofs about LightProto and RPCHandler.  What is sendable comes back    *)
(* from its bytes, for messages of any length, cut anywhere, and for every *)
(* Radix; find_method finds a part of an object that has the method, for   *)
(* every hierarchy of types; and RPCHandler implements EventBus.           *)
(***************************************************************************)
EXTENDS RPCHandler, RecursionTheorems, SequenceTheorems

----------------------------------------------------------------------------
(* Arithmetic.                                                             *)

LEMMA MulMono ==
    ASSUME NEW d \in Nat, NEW p \in Int, NEW q \in Int, p <= q
    PROVE  d * p <= d * q
OBVIOUS

LEMMA MulType ==
    ASSUME NEW a \in Int, NEW b \in Int
    PROVE  a * b \in Int
OBVIOUS

LEMMA DivMod ==
    ASSUME NEW n \in Int, NEW d \in Nat, d > 0
    PROVE  /\ n \div d \in Int /\ n % d \in Int /\ 0 <= n % d /\ n % d < d
           /\ n = d * (n \div d) + (n % d)
OBVIOUS

\* Quotient and remainder are the only ones.
LEMMA DivUnique ==
    ASSUME NEW d \in Nat, NEW q \in Int, NEW r \in Int, NEW p \in Int, NEW s \in Int,
           0 <= r, r < d, 0 <= s, s < d, d * q + r = d * p + s
    PROVE  q = p /\ r = s
<1>1. CASE q = p
  BY <1>1
<1>2. CASE q <= p - 1
  <2>1. d * q <= d * (p - 1)
    BY <1>2, MulMono
  <2>2. d * (p - 1) = d * p - d
    OBVIOUS
  <2> QED BY <2>1, <2>2
<1>3. CASE p <= q - 1
  <2>1. d * p <= d * (q - 1)
    BY <1>3, MulMono
  <2>2. d * (q - 1) = d * q - d
    OBVIOUS
  <2> QED BY <2>1, <2>2
<1> QED BY <1>1, <1>2, <1>3

LEMMA DivIs ==
    ASSUME NEW n \in Int, NEW d \in Nat, NEW q \in Int, NEW r \in Int,
           0 <= r, r < d, n = d * q + r
    PROVE  n \div d = q /\ n % d = r
<1>1. d > 0
  OBVIOUS
<1>2. /\ n \div d \in Int /\ n % d \in Int /\ 0 <= n % d /\ n % d < d
      /\ n = d * (n \div d) + (n % d)
  BY <1>1, DivMod
<1> DEFINE x == n \div d
           y == n % d
<1> HIDE DEF x, y
<1>3. x \in Int /\ y \in Int /\ 0 <= y /\ y < d /\ d * x + y = d * q + r
  BY <1>2 DEF x, y
<1>4. x = q /\ y = r
  BY ONLY <1>3, DivUnique, d \in Nat, q \in Int, r \in Int, 0 <= r, r < d
<1> QED BY <1>4 DEF x, y

\* The remainder by p * d from those by d and then by p.
LEMMA ModMul ==
    ASSUME NEW n \in Int, NEW d \in Nat, NEW p \in Nat, d > 0, p > 0
    PROVE  /\ (n \div d) \div p = n \div (d * p)
           /\ n % (d * p) = d * ((n \div d) % p) + (n % d)
<1> DEFINE q == n \div d
           c == n % d
           a == q \div p
           b == q % p
<1>1. q \in Int /\ c \in Int /\ 0 <= c /\ c < d /\ n = d * q + c
  BY DivMod
<1> HIDE DEF q, c
<1>2. a \in Int /\ b \in Int /\ 0 <= b /\ b < p /\ q = p * a + b
  BY <1>1, DivMod
<1> HIDE DEF a, b
<1>3. n = (d * p) * a + (d * b + c)
  <2>1. d * (p * a + b) = (d * p) * a + d * b
    BY <1>2
  <2> QED BY <1>1, <1>2, <2>1
<1>4. 0 <= d * b + c /\ d * b + c < d * p
  <2>1. d * 0 <= d * b
    BY <1>2, MulMono
  <2>2. d * b <= d * (p - 1)
    BY <1>2, MulMono
  <2>3. d * (p - 1) = d * p - d
    OBVIOUS
  <2> QED BY <1>1, <1>2, <2>1, <2>2, <2>3
<1>5. d * p \in Nat /\ d * b + c \in Int
  BY <1>1, <1>2
<1>6. n \div (d * p) = a /\ n % (d * p) = d * b + c
  BY ONLY <1>1, <1>2, <1>3, <1>4, <1>5, DivIs, n \in Int
<1> QED BY <1>6 DEF a, b, c, q
----------------------------------------------------------------------------
(* Numbers.                                                                *)

LEMMA PowerIs ==
    /\ Power[0] = 1 /\ \A k \in 1..8 : Power[k] = Radix * Power[k - 1]
    /\ \A k \in 0..8 : Power[k] \in Nat /\ Power[k] > 0
<1> DEFINE G == [k \in 1..8 |-> [v \in Int |-> Radix * v]]
<1>1. Radix \in Nat /\ Radix >= 8
  BY RadixAssumption
<1>2. \E f : f = [k \in 0..8 |-> IF k = 0 THEN 1 ELSE Radix * f[k - 1]]
  <2>1. \A k \in 1..8, v \in Int : G[k][v] = Radix * v /\ G[k][v] \in Int
    BY <1>1
  <2> HIDE DEF G
  <2>2. PICK f \in [0..8 -> Int] : \A k \in 0..8 : f[k] = Then(f, 1, G, k)
    <3> DEFINE N == 8
    <3>1. Stepping(N, Int, 1, G)
      BY <2>1 DEF Stepping
    <3> HIDE DEF N
    <3>2. \E f \in [0..N -> Int] : \A k \in 0..N : f[k] = Then(f, 1, G, k)
      BY ONLY <3>1, StepByStep
    <3> QED BY <3>2 DEF N
  <2>3. \A k \in 0..8 : f[k] = IF k = 0 THEN 1 ELSE Radix * f[k - 1]
    <3> TAKE k \in 0..8
    <3>1. k # 0 => k \in 1..8 /\ k - 1 \in 0..8
      OBVIOUS
    <3> QED BY <2>1, <2>2, <3>1 DEF Then
  <2> QED BY <2>3
<1>3. Power = [k \in 0..8 |-> IF k = 0 THEN 1 ELSE Radix * Power[k - 1]]
  BY <1>2 DEF Power
<1>4. Power[0] = 1 /\ \A k \in 1..8 : Power[k] = Radix * Power[k - 1]
  BY <1>3
<1> DEFINE S == {k \in 0..8 : Power[k] \in Nat /\ Power[k] > 0}
<1>5. \A k \in 1..8 : k - 1 \in S => k \in S
  <2> SUFFICES ASSUME NEW k \in 1..8, Power[k - 1] \in Nat, Power[k - 1] > 0
               PROVE  Power[k] \in Nat /\ Power[k] > 0
    OBVIOUS
  <2> DEFINE p == Power[k - 1]
  <2>1. Power[k] = Radix * p /\ p \in Nat /\ p > 0
    BY <1>4
  <2> HIDE DEF p
  <2> QED BY <1>1, <2>1
<1>6. 0 \in S
  BY <1>4
<1> HIDE DEF S
<1>7. \A k \in 0..8 : k \in S
  BY <1>5, <1>6, UpTo
<1> QED BY <1>4, <1>7 DEF S

\* The first k bytes as a number, given those before.
Horner(f, data, k) == IF k = 0 THEN 0 ELSE f[k - 1] * Radix + data[k]

LEMMA SumOfBytes ==
    ASSUME NEW data, Len(data) \in Nat, \A k \in 1..Len(data) : data[k] \in Int
    PROVE  \E f \in [0..Len(data) -> Int] :
              Sum(data) = f[Len(data)] /\ \A k \in 0..Len(data) : f[k] = Horner(f, data, k)
<1> DEFINE N == Len(data)
           f0 == CHOOSE f : f = [k \in 0..N |-> Horner(f, data, k)]
           G == [k \in 1..N |-> [v \in Int |-> v * Radix + data[k]]]
<1>1. Sum(data) = f0[N]
  BY DEF Sum, Horner
<1>2. \A k \in 1..N, v \in Int : v * Radix + data[k] \in Int
  BY RadixAssumption
<1>3. \E f : f = [k \in 0..N |-> Horner(f, data, k)]
  <2>1. \A k \in 1..N, v \in Int : G[k][v] = v * Radix + data[k] /\ G[k][v] \in Int
    BY <1>2
  <2> HIDE DEF G
  <2>2. PICK f \in [0..N -> Int] : \A k \in 0..N : f[k] = Then(f, 0, G, k)
    <3>1. Stepping(N, Int, 0, G)
      BY <2>1 DEF Stepping
    <3> HIDE DEF N
    <3> QED BY ONLY <3>1, StepByStep
  <2>3. \A k \in 0..N : f[k] = Horner(f, data, k)
    <3> TAKE k \in 0..N
    <3>1. k # 0 => k \in 1..N /\ k - 1 \in 0..N
      OBVIOUS
    <3> HIDE DEF N
    <3> QED BY <2>1, <2>2, <3>1 DEF Then, Horner
  <2> QED BY <2>3
<1>4. f0 = [k \in 0..N |-> Horner(f0, data, k)]
  BY <1>3
<1> HIDE DEF f0
<1> DEFINE S == {k \in 0..N : f0[k] \in Int}
<1>5. N \in Nat
  OBVIOUS
<1>6. \A k \in 1..N : k \in 0..N /\ k # 0
  OBVIOUS
<1>7. ASSUME NEW k \in 1..N, k - 1 \in S PROVE k \in S
  <2>1. f0[k] = f0[k - 1] * Radix + data[k] /\ k \in 0..N
    BY <1>4, <1>6 DEF Horner
  <2>2. f0[k - 1] \in Int
    BY <1>7
  <2> QED BY <1>2, <2>1, <2>2
<1>8. 0 \in S
  BY <1>4 DEF Horner
<1> HIDE DEF S, N
<1>9. \A k \in 0..N : k \in S
  BY <1>7, <1>8, <1>5, UpTo
<1>10. f0 \in [0..N -> Int] /\ \A k \in 0..N : f0[k] = Horner(f0, data, k)
  BY <1>4, <1>9 DEF S
<1> QED BY <1>1, <1>10 DEF N

LEMMA DigitsAre ==
    ASSUME NEW n \in Int, NEW w \in 0..8
    PROVE  /\ Digits(n, w) \in Seq(Byte) /\ Len(Digits(n, w)) = w
           /\ \A k \in 1..w : Digits(n, w)[k] = (n \div Power[w - k]) % Radix
<1>1. \A k \in 1..w : (n \div Power[w - k]) % Radix \in Byte
  <2> TAKE k \in 1..w
  <2>1. w - k \in 0..8
    OBVIOUS
  <2>2. Power[w - k] \in Nat /\ Power[w - k] > 0
    BY <2>1, PowerIs
  <2>3. n \div Power[w - k] \in Int
    BY <2>2, DivMod
  <2> DEFINE q == n \div Power[w - k]
  <2> HIDE DEF q
  <2>4. Radix \in Nat /\ Radix > 0
    BY RadixAssumption
  <2>5. q % Radix \in Int /\ 0 <= q % Radix /\ q % Radix < Radix
    BY <2>3, <2>4, DivMod DEF q
  <2> QED BY <2>4, <2>5 DEF Byte, q
<1> QED BY <1>1 DEF Digits

\* The digits of n are those of a number that differs by a multiple of Power[w].
LEMMA SumOfDigits ==
    ASSUME NEW n \in Int, NEW w \in 0..8
    PROVE  Sum(Digits(n, w)) = n % Power[w]
<1> DEFINE d == Digits(n, w)
<1>1. Len(d) = w /\ w \in Nat /\ (\A k \in 1..w : d[k] = (n \div Power[w - k]) % Radix)
      /\ \A k \in 1..w : d[k] \in Int
  <2>1. /\ d \in Seq(Byte) /\ Len(d) = w
        /\ \A k \in 1..w : d[k] = (n \div Power[w - k]) % Radix
    BY DigitsAre
  <2>2. \A b \in Byte : b \in Int
    BY RadixAssumption DEF Byte
  <2> HIDE DEF d
  <2>3. \A k \in 1..w : d[k] \in Byte
    BY <2>1
  <2> QED BY <2>1, <2>2, <2>3
<1> HIDE DEF d
<1>2. PICK f \in [0..w -> Int] : Sum(d) = f[w] /\ \A k \in 0..w : f[k] = Horner(f, d, k)
  <2>1. Len(d) \in Nat /\ \A k \in 1..Len(d) : d[k] \in Int
    BY <1>1
  <2>2. \E f \in [0..Len(d) -> Int] :
           Sum(d) = f[Len(d)] /\ \A k \in 0..Len(d) : f[k] = Horner(f, d, k)
    BY ONLY <2>1, SumOfBytes
  <2> QED BY <1>1, <2>2
<1>3. Radix \in Nat /\ Radix > 0
  BY RadixAssumption
<1>4. \A k \in 0..w : k \in 0..8 /\ w - k \in 0..8 /\ Power[k] \in Nat /\ Power[k] > 0
                      /\ Power[w - k] \in Nat /\ Power[w - k] > 0
  <2> TAKE k \in 0..w
  <2>1. k \in 0..8 /\ w - k \in 0..8
    OBVIOUS
  <2> QED BY <2>1, PowerIs
<1> DEFINE S == {k \in 0..w : f[k] = (n \div Power[w - k]) % Power[k]}
<1>5. 0 \in S
  <2> DEFINE q == n \div Power[w - 0]
  <2>1. q \in Int
    BY <1>4, DivMod
  <2> HIDE DEF q
  <2>2. q % 1 = 0
    BY <2>1
  <2>3. 0 \in 0..w /\ f[0] = 0
    BY <1>1, <1>2 DEF Horner
  <2>4. q % Power[0] = 0
    BY <2>2, PowerIs
  <2> QED BY <2>3, <2>4 DEF q
<1>6. ASSUME NEW k \in 1..w, f[k - 1] = (n \div Power[w - (k - 1)]) % Power[k - 1]
      PROVE  f[k] = (n \div Power[w - k]) % Power[k]
  <2> DEFINE a == Power[w - k]
             b == Power[k - 1]
             q == n \div a
  <2>1. a \in Nat /\ a > 0 /\ b \in Nat /\ b > 0
    BY <1>4
  <2>2. Power[w - (k - 1)] = a * Radix /\ Power[k] = Radix * b
    <3>1. w - (k - 1) \in 1..8 /\ k \in 1..8 /\ (w - (k - 1)) - 1 = w - k
      OBVIOUS
    <3>2. Power[w - (k - 1)] = Radix * a /\ Power[k] = Radix * b
      BY <3>1, PowerIs
    <3> HIDE DEF a, b
    <3> QED BY <1>3, <2>1, <3>2
  <2> HIDE DEF a, b
  <2>3. n \div (a * Radix) = q \div Radix /\ q \in Int
    BY <1>3, <2>1, ModMul, DivMod
  <2> HIDE DEF q
  <2>4. q % (Radix * b) = Radix * ((q \div Radix) % b) + (q % Radix)
    BY <1>3, <2>1, <2>3, ModMul
  <2>5. f[k - 1] = (q \div Radix) % b
    BY <1>6, <2>2, <2>3 DEF b
  <2>6. f[k] = f[k - 1] * Radix + d[k] /\ d[k] = q % Radix
    BY <1>1, <1>2, SMTT(60) DEF Horner, q, a
  <2>7. f[k - 1] \in Int
    BY <1>2
  <2>8. f[k] = q % (Radix * b)
    BY ONLY <1>3, <2>4, <2>5, <2>6, <2>7
  <2> QED BY <2>2, <2>8 DEF q, a
<1>7. \A k \in 1..w : k - 1 \in S => k \in S
  BY <1>6
<1> HIDE DEF S
<1>8. \A k \in 0..w : k \in S
  BY <1>1, <1>5, <1>7, UpTo
<1>9. f[w] = (n \div Power[w - w]) % Power[w]
  BY <1>1, <1>8 DEF S
<1>10. n \div Power[w - w] = n
  BY PowerIs
<1> QED BY <1>2, <1>9, <1>10 DEF d

LEMMA WrapIs ==
    ASSUME NEW n \in Int, NEW w \in 0..8
    PROVE  /\ Wrap(n, w) \in Int /\ Fits(Wrap(n, w), w)
           /\ Fits(n, w) => Wrap(n % Power[w], w) = n
<1> DEFINE P == Power[w]
<1>1. P \in Nat /\ P > 0
  BY PowerIs
<1>2. n % P \in Int /\ 0 <= n % P /\ n % P < P
  BY <1>1, DivMod
<1> HIDE DEF P
<1>3. Wrap(n, w) \in Int /\ Fits(Wrap(n, w), w)
  BY <1>1, <1>2 DEF Wrap, Fits, P
<1>4. ASSUME Fits(n, w) PROVE Wrap(n % P, w) = n
  <2>1. -P <= 2 * n /\ 2 * n < P
    BY <1>4 DEF Fits, P
  <2>2. CASE n >= 0
    <3>1. n % P = n
      BY <1>1, <2>1, <2>2, DivIs, n = P * 0 + n
    <3> QED BY <1>1, <2>1, <2>2, <3>1 DEF Wrap, P
  <2>3. CASE n < 0
    <3>1. n % P = n + P
      <4>1. n + P \in Int /\ 0 <= n + P /\ n + P < P /\ n = P * (-1) + (n + P)
        BY <1>1, <2>1, <2>3
      <4> QED BY <1>1, <4>1, DivIs
    <3>2. (n + P) % P = n + P
      <4>1. n + P \in Int /\ 0 <= n + P /\ n + P < P /\ n + P = P * 0 + (n + P)
        BY <1>1, <2>1, <2>3
      <4> QED BY <1>1, <4>1, DivIs
    <3> QED BY <1>1, <2>1, <2>3, <3>1, <3>2 DEF Wrap, P
  <2> QED BY <2>2, <2>3
<1> QED BY <1>3, <1>4 DEF P

\* An int32 comes back.
LEMMA Int32Is ==
    ASSUME NEW n \in Int, Fits(n, 4)
    PROVE  ByteToInt32(Int32ToByte(n)) = n
<1>1. Len(Digits(n, 4)) = 4 /\ Sum(Digits(n, 4)) = n % Power[4]
  BY DigitsAre, SumOfDigits
<1>2. Wrap(n % Power[4], 4) = n
  BY WrapIs
<1> QED BY <1>1, <1>2 DEF ByteToInt32, Int32ToByte

\* What a number of w bytes wraps to has the same remainder.
LEMMA WrapMod ==
    ASSUME NEW n \in Int, NEW w \in 0..8
    PROVE  Wrap(n, w) % Power[w] = n % Power[w]
<1> DEFINE P == Power[w]
           m == n % P
<1>1. P \in Nat /\ P > 0
  BY PowerIs
<1>2. m \in Int /\ 0 <= m /\ m < P
  BY <1>1, DivMod
<1>3. Wrap(n, w) = m \/ Wrap(n, w) = m - P
  BY DEF Wrap
<1> HIDE DEF P, m
<1>4. m % P = m
  <2>1. m = P * 0 + m
    BY <1>1, <1>2
  <2> QED BY <1>1, <1>2, <2>1, DivIs
<1>5. (m - P) % P = m
  <2>1. m - P \in Int /\ m - P = P * (-1) + m
    BY <1>1, <1>2
  <2> QED BY <1>1, <1>2, <2>1, DivIs
<1> QED BY <1>3, <1>4, <1>5 DEF m, P

\* The partial sums of a number's bytes, and what they are.
Partial(f, b, w) == f \in [0..w -> Int] /\ Sum(b) = f[w] /\ \A k \in 0..w : f[k] = Horner(f, b, k)

LEMMA Partials ==
    ASSUME NEW b, NEW w \in Nat, Len(b) = w, \A k \in 1..w : b[k] \in Int
    PROVE  \E f : Partial(f, b, w)
<1>1. Len(b) \in Nat /\ \A k \in 1..Len(b) : b[k] \in Int
  OBVIOUS
<1>2. \E f \in [0..Len(b) -> Int] : Sum(b) = f[Len(b)] /\ \A k \in 0..Len(b) : f[k] = Horner(f, b, k)
  BY ONLY <1>1, SumOfBytes
<1> QED BY <1>2 DEF Partial

LEMMA PartialIs ==
    ASSUME NEW f, NEW b, NEW w \in Nat, Partial(f, b, w)
    PROVE  /\ f[0] = 0 /\ f[w] = Sum(b) /\ \A k \in 0..w : f[k] \in Int
           /\ \A k \in 1..w : k - 1 \in 0..w /\ f[k] = Radix * f[k - 1] + b[k]
<1>1. f[0] = 0 /\ f[w] = Sum(b) /\ \A k \in 0..w : f[k] \in Int
  BY DEF Partial, Horner
<1>2. ASSUME NEW k \in 1..w PROVE k - 1 \in 0..w /\ f[k] = Radix * f[k - 1] + b[k]
  <2>1. k \in 0..w /\ k # 0 /\ k - 1 \in 0..w
    OBVIOUS
  <2>2. f[k] = f[k - 1] * Radix + b[k]
    BY <2>1 DEF Partial, Horner
  <2>3. f[k - 1] * Radix = Radix * f[k - 1]
    BY <1>1, <2>1, RadixAssumption
  <2> QED BY <2>1, <2>2, <2>3
<1> QED BY <1>1, <1>2

LEMMA SumBounds ==
    ASSUME NEW b, NEW w \in 0..8, Len(b) = w, \A k \in 1..w : b[k] \in Byte
    PROVE  Sum(b) \in Int /\ 0 <= Sum(b) /\ Sum(b) < Power[w]
<1>1. Radix \in Nat /\ Radix > 0 /\ \A x \in Byte : x \in Int /\ 0 <= x /\ x <= Radix - 1
  BY RadixAssumption DEF Byte
<1>2. PICK f : Partial(f, b, w)
  BY <1>1, Partials
<1>3. /\ f[0] = 0 /\ f[w] = Sum(b) /\ \A k \in 0..w : f[k] \in Int
      /\ \A k \in 1..w : k - 1 \in 0..w /\ f[k] = Radix * f[k - 1] + b[k]
  BY <1>2, PartialIs
<1> DEFINE S == {k \in 0..w : 0 <= f[k] /\ f[k] < Power[k]}
<1>4. 0 \in S
  BY <1>3, PowerIs, SMTT(60)
<1>5. ASSUME NEW k \in 1..w, 0 <= f[k - 1], f[k - 1] < Power[k - 1]
      PROVE  0 <= f[k] /\ f[k] < Power[k]
  <2> DEFINE x == f[k - 1]
             p == Power[k - 1]
             y == b[k]
  <2>1. k \in 1..8 /\ k - 1 \in 0..8 /\ k - 1 \in 0..w
    OBVIOUS
  <2>2. x \in Int /\ p \in Nat /\ y \in Int /\ 0 <= y /\ y <= Radix - 1
    BY <1>1, <1>3, <2>1, PowerIs
  <2>3. x \in Int /\ 0 <= x /\ x <= p - 1 /\ p \in Nat /\ y \in Int /\ 0 <= y /\ y <= Radix - 1
    BY <1>5, <2>2
  <2>4. f[k] = Radix * x + y /\ Power[k] = Radix * p
    BY <1>3, <2>1, PowerIs
  <2> HIDE DEF x, p, y
  <2>5. Radix * 0 <= Radix * x /\ Radix * x <= Radix * (p - 1)
    BY <1>1, <2>3, MulMono
  <2>6. Radix * (p - 1) = Radix * p - Radix /\ Radix * p \in Int /\ Radix * x \in Int /\ Radix * 0 = 0
    BY <1>1, <2>3
  <2> DEFINE Rx == Radix * x
             Rp == Radix * p
             Rq == Radix * (p - 1)
  <2>7. /\ Rq = Rp - Radix /\ Rp \in Int /\ Rx \in Int /\ Radix \in Int
         /\ f[k] = Rx + y /\ Power[k] = Rp /\ 0 <= Rx /\ Rx <= Rq /\ y \in Int /\ 0 <= y /\ y <= Radix - 1
    BY <1>1, <2>3, <2>4, <2>5, <2>6
  <2> HIDE DEF Rx, Rp, Rq
  <2> QED BY ONLY <2>7
<1>6. \A k \in 1..w : k - 1 \in S => k \in S
  BY <1>5
<1> HIDE DEF S
<1>7. w \in Nat
  OBVIOUS
<1>8. \A k \in 0..w : k \in S
  BY ONLY <1>4, <1>6, <1>7, UpTo
<1> QED BY <1>3, <1>8 DEF S

\* Numbers of as many bytes that are equal have the same bytes.
LEMMA SumInjective ==
    ASSUME NEW b, NEW c, NEW w \in 0..8, Len(b) = w, Len(c) = w,
           \A k \in 1..w : b[k] \in Byte /\ c[k] \in Byte, Sum(b) = Sum(c)
    PROVE  \A k \in 1..w : b[k] = c[k]
<1>1. w \in Nat /\ Radix \in Nat /\ Radix > 0 /\ \A x \in Byte : x \in Int /\ 0 <= x /\ x < Radix
  BY RadixAssumption DEF Byte
<1>2. PICK f : Partial(f, b, w)
  BY <1>1, Partials
<1>3. PICK g : Partial(g, c, w)
  BY <1>1, Partials
<1>4. /\ f[w] = Sum(b) /\ \A k \in 0..w : f[k] \in Int
      /\ \A k \in 1..w : k - 1 \in 0..w /\ f[k] = Radix * f[k - 1] + b[k]
  BY ONLY <1>1, <1>2, PartialIs
<1>5. /\ g[w] = Sum(c) /\ \A k \in 0..w : g[k] \in Int
      /\ \A k \in 1..w : k - 1 \in 0..w /\ g[k] = Radix * g[k - 1] + c[k]
  BY ONLY <1>1, <1>3, PartialIs
<1>6. ASSUME NEW k \in 1..w, f[k] = g[k] PROVE f[k - 1] = g[k - 1] /\ b[k] = c[k]
  <2> DEFINE x == f[k - 1]
             y == g[k - 1]
             r == b[k]
             t == c[k]
  <2>1. x \in Int /\ y \in Int /\ r \in Int /\ t \in Int /\ 0 <= r /\ r < Radix /\ 0 <= t /\ t < Radix
    BY <1>1, <1>4, <1>5
  <2>2. Radix * x + r = Radix * y + t
    BY <1>4, <1>5, <1>6
  <2> HIDE DEF x, y, r, t
  <2>3. x = y /\ r = t
    BY <1>1, <2>1, <2>2, DivUnique
  <2> QED BY <2>3 DEF x, y, r, t
<1> DEFINE S == {k \in 0..w : f[w - k] = g[w - k]}
<1>7. 0 \in S
  BY <1>4, <1>5
<1>8. ASSUME NEW k \in 1..w, f[w - (k - 1)] = g[w - (k - 1)] PROVE f[w - k] = g[w - k]
  <2> DEFINE j == w - (k - 1)
  <2>1. j \in 1..w /\ j - 1 = w - k
    OBVIOUS
  <2> HIDE DEF j
  <2>2. f[j] = g[j]
    BY <1>8 DEF j
  <2> QED BY <1>6, <2>1, <2>2
<1>9. \A k \in 1..w : k - 1 \in S => k \in S
  BY <1>8
<1> HIDE DEF S
<1>10. \A k \in 0..w : k \in S
  BY ONLY <1>1, <1>7, <1>9, UpTo
<1>11. \A k \in 1..w : f[k] = g[k]
  <2> TAKE k \in 1..w
  <2>1. w - k \in 0..w /\ w - (w - k) = k
    OBVIOUS
  <2>2. f[w - (w - k)] = g[w - (w - k)]
    BY <1>10, <2>1 DEF S
  <2> QED BY <2>1, <2>2
<1> QED BY <1>6, <1>11

\* A number's bytes are those it was made of.
LEMMA DigitsBack ==
    ASSUME NEW b, NEW w \in 0..8, Len(b) = w, \A k \in 1..w : b[k] \in Byte
    PROVE  \A k \in 1..w : Digits(Wrap(Sum(b), w), w)[k] = b[k]
<1> DEFINE n == Wrap(Sum(b), w)
           c == Digits(n, w)
           P == Power[w]
<1>1. Sum(b) \in Int /\ 0 <= Sum(b) /\ Sum(b) < P /\ P \in Nat
  BY SumBounds, PowerIs
<1>2. n \in Int /\ n % P = Sum(b) % P
  BY <1>1, WrapIs, WrapMod
<1>3. Sum(b) % P = Sum(b)
  <2>1. Sum(b) = P * 0 + Sum(b)
    BY <1>1
  <2> HIDE DEF P
  <2> QED BY <1>1, <2>1, DivIs
<1> HIDE DEF n
<1>4. Sum(c) = Sum(b)
  BY <1>2, <1>3, SumOfDigits
<1>5. Len(c) = w /\ \A k \in 1..w : c[k] \in Byte
  <2>1. c \in Seq(Byte) /\ Len(c) = w
    BY <1>2, DigitsAre
  <2> HIDE DEF c
  <2> QED BY <2>1
<1> HIDE DEF c
<1>6. \A k \in 1..w : c[k] = b[k]
  BY <1>4, <1>5, SumInjective
<1> QED BY <1>6 DEF c, n

\* The number that the bytes d are read as, counting those of half or more as
\* negative: short of theirs by Power[8] if the top one is, and by E if others are.
LEMMA CharsAre ==
    ASSUME NEW d, Len(d) = 8, DOMAIN d = 1..8, \A k \in 1..8 : d[k] \in Byte
    PROVE  \E top \in {0, 1}, E \in Int :
              /\ Sum([k \in DOMAIN d |-> Char(d[k])]) = Sum(d) - top * Power[8] - E
              /\ 0 <= E /\ E < Power[8]
              /\ E = 0 <=> \A k \in 2..8 : 2 * d[k] < Radix
<1> DEFINE c == [k \in DOMAIN d |-> Char(d[k])]
           big == [k \in 1..8 |-> IF 2 * d[k] >= Radix THEN 1 ELSE 0]
<1>1. Radix \in Nat /\ Radix >= 8 /\ \A k \in 1..8 : d[k] \in Int
  BY RadixAssumption DEF Byte
<1>2. Len(c) = 8 /\ \A k \in 1..8 : c[k] = d[k] - Radix * big[k] /\ c[k] \in Int
  BY <1>1 DEF Char
<1>3. \A k \in 1..8 : big[k] \in {0, 1} /\ (big[k] = 0 <=> 2 * d[k] < Radix)
  BY <1>1
<1> HIDE DEF c, big
<1>4. PICK f : Partial(f, d, 8)
  BY <1>1, Partials
<1>5. PICK g : Partial(g, c, 8)
  BY <1>2, Partials
<1>6. /\ f[0] = 0 /\ f[8] = Sum(d) /\ \A k \in 0..8 : f[k] \in Int
      /\ \A k \in 1..8 : k - 1 \in 0..8 /\ f[k] = Radix * f[k - 1] + d[k]
  BY <1>4, PartialIs
<1>7. /\ g[0] = 0 /\ g[8] = Sum(c) /\ \A k \in 0..8 : g[k] \in Int
      /\ \A k \in 1..8 : k - 1 \in 0..8 /\ g[k] = Radix * g[k - 1] + c[k]
  BY <1>5, PartialIs
\* What the bytes from the second to the k-th, those that are big, take away.
<1> DEFINE e == [k \in 0..8 |-> (f[k] - g[k]) - big[1] * Power[k]]
           Short(k) == /\ 0 <= e[k] /\ e[k] <= Power[k] - Radix
                       /\ e[k] = 0 <=> \A j \in 2..k : big[j] = 0
<1>8. \A k \in 0..8 : e[k] \in Int
  <2> TAKE k \in 0..8
  <2>1. f[k] \in Int /\ g[k] \in Int /\ big[1] \in Int /\ Power[k] \in Int
    BY <1>3, <1>6, <1>7, PowerIs
  <2> QED BY <2>1
<1>9. \A k \in 1..8 : e[k] = Radix * (f[k - 1] - g[k - 1] + big[k]) - big[1] * (Radix * Power[k - 1])
  <2> TAKE k \in 1..8
  <2> DEFINE x == f[k - 1]
             y == g[k - 1]
  <2>1. x \in Int /\ y \in Int /\ big[k] \in Int /\ d[k] \in Int
    BY <1>1, <1>3, <1>6, <1>7
  <2>2. f[k] = Radix * x + d[k] /\ g[k] = Radix * y + (d[k] - Radix * big[k])
    BY <1>2, <1>6, <1>7
  <2>3. Power[k] = Radix * Power[k - 1]
    BY PowerIs
  <2> HIDE DEF x, y
  <2>4. f[k] - g[k] = Radix * (x - y + big[k])
    BY ONLY <1>1, <2>1, <2>2
  <2>5. e[k] = (f[k] - g[k]) - big[1] * Power[k]
    OBVIOUS
  <2> HIDE DEF e
  <2> QED BY <2>3, <2>4, <2>5 DEF x, y
<1>10. e[1] = 0
  <2>1. 1 \in 1..8 /\ 1 - 1 = 0 /\ Power[0] = 1 /\ big[1] \in Int
    BY <1>3, PowerIs
  <2>2. e[1] = Radix * (0 - 0 + big[1]) - big[1] * (Radix * 1)
    BY <1>6, <1>7, <1>9, <2>1
  <2> HIDE DEF e
  <2> QED BY <1>1, <2>1, <2>2
<1>11. \A k \in 2..8 : e[k] = Radix * (e[k - 1] + big[k])
  <2> TAKE k \in 2..8
  <2> DEFINE x == f[k - 1] - g[k - 1]
             p == Power[k - 1]
  <2>1. k \in 1..8 /\ k - 1 \in 0..8
    OBVIOUS
  <2>2. x \in Int /\ p \in Int /\ big[1] \in Int /\ big[k] \in Int
    BY <1>3, <1>6, <1>7, <2>1, PowerIs
  <2>3. e[k - 1] = x - big[1] * p /\ e[k] = Radix * (x + big[k]) - big[1] * (Radix * p)
    BY <1>9, <2>1
  <2> HIDE DEF x, p, e
  <2> QED BY ONLY <1>1, <2>2, <2>3
<1> HIDE DEF e
<1>12. Short(1)
  <2>1. Power[1] = Radix * 1
    BY PowerIs
  <2> QED BY <1>1, <1>10, <2>1
<1>13. ASSUME NEW k \in 2..8, Short(k - 1) PROVE Short(k)
  <2> DEFINE x == e[k - 1]
             p == Power[k - 1]
             y == big[k]
  <2>1. x \in Int /\ p \in Int /\ y \in {0, 1} /\ 0 <= x /\ x <= p - Radix
    <3>1. k \in 1..8 /\ k - 1 \in 0..8
      OBVIOUS
    <3> QED BY <1>3, <1>8, <1>13, <3>1, PowerIs
  <2>2. e[k] = Radix * (x + y) /\ Power[k] = Radix * p
    <3>1. k \in 1..8
      OBVIOUS
    <3> QED BY <1>11, <3>1, PowerIs
  <2>3. x = 0 <=> \A j \in 2..k - 1 : big[j] = 0
    BY <1>13
  <2>4. 2..k = (2..k - 1) \union {k}
    OBVIOUS
  <2>5. (x = 0 /\ y = 0) <=> \A j \in 2..k : big[j] = 0
    BY <2>3, <2>4
  <2> HIDE DEF x, p, y
  <2>6. Radix * (x + y) \in Int /\ Radix * 0 <= Radix * (x + y)
    BY <1>1, <2>1, MulMono
  <2>7. Radix * (x + y) <= Radix * (p - 2)
    <3>1. x + y \in Int /\ p - 2 \in Int /\ x + y <= p - 2
      BY <1>1, <2>1
    <3> QED BY <1>1, <3>1, MulMono
  <2>8. Radix * (p - 2) = Radix * p - 2 * Radix /\ Radix * p \in Int
    BY <1>1, <2>1
  <2>9. 0 <= e[k] /\ e[k] <= Power[k] - Radix
    BY ONLY <1>1, <2>2, <2>6, <2>7, <2>8
  <2>10. e[k] = 0 <=> (x = 0 /\ y = 0)
    <3>1. CASE x + y >= 1
      <4>1. Radix * 1 <= Radix * (x + y)
        BY <1>1, <2>1, <3>1, MulMono
      <4> QED BY <1>1, <2>1, <2>2, <2>6, <3>1, <4>1
    <3>2. CASE x + y = 0
      BY <1>1, <2>1, <2>2, <3>2
    <3> QED BY <2>1, <3>1, <3>2
  <2> QED BY <2>5, <2>9, <2>10
<1> DEFINE S == {k \in 0..7 : Short(k + 1)}
<1>14. 0 \in S
  BY <1>12
<1>15. ASSUME NEW k \in 1..7, k - 1 \in S PROVE k \in S
  <2>1. k + 1 \in 2..8 /\ (k + 1) - 1 = (k - 1) + 1
    OBVIOUS
  <2>2. Short((k - 1) + 1)
    BY <1>15
  <2> HIDE DEF Short
  <2> QED BY <1>13, <2>1, <2>2
<1> HIDE DEF S
<1>16. 7 \in S
  <2>1. \A k \in 0..7 : k \in S
    BY <1>14, <1>15, UpTo
  <2> QED BY <2>1
<1>17. Short(8)
  BY <1>16 DEF S
<1>18. Sum(c) = Sum(d) - big[1] * Power[8] - e[8]
  <2>1. e[8] = (f[8] - g[8]) - big[1] * Power[8]
    BY DEF e
  <2>2. big[1] * Power[8] \in Int
    BY <1>3, PowerIs
  <2>3. f[8] \in Int /\ g[8] \in Int
    BY <1>6, <1>7
  <2> QED BY <1>6, <1>7, <2>1, <2>2, <2>3
<1>19. big[1] \in {0, 1} /\ e[8] \in Int
  BY <1>3, <1>8
<1>20. e[8] = 0 <=> \A k \in 2..8 : 2 * d[k] < Radix
  BY <1>3, <1>17
<1>21. 0 <= e[8] /\ e[8] < Power[8]
  BY <1>1, <1>17, <1>19, PowerIs
<1> QED BY <1>18, <1>19, <1>20, <1>21 DEF c

\* An int64 comes back if, and only if, its bytes below the top are small.
LEMMA Int64Is ==
    ASSUME NEW n \in Int, Fits(n, 8)
    PROVE  ByteToInt64(Int64ToByte(n)) = n <=> \A k \in 2..8 : 2 * Int64ToByte(n)[k] < Radix
<1> DEFINE d == Digits(n, 8)
           P == Power[8]
<1>1. Len(d) = 8 /\ DOMAIN d = 1..8 /\ \A k \in 1..8 : d[k] \in Byte
  <2>1. d \in Seq(Byte) /\ Len(d) = 8
    BY DigitsAre
  <2> HIDE DEF d
  <2>2. DOMAIN d = 1..8
    BY <2>1
  <2>3. \A k \in 1..8 : d[k] \in Byte
    BY <2>1, <2>2, ElementOfSeq
  <2> QED BY <2>1, <2>2, <2>3
<1>2. Sum(d) = n % P /\ P \in Nat /\ P > 0
  BY SumOfDigits, PowerIs
<1> HIDE DEF d
<1>3. PICK top \in {0, 1}, E \in Int :
         /\ Sum([k \in DOMAIN d |-> Char(d[k])]) = Sum(d) - top * P - E
         /\ 0 <= E /\ E < P
         /\ E = 0 <=> \A k \in 2..8 : 2 * d[k] < Radix
  BY <1>1, CharsAre
<1> DEFINE m == n % P
           t == Sum(d) - top * P - E
           u == Wrap(t, 8)
<1>4. m \in Int /\ 0 <= m /\ m < P
  BY <1>2, DivMod
<1> HIDE DEF m, P
<1>5. t = m - top * P - E /\ t \in Int
  BY <1>2, <1>3, <1>4 DEF m
<1>6. u % P = t % P /\ ByteToInt64(d) = u
  BY <1>3, <1>5, WrapMod DEF ByteToInt64, P
<1>7. Wrap(m, 8) = n
  BY WrapIs DEF m, P
<1>8. m % P = m
  <2>1. m = P * 0 + m
    BY <1>2, <1>4
  <2> QED BY <1>2, <1>4, <2>1, DivIs
<1>9. ASSUME E = 0 PROVE u = n
  <2>1. t = P * (-top) + m /\ -top \in Int
    BY <1>2, <1>3, <1>4, <1>5, <1>9
  <2>2. t % P = m
    BY <1>2, <1>4, <1>5, <2>1, DivIs
  <2> HIDE DEF t
  <2>3. Wrap(t, 8) = Wrap(m, 8)
    BY <1>8, <2>2 DEF Wrap, P
  <2> QED BY <1>7, <2>3
<1>10. ASSUME u = n PROVE E = 0
  <2>1. t % P = m
    BY <1>6, <1>10 DEF m
  <2> DEFINE a == t \div P
  <2>2. a \in Int /\ t = P * a + m
    BY <1>2, <1>5, <2>1, DivMod
  <2> HIDE DEF a, t
  <2>3. E = P * (-top - a) /\ -top - a \in Int
    <3>1. m - top * P - E = P * a + m
      BY <1>5, <2>2
    <3> QED BY <1>2, <1>3, <1>4, <2>2, <3>1
  <2>4. P * 0 + E = P * (-top - a) + 0
    BY <1>2, <1>3, <2>3
  <2> QED BY <1>2, <1>3, <2>3, <2>4, DivUnique
<1> HIDE DEF u
<1>11. u = n <=> E = 0
  BY <1>9, <1>10
<1> QED BY <1>3, <1>6, <1>11 DEF Int64ToByte, d

LEMMA Int32BackHolds == Int32Back
<1> SUFFICES ASSUME NEW b \in [1..4 -> Byte]
             PROVE  ByteToInt32(Int32ToByte(Wrap(Sum(b), 4))) = Wrap(Sum(b), 4)
  BY DEF Int32Back
<1>1. Len(b) = 4 /\ \A k \in 1..4 : b[k] \in Byte
  OBVIOUS
<1>2. Sum(b) \in Int
  BY <1>1, SumBounds
<1>3. Wrap(Sum(b), 4) \in Int /\ Fits(Wrap(Sum(b), 4), 4)
  BY <1>2, WrapIs
<1> QED BY <1>3, Int32Is

LEMMA Int64BackHolds == Int64Back
<1> SUFFICES ASSUME NEW b \in [1..8 -> SomeBytes]
             PROVE  ByteToInt64(Int64ToByte(Wrap(Sum(b), 8))) = Wrap(Sum(b), 8)
                    <=> \A k \in 2..8 : 2 * b[k] < Radix
  BY DEF Int64Back
<1>1. Len(b) = 8 /\ \A k \in 1..8 : b[k] \in Byte
  <2>1. SomeBytes \subseteq Byte
    <3>1. Radix \in Nat /\ Radix >= 8 /\ Radix \div 2 \in Int /\ Radix = 2 * (Radix \div 2) + (Radix % 2)
          /\ 0 <= Radix % 2 /\ Radix % 2 < 2
      BY RadixAssumption
    <3> QED BY <3>1 DEF SomeBytes, Byte
  <2> QED BY <2>1
<1> DEFINE n == Wrap(Sum(b), 8)
<1>2. Sum(b) \in Int
  BY <1>1, SumBounds
<1>3. n \in Int /\ Fits(n, 8)
  BY <1>2, WrapIs
<1>4. \A k \in 1..8 : Digits(n, 8)[k] = b[k]
  BY <1>1, DigitsBack
<1> HIDE DEF n
<1>5. ByteToInt64(Int64ToByte(n)) = n <=> \A k \in 2..8 : 2 * Int64ToByte(n)[k] < Radix
  BY <1>3, Int64Is
<1>6. \A k \in 2..8 : Int64ToByte(n)[k] = b[k]
  BY <1>4 DEF Int64ToByte
<1> QED BY <1>5, <1>6 DEF n
----------------------------------------------------------------------------
(* One argument.                                                           *)

Arg == [type : DOMAIN Tag, v : Seq(Int)]

LEMMA Joined ==
    ASSUME NEW s \in Seq(Int), NEW t \in Seq(Int)
    PROVE  /\ s \o t \in Seq(Int) /\ Len(s \o t) = Len(s) + Len(t)
           /\ \A k \in 1..Len(s) : (s \o t)[k] = s[k]
           /\ \A k \in 1..Len(t) : (s \o t)[Len(s) + k] = t[k]
OBVIOUS

LEMMA DigitsInt ==
    ASSUME NEW n \in Int, NEW w \in 0..8
    PROVE  Digits(n, w) \in Seq(Int) /\ Len(Digits(n, w)) = w
<1>1. \A s \in Seq(Byte) : s \in Seq(Int)
  BY RadixAssumption DEF Byte
<1> QED BY <1>1, DigitsAre

LEMMA PowerGrows ==
    Power[1] = Radix /\ \A k \in 2..8 : Power[k] >= 8 * Radix
<1>1. Radix \in Nat /\ Radix >= 8
  BY RadixAssumption
<1>2. Power[1] = Radix
  <2>1. Power[1] = Radix * Power[1 - 1] /\ 1 - 1 = 0 /\ Power[0] = 1
    BY PowerIs
  <2> QED BY <1>1, <2>1
<1> DEFINE S == {i \in 0..7 : i = 0 \/ Power[i + 1] >= 8 * Radix}
<1>3. ASSUME NEW i \in 1..7, i - 1 \in S PROVE i \in S
  <2>1. i + 1 \in 1..8 /\ (i + 1) - 1 = i /\ i \in 0..8
    OBVIOUS
  <2> DEFINE p == Power[i]
  <2>2. Power[i + 1] = Radix * p /\ p \in Nat
    BY <2>1, PowerIs
  <2>3. p >= Radix
    <3>1. (i - 1) + 1 = i /\ (i - 1 = 0 => i = 1)
      OBVIOUS
    <3>2. i = 1 \/ Power[i] >= 8 * Radix
      BY <1>3, <3>1
    <3> QED BY <1>1, <1>2, <2>2, <3>2
  <2> HIDE DEF p
  <2>4. Radix * 8 <= Radix * p
    BY <1>1, <2>2, <2>3, MulMono
  <2> QED BY <1>1, <2>2, <2>4
<1>4. 0 \in S
  OBVIOUS
<1> HIDE DEF S
<1>5. \A i \in 0..7 : i \in S
  BY <1>3, <1>4, UpTo
<1>6. ASSUME NEW k \in 2..8 PROVE Power[k] >= 8 * Radix
  <2>1. k - 1 \in 0..7 /\ k - 1 # 0 /\ (k - 1) + 1 = k
    OBVIOUS
  <2>2. Power[(k - 1) + 1] >= 8 * Radix
    BY <1>5, <2>1 DEF S
  <2> QED BY <2>1, <2>2
<1> QED BY <1>2, <1>6

LEMMA IntFits ==
    ASSUME NEW n \in -8..8
    PROVE  Fits(n, 4)
<1>1. Power[4] >= 64 /\ Power[4] \in Nat
  <2>1. Power[4] >= 8 * Radix /\ Power[4] \in Nat
    BY PowerGrows, PowerIs
  <2> QED BY <2>1, RadixAssumption
<1> QED BY <1>1 DEF Fits

\* The length of what is no longer than 8 is an int32.
LEMMA SmallFits ==
    ASSUME NEW s, NEW n \in 0..8, Len(s) = n
    PROVE  Fits(Len(s), 4)
BY IntFits

\* What an argument's bytes are worth.
LEMMA PayloadIs ==
    ASSUME NEW a \in Arg, Sendable(a)
    PROVE  Payload(a) \in Seq(Int) /\ Fits(Len(Payload(a)), 4)
<1> DEFINE n == a.v[1]
<1>1. CASE a.type = "STRING"
  <2>1. a.v \in Seq(Int) /\ Fits(Len(a.v), 4)
    BY <1>1 DEF Sendable, Arg
  <2> QED BY <1>1, <2>1 DEF Payload
<1>2. CASE a.type # "STRING"
  <2>1. a.v \in Seq(Int) /\ Len(a.v) = 1 /\ n \in Int
    BY <1>2 DEF Sendable
  <2>2. CASE a.type = "INT32"
    <3>1. Digits(n, 4) \in Seq(Int) /\ Len(Digits(n, 4)) = 4
      <4>1. 4 \in 0..8
        OBVIOUS
      <4> QED BY ONLY <2>1, <4>1, DigitsInt
    <3>2. Payload(a) = Digits(n, 4)
      BY <2>2 DEF Payload, Int32ToByte
    <3>3. 4 \in 0..8
      OBVIOUS
    <3> QED BY ONLY <3>1, <3>2, <3>3, SmallFits
  <2>3. CASE a.type = "INT64"
    <3>1. Digits(n, 8) \in Seq(Int) /\ Len(Digits(n, 8)) = 8
      <4>1. 8 \in 0..8
        OBVIOUS
      <4> QED BY ONLY <2>1, <4>1, DigitsInt
    <3>2. Payload(a) = Digits(n, 8)
      BY <2>3 DEF Payload, Int64ToByte
    <3>3. 8 \in 0..8
      OBVIOUS
    <3> QED BY ONLY <3>1, <3>2, <3>3, SmallFits
  <2>4. CASE a.type = "BOOLEAN"
    <3>1. Payload(a) = a.v
      BY <2>4 DEF Payload
    <3>2. 1 \in 0..8
      OBVIOUS
    <3> QED BY ONLY <2>1, <3>1, <3>2, SmallFits
  <2>5. CASE a.type \in {"DOUBLE", "FLOAT"}
    <3>1. Payload(a) = <<(n + 1) \div 2>>
      BY <2>5 DEF Payload, Text
    <3>2. (n + 1) \div 2 \in Int
      BY <2>1
    <3>3. Payload(a) \in Seq(Int) /\ Len(Payload(a)) = 1 /\ 1 \in 0..8
      BY <3>1, <3>2
    <3> QED BY ONLY <3>3, SmallFits
  <2> QED BY <1>2, <2>2, <2>3, <2>4, <2>5 DEF Sendable
<1> QED BY <1>1, <1>2

LEMMA EncodeIs ==
    ASSUME NEW a \in Arg, Sendable(a)
    PROVE  LET s == Encode(a)
               p == Payload(a)
           IN /\ s \in Seq(Int) /\ Len(p) \in Nat /\ Len(s) = HEAD_LEN + Len(p)
              /\ s[1] = Tag[a.type]
              /\ SubSeq(s, 2, HEAD_LEN) = Int32ToByte(Len(p))
              /\ SubSeq(s, HEAD_LEN + 1, HEAD_LEN + Len(p)) = p
<1> DEFINE s == Encode(a)
           p == Payload(a)
           h == Int32ToByte(Len(p))
           t == Tag[a.type]
<1>1. p \in Seq(Int) /\ Len(p) \in Nat
  BY PayloadIs
<1>2. h \in Seq(Int) /\ Len(h) = 4
  <2>1. Digits(Len(p), 4) \in Seq(Int) /\ Len(Digits(Len(p), 4)) = 4
    BY <1>1, DigitsInt
  <2> QED BY <2>1 DEF Int32ToByte
<1>3. t \in Int
  BY DEF Arg, Tag
<1>4. s = (<<t>> \o h) \o p
  BY DEF Encode
<1> HIDE DEF s, p, h, t
<1>5. /\ s \in Seq(Int) /\ Len(s) = 5 + Len(p) /\ s[1] = t
      /\ \A k \in 1..4 : s[k + 1] = h[k]
      /\ \A k \in 1..Len(p) : s[k + 5] = p[k]
  <2> DEFINE o == <<t>>
             u == o \o h
  <2>1. o \in Seq(Int) /\ Len(o) = 1 /\ o[1] = t
    BY <1>3
  <2> HIDE DEF o
  <2>2. /\ u \in Seq(Int) /\ Len(u) = 5 /\ u[1] = t
        /\ \A k \in 1..4 : u[k + 1] = h[k]
    <3>1. /\ u \in Seq(Int) /\ Len(u) = Len(o) + Len(h)
          /\ \A k \in 1..Len(o) : u[k] = o[k]
          /\ \A k \in 1..Len(h) : u[Len(o) + k] = h[k]
      BY <1>2, <2>1, Joined
    <3>2. \A k \in 1..4 : k + 1 = 1 + k
      OBVIOUS
    <3> HIDE DEF u
    <3> QED BY <1>2, <2>1, <3>1, <3>2
  <2>3. s = u \o p
    BY <1>4 DEF o
  <2> HIDE DEF u
  <2>4. /\ s \in Seq(Int) /\ Len(s) = 5 + Len(p)
        /\ \A k \in 1..5 : s[k] = u[k]
        /\ \A k \in 1..Len(p) : s[5 + k] = p[k]
    <3>1. /\ u \o p \in Seq(Int) /\ Len(u \o p) = Len(u) + Len(p)
          /\ \A k \in 1..Len(u) : (u \o p)[k] = u[k]
          /\ \A k \in 1..Len(p) : (u \o p)[Len(u) + k] = p[k]
      BY <1>1, <2>2, Joined
    <3> QED BY ONLY <2>2, <2>3, <3>1
  <2>5. /\ \A k \in 1..4 : k + 1 \in 1..5
        /\ \A k \in 1..Len(p) : k + 5 = 5 + k
    BY <1>1
  <2> QED BY <2>2, <2>4, <2>5, SMTT(60)
<1>6. SubSeq(s, 2, 5) = h
  <2> DEFINE q == SubSeq(s, 2, 5)
  <2>1. q \in Seq(Int) /\ Len(q) = 4 /\ \A k \in 1..4 : q[k] = s[k + 1]
    BY <1>1, <1>5, SubSeqProperties
  <2> HIDE DEF q
  <2> QED BY <1>2, <1>5, <2>1, SeqEqual DEF q
<1>7. SubSeq(s, 6, 5 + Len(p)) = p
  <2> DEFINE q == SubSeq(s, 6, 5 + Len(p))
  <2>1. q \in Seq(Int) /\ Len(q) = Len(p) /\ \A k \in 1..Len(p) : q[k] = s[k + 5]
    BY <1>1, <1>5, SubSeqProperties
  <2> HIDE DEF q
  <2> QED BY <1>1, <1>5, <2>1, SeqEqual DEF q
<1> QED BY <1>1, <1>5, <1>6, <1>7 DEF HEAD_LEN, SIZE_LEN, s, p, h, t

\* A piece is read as what its tag says.
LEMMA AnyDecodeIs ==
    ASSUME NEW s, NEW p, p = SubSeq(s, HEAD_LEN + 1, HEAD_LEN + GetHeadDataLen(s))
    PROVE  /\ s[1] = Tag["STRING"] => AnyDecode(s) = [type |-> "STRING", v |-> p]
           /\ s[1] = Tag["INT32"] => AnyDecode(s) = [type |-> "INT32", v |-> <<ByteToInt32(p)>>]
           /\ s[1] = Tag["INT64"] => AnyDecode(s) = [type |-> "INT64", v |-> <<ByteToInt64(p)>>]
           /\ s[1] = Tag["BOOLEAN"] =>
                 AnyDecode(s) = [type |-> "BOOLEAN", v |-> <<IF p[1] = 0 THEN 0 ELSE 1>>]
           /\ s[1] = Tag["DOUBLE"] => AnyDecode(s) = [type |-> "DOUBLE", v |-> <<Number(p)>>]
           /\ s[1] = Tag["FLOAT"] => AnyDecode(s) = [type |-> "FLOAT", v |-> <<Number(p)>>]
<1>1. /\ Tag["STRING"] = 4 /\ Tag["INT32"] = 1 /\ Tag["INT64"] = 2
      /\ Tag["BOOLEAN"] = 5 /\ Tag["DOUBLE"] = 3 /\ Tag["FLOAT"] = 6
  BY DEF Tag
<1> DEFINE t == s[1]
<1>2. AnyDecode(s) =
         CASE t = 4 -> [type |-> "STRING", v |-> p]
           [] t = 1 -> [type |-> "INT32", v |-> <<ByteToInt32(p)>>]
           [] t = 2 -> [type |-> "INT64", v |-> <<ByteToInt64(p)>>]
           [] t = 5 -> [type |-> "BOOLEAN", v |-> <<IF p[1] = 0 THEN 0 ELSE 1>>]
           [] t = 3 -> [type |-> "DOUBLE", v |-> <<Number(p)>>]
           [] t = 6 -> [type |-> "FLOAT", v |-> <<Number(p)>>]
           [] OTHER -> NoArg
  BY <1>1 DEF AnyDecode
<1> DEFINE d == AnyDecode(s)
<1> HIDE DEF t, d
<1>3. /\ t = 4 => d = [type |-> "STRING", v |-> p]
      /\ t = 1 => d = [type |-> "INT32", v |-> <<ByteToInt32(p)>>]
      /\ t = 2 => d = [type |-> "INT64", v |-> <<ByteToInt64(p)>>]
      /\ t = 5 => d = [type |-> "BOOLEAN", v |-> <<IF p[1] = 0 THEN 0 ELSE 1>>]
      /\ t = 3 => d = [type |-> "DOUBLE", v |-> <<Number(p)>>]
      /\ t = 6 => d = [type |-> "FLOAT", v |-> <<Number(p)>>]
  BY ONLY <1>2 DEF d
<1> QED BY <1>1, <1>3 DEF t, d

\* An argument comes back from its piece.
LEMMA ArgumentBack ==
    ASSUME NEW a \in Arg, Sendable(a)
    PROVE  AnyDecode(Encode(a)) = a
<1> DEFINE s == Encode(a)
           p == Payload(a)
           n == a.v[1]
<1>1. s[1] = Tag[a.type] /\ SubSeq(s, HEAD_LEN + 1, HEAD_LEN + GetHeadDataLen(s)) = p
  <2>1. p \in Seq(Int) /\ Len(p) \in Int /\ Fits(Len(p), 4)
    BY PayloadIs
  <2>2. ByteToInt32(Int32ToByte(Len(p))) = Len(p)
    BY <2>1, Int32Is
  <2>3. /\ s[1] = Tag[a.type] /\ SubSeq(s, 2, HEAD_LEN) = Int32ToByte(Len(p))
        /\ SubSeq(s, HEAD_LEN + 1, HEAD_LEN + Len(p)) = p
    BY EncodeIs
  <2> HIDE DEF s, p
  <2> QED BY <2>2, <2>3 DEF GetHeadDataLen
<1> HIDE DEF s
<1>2. a.type \in DOMAIN Tag /\ a = [type |-> a.type, v |-> a.v]
  BY DEF Arg
<1>3. CASE a.type = "STRING"
  <2>1. AnyDecode(s) = [type |-> "STRING", v |-> p]
    BY <1>1, <1>3, AnyDecodeIs
  <2>2. p = a.v
    BY <1>3 DEF Payload
  <2> QED BY <1>2, <1>3, <2>1, <2>2 DEF s
<1>4. CASE a.type # "STRING"
  <2>1. a.v \in Seq(Int) /\ Len(a.v) = 1 /\ n \in Int
    BY <1>4 DEF Sendable
  <2>2. a.v = <<n>>
    BY <2>1
  <2>3. CASE a.type = "INT32"
    <3>1. AnyDecode(s) = [type |-> "INT32", v |-> <<ByteToInt32(p)>>]
      BY <1>1, <2>3, AnyDecodeIs
    <3>2. p = Int32ToByte(n) /\ Fits(n, 4)
      BY <2>3 DEF Payload, Sendable
    <3>3. ByteToInt32(p) = n
      BY <2>1, <3>2, Int32Is
    <3> HIDE DEF n, p
    <3> QED BY <1>2, <2>2, <2>3, <3>1, <3>3 DEF s
  <2>4. CASE a.type = "INT64"
    <3>1. AnyDecode(s) = [type |-> "INT64", v |-> <<ByteToInt64(p)>>]
      BY <1>1, <2>4, AnyDecodeIs
    <3>2. p = Int64ToByte(n) /\ Fits(n, 8) /\ \A k \in 2..8 : 2 * Int64ToByte(n)[k] < Radix
      BY <2>4 DEF Payload, Sendable
    <3>3. ByteToInt64(p) = n
      BY <2>1, <3>2, Int64Is
    <3> HIDE DEF n, p
    <3> QED BY <1>2, <2>2, <2>4, <3>1, <3>3 DEF s
  <2>5. CASE a.type = "BOOLEAN"
    <3>1. AnyDecode(s) = [type |-> "BOOLEAN", v |-> <<IF p[1] = 0 THEN 0 ELSE 1>>]
      BY <1>1, <2>5, AnyDecodeIs
    <3>2. p = a.v /\ n \in {0, 1}
      BY <2>5 DEF Payload, Sendable
    <3>3. (IF p[1] = 0 THEN 0 ELSE 1) = n
      BY <3>2
    <3> HIDE DEF n, p
    <3> QED BY <1>2, <2>2, <2>5, <3>1, <3>3 DEF s
  <2>6. CASE a.type \in {"DOUBLE", "FLOAT"}
    <3>1. AnyDecode(s) = [type |-> a.type, v |-> <<Number(p)>>]
      <4>1. CASE a.type = "DOUBLE"
        BY <1>1, <4>1, AnyDecodeIs
      <4>2. CASE a.type = "FLOAT"
        BY <1>1, <4>2, AnyDecodeIs
      <4> QED BY <2>6, <4>1, <4>2
    <3>2. p = <<(n + 1) \div 2>> /\ n % 2 = 0
      BY <2>6 DEF Payload, Sendable, Text
    <3>3. Number(p) = n
      <4>1. p[1] = (n + 1) \div 2
        BY <3>2
      <4> HIDE DEF n, p
      <4>2. 2 * ((n + 1) \div 2) = n
        BY <2>1, <3>2
      <4> QED BY <4>1, <4>2 DEF Number
    <3> HIDE DEF n, p
    <3> QED BY <1>2, <2>2, <3>1, <3>3 DEF s
  <2>7. a.type \in {"STRING", "INT32", "INT64", "BOOLEAN", "DOUBLE", "FLOAT"}
    BY DEF Sendable
  <2> QED BY <1>4, <2>3, <2>4, <2>5, <2>6, <2>7
<1> QED BY <1>3, <1>4
----------------------------------------------------------------------------
(* A message.                                                              *)

\* list, and what can be sent of them.
Message(list) == list \in Seq(Arg) /\ \A k \in 1..Len(list) : Sendable(list[k])

\* The bytes of the first k arguments, given those of the ones before.
Joining(f, list, k) == IF k = 0 THEN << >> ELSE f[k - 1] \o Encode(list[k])

LEMMA EncodeAllIs ==
    ASSUME NEW list, Message(list)
    PROVE  \E f \in [0..Len(list) -> Seq(Int)] :
              EncodeAll(list) = f[Len(list)] /\ \A k \in 0..Len(list) : f[k] = Joining(f, list, k)
<1> DEFINE N == Len(list)
           f0 == CHOOSE f : f = [k \in 0..N |-> Joining(f, list, k)]
           G == [k \in 1..N |-> [v \in Seq(Int) |-> v \o Encode(list[k])]]
<1>1. EncodeAll(list) = f0[N]
  BY DEF EncodeAll, Joining
<1>2. N \in Nat /\ \A k \in 1..N : Encode(list[k]) \in Seq(Int)
  <2>1. N \in Nat /\ \A k \in 1..N : list[k] \in Arg /\ Sendable(list[k])
    BY DEF Message
  <2> QED BY <2>1, EncodeIs
<1> HIDE DEF N
<1>3. \A k \in 1..N, v \in Seq(Int) : v \o Encode(list[k]) \in Seq(Int)
  BY <1>2, Joined
<1>4. \E f : f = [k \in 0..N |-> Joining(f, list, k)]
  <2>1. \A k \in 1..N, v \in Seq(Int) : G[k][v] = v \o Encode(list[k]) /\ G[k][v] \in Seq(Int)
    BY <1>3
  <2> HIDE DEF G
  <2>2. PICK f \in [0..N -> Seq(Int)] : \A k \in 0..N : f[k] = Then(f, << >>, G, k)
    <3>1. Stepping(N, Seq(Int), << >>, G)
      BY <1>2, <2>1 DEF Stepping
    <3> QED BY ONLY <3>1, StepByStep
  <2>3. \A k \in 0..N : f[k] = Joining(f, list, k)
    <3> TAKE k \in 0..N
    <3>1. k # 0 => k \in 1..N /\ k - 1 \in 0..N
      BY <1>2
    <3> QED BY <2>1, <2>2, <3>1 DEF Then, Joining
  <2> QED BY <2>3
<1>5. f0 = [k \in 0..N |-> Joining(f0, list, k)]
  BY <1>4
<1> HIDE DEF f0
<1> DEFINE S == {k \in 0..N : f0[k] \in Seq(Int)}
<1>6. \A k \in 1..N : k \in 0..N /\ k # 0
  BY <1>2
<1>7. ASSUME NEW k \in 1..N, k - 1 \in S PROVE k \in S
  <2>1. f0[k] = f0[k - 1] \o Encode(list[k]) /\ k \in 0..N
    BY <1>5, <1>6 DEF Joining
  <2>2. f0[k - 1] \in Seq(Int)
    BY <1>7
  <2> QED BY <1>3, <2>1, <2>2
<1>8. 0 \in S
  BY <1>2, <1>5 DEF Joining
<1> HIDE DEF S
<1>9. \A k \in 0..N : k \in S
  BY <1>2, <1>7, <1>8, UpTo
<1>10. f0 \in [0..N -> Seq(Int)] /\ \A k \in 0..N : f0[k] = Joining(f0, list, k)
  BY <1>5, <1>9 DEF S
<1> QED BY <1>1, <1>10 DEF N

\* The argument k of list takes the bytes of data behind p[k - 1], up to p[k].
Laid(data, list, p) ==
    /\ data \in Seq(Int) /\ p \in [0..Len(list) -> Nat]
    /\ p[0] = 0 /\ p[Len(list)] = Len(data)
    /\ \A k \in 1..Len(list) :
          /\ p[k] = p[k - 1] + Len(Encode(list[k]))
          /\ \A y \in 1..Len(Encode(list[k])) : data[p[k - 1] + y] = Encode(list[k])[y]

LEMMA PrefixIs ==
    ASSUME NEW list, Message(list), NEW n \in 0..Len(list)
    PROVE  /\ Message(SubSeq(list, 1, n)) /\ Len(SubSeq(list, 1, n)) = n
           /\ \A k \in 1..n : SubSeq(list, 1, n)[k] = list[k]
<1> DEFINE b == SubSeq(list, 1, n)
<1>1. list \in Seq(Arg) /\ Len(list) \in Nat /\ n \in Nat /\ \A k \in 1..Len(list) : list[k] \in Arg /\ Sendable(list[k])
  BY DEF Message
<1>2. \A k \in 1..n : k \in 1..Len(list) /\ (1 + k) - 1 = k
  BY <1>1
<1>3. b \in Seq(Arg) /\ Len(b) = n /\ \A k \in 1..n : b[k] = list[k]
  BY <1>1, <1>2, SubSeqProperties
<1> HIDE DEF b
<1>4. Message(b)
  BY <1>1, <1>2, <1>3 DEF Message
<1> QED BY <1>3, <1>4 DEF b

\* The bytes of a message, and those of its first arguments, which come first.
LEMMA LaidOut ==
    ASSUME NEW list, Message(list)
    PROVE  \E p : /\ Laid(EncodeAll(list), list, p)
                  /\ \A k \in 0..Len(list) : Len(EncodeAll(SubSeq(list, 1, k))) = p[k]
<1> DEFINE N == Len(list)
           E == [k \in 1..N |-> Encode(list[k])]
<1>1. N \in Nat /\ \A k \in 1..N : E[k] = Encode(list[k]) /\ E[k] \in Seq(Int) /\ Len(E[k]) \in Nat
  <2>1. N \in Nat /\ \A k \in 1..N : list[k] \in Arg /\ Sendable(list[k])
    BY DEF Message
  <2>2. \A k \in 1..N : Encode(list[k]) \in Seq(Int)
    BY <2>1, EncodeIs
  <2> QED BY <2>1, <2>2
<1>2. PICK f \in [0..N -> Seq(Int)] :
         EncodeAll(list) = f[N] /\ \A k \in 0..N : f[k] = Joining(f, list, k)
  BY EncodeAllIs
<1> HIDE DEF N, E
<1>3. f[0] = << >> /\ \A k \in 0..N : f[k] \in Seq(Int) /\ Len(f[k]) \in Nat
  <2>1. 0 \in 0..N
    BY <1>1
  <2>2. f[0] = << >>
    BY <1>2, <2>1 DEF Joining
  <2>3. \A k \in 0..N : f[k] \in Seq(Int)
    BY <1>2
  <2>4. \A t \in Seq(Int) : Len(t) \in Nat
    OBVIOUS
  <2> QED BY <2>2, <2>3, <2>4
<1>4. ASSUME NEW k \in 1..N
      PROVE  /\ k - 1 \in 0..N /\ k \in 0..N /\ f[k] = f[k - 1] \o E[k]
             /\ Len(f[k]) = Len(f[k - 1]) + Len(E[k])
             /\ \A y \in 1..Len(f[k - 1]) : f[k][y] = f[k - 1][y]
             /\ \A y \in 1..Len(E[k]) : f[k][Len(f[k - 1]) + y] = E[k][y]
  <2>1. k - 1 \in 0..N /\ k \in 0..N /\ k # 0
    BY <1>1
  <2>2. f[k] = f[k - 1] \o E[k]
    BY <1>1, <1>2, <2>1 DEF Joining
  <2> DEFINE a == f[k - 1]
             b == E[k]
  <2>3. a \in Seq(Int) /\ b \in Seq(Int)
    BY <1>1, <1>3, <2>1
  <2> HIDE DEF a, b
  <2>4. /\ Len(a \o b) = Len(a) + Len(b)
        /\ \A y \in 1..Len(a) : (a \o b)[y] = a[y]
        /\ \A y \in 1..Len(b) : (a \o b)[Len(a) + y] = b[y]
    BY <2>3, Joined
  <2> QED BY <2>1, <2>2, <2>4 DEF a, b
<1> DEFINE data == f[N]
           Starts(k) == Len(f[k]) <= Len(data) /\ \A y \in 1..Len(f[k]) : data[y] = f[k][y]
<1>5. \A k \in 0..N : Starts(k)
  <2> DEFINE S == {i \in 0..N : Starts(N - i)}
  <2>1. 0 \in S
    BY <1>1, <1>3
  <2>2. ASSUME NEW i \in 1..N, i - 1 \in S PROVE i \in S
    <3> DEFINE k == N - (i - 1)
    <3>1. k \in 1..N /\ k - 1 = N - i /\ i \in 0..N
      BY <1>1
    <3>2. Starts(k)
      BY <2>2
    <3> HIDE DEF k
    <3>3. /\ Len(f[k]) = Len(f[k - 1]) + Len(E[k]) /\ Len(f[k - 1]) \in Nat /\ Len(E[k]) \in Nat
          /\ \A y \in 1..Len(f[k - 1]) : f[k][y] = f[k - 1][y]
      BY <1>1, <1>3, <1>4, <3>1
    <3>4. Len(data) \in Nat
      BY <1>1, <1>3
    <3>5. Starts(k - 1)
      <4> DEFINE m == Len(f[k - 1])
                 n == Len(f[k])
                 q == Len(data)
      <4>1. n = m + Len(E[k]) /\ m \in Nat /\ Len(E[k]) \in Nat /\ q \in Nat /\ n <= q
        BY <3>2, <3>3, <3>4
      <4> HIDE DEF m, n, q
      <4>2. m <= q /\ \A y \in 1..m : y \in 1..n
        BY ONLY <4>1
      <4> QED BY <3>2, <3>3, <4>2 DEF m, n, q
    <3> HIDE DEF Starts
    <3> QED BY <3>1, <3>5
  <2> HIDE DEF S
  <2>3. \A i \in 0..N : i \in S
    BY <1>1, <2>1, <2>2, UpTo
  <2> TAKE k \in 0..N
  <2>4. N - k \in 0..N /\ N - (N - k) = k
    BY <1>1
  <2>5. Starts(N - (N - k))
    BY <2>3, <2>4 DEF S
  <2> HIDE DEF Starts
  <2> QED BY <2>4, <2>5
<1> DEFINE p == [k \in 0..N |-> Len(f[k])]
<1>6. p \in [0..N -> Nat] /\ p[0] = 0 /\ p[N] = Len(data) /\ data \in Seq(Int) /\ data = EncodeAll(list)
      /\ \A k \in 0..N : p[k] = Len(f[k])
  <2>1. 0 \in 0..N /\ N \in 0..N
    BY <1>1
  <2> QED BY <1>2, <1>3, <2>1
<1> HIDE DEF p
<1>7. ASSUME NEW k \in 1..N
      PROVE  /\ p[k] = p[k - 1] + Len(E[k])
             /\ \A y \in 1..Len(E[k]) : data[p[k - 1] + y] = E[k][y]
  <2>1. k \in 0..N /\ k - 1 \in 0..N
    BY <1>4
  <2>2. p[k] = p[k - 1] + Len(E[k])
    BY <1>4, <1>6, <2>1
  <2>3. ASSUME NEW y \in 1..Len(E[k]) PROVE data[p[k - 1] + y] = E[k][y]
    <3>1. p[k - 1] \in Nat /\ Len(E[k]) \in Nat /\ Len(f[k]) = p[k - 1] + Len(E[k])
      BY <1>1, <1>6, <2>1, <2>2
    <3>2. p[k - 1] + y \in 1..Len(f[k])
      BY <3>1
    <3>3. data[p[k - 1] + y] = f[k][p[k - 1] + y]
      BY <1>5, <2>1, <3>2
    <3>4. f[k][p[k - 1] + y] = E[k][y]
      BY <1>4, <1>6, <2>1
    <3> QED BY <3>3, <3>4
  <2> QED BY <2>2, <2>3
<1>8. Laid(EncodeAll(list), list, p)
  BY <1>1, <1>6, <1>7, ZenonT(60) DEF Laid, N
<1>9. ASSUME NEW n \in 0..N PROVE Len(EncodeAll(SubSeq(list, 1, n))) = p[n]
  <2> DEFINE b == SubSeq(list, 1, n)
  <2>1. Message(b) /\ Len(b) = n /\ n \in Nat /\ \A k \in 1..n : b[k] = list[k]
    BY PrefixIs, <1>1 DEF N
  <2> HIDE DEF b
  <2>2. PICK g \in [0..n -> Seq(Int)] :
           EncodeAll(b) = g[n] /\ \A k \in 0..n : g[k] = Joining(g, b, k)
    <3>1. \E g \in [0..Len(b) -> Seq(Int)] :
             EncodeAll(b) = g[Len(b)] /\ \A k \in 0..Len(b) : g[k] = Joining(g, b, k)
      BY ONLY <2>1, EncodeAllIs
    <3> QED BY <2>1, <3>1
  <2> DEFINE S == {k \in 0..n : g[k] = f[k]}
  <2>3. 0 \in S
    <3>1. 0 \in 0..n
      BY <2>1
    <3> QED BY <1>3, <2>2, <3>1 DEF Joining
  <2>4. ASSUME NEW k \in 1..n, g[k - 1] = f[k - 1] PROVE g[k] = f[k]
    <3>1. k \in 0..n /\ k # 0 /\ k \in 1..N
      BY <1>1
    <3>2. g[k] = g[k - 1] \o Encode(b[k]) /\ b[k] = list[k]
      BY <2>1, <2>2, <3>1 DEF Joining
    <3>3. f[k] = f[k - 1] \o E[k] /\ E[k] = Encode(list[k])
      BY <1>1, <1>4, <3>1
    <3> QED BY <2>4, <3>2, <3>3
  <2>5. \A k \in 1..n : k - 1 \in S => k \in S
    BY <2>4
  <2> HIDE DEF S
  <2>6. \A k \in 0..n : k \in S
    BY <2>1, <2>3, <2>5, UpTo
  <2>7. g[n] = f[n]
    BY <2>1, <2>6 DEF S
  <2> QED BY <1>6, <2>2, <2>7 DEF b
<1> QED BY <1>8, <1>9 DEF N

\* Every argument takes bytes.
LEMMA LaidGrows ==
    ASSUME NEW list, Message(list), NEW data, NEW p, Laid(data, list, p),
           NEW j \in 0..Len(list), NEW k \in 0..Len(list), j <= k
    PROVE  p[j] + (k - j) <= p[k]
<1> DEFINE N == Len(list)
<1>1. N \in Nat /\ j \in 0..N /\ \A i \in 0..N : p[i] \in Nat
  <2>1. list \in Seq(Arg) /\ p \in [0..N -> Nat]
    BY DEF Message, Laid
  <2> QED BY <2>1
<1>2. ASSUME NEW i \in 1..N PROVE p[i - 1] + 1 <= p[i]
  <2>1. list[i] \in Arg /\ Sendable(list[i])
    BY DEF Message
  <2>2. Len(Encode(list[i])) = HEAD_LEN + Len(Payload(list[i])) /\ Len(Payload(list[i])) \in Nat
    BY <2>1, EncodeIs
  <2>3. p[i] = p[i - 1] + Len(Encode(list[i])) /\ p[i - 1] \in Nat
    <3>1. i - 1 \in 0..N
      BY <1>1
    <3>2. p[i] = p[i - 1] + Len(Encode(list[i]))
      BY DEF Laid
    <3> QED BY <1>1, <3>1, <3>2
  <2> QED BY <2>2, <2>3 DEF HEAD_LEN, SIZE_LEN
<1> DEFINE S == {i \in 0..N : j <= i => p[j] + (i - j) <= p[i]}
<1> HIDE DEF N
<1>3. 0 \in S
  BY <1>1
<1>4. ASSUME NEW i \in 1..N, i - 1 \in S PROVE i \in S
  <2>1. i \in 0..N /\ i - 1 \in 0..N /\ i \in Nat /\ j \in Nat
    BY <1>1
  <2>2. p[i] \in Nat /\ p[i - 1] \in Nat /\ p[j] \in Nat /\ p[i - 1] + 1 <= p[i]
    BY <1>1, <1>2, <2>1
  <2>3. j <= i - 1 => p[j] + ((i - 1) - j) <= p[i - 1]
    BY <1>4
  <2> QED BY <2>1, <2>2, <2>3, SMTT(60)
<1> HIDE DEF S
<1>5. \A i \in 0..N : i \in S
  BY <1>1, <1>3, <1>4, UpTo
<1> QED BY <1>5 DEF S, N

----------------------------------------------------------------------------
(* Cutting a message into pieces.                                          *)

\* Of the bytes e: the size a header at i holds, whether the piece at i is cut
\* short, and where the next one starts.
SizeIn(e, i) == ByteToInt32(SubSeq(e, i + 1, i + SIZE_LEN))
CutAt(e, i) == i + HEAD_LEN > Len(e) + 1 \/ i + HEAD_LEN + SizeIn(e, i) > Len(e) + 1
NextAt(at, e, k) == IF k = 0 THEN 1
                    ELSE IF CutAt(e, at[k - 1]) THEN at[k - 1]
                    ELSE at[k - 1] + HEAD_LEN + SizeIn(e, at[k - 1])

\* The first x bytes.
LEMMA FirstBytes ==
    ASSUME NEW data \in Seq(Int), NEW x \in 0..Len(data)
    PROVE  /\ SubSeq(data, 1, x) \in Seq(Int) /\ Len(SubSeq(data, 1, x)) = x
           /\ \A y \in 1..x : SubSeq(data, 1, x)[y] = data[y]
<1>1. Len(data) \in Nat /\ x \in Nat
  OBVIOUS
<1>2. \A y \in 1..x : data[y] \in Int /\ (1 + y) - 1 = y
  BY <1>1
<1> QED BY <1>1, <1>2, SubSeqProperties

\* A piece that is there, or of which at least the header is.
LEMMA PieceAt ==
    ASSUME NEW list, Message(list), NEW data, NEW p, Laid(data, list, p),
           NEW x \in 0..Len(data), NEW k \in 1..Len(list)
    PROVE  LET e == SubSeq(data, 1, x)
               i == p[k - 1] + 1
           IN /\ p[k - 1] \in Nat /\ p[k] \in Nat /\ p[k - 1] + HEAD_LEN <= p[k]
              /\ p[k - 1] + HEAD_LEN <= x => i + HEAD_LEN + SizeIn(e, i) = p[k] + 1
              /\ p[k] <= x => SubSeq(e, i, p[k]) = Encode(list[k])
<1> DEFINE e == SubSeq(data, 1, x)
           q == p[k - 1]
           s == Encode(list[k])
           l == Len(Payload(list[k]))
<1>1. /\ q \in Nat /\ p[k] \in Nat /\ p[k] = q + Len(s) /\ \A y \in 1..Len(s) : data[q + y] = s[y]
  <2>1. p \in [0..Len(list) -> Nat] /\ k - 1 \in 0..Len(list) /\ k \in 0..Len(list)
    BY DEF Laid
  <2>2. p[k] = q + Len(s) /\ \A y \in 1..Len(s) : data[q + y] = s[y]
    BY DEF Laid
  <2> HIDE DEF s
  <2> QED BY <2>1, <2>2
<1>2. list[k] \in Arg /\ Sendable(list[k])
  BY DEF Message
<1>3. /\ s \in Seq(Int) /\ l \in Nat /\ Len(s) = 5 + l
      /\ SubSeq(s, 2, 5) = Int32ToByte(l)
  BY <1>2, EncodeIs DEF HEAD_LEN, SIZE_LEN
<1>4. Fits(l, 4)
  BY <1>2, PayloadIs
<1>5. data \in Seq(Int) /\ Len(data) \in Nat /\ x \in Nat
  BY DEF Laid
<1>6. e \in Seq(Int) /\ Len(e) = x /\ \A y \in 1..x : e[y] = data[y]
  BY <1>5, FirstBytes
<1> HIDE DEF e, q, s, l
<1>7. ASSUME q + 5 <= x PROVE SubSeq(e, (q + 1) + 1, (q + 1) + 4) = SubSeq(s, 2, 5)
  <2> DEFINE a == SubSeq(e, (q + 1) + 1, (q + 1) + 4)
             b == SubSeq(s, 2, 5)
  <2>1. \A y \in (q + 1) + 1..(q + 1) + 4 : e[y] \in Int
    BY <1>1, <1>5, <1>6, <1>7
  <2>2. a \in Seq(Int) /\ Len(a) = 4 /\ \A y \in 1..4 : a[y] = e[((q + 1) + 1 + y) - 1]
    <3>1. ((q + 1) + 4) - ((q + 1) + 1) + 1 = 4 /\ (q + 1) + 1 <= (q + 1) + 4
          /\ (q + 1) + 1 \in Int /\ (q + 1) + 4 \in Int
      BY <1>1
    <3> QED BY <2>1, <3>1, SubSeqProperties, SMTT(60)
  <2>3. b \in Seq(Int) /\ Len(b) = 4 /\ \A y \in 1..4 : b[y] = s[y + 1]
    <3>1. \A y \in 2..5 : s[y] \in Int
      BY <1>3, SMTT(60)
    <3>2. \A y \in 1..4 : (2 + y) - 1 = y + 1
      OBVIOUS
    <3> QED BY <3>1, <3>2, SubSeqProperties, SMTT(60)
  <2>4. ASSUME NEW y \in 1..4 PROVE a[y] = b[y]
    <3>1. ((q + 1) + 1 + y) - 1 = q + (y + 1) /\ q + (y + 1) \in 1..x /\ y + 1 \in 1..Len(s)
      <4>1. q \in Nat /\ x \in Nat /\ l \in Nat /\ Len(s) = 5 + l /\ q + 5 <= x
        BY <1>1, <1>3, <1>5, <1>7
      <4> QED BY ONLY <4>1, y \in 1..4
    <3>2. a[y] = data[q + (y + 1)]
      BY <1>6, <2>2, <3>1
    <3> QED BY <1>1, <2>3, <3>1, <3>2
  <2> HIDE DEF a, b
  <2> QED BY <2>2, <2>3, <2>4, SeqEqual, ZenonT(60) DEF a, b
<1>8. ASSUME q + 5 <= x PROVE SizeIn(e, q + 1) = l
  <2>1. SizeIn(e, q + 1) = ByteToInt32(SubSeq(e, (q + 1) + 1, (q + 1) + 4))
    BY DEF SizeIn, SIZE_LEN
  <2>2. l \in Int /\ ByteToInt32(Int32ToByte(l)) = l
    BY <1>3, <1>4, Int32Is
  <2> QED BY ONLY <1>3, <1>7, <1>8, <2>1, <2>2
<1>9. ASSUME p[k] <= x PROVE SubSeq(e, q + 1, p[k]) = s
  <2> DEFINE a == SubSeq(e, q + 1, p[k])
  <2>1. \A y \in q + 1..p[k] : e[y] \in Int
    BY <1>1, <1>5, <1>6, <1>9
  <2>2. a \in Seq(Int) /\ Len(a) = Len(s) /\ \A y \in 1..Len(s) : a[y] = e[((q + 1) + y) - 1]
    <3>1. (p[k] - (q + 1)) + 1 = Len(s) /\ q + 1 <= p[k] /\ q + 1 \in Int /\ p[k] \in Int
      BY <1>1, <1>3
    <3> QED BY <2>1, <3>1, SubSeqProperties, SMTT(60)
  <2>3. ASSUME NEW y \in 1..Len(s) PROVE a[y] = s[y]
    <3>1. ((q + 1) + y) - 1 = q + y /\ q + y \in 1..x
      BY <1>1, <1>3, <1>5, <1>9
    <3> QED BY <1>1, <1>6, <2>2, <3>1
  <2> HIDE DEF a
  <2> QED BY <1>3, <2>2, <2>3, SeqEqual DEF a
<1>10. q + 5 <= p[k] /\ (q + 1) + 5 + l = p[k] + 1
  BY <1>1, <1>3
<1>11. HEAD_LEN = 5
  BY DEF HEAD_LEN, SIZE_LEN
<1>12. /\ q \in Nat /\ p[k] \in Nat /\ q + HEAD_LEN <= p[k]
       /\ q + HEAD_LEN <= x => q + 1 + HEAD_LEN + SizeIn(e, q + 1) = p[k] + 1
       /\ p[k] <= x => SubSeq(e, q + 1, p[k]) = s
  BY <1>1, <1>8, <1>9, <1>10, <1>11
<1> QED BY <1>12 DEF q, e, s

\* Of the first x bytes of a message, as many as hold w whole arguments, the
\* pieces are the encodings of these.
LEMMA SliceIs ==
    ASSUME NEW list, Message(list), NEW data, NEW p, Laid(data, list, p),
           NEW x \in 0..Len(data), NEW w \in 0..Len(list),
           p[w] <= x, w < Len(list) => x < p[w + 1]
    PROVE  Slice(SubSeq(data, 1, x)) = [k \in 1..w |-> Encode(list[k])]
<1> DEFINE N == Len(list)
           e == SubSeq(data, 1, x)
           at == CHOOSE at : at = [k \in 0..Len(e) |-> NextAt(at, e, k)]
           n == CHOOSE n \in 0..Len(e) : CutAt(e, at[n]) /\ \A k \in 0..n - 1 : ~CutAt(e, at[k])
<1>1. Slice(e) = [k \in 1..n |-> SubSeq(e, at[k - 1], at[k] - 1)]
  BY DEF Slice, NextAt, CutAt, SizeIn
<1>2. /\ data \in Seq(Int) /\ Len(data) \in Nat /\ x \in Nat /\ N \in Nat /\ w \in Nat
      /\ p[0] = 0 /\ p[N] = Len(data) /\ \A k \in 0..N : p[k] \in Nat
  <2>1. list \in Seq(Arg) /\ data \in Seq(Int) /\ p \in [0..N -> Nat] /\ p[0] = 0 /\ p[N] = Len(data)
    BY DEF Laid, Message
  <2>2. N \in Nat /\ Len(data) \in Nat
    BY <2>1
  <2>3. x \in Nat /\ w \in Nat
    BY <2>2
  <2> QED BY <2>1, <2>2, <2>3
<1>3. Len(e) = x
  BY <1>2, FirstBytes
<1>4. w <= x /\ \A k \in 1..w : k \in 1..N /\ p[k] <= x
  <2>1. ASSUME NEW k \in 1..w PROVE k \in 1..N /\ p[k] <= x
    <3>1. k \in 0..N /\ k <= w /\ k \in 1..N
      BY <1>2
    <3>2. p[k] + (w - k) <= p[w]
      BY <3>1, LaidGrows
    <3> QED BY <1>2, <3>1, <3>2
  <2>2. p[0] + (w - 0) <= p[w]
    <3>1. 0 \in 0..N /\ 0 <= w
      BY <1>2
    <3> QED BY <3>1, LaidGrows
  <2>3. p[w] \in Nat
    BY <1>2
  <2> QED BY <1>2, <2>1, <2>2, <2>3
<1> HIDE DEF e, at, n
<1>5. HEAD_LEN = 5
  BY DEF HEAD_LEN, SIZE_LEN
<1>6. ASSUME NEW k \in 1..w
      PROVE  /\ ~CutAt(e, p[k - 1] + 1) /\ p[k - 1] + 1 + HEAD_LEN + SizeIn(e, p[k - 1] + 1) = p[k] + 1
             /\ SubSeq(e, p[k - 1] + 1, p[k]) = Encode(list[k])
  <2>1. /\ p[k - 1] \in Nat /\ p[k] \in Nat /\ p[k - 1] + HEAD_LEN <= p[k]
        /\ p[k - 1] + HEAD_LEN <= x => p[k - 1] + 1 + HEAD_LEN + SizeIn(e, p[k - 1] + 1) = p[k] + 1
        /\ p[k] <= x => SubSeq(e, p[k - 1] + 1, p[k]) = Encode(list[k])
    BY <1>4, PieceAt, SMTT(60) DEF e
  <2>2. p[k] <= x /\ p[k - 1] + HEAD_LEN <= x
    <3>1. p[k] <= x
      BY <1>4
    <3> DEFINE u == p[k - 1]
               v == p[k]
    <3>2. u \in Nat /\ v \in Nat /\ u + HEAD_LEN <= v /\ v <= x
      BY <2>1, <3>1
    <3> HIDE DEF u, v
    <3>3. u + HEAD_LEN <= x
      BY ONLY <1>2, <1>5, <3>2
    <3> QED BY <3>1, <3>3 DEF u
  <2>3. p[k - 1] + 1 + HEAD_LEN + SizeIn(e, p[k - 1] + 1) = p[k] + 1
    BY <2>1, <2>2
  <2>4. ~(p[k - 1] + 1 + HEAD_LEN > x + 1) /\ ~(p[k] + 1 > x + 1)
    <3> DEFINE u == p[k - 1]
               v == p[k]
    <3>1. u \in Nat /\ v \in Nat /\ u + HEAD_LEN <= x /\ v <= x
      BY <2>1, <2>2
    <3> HIDE DEF u, v
    <3>2. ~(u + 1 + HEAD_LEN > x + 1) /\ ~(v + 1 > x + 1)
      BY ONLY <1>2, <1>5, <3>1
    <3> QED BY <3>2 DEF u, v
  <2> QED BY ONLY <1>3, <2>1, <2>2, <2>3, <2>4 DEF CutAt
<1>7. CutAt(e, p[w] + 1)
  <2>1. CASE w = N
    BY <1>2, <1>3, <2>1 DEF CutAt, HEAD_LEN, SIZE_LEN
  <2>2. CASE w < N
    <3>1. w + 1 \in 1..N /\ (w + 1) - 1 = w /\ x < p[w + 1]
      BY <1>2, <2>2
    <3>2. /\ p[w] \in Nat /\ p[w + 1] \in Nat
          /\ p[w] + HEAD_LEN <= x => p[w] + 1 + HEAD_LEN + SizeIn(e, p[w] + 1) = p[w + 1] + 1
      BY <3>1, PieceAt DEF e
    <3>3. CASE p[w] + HEAD_LEN <= x
      <4>1. p[w] + 1 + HEAD_LEN + SizeIn(e, p[w] + 1) = p[w + 1] + 1 /\ p[w + 1] + 1 > x + 1
        BY <1>2, <3>1, <3>2, <3>3
      <4> QED BY ONLY <1>3, <4>1 DEF CutAt
    <3>4. CASE ~(p[w] + HEAD_LEN <= x)
      BY <1>2, <1>3, <3>2, <3>4 DEF CutAt, HEAD_LEN, SIZE_LEN
    <3> QED BY <3>3, <3>4
  <2> QED BY <1>2, <2>1, <2>2
\* Where the pieces start: at one argument after the other, up to the first that
\* is not whole.
<1> DEFINE a == [k \in 0..x |-> IF k <= w THEN p[k] + 1 ELSE p[w] + 1]
<1>8. a = [k \in 0..x |-> NextAt(a, e, k)]
  <2> SUFFICES ASSUME NEW k \in 0..x PROVE a[k] = NextAt(a, e, k)
    OBVIOUS
  <2>1. CASE k = 0
    BY <1>2, <2>1 DEF NextAt
  <2>2. CASE k # 0 /\ k <= w
    <3>1. k \in 1..w /\ k - 1 \in 0..x /\ k - 1 <= w
      BY <1>2, <2>2
    <3>2. a[k - 1] = p[k - 1] + 1 /\ a[k] = p[k] + 1
      BY <2>2, <3>1
    <3> HIDE DEF a
    <3> QED BY <1>6, <2>2, <3>1, <3>2 DEF NextAt
  <2>3. CASE k # 0 /\ ~(k <= w)
    <3>1. k - 1 \in 0..x /\ (k - 1 <= w => k - 1 = w)
      BY <1>2, <2>3
    <3>2. a[k - 1] = p[w] + 1 /\ a[k] = p[w] + 1
      BY <2>3, <3>1
    <3> HIDE DEF a
    <3> QED BY <1>7, <2>3, <3>2 DEF NextAt
  <2> QED BY <2>1, <2>2, <2>3
<1>9. \A k \in 0..x : at[k] = NextAt(at, e, k)
  <2>1. \E f : f = [k \in 0..Len(e) |-> NextAt(f, e, k)]
    BY <1>3, <1>8
  <2>2. at = [k \in 0..Len(e) |-> NextAt(at, e, k)]
    BY ONLY <2>1 DEF at
  <2> QED BY <1>3, <2>2
<1>10. \A k \in 0..x : at[k] = a[k]
  <2> DEFINE S == {k \in 0..x : at[k] = a[k]}
  <2>1. \A k \in 0..x : a[k] = NextAt(a, e, k)
    BY <1>8
  <2> HIDE DEF a
  <2>2. 0 \in S
    <3>1. 0 \in 0..x
      BY <1>2
    <3> QED BY <1>9, <2>1, <3>1 DEF NextAt
  <2>3. ASSUME NEW k \in 1..x, at[k - 1] = a[k - 1] PROVE at[k] = a[k]
    <3>1. k \in 0..x
      BY <1>2
    <3> QED BY <1>9, <2>1, <2>3, <3>1 DEF NextAt
  <2>4. \A k \in 1..x : k - 1 \in S => k \in S
    BY <2>3
  <2> HIDE DEF S
  <2>5. \A k \in 0..x : k \in S
    BY <1>2, <2>2, <2>4, UpTo
  <2> QED BY <2>5 DEF S
<1>11. \A k \in 0..w : k \in 0..x /\ at[k] = p[k] + 1
  BY <1>2, <1>4, <1>10
<1> HIDE DEF a
<1>12. n = w
  <2> DEFINE Stops(m) == CutAt(e, at[m]) /\ \A k \in 0..m - 1 : ~CutAt(e, at[k])
  <2>1. \A k \in 0..w - 1 : ~CutAt(e, at[k])
    <3> TAKE k \in 0..w - 1
    <3>1. k + 1 \in 1..w /\ (k + 1) - 1 = k /\ k \in 0..w
      BY <1>2
    <3> QED BY <1>6, <1>11, <3>1
  <2>2. w \in 0..x /\ Stops(w)
    <3>1. w \in 0..w /\ w \in 0..x
      BY <1>2, <1>4
    <3> QED BY <1>7, <1>11, <2>1, <3>1
  <2>3. \A m \in 0..x : Stops(m) => m = w
    <3> SUFFICES ASSUME NEW m \in 0..x, Stops(m), m # w PROVE FALSE
      OBVIOUS
    <3>1. m \in 0..w - 1 \/ w \in 0..m - 1
      BY <1>2
    <3> QED BY <2>1, <2>2, <3>1
  <2>4. n = CHOOSE m \in 0..x : Stops(m)
    BY <1>3 DEF n
  <2> HIDE DEF Stops
  <2> QED BY <2>2, <2>3, <2>4
<1>13. ASSUME NEW k \in 1..w PROVE SubSeq(e, at[k - 1], at[k] - 1) = Encode(list[k])
  <2>1. k \in 0..w /\ k - 1 \in 0..w /\ k \in 0..N
    BY <1>2
  <2>2. at[k - 1] = p[k - 1] + 1 /\ at[k] - 1 = p[k]
    BY <1>2, <1>11, <2>1, SMTT(60)
  <2> QED BY <1>6, <2>2
<1> QED BY <1>1, <1>12, <1>13 DEF e
----------------------------------------------------------------------------
(* What comes back.                                                        *)

LEMMA DecodeIs ==
    ASSUME NEW list, Message(list), NEW data, NEW w \in 0..Len(list),
           Slice(data) = [k \in 1..w |-> Encode(list[k])]
    PROVE  Decode(data) = SubSeq(list, 1, w)
<1> DEFINE b == SubSeq(list, 1, w)
           s == Slice(data)
<1>1. b \in Seq(Arg) /\ Len(b) = w /\ w \in Nat /\ \A k \in 1..w : b[k] = list[k]
  BY PrefixIs DEF Message
<1>2. \A k \in 1..w : AnyDecode(Encode(list[k])) = list[k]
  <2> TAKE k \in 1..w
  <2>1. list[k] \in Arg /\ Sendable(list[k])
    BY DEF Message
  <2> QED BY <2>1, ArgumentBack
<1>3. Decode(data) = [k \in DOMAIN s |-> AnyDecode(s[k])]
  BY DEF Decode
<1>4. DOMAIN s = 1..w /\ \A k \in 1..w : s[k] = Encode(list[k])
  OBVIOUS
<1> HIDE DEF b, s
<1>5. Decode(data) = [k \in 1..w |-> list[k]]
  BY <1>2, <1>3, <1>4
<1>6. b = [k \in 1..w |-> b[k]]
  BY <1>1
<1>7. b = [k \in 1..w |-> list[k]]
  BY <1>1, <1>6
<1> QED BY <1>5, <1>7 DEF b

\* LightProto.cpp: a message whose arguments can be sent, of any length, comes back
\* from its bytes.
THEOREM MessageBack ==
    ASSUME NEW list, Message(list)
    PROVE  Decode(EncodeAll(list)) = list
<1> DEFINE data == EncodeAll(list)
           N == Len(list)
           x == Len(data)
<1>1. PICK p : Laid(data, list, p)
  BY LaidOut
<1> HIDE DEF data
<1>2. list \in Seq(Arg) /\ N \in Nat /\ N \in 0..N /\ data \in Seq(Int) /\ x \in 0..x /\ p[N] <= x
  BY <1>1 DEF Message, Laid
<1>3. Slice(SubSeq(data, 1, x)) = [k \in 1..N |-> Encode(list[k])]
  <2>1. N < N => x < p[N + 1]
    BY <1>2
  <2> HIDE DEF x
  <2> QED BY <1>1, <1>2, <2>1, SliceIs, SMTT(60) DEF x
<1>4. SubSeq(data, 1, x) = data
  BY <1>2
<1>5. SubSeq(list, 1, N) = list
  BY <1>2
<1>6. Decode(data) = SubSeq(list, 1, N)
  BY <1>2, <1>3, <1>4, DecodeIs
<1> QED BY <1>5, <1>6 DEF data

\* LightProto.cpp: of the first n bytes of a message come back the arguments that are
\* whole, in their order, and nothing else.
THEOREM CutsAre ==
    ASSUME NEW list, Message(list), NEW n \in 0..Len(EncodeAll(list))
    PROVE  Decode(SubSeq(EncodeAll(list), 1, n)) = SubSeq(list, 1, Whole(list, n))
<1> DEFINE data == EncodeAll(list)
           N == Len(list)
<1>1. PICK p : Laid(data, list, p) /\ \A k \in 0..N : Len(EncodeAll(SubSeq(list, 1, k))) = p[k]
  BY LaidOut
<1>2. /\ N \in Nat /\ DOMAIN list = 1..N /\ n \in Nat /\ n \in 0..Len(data)
      /\ p[0] = 0 /\ p[N] = Len(data) /\ Len(data) \in Nat /\ \A k \in 0..N : p[k] \in Nat
  <2>1. list \in Seq(Arg) /\ data \in Seq(Int) /\ p \in [0..N -> Nat] /\ p[0] = 0 /\ p[N] = Len(data)
    BY <1>1 DEF Message, Laid
  <2>2. n \in 0..Len(data)
    OBVIOUS
  <2>3. N \in Nat /\ DOMAIN list = 1..N
    BY <2>1
  <2>4. n \in Nat /\ Len(data) \in Nat
    BY <2>1, <2>2
  <2> HIDE DEF data, N
  <2> QED BY <2>1, <2>2, <2>3, <2>4
<1> DEFINE K == {k \in DOMAIN list : Len(EncodeAll(SubSeq(list, 1, k))) <= n}
<1> HIDE DEF data
<1>3. PICK w \in 0..N : p[w] <= n /\ (w < N => n < p[w + 1])
  <2> DEFINE S == {k \in 0..N + 1 : k = N + 1 \/ p[k] > n}
  <2>1. S \in SUBSET Nat /\ N + 1 \in S
    BY <1>2
  <2> HIDE DEF S
  <2>2. PICK m \in S : \A k \in S : m <= k
    BY <2>1, LeastNatural
  <2>3. m \in 0..N + 1 /\ (m = N + 1 \/ p[m] > n)
    BY DEF S
  <2>4. m # 0
    BY <1>2, <2>3
  <2>5. m - 1 \in 0..N /\ ~(m <= m - 1) /\ (m - 1 < N => m # N + 1) /\ (m - 1) + 1 = m
        /\ m - 1 \in 0..N + 1
    BY <1>2, <2>3, <2>4
  <2>6. m - 1 \notin S
    BY <2>2, <2>5
  <2>7. ~(p[m - 1] > n) /\ p[m - 1] \in Nat
    BY <1>2, <2>5, <2>6 DEF S
  <2>8. p[m - 1] <= n
    BY <1>2, <2>7
  <2>9. m - 1 < N => n < p[(m - 1) + 1]
    <3>1. CASE m = N + 1
      BY <2>5, <3>1
    <3>2. CASE m # N + 1
      <4>1. m \in 0..N
        BY <1>2, <2>3, <3>2
      <4> QED BY <1>2, <2>3, <2>5, <3>2, <4>1
    <3> QED BY <3>1, <3>2
  <2> QED BY <2>5, <2>8, <2>9
<1>4. K = 1..w
  <2>1. \A k \in 1..N : p[k] <= n <=> k <= w
    <3> TAKE k \in 1..N
    <3>1. k \in 0..N /\ w \in 0..N /\ k \in Nat /\ w \in Nat /\ p[k] \in Nat /\ p[w] \in Nat
      BY <1>2
    <3>2. CASE k <= w
      <4>1. p[k] + (w - k) <= p[w]
        BY <1>1, <3>1, <3>2, LaidGrows
      <4> QED BY <1>2, <1>3, <3>1, <3>2, <4>1
    <3>3. CASE ~(k <= w)
      <4>1. w < N /\ w + 1 \in 0..N /\ w + 1 <= k /\ p[w + 1] \in Nat
        BY <1>2, <3>1, <3>3
      <4>2. p[w + 1] + (k - (w + 1)) <= p[k]
        BY <1>1, <3>1, <4>1, LaidGrows
      <4> QED BY <1>2, <1>3, <3>1, <3>3, <4>1, <4>2
    <3> QED BY <3>2, <3>3
  <2>2. \A k \in 1..N : Len(EncodeAll(SubSeq(list, 1, k))) = p[k]
    BY <1>1, <1>2
  <2>3. K = {k \in 1..N : p[k] <= n}
    BY <1>2, <2>2
  <2> HIDE DEF K
  <2>4. \A k : k \in K <=> k \in 1..w
    BY <1>2, <2>1, <2>3
  <2> QED BY <2>4
<1>5. Whole(list, n) = w
  <2>1. Whole(list, n) = Cardinality(K)
    BY DEF Whole
  <2> HIDE DEF K
  <2>2. Cardinality(1..w) = w
    <3>1. 1 \in Int /\ w \in Int /\ w \in Nat
      BY <1>2
    <3>2. Cardinality(1..w) = IF 1 > w THEN 0 ELSE w - 1 + 1
      BY <3>1, FS_Interval
    <3> QED BY <3>1, <3>2
  <2> QED BY <1>4, <2>1, <2>2
<1>6. Slice(SubSeq(data, 1, n)) = [k \in 1..w |-> Encode(list[k])]
  BY <1>1, <1>2, <1>3, SliceIs
<1>7. Decode(SubSeq(data, 1, n)) = SubSeq(list, 1, w)
  BY <1>6, DecodeIs
<1> QED BY <1>5, <1>7 DEF data

LEMMA RadixSendable ==
    Fits(Radix, 8) /\ \A k \in 2..8 : 2 * Int64ToByte(Radix)[k] < Radix
<1>1. Radix \in Nat /\ Radix >= 8
  BY RadixAssumption
<1>2. Fits(Radix, 8)
  <2>1. Power[8] >= 8 * Radix /\ Power[8] \in Nat
    BY PowerGrows, PowerIs
  <2> QED BY <1>1, <2>1 DEF Fits
<1>3. ASSUME NEW k \in 2..8 PROVE 2 * Int64ToByte(Radix)[k] < Radix
  <2>1. Int64ToByte(Radix)[k] = (Radix \div Power[8 - k]) % Radix
    <3>1. k \in 1..8 /\ 8 \in 0..8
      OBVIOUS
    <3>2. Radix \in Int
      BY <1>1
    <3>3. \A j \in 1..8 : Digits(Radix, 8)[j] = (Radix \div Power[8 - j]) % Radix
      BY ONLY <3>1, <3>2, DigitsAre
    <3> QED BY <3>1, <3>3 DEF Int64ToByte
  <2>2. Radix \div Power[8 - k] \in {0, 1, Radix}
    <3>1. CASE k = 8
      <4>1. Power[8 - k] = 1
        BY <3>1, PowerIs
      <4> QED BY <1>1, <4>1
    <3>2. CASE k = 7
      <4>1. Power[8 - k] = Radix
        BY <3>2, PowerGrows
      <4>2. Radix = Radix * 1 + 0
        BY <1>1
      <4>3. Radix \div Radix = 1
        BY <1>1, <4>2, DivIs
      <4> QED BY <4>1, <4>3
    <3>3. CASE k \in 2..6
      <4>1. 8 - k \in 2..8 /\ 8 - k \in 0..8
        BY <3>3
      <4> DEFINE p == Power[8 - k]
      <4>2. p \in Nat /\ p >= 8 * Radix
        BY <4>1, PowerGrows, PowerIs
      <4> HIDE DEF p
      <4>3. Radix = p * 0 + Radix /\ Radix < p
        BY <1>1, <4>2
      <4>4. Radix \div p = 0
        BY <1>1, <4>2, <4>3, DivIs
      <4> QED BY <4>4 DEF p
    <3> QED BY <3>1, <3>2, <3>3
  <2>3. 0 % Radix = 0 /\ 1 % Radix = 1 /\ Radix % Radix = 0
    <3>1. 0 = Radix * 0 + 0 /\ 1 = Radix * 0 + 1 /\ Radix = Radix * 1 + 0
      BY <1>1
    <3> QED BY <1>1, <3>1, DivIs
  <2> DEFINE d == (Radix \div Power[8 - k]) % Radix
  <2>4. d \in {0, 1}
    BY <2>2, <2>3
  <2> HIDE DEF d
  <2> QED BY <1>1, <2>1, <2>4 DEF d
<1> QED BY <1>2, <1>3

LEMMA SomeArgsSendable ==
    ASSUME NEW a \in SomeArgs
    PROVE  a \in Arg /\ Sendable(a)
<1>1. Radix \in Nat /\ Radix >= 8
  BY RadixAssumption
<1>2. ASSUME NEW s \in {<< >>, <<4, 0, 0, 0, 1>>}, a = [type |-> "STRING", v |-> s]
      PROVE  a \in Arg /\ Sendable(a)
  <2>1. s \in Seq(Byte) /\ s \in Seq(Int) /\ Len(s) \in {0, 5}
    <3>1. 0 \in Byte /\ 1 \in Byte /\ 4 \in Byte
      BY <1>1 DEF Byte
    <3>2. CASE s = << >>
      BY <3>2
    <3>3. CASE s = <<4, 0, 0, 0, 1>>
      BY <3>1, <3>3
    <3> QED BY <3>2, <3>3
  <2>2. Len(s) \in -8..8
    BY <2>1
  <2>3. Fits(Len(s), 4)
    BY <2>2, IntFits
  <2>4. a.type = "STRING" /\ a.v = s /\ a \in Arg
    BY <1>2, <2>1 DEF Arg, Tag
  <2> QED BY <2>1, <2>3, <2>4 DEF Sendable
<1>3. ASSUME NEW n \in Int, NEW t \in DOMAIN Tag, a = [type |-> t, v |-> <<n>>]
      PROVE  a \in Arg /\ a.type = t /\ a.v \in Seq(Int) /\ Len(a.v) = 1 /\ a.v[1] = n
  <2>1. a.type = t /\ a.v = <<n>>
    BY <1>3
  <2>2. <<n>> \in Seq(Int) /\ Len(<<n>>) = 1 /\ <<n>>[1] = n
    OBVIOUS
  <2> QED BY <1>3, <2>1, <2>2 DEF Arg
<1>4. {"INT32", "INT64", "BOOLEAN", "DOUBLE", "FLOAT"} \subseteq DOMAIN Tag
  BY DEF Tag
<1>5. ASSUME NEW n \in {-1, 4}, a = [type |-> "INT32", v |-> <<n>>]
      PROVE  a \in Arg /\ Sendable(a)
  <2>1. n \in Int /\ "INT32" \in DOMAIN Tag /\ n \in -8..8
    BY <1>4
  <2>2. a \in Arg /\ a.type = "INT32" /\ a.v \in Seq(Int) /\ Len(a.v) = 1 /\ a.v[1] = n
    BY ONLY <1>3, <1>5, <2>1
  <2>3. Fits(n, 4)
    BY <2>1, IntFits
  <2> QED BY <2>2, <2>3 DEF Sendable
<1>6. ASSUME a = [type |-> "INT64", v |-> <<Radix>>]
      PROVE  a \in Arg /\ Sendable(a)
  <2>1. Radix \in Int /\ "INT64" \in DOMAIN Tag
    BY <1>1, <1>4
  <2>2. a \in Arg /\ a.type = "INT64" /\ a.v \in Seq(Int) /\ Len(a.v) = 1 /\ a.v[1] = Radix
    BY ONLY <1>3, <1>6, <2>1
  <2> QED BY <2>2, RadixSendable DEF Sendable
<1>7. ASSUME a = [type |-> "BOOLEAN", v |-> << 1 >>]
      PROVE  a \in Arg /\ Sendable(a)
  <2>1. 1 \in Int /\ "BOOLEAN" \in DOMAIN Tag
    BY <1>4
  <2>2. a \in Arg /\ a.type = "BOOLEAN" /\ a.v \in Seq(Int) /\ Len(a.v) = 1 /\ a.v[1] = 1
    BY ONLY <1>3, <1>7, <2>1
  <2> QED BY <2>2 DEF Sendable
<1>8. ASSUME NEW t \in {"DOUBLE", "FLOAT"}, NEW n \in {2, 4}, a = [type |-> t, v |-> <<n>>]
      PROVE  a \in Arg /\ Sendable(a)
  <2>1. n \in Int /\ t \in DOMAIN Tag /\ n % 2 = 0
    BY <1>4
  <2>2. a \in Arg /\ a.type = t /\ a.v \in Seq(Int) /\ Len(a.v) = 1 /\ a.v[1] = n
    BY ONLY <1>3, <1>8, <2>1
  <2> QED BY <2>1, <2>2 DEF Sendable
<1> QED BY <1>2, <1>5, <1>6, <1>7, <1>8 DEF SomeArgs

LEMMA CutsBackHolds == CutsBack
<1> SUFFICES ASSUME NEW len \in 0..2, NEW list \in [1..len -> SomeArgs],
                    NEW n \in 0..Len(EncodeAll(list))
             PROVE  Decode(SubSeq(EncodeAll(list), 1, n)) = SubSeq(list, 1, Whole(list, n))
  BY DEF CutsBack
<1>1. list \in [1..len -> Arg] /\ \A k \in 1..len : Sendable(list[k])
  BY SomeArgsSendable
<1>2. list \in Seq(Arg) /\ Len(list) = len
  BY <1>1
<1> QED BY <1>1, <1>2, CutsAre DEF Message

\* LightProto.cpp: what is encoded comes back: every int32, the int64 whose bytes below
\* the top are small and no others, and messages of SomeArgs cut anywhere.
THEOREM WireKeepsHolds == WireKeeps
BY Int32BackHolds, Int64BackHolds, CutsBackHolds DEF WireKeeps

----------------------------------------------------------------------------
(* Sums.                                                                   *)

\* The sum of the first k.
SumTo(f, g, ps, k) == IF k = 0 THEN 0 ELSE f[k - 1] + g[ps[k]]

LEMMA SumExists ==
    ASSUME NEW g, NEW ps, Len(ps) \in Nat, \A k \in 1..Len(ps) : g[ps[k]] \in Int
    PROVE  \E f \in [0..Len(ps) -> Int] : /\ SumOver(g, ps) = f[Len(ps)]
                                          /\ \A k \in 0..Len(ps) : f[k] = SumTo(f, g, ps, k)
<1> DEFINE N == Len(ps)
           f0 == CHOOSE f : f = [k \in 0..N |-> SumTo(f, g, ps, k)]
           G == [k \in 1..N |-> [v \in Int |-> v + g[ps[k]]]]
<1>1. SumOver(g, ps) = f0[N]
  BY DEF SumOver, SumTo
<1>2. N \in Nat /\ \A k \in 1..N, v \in Int : v + g[ps[k]] \in Int
  OBVIOUS
<1> HIDE DEF N
<1>3. \E f : f = [k \in 0..N |-> SumTo(f, g, ps, k)]
  <2>1. \A k \in 1..N, v \in Int : G[k][v] = v + g[ps[k]] /\ G[k][v] \in Int
    BY <1>2
  <2> HIDE DEF G
  <2>2. PICK f \in [0..N -> Int] : \A k \in 0..N : f[k] = Then(f, 0, G, k)
    <3>1. Stepping(N, Int, 0, G)
      BY <1>2, <2>1 DEF Stepping
    <3> QED BY ONLY <3>1, StepByStep
  <2>3. \A k \in 0..N : f[k] = SumTo(f, g, ps, k)
    <3> TAKE k \in 0..N
    <3>1. k # 0 => k \in 1..N /\ k - 1 \in 0..N
      BY <1>2
    <3> QED BY <2>1, <2>2, <3>1 DEF Then, SumTo
  <2> QED BY <2>3
<1>4. f0 = [k \in 0..N |-> SumTo(f0, g, ps, k)]
  BY <1>3
<1> HIDE DEF f0
<1> DEFINE S == {k \in 0..N : f0[k] \in Int}
<1>5. \A k \in 1..N : k \in 0..N /\ k # 0
  BY <1>2
<1>6. ASSUME NEW k \in 1..N, k - 1 \in S PROVE k \in S
  <2>1. f0[k] = f0[k - 1] + g[ps[k]] /\ k \in 0..N
    BY <1>4, <1>5 DEF SumTo
  <2>2. f0[k - 1] \in Int
    BY <1>6
  <2> QED BY <1>2, <2>1, <2>2
<1>7. 0 \in S
  BY <1>2, <1>4 DEF SumTo
<1> HIDE DEF S
<1>8. \A k \in 0..N : k \in S
  BY <1>2, <1>6, <1>7, UpTo
<1>9. f0 \in [0..N -> Int] /\ \A k \in 0..N : f0[k] = SumTo(f0, g, ps, k)
  BY <1>4, <1>8 DEF S
<1> QED BY <1>1, <1>9 DEF N

LEMMA SumIs ==
    ASSUME NEW g, NEW ps, Len(ps) \in Nat, \A k \in 1..Len(ps) : g[ps[k]] \in Int
    PROVE  SumOver(g, ps) \in Int
BY SumExists

\* Sums of the same numbers are the same.
LEMMA SumSame ==
    ASSUME NEW g, NEW h, NEW ps, Len(ps) \in Nat, \A k \in 1..Len(ps) : g[ps[k]] \in Int,
           \A k \in 1..Len(ps) : g[ps[k]] = h[ps[k]]
    PROVE  SumOver(g, ps) = SumOver(h, ps)
<1>1. Len(ps) \in Nat /\ \A k \in 1..Len(ps) : g[ps[k]] \in Int
  OBVIOUS
<1>2. Len(ps) \in Nat /\ \A k \in 1..Len(ps) : h[ps[k]] \in Int
  OBVIOUS
<1>3. PICK a \in [0..Len(ps) -> Int] :
         SumOver(g, ps) = a[Len(ps)] /\ \A k \in 0..Len(ps) : a[k] = SumTo(a, g, ps, k)
  BY ONLY <1>1, SumExists, ZenonT(60)
<1>4. PICK b \in [0..Len(ps) -> Int] :
         SumOver(h, ps) = b[Len(ps)] /\ \A k \in 0..Len(ps) : b[k] = SumTo(b, h, ps, k)
  BY ONLY <1>2, SumExists
<1> DEFINE D == {k \in 0..Len(ps) : a[k] # b[k]}
<1>5. ASSUME D # {} PROVE FALSE
  <2>1. D \in SUBSET Nat
    OBVIOUS
  <2> HIDE DEF D
  <2>2. PICK n \in D : \A m \in D : n <= m
    BY <1>5, <2>1, LeastNatural
  <2>3. n \in 0..Len(ps) /\ a[n] # b[n]
    BY DEF D
  <2>4. a[n] = SumTo(a, g, ps, n) /\ b[n] = SumTo(b, h, ps, n)
    BY <1>3, <1>4, <2>3
  <2>5. n # 0 => n - 1 \in 0..Len(ps) /\ n \in 1..Len(ps) /\ ~(n <= n - 1)
    BY <2>3
  <2>6. n # 0 => a[n - 1] = b[n - 1]
    BY <2>2, <2>5 DEF D
  <2> QED BY <2>3, <2>4, <2>5, <2>6 DEF SumTo
<1> QED BY <1>3, <1>4, <1>1, <1>5
----------------------------------------------------------------------------
(* Sizes, methods and parts of types.                                      *)

Bases == [T \in Types |-> ToSet(Parents[T])]

LEMMA BasesAre ==
    /\ Bases \in [Types -> SUBSET Types] /\ Grounded(Types, Bases)
    /\ \A T \in Types : /\ Len(Parents[T]) \in Nat /\ DOMAIN Parents[T] = 1..Len(Parents[T])
                        /\ \A k \in 1..Len(Parents[T]) : Parents[T][k] \in Bases[T] /\ Parents[T][k] \in Types
<1>1. \A T \in Types : Parents[T] \in Seq(Types)
  BY TypeAssumption
<1>2. \A T \in Types : /\ Len(Parents[T]) \in Nat /\ DOMAIN Parents[T] = 1..Len(Parents[T])
                       /\ \A k \in 1..Len(Parents[T]) : Parents[T][k] \in ToSet(Parents[T]) /\ Parents[T][k] \in Types
  BY <1>1 DEF ToSet
<1>3. \A T \in Types : ToSet(Parents[T]) \subseteq Types
  BY <1>1 DEF ToSet
<1>4. Grounded(Types, Bases)
  BY HierarchyAssumption DEF Grounded, Bases
<1> QED BY <1>2, <1>3, <1>4 DEF Bases

LEMMA SizesAre == SizeOf \in [Types -> Int]
BY TypeAssumption

\* The bases before the one at k.
Before(T, k) == SubSeq(Parents[T], 1, k - 1)

LEMMA BeforeIs ==
    ASSUME NEW T \in Types, NEW k \in 1..Len(Parents[T])
    PROVE  /\ Len(Before(T, k)) \in Nat /\ Len(Before(T, k)) = k - 1
           /\ \A i \in 1..Len(Before(T, k)) : /\ i \in 1..Len(Parents[T]) /\ i < k
                                              /\ Before(T, k)[i] = Parents[T][i]
                                              /\ Before(T, k)[i] \in ToSet(Before(T, k))
           /\ ToSet(Before(T, k)) \subseteq Bases[T]
<1> DEFINE ps == Parents[T]
           b == Before(T, k)
<1>1. Len(ps) \in Nat /\ \A i \in 1..Len(ps) : ps[i] \in Bases[T]
  BY BasesAre
<1>2. k \in Int /\ k - 1 \in Nat /\ \A i \in 1..k - 1 : i \in 1..Len(ps) /\ i < k
  BY <1>1
<1> HIDE DEF ps
<1>3. /\ b \in Seq(Bases[T])
      /\ Len(b) = IF 1 <= k - 1 THEN k - 1 - 1 + 1 ELSE 0
      /\ \A i \in 1..k - 1 - 1 + 1 : b[i] = ps[1 + i - 1]
  <2>1. 1 \in Int /\ k - 1 \in Int /\ \A i \in 1..k - 1 : ps[i] \in Bases[T]
    BY <1>1, <1>2
  <2> DEFINE n == k - 1
             D == Bases[T]
  <2>2. b = SubSeq(ps, 1, n)
    BY DEF Before, ps
  <2>3. 1 \in Int /\ n \in Int /\ \A i \in 1..n : ps[i] \in D
    BY <2>1
  <2> HIDE DEF b, n, D
  <2>4. /\ SubSeq(ps, 1, n) \in Seq(D)
        /\ Len(SubSeq(ps, 1, n)) = IF 1 <= n THEN n - 1 + 1 ELSE 0
        /\ \A i \in 1..n - 1 + 1 : SubSeq(ps, 1, n)[i] = ps[1 + i - 1]
    BY ONLY <2>3, SubSeqProperties
  <2> QED BY <2>2, <2>4 DEF n, D
<1> HIDE DEF b
<1>4. Len(b) = k - 1
  BY <1>2, <1>3
<1>5. \A i \in 1..k - 1 : b[i] = ps[i]
  <2> TAKE i \in 1..k - 1
  <2>1. i \in 1..k - 1 - 1 + 1 /\ 1 + i - 1 = i
    BY <1>2
  <2> QED BY <1>3, <2>1
<1>6. \A i \in 1..Len(b) : b[i] \in ToSet(b) /\ b[i] \in Bases[T]
  BY <1>3 DEF ToSet
<1>7. ToSet(b) \subseteq Bases[T]
  BY <1>3, <1>6 DEF ToSet
<1> QED BY <1>2, <1>4, <1>5, <1>6, <1>7 DEF b, ps

\* What find_method finds, given what it finds in the bases.
Sought(ps, s) == SumOver([P \in ToSet(ps) |-> s[P].at], ps)
Hits(T, s) == {k \in DOMAIN Parents[T] : s[Parents[T][k]].found}
FindIn(f, T, s) ==
    IF f \in DOMAIN Methods[T] THEN [found |-> TRUE, at |-> 0, params |-> Methods[T][f]]
    ELSE IF Hits(T, s) = {}
         THEN [found |-> FALSE, at |-> Sought(Parents[T], s) + SizeOf[T] - SumOver(SizeOf, Parents[T]),
               params |-> << >>]
         ELSE LET k == CHOOSE k \in Hits(T, s) : \A j \in Hits(T, s) : k <= j
              IN [s[Parents[T][k]] EXCEPT !.at = @ + Sought(Before(T, k), s)]
FindAt(f, T, g) == FindIn(f, T, [P \in ToSet(Parents[T]) |-> g[P]])

Lists(f) == {<< >>} \union {Methods[T][f] : T \in {U \in Types : f \in DOMAIN Methods[U]}}
Found(f) == [found : BOOLEAN, at : Int, params : Lists(f)]

LEMMA HitsAre ==
    ASSUME NEW T \in Types, NEW s, Hits(T, s) # {}
    PROVE  LET k == CHOOSE k \in Hits(T, s) : \A j \in Hits(T, s) : k <= j
           IN /\ k \in Hits(T, s) /\ k \in 1..Len(Parents[T])
              /\ \A j \in Hits(T, s) : k <= j
<1>1. Hits(T, s) \subseteq 1..Len(Parents[T]) /\ Len(Parents[T]) \in Nat
  BY BasesAre DEF Hits
<1>2. Hits(T, s) \in SUBSET Nat
  BY <1>1
<1>3. \E n \in Hits(T, s) : \A m \in Hits(T, s) : n <= m
  BY <1>2, LeastNatural
<1> QED BY <1>1, <1>3

LEMMA SoughtIs ==
    ASSUME NEW T \in Types, NEW s, NEW f, \A P \in Bases[T] : s[P] \in Found(f)
    PROVE  /\ Sought(Parents[T], s) \in Int
           /\ \A k \in 1..Len(Parents[T]) : Sought(Before(T, k), s) \in Int
<1>1. \A P \in Bases[T] : s[P].at \in Int
  BY DEF Found
<1>2. Sought(Parents[T], s) \in Int
  <2> DEFINE g == [P \in ToSet(Parents[T]) |-> s[P].at]
  <2>1. Bases[T] = ToSet(Parents[T])
    BY DEF Bases
  <2>2. Len(Parents[T]) \in Nat /\ \A k \in 1..Len(Parents[T]) : g[Parents[T][k]] \in Int
    BY <1>1, <2>1, BasesAre
  <2> HIDE DEF g
  <2>3. SumOver(g, Parents[T]) \in Int
    BY <2>2, SumIs
  <2> QED BY <2>3 DEF Sought, g
<1>3. ASSUME NEW k \in 1..Len(Parents[T]) PROVE Sought(Before(T, k), s) \in Int
  <2> DEFINE b == Before(T, k)
             g == [P \in ToSet(b) |-> s[P].at]
  <2>1. Len(b) \in Nat /\ \A i \in 1..Len(b) : g[b[i]] \in Int
    BY <1>1, BeforeIs
  <2> HIDE DEF b, g
  <2>2. SumOver(g, b) \in Int
    BY <2>1, SumIs
  <2> QED BY <2>2 DEF Sought, g, b
<1> QED BY <1>2, <1>3

LEMMA FindInType ==
    ASSUME NEW T \in Types, NEW f, NEW s, \A P \in Bases[T] : s[P] \in Found(f)
    PROVE  FindIn(f, T, s) \in Found(f)
<1>1. CASE f \in DOMAIN Methods[T]
  <2>1. Methods[T][f] \in Lists(f) /\ 0 \in Int
    BY <1>1 DEF Lists
  <2> QED BY <1>1, <2>1 DEF FindIn, Found
<1>2. CASE f \notin DOMAIN Methods[T] /\ Hits(T, s) = {}
  <2>1. SumOver(SizeOf, Parents[T]) \in Int /\ SizeOf[T] \in Int
    BY SizesAre, BasesAre, SumIs
  <2>2. Sought(Parents[T], s) + SizeOf[T] - SumOver(SizeOf, Parents[T]) \in Int
    <3>1. Sought(Parents[T], s) \in Int
      BY SoughtIs
    <3> QED BY ONLY <2>1, <3>1
  <2>3. << >> \in Lists(f)
    BY DEF Lists
  <2> QED BY <1>2, <2>2, <2>3 DEF FindIn, Found
<1>3. CASE f \notin DOMAIN Methods[T] /\ Hits(T, s) # {}
  <2> DEFINE k == CHOOSE k \in Hits(T, s) : \A j \in Hits(T, s) : k <= j
             r == s[Parents[T][k]]
  <2>1. k \in 1..Len(Parents[T])
    BY <1>3, HitsAre
  <2>2. FindIn(f, T, s) = [r EXCEPT !.at = @ + Sought(Before(T, k), s)]
    BY <1>3 DEF FindIn
  <2> HIDE DEF k
  <2>3. r \in Found(f)
    BY <2>1, BasesAre
  <2> HIDE DEF r
  <2>4. Sought(Before(T, k), s) \in Int
    BY <2>1, SoughtIs
  <2> QED BY <2>2, <2>3, <2>4 DEF Found
<1> QED BY <1>1, <1>2, <1>3

LEMMA FindsAre ==
    ASSUME NEW f
    PROVE  /\ FindMethod(f) \in [Types -> Found(f)]
           /\ \A T \in Types : FindMethod(f)[T] = FindAt(f, T, FindMethod(f))
<1> DEFINE G == [T \in Types |-> [g \in [Types -> Found(f)] |-> FindAt(f, T, g)]]
<1>1. \A T \in Types : \A g : (\A P \in Bases[T] : g[P] \in Found(f)) => FindAt(f, T, g) \in Found(f)
  <2> SUFFICES ASSUME NEW T \in Types, NEW g, \A P \in Bases[T] : g[P] \in Found(f)
               PROVE  FindAt(f, T, g) \in Found(f)
    OBVIOUS
  <2> DEFINE s == [P \in ToSet(Parents[T]) |-> g[P]]
  <2>1. \A P \in Bases[T] : s[P] \in Found(f)
    BY DEF Bases
  <2> HIDE DEF s
  <2>2. FindIn(f, T, s) \in Found(f)
    BY <2>1, FindInType
  <2> QED BY <2>2 DEF FindAt, s
<1>2. \A T \in Types, g \in [Types -> Found(f)] : G[T][g] \in Found(f)
  BY <1>1, BasesAre
<1>3. \A T \in Types, g, h \in [Types -> Found(f)] : (\A P \in Bases[T] : g[P] = h[P]) => G[T][g] = G[T][h]
  <2> SUFFICES ASSUME NEW T \in Types, NEW g \in [Types -> Found(f)], NEW h \in [Types -> Found(f)],
                      \A P \in Bases[T] : g[P] = h[P]
               PROVE  FindAt(f, T, g) = FindAt(f, T, h)
    OBVIOUS
  <2>1. [P \in ToSet(Parents[T]) |-> g[P]] = [P \in ToSet(Parents[T]) |-> h[P]]
    BY DEF Bases
  <2> QED BY <2>1 DEF FindAt
<1>4. \E g \in [Types -> Found(f)] : g = [T \in Types |-> FindAt(f, T, g)]
  <2>1. \E g \in [Types -> Found(f)] : \A T \in Types : g[T] = G[T][g]
    <3> HIDE DEF G
    <3>1. Recursive(Types, Found(f), Bases, G)
      <4>1. Found(f) # {}
        <5>1. [found |-> FALSE, at |-> 0, params |-> << >>] \in Found(f)
          BY DEF Found, Lists
        <5> QED BY <5>1
      <4> QED BY ONLY <4>1, <1>2, <1>3, BasesAre DEF Recursive
    <3> QED BY ONLY <3>1, Recursion
  <2>2. \A g \in [Types -> Found(f)] : (\A T \in Types : g[T] = G[T][g]) => g = [T \in Types |-> FindAt(f, T, g)]
    OBVIOUS
  <2> HIDE DEF G
  <2> QED BY <2>1, <2>2
<1> DEFINE s == CHOOSE g : g = [T \in Types |-> FindAt(f, T, g)]
<1>5. FindMethod(f) = s
  BY DEF FindMethod, FindAt, FindIn, Hits, Sought, Before
<1>6. s = [T \in Types |-> FindAt(f, T, s)]
  BY <1>4
<1> HIDE DEF s
<1>7. \A T \in Types : s[T] \in Found(f)
  <2> DEFINE D == {T \in Types : s[T] \notin Found(f)}
  <2> SUFFICES ASSUME D # {} PROVE FALSE
    OBVIOUS
  <2>1. PICK T \in D : D \intersect Bases[T] = {}
    BY BasesAre DEF Grounded
  <2>2. T \in Types /\ \A P \in Bases[T] : s[P] \in Found(f)
    BY <2>1, BasesAre
  <2>3. FindAt(f, T, s) \in Found(f)
    BY <1>1, <2>2
  <2>4. s[T] = FindAt(f, T, s)
    BY <1>6, <2>2
  <2>5. s[T] \notin Found(f)
    OBVIOUS
  <2> QED BY <2>3, <2>4, <2>5
<1>8. s \in [Types -> Found(f)]
  BY <1>6, <1>7
<1> QED BY <1>5, <1>6, <1>8

\* The parts of an object of type T, given those of its bases.
Part == [class : Types, at : Int]
Moved(T, k, g) == {[p EXCEPT !.at = @ + BaseAt[T][k]] : p \in g[Parents[T][k]]}
PartsAt(T, g) == {[class |-> T, at |-> 0]} \union UNION {Moved(T, k, g) : k \in DOMAIN Parents[T]}

LEMMA OffsetIs == \A T \in Types : \A k \in 1..Len(Parents[T]) : BaseAt[T][k] \in Int
<1>1. \A T \in Types : BaseAt[T] \in [1..Len(Parents[T]) -> Nat]
  BY TypeAssumption
<1> QED BY <1>1

LEMMA PartsAre ==
    /\ Parts \in [Types -> SUBSET Part]
    /\ \A T \in Types : Parts[T] = PartsAt(T, Parts)
<1> DEFINE V == SUBSET Part
           G == [T \in Types |-> [g \in [Types -> V] |-> PartsAt(T, g)]]
<1>1. \A T \in Types : \A g : (\A P \in Bases[T] : g[P] \in V) => PartsAt(T, g) \in V
  <2> SUFFICES ASSUME NEW T \in Types, NEW g, \A P \in Bases[T] : g[P] \in V
               PROVE  PartsAt(T, g) \in V
    OBVIOUS
  <2>1. [class |-> T, at |-> 0] \in Part
    BY DEF Part
  <2>2. ASSUME NEW k \in DOMAIN Parents[T] PROVE Moved(T, k, g) \subseteq Part
    <3>1. g[Parents[T][k]] \subseteq Part /\ BaseAt[T][k] \in Int
      BY <2>2, BasesAre, OffsetIs
    <3> QED BY <3>1 DEF Moved, Part
  <2> QED BY <2>1, <2>2 DEF PartsAt
<1>2. \A T \in Types, g \in [Types -> V] : G[T][g] \in V
  <2> SUFFICES ASSUME NEW T \in Types, NEW g \in [Types -> V] PROVE PartsAt(T, g) \in V
    OBVIOUS
  <2> HIDE DEF V
  <2>1. \A P \in Bases[T] : g[P] \in V
    BY BasesAre
  <2> QED BY <1>1, <2>1
<1>3. \A T \in Types, g, h \in [Types -> V] : (\A P \in Bases[T] : g[P] = h[P]) => G[T][g] = G[T][h]
  <2> SUFFICES ASSUME NEW T \in Types, NEW g \in [Types -> V], NEW h \in [Types -> V],
                      \A P \in Bases[T] : g[P] = h[P]
               PROVE  PartsAt(T, g) = PartsAt(T, h)
    OBVIOUS
  <2>1. \A k \in DOMAIN Parents[T] : g[Parents[T][k]] = h[Parents[T][k]]
    BY BasesAre
  <2>2. \A k \in DOMAIN Parents[T] : Moved(T, k, g) = Moved(T, k, h)
    BY <2>1 DEF Moved
  <2> QED BY <2>2 DEF PartsAt
<1>4. \E g \in [Types -> V] : g = [T \in Types |-> PartsAt(T, g)]
  <2>1. \E g \in [Types -> V] : \A T \in Types : g[T] = G[T][g]
    <3>1. V # {}
      OBVIOUS
    <3> HIDE DEF G, V
    <3>2. Recursive(Types, V, Bases, G)
      BY ONLY <3>1, <1>2, <1>3, BasesAre DEF Recursive
    <3> QED BY ONLY <3>2, Recursion
  <2>2. \A g \in [Types -> V] : (\A T \in Types : g[T] = G[T][g]) => g = [T \in Types |-> PartsAt(T, g)]
    OBVIOUS
  <2> HIDE DEF G, V
  <2> QED BY <2>1, <2>2
<1> DEFINE s == CHOOSE g : g = [T \in Types |-> PartsAt(T, g)]
<1>5. Parts = s
  BY DEF Parts, PartsAt, Moved
<1>6. s = [T \in Types |-> PartsAt(T, s)]
  BY <1>4
<1> HIDE DEF s, V
<1>7. \A T \in Types : s[T] \in V
  <2> DEFINE D == {T \in Types : s[T] \notin V}
  <2> SUFFICES ASSUME D # {} PROVE FALSE
    OBVIOUS
  <2>1. PICK T \in D : D \intersect Bases[T] = {}
    BY BasesAre DEF Grounded
  <2>2. T \in Types /\ \A P \in Bases[T] : s[P] \in V
    BY <2>1, BasesAre
  <2>3. PartsAt(T, s) \in V
    BY <1>1, <2>2
  <2>4. s[T] = PartsAt(T, s)
    BY <1>6, <2>2
  <2>5. s[T] \notin V
    OBVIOUS
  <2> QED BY <2>3, <2>4, <2>5
<1>8. s \in [Types -> V]
  BY <1>6, <1>7
<1> QED BY <1>5, <1>6, <1>8 DEF V

\* What find_method finds is a part that has the method, and at its offset when bases
\* lie end to end; when it finds nothing no part has it, and what it added up is the
\* size of the object.
HasMethod(p, f) == f \in DOMAIN Methods[p.class]
Located(f, T) ==
    LET m == FindMethod(f)[T]
    IN /\ m.found => \E p \in Parts[T] : /\ HasMethod(p, f) /\ Methods[p.class][f] = m.params
                                         /\ EndToEnd(T) => p.at = m.at
       /\ ~m.found => m.at = SizeOf[T] /\ \A p \in Parts[T] : ~HasMethod(p, f)

\* The parts of a base are parts of the type, moved, and so bases lie end to end
\* in the base when they do in the type.
LEMMA PartOfBase ==
    ASSUME NEW T \in Types, NEW k \in 1..Len(Parents[T]), NEW q \in Parts[Parents[T][k]]
    PROVE  \E p \in Parts[T] : p.class = q.class /\ p.at = q.at + BaseAt[T][k]
<1> DEFINE p == [q EXCEPT !.at = @ + BaseAt[T][k]]
<1>1. q \in Part
  BY PartsAre, BasesAre
<1>2. p.class = q.class /\ p.at = q.at + BaseAt[T][k]
  BY <1>1 DEF Part
<1>3. p \in Moved(T, k, Parts) /\ k \in DOMAIN Parents[T]
  BY BasesAre DEF Moved
<1> HIDE DEF p
<1>4. p \in Parts[T]
  BY <1>3, PartsAre DEF PartsAt
<1> QED BY <1>2, <1>4

LEMMA EndToEndBelow ==
    ASSUME NEW T \in Types, NEW k \in 1..Len(Parents[T]), EndToEnd(T)
    PROVE  BaseAt[T][k] = SumOver(SizeOf, Before(T, k)) /\ EndToEnd(Parents[T][k])
<1> DEFINE p == [class |-> T, at |-> 0]
<1>1. p \in Parts[T] /\ p.class = T
  BY PartsAre DEF PartsAt
<1> HIDE DEF p
<1>2. BaseAt[T][k] = SumOver(SizeOf, Before(T, k))
  BY <1>1, BasesAre DEF EndToEnd, Before
<1>3. EndToEnd(Parents[T][k])
  BY PartOfBase DEF EndToEnd
<1> QED BY <1>2, <1>3

LEMMA LocatedFrom ==
    ASSUME NEW f, NEW T \in Types, \A P \in Bases[T] : Located(f, P)
    PROVE  Located(f, T)
<1> DEFINE s == [P \in ToSet(Parents[T]) |-> FindMethod(f)[P]]
           m == FindMethod(f)[T]
<1>1. m = FindIn(f, T, s)
  BY FindsAre DEF FindAt
<1>2. \A P \in Bases[T] : s[P] = FindMethod(f)[P] /\ s[P] \in Found(f)
  BY FindsAre, BasesAre DEF Bases
<1>3. Parts[T] = PartsAt(T, Parts)
  BY PartsAre
<1>4. \A k \in 1..Len(Parents[T]) : Parents[T][k] \in Bases[T]
  BY BasesAre
<1> HIDE DEF s, m
<1>5. CASE f \in DOMAIN Methods[T]
  <2> DEFINE p == [class |-> T, at |-> 0]
  <2>1. m.found /\ m.at = 0 /\ m.params = Methods[T][f]
    BY <1>1, <1>5 DEF FindIn
  <2>2. p \in Parts[T] /\ p.class = T /\ p.at = 0
    BY <1>3 DEF PartsAt
  <2> HIDE DEF p
  <2> QED BY <1>5, <2>1, <2>2 DEF Located, HasMethod, m
<1>6. CASE f \notin DOMAIN Methods[T] /\ Hits(T, s) = {}
  <2>1. \A k \in 1..Len(Parents[T]) : ~s[Parents[T][k]].found
    BY <1>6, BasesAre DEF Hits
  <2>2. \A k \in 1..Len(Parents[T]) : /\ s[Parents[T][k]].at = SizeOf[Parents[T][k]]
                                      /\ \A p \in Parts[Parents[T][k]] : ~HasMethod(p, f)
    BY <1>2, <1>4, <2>1 DEF Located
  <2>3. Sought(Parents[T], s) = SumOver(SizeOf, Parents[T])
    <3> DEFINE g == [P \in ToSet(Parents[T]) |-> s[P].at]
    <3>1. /\ Len(Parents[T]) \in Nat
          /\ \A k \in 1..Len(Parents[T]) : /\ SizeOf[Parents[T][k]] = g[Parents[T][k]]
                                           /\ SizeOf[Parents[T][k]] \in Int
      BY <1>4, <2>2, BasesAre, SizesAre DEF Bases
    <3> HIDE DEF g
    <3>2. SumOver(SizeOf, Parents[T]) = SumOver(g, Parents[T])
      BY <3>1, SumSame
    <3> QED BY <3>2 DEF Sought, g
  <2>4. ~m.found /\ m.at = Sought(Parents[T], s) + SizeOf[T] - SumOver(SizeOf, Parents[T])
    BY <1>1, <1>6 DEF FindIn
  <2>5. m.at = SizeOf[T]
    <3>1. SumOver(SizeOf, Parents[T]) \in Int /\ SizeOf[T] \in Int
      BY SizesAre, BasesAre, SumIs
    <3> QED BY ONLY <2>3, <2>4, <3>1
  <2>6. ASSUME NEW p \in Parts[T] PROVE ~HasMethod(p, f)
    <3>1. CASE p = [class |-> T, at |-> 0]
      BY <1>6, <3>1 DEF HasMethod
    <3>2. CASE \E k \in DOMAIN Parents[T] : p \in Moved(T, k, Parts)
      <4>1. PICK k \in 1..Len(Parents[T]) : p \in Moved(T, k, Parts)
        BY <3>2, BasesAre
      <4>2. PICK q \in Parts[Parents[T][k]] : p = [q EXCEPT !.at = @ + BaseAt[T][k]]
        BY <4>1 DEF Moved
      <4>3. q \in Part
        BY PartsAre, BasesAre
      <4>4. p.class = q.class
        BY <4>2, <4>3 DEF Part
      <4> QED BY <2>2, <4>4 DEF HasMethod
    <3> QED BY <1>3, <3>1, <3>2 DEF PartsAt
  <2> QED BY <2>4, <2>5, <2>6 DEF Located, m
<1>7. CASE f \notin DOMAIN Methods[T] /\ Hits(T, s) # {}
  <2> DEFINE k == CHOOSE k \in Hits(T, s) : \A j \in Hits(T, s) : k <= j
             P == Parents[T][k]
             b == Before(T, k)
  <2>1. k \in Hits(T, s) /\ k \in 1..Len(Parents[T]) /\ \A j \in Hits(T, s) : k <= j
    BY <1>7, HitsAre
  <2>2. m = [s[P] EXCEPT !.at = @ + Sought(b, s)]
    BY <1>1, <1>7 DEF FindIn
  <2> HIDE DEF k
  <2>3. P \in Bases[T] /\ s[P].found /\ s[P] \in Found(f) /\ Located(f, P)
    BY <1>2, <1>4, <2>1 DEF Hits
  <2>4. \A i \in 1..Len(b) : b[i] \in Bases[T] /\ s[b[i]].at = SizeOf[b[i]]
    <3> TAKE i \in 1..Len(b)
    <3>1. i \in 1..Len(Parents[T]) /\ i < k /\ b[i] = Parents[T][i]
      BY <2>1, BeforeIs
    <3>2. i \notin Hits(T, s)
      <4>1. i \in Int /\ k \in Int /\ ~(k <= i)
        BY <2>1, <3>1
      <4> QED BY <2>1, <4>1
    <3>3. ~s[b[i]].found /\ b[i] \in Bases[T]
      BY <1>4, <3>1, <3>2, BasesAre DEF Hits
    <3> QED BY <1>2, <3>3 DEF Located
  <2>5. Sought(b, s) = SumOver(SizeOf, b)
    <3> DEFINE g == [Q \in ToSet(b) |-> s[Q].at]
    <3>1. /\ Len(b) \in Nat
          /\ \A i \in 1..Len(b) : SizeOf[b[i]] = g[b[i]] /\ SizeOf[b[i]] \in Int
      BY <2>1, <2>4, BeforeIs, BasesAre, SizesAre
    <3> HIDE DEF g, b
    <3>2. SumOver(SizeOf, b) = SumOver(g, b)
      BY <3>1, SumSame
    <3> QED BY <3>2 DEF Sought, g
  <2>6. PICK q \in Parts[P] : /\ HasMethod(q, f) /\ Methods[q.class][f] = s[P].params
                              /\ EndToEnd(P) => q.at = s[P].at
    <3>1. s[P] = FindMethod(f)[P]
      BY <1>2, <2>3
    <3> HIDE DEF P
    <3> QED BY <2>3, <3>1 DEF Located
  <2>7. PICK p \in Parts[T] : p.class = q.class /\ p.at = q.at + BaseAt[T][k]
    BY <2>1, PartOfBase
  <2>8. m.found /\ m.at = s[P].at + SumOver(SizeOf, b) /\ m.params = s[P].params
    BY <2>2, <2>3, <2>5 DEF Found
  <2>9. EndToEnd(T) => p.at = m.at
    BY <2>1, <2>6, <2>7, <2>8, EndToEndBelow
  <2> HIDE DEF P, b
  <2> QED BY <2>6, <2>7, <2>8, <2>9 DEF Located, HasMethod, m
<1> QED BY <1>5, <1>6, <1>7

\* RPCHandler.h:41, find_method: the call finds the method of a part of the object, or
\* no part has the method, whatever the sizes of types and wherever the compiler puts
\* bases; and it is made on that part when the bases lie end to end, so that the sizes
\* find_method adds up say where it starts.
THEOREM FoundIs ==
    ASSUME NEW o \in Objects, NEW f
    PROVE  LET m == FindMethod(f)[TypeOf[o]]
           IN /\ m.found => \E h \in Homes(o, f) : /\ h.params = m.params
                                                   /\ EndToEnd(TypeOf[o]) => h.at = m.at
              /\ ~m.found => Homes(o, f) = {}
<1>1. \A T \in Types : Located(f, T)
  <2> DEFINE D == {T \in Types : ~Located(f, T)}
  <2> SUFFICES ASSUME D # {} PROVE FALSE
    OBVIOUS
  <2>1. PICK T \in D : D \intersect Bases[T] = {}
    BY BasesAre DEF Grounded
  <2>2. T \in Types /\ \A P \in Bases[T] : Located(f, P)
    BY <2>1, BasesAre
  <2>3. Located(f, T)
    BY <2>2, LocatedFrom
  <2>4. ~Located(f, T)
    OBVIOUS
  <2> QED BY <2>3, <2>4
<1>2. Located(f, TypeOf[o])
  BY <1>1, TypeAssumption
<1>3. CASE FindMethod(f)[TypeOf[o]].found
  <2> DEFINE m == FindMethod(f)[TypeOf[o]]
  <2>1. PICK p \in Parts[TypeOf[o]] : /\ HasMethod(p, f) /\ Methods[p.class][f] = m.params
                                      /\ EndToEnd(TypeOf[o]) => p.at = m.at
    <3> DEFINE T == TypeOf[o]
    <3> HIDE DEF T
    <3>1. /\ FindMethod(f)[T].found
          /\ Located(f, T)
      BY <1>2, <1>3 DEF T
    <3>2. \E p \in Parts[T] : /\ HasMethod(p, f) /\ Methods[p.class][f] = FindMethod(f)[T].params
                              /\ EndToEnd(T) => p.at = FindMethod(f)[T].at
      BY <3>1 DEF Located
    <3> QED BY <3>2 DEF T
  <2> HIDE DEF m
  <2> DEFINE h == [at |-> p.at, params |-> Methods[p.class][f]]
  <2>2. h \in Homes(o, f) /\ h.params = Methods[p.class][f] /\ h.at = p.at
    BY <2>1 DEF Homes, HasMethod
  <2> HIDE DEF h
  <2> QED BY <1>3, <2>1, <2>2 DEF m
<1>4. CASE ~FindMethod(f)[TypeOf[o]].found
  BY <1>2, <1>4 DEF Located, Homes, HasMethod
<1> QED BY <1>3, <1>4
----------------------------------------------------------------------------
(* The invariant.                                                          *)

\* Nobody listens twice to a name.
Once(l) == \A j, k \in DOMAIN l : l[j] = l[k] => j = k
IsList(l) == l \in Seq(Objects) /\ Once(l)

\* What is called is a message that was sent, without its name.
Arguments(m) == EraseFirst([k \in DOMAIN m |-> Holding(m[k])])
Telling == \E m \in Messages : /\ IsNamed(m)
                               /\ funcname = m[1].v
                               /\ args = Arguments(m)

BusInv ==
    /\ \A f \in DOMAIN Slot : IsList(Slot[f]) /\ (f \notin Names => Slot[f] = << >>)
    /\ listener \in Nat /\ inside \in BOOLEAN
    /\ inside => listener > 0
    /\ listener > 0 => /\ funcname \in DOMAIN Slot /\ listener <= Len(Slot[funcname])
                       /\ Telling
    /\ ~Has("any")

\* The application takes no listener off a list that is followed by one of its type.
Kinds == \A h \in Profiles : "any" \notin h
----------------------------------------------------------------------------
(* Lists of listeners.                                                     *)

LEMMA HeardIs ==
    ASSUME BusInv, NEW f
    PROVE  IsList(Heard(f)) /\ (f \notin Names => Heard(f) = << >>)
<1>1. << >> \in Seq(Objects) /\ Once(<< >>)
  BY DEF Once
<1> QED BY <1>1 DEF Heard, At, BusInv, IsList

LEMMA AddedIs ==
    ASSUME NEW l, IsList(l), NEW o \in Objects
    PROVE  IsList(Added(l, o)) /\ Added(l, o) = Bus!Added(l, o)
<1>1. ToSet(l) = Bus!Members(l)
  BY DEF ToSet, Bus!Members
<1>2. Added(l, o) = Bus!Added(l, o)
  BY <1>1 DEF Added, Bus!Added
<1>3. CASE o \in ToSet(l)
  BY <1>2, <1>3 DEF Added
<1>4. CASE o \notin ToSet(l)
  <2>1. l \in Seq(Objects) /\ Once(l)
    BY DEF IsList
  <2> DEFINE a == Append(l, o)
  <2>2. a \in Seq(Objects) /\ Len(a) = Len(l) + 1 /\ a[Len(l) + 1] = o
        /\ \A k \in 1..Len(l) : a[k] = l[k]
    BY <2>1
  <2>3. \A k \in 1..Len(l) : l[k] # o
    BY <1>4, <2>1 DEF ToSet
  <2> HIDE DEF a
  <2>4. Once(a)
    <3> SUFFICES ASSUME NEW j \in 1..Len(l) + 1, NEW k \in 1..Len(l) + 1, a[j] = a[k]
                 PROVE  j = k
      BY <2>2 DEF Once
    <3>1. Len(l) \in Nat
      BY <2>1
    <3>2. (j \in 1..Len(l) \/ j = Len(l) + 1) /\ (k \in 1..Len(l) \/ k = Len(l) + 1)
      BY <3>1
    <3>3. CASE j \in 1..Len(l) /\ k \in 1..Len(l)
      BY <2>1, <2>2, <3>3 DEF Once
    <3> QED BY <2>2, <2>3, <3>2, <3>3
  <2> QED BY <1>2, <1>4, <2>2, <2>4 DEF Added, IsList, a
<1> QED BY <1>2, <1>3, <1>4

LEMMA WithoutIs ==
    ASSUME NEW l, IsList(l), NEW o, Unlike(l, o)
    PROVE  IsList(Without(l, o)) /\ Without(l, o) = Bus!Removed(l, o)
<1>1. ToSet(l) = Bus!Members(l)
  BY DEF ToSet, Bus!Members
<1>2. l \in Seq(Objects) /\ Once(l) /\ Len(l) \in Nat
  BY DEF IsList
<1>3. CASE o \notin ToSet(l)
  BY <1>1, <1>3 DEF Without, Bus!Removed
<1>4. CASE o \in ToSet(l)
  <2> DEFINE i == Pos(l, o)
             w == [k \in 1..Len(l) - 1 |-> l[IF k < i THEN k ELSE k + 1]]
  <2>1. i \in 1..Len(l) /\ l[i] = o
    BY <1>2, <1>4 DEF ToSet, Pos
  <2>2. Bus!Removed(l, o) = w
    BY <1>1, <1>4 DEF Bus!Removed, Pos
  <2>3. \A k \in i..Len(l) - 1 : ~Alike(l, k)
    BY <1>4 DEF Unlike
  <2> HIDE DEF i
  <2>4. Without(l, o) = w
    <3>1. Without(l, o) = Erased(l, i)
      BY <1>4 DEF Without, i
    <3>2. \A k \in 1..Len(l) - 1 : k < i \/ k \in i..Len(l) - 1
      BY <1>2, <2>1
    <3> QED BY <2>3, <3>1, <3>2 DEF Erased
  <2>5. w \in Seq(Objects) /\ Len(w) = Len(l) - 1
    <3>1. Len(l) - 1 \in Nat
      BY <1>2, <2>1
    <3>2. \A k \in 1..Len(l) - 1 : l[IF k < i THEN k ELSE k + 1] \in Objects
      BY <1>2, <2>1
    <3> QED BY <3>1, <3>2
  <2>6. Once(w)
    <3> SUFFICES ASSUME NEW j \in 1..Len(l) - 1, NEW k \in 1..Len(l) - 1, w[j] = w[k]
                 PROVE  j = k
      BY DEF Once
    <3> DEFINE p == IF j < i THEN j ELSE j + 1
               q == IF k < i THEN k ELSE k + 1
    <3>1. p \in 1..Len(l) /\ q \in 1..Len(l) /\ l[p] = l[q]
      BY <1>2, <2>1
    <3>2. p = q
      <4> HIDE DEF p, q
      <4> QED BY <1>2, <3>1 DEF Once
    <3> QED BY <2>1, <3>2
  <2> QED BY <2>2, <2>4, <2>5, <2>6 DEF IsList
<1> QED BY <1>3, <1>4
----------------------------------------------------------------------------
(* Changes of the lists.                                                   *)

LEMMA BusInit == Kinds /\ Init => BusInv /\ Bus!Init
<1> SUFFICES ASSUME Kinds, Init PROVE BusInv /\ Bus!Init
  OBVIOUS
<1>1. /\ DOMAIN Slot = {} /\ listener = 0 /\ inside = FALSE /\ funcname = << >> /\ args = << >>
      /\ calls = << >> /\ habits \in Profiles
  BY DEF Init, EmptyMap
<1>2. BusInv
  <2>1. ~Has("any")
    BY <1>1 DEF Kinds, Has
  <2>2. 0 \in Nat /\ ~(0 > 0)
    OBVIOUS
  <2> QED BY <1>1, <2>1, <2>2 DEF BusInv
<1>3. Subscribed = [f \in Names |-> << >>]
  BY <1>1 DEF Subscribed, Heard, At
<1>4. [k \in DOMAIN args |-> [type |-> args[k].of, v |-> args[k].v]] = << >>
  BY <1>1
<1>5. Event = << << >>, << >> >>
  BY <1>1, <1>4 DEF Event
<1>6. Todo = << >>
  BY <1>1 DEF Todo
<1> QED BY <1>1, <1>2, <1>3, <1>5, <1>6 DEF Bus!Init

\* The application changes lists only, and not the one that is gone over.
LEMMA AppChange ==
    ASSUME BusInv, NEW slot, MayAct, Change(slot), UNCHANGED <<dispatch, calls, habits>>,
           \A f \in DOMAIN slot : IsList(slot[f]) /\ (f \notin Names => slot[f] = << >>),
           DOMAIN Slot \subseteq DOMAIN slot
    PROVE  /\ BusInv'
           /\ Slot' = slot \/ Slot' = Slot
           /\ Todo' = Todo /\ Event' = Event
<1>1. UNCHANGED <<funcname, args, listener, inside, habits>>
  BY DEF dispatch
<1>2. listener > 0 => inside
  BY DEF MayAct, BusInv
<1>3. CASE Slot' = Slot
  BY <1>1, <1>3 DEF BusInv, Todo, Event, Has, Telling
<1>4. CASE Slot' = slot /\ ~(inside /\ slot[funcname] # Slot[funcname])
  <2>1. listener > 0 => Slot'[funcname] = Slot[funcname]
    BY <1>2, <1>4
  <2>2. Todo' = Todo
    BY <1>1, <1>2, <2>1 DEF Todo, BusInv
  <2>3. Event' = Event
    BY <1>1 DEF Event
  <2>4. BusInv'
    BY <1>1, <1>2, <1>4, <2>1 DEF BusInv, Has, Telling
  <2> QED BY <1>4, <2>2, <2>3, <2>4
<1> QED BY <1>3, <1>4 DEF Change

LEMMA SubscribeStep ==
    ASSUME BusInv, NEW o \in Objects, NEW F, F \subseteq Names, SubscribeTo(o, F)
    PROVE  BusInv' /\ (Bus!Next \/ UNCHANGED Bus!vars)
<1> DEFINE slot == [f \in DOMAIN Slot \union F |-> IF f \in F THEN Added(Heard(f), o) ELSE Slot[f]]
<1>1. MayAct /\ Change(slot) /\ UNCHANGED <<dispatch, calls, habits>>
  BY DEF SubscribeTo
<1>2. \A f \in DOMAIN slot : IsList(slot[f]) /\ (f \notin Names => slot[f] = << >>)
  BY HeardIs, AddedIs DEF BusInv
<1>3. DOMAIN Slot \subseteq DOMAIN slot
  OBVIOUS
<1>4. /\ BusInv'
      /\ Slot' = slot \/ Slot' = Slot
      /\ Todo' = Todo /\ Event' = Event
  <2> HIDE DEF slot
  <2> QED BY <1>1, <1>2, <1>3, AppChange
<1>5. CASE Slot' = Slot
  BY <1>1, <1>4, <1>5 DEF Bus!vars, Subscribed, Heard, At
<1>6. CASE Slot' = slot
  <2>1. ASSUME NEW f \in Names
        PROVE  Heard(f)' = IF f \in F THEN Bus!Added(Heard(f), o) ELSE Heard(f)
    <3>1. CASE f \in F
      BY <1>6, <3>1, HeardIs, AddedIs DEF Heard, At
    <3>2. CASE f \notin F
      BY <1>6, <3>2 DEF Heard, At
    <3> QED BY <3>1, <3>2
  <2>2. Subscribed' = [f \in Names |-> IF f \in F THEN Bus!Added(Subscribed[f], o) ELSE Subscribed[f]]
    BY <2>1 DEF Subscribed
  <2>3. Bus!Subscribe(o, F)
    BY <1>1, <1>4, <2>2 DEF Bus!Subscribe
  <2> QED BY <1>4, <2>3 DEF Bus!Next
<1> QED BY <1>4, <1>5, <1>6

LEMMA UnsubscribeStep ==
    ASSUME BusInv, NEW o \in Objects, NEW F, UnsubscribeFrom(o, F)
    PROVE  BusInv' /\ (Bus!Next \/ UNCHANGED Bus!vars)
<1> DEFINE slot == [f \in DOMAIN Slot \union F |-> IF f \in F THEN Without(Heard(f), o) ELSE Slot[f]]
<1>1. /\ MayAct /\ Change(slot) /\ UNCHANGED <<dispatch, calls, habits>>
      /\ \A f \in F : Unlike(Heard(f), o)
  BY DEF UnsubscribeFrom, BusInv
<1>2. \A f \in F : IsList(Without(Heard(f), o)) /\ Without(Heard(f), o) = Bus!Removed(Heard(f), o)
  BY <1>1, HeardIs, WithoutIs
<1>3. \A f \in DOMAIN slot : IsList(slot[f]) /\ (f \notin Names => slot[f] = << >>)
  <2>1. \A f \in F : f \notin Names => Without(Heard(f), o) = << >>
    BY HeardIs DEF Without, ToSet
  <2> QED BY <1>2, <2>1 DEF BusInv
<1>4. DOMAIN Slot \subseteq DOMAIN slot
  OBVIOUS
<1>5. /\ BusInv'
      /\ Slot' = slot \/ Slot' = Slot
      /\ Todo' = Todo /\ Event' = Event
  <2> HIDE DEF slot
  <2> QED BY <1>1, <1>3, <1>4, AppChange
<1>6. CASE Slot' = Slot
  BY <1>1, <1>5, <1>6 DEF Bus!vars, Subscribed, Heard, At
<1>7. CASE Slot' = slot
  <2>1. ASSUME NEW f \in Names
        PROVE  Heard(f)' = IF f \in F THEN Bus!Removed(Heard(f), o) ELSE Heard(f)
    <3>1. CASE f \in F
      BY <1>2, <1>7, <3>1 DEF Heard, At
    <3>2. CASE f \notin F
      BY <1>7, <3>2 DEF Heard, At
    <3> QED BY <3>1, <3>2
  <2> DEFINE G == F \intersect Names
  <2>2. Subscribed' = [f \in Names |-> IF f \in G THEN Bus!Removed(Subscribed[f], o) ELSE Subscribed[f]]
    BY <2>1 DEF Subscribed
  <2>3. Bus!Unsubscribe(o, G)
    BY <1>1, <1>5, <2>2 DEF Bus!Unsubscribe
  <2> QED BY <1>5, <2>3 DEF Bus!Next
<1> QED BY <1>5, <1>6, <1>7

LEMMA AppSafe ==
    ASSUME BusInv, AppStep
    PROVE  BusInv' /\ (Bus!Next \/ UNCHANGED Bus!vars)
<1>1. \A o \in Objects : DOMAIN Methods[TypeOf[o]] \subseteq Names
  BY TypeAssumption, MethodsAssumption
<1>2. \A o \in Objects : SubscribeAll(o) => BusInv' /\ (Bus!Next \/ UNCHANGED Bus!vars)
  BY <1>1, SubscribeStep DEF SubscribeAll
<1>3. \A o \in Objects : UnsubscribeAll(o) => BusInv' /\ (Bus!Next \/ UNCHANGED Bus!vars)
  BY UnsubscribeStep DEF UnsubscribeAll
<1>4. \A o \in Objects, f \in Names : Subscribe(o, f) => BusInv' /\ (Bus!Next \/ UNCHANGED Bus!vars)
  <2>1. \A f \in Names : {f} \subseteq Names
    OBVIOUS
  <2> QED BY <2>1, SubscribeStep DEF Subscribe
<1>5. \A o \in Objects, f \in Names : Unsubscribe(o, f) => BusInv' /\ (Bus!Next \/ UNCHANGED Bus!vars)
  BY UnsubscribeStep DEF Unsubscribe
<1> QED BY <1>2, <1>3, <1>4, <1>5 DEF AppStep
----------------------------------------------------------------------------
(* Dispatch.                                                               *)

LEMMA AssignIs ==
    ASSUME NEW a, NEW b
    PROVE  /\ Assign(Holding(a), Holding(b)).of = b.type
           /\ Assign(Holding(a), Holding(b)).v = b.v
           /\ LET t == Assign(Holding(a), Holding(b)).type IN
              t = b.type \/ SameSize(t, b.type)
BY DEF Assign, Holding, SameSize

\* Moving the arguments up by assignment keeps what was sent, under labels of the
\* same size.
LEMMA ArgumentsAre ==
    ASSUME NEW m \in Messages, IsNamed(m)
    PROVE  /\ Len(m) - 1 \in Nat /\ Len(Arguments(m)) = Len(m) - 1
           /\ DOMAIN Arguments(m) = 1..Len(m) - 1
           /\ \A k \in 1..Len(m) - 1 : LET a == Arguments(m)[k] IN
                 /\ a.of = m[k + 1].type /\ a.v = m[k + 1].v
                 /\ a.type = a.of \/ SameSize(a.type, a.of)
           /\ [k \in DOMAIN Arguments(m) |-> [type |-> Arguments(m)[k].of, v |-> Arguments(m)[k].v]] = Tail(m)
<1>1. m \in Seq([type : DOMAIN Tag, v : Seq(Int)]) /\ m # << >>
  BY MessagesAssumption DEF IsNamed
<1>2. Len(m) \in Nat /\ Len(m) - 1 \in Nat
  BY <1>1
<1> DEFINE h == [k \in DOMAIN m |-> Holding(m[k])]
           A == Arguments(m)
<1>3. Len(h) = Len(m) /\ \A k \in 1..Len(m) : h[k] = Holding(m[k])
  BY <1>1, <1>2
<1>4. A = [k \in 1..Len(m) - 1 |-> Assign(Holding(m[k]), Holding(m[k + 1]))]
  <2>1. \A k \in 1..Len(m) - 1 : k \in 1..Len(m) /\ k + 1 \in 1..Len(m)
    BY <1>2
  <2> HIDE DEF h
  <2>2. A = [k \in 1..Len(m) - 1 |-> Assign(h[k], h[k + 1])]
    BY <1>3 DEF Arguments, EraseFirst, h
  <2> QED BY <1>3, <2>1, <2>2
<1> HIDE DEF A, h
<1>5. DOMAIN A = 1..Len(m) - 1 /\ Len(A) = Len(m) - 1
  BY <1>2, <1>4
<1>6. \A k \in 1..Len(m) - 1 : /\ A[k].of = m[k + 1].type /\ A[k].v = m[k + 1].v
                               /\ A[k].type = A[k].of \/ SameSize(A[k].type, A[k].of)
  BY <1>4, AssignIs
<1>7. /\ Tail(m) \in Seq([type : DOMAIN Tag, v : Seq(Int)]) /\ Len(Tail(m)) = Len(m) - 1
      /\ \A k \in 1..Len(Tail(m)) : Tail(m)[k] = m[k + 1]
  BY <1>1, HeadTailProperties
<1>8. \A k \in 1..Len(m) - 1 : Tail(m)[k] = [type |-> A[k].of, v |-> A[k].v]
  <2> TAKE k \in 1..Len(m) - 1
  <2>1. k + 1 \in 1..Len(m)
    BY <1>2
  <2>2. m[k + 1] \in [type : DOMAIN Tag, v : Seq(Int)]
    <3> DEFINE D == [type : DOMAIN Tag, v : Seq(Int)]
    <3>1. m \in Seq(D)
      BY <1>1
    <3> HIDE DEF D
    <3>2. m[k + 1] \in D
      BY <2>1, <3>1, ElementOfSeq
    <3> QED BY <3>2 DEF D
  <2>3. m[k + 1] = [type |-> m[k + 1].type, v |-> m[k + 1].v]
    BY <2>2
  <2> QED BY <1>6, <1>7, <2>3
<1>9. [k \in DOMAIN A |-> [type |-> A[k].of, v |-> A[k].v]] = Tail(m)
  <2> DEFINE B == [k \in 1..Len(m) - 1 |-> [type |-> A[k].of, v |-> A[k].v]]
  <2>1. B = Tail(m)
    <3>1. DOMAIN Tail(m) = 1..Len(m) - 1
      BY <1>2, <1>7
    <3>2. Tail(m) = [k \in 1..Len(m) - 1 |-> Tail(m)[k]]
      <4> DEFINE D == [type : DOMAIN Tag, v : Seq(Int)]
                 t == Tail(m)
      <4>1. t \in Seq(D) /\ Len(t) = Len(m) - 1
        BY <1>7
      <4> HIDE DEF D, t
      <4>2. t = [k \in 1..Len(t) |-> t[k]]
        BY <4>1
      <4>3. t = [k \in 1..Len(m) - 1 |-> t[k]]
        BY <4>1, <4>2
      <4> QED BY <4>3 DEF t
    <3> QED BY <1>8, <3>2
  <2> QED BY <1>5, <2>1
<1> QED BY <1>2, <1>5, <1>6, <1>9 DEF A

\* What is sent arrives.
LEMMA Arrives ==
    ASSUME AllSendable, NEW m \in Messages
    PROVE  Decode(EncodeAll(m)) = m
<1>1. m \in Seq(Arg)
  BY MessagesAssumption DEF Arg
<1>2. \A k \in 1..Len(m) : k \in DOMAIN m
  BY <1>1
<1>3. Message(m)
  BY <1>1, <1>2 DEF Message, AllSendable
<1> QED BY <1>3, MessageBack

LEMMA DispatchStep ==
    ASSUME BusInv, AllSendable, NEW m \in Messages, Dispatch(Decode(EncodeAll(m)))
    PROVE  BusInv' /\ Bus!Next
<1>1. Dispatch(m)
  BY Arrives
<1>2. /\ listener = 0 /\ IsNamed(m) /\ funcname' = m[1].v /\ args' = Arguments(m)
      /\ Slot' = Touch(Slot, {funcname'}, << >>)
      /\ listener' = IF Slot'[funcname'] = << >> THEN 0 ELSE 1
      /\ calls' = << >> /\ UNCHANGED <<contents, inside, fate, habits>>
  BY <1>1 DEF Dispatch, Arguments
<1>3. inside = FALSE
  BY <1>2 DEF BusInv
<1>4. DOMAIN Slot' = DOMAIN Slot \union {funcname'} /\ \A f \in DOMAIN Slot' : Slot'[f] = Heard(f)
  BY <1>2 DEF Touch, Heard, At
<1>5. \A f \in DOMAIN Slot' : IsList(Slot'[f]) /\ (f \notin Names => Slot'[f] = << >>)
  BY <1>4, HeardIs
<1>6. Telling'
  BY <1>2 DEF Telling
<1>7. listener' \in {0, 1} /\ (listener' = 1 => Len(Slot'[funcname']) >= 1)
  <2>1. Slot'[funcname'] \in Seq(Objects)
    BY <1>4, <1>5 DEF IsList
  <2> QED BY <1>2, <2>1
<1>8. BusInv'
  <2>1. listener' \in Nat /\ inside' = FALSE /\ inside' \in BOOLEAN
    BY <1>2, <1>3, <1>7
  <2>2. listener' > 0 => funcname' \in DOMAIN Slot' /\ listener' <= Len(Slot'[funcname'])
    <3>1. Slot'[funcname'] \in Seq(Objects) /\ Len(Slot'[funcname']) \in Nat
      BY <1>4, <1>5 DEF IsList
    <3> QED BY <1>4, <1>7, <3>1
  <2>3. ~Has("any")'
    BY <1>2 DEF BusInv, Has
  <2> QED BY <1>5, <1>6, <2>1, <2>2, <2>3 DEF BusInv
<1>9. Subscribed' = Subscribed
  <2>1. \A f \in Names : Heard(f)' = Heard(f)
    BY <1>4, <1>2 DEF Heard, At, Touch
  <2> QED BY <2>1 DEF Subscribed
<1>10. Todo = << >>
  BY <1>2 DEF Todo
<1>11. Todo' = Slot'[funcname']
  <2>1. CASE Slot'[funcname'] = << >>
    BY <1>2, <2>1 DEF Todo
  <2>2. CASE Slot'[funcname'] # << >>
    <3>1. Slot'[funcname'] \in Seq(Objects)
      BY <1>4, <1>5 DEF IsList
    <3>2. Todo' = SubSeq(Slot'[funcname'], 1, Len(Slot'[funcname']))
      BY <1>2, <1>3, <2>2 DEF Todo
    <3> QED BY <3>1, <3>2
  <2> QED BY <2>1, <2>2
<1>12. Todo' = IF funcname' \in Names THEN Subscribed[funcname'] ELSE << >>
  BY <1>4, <1>5, <1>11 DEF Subscribed
<1>13. Event' = <<m[1].v, Tail(m)>>
  <2>1. [k \in DOMAIN args' |-> [type |-> args'[k].of, v |-> args'[k].v]] = Tail(m)
    BY <1>2, ArgumentsAre
  <2> QED BY <1>2, <2>1 DEF Event
<1>14. Bus!Publish(m[1].v, Tail(m))
  BY <1>2, <1>9, <1>10, <1>12, <1>13 DEF Bus!Publish
<1>15. <<m[1].v, Tail(m)>> \in Sent
  BY <1>2 DEF Sent
<1>16. Bus!Next
  <2> DEFINE n == <<m[1].v, Tail(m)>>
  <2>1. n \in Sent /\ n[1] = m[1].v /\ n[2] = Tail(m)
    BY <1>15
  <2> HIDE DEF n
  <2> QED BY <1>14, <2>1 DEF Bus!Next
<1> QED BY <1>8, <1>16

\* Between two calls nothing happens on the bus.
LEMMA ReturnStep ==
    ASSUME BusInv, Return
    PROVE  BusInv' /\ UNCHANGED Bus!vars
<1>1. /\ inside /\ inside' = FALSE
      /\ listener' = IF listener = Len(Slot[funcname]) THEN 0 ELSE listener + 1
      /\ UNCHANGED <<Slot, contents, funcname, args, fate, calls, habits>>
  BY DEF Return
<1>2. /\ listener \in Nat /\ listener > 0 /\ funcname \in DOMAIN Slot
      /\ listener <= Len(Slot[funcname]) /\ Telling
      /\ Slot[funcname] \in Seq(Objects) /\ Len(Slot[funcname]) \in Nat
  BY <1>1 DEF BusInv, IsList
<1>3. BusInv'
  <2>1. listener' \in Nat /\ listener' <= Len(Slot[funcname])
    BY <1>1, <1>2
  <2> QED BY <1>1, <1>2, <2>1 DEF BusInv, Has, Telling
<1>4. Todo' = Todo
  <2>1. Todo = SubSeq(Slot[funcname], listener + 1, Len(Slot[funcname]))
    BY <1>1, <1>2 DEF Todo
  <2>2. CASE listener = Len(Slot[funcname])
    <3>1. Todo' = << >>
      BY <1>1, <2>2 DEF Todo
    <3>2. Todo = << >>
      BY <1>2, <2>1, <2>2
    <3> QED BY <3>1, <3>2
  <2>3. CASE listener # Len(Slot[funcname])
    <3>1. listener' = listener + 1 /\ listener' # 0
      BY <1>1, <1>2, <2>3
    <3>2. listener + 1 + 0 = listener + 1
      BY <1>2
    <3> QED BY <1>1, <2>1, <3>1, <3>2 DEF Todo
  <2> QED BY <2>2, <2>3
<1>5. Subscribed' = Subscribed /\ Event' = Event
  BY <1>1 DEF Subscribed, Heard, At, Event
<1> QED BY <1>1, <1>3, <1>4, <1>5 DEF Bus!vars

\* One listener is called, or none of the parameters of its method fit.
LEMMA CallStep ==
    ASSUME BusInv, Typed, Agreed, Packed, CallListener
    PROVE  BusInv' /\ Bus!Next
<1> DEFINE o == Slot[funcname][listener]
           me == FindMethod(funcname)[TypeOf[o]]
           fits == me.found /\ Len(args) = Len(me.params)
           casts == \A k \in DOMAIN args : Castable(args[k], me.params[k])
           seen == [k \in DOMAIN args |-> [type |-> args[k].of, v |-> args[k].v]]
           homes == {h \in Homes(o, funcname) : h.params = [k \in DOMAIN seen |-> seen[k].type]}
<1>1. /\ listener > 0 /\ ~inside /\ inside' = TRUE
      /\ calls' = IF fits /\ casts
                  THEN Append(calls, [object |-> o, at |-> me.at, args |-> seen]) ELSE calls
      /\ UNCHANGED <<Slot, contents, funcname, args, listener, habits>>
  BY DEF CallListener
<1>2. /\ listener \in Nat /\ funcname \in DOMAIN Slot /\ listener <= Len(Slot[funcname])
      /\ Telling /\ IsList(Slot[funcname]) /\ (funcname \notin Names => Slot[funcname] = << >>)
  BY <1>1 DEF BusInv
<1>3. Slot[funcname] \in Seq(Objects) /\ Len(Slot[funcname]) \in Nat /\ listener \in 1..Len(Slot[funcname])
  BY <1>1, <1>2 DEF IsList
<1>4. o \in Objects /\ funcname \in Names
  <2>1. Slot[funcname] # << >>
    BY <1>3
  <2> QED BY <1>2, <1>3, <2>1
<1>5. BusInv'
  BY <1>1, <1>2 DEF BusInv, Has, Telling
<1>6. Subscribed' = Subscribed /\ Event' = Event
  BY <1>1 DEF Subscribed, Heard, At, Event
<1>7. Todo # << >> /\ Head(Todo) = o /\ Todo' = Tail(Todo)
  <2> DEFINE l == Slot[funcname]
  <2>1. Todo = SubSeq(l, listener, Len(l))
    <3>1. listener + 0 = listener /\ listener # 0
      BY <1>1, <1>2
    <3> QED BY <1>1, <3>1 DEF Todo
  <2>2. Todo' = SubSeq(l, listener + 1, Len(l))
    BY <1>1, <1>2 DEF Todo
  <2> HIDE DEF l
  <2>3. l \in Seq(Objects) /\ Len(l) \in Nat /\ listener \in 1..Len(l) /\ o = l[listener]
    BY <1>3 DEF l
  <2>4. Head(Todo) = o /\ Tail(Todo) = Todo'
    <3> HIDE DEF o
    <3>1. Len(l) \in listener..Len(l)
      BY <2>3
    <3> QED BY <2>1, <2>2, <2>3, <3>1, HeadTailOfSubSeq
  <2>5. Todo # << >>
    <3>1. \A i \in listener..Len(l) : l[i] \in Objects
      BY <2>3
    <3>2. Len(Todo) = Len(l) - listener + 1
      <4> HIDE DEF o
      <4> QED BY <2>1, <2>3, <3>1, SubSeqProperties
    <3> QED BY <2>3, <3>2
  <2> QED BY <2>4, <2>5
<1>8. Event[1] = funcname /\ Event[2] = seen
  BY DEF Event
<1> HIDE DEF o, me
<1>9. PICK m \in Messages : IsNamed(m) /\ funcname = m[1].v /\ args = Arguments(m)
  BY <1>2 DEF Telling
<1> DEFINE n == Len(m) - 1
           ts == [k \in 1..n |-> m[k + 1].type]
<1>10. /\ n \in Nat /\ DOMAIN args = 1..n /\ Len(args) = n
       /\ \A k \in 1..n : args[k].of = ts[k] /\ (args[k].type = ts[k] \/ SameSize(args[k].type, ts[k]))
  BY <1>9, ArgumentsAre
<1>11. [k \in DOMAIN seen |-> seen[k].type] = ts
  BY <1>10
<1>12. /\ me.found => \E h \in Homes(o, funcname) : h.params = me.params /\ h.at = me.at
       /\ ~me.found => Homes(o, funcname) = {}
  <2>1. EndToEnd(TypeOf[o])
    BY <1>4 DEF Packed
  <2>2. /\ me.found => \E h \in Homes(o, funcname) : /\ h.params = me.params
                                                     /\ EndToEnd(TypeOf[o]) => h.at = me.at
        /\ ~me.found => Homes(o, funcname) = {}
    BY <1>4, FoundIs DEF me
  <2> HIDE DEF me, o
  <2> QED BY <2>1, <2>2
<1>13. me.found => \A h \in Homes(o, funcname) : h.params = me.params
  BY <1>4, <1>12 DEF Agreed
<1>14. me.found /\ Len(me.params) = n
       /\ (\A k \in 1..n : ts[k] = me.params[k] \/ SameSize(ts[k], me.params[k]))
       => ts = me.params
  <2>1. DOMAIN ts = 1..n /\ Len(ts) = n
    BY <1>10
  <2> QED BY <1>4, <1>9, <2>1 DEF Typed, me
<1>15. \A t, u, v : SameSize(t, u) /\ SameSize(u, v) => SameSize(t, v)
  BY DEF SameSize
<1>16. \A t, u : SameSize(t, u) => SameSize(u, t)
  BY DEF SameSize
<1> HIDE DEF seen, n
<1>17. fits /\ casts => ts = me.params
  <2> SUFFICES ASSUME fits, casts PROVE ts = me.params
    OBVIOUS
  <2>1. \A k \in 1..n : ts[k] = me.params[k] \/ SameSize(ts[k], me.params[k])
    <3> HIDE DEF ts
    <3> QED BY <1>10, <1>15, <1>16 DEF Castable
  <2> QED BY <1>10, <1>14, <2>1
<1>18. me.found /\ ts = me.params => fits /\ casts
  <2> SUFFICES ASSUME me.found, ts = me.params PROVE fits /\ casts
    OBVIOUS
  <2>1. Len(ts) = n
    BY <1>10
  <2> QED BY <1>10, <2>1 DEF Castable
<1>19. Bus!Call
  <2>1. CASE fits /\ casts
    <3>1. PICK h \in Homes(o, funcname) : h.params = ts /\ h.at = me.at
      BY <1>12, <1>17, <2>1
    <3>2. h \in homes /\ homes # {}
      BY <1>11, <3>1
    <3>3. calls' = Append(calls, [object |-> o, at |-> h.at, args |-> seen])
      BY <1>1, <2>1, <3>1
    <3> HIDE DEF fits, casts, ts
    <3> QED BY <1>1, <1>6, <1>7, <1>8, <3>2, <3>3 DEF Bus!Call
  <2>2. CASE ~(fits /\ casts)
    <3>1. homes = {}
      <4>1. me.found => ts # me.params
        BY <1>18, <2>2
      <4>2. \A h \in Homes(o, funcname) : me.found /\ h.params = me.params
        <5> HIDE DEF fits, casts, ts
        <5> QED BY <1>12, <1>13
      <4> HIDE DEF fits, casts, ts
      <4> QED BY <1>11, <4>1, <4>2
    <3>2. UNCHANGED calls
      BY <1>1, <2>2
    <3> HIDE DEF fits, casts, ts
    <3> QED BY <1>6, <1>7, <1>8, <3>1, <3>2 DEF Bus!Call
  <2> QED BY <2>1, <2>2
<1> QED BY <1>5, <1>19 DEF Bus!Next
----------------------------------------------------------------------------
(* Every step.                                                             *)

Sound == AllSendable /\ Typed /\ Agreed /\ Packed

LEMMA BusStep ==
    ASSUME Sound /\ BusInv, [Next]_vars
    PROVE  (Sound /\ BusInv)' /\ [Bus!Next]_(Bus!vars)
<1>1. CASE AppStep
  BY <1>1, AppSafe DEF Sound
<1>2. ASSUME NEW m \in Messages, DispatchNothing(Decode(EncodeAll(m)))
      PROVE  UNCHANGED vars
  BY <1>2 DEF DispatchNothing
<1>3. CASE UNCHANGED vars
  <2>1. BusInv'
    BY <1>3 DEF vars, dispatch, BusInv, Has, Telling
  <2>2. UNCHANGED Bus!vars
    BY <1>3 DEF vars, dispatch, Bus!vars, Subscribed, Heard, At, Todo, Event
  <2> QED BY <2>1, <2>2 DEF Sound
<1>4. CASE ServerStep
  <2>1. CASE CallListener
    BY <2>1, CallStep DEF Sound
  <2>2. CASE Return
    BY <2>2, ReturnStep DEF Sound
  <2>3. CASE \E as \in Received : DispatchNothing(as) \/ Dispatch(as)
    <3>1. PICK m \in Messages : DispatchNothing(Decode(EncodeAll(m))) \/ Dispatch(Decode(EncodeAll(m)))
      BY <2>3 DEF Received
    <3> QED BY <1>2, <1>3, <3>1, DispatchStep DEF Sound
  <2> QED BY <1>4, <2>1, <2>2, <2>3 DEF ServerStep
<1> QED BY <1>1, <1>3, <1>4 DEF Next

\* RPCHandler.h:47 "subscribe corresponding net Event": whoever subscribed is called
\* once for each message, in order, on a part of it that has the method and with the
\* arguments sent, for all types, objects and messages that are Sound, whatever
\* handlers subscribe to or unsubscribe from meanwhile.
THEOREM RPCImplementsBus == Kinds /\ Sound /\ Spec => ImplementsBus
<1>1. Kinds /\ Sound /\ Init => (Sound /\ BusInv) /\ Bus!Init
  BY BusInit
<1>2. (Sound /\ BusInv) /\ [Next]_vars => (Sound /\ BusInv)' /\ [Bus!Next]_(Bus!vars)
  BY BusStep
<1> QED BY <1>1, <1>2, PTL DEF Spec, ImplementsBus, Bus!Spec

\* LightProto.cpp: what is encoded comes back, for every Radix.
THEOREM ProtoKeepsAlways == Spec => []ProtoKeeps
<1>1. ProtoKeeps
  BY WireKeepsHolds DEF ProtoKeeps
<1>2. Init => ProtoKeeps
  BY <1>1
<1>3. ProtoKeeps /\ [Next]_vars => ProtoKeeps'
  BY WireKeepsHolds DEF ProtoKeeps
<1> QED BY <1>2, <1>3, PTL DEF Spec
=============================================================================
