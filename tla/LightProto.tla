----------------------------- MODULE LightProto -----------------------------
(***************************************************************************)
(* SockProto (source/LightProto.cpp): arguments as bytes on the wire and   *)
(* back.  An argument is [type, v], v a sequence: the characters of a      *)
(* STRING, or one number.                                                  *)
(***************************************************************************)
EXTENDS Integers, Sequences, SequencesExt

CONSTANT Radix  \* the values of a byte; 256 in the code

ASSUME RadixAssumption == Radix \in Nat /\ Radix >= 8 /\ Radix % 2 = 0

Byte == 0..Radix - 1
SIZE_LEN == 4
HEAD_LEN == 1 + SIZE_LEN
Tag == [EMPTY |-> 0, INT32 |-> 1, INT64 |-> 2, DOUBLE |-> 3, STRING |-> 4, BOOLEAN |-> 5, FLOAT |-> 6]
NoArg == [type |-> "EMPTY", v |-> << >>]
----------------------------------------------------------------------------
(* Numbers.                                                                *)

Power[k \in 0..8] == IF k = 0 THEN 1 ELSE Radix * Power[k - 1]

\* n in w bytes, and the signed number of w bytes that n wraps to.
Digits(n, w) == [k \in 1..w |-> (n \div Power[w - k]) % Radix]
Wrap(n, w) == LET m == n % Power[w] IN IF 2 * m >= Power[w] THEN m - Power[w] ELSE m
Sum(data) == LET upto[k \in 0..Len(data)] == IF k = 0 THEN 0 ELSE upto[k - 1] * Radix + data[k]
             IN upto[Len(data)]

Int32ToByte(num) == Digits(num, 4)
Int64ToByte(num) == Digits(num, 8)

\* A char has a sign: bytes of Radix / 2 or more count as negative.
Char(b) == IF 2 * b >= Radix THEN b - Radix ELSE b

\* Without the cast to unsigned char.
ByteToInt32_Signed(data) ==
    IF Len(data) # 4 THEN 0 ELSE Wrap(Sum([k \in DOMAIN data |-> Char(data[k])]), 4)

ByteToInt32(data) == IF Len(data) # 4 THEN 0 ELSE Wrap(Sum(data), 4)

ByteToInt64(data) == Wrap(Sum([k \in DOMAIN data |-> Char(data[k])]), 8)
----------------------------------------------------------------------------
(* Encoding.                                                               *)

\* std::to_string keeps six decimals: a number here counts halves of the sixth,
\* and its text, one byte, is the nearest that has no half.
Text(n) == <<(n + 1) \div 2>>
Number(text) == 2 * text[1]

Payload(a) ==
    CASE a.type = "STRING"  -> a.v
      [] a.type = "INT32"   -> Int32ToByte(a.v[1])
      [] a.type = "INT64"   -> Int64ToByte(a.v[1])
      [] a.type = "BOOLEAN" -> a.v
      [] a.type \in {"DOUBLE", "FLOAT"} -> Text(a.v[1])

Encode(a) == <<Tag[a.type]>> \o Int32ToByte(Len(Payload(a))) \o Payload(a)
EncodeAll(args) ==
    LET upto[k \in 0..Len(args)] == IF k = 0 THEN << >> ELSE upto[k - 1] \o Encode(args[k])
    IN upto[Len(args)]
----------------------------------------------------------------------------
(* Decoding.                                                               *)

\* The pieces up to the first that is cut short.  Sizes are not negative in
\* what Encode wrote.
Slice(data) ==
    LET end == Len(data) + 1
        size(i) == ByteToInt32(SubSeq(data, i + 1, i + SIZE_LEN))
        cut(i)  == i + HEAD_LEN > end \/ i + HEAD_LEN + size(i) > end
        at[k \in 0..Len(data)] ==  \* the start of a piece, after k pieces
            IF k = 0 THEN 1
            ELSE IF cut(at[k - 1]) THEN at[k - 1]
            ELSE at[k - 1] + HEAD_LEN + size(at[k - 1])
        n == CHOOSE n \in 0..Len(data) : cut(at[n]) /\ \A k \in 0..n - 1 : ~cut(at[k])
    IN [k \in 1..n |-> SubSeq(data, at[k - 1], at[k] - 1)]

GetHeadDataLen(data) == ByteToInt32(SubSeq(data, 2, HEAD_LEN))

AnyDecode(piece) ==
    LET p == SubSeq(piece, HEAD_LEN + 1, HEAD_LEN + GetHeadDataLen(piece))
        Is(t) == piece[1] = Tag[t]
    IN CASE Is("STRING")  -> [type |-> "STRING", v |-> p]
         [] Is("INT32")   -> [type |-> "INT32", v |-> <<ByteToInt32(p)>>]
         [] Is("INT64")   -> [type |-> "INT64", v |-> <<ByteToInt64(p)>>]
         [] Is("BOOLEAN") -> [type |-> "BOOLEAN", v |-> <<IF p[1] = 0 THEN 0 ELSE 1>>]
         [] Is("DOUBLE")  -> [type |-> "DOUBLE", v |-> <<Number(p)>>]
         [] Is("FLOAT")   -> [type |-> "FLOAT", v |-> <<Number(p)>>]
         [] OTHER -> NoArg

Decode(data) == LET pieces == Slice(data) IN [k \in DOMAIN pieces |-> AnyDecode(pieces[k])]
----------------------------------------------------------------------------
(* What comes back.                                                        *)

\* Every int does, every int64 whose bytes below the top are small, and every
\* number that its text keeps.
Fits(n, w) == -Power[w] <= 2 * n /\ 2 * n < Power[w]
Sendable(a) ==
    \/ a.type = "STRING" /\ a.v \in Seq(Byte) /\ Fits(Len(a.v), 4)
    \/ /\ a.v \in Seq(Int) /\ Len(a.v) = 1
       /\ LET n == a.v[1] IN
          \/ a.type = "INT32" /\ Fits(n, 4)
          \/ a.type = "INT64" /\ Fits(n, 8) /\ \A k \in 2..8 : 2 * Int64ToByte(n)[k] < Radix
          \/ a.type = "BOOLEAN" /\ n \in {0, 1}
          \/ a.type \in {"DOUBLE", "FLOAT"} /\ n % 2 = 0

Int32Back == \A b \in [1..4 -> Byte] : LET n == Wrap(Sum(b), 4) IN
    ByteToInt32(Int32ToByte(n)) = n
SomeBytes == {0, 1, Radix \div 2 - 1, Radix \div 2}
Int64Back == \A b \in [1..8 -> SomeBytes] : LET n == Wrap(Sum(b), 8) IN
    ByteToInt64(Int64ToByte(n)) = n <=> \A k \in 2..8 : 2 * b[k] < Radix

\* A message cut anywhere gives the arguments that are whole, in their order.
SomeArgs ==
    {[type |-> "STRING", v |-> s] : s \in {<< >>, <<4, 0, 0, 0, 1>>}}
    \union {[type |-> "INT32", v |-> <<n>>] : n \in {-1, 4}}
    \union {[type |-> "INT64", v |-> <<Radix>>], [type |-> "BOOLEAN", v |-> <<1>>],
            [type |-> "DOUBLE", v |-> <<2>>], [type |-> "FLOAT", v |-> <<4>>]}
Whole(args, n) == Cardinality({k \in DOMAIN args : Len(EncodeAll(SubSeq(args, 1, k))) <= n})
CutsBack == \A len \in 0..2 : \A args \in [1..len -> SomeArgs] :
    LET data == EncodeAll(args)
    IN \A n \in 0..Len(data) :
           Decode(SubSeq(data, 1, n)) = SubSeq(args, 1, Whole(args, n))
WireKeeps == Int32Back /\ Int64Back /\ CutsBack
=============================================================================
