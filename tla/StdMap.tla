------------------------------- MODULE StdMap -------------------------------
(***************************************************************************)
(* std::map as the code uses it: a function whose domain is the keys the   *)
(* map holds.  operator[] on an absent key inserts a default value; the    *)
(* code reads with it in many places, so the insertions are modelled.      *)
(***************************************************************************)

EmptyMap == [x \in {} |-> {}]

Put(m, k, v) == [x \in DOMAIN m \union {k} |-> IF x = k THEN v ELSE m[x]]

\* m with the keys of K erased.
EraseAll(m, K) == [x \in DOMAIN m \ K |-> m[x]]
Erase(m, k) == EraseAll(m, {k})

\* The value operator[] yields, and the map it leaves after reading keys K.
At(m, k, default) == IF k \in DOMAIN m THEN m[k] ELSE default
Touch(m, K, default) ==
    [x \in DOMAIN m \union K |-> IF x \in DOMAIN m THEN m[x] ELSE default]
=============================================================================
