---------------------------- MODULE MCRPCHandler ----------------------------
(* Instances of RPCHandler for TLC. *)
EXTENDS RPCHandler

\* Names on the wire: hello() and set(int, float, int).
hello == <<1>>
set == <<2>>
OrderOfNames == <<hello, set>>

\* Person, as in Server.cpp; a Robot inherits from a Body, which knows no
\* method, and from a Voice that says hello, and has no fields of its own.
SomeTypes == {"Person", "Body", "Voice", "Robot"}
SomeMethods ==
    [T \in SomeTypes |->
        CASE T = "Person" -> [f \in {hello, set} |->
                                  IF f = hello THEN << >> ELSE <<"INT32", "FLOAT", "INT32">>]
          [] T = "Voice"  -> [f \in {hello} |-> << >>]
          [] T = "Robot"  -> [f \in {set} |-> <<"STRING">>]
          [] T = "Body"   -> [f \in {} |-> << >>]]
SomeParents == [T \in SomeTypes |-> IF T = "Robot" THEN <<"Body", "Voice">> ELSE << >>]
SomeSizes == [T \in SomeTypes |-> CASE T = "Body" -> 3 [] T = "Robot" -> 4 [] OTHER -> 1]
SomePlaces == [T \in SomeTypes |-> IF T = "Robot" THEN <<0, 3>> ELSE << >>]
SomeObjects == {"p", "p1", "r"}
Classes == [o \in SomeObjects |-> IF o = "r" THEN "Robot" ELSE "Person"]

Chars(s) == [type |-> "STRING", v |-> s]
Whole32(n) == [type |-> "INT32", v |-> <<n>>]
Real32(n) == [type |-> "FLOAT", v |-> <<n>>]
SomeMessages == {<< >>, <<Whole32(1)>>, <<Chars(<<3>>)>>, <<Chars(hello)>>,
                 <<Chars(set), Whole32(-2), Real32(4), Whole32(5)>>, <<Chars(set), Chars(<<4, 4>>)>>,
                 \* Arguments that cannot be cast.
                 <<Chars(set), Chars(<< >>), Whole32(1), Whole32(1)>>}

\* The hypotheses of the theorems hold here.
ASSUME InstanceAssumption == AllSendable /\ Typed /\ Agreed /\ Packed
=============================================================================
