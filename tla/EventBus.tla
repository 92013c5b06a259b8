------------------------------ MODULE EventBus ------------------------------
(***************************************************************************)
(* What RPCHandler promises: of each event the objects that subscribed, in *)
(* the order they did, are called once each, with the arguments sent.      *)
(***************************************************************************)
EXTENDS Naturals, Sequences

CONSTANTS Objects, Events,
          Notices,      \* events, with arguments, that are published
          Homes(_, _)   \* parts of an object that have a method for an event

VARIABLES subscribed,  \* of each event, the objects that subscribed
          todo,        \* the objects still to be called
          event,       \* the event told last, and its arguments; at first, none
          calls        \* the calls made for it

vars == <<subscribed, todo, event, calls>>

Members(s) == {s[k] : k \in DOMAIN s}

Init == /\ subscribed = [f \in Events |-> << >>]
        /\ todo = << >> /\ calls = << >>
        /\ event = <<<< >>, << >>>>

Added(s, o) == IF o \in Members(s) THEN s ELSE Append(s, o)
Removed(s, o) ==
    IF o \notin Members(s) THEN s
    ELSE LET i == CHOOSE i \in DOMAIN s : s[i] = o
         IN [k \in 1..Len(s) - 1 |-> s[IF k < i THEN k ELSE k + 1]]

\* An object subscribes to some events, or unsubscribes from some.
Subscribe(o, F) ==
    /\ subscribed' = [f \in Events |-> IF f \in F THEN Added(subscribed[f], o) ELSE subscribed[f]]
    /\ UNCHANGED <<todo, event, calls>>

Unsubscribe(o, F) ==
    /\ subscribed' = [f \in Events |-> IF f \in F THEN Removed(subscribed[f], o) ELSE subscribed[f]]
    /\ UNCHANGED <<todo, event, calls>>

Publish(f, args) ==
    /\ todo = << >>
    /\ todo' = IF f \in Events THEN subscribed[f] ELSE << >>
    /\ event' = <<f, args>> /\ calls' = << >>
    /\ UNCHANGED subscribed

\* The next is called on one of its parts, or has no method that fits.
Call ==
    /\ todo # << >> /\ todo' = Tail(todo)
    /\ LET o == Head(todo)
           homes == {h \in Homes(o, event[1]) : h.params = [k \in DOMAIN event[2] |-> event[2][k].type]}
       IN IF homes = {} THEN UNCHANGED calls
          ELSE \E h \in homes :
                 calls' = Append(calls, [object |-> o, at |-> h.at, args |-> event[2]])
    /\ UNCHANGED <<subscribed, event>>

Next == \/ \E o \in Objects, F \in SUBSET Events : Subscribe(o, F) \/ Unsubscribe(o, F)
        \/ \E n \in Notices : Publish(n[1], n[2])
        \/ Call

Spec == Init /\ [][Next]_vars
=============================================================================
