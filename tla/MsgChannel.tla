----------------------------- MODULE MsgChannel -----------------------------
(***************************************************************************)
(* What a message server promises its clients.  Every connection is a      *)
(* reliable FIFO channel of whole messages: the handler is given exactly   *)
(* the messages the client sent, in the order sent, each once, until the   *)
(* server gives the connection up; and a connection that is not given up   *)
(* gets all its messages delivered.                                        *)
(***************************************************************************)
EXTENDS Naturals, Sequences

CONSTANTS Conns,    \* connections
          Messages  \* message bodies

VARIABLES sent,     \* sent[c]: messages c's client has sent
          got,      \* got[c]: messages the handler was given for c
          dead      \* connections the server has given up

vars == <<sent, got, dead>>

Init == /\ sent = [c \in Conns |-> << >>]
        /\ got  = [c \in Conns |-> << >>]
        /\ dead = {}

Send(c) == /\ \E m \in Messages : sent' = [sent EXCEPT ![c] = Append(@, m)]
           /\ UNCHANGED <<got, dead>>

Deliver(c) == /\ c \notin dead
              /\ Len(got[c]) < Len(sent[c])
              /\ got' = [got EXCEPT ![c] = Append(@, sent[c][Len(@) + 1])]
              /\ UNCHANGED <<sent, dead>>

GiveUp(c) == /\ c \notin dead
             /\ dead' = dead \union {c}
             /\ UNCHANGED <<sent, got>>

Next == \E c \in Conns : Send(c) \/ Deliver(c) \/ GiveUp(c)

Spec == Init /\ [][Next]_vars /\ \A c \in Conns : WF_vars(Deliver(c))
=============================================================================
