-------------------------- MODULE MCBlockedServer --------------------------
(* Instances of BlockedServer for TLC. *)
EXTENDS BlockedServer, TLC

CONSTANTS c1, c2, c3

TwoConns   == {c1, c2}
ThreeConns == {c1, c2, c3}
OneConn    == {c1}

\* The table: one message of one byte, delivered whole.
TinyMsgs      == {<<7>>}
EagerProfiles == {{"pipeline"}}

\* Framing: bodies shorter and longer than the MTU.  A client that sends ahead,
\* with headers and bodies delivered whole; and one that waits until it is
\* answered, whose bodies may be long and arrive in pieces.
FrameMsgs       == {<<7>>, <<1, 2, 3, 4, 5, 6>>}
CarefulProfiles == {{"pipeline"}, {"long", "split_body"}}

\* A client that sends ahead, some of its bodies longer than the MTU; all are
\* delivered whole.
EagerLongProfiles == {{"pipeline", "long"}}

Sym == Permutations(Conns)
=============================================================================
