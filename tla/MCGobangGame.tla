---------------------------- MODULE MCGobangGame ----------------------------
(* Instances of GobangGame for TLC. *)
EXTENDS GobangGame

\* Three corners and the middle: two corners are no line, a corner and the
\* middle are.
PlayedSpots == {<<0, 0>>, <<0, 2>>, <<2, 0>>, <<1, 1>>}
=============================================================================
