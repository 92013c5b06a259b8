--------------------------- MODULE MCPlayerStore ---------------------------
(* Instances of PlayerStore for TLC. *)
EXTENDS PlayerStore

\* Two names of one word, one that looks like a number; one of two
\* words; and the empty one.
ann == <<"an", "n">>
SomeNames == {<<ann>>, <<<<"7">>>>, <<ann, <<"le", "e">>>>, << >>}
=============================================================================
