----------------------------- MODULE MCLandlord -----------------------------
(* Instances of Landlord for TLC. *)
EXTENDS Landlord

\* One card each and one that the lord gets.
FourCards == 1..4
OneShuffle == {<<4, 2, 3, 1>>}
=============================================================================
