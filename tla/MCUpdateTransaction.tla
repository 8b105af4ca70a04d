------------------------- MODULE MCUpdateTransaction -------------------------
(* Small instances of UpdateTransaction for TLC. *)
EXTENDS UpdateTransaction

TwoVersions == {1, 2}
ThreeVersions == {1, 2, 3}
=============================================================================
