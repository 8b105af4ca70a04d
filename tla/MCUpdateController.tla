-------------------------- MODULE MCUpdateController --------------------------
(* Small instances of UpdateController for TLC. *)
EXTENDS UpdateController
=============================================================================
