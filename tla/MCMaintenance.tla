---------------------------- MODULE MCMaintenance ----------------------------
(* Small instances of Maintenance for TLC: a message of the branch and one
   outside it share a medium. *)
EXTENDS Maintenance

CONSTANTS inside, outside, medium

MCMessages == {inside, outside}
MCKeys == {medium}
MCBranch == {inside}
MCUses == [m \in MCMessages |-> MCKeys]
=============================================================================
