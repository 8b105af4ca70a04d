---------------------------- MODULE UpdatePromise ----------------------------
(***************************************************************************)
(* What a self-update promises: some version is installed, and it has      *)
(* started properly before; a newer one may be on trial; the trial takes   *)
(* the installed version's place only after it has started properly too.   *)
(***************************************************************************)
EXTENDS Naturals

CONSTANTS Versions, NoVersion

VARIABLES
    installed,   \* the version DDS falls back to
    trial,       \* the candidate whose startup is being verified
    proven       \* versions whose startup has succeeded

promise == <<installed, trial, proven>>

Init ==
    /\ installed \in Versions
    /\ trial = NoVersion
    /\ proven \in SUBSET Versions /\ installed \in proven

\* A version starts up properly.
Prove(v) ==
    /\ proven' = proven \cup {v}
    /\ UNCHANGED <<installed, trial>>

\* A newer version goes on trial, perhaps in place of another one.
Try(v) ==
    /\ v > installed
    /\ trial' = v
    /\ UNCHANGED <<installed, proven>>

Commit ==
    /\ trial \in proven
    /\ installed' = trial
    /\ trial' = NoVersion
    /\ UNCHANGED proven

\* The trial has succeeded, and the next update begins before that is recorded.
CommitAndTry(v) ==
    /\ trial \in proven
    /\ v > trial
    /\ installed' = trial
    /\ trial' = v
    /\ UNCHANGED proven

RollBack ==
    /\ trial # NoVersion
    /\ trial' = NoVersion
    /\ UNCHANGED <<installed, proven>>

Next ==
    \/ Commit \/ RollBack
    \/ \E v \in Versions : Prove(v) \/ Try(v) \/ CommitAndTry(v)

Spec == Init /\ [][Next]_promise
=============================================================================
