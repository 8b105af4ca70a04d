-------------------------- MODULE MCMediaLifecycle --------------------------
(* Small instances of MediaLifecycle for TLC. *)
EXTENDS MediaLifecycle

CONSTANTS m1, c1

OneKey == {1}
TwoKeys == {1, 2}

\* One message refers to every attachment.
OneChannel == [m \in {m1} |-> c1]

\* Two attachments that compete for one download slot.  The environment is cut
\* down to what a batch can meet: captures arrive while the worker is off, the
\* process may end anywhere, and the user does nothing.
BatchEnvironment ==
    \/ pc = "off" /\ evidence = {} /\ Import
    \/ Crash

BatchNext ==
    \/ BatchEnvironment
    \/ WorkerStep
    \/ SweepStep(Worker)
    \/ \E k \in Keys : Elapse(k)

BatchSpec ==
    /\ Init /\ [][BatchNext]_vars
    /\ WF_vars(WorkerStep) /\ WF_vars(SweepStep(Worker))
    /\ \A k \in Keys : WF_vars(Elapse(k))
=============================================================================
