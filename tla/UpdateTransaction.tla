-------------------------- MODULE UpdateTransaction --------------------------
(***************************************************************************)
(* A self-update of DDS Companion, from the moment a verified package is   *)
(* staged: the external updater copies it beside the installed version,    *)
(* writes pending_update.json, switches current.json and starts the        *)
(* launcher; the launcher starts the candidate, waits for its startup      *)
(* acknowledgement, and commits or rolls back.                             *)
(*                                                                         *)
(*   updater    DDSUpdater.exe, one at a time (it holds the update lock)   *)
(*   launcher   DDS.exe, started by the updater and by the user; no lock   *)
(*   app        DDSApp.exe, at most one of which is the primary instance   *)
(*                                                                         *)
(* They share files only.  Each write of a JSON file is atomic             *)
(* (os.replace); removing a directory tree is not.  Any process may end    *)
(* between two steps.  The update journal and the logs are left out: no     *)
(* process reads them.                                                     *)
(*                                                                         *)
(* Definitions marked "Variant" are used by no action: each is a plausible *)
(* mistake in the definition it stands before.                             *)
(***************************************************************************)
EXTENDS Naturals, FiniteSets

CONSTANTS
    Versions, NoVersion,
    Launchers,       \* launcher processes that may exist at a time
    Nobody,          \* no launcher
    MaxStarting,     \* how many starting applications a user waits for
    Incoming,        \* the hidden directory an updater copies into
    Overlap,         \* whether the user starts DDS while an update runs
    MayFail,         \* whether a locked file or a full disk stops a step
    EarlyUpdates     \* whether the user updates before startup has finished

ASSUME UpdateConstantsOK ==
    /\ Versions \subseteq Nat
    /\ {NoVersion, Incoming} \cap Versions = {}
    /\ NoVersion # Incoming
    /\ Nobody \notin Launchers
    /\ MaxStarting \in Nat \ {0}
    /\ {Overlap, MayFail, EarlyUpdates} \subseteq BOOLEAN

VARIABLES
    dir,        \* versions/<version>, and the incoming copy
    current, previous, pending,     \* the three JSON files
    ack,        \* versions whose acknowledgement file exists
    launcher,   \* each launcher process
    updater,    \* the external updater
    app,        \* the primary DDSApp process
    born,       \* DDSApp processes that are not the primary instance (yet)
    proven      \* versions that have ever finished their startup

pointers == <<current, previous, pending>>
apps == <<app, born, proven>>
vars == <<dir, pointers, ack, launcher, updater, apps>>

-----------------------------------------------------------------------------
Dirs == Versions \cup {Incoming}

NoPending == [previous |-> NoVersion, candidate |-> NoVersion]

\* What one launcher process knows: where it is, the update it verifies, the
\* versions its recovery keeps, the directories its sweep still has to remove.
Off == [pc |-> "off", mine |-> NoPending, keep |-> {}, todo |-> {}]

NoUpdater == [pc |-> "off", target |-> NoVersion, base |-> NoVersion,
              parent |-> FALSE]

\* A DDSApp process: the launcher that waits for it, whether it was told to
\* acknowledge its startup, and how far it got.
Process(v, l, acks) ==
    [version |-> v, by |-> l, acks |-> acks, ready |-> FALSE, left |-> FALSE]

NoApp == Process(NoVersion, Nobody, FALSE)

Alive(l) == app.by = l \/ \E p \in born : p.by = l

\* Windows keeps the files of a running program.
InUse(d) == app.version = d \/ \E p \in born : p.version = d

Disowned(p, l) == IF p.by = l THEN [p EXCEPT !.by = Nobody] ELSE p

\* The launcher ends; what it has started goes on.
Ends(l, started) ==
    /\ launcher' = [launcher EXCEPT ![l] = Off]
    /\ app' = Disowned(app, l)
    /\ born' = {Disowned(p, l) : p \in born} \cup started

At(l, pc) == launcher[l].pc = pc

\* Nothing else is going on that could meet a start or an update.
Alone ==
    /\ updater.pc = "off" /\ born = {}
    /\ \A l \in Launchers : At(l, "off")

Go(l, pc) == launcher' = [launcher EXCEPT ![l].pc = pc]

Init ==
    /\ current \in Versions
    /\ previous \in {NoVersion} \cup {v \in Versions : v < current}
    /\ proven = {current, previous} \ {NoVersion}
    /\ dir = [d \in Dirs |-> IF d \in proven THEN "whole" ELSE "absent"]
    /\ pending = NoPending
    /\ ack = {}
    /\ launcher = [l \in Launchers |-> Off]
    /\ updater = NoUpdater
    /\ app = NoApp
    /\ born = {}

-----------------------------------------------------------------------------
(* The application *)

\* The first process to claim the instance becomes the primary one; another
\* one notifies it and exits, and a process may always fail before that.
Claim(p) ==
    /\ born' = born \ {p}
    /\ app' \in {app, IF app = NoApp THEN p ELSE app}
    /\ UNCHANGED <<dir, pointers, ack, launcher, updater, proven>>

\* The window reports that startup is complete.
BecomeReady ==
    /\ app # NoApp /\ ~app.ready
    /\ app' = [app EXCEPT !.ready = TRUE]
    /\ proven' = proven \cup {app.version}
    /\ \/ ack' = IF app.acks THEN ack \cup {app.version} ELSE ack
       \/ MayFail /\ UNCHANGED ack
    /\ UNCHANGED <<dir, pointers, launcher, updater, born>>

\* The user quits, or the application fails.
Exit ==
    /\ app # NoApp
    /\ app' = NoApp
    /\ updater' = [updater EXCEPT !.parent = FALSE]
    /\ UNCHANGED <<dir, pointers, ack, launcher, born, proven>>

\* The controller has downloaded and staged a newer version, for which it held
\* the update lock, and the window starts the external updater.
RequestUpdate(v) ==
    /\ app # NoApp /\ ~app.left
    /\ app.ready \/ EarlyUpdates
    /\ v > app.version
    /\ updater.pc = "off"
    /\ Overlap \/ Alone
    /\ app' = [app EXCEPT !.left = TRUE]
    /\ ack' = ack \ {v}
    /\ updater' = [pc |-> "verify", target |-> v, base |-> NoVersion, parent |-> TRUE]
    /\ UNCHANGED <<dir, pointers, launcher, born, proven>>

-----------------------------------------------------------------------------
(* The external updater: install_candidate *)

Step(from, to) == updater.pc = from /\ updater' = [updater EXCEPT !.pc = to]

VerifyStaged ==
    /\ updater.pc = "verify"
    /\ current # updater.target
    /\ updater' = [updater EXCEPT !.pc = "wait", !.base = current]
    /\ UNCHANGED <<dir, pointers, ack, launcher, apps>>

ParentGone ==
    /\ ~updater.parent
    /\ Step("wait", "copy")
    /\ UNCHANGED <<dir, pointers, ack, launcher, apps>>

\* A fresh directory: no launcher has listed it yet.
StartCopy ==
    /\ Step("copy", "copying")
    /\ dir' = [dir EXCEPT ![Incoming] = "torn"]
    /\ launcher' = [l \in Launchers |->
                      [launcher[l] EXCEPT !.todo = @ \ {Incoming}]]
    /\ UNCHANGED <<pointers, ack, apps>>

\* What is copied is verified, unless somebody removed it meanwhile.
EndCopy ==
    /\ dir[Incoming] = "torn"
    /\ Step("copying", "retire")
    /\ dir' = [dir EXCEPT ![Incoming] = "whole"]
    /\ UNCHANGED <<pointers, ack, launcher, apps>>

RetireTarget ==
    /\ updater.pc = "retire"
    /\ \/ /\ dir[updater.target] = "whole"
          /\ dir' = [dir EXCEPT ![updater.target] = "torn"]
          /\ UNCHANGED updater
       \/ /\ dir[updater.target] # "whole" /\ ~InUse(updater.target)
          /\ dir' = [dir EXCEPT ![updater.target] = "absent"]
          /\ Step("retire", "replace")
    /\ UNCHANGED <<pointers, ack, launcher, apps>>

ReplaceTarget ==
    /\ dir[Incoming] # "absent"
    /\ Step("replace", "promote")
    /\ dir' = [dir EXCEPT ![updater.target] = dir[Incoming], ![Incoming] = "absent"]
    /\ UNCHANGED <<pointers, ack, launcher, apps>>

WritePending ==
    /\ Step("promote", "switch")
    /\ pending' = [previous |-> updater.base, candidate |-> updater.target]
    /\ UNCHANGED <<dir, current, previous, ack, launcher, apps>>

SwitchCurrent ==
    /\ Step("switch", "launch")
    /\ current' = updater.target
    /\ UNCHANGED <<dir, previous, pending, ack, launcher, apps>>

LaunchCandidate(l) ==
    /\ At(l, "off")
    /\ Step("launch", "launched")
    /\ Go(l, "keep_current")
    /\ UNCHANGED <<dir, pointers, ack, apps>>

UpdaterEnds ==
    /\ updater.pc = "launched"
    /\ updater' = NoUpdater
    /\ UNCHANGED <<dir, pointers, ack, launcher, apps>>

\* An exception: the payload is wrong, the lock is taken, the parent does not
\* exit, the disk is full, the copy was swept away, the target is in use, or (if
\* MayFail) a file cannot be written.
InstallFails ==
    /\ \/ updater.pc \in {"verify", "wait", "copy", "copying"}
       \/ updater.pc = "retire" /\ InUse(updater.target)
       \/ updater.pc = "replace" /\ dir[Incoming] = "absent"
       \/ MayFail /\ updater.pc \in {"retire", "replace", "promote", "switch", "launch"}
    /\ dir' = IF updater.pc \in {"copying", "retire", "replace"}
              THEN [dir EXCEPT ![Incoming] = "absent"] ELSE dir
    /\ updater' = NoUpdater
    /\ UNCHANGED <<pointers, ack, launcher, apps>>

-----------------------------------------------------------------------------
(* The launcher: recovery of orphan versions *)

\* The user starts DDS.
StartLauncher(l) ==
    /\ At(l, "off")
    /\ Cardinality(born) < MaxStarting
    /\ Overlap \/ Alone
    /\ Go(l, "keep_current")
    /\ UNCHANGED <<dir, pointers, ack, updater, apps>>

\* The versions to keep are read from three files, one after the other; a file
\* that cannot be read is passed over.
Keep(l, from, to, named) ==
    /\ At(l, from)
    /\ \E kept \in {named \ {NoVersion}} \cup IF MayFail THEN {{}} ELSE {} :
          launcher' = [launcher EXCEPT ![l].pc = to, ![l].keep = @ \cup kept]
    /\ UNCHANGED <<dir, pointers, ack, updater, apps>>

KeepCurrent(l) == Keep(l, "keep_current", "keep_previous", {current})
\* Variant: only the current and the pending versions are kept.
KeepNoPrevious(l) == Keep(l, "keep_previous", "keep_pending", {})

KeepPrevious(l) == Keep(l, "keep_previous", "keep_pending", {previous})
\* Variant: of a pending update only the candidate is kept.
KeepCandidate(l) == Keep(l, "keep_pending", "list", {pending.candidate})

KeepPending(l) ==
    Keep(l, "keep_pending", "list", {pending.previous, pending.candidate})

Present(dirs) == {d \in dirs : dir[d] # "absent"}

\* Without any version to keep, everything is.
ListOrphans(l) ==
    LET kept == launcher[l].keep IN
    /\ At(l, "list")
    /\ launcher' = [launcher EXCEPT
                      ![l].pc = "recover", ![l].keep = {},
                      ![l].todo = IF kept = {} THEN {} ELSE Present(Dirs) \ kept]
    /\ UNCHANGED <<dir, pointers, ack, updater, apps>>

Sweeping == {"recover", "commit_sweep", "undo_candidate", "undo_sweep"}

\* Files of a directory go one by one; what is in use stays.
TearTree(l, d) ==
    /\ launcher[l].pc \in Sweeping /\ d \in launcher[l].todo
    /\ dir[d] = "whole"
    /\ dir' = [dir EXCEPT ![d] = "torn"]
    /\ UNCHANGED <<pointers, ack, launcher, updater, apps>>

\* The last attempt at a directory is over.
RemoveTree(l, d) ==
    /\ launcher[l].pc \in Sweeping /\ d \in launcher[l].todo
    /\ dir' = IF InUse(d) THEN dir ELSE [dir EXCEPT ![d] = "absent"]
    /\ launcher' = [launcher EXCEPT ![l].todo = @ \ {d}]
    /\ UNCHANGED <<pointers, ack, updater, apps>>

\* main, after recovery: an update to verify, or the version to start.
ReadPending(l) ==
    /\ At(l, "recover") /\ launcher[l].todo = {}
    /\ launcher' = [launcher EXCEPT
                      ![l].pc = IF pending = NoPending THEN "current" ELSE "unack",
                      ![l].mine = pending]
    /\ UNCHANGED <<dir, pointers, ack, updater, apps>>

-----------------------------------------------------------------------------
(* The launcher: _launch_pending *)

RemoveAck(l) ==
    /\ At(l, "unack")
    /\ ack' = ack \ {launcher[l].mine.candidate}
    /\ Go(l, "candidate")
    /\ UNCHANGED <<dir, pointers, updater, apps>>

\* A torn directory may or may not hold the executable; and the start of a whole
\* one may be refused.
MayNotStart(v) == dir[v] # "whole" \/ MayFail

SpawnCandidate(l) ==
    LET v == launcher[l].mine.candidate IN
    /\ At(l, "candidate")
    /\ \/ /\ dir[v] # "absent"
          /\ born' = born \cup {Process(v, l, TRUE)}
          /\ Go(l, "await")
       \/ /\ MayNotStart(v)
          /\ Go(l, "undo_current")
          /\ UNCHANGED born
    /\ UNCHANGED <<dir, pointers, ack, updater, app, proven>>

LookForAck(l) ==
    /\ At(l, "await")
    /\ Go(l, IF launcher[l].mine.candidate \in ack THEN "commit_current" ELSE "poll")
    /\ UNCHANGED <<dir, pointers, ack, updater, apps>>

\* Variant: a candidate that runs is taken for a candidate that works.
PollIsEnough(l) ==
    /\ At(l, "poll")
    /\ Go(l, IF Alive(l) THEN "commit_current" ELSE "undo_current")
    /\ UNCHANGED <<dir, pointers, ack, updater, apps>>

PollCandidate(l) ==
    /\ At(l, "poll")
    /\ Go(l, IF Alive(l) THEN "await" ELSE "undo_current")
    /\ UNCHANGED <<dir, pointers, ack, updater, apps>>

\* Variant: the deadline is for the start of the process only.
TimeoutWhileStarting(l) ==
    /\ At(l, "poll") /\ \E p \in born : p.by = l
    /\ Go(l, "undo_current")
    /\ born' = {p \in born : p.by # l}
    /\ UNCHANGED <<dir, pointers, ack, updater, app, proven>>

\* The deadline passes: the candidate is terminated.
Timeout(l) ==
    /\ At(l, "poll") /\ Alive(l)
    /\ Go(l, "undo_current")
    /\ born' = {p \in born : p.by # l}
    /\ app' = IF app.by = l THEN NoApp ELSE app
    /\ updater' = IF app.by = l THEN [updater EXCEPT !.parent = FALSE] ELSE updater
    /\ UNCHANGED <<dir, pointers, ack, proven>>

CommitCurrent(l) ==
    /\ At(l, "commit_current")
    /\ current' = launcher[l].mine.candidate
    /\ Go(l, "commit_previous")
    /\ UNCHANGED <<dir, previous, pending, ack, updater, apps>>

CommitPrevious(l) ==
    /\ At(l, "commit_previous")
    /\ previous' = launcher[l].mine.previous
    /\ Go(l, "commit_pending")
    /\ UNCHANGED <<dir, current, pending, ack, updater, apps>>

RemovePending(l) ==
    /\ At(l, "commit_pending")
    /\ pending' = NoPending
    /\ launcher' = [launcher EXCEPT
                      ![l].pc = "commit_sweep",
                      ![l].todo = Present(Versions) \ {launcher[l].mine.candidate,
                                                          launcher[l].mine.previous}]
    /\ UNCHANGED <<dir, current, previous, ack, updater, apps>>

Committed(l) ==
    /\ At(l, "commit_sweep") /\ launcher[l].todo = {}
    /\ Ends(l, {})
    /\ UNCHANGED <<dir, pointers, ack, updater, proven>>

-----------------------------------------------------------------------------
(* The launcher: _rollback_pending *)

\* Variant: the rollback goes to previous.json's version.
UndoToPrevious(l) ==
    /\ At(l, "undo_current")
    /\ current' = previous
    /\ Go(l, "undo_pending")
    /\ UNCHANGED <<dir, previous, pending, ack, updater, apps>>

UndoCurrent(l) ==
    /\ At(l, "undo_current")
    /\ current' = launcher[l].mine.previous
    /\ Go(l, "undo_pending")
    /\ UNCHANGED <<dir, previous, pending, ack, updater, apps>>

\* Variant: a rollback leaves pending_update.json.
UndoKeepsPending(l) ==
    /\ At(l, "undo_pending")
    /\ launcher' = [launcher EXCEPT ![l].pc = "undo_candidate",
                                    ![l].todo = {launcher[l].mine.candidate}]
    /\ UNCHANGED <<dir, pointers, ack, updater, apps>>

UndoPending(l) ==
    /\ At(l, "undo_pending")
    /\ pending' = NoPending
    /\ launcher' = [launcher EXCEPT ![l].pc = "undo_candidate",
                                    ![l].todo = {launcher[l].mine.candidate}]
    /\ UNCHANGED <<dir, current, previous, ack, updater, apps>>

ListForUndo(l) ==
    /\ At(l, "undo_candidate") /\ launcher[l].todo = {}
    /\ launcher' = [launcher EXCEPT
                      ![l].pc = "undo_sweep",
                      ![l].todo = Present(Versions) \ {launcher[l].mine.previous, previous}]
    /\ UNCHANGED <<dir, pointers, ack, updater, apps>>

Relaunch(l) ==
    LET v == launcher[l].mine.previous IN
    /\ At(l, "undo_sweep") /\ launcher[l].todo = {}
    /\ \/ dir[v] # "absent" /\ Ends(l, {Process(v, Nobody, FALSE)})
       \/ MayNotStart(v) /\ Ends(l, {})
    /\ UNCHANGED <<dir, pointers, ack, updater, proven>>

-----------------------------------------------------------------------------
(* The launcher: no update to verify, or its verification raised an error *)

\* A file cannot be written or removed.  main takes this for a broken marker.
PendingFails(l) ==
    /\ MayFail
    /\ launcher[l].pc \in {"unack", "commit_current", "commit_previous",
                           "commit_pending", "undo_current", "undo_pending"}
    /\ Go(l, "drop")
    /\ UNCHANGED <<dir, pointers, ack, updater, apps>>

DropPending(l) ==
    /\ At(l, "drop")
    /\ pending' = NoPending
    /\ Go(l, "current")
    /\ UNCHANGED <<dir, current, previous, ack, updater, apps>>

\* The pointer or the version it names fails: previous.json is tried, if it is
\* there.
StartCurrent(l) ==
    /\ At(l, "current")
    /\ \/ /\ dir[current] # "absent"
          /\ Ends(l, {Process(current, Nobody, FALSE)})
       \/ /\ MayNotStart(current) /\ previous # NoVersion
          /\ Go(l, "fallback")
          /\ UNCHANGED <<app, born>>
       \/ /\ MayNotStart(current) /\ previous = NoVersion
          /\ Ends(l, {})
    /\ UNCHANGED <<dir, pointers, ack, updater, proven>>

FallBack(l) ==
    /\ At(l, "fallback")
    /\ current' = previous
    /\ launcher' = [launcher EXCEPT ![l].pc = "restart", ![l].mine.previous = previous]
    /\ UNCHANGED <<dir, previous, pending, ack, updater, apps>>

Restart(l) ==
    LET v == launcher[l].mine.previous IN
    /\ At(l, "restart")
    /\ \/ dir[v] # "absent" /\ Ends(l, {Process(v, Nobody, FALSE)})
       \/ MayNotStart(v) /\ Ends(l, {})
    /\ UNCHANGED <<dir, pointers, ack, updater, proven>>

-----------------------------------------------------------------------------
(* Failures *)

LauncherDies(l) ==
    /\ ~At(l, "off")
    /\ Ends(l, {})
    /\ UNCHANGED <<dir, pointers, ack, updater, proven>>

UpdaterDies ==
    /\ updater.pc # "off"
    /\ updater' = NoUpdater
    /\ UNCHANGED <<dir, pointers, ack, launcher, apps>>

\* Power is lost, or Windows shuts down.
AllDie ==
    /\ launcher' = [l \in Launchers |-> Off]
    /\ updater' = NoUpdater
    /\ app' = NoApp
    /\ born' = {}
    /\ UNCHANGED <<dir, pointers, ack, proven>>

-----------------------------------------------------------------------------
LauncherStep(l) ==
    \/ KeepCurrent(l) \/ KeepPrevious(l) \/ KeepPending(l) \/ ListOrphans(l)
    \/ \E d \in Dirs : RemoveTree(l, d)
    \/ ReadPending(l)
    \/ RemoveAck(l) \/ SpawnCandidate(l) \/ LookForAck(l) \/ PollCandidate(l)
    \/ CommitCurrent(l) \/ CommitPrevious(l) \/ RemovePending(l) \/ Committed(l)
    \/ UndoCurrent(l) \/ UndoPending(l) \/ ListForUndo(l)
    \/ Relaunch(l)
    \/ DropPending(l) \/ StartCurrent(l) \/ FallBack(l) \/ Restart(l)

UpdaterStep ==
    \/ VerifyStaged \/ ParentGone \/ StartCopy \/ EndCopy \/ RetireTarget
    \/ ReplaceTarget \/ WritePending \/ SwitchCurrent
    \/ \E l \in Launchers : LaunchCandidate(l)
    \/ UpdaterEnds \/ InstallFails

AppStep ==
    \/ \E p \in born : Claim(p)
    \/ BecomeReady \/ Exit
    \/ \E v \in Versions : RequestUpdate(v)

Death ==
    \/ \E l \in Launchers : LauncherDies(l)
    \/ UpdaterDies \/ AllDie

Next ==
    \/ \E l \in Launchers :
          \/ LauncherStep(l) \/ StartLauncher(l) \/ Timeout(l) \/ PendingFails(l)
          \/ \E d \in Dirs : TearTree(l, d)
    \/ UpdaterStep \/ AppStep \/ Death

Spec == Init /\ [][Next]_vars

\* What runs keeps running, the launcher's deadline passes, and the user starts
\* DDS again.
FairSpec ==
    /\ Spec
    /\ \A l \in Launchers : WF_vars(LauncherStep(l)) /\ SF_vars(Timeout(l))
    /\ \A v \in Versions, l \in Launchers \cup {Nobody} :
          WF_vars(\E p \in born : p.version = v /\ p.by = l /\ Claim(p))
    /\ WF_vars(UpdaterStep)
    /\ WF_vars(\E l \in Launchers : StartLauncher(l))

-----------------------------------------------------------------------------
(* Properties *)

\* Files, pointers and process tables are of their type; above all,
\* current.json always names a version.
TypeOK ==
    /\ dir \in [Dirs -> {"absent", "torn", "whole"}]
    /\ current \in Versions
    /\ previous \in Versions \cup {NoVersion}
    /\ pending \in {NoPending} \cup [previous : Versions, candidate : Versions]
    /\ ack \subseteq Versions /\ proven \subseteq Versions
    /\ \A l \in Launchers :
          /\ launcher[l].mine \in [previous : Versions \cup {NoVersion},
                                  candidate : Versions \cup {NoVersion}]
          /\ launcher[l].keep \subseteq Versions
          /\ launcher[l].todo \subseteq Dirs
    /\ updater.target \in Versions \cup {NoVersion}
    /\ updater.base \in Versions \cup {NoVersion}
    /\ \A p \in born \cup {app} : p.version \in Versions \cup {NoVersion}

\* The version DDS falls back to while an update is not decided.
Installed == IF pending = NoPending THEN current ELSE pending.previous

\* "Startup acknowledgement/rollback protects the previous working version":
\* whatever dies whenever, the version that the next start or rollback relies on
\* is complete on disk and has started properly before.
InstalledWorks == dir[Installed] = "whole" /\ Installed \in proven

\* previous.json names a complete version that has passed its startup.
PreviousWorks ==
    previous # NoVersion => dir[previous] = "whole" /\ previous \in proven

\* Even when starts and updates overlap, some complete version remains that has
\* passed its startup: a user can always be helped by editing current.json.
SomethingWorks == \E v \in proven : dir[v] = "whole"

\* The update as a whole implements its promise.
Promise == INSTANCE UpdatePromise WITH
    installed <- Installed, trial <- pending.candidate

\* Seen from outside, the files only ever move as a self-update promises.
KeepsPromise == Promise!Spec

\* Whatever fails, a launcher that was started comes to an end.
LauncherEnds == \A l \in Launchers : []<>At(l, "off")

\* Once no process is killed any more, an update does not stay undecided.
Calm == <>[][~Death]_vars

UpdateDecided == Calm => (pending # NoPending ~> pending = NoPending)

=============================================================================
