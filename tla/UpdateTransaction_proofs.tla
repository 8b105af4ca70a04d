----------------------- MODULE UpdateTransaction_proofs -----------------------
(***************************************************************************)
(* Proofs about UpdateTransaction for any versions and any number of       *)
(* launchers.                                                              *)
(*                                                                         *)
(* The types, current.json above all, hold whatever overlaps and fails     *)
(* (Shapes, Named).  What a self-update promises needs more: launchers and *)
(* updaters one after the other (~Overlap), files that can be written      *)
(* (~MayFail), updates asked for after startup (~EarlyUpdates).  Then at   *)
(* most one of them moves the pointers (OneActor), a launcher knows what   *)
(* it read (LauncherOK), and a process in which the user can ask for the   *)
(* next update runs a version the pointers are not ahead of (Follows), so  *)
(* that what the updater overwrites is none of theirs (UpdaterOK).  The    *)
(* last part shows that the steps implement UpdatePromise.                 *)
(***************************************************************************)
EXTENDS UpdateTransaction, TLAPS

LauncherPcs ==
    {"off", "keep_current", "keep_previous", "keep_pending", "list", "recover",
     "unack", "candidate", "await", "poll", "commit_current", "commit_previous",
     "commit_pending", "commit_sweep", "undo_current", "undo_pending",
     "undo_candidate", "undo_sweep", "drop", "current", "fallback", "restart"}
UpdaterPcs ==
    {"off", "verify", "wait", "copy", "copying", "retire", "replace", "promote",
     "switch", "launch", "launched"}

AnyVersions == Versions \cup {NoVersion}
Updates == [previous : Versions, candidate : Versions]
Ours == [previous : AnyVersions, candidate : AnyVersions]
LauncherStates == [pc : LauncherPcs, mine : Ours, keep : SUBSET Versions, todo : SUBSET Dirs]
UpdaterStates == [pc : UpdaterPcs, target : AnyVersions, base : AnyVersions, parent : BOOLEAN]
Processes == [version : Versions, by : Launchers \cup {Nobody}, acks : BOOLEAN,
              ready : BOOLEAN, left : BOOLEAN]

Shapes ==
    /\ dir \in [Dirs -> {"absent", "torn", "whole"}]
    /\ current \in Versions /\ previous \in AnyVersions
    /\ pending \in {NoPending} \cup Updates
    /\ ack \in SUBSET Versions /\ proven \in SUBSET Versions
    /\ launcher \in [Launchers -> LauncherStates] /\ updater \in UpdaterStates
    /\ app \in {NoApp} \cup Processes /\ born \in SUBSET Processes

Trying == {"unack", "candidate", "await", "poll", "commit_current", "commit_previous",
           "commit_pending", "undo_current", "undo_pending"}
Settled == {"commit_sweep", "undo_candidate", "undo_sweep"}

\* Whoever is going to write a pointer has a version to write.
Named ==
    /\ \A l \in Launchers :
          /\ launcher[l].pc \in Trying \cup Settled => launcher[l].mine \in Updates
          /\ launcher[l].pc = "fallback" => previous \in Versions
          /\ launcher[l].pc = "restart" => launcher[l].mine.previous \in Versions
    /\ updater.pc # "off" => updater.target \in Versions
    /\ updater.pc \notin {"off", "verify"} => updater.base \in Versions

\* The inductive invariant of any update.
Base == Shapes /\ Named

Active(l) == launcher[l].pc # "off"

\* What the pointers name.
Protected == {current, previous, pending.previous, pending.candidate} \ {NoVersion}

OneActor ==
    /\ \A l, k \in Launchers : Active(l) /\ Active(k) => l = k
    /\ updater.pc \notin {"off", "launched"} =>
          /\ \A l \in Launchers : ~Active(l)
          /\ born = {} /\ (app = NoApp \/ app.left)

Pointers ==
    /\ \A v \in Protected : dir[v] = "whole"
    /\ Installed \in proven /\ ack \subseteq proven
    /\ previous # NoVersion => previous \in proven /\ previous <= Installed
    /\ pending # NoPending => /\ pending.previous < pending.candidate
                              /\ current \in {pending.previous, pending.candidate}

\* What one launcher knows of the files.
Knows(c) ==
    /\ c.pc \notin {"drop", "fallback", "restart"}
    /\ c.pc \in {"keep_previous", "keep_pending", "list"} => current \in c.keep
    /\ c.pc \in {"keep_pending", "list"} => previous \in c.keep \cup {NoVersion}
    /\ c.pc = "list" => {pending.previous, pending.candidate} \subseteq c.keep \cup {NoVersion}
    /\ c.pc \in Sweeping => c.todo \cap Protected = {}
    /\ c.pc \in Trying => pending # NoPending /\ c.mine = pending
    /\ c.pc \in {"commit_current", "commit_previous", "commit_pending"} =>
          c.mine.candidate \in proven
    /\ c.pc \in {"commit_previous", "commit_pending"} => current = c.mine.candidate
    /\ c.pc = "commit_pending" => previous = c.mine.previous
    /\ c.pc \in {"undo_pending", "undo_candidate", "undo_sweep"} => current = c.mine.previous
    /\ c.pc \in Settled \cup {"current"} => pending = NoPending

LauncherOK == \A l \in Launchers : Knows(launcher[l])

Installing == {"verify", "wait", "copy", "copying", "retire", "replace", "promote"}

\* What the updater will write is new, and what it will fall back to works.
UpdaterOK ==
    /\ updater.pc \in Installing =>
          /\ \A v \in Protected : v < updater.target
          /\ current \in proven
    /\ updater.pc \in Installing \ {"verify"} => updater.base = current
    /\ updater.pc \in {"retire", "replace"} => dir[Incoming] = "whole"
    /\ updater.pc = "promote" => dir[updater.target] = "whole"
    /\ updater.pc = "switch" => pending = [previous |-> updater.base, candidate |-> updater.target]

\* A process in which the user can ask for an update, now or later.
Follows(p) ==
    /\ current <= p.version
    /\ pending # NoPending => p.version = pending.candidate

ProcessesOK ==
    /\ \A p \in born : Follows(p) /\ ~p.ready
    /\ app # NoApp /\ ~app.left => Follows(app)
    /\ app # NoApp /\ app.ready => app.version \in proven

\* The inductive invariant of updates one after the other.
IInv == Base /\ OneActor /\ Pointers /\ LauncherOK /\ UpdaterOK /\ ProcessesOK

-----------------------------------------------------------------------------
(* Types *)

LEMMA Words ==
    /\ \A v \in Versions : v \in Nat /\ v # NoVersion /\ v # Incoming /\ v \in Dirs
    /\ Incoming \in Dirs /\ Nobody \notin Launchers
    /\ NoPending \notin Updates /\ NoPending \in Ours /\ Updates \subseteq Ours
    /\ NoPending.previous = NoVersion /\ NoPending.candidate = NoVersion
<1>1. \A v \in Versions : v \in Nat /\ v # NoVersion /\ v # Incoming /\ v \in Dirs
  BY UpdateConstantsOK DEF Dirs
<1>2. NoPending.previous = NoVersion /\ NoPending.candidate = NoVersion
  BY DEF NoPending
<1>3. NoPending \notin Updates /\ NoPending \in Ours /\ Updates \subseteq Ours
  BY <1>1 DEF NoPending, Updates, Ours, AnyVersions
<1> QED BY <1>1, <1>2, <1>3, UpdateConstantsOK DEF Dirs

LEMMA NothingIsTyped ==
    /\ Off \in LauncherStates /\ Off.pc = "off" /\ Off.todo = {} /\ Off.keep = {}
    /\ NoUpdater \in UpdaterStates /\ NoUpdater.pc = "off"
    /\ NoApp \notin Processes /\ ~NoApp.left /\ ~NoApp.ready
    /\ \A v \in Versions, l \in Launchers \cup {Nobody}, acks \in BOOLEAN :
          /\ Process(v, l, acks) \in Processes
          /\ Process(v, l, acks).version = v /\ Process(v, l, acks).by = l
          /\ Process(v, l, acks).ready = FALSE /\ Process(v, l, acks).left = FALSE
<1>1. FALSE \in BOOLEAN /\ TRUE \in BOOLEAN
  BY Zenon
<1>2. Off \in LauncherStates /\ Off.pc = "off" /\ Off.todo = {} /\ Off.keep = {}
  BY Words DEF Off, LauncherStates, LauncherPcs
<1>3. NoUpdater \in UpdaterStates /\ NoUpdater.pc = "off"
  BY <1>1 DEF NoUpdater, UpdaterStates, UpdaterPcs, AnyVersions
<1>4. NoApp \notin Processes /\ ~NoApp.left /\ ~NoApp.ready
  BY Words DEF NoApp, Process, Processes
<1>5. \A v \in Versions, l \in Launchers \cup {Nobody}, acks \in BOOLEAN :
          /\ Process(v, l, acks) \in Processes
          /\ Process(v, l, acks).version = v /\ Process(v, l, acks).by = l
          /\ Process(v, l, acks).ready = FALSE /\ Process(v, l, acks).left = FALSE
  BY <1>1 DEF Process, Processes
<1> QED BY <1>2, <1>3, <1>4, <1>5

\* One launcher moves, to a state of its own.
LEMMA LauncherMoves ==
    ASSUME launcher \in [Launchers -> LauncherStates], NEW l \in Launchers,
           NEW c \in LauncherStates, launcher' = [launcher EXCEPT ![l] = c]
    PROVE  /\ launcher' \in [Launchers -> LauncherStates] /\ launcher'[l] = c
           /\ \A k \in Launchers \ {l} : launcher'[k] = launcher[k]
OBVIOUS

\* It goes to the next step.
LEMMA LauncherGoes ==
    ASSUME launcher \in [Launchers -> LauncherStates], NEW l \in Launchers,
           NEW pc \in LauncherPcs, Go(l, pc)
    PROVE  /\ launcher' \in [Launchers -> LauncherStates]
           /\ launcher'[l].pc = pc /\ launcher'[l].mine = launcher[l].mine
           /\ launcher'[l].keep = launcher[l].keep /\ launcher'[l].todo = launcher[l].todo
           /\ \A k \in Launchers \ {l} : launcher'[k] = launcher[k]
<1> DEFINE c == [launcher[l] EXCEPT !.pc = pc]
<1>1. /\ c \in LauncherStates /\ c.pc = pc /\ c.mine = launcher[l].mine
      /\ c.keep = launcher[l].keep /\ c.todo = launcher[l].todo
  BY DEF LauncherStates
<1>2. launcher' = [launcher EXCEPT ![l] = c]
  BY DEF Go
<1> HIDE DEF c
<1> QED BY <1>1, <1>2, LauncherMoves

\* It goes to the next step with other directories to remove.
Lists(l, pc, todo) == launcher' = [launcher EXCEPT ![l].pc = pc, ![l].todo = todo]

LEMMA LauncherSweeps ==
    ASSUME launcher \in [Launchers -> LauncherStates], NEW l \in Launchers,
           NEW pc \in LauncherPcs, NEW todo \in SUBSET Dirs,
           Lists(l, pc, todo)
    PROVE  /\ launcher' \in [Launchers -> LauncherStates]
           /\ launcher'[l].pc = pc /\ launcher'[l].mine = launcher[l].mine
           /\ launcher'[l].todo = todo
           /\ \A k \in Launchers \ {l} : launcher'[k] = launcher[k]
<1> DEFINE c == [launcher[l] EXCEPT !.pc = pc, !.todo = todo]
<1>1. c \in LauncherStates /\ c.pc = pc /\ c.mine = launcher[l].mine /\ c.todo = todo
  BY DEF LauncherStates
<1>2. launcher' = [launcher EXCEPT ![l] = c]
  BY DEF Lists
<1> HIDE DEF c
<1> QED BY <1>1, <1>2, LauncherMoves

\* It ends: what it has started goes on, and no process changes its version.
SameButBy(p, q) ==
    p.version = q.version /\ p.acks = q.acks /\ p.ready = q.ready /\ p.left = q.left

LEMMA LauncherLeaves ==
    ASSUME Shapes, NEW l \in Launchers, NEW started \in SUBSET Processes, Ends(l, started)
    PROVE  /\ launcher' \in [Launchers -> LauncherStates] /\ launcher'[l] = Off
           /\ \A k \in Launchers \ {l} : launcher'[k] = launcher[k]
           /\ app' \in {NoApp} \cup Processes /\ born' \in SUBSET Processes
           /\ SameButBy(app', app) /\ (app' = NoApp <=> app = NoApp)
           /\ \A q \in born' : q \in started \/ \E p \in born : SameButBy(q, p)
<1>1. /\ launcher \in [Launchers -> LauncherStates] /\ born \in SUBSET Processes
      /\ app \in {NoApp} \cup Processes /\ launcher' = [launcher EXCEPT ![l] = Off]
      /\ app' = Disowned(app, l) /\ born' = {Disowned(p, l) : p \in born} \cup started
  BY DEF Shapes, Ends
<1>2. \A p \in Processes : Disowned(p, l) \in Processes /\ SameButBy(Disowned(p, l), p)
  BY DEF Disowned, Processes, SameButBy
<1>3. Disowned(NoApp, l) = NoApp
  BY Words DEF Disowned, NoApp, Process
<1>4. SameButBy(NoApp, NoApp) /\ NoApp \notin Processes
  BY NothingIsTyped DEF SameButBy
<1>5. /\ app' \in {NoApp} \cup Processes /\ SameButBy(app', app)
      /\ (app' = NoApp <=> app = NoApp)
  <2>1. CASE app = NoApp
    BY <1>1, <1>3, <1>4, <2>1
  <2>2. CASE app \in Processes
    BY <1>1, <1>2, <1>4, <2>2
  <2> QED BY <1>1, <2>1, <2>2
<1>6. /\ born' \in SUBSET Processes
      /\ \A q \in born' : q \in started \/ \E p \in born : SameButBy(q, p)
  BY <1>1, <1>2
<1> QED BY <1>1, <1>5, <1>6, NothingIsTyped

\* The steps that change more than the place of a launcher.
LEMMA LauncherKeeps ==
    ASSUME Shapes, NEW l \in Launchers, NEW from, NEW to \in LauncherPcs,
           NEW kept \in SUBSET AnyVersions, Keep(l, from, to, kept)
    PROVE  /\ launcher' \in [Launchers -> LauncherStates] /\ launcher[l].pc = from
           /\ launcher'[l].pc = to
           /\ ~MayFail => launcher'[l].keep = launcher[l].keep \cup (kept \ {NoVersion})
           /\ \A k \in Launchers \ {l} : launcher'[k] = launcher[k]
           /\ UNCHANGED <<dir, pointers, ack, updater, apps>>
<1>0. PICK read \in {kept \ {NoVersion}} \cup (IF MayFail THEN {{}} ELSE {}) :
          launcher' = [launcher EXCEPT ![l].pc = to, ![l].keep = @ \cup read]
  BY DEF Keep
<1> DEFINE c == [launcher[l] EXCEPT !.pc = to, !.keep = launcher[l].keep \cup read]
<1>1. launcher \in [Launchers -> LauncherStates] /\ launcher[l].keep \in SUBSET Versions
  BY DEF Shapes, LauncherStates
<1>2. /\ c \in LauncherStates /\ c.pc = to
      /\ ~MayFail => c.keep = launcher[l].keep \cup (kept \ {NoVersion})
  BY <1>0, <1>1 DEF LauncherStates, AnyVersions
<1>3. launcher' = [launcher EXCEPT ![l] = c]
  BY <1>0, <1>1
<1> HIDE DEF c
<1> QED BY <1>1, <1>2, <1>3, LauncherMoves DEF Keep, At

LEMMA LauncherLists ==
    ASSUME Shapes, NEW l \in Launchers, ListOrphans(l)
    PROVE  /\ launcher' \in [Launchers -> LauncherStates] /\ launcher[l].pc = "list"
           /\ launcher'[l].pc = "recover" /\ launcher'[l].todo \cap launcher[l].keep = {}
           /\ \A k \in Launchers \ {l} : launcher'[k] = launcher[k]
           /\ UNCHANGED <<dir, pointers, ack, updater, apps>>
<1> DEFINE todo == IF launcher[l].keep = {} THEN {} ELSE Present(Dirs) \ launcher[l].keep
           c == [launcher[l] EXCEPT !.pc = "recover", !.keep = {}, !.todo = todo]
<1>1. launcher \in [Launchers -> LauncherStates] /\ todo \in SUBSET Dirs
  BY DEF Shapes, Present
<1>2. /\ c \in LauncherStates /\ c.pc = "recover" /\ c.todo \cap launcher[l].keep = {}
  <2>1. c \in LauncherStates /\ c.pc = "recover" /\ c.todo = todo
    <3> HIDE DEF todo
    <3> QED BY <1>1 DEF LauncherStates, LauncherPcs
  <2> QED BY <2>1
<1>3. launcher' = [launcher EXCEPT ![l] = c]
  BY <1>1 DEF ListOrphans, LauncherStates
<1> HIDE DEF c
<1> QED BY <1>1, <1>2, <1>3, LauncherMoves DEF ListOrphans, At

LEMMA LauncherRemoves ==
    ASSUME Shapes, NEW l \in Launchers, NEW d \in Dirs, RemoveTree(l, d)
    PROVE  /\ launcher' \in [Launchers -> LauncherStates]
           /\ launcher[l].pc \in Sweeping /\ d \in launcher[l].todo
           /\ launcher'[l].pc = launcher[l].pc /\ launcher'[l].mine = launcher[l].mine
           /\ launcher'[l].todo = launcher[l].todo \ {d}
           /\ launcher'[l].keep = launcher[l].keep
           /\ \A k \in Launchers \ {l} : launcher'[k] = launcher[k]
           /\ dir' \in [Dirs -> {"absent", "torn", "whole"}]
           /\ \A e \in Dirs \ {d} : dir'[e] = dir[e]
           /\ UNCHANGED <<pointers, ack, updater, apps>>
<1> DEFINE c == [launcher[l] EXCEPT !.todo = launcher[l].todo \ {d}]
<1>1. /\ launcher \in [Launchers -> LauncherStates] /\ launcher[l].todo \in SUBSET Dirs
      /\ dir \in [Dirs -> {"absent", "torn", "whole"}]
  BY DEF Shapes, LauncherStates
<1>2. /\ c \in LauncherStates /\ c.pc = launcher[l].pc /\ c.mine = launcher[l].mine
      /\ c.todo = launcher[l].todo \ {d} /\ c.keep = launcher[l].keep
  BY <1>1 DEF LauncherStates
<1>3. launcher' = [launcher EXCEPT ![l] = c]
  BY <1>1 DEF RemoveTree
<1> HIDE DEF c
<1>4. /\ dir' \in [Dirs -> {"absent", "torn", "whole"}]
      /\ \A e \in Dirs \ {d} : dir'[e] = dir[e]
  BY <1>1 DEF RemoveTree
<1> QED BY <1>1, <1>2, <1>3, <1>4, LauncherMoves DEF RemoveTree

LEMMA LauncherReads ==
    ASSUME Shapes, NEW l \in Launchers, ReadPending(l)
    PROVE  /\ launcher' \in [Launchers -> LauncherStates] /\ launcher[l].pc = "recover"
           /\ launcher'[l].pc = (IF pending = NoPending THEN "current" ELSE "unack")
           /\ launcher'[l].mine = pending
           /\ \A k \in Launchers \ {l} : launcher'[k] = launcher[k]
           /\ UNCHANGED <<dir, pointers, ack, updater, apps>>
<1> DEFINE pc == IF pending = NoPending THEN "current" ELSE "unack"
           c == [launcher[l] EXCEPT !.pc = pc, !.mine = pending]
<1>1. launcher \in [Launchers -> LauncherStates] /\ pending \in Ours
  BY Words DEF Shapes
<1>2. pc \in LauncherPcs
  BY DEF LauncherPcs
<1>3. launcher' = [launcher EXCEPT ![l] = c]
  BY <1>1 DEF ReadPending
<1>4. c \in LauncherStates /\ c.pc = pc /\ c.mine = pending
  <2> HIDE DEF pc
  <2> QED BY <1>1, <1>2 DEF LauncherStates
<1> HIDE DEF c
<1> QED BY <1>1, <1>3, <1>4, LauncherMoves DEF ReadPending, At

LEMMA LauncherFallsBack ==
    ASSUME Shapes, NEW l \in Launchers, FallBack(l)
    PROVE  /\ launcher' \in [Launchers -> LauncherStates] /\ launcher[l].pc = "fallback"
           /\ launcher'[l].pc = "restart" /\ launcher'[l].mine.previous = previous
           /\ \A k \in Launchers \ {l} : launcher'[k] = launcher[k]
<1> DEFINE mine == [launcher[l].mine EXCEPT !.previous = previous]
           c == [launcher[l] EXCEPT !.pc = "restart", !.mine = mine]
<1>1. /\ launcher \in [Launchers -> LauncherStates] /\ launcher[l].mine \in Ours
      /\ previous \in AnyVersions
  BY DEF Shapes, LauncherStates
<1>2. mine \in Ours /\ mine.previous = previous
  BY <1>1 DEF Ours
<1>3. launcher' = [launcher EXCEPT ![l] = c]
  BY <1>1 DEF FallBack
<1>4. c \in LauncherStates /\ c.pc = "restart" /\ c.mine = mine
  <2> HIDE DEF mine
  <2> QED BY <1>1, <1>2 DEF LauncherStates, LauncherPcs
<1> HIDE DEF c, mine
<1> QED BY <1>1, <1>2, <1>3, <1>4, LauncherMoves DEF FallBack, At

\* A process is added.
LEMMA NewProcess ==
    ASSUME Shapes, NEW v \in Versions, NEW l \in Launchers \cup {Nobody}, NEW acks \in BOOLEAN
    PROVE  born \cup {Process(v, l, acks)} \in SUBSET Processes
BY NothingIsTyped DEF Shapes

-----------------------------------------------------------------------------
(* Every step keeps the types *)

\* The other launchers and the updater know what they knew.
LEMMA OneIsNamed ==
    ASSUME Named, NEW l \in Launchers,
           \A k \in Launchers \ {l} : launcher'[k] = launcher[k],
           launcher'[l].pc \in Trying \cup Settled => launcher'[l].mine \in Updates,
           launcher'[l].pc # "fallback" \/ previous' \in Versions,
           launcher'[l].pc = "restart" => launcher'[l].mine.previous \in Versions,
           previous \in Versions => previous' \in Versions,
           updater'.pc = updater.pc, updater'.target = updater.target,
           updater'.base = updater.base
    PROVE  Named'
BY DEF Named

LEMMA RecoveryIsTyped ==
    ASSUME Base, NEW l \in Launchers,
           \/ KeepCurrent(l) \/ KeepPrevious(l) \/ KeepPending(l) \/ ListOrphans(l)
           \/ (\E d \in Dirs : RemoveTree(l, d) \/ TearTree(l, d))
           \/ ReadPending(l) \/ StartLauncher(l)
    PROVE  Base'
<1> USE DEF pointers, apps
<1>1. /\ Shapes /\ Named /\ current \in AnyVersions /\ previous \in AnyVersions
      /\ pending \in {NoPending} \cup Updates /\ pending \in Ours
      /\ pending.previous \in AnyVersions /\ pending.candidate \in AnyVersions
      /\ launcher \in [Launchers -> LauncherStates]
      /\ dir \in [Dirs -> {"absent", "torn", "whole"}]
  BY Words DEF Base, Shapes, AnyVersions, Ours
<1>2. {"keep_current", "keep_previous", "keep_pending", "list"} \subseteq LauncherPcs
  BY DEF LauncherPcs
<1>3. CASE KeepCurrent(l) \/ KeepPrevious(l) \/ KeepPending(l)
  <2>1. PICK to \in {"keep_previous", "keep_pending", "list"},
             from \in {"keep_current", "keep_previous", "keep_pending"},
             kept \in SUBSET AnyVersions : Keep(l, from, to, kept)
    <3>1. /\ {current} \in SUBSET AnyVersions /\ {previous} \in SUBSET AnyVersions
          /\ {pending.previous, pending.candidate} \in SUBSET AnyVersions
      BY <1>1
    <3> QED BY <1>3, <3>1 DEF KeepCurrent, KeepPrevious, KeepPending
  <2>2. /\ launcher' \in [Launchers -> LauncherStates] /\ launcher'[l].pc = to
        /\ \A k \in Launchers \ {l} : launcher'[k] = launcher[k]
        /\ UNCHANGED <<dir, pointers, ack, updater, apps>>
    BY <1>1, <1>2, <2>1, LauncherKeeps
  <2>3. Shapes'
    BY <1>1, <2>2 DEF Shapes
  <2>4. Named'
    BY <1>1, <2>2, OneIsNamed DEF Trying, Settled
  <2> QED BY <2>3, <2>4 DEF Base
<1>4. CASE ListOrphans(l)
  <2>1. Shapes'
    BY <1>1, <1>4, LauncherLists DEF Shapes
  <2>2. Named'
    BY <1>1, <1>4, LauncherLists, OneIsNamed DEF Trying, Settled
  <2> QED BY <2>1, <2>2 DEF Base
<1>5. CASE \E d \in Dirs : RemoveTree(l, d)
  <2>1. Shapes'
    BY <1>1, <1>5, LauncherRemoves DEF Shapes
  <2>2. Named'
    BY <1>1, <1>5, LauncherRemoves, OneIsNamed DEF Named
  <2> QED BY <2>1, <2>2 DEF Base
<1>6. CASE \E d \in Dirs : TearTree(l, d)
  <2>1. Shapes'
    BY <1>1, <1>6 DEF Shapes, TearTree
  <2>2. Named'
    BY <1>1, <1>6 DEF Named, TearTree
  <2> QED BY <2>1, <2>2 DEF Base
<1>7. CASE ReadPending(l)
  <2>1. Shapes'
    BY <1>1, <1>7, LauncherReads DEF Shapes
  <2>2. Named'
    BY <1>1, <1>7, LauncherReads, OneIsNamed DEF Trying, Settled
  <2> QED BY <2>1, <2>2 DEF Base
<1>8. CASE StartLauncher(l)
  <2>1. Go(l, "keep_current") /\ UNCHANGED <<dir, pointers, ack, updater, apps>>
    BY <1>8 DEF StartLauncher
  <2>2. /\ launcher' \in [Launchers -> LauncherStates] /\ launcher'[l].pc = "keep_current"
        /\ \A k \in Launchers \ {l} : launcher'[k] = launcher[k]
    BY <1>1, <1>2, <2>1, LauncherGoes
  <2>3. Shapes'
    BY <1>1, <2>1, <2>2 DEF Shapes
  <2>4. Named'
    BY <1>1, <2>1, <2>2, OneIsNamed DEF Trying, Settled
  <2> QED BY <2>3, <2>4 DEF Base
<1> QED BY <1>3, <1>4, <1>5, <1>6, <1>7, <1>8

\* What a step of a launcher may do to the rest.
FilesMove ==
    /\ current' \in Versions /\ previous' \in AnyVersions
    /\ pending' \in {NoPending} \cup Updates /\ ack' \in SUBSET Versions
    /\ previous \in Versions => previous' \in Versions
    /\ UNCHANGED <<dir, proven>>

SameUpdater == updater' = updater \/ updater' = [updater EXCEPT !.parent = FALSE]

LEMMA ParentLeaves ==
    ASSUME Shapes, SameUpdater
    PROVE  /\ updater' \in UpdaterStates /\ updater'.pc = updater.pc
           /\ updater'.target = updater.target /\ updater'.base = updater.base
<1>1. updater \in UpdaterStates /\ FALSE \in BOOLEAN
  BY Zenon DEF Shapes
<1> QED BY <1>1 DEF SameUpdater, UpdaterStates

LEMMA GoIsTyped ==
    ASSUME Base, NEW l \in Launchers, NEW pc \in LauncherPcs \ {"fallback", "restart"},
           Go(l, pc), pc \in Trying \cup Settled => launcher[l].pc \in Trying \cup Settled,
           FilesMove, SameUpdater, app' \in {NoApp} \cup Processes, born' \in SUBSET Processes
    PROVE  Base'
<1>1. /\ launcher' \in [Launchers -> LauncherStates] /\ launcher'[l].pc = pc
      /\ launcher'[l].mine = launcher[l].mine
      /\ \A k \in Launchers \ {l} : launcher'[k] = launcher[k]
  BY LauncherGoes DEF Base, Shapes
<1>2. /\ updater' \in UpdaterStates /\ updater'.pc = updater.pc
      /\ updater'.target = updater.target /\ updater'.base = updater.base
  BY ParentLeaves DEF Base
<1>3. Shapes'
  BY <1>1, <1>2 DEF Base, Shapes, FilesMove
<1>4. launcher[l].pc \in Trying \cup Settled => launcher[l].mine \in Updates
  BY DEF Base, Named
<1>5. Named'
  BY <1>1, <1>2, <1>4, OneIsNamed DEF Base, FilesMove
<1> QED BY <1>3, <1>5 DEF Base

LEMMA SweepIsTyped ==
    ASSUME Base, NEW l \in Launchers, NEW pc \in Settled, NEW todo \in SUBSET Dirs,
           Lists(l, pc, todo),
           launcher[l].pc \in Trying \cup Settled,
           FilesMove, UNCHANGED <<updater, app, born>>
    PROVE  Base'
<1>1. pc \in LauncherPcs
  BY DEF Settled, LauncherPcs
<1>2. /\ launcher' \in [Launchers -> LauncherStates] /\ launcher'[l].pc = pc
      /\ launcher'[l].mine = launcher[l].mine
      /\ \A k \in Launchers \ {l} : launcher'[k] = launcher[k]
  BY <1>1, LauncherSweeps DEF Base, Shapes
<1>3. Shapes'
  BY <1>2 DEF Base, Shapes, FilesMove
<1>4. launcher[l].mine \in Updates
  BY DEF Base, Named
<1>5. Named'
  BY <1>2, <1>4, OneIsNamed DEF Base, FilesMove, Settled
<1> QED BY <1>3, <1>5 DEF Base

LEMMA EndIsTyped ==
    ASSUME Base, NEW l \in Launchers, NEW started \in SUBSET Processes, Ends(l, started),
           UNCHANGED <<dir, pointers, ack, updater, proven>>
    PROVE  Base'
<1>1. /\ launcher' \in [Launchers -> LauncherStates] /\ launcher'[l] = Off
      /\ \A k \in Launchers \ {l} : launcher'[k] = launcher[k]
      /\ app' \in {NoApp} \cup Processes /\ born' \in SUBSET Processes
  BY LauncherLeaves DEF Base
<1>2. Shapes'
  BY <1>1 DEF Base, Shapes, pointers
<1>3. Named'
  BY <1>1, NothingIsTyped, OneIsNamed DEF Base, Trying, Settled, pointers
<1> QED BY <1>2, <1>3 DEF Base

LEMMA TrialIsTyped ==
    ASSUME Base, NEW l \in Launchers,
           \/ RemoveAck(l) \/ SpawnCandidate(l) \/ LookForAck(l) \/ PollCandidate(l)
           \/ Timeout(l) \/ CommitCurrent(l) \/ CommitPrevious(l) \/ RemovePending(l)
           \/ UndoCurrent(l) \/ UndoPending(l) \/ ListForUndo(l)
    PROVE  Base'
<1> USE DEF pointers, apps, At, SameUpdater
<1>1. /\ Shapes /\ current \in Versions /\ previous \in AnyVersions
      /\ pending \in {NoPending} \cup Updates /\ ack \in SUBSET Versions
      /\ app \in {NoApp} \cup Processes /\ born \in SUBSET Processes
  BY DEF Base, Shapes
<1>2. /\ {"unack", "candidate", "await", "poll", "commit_current", "commit_previous",
          "commit_pending", "undo_current", "undo_pending"}
            \subseteq LauncherPcs \ {"fallback", "restart"}
      /\ {"unack", "candidate", "await", "poll", "commit_current", "commit_previous",
          "commit_pending", "undo_current", "undo_pending", "undo_candidate"}
            \subseteq Trying \cup Settled
      /\ {"commit_sweep", "undo_candidate", "undo_sweep"} \subseteq Settled
  BY DEF LauncherPcs, Trying, Settled
<1>3. launcher[l].pc \in Trying \cup Settled
  BY <1>2 DEF RemoveAck, SpawnCandidate, LookForAck, PollCandidate, Timeout, CommitCurrent,
              CommitPrevious, RemovePending, UndoCurrent, UndoPending, ListForUndo
<1>4. /\ launcher[l].mine \in Updates /\ launcher[l].mine.previous \in Versions
      /\ launcher[l].mine.candidate \in Versions
  BY <1>3 DEF Base, Named, Updates
<1>5. CASE RemoveAck(l) \/ LookForAck(l) \/ PollCandidate(l)
  <2>1. PICK pc \in {"candidate", "commit_current", "poll", "await", "undo_current"} : Go(l, pc)
    BY <1>5 DEF RemoveAck, LookForAck, PollCandidate
  <2>2. FilesMove /\ UNCHANGED <<updater, apps>>
    BY <1>1, <1>5 DEF FilesMove, RemoveAck, LookForAck, PollCandidate
  <2> QED BY <1>1, <1>2, <1>3, <2>1, <2>2, GoIsTyped
<1>6. CASE SpawnCandidate(l)
  <2>1. PICK pc \in {"await", "undo_current"} : Go(l, pc)
    BY <1>6 DEF SpawnCandidate
  <2>2. FilesMove /\ UNCHANGED <<updater, app>>
    BY <1>1, <1>6 DEF FilesMove, SpawnCandidate
  <2>3. TRUE \in BOOLEAN /\ l \in Launchers \cup {Nobody}
    BY Zenon
  <2>4. born' \in SUBSET Processes
    BY <1>1, <1>4, <1>6, <2>3, NewProcess DEF SpawnCandidate
  <2> QED BY <1>1, <1>2, <1>3, <2>1, <2>2, <2>4, GoIsTyped
<1>7. CASE Timeout(l)
  <2>1. Go(l, "undo_current") /\ FilesMove /\ SameUpdater
    BY <1>1, <1>7 DEF FilesMove, Timeout
  <2>2. app' \in {NoApp} \cup Processes /\ born' \in SUBSET Processes
    BY <1>1, <1>7 DEF Timeout
  <2> QED BY <1>2, <1>3, <2>1, <2>2, GoIsTyped
<1>8. CASE CommitCurrent(l) \/ CommitPrevious(l) \/ UndoCurrent(l)
  <2>1. PICK pc \in {"commit_previous", "commit_pending", "undo_pending"} : Go(l, pc)
    BY <1>8 DEF CommitCurrent, CommitPrevious, UndoCurrent
  <2>2. FilesMove /\ UNCHANGED <<updater, apps>>
    BY <1>1, <1>4, <1>8 DEF FilesMove, CommitCurrent, CommitPrevious, UndoCurrent, AnyVersions
  <2> QED BY <1>1, <1>2, <1>3, <2>1, <2>2, GoIsTyped
<1>9. CASE RemovePending(l) \/ UndoPending(l) \/ ListForUndo(l)
  <2>1. {launcher[l].mine.candidate} \in SUBSET Dirs /\ Present(Versions) \in SUBSET Dirs
    BY <1>4, Words DEF Present
  <2>2. PICK pc \in Settled, todo \in SUBSET Dirs : Lists(l, pc, todo)
    BY <1>2, <1>9, <2>1 DEF Lists, RemovePending, UndoPending, ListForUndo
  <2>3. FilesMove /\ UNCHANGED <<updater, apps>>
    BY <1>1, <1>9 DEF FilesMove, RemovePending, UndoPending, ListForUndo
  <2> QED BY <1>3, <2>2, <2>3, SweepIsTyped
<1> QED BY <1>5, <1>6, <1>7, <1>8, <1>9

LEMMA EndingIsTyped ==
    ASSUME Base, NEW l \in Launchers,
           \/ Committed(l) \/ Relaunch(l) \/ PendingFails(l) \/ DropPending(l)
           \/ StartCurrent(l) \/ FallBack(l) \/ Restart(l) \/ LauncherDies(l)
    PROVE  Base'
<1> USE DEF pointers, apps, At, SameUpdater
<1>1. /\ Shapes /\ Named /\ current \in Versions /\ previous \in AnyVersions
      /\ pending \in {NoPending} \cup Updates /\ ack \in SUBSET Versions
      /\ app \in {NoApp} \cup Processes /\ born \in SUBSET Processes
  BY DEF Base, Shapes
<1>2. /\ FALSE \in BOOLEAN /\ Nobody \in Launchers \cup {Nobody} /\ {} \in SUBSET Processes
      /\ {"drop", "current"} \subseteq LauncherPcs \ {"fallback", "restart"}
      /\ {"drop", "current"} \cap (Trying \cup Settled) = {}
  BY Zenon DEF LauncherPcs, Trying, Settled
<1>3. \A v \in Versions : {Process(v, Nobody, FALSE)} \in SUBSET Processes
  <2>1. \A v \in Versions : Process(v, Nobody, FALSE) \in Processes
    BY <1>2, NothingIsTyped, Zenon
  <2> QED BY <2>1
<1>4. CASE Committed(l) \/ LauncherDies(l)
  BY <1>2, <1>4, EndIsTyped DEF Committed, LauncherDies
<1>5. CASE Relaunch(l) \/ Restart(l)
  <2>1. launcher[l].mine.previous \in Versions
    BY <1>1, <1>5 DEF Relaunch, Restart, Named, Settled, Updates
  <2> QED BY <1>2, <1>3, <1>5, <2>1, EndIsTyped DEF Relaunch, Restart
<1>6. CASE PendingFails(l) \/ DropPending(l)
  <2>1. PICK pc \in {"drop", "current"} : Go(l, pc)
    BY <1>6 DEF PendingFails, DropPending
  <2>2. FilesMove /\ UNCHANGED <<updater, apps>>
    BY <1>1, <1>6 DEF FilesMove, PendingFails, DropPending
  <2> QED BY <1>1, <1>2, <2>1, <2>2, GoIsTyped
<1>7. CASE StartCurrent(l)
  <2>1. CASE \E started \in SUBSET Processes : Ends(l, started)
    BY <1>7, <2>1, EndIsTyped DEF StartCurrent
  <2>2. CASE previous # NoVersion /\ Go(l, "fallback") /\ UNCHANGED <<app, born>>
    <3>1. "fallback" \in LauncherPcs /\ previous \in Versions
      BY <1>1, <2>2 DEF LauncherPcs, AnyVersions
    <3>2. /\ launcher' \in [Launchers -> LauncherStates] /\ launcher'[l].pc = "fallback"
          /\ \A k \in Launchers \ {l} : launcher'[k] = launcher[k]
      BY <1>1, <2>2, <3>1, LauncherGoes DEF Shapes
    <3>3. UNCHANGED <<dir, pointers, ack, updater, proven>>
      BY <1>7 DEF StartCurrent
    <3>4. Shapes'
      BY <1>1, <2>2, <3>2, <3>3 DEF Shapes
    <3>5. Named'
      BY <1>1, <3>1, <3>2, <3>3, OneIsNamed DEF Trying, Settled
    <3> QED BY <3>4, <3>5 DEF Base
  <2> QED BY <1>1, <1>2, <1>3, <1>7, <2>1, <2>2 DEF StartCurrent
<1>8. CASE FallBack(l)
  <2>1. previous \in Versions
    BY <1>1, <1>8 DEF FallBack, Named
  <2>2. /\ launcher' \in [Launchers -> LauncherStates]
        /\ launcher'[l].pc = "restart" /\ launcher'[l].mine.previous = previous
        /\ \A k \in Launchers \ {l} : launcher'[k] = launcher[k]
    BY <1>1, <1>8, LauncherFallsBack
  <2>3. current' = previous /\ UNCHANGED <<dir, previous, pending, ack, updater, apps>>
    BY <1>8 DEF FallBack
  <2>4. Shapes'
    BY <1>1, <2>1, <2>2, <2>3 DEF Shapes
  <2>5. Named'
    BY <1>1, <2>1, <2>2, <2>3, OneIsNamed DEF Trying, Settled
  <2> QED BY <2>4, <2>5 DEF Base
<1> QED BY <1>4, <1>5, <1>6, <1>7, <1>8

\* The updater goes to its next step.
LEMMA UpdaterGoes ==
    ASSUME Shapes, NEW from, NEW to \in UpdaterPcs, Step(from, to)
    PROVE  /\ updater' \in UpdaterStates /\ updater.pc = from /\ updater'.pc = to
           /\ updater'.target = updater.target /\ updater'.base = updater.base
BY DEF Shapes, Step, UpdaterStates

\* The launchers stay, and nobody gets a version it had not.
LEMMA LaunchersStayNamed ==
    ASSUME Named, launcher' = launcher, previous' = previous,
           updater'.pc # "off" => updater'.target \in Versions,
           updater'.pc \notin {"off", "verify"} => updater'.base \in Versions
    PROVE  Named'
BY DEF Named

LEMMA InstallIsTyped ==
    ASSUME Base, UpdaterStep
    PROVE  Base'
<1> USE DEF pointers, apps
<1>1. /\ Shapes /\ Named /\ current \in Versions /\ previous \in AnyVersions
      /\ pending \in {NoPending} \cup Updates /\ updater \in UpdaterStates
      /\ dir \in [Dirs -> {"absent", "torn", "whole"}]
      /\ launcher \in [Launchers -> LauncherStates]
  BY DEF Base, Shapes
<1>2. {"verify", "wait", "copy", "copying", "retire", "replace", "promote", "switch",
       "launch", "launched"} \subseteq UpdaterPcs
  BY DEF UpdaterPcs
<1>3. CASE VerifyStaged
  <2>1. /\ updater' \in UpdaterStates /\ updater'.pc = "wait" /\ updater'.base = current
        /\ updater'.target = updater.target /\ updater.pc = "verify"
    BY <1>1, <1>2, <1>3 DEF VerifyStaged, UpdaterStates, AnyVersions
  <2>2. Shapes'
    BY <1>1, <1>3, <2>1 DEF Shapes, VerifyStaged
  <2>3. Named'
    BY <1>1, <1>3, <2>1, LaunchersStayNamed DEF VerifyStaged, Named
  <2> QED BY <2>2, <2>3 DEF Base
<1>4. CASE ParentGone \/ EndCopy \/ ReplaceTarget \/ WritePending \/ SwitchCurrent
  <2>1. PICK from \in {"wait", "copying", "replace", "promote", "switch"},
             to \in {"copy", "retire", "promote", "switch", "launch"} : Step(from, to)
    BY <1>4 DEF ParentGone, EndCopy, ReplaceTarget, WritePending, SwitchCurrent
  <2>2. /\ updater' \in UpdaterStates /\ updater'.pc = to /\ updater.pc = from
        /\ updater'.target = updater.target /\ updater'.base = updater.base
    BY <1>1, <1>2, <2>1, UpdaterGoes
  <2>3. updater.target \in Versions /\ updater.base \in Versions
    BY <1>1, <2>2 DEF Named
  <2>4. dir' \in [Dirs -> {"absent", "torn", "whole"}]
    BY <1>1, <1>4, <2>3, Words DEF ParentGone, EndCopy, ReplaceTarget, WritePending,
       SwitchCurrent
  <2>5. /\ current' \in Versions /\ pending' \in {NoPending} \cup Updates
        /\ UNCHANGED <<previous, ack, launcher, apps>>
    BY <1>1, <1>4, <2>3 DEF ParentGone, EndCopy, ReplaceTarget, WritePending, SwitchCurrent,
       Updates
  <2>6. Shapes'
    BY <1>1, <2>2, <2>4, <2>5 DEF Shapes
  <2>7. Named'
    BY <1>1, <2>2, <2>3, <2>5, LaunchersStayNamed
  <2> QED BY <2>6, <2>7 DEF Base
<1>5. CASE StartCopy
  <2>1. /\ updater' \in UpdaterStates /\ updater'.pc = "copying" /\ updater.pc = "copy"
        /\ updater'.target = updater.target /\ updater'.base = updater.base
    BY <1>1, <1>2, <1>5, UpdaterGoes DEF StartCopy
  <2>2. \A l \in Launchers :
          /\ [launcher[l] EXCEPT !.todo = launcher[l].todo \ {Incoming}] \in LauncherStates
          /\ [launcher[l] EXCEPT !.todo = launcher[l].todo \ {Incoming}].pc = launcher[l].pc
          /\ [launcher[l] EXCEPT !.todo = launcher[l].todo \ {Incoming}].mine = launcher[l].mine
    BY <1>1 DEF LauncherStates
  <2>3. launcher' = [l \in Launchers |->
                       [launcher[l] EXCEPT !.todo = launcher[l].todo \ {Incoming}]]
    BY <1>5 DEF StartCopy
  <2>4. /\ launcher' \in [Launchers -> LauncherStates]
        /\ \A l \in Launchers : /\ launcher'[l].pc = launcher[l].pc
                                /\ launcher'[l].mine = launcher[l].mine
    BY <2>2, <2>3
  <2>5. Shapes'
    BY <1>1, <1>5, <2>1, <2>4, Words DEF Shapes, StartCopy
  <2>6. Named'
    BY <1>1, <1>5, <2>1, <2>4 DEF Named, StartCopy
  <2> QED BY <2>5, <2>6 DEF Base
<1>6. CASE RetireTarget
  <2>1. /\ updater' \in UpdaterStates /\ updater'.pc \in {"retire", "replace"}
        /\ updater.pc = "retire"
        /\ updater'.target = updater.target /\ updater'.base = updater.base
    BY <1>1, <1>2, <1>6, UpdaterGoes DEF RetireTarget
  <2>2. dir' \in [Dirs -> {"absent", "torn", "whole"}]
    BY <1>1, <1>6 DEF RetireTarget
  <2>3. Shapes'
    BY <1>1, <1>6, <2>1, <2>2 DEF Shapes, RetireTarget
  <2>4. Named'
    BY <1>1, <1>6, <2>1, LaunchersStayNamed DEF RetireTarget, Named
  <2> QED BY <2>3, <2>4 DEF Base
<1>7. CASE \E l \in Launchers : LaunchCandidate(l)
  <2>1. PICK l \in Launchers : LaunchCandidate(l)
    BY <1>7
  <2>2. /\ updater' \in UpdaterStates /\ updater'.pc = "launched" /\ updater.pc = "launch"
        /\ updater'.target = updater.target /\ updater'.base = updater.base
    BY <1>1, <1>2, <2>1, UpdaterGoes DEF LaunchCandidate
  <2>3. "keep_current" \in LauncherPcs
    BY DEF LauncherPcs
  <2>4. /\ launcher' \in [Launchers -> LauncherStates] /\ launcher'[l].pc = "keep_current"
        /\ \A k \in Launchers \ {l} : launcher'[k] = launcher[k]
    BY <1>1, <2>1, <2>3, LauncherGoes DEF LaunchCandidate
  <2>5. Shapes'
    BY <1>1, <2>1, <2>2, <2>4 DEF Shapes, LaunchCandidate
  <2>6. Named'
    BY <1>1, <2>1, <2>2, <2>4 DEF Named, LaunchCandidate, Trying, Settled
  <2> QED BY <2>5, <2>6 DEF Base
<1>8. CASE UpdaterEnds \/ InstallFails
  <2>1. updater' = NoUpdater /\ UNCHANGED <<pointers, ack, launcher, apps>>
    BY <1>8 DEF UpdaterEnds, InstallFails
  <2>2. dir' \in [Dirs -> {"absent", "torn", "whole"}]
    BY <1>1, <1>8 DEF UpdaterEnds, InstallFails
  <2>3. Shapes'
    BY <1>1, <2>1, <2>2, NothingIsTyped DEF Shapes
  <2>4. Named'
    BY <1>1, <2>1, NothingIsTyped, LaunchersStayNamed
  <2> QED BY <2>3, <2>4 DEF Base
<1> QED BY <1>3, <1>4, <1>5, <1>6, <1>7, <1>8 DEF UpdaterStep

LEMMA AppIsTyped ==
    ASSUME Base, AppStep
    PROVE  Base'
<1> USE DEF pointers, apps
<1>1. /\ Shapes /\ Named /\ app \in {NoApp} \cup Processes /\ born \in SUBSET Processes
      /\ updater \in UpdaterStates /\ ack \in SUBSET Versions /\ proven \in SUBSET Versions
      /\ FALSE \in BOOLEAN /\ TRUE \in BOOLEAN
  BY Zenon DEF Base, Shapes
<1>2. CASE \E p \in born : Claim(p)
  <2>1. app' \in {NoApp} \cup Processes /\ born' \in SUBSET Processes
    BY <1>1, <1>2 DEF Claim
  <2>2. Shapes'
    BY <1>1, <1>2, <2>1 DEF Shapes, Claim
  <2>3. Named'
    BY <1>1, <1>2 DEF Named, Claim
  <2> QED BY <2>2, <2>3 DEF Base
<1>3. CASE BecomeReady
  <2>1. app \in Processes /\ app.version \in Versions
    BY <1>1, <1>3 DEF BecomeReady, Processes
  <2>2. app' \in Processes
    BY <1>1, <1>3, <2>1 DEF BecomeReady, Processes
  <2>3. ack' \in SUBSET Versions /\ proven' \in SUBSET Versions
    BY <1>1, <1>3, <2>1 DEF BecomeReady
  <2>4. Shapes'
    BY <1>1, <1>3, <2>2, <2>3 DEF Shapes, BecomeReady
  <2>5. Named'
    BY <1>1, <1>3 DEF Named, BecomeReady
  <2> QED BY <2>4, <2>5 DEF Base
<1>4. CASE Exit
  <2>1. /\ updater' \in UpdaterStates /\ updater'.pc = updater.pc
        /\ updater'.target = updater.target /\ updater'.base = updater.base
    BY <1>1, <1>4, ParentLeaves DEF Exit, SameUpdater
  <2>2. Shapes'
    BY <1>1, <1>4, <2>1 DEF Shapes, Exit
  <2>3. Named'
    BY <1>1, <1>4, <2>1, LaunchersStayNamed DEF Exit, Named
  <2> QED BY <2>2, <2>3 DEF Base
<1>5. CASE \E v \in Versions : RequestUpdate(v)
  <2>1. PICK v \in Versions : RequestUpdate(v)
    BY <1>5
  <2>2. app' \in Processes
    BY <1>1, <2>1 DEF RequestUpdate, Processes
  <2>3. updater' \in UpdaterStates /\ updater'.pc = "verify" /\ updater'.target = v
    BY <1>1, <2>1 DEF RequestUpdate, UpdaterStates, UpdaterPcs, AnyVersions
  <2>4. Shapes'
    BY <1>1, <2>1, <2>2, <2>3 DEF Shapes, RequestUpdate
  <2>5. Named'
    BY <1>1, <2>1, <2>3, LaunchersStayNamed DEF RequestUpdate
  <2> QED BY <2>4, <2>5 DEF Base
<1> QED BY <1>2, <1>3, <1>4, <1>5 DEF AppStep

LEMMA DeathIsTyped ==
    ASSUME Base, UpdaterDies \/ AllDie
    PROVE  Base'
<1>1. Shapes /\ Named
  BY DEF Base
<1>2. CASE UpdaterDies
  <2>1. Shapes'
    BY <1>1, <1>2, NothingIsTyped DEF Shapes, UpdaterDies, pointers, apps
  <2>2. Named'
    BY <1>1, <1>2, NothingIsTyped, LaunchersStayNamed DEF UpdaterDies, pointers
  <2> QED BY <2>1, <2>2 DEF Base
<1>3. CASE AllDie
  <2>1. Shapes'
    BY <1>1, <1>3, NothingIsTyped DEF Shapes, AllDie, pointers
  <2>2. Named'
    BY <1>3, NothingIsTyped DEF Named, AllDie, Trying, Settled
  <2> QED BY <2>1, <2>2 DEF Base
<1> QED BY <1>2, <1>3

LEMMA BaseIsKept == Base /\ [Next]_vars => Base'
<1> SUFFICES ASSUME Base, [Next]_vars PROVE Base'
  OBVIOUS
<1>1. CASE UNCHANGED vars
  <2>1. Shapes' /\ Named'
    BY <1>1 DEF Base, Shapes, Named, vars, pointers, apps
  <2> QED BY <2>1 DEF Base
<1>2. CASE \E l \in Launchers :
              \/ LauncherStep(l) \/ StartLauncher(l) \/ Timeout(l) \/ PendingFails(l)
              \/ \E d \in Dirs : TearTree(l, d)
  BY <1>2, RecoveryIsTyped, TrialIsTyped, EndingIsTyped DEF LauncherStep
<1>3. CASE UpdaterStep \/ AppStep
  BY <1>3, InstallIsTyped, AppIsTyped
<1>4. CASE Death
  BY <1>4, EndingIsTyped, DeathIsTyped DEF Death
<1> QED BY <1>1, <1>2, <1>3, <1>4 DEF Next

LEMMA BaseAtFirst == Init => Base
<1> SUFFICES ASSUME Init PROVE Base
  OBVIOUS
<1>1. Shapes
  BY NothingIsTyped DEF Init, Shapes, AnyVersions
<1>2. Named
  BY NothingIsTyped DEF Init, Named, Trying, Settled
<1> QED BY <1>1, <1>2 DEF Base

\* Whatever overlaps, fails or is killed: files and processes have their types, and
\* who is going to write a pointer holds a version to write.
THEOREM BaseInvariant == Spec => []Base
BY BaseIsKept, BaseAtFirst, PTL DEF Spec

\* current.json always names a version, the other files are of their types, and
\* a launcher or updater only writes versions it has read, whatever processes
\* overlap, fail or die (launcher.py, updater/external.py).
THEOREM TypeCorrect == Spec => []TypeOK
<1>1. Base => TypeOK
  BY DEF Base, Shapes, TypeOK, Updates, Ours, AnyVersions, LauncherStates, UpdaterStates,
         Processes, NoApp, Process
<1> QED BY <1>1, BaseInvariant, PTL

-----------------------------------------------------------------------------
(* Updates one after the other *)

\* The pointers as numbers.
LEMMA PointersAreKnown ==
    ASSUME Base, Pointers
    PROVE  /\ current \in Versions /\ current \in Nat /\ current # NoVersion
           /\ previous # NoVersion => previous \in Versions /\ previous \in Nat
           /\ pending = NoPending =>
                 /\ Installed = current /\ Protected = {current, previous} \ {NoVersion}
           /\ pending # NoPending =>
                 /\ pending \in Updates /\ Installed = pending.previous
                 /\ pending.previous \in Versions /\ pending.candidate \in Versions
                 /\ pending.previous \in Nat /\ pending.candidate \in Nat
           /\ Installed \in Versions /\ Installed \in Nat /\ Installed \in Protected
           /\ \A v \in Protected : v \in Versions /\ v \in Nat /\ v \in Dirs
           /\ current \in Protected
<1>1. /\ current \in Versions /\ previous \in AnyVersions
      /\ pending \in {NoPending} \cup Updates
  BY DEF Base, Shapes
<1>2. CASE pending = NoPending
  BY <1>1, <1>2, Words DEF Installed, Protected, AnyVersions
<1>3. CASE pending \in Updates
  BY <1>1, <1>3, Words DEF Installed, Protected, AnyVersions, Updates
<1> QED BY <1>1, <1>2, <1>3

\* The next update of a process that follows the pointers is new to them.
LEMMA FollowersAreAhead ==
    ASSUME Base, Pointers, NEW p, p.version \in Nat, Follows(p)
    PROVE  \A v \in Protected : v <= p.version
<1>1. CASE pending = NoPending
  BY <1>1, PointersAreKnown DEF Follows, Pointers
<1>2. CASE pending # NoPending
  <2>1. /\ pending.previous \in Nat /\ pending.candidate \in Nat /\ current \in Nat
        /\ pending.previous < pending.candidate
        /\ current = pending.previous \/ current = pending.candidate
        /\ p.version = pending.candidate
        /\ previous # NoVersion => previous \in Nat /\ previous <= pending.previous
    BY <1>2, PointersAreKnown DEF Follows, Pointers
  <2> QED BY <2>1 DEF Protected
<1> QED BY <1>1, <1>2

\* The files as they are, or less of what nobody needs.
LEMMA PointersStand ==
    ASSUME Pointers, UNCHANGED <<pointers, proven>>, ack' \subseteq proven,
           \A v \in Protected : dir'[v] = "whole"
    PROVE  Pointers'
BY DEF Pointers, Protected, Installed, pointers

LEMMA ProcessesStand ==
    ASSUME ProcessesOK, UNCHANGED <<pointers, apps>>
    PROVE  ProcessesOK'
BY DEF ProcessesOK, Follows, pointers, apps

\* A launcher at work is the only one, and no updater changes files.
LEMMA LauncherTurn ==
    ASSUME IInv, NEW l \in Launchers, Active(l),
           \A k \in Launchers \ {l} : launcher'[k] = launcher[k],
           updater'.pc = updater.pc
    PROVE  /\ OneActor' /\ UpdaterOK'
           /\ (Knows(launcher[l]))' => LauncherOK'
           /\ updater.pc \in {"off", "launched"}
<1>1. \A k \in Launchers \ {l} : launcher'[k].pc = "off"
  BY DEF IInv, OneActor, Active
<1>2. updater.pc \in {"off", "launched"}
  BY DEF IInv, OneActor
<1>3. OneActor' /\ UpdaterOK'
  BY <1>1, <1>2 DEF OneActor, Active, UpdaterOK, Installing
<1>4. \A k \in Launchers \ {l} : (Knows(launcher[k]))'
  BY <1>1 DEF Knows, Sweeping, Trying, Settled
<1> QED BY <1>2, <1>3, <1>4 DEF LauncherOK

LEMMA RecoveryIsFine ==
    ASSUME IInv, Base', ~Overlap, ~MayFail, NEW l \in Launchers,
           \/ KeepCurrent(l) \/ KeepPrevious(l) \/ KeepPending(l) \/ ListOrphans(l)
           \/ (\E d \in Dirs : RemoveTree(l, d) \/ TearTree(l, d))
           \/ ReadPending(l) \/ StartLauncher(l)
    PROVE  IInv'
<1> USE DEF pointers, apps, Active
<1>1. /\ Base /\ Shapes /\ OneActor /\ Pointers /\ LauncherOK /\ ProcessesOK
      /\ Knows(launcher[l]) /\ launcher \in [Launchers -> LauncherStates]
      /\ ack \subseteq proven /\ \A v \in Protected : dir[v] = "whole"
      /\ current \in AnyVersions /\ previous \in AnyVersions /\ pending \in Ours
      /\ current # NoVersion
  BY Words DEF IInv, Base, Shapes, LauncherOK, Pointers, AnyVersions
<1>2. /\ {current} \in SUBSET AnyVersions /\ {previous} \in SUBSET AnyVersions
      /\ {pending.previous, pending.candidate} \in SUBSET AnyVersions
      /\ {"keep_current", "keep_previous", "keep_pending", "list"} \subseteq LauncherPcs
  BY <1>1 DEF Ours, LauncherPcs
<1>3. CASE KeepCurrent(l)
  <2> DEFINE kept == {current}
  <2>0. /\ Keep(l, "keep_current", "keep_previous", kept)
        /\ "keep_previous" \in LauncherPcs /\ kept \in SUBSET AnyVersions
        /\ current \in kept \ {NoVersion}
    BY <1>1, <1>2, <1>3 DEF KeepCurrent
  <2> HIDE DEF kept
  <2>1. /\ launcher[l].pc = "keep_current" /\ launcher'[l].pc = "keep_previous"
        /\ launcher'[l].keep = launcher[l].keep \cup (kept \ {NoVersion})
        /\ \A k \in Launchers \ {l} : launcher'[k] = launcher[k]
        /\ UNCHANGED <<dir, pointers, ack, updater, apps>>
    BY <1>1, <2>0, LauncherKeeps
  <2>2. (Knows(launcher[l]))'
    BY <2>0, <2>1 DEF Knows, Sweeping, Trying, Settled
  <2> QED BY <1>1, <2>1, <2>2, LauncherTurn, PointersStand, ProcessesStand DEF IInv
<1>4. CASE KeepPrevious(l)
  <2>1. /\ launcher[l].pc = "keep_previous" /\ launcher'[l].pc = "keep_pending"
        /\ launcher'[l].keep = launcher[l].keep \cup ({previous} \ {NoVersion})
        /\ \A k \in Launchers \ {l} : launcher'[k] = launcher[k]
        /\ UNCHANGED <<dir, pointers, ack, updater, apps>>
    BY <1>1, <1>2, <1>4, LauncherKeeps DEF KeepPrevious
  <2>2. (Knows(launcher[l]))'
    BY <1>1, <2>1 DEF Knows, Sweeping, Trying, Settled
  <2> QED BY <1>1, <2>1, <2>2, LauncherTurn, PointersStand, ProcessesStand DEF IInv
<1>5. CASE KeepPending(l)
  <2> DEFINE kept == {pending.previous, pending.candidate}
  <2>0. /\ Keep(l, "keep_pending", "list", kept)
        /\ "list" \in LauncherPcs /\ kept \in SUBSET AnyVersions
    BY <1>1, <1>2, <1>5 DEF KeepPending
  <2> HIDE DEF kept
  <2>1. /\ launcher[l].pc = "keep_pending" /\ launcher'[l].pc = "list"
        /\ launcher'[l].keep = launcher[l].keep \cup (kept \ {NoVersion})
        /\ \A k \in Launchers \ {l} : launcher'[k] = launcher[k]
        /\ UNCHANGED <<dir, pointers, ack, updater, apps>>
    BY <1>1, <2>0, LauncherKeeps
  <2>2. (Knows(launcher[l]))'
    BY <1>1, <2>1 DEF kept, Knows, Sweeping, Trying, Settled
  <2> QED BY <1>1, <2>1, <2>2, LauncherTurn, PointersStand, ProcessesStand DEF IInv
<1>6. CASE ListOrphans(l)
  <2>1. /\ launcher[l].pc = "list" /\ launcher'[l].pc = "recover"
        /\ launcher'[l].todo \cap launcher[l].keep = {}
        /\ \A k \in Launchers \ {l} : launcher'[k] = launcher[k]
        /\ UNCHANGED <<dir, pointers, ack, updater, apps>>
    BY <1>1, <1>6, LauncherLists
  <2>2. Protected \subseteq launcher[l].keep
    BY <1>1, <2>1 DEF Knows, Protected
  <2>3. (Knows(launcher[l]))'
    BY <2>1, <2>2 DEF Knows, Sweeping, Trying, Settled, Protected
  <2> QED BY <1>1, <2>1, <2>3, LauncherTurn, PointersStand, ProcessesStand DEF IInv
<1>7. CASE \E d \in Dirs : RemoveTree(l, d)
  <2>1. PICK d \in Dirs : RemoveTree(l, d)
    BY <1>7
  <2>2. /\ launcher[l].pc \in Sweeping /\ d \in launcher[l].todo
        /\ launcher'[l].pc = launcher[l].pc /\ launcher'[l].mine = launcher[l].mine
        /\ launcher'[l].todo = launcher[l].todo \ {d}
        /\ launcher'[l].keep = launcher[l].keep
        /\ \A k \in Launchers \ {l} : launcher'[k] = launcher[k]
        /\ \A e \in Dirs \ {d} : dir'[e] = dir[e]
        /\ UNCHANGED <<pointers, ack, updater, apps>>
    BY <1>1, <2>1, LauncherRemoves
  <2>3. d \notin Protected
    BY <1>1, <2>2 DEF Knows
  <2>4. \A v \in Protected : dir'[v] = "whole"
    BY <1>1, <2>2, <2>3, PointersAreKnown
  <2>5. (Knows(launcher[l]))'
    BY <1>1, <2>2 DEF Knows, Protected
  <2>6. Active(l)
    BY <2>2 DEF Sweeping
  <2> QED BY <1>1, <2>2, <2>4, <2>5, <2>6, LauncherTurn, PointersStand, ProcessesStand DEF IInv
<1>8. CASE \E d \in Dirs : TearTree(l, d)
  <2>1. PICK d \in Dirs : TearTree(l, d)
    BY <1>8
  <2>2. /\ launcher[l].pc \in Sweeping /\ d \in launcher[l].todo
        /\ \A e \in Dirs \ {d} : dir'[e] = dir[e]
        /\ UNCHANGED <<pointers, ack, launcher, updater, apps>>
    BY <1>1, <2>1 DEF TearTree, Shapes
  <2>3. d \notin Protected
    BY <1>1, <2>2 DEF Knows
  <2>4. \A v \in Protected : dir'[v] = "whole"
    BY <1>1, <2>2, <2>3, PointersAreKnown
  <2>5. (Knows(launcher[l]))'
    BY <1>1, <2>2 DEF Knows, Protected
  <2>6. Active(l)
    BY <2>2 DEF Sweeping
  <2> QED BY <1>1, <2>2, <2>4, <2>5, <2>6, LauncherTurn, PointersStand, ProcessesStand DEF IInv
<1>9. CASE ReadPending(l)
  <2>1. /\ launcher[l].pc = "recover"
        /\ launcher'[l].pc = (IF pending = NoPending THEN "current" ELSE "unack")
        /\ launcher'[l].mine = pending
        /\ \A k \in Launchers \ {l} : launcher'[k] = launcher[k]
        /\ UNCHANGED <<dir, pointers, ack, updater, apps>>
    BY <1>1, <1>9, LauncherReads
  <2>2. (Knows(launcher[l]))'
    BY <2>1 DEF Knows, Sweeping, Trying, Settled
  <2> QED BY <1>1, <2>1, <2>2, LauncherTurn, PointersStand, ProcessesStand DEF IInv
<1>10. CASE StartLauncher(l)
  <2>1. /\ Go(l, "keep_current") /\ Alone
        /\ UNCHANGED <<dir, pointers, ack, updater, apps>>
    BY <1>10 DEF StartLauncher
  <2>2. /\ launcher'[l].pc = "keep_current"
        /\ \A k \in Launchers \ {l} : launcher'[k] = launcher[k]
    BY <1>1, <1>2, <2>1, LauncherGoes
  <2>3. OneActor' /\ UpdaterOK'
    BY <2>1, <2>2 DEF Alone, At, OneActor, UpdaterOK, Installing
  <2>4. LauncherOK'
    BY <1>1, <2>1, <2>2 DEF LauncherOK, Alone, At, Knows, Sweeping, Trying, Settled
  <2> QED BY <1>1, <2>1, <2>3, <2>4, PointersStand, ProcessesStand DEF IInv
<1> QED BY <1>3, <1>4, <1>5, <1>6, <1>7, <1>8, <1>9, <1>10

\* So a step of a launcher is fine if it is for the pointers, the processes and
\* for itself.
LEMMA TurnIsFine ==
    ASSUME IInv, Base', NEW l \in Launchers, Active(l),
           \A k \in Launchers \ {l} : launcher'[k] = launcher[k],
           updater'.pc = updater.pc, Pointers', ProcessesOK', (Knows(launcher[l]))'
    PROVE  IInv'
BY LauncherTurn DEF IInv

LEMMA TrialIsFine ==
    ASSUME IInv, Base', NEW l \in Launchers,
           \/ RemoveAck(l) \/ SpawnCandidate(l) \/ LookForAck(l) \/ PollCandidate(l)
           \/ Timeout(l)
    PROVE  IInv'
<1> USE DEF pointers, apps, At
<1>1. /\ Base /\ Shapes /\ Pointers /\ ProcessesOK /\ UpdaterOK
      /\ Knows(launcher[l]) /\ launcher \in [Launchers -> LauncherStates]
      /\ ack \subseteq proven /\ \A v \in Protected : dir[v] = "whole"
  BY DEF IInv, Base, Shapes, LauncherOK, Pointers
<1>2. {"unack", "candidate", "await", "poll", "commit_current", "undo_current"}
        \subseteq LauncherPcs \cap Trying
  BY DEF LauncherPcs, Trying
<1>3. PICK pc \in {"candidate", "await", "poll", "commit_current", "undo_current"} :
        Go(l, pc) /\ (pc = "commit_current" => launcher[l].mine.candidate \in ack)
  <2>1. CASE LookForAck(l) /\ launcher[l].mine.candidate \in ack
    BY <2>1 DEF LookForAck
  <2>2. CASE LookForAck(l) /\ launcher[l].mine.candidate \notin ack
    BY <2>2 DEF LookForAck
  <2>3. CASE RemoveAck(l) \/ SpawnCandidate(l) \/ PollCandidate(l) \/ Timeout(l)
    BY <2>3 DEF RemoveAck, SpawnCandidate, PollCandidate, Timeout
  <2> QED BY <2>1, <2>2, <2>3
<1>4. /\ launcher'[l].pc = pc /\ launcher'[l].mine = launcher[l].mine
      /\ \A k \in Launchers \ {l} : launcher'[k] = launcher[k]
  BY <1>1, <1>2, <1>3, LauncherGoes
<1>5. launcher[l].pc \in Trying /\ launcher[l].pc # "off"
  BY DEF Trying, RemoveAck, SpawnCandidate, LookForAck, PollCandidate, Timeout
<1>6. pending # NoPending /\ launcher[l].mine = pending
  BY <1>1, <1>5 DEF Knows
<1>7. ack' \subseteq proven /\ UNCHANGED <<dir, pointers, proven>>
  BY <1>1 DEF RemoveAck, SpawnCandidate, LookForAck, PollCandidate, Timeout
<1>8. Pointers'
  BY <1>1, <1>7, PointersStand
<1>9. pc = "commit_current" => launcher[l].mine.candidate \in proven
  BY <1>1, <1>3
<1>10. (Knows(launcher[l]))'
  BY <1>4, <1>6, <1>7, <1>9 DEF Knows, Sweeping, Trying, Settled
<1>11. updater'.pc = updater.pc
  BY <1>1 DEF RemoveAck, SpawnCandidate, LookForAck, PollCandidate, Timeout, Shapes,
     UpdaterStates
<1>12. ProcessesOK'
  <2>1. CASE RemoveAck(l) \/ LookForAck(l) \/ PollCandidate(l)
    BY <1>1, <2>1, ProcessesStand DEF RemoveAck, LookForAck, PollCandidate
  <2>2. CASE Timeout(l)
    BY <1>1, <2>2, NothingIsTyped DEF Timeout, ProcessesOK, Follows
  <2>3. CASE SpawnCandidate(l)
    <3> DEFINE p == Process(launcher[l].mine.candidate, l, TRUE)
    <3>1. p.version = pending.candidate /\ ~p.ready
      BY <1>6 DEF Process
    <3>2. \A q \in born' : q \in born \cup {p}
      BY <2>3 DEF SpawnCandidate
    <3> HIDE DEF p
    <3>3. current <= p.version
      <4>1. /\ current \in Nat /\ pending.previous \in Nat /\ pending.candidate \in Nat
            /\ pending.previous < pending.candidate
            /\ current \in {pending.previous, pending.candidate}
        BY <1>1, <1>6, PointersAreKnown DEF Pointers
      <4> QED BY <3>1, <4>1
    <3> QED BY <1>1, <1>6, <1>7, <2>3, <3>1, <3>2, <3>3 DEF SpawnCandidate, ProcessesOK, Follows
  <2> QED BY <2>1, <2>2, <2>3
<1> QED BY <1>4, <1>5, <1>8, <1>10, <1>11, <1>12, TurnIsFine DEF Active

\* The candidate has started: it takes the place of the installed version.
LEMMA CommitIsFine ==
    ASSUME IInv, Base', NEW l \in Launchers,
           CommitCurrent(l) \/ CommitPrevious(l) \/ RemovePending(l)
    PROVE  IInv'
<1> USE DEF pointers, apps, At
<1>1. /\ Base /\ Shapes /\ Pointers /\ ProcessesOK
      /\ Knows(launcher[l]) /\ launcher \in [Launchers -> LauncherStates]
      /\ \A v \in Protected : dir[v] = "whole"
  BY DEF IInv, Base, Shapes, LauncherOK, Pointers
<1>2. {"commit_previous", "commit_pending", "commit_sweep"} \subseteq LauncherPcs
  BY DEF LauncherPcs
<1>3. /\ launcher[l].pc \in Trying /\ Active(l)
      /\ launcher[l].pc \in {"commit_current", "commit_previous", "commit_pending"}
      /\ UNCHANGED <<dir, ack, updater, apps>>
  BY DEF Trying, CommitCurrent, CommitPrevious, RemovePending, Active
<1>4. /\ launcher[l].mine = pending /\ pending # NoPending
      /\ pending.candidate \in proven /\ Installed = pending.previous
      /\ pending.previous \in Nat /\ pending.candidate \in Nat /\ current \in Nat
      /\ pending.previous < pending.candidate
      /\ current \in {pending.previous, pending.candidate}
      /\ Installed \in proven /\ ack \subseteq proven
      /\ pending.previous \in Versions /\ pending.candidate \in Versions
      /\ Protected = {current, previous, pending.previous, pending.candidate} \ {NoVersion}
      /\ \A p \in born \cup {app} : Follows(p) => p.version = pending.candidate
  BY <1>1, <1>3, PointersAreKnown DEF Knows, Pointers, Protected, Follows
<1>5. NoPending.previous = NoVersion /\ NoPending.candidate = NoVersion
  BY Words
<1>6. CASE CommitCurrent(l)
  <2>1. /\ launcher'[l].pc = "commit_previous" /\ launcher'[l].mine = launcher[l].mine
        /\ \A k \in Launchers \ {l} : launcher'[k] = launcher[k]
        /\ current' = pending.candidate /\ UNCHANGED <<previous, pending>>
    BY <1>1, <1>2, <1>4, <1>6, LauncherGoes DEF CommitCurrent
  <2>2. Protected' \subseteq Protected
    BY <1>4, <2>1 DEF Protected
  <2>3. Pointers'
    BY <1>1, <1>3, <1>4, <2>1, <2>2 DEF Pointers, Installed
  <2>4. (Knows(launcher[l]))'
    BY <1>3, <1>4, <2>1 DEF Knows, Sweeping, Trying, Settled
  <2>5. ProcessesOK'
    BY <1>1, <1>3, <1>4, <2>1 DEF ProcessesOK, Follows
  <2> QED BY <1>3, <2>1, <2>3, <2>4, <2>5, TurnIsFine
<1>7. CASE CommitPrevious(l)
  <2>1. /\ launcher'[l].pc = "commit_pending" /\ launcher'[l].mine = launcher[l].mine
        /\ \A k \in Launchers \ {l} : launcher'[k] = launcher[k]
        /\ previous' = pending.previous /\ UNCHANGED <<current, pending>>
        /\ launcher[l].pc = "commit_previous"
    BY <1>1, <1>2, <1>4, <1>7, LauncherGoes DEF CommitPrevious
  <2>2. Protected' \subseteq Protected
    BY <1>4, <2>1 DEF Protected
  <2>3. Pointers'
    BY <1>1, <1>3, <1>4, <2>1, <2>2 DEF Pointers, Installed
  <2>4. (Knows(launcher[l]))'
    BY <1>1, <1>3, <1>4, <2>1 DEF Knows, Sweeping, Trying, Settled
  <2>5. ProcessesOK'
    BY <1>1, <1>3, <1>4, <2>1 DEF ProcessesOK, Follows
  <2> QED BY <1>3, <2>1, <2>3, <2>4, <2>5, TurnIsFine
<1>8. CASE RemovePending(l)
  <2> DEFINE to == "commit_sweep"
             todo == Present(Versions) \ {launcher[l].mine.candidate, launcher[l].mine.previous}
  <2>1. to \in LauncherPcs /\ todo \in SUBSET Dirs /\ todo \cap {pending.candidate, pending.previous} = {}
    BY <1>2, <1>4 DEF Present, Dirs
  <2>2. /\ Lists(l, to, todo)
        /\ pending' = NoPending /\ UNCHANGED <<current, previous>>
        /\ launcher[l].pc = "commit_pending"
    BY <1>8 DEF Lists, RemovePending
  <2> HIDE DEF to, todo
  <2>3. /\ launcher'[l].pc = to /\ launcher'[l].todo = todo
        /\ \A k \in Launchers \ {l} : launcher'[k] = launcher[k]
    BY <1>1, <2>1, <2>2, LauncherSweeps
  <2>4. current = pending.candidate /\ previous = pending.previous
    BY <1>1, <1>4, <2>2 DEF Knows
  <2>5. Protected' \subseteq {pending.candidate, pending.previous}
    BY <1>5, <2>2, <2>4 DEF Protected
  <2>6. Protected' \subseteq Protected
    BY <1>4, <2>4, <2>5, Words
  <2>7. Installed' = pending.candidate
    BY <2>2, <2>4 DEF Installed
  <2>8. Pointers'
    BY <1>1, <1>3, <1>4, <2>2, <2>4, <2>6, <2>7 DEF Pointers
  <2>9. (Knows(launcher[l]))'
    BY <2>1, <2>2, <2>3, <2>5 DEF to, Knows, Sweeping, Trying, Settled
  <2>10. ProcessesOK'
    BY <1>1, <1>3, <2>2 DEF ProcessesOK, Follows
  <2> QED BY <1>3, <2>3, <2>8, <2>9, <2>10, TurnIsFine
<1> QED BY <1>6, <1>7, <1>8

\* It has not: the installed version is current again.
LEMMA RollbackIsFine ==
    ASSUME IInv, Base', NEW l \in Launchers,
           UndoCurrent(l) \/ UndoPending(l) \/ ListForUndo(l)
    PROVE  IInv'
<1> USE DEF pointers, apps, At
<1>1. /\ Base /\ Shapes /\ Pointers /\ ProcessesOK
      /\ Knows(launcher[l]) /\ launcher \in [Launchers -> LauncherStates]
      /\ \A v \in Protected : dir[v] = "whole"
      /\ NoPending.previous = NoVersion /\ NoPending.candidate = NoVersion
  BY Words DEF IInv, Base, Shapes, LauncherOK, Pointers
<1>2. {"undo_pending", "undo_candidate", "undo_sweep"} \subseteq LauncherPcs
  BY DEF LauncherPcs
<1>3. Active(l) /\ UNCHANGED <<dir, ack, updater, apps>>
  BY DEF UndoCurrent, UndoPending, ListForUndo, Active
<1>4. ASSUME launcher[l].pc \in {"undo_current", "undo_pending"}
      PROVE  /\ launcher[l].mine = pending /\ pending # NoPending
             /\ Installed = pending.previous
             /\ pending.previous \in Nat /\ pending.candidate \in Nat /\ current \in Nat
             /\ pending.previous < pending.candidate
             /\ Installed \in proven /\ ack \subseteq proven
             /\ pending.previous \in Versions /\ pending.candidate \in Versions
             /\ previous # NoVersion => previous \in Nat /\ previous <= pending.previous
             /\ \A p \in born \cup {app} : Follows(p) => p.version = pending.candidate
             /\ Protected = {current, previous, pending.previous, pending.candidate} \ {NoVersion}
  BY <1>1, <1>4, PointersAreKnown DEF Knows, Trying, Pointers, Protected, Follows
<1>5. CASE UndoCurrent(l)
  <2>0. launcher[l].pc = "undo_current"
    BY <1>5 DEF UndoCurrent
  <2>1. /\ launcher'[l].pc = "undo_pending" /\ launcher'[l].mine = launcher[l].mine
        /\ \A k \in Launchers \ {l} : launcher'[k] = launcher[k]
        /\ current' = pending.previous /\ UNCHANGED <<previous, pending>>
    BY <1>1, <1>2, <1>4, <1>5, LauncherGoes DEF UndoCurrent
  <2>2. Protected' \subseteq Protected
    BY <1>4, <2>0, <2>1 DEF Protected
  <2>3. Pointers'
    BY <1>1, <1>3, <1>4, <2>0, <2>1, <2>2 DEF Pointers, Installed
  <2>4. (Knows(launcher[l]))'
    BY <1>3, <1>4, <2>0, <2>1 DEF Knows, Sweeping, Trying, Settled
  <2>5. ProcessesOK'
    BY <1>1, <1>3, <1>4, <2>0, <2>1 DEF ProcessesOK, Follows
  <2> QED BY <1>3, <2>1, <2>3, <2>4, <2>5, TurnIsFine
<1>6. CASE UndoPending(l)
  <2> DEFINE to == "undo_candidate"
             todo == {launcher[l].mine.candidate}
  <2>0. launcher[l].pc = "undo_pending"
    BY <1>6 DEF UndoPending
  <2>1. to \in LauncherPcs /\ todo \in SUBSET Dirs /\ todo = {pending.candidate}
    BY <1>2, <1>4, <2>0 DEF Dirs
  <2>2. /\ Lists(l, to, todo)
        /\ pending' = NoPending /\ UNCHANGED <<current, previous>>
    BY <1>6 DEF Lists, UndoPending
  <2> HIDE DEF to, todo
  <2>3. /\ launcher'[l].pc = to /\ launcher'[l].todo = todo
        /\ launcher'[l].mine = launcher[l].mine
        /\ \A k \in Launchers \ {l} : launcher'[k] = launcher[k]
    BY <1>1, <2>1, <2>2, LauncherSweeps
  <2>4. current = pending.previous
    BY <1>1, <1>4, <2>0 DEF Knows
  <2>5. Protected' = {pending.previous, previous} \ {NoVersion}
    BY <1>1, <2>2, <2>4 DEF Protected
  <2>6. pending.candidate \notin Protected'
    BY <1>4, <2>0, <2>5
  <2>7. Protected' \subseteq Protected
    BY <1>4, <2>0, <2>5
  <2>8. Installed' = pending.previous
    BY <2>2, <2>4 DEF Installed
  <2>9. Pointers'
    BY <1>1, <1>3, <1>4, <2>0, <2>2, <2>7, <2>8 DEF Pointers
  <2>10. (Knows(launcher[l]))'
    BY <1>4, <2>0, <2>1, <2>2, <2>3, <2>4, <2>6 DEF to, Knows, Sweeping, Trying, Settled
  <2>11. ProcessesOK'
    BY <1>1, <1>3, <2>2 DEF ProcessesOK, Follows
  <2> QED BY <1>3, <2>3, <2>9, <2>10, <2>11, TurnIsFine
<1>7. CASE ListForUndo(l)
  <2> DEFINE to == "undo_sweep"
             todo == Present(Versions) \ {launcher[l].mine.previous, previous}
  <2>1. to \in LauncherPcs /\ todo \in SUBSET Dirs /\ todo \cap {launcher[l].mine.previous, previous} = {}
    BY <1>2 DEF Present, Dirs
  <2>2. /\ Lists(l, to, todo)
        /\ UNCHANGED pointers /\ launcher[l].pc = "undo_candidate"
    BY <1>7 DEF Lists, ListForUndo
  <2> HIDE DEF to, todo
  <2>3. /\ launcher'[l].pc = to /\ launcher'[l].todo = todo
        /\ launcher'[l].mine = launcher[l].mine
        /\ \A k \in Launchers \ {l} : launcher'[k] = launcher[k]
    BY <1>1, <2>1, <2>2, LauncherSweeps
  <2>4. current = launcher[l].mine.previous /\ pending = NoPending
    BY <1>1, <2>2 DEF Knows, Settled
  <2>5. Protected' \subseteq {launcher[l].mine.previous, previous}
    BY <1>1, <2>2, <2>4 DEF Protected
  <2>6. (Knows(launcher[l]))'
    BY <2>1, <2>2, <2>3, <2>4, <2>5 DEF to, Knows, Sweeping, Trying, Settled
  <2>7. Pointers' /\ ProcessesOK'
    BY <1>1, <1>3, <2>2, PointersStand, ProcessesStand DEF Pointers
  <2> QED BY <1>3, <2>3, <2>6, <2>7, TurnIsFine
<1> QED BY <1>5, <1>6, <1>7

\* A launcher ends; what it starts follows the pointers.
LEMMA EndIsFine ==
    ASSUME IInv, Base', NEW l \in Launchers, NEW started \in SUBSET Processes, Active(l),
           Ends(l, started), UNCHANGED <<dir, pointers, ack, updater, proven>>,
           \A q \in started : Follows(q) /\ ~q.ready
    PROVE  IInv'
<1>1. /\ launcher'[l] = Off /\ \A k \in Launchers \ {l} : launcher'[k] = launcher[k]
      /\ SameButBy(app', app) /\ (app' = NoApp <=> app = NoApp)
      /\ \A q \in born' : q \in started \/ \E p \in born : SameButBy(q, p)
  BY LauncherLeaves DEF IInv, Base
<1>2. (Knows(launcher[l]))'
  BY <1>1, NothingIsTyped DEF Knows, Sweeping, Trying, Settled
<1>3. Pointers'
  BY PointersStand DEF IInv, Pointers
<1>4. \A q, p : SameButBy(q, p) /\ Follows(p) => (Follows(q))'
  BY DEF SameButBy, Follows, pointers
<1>5. \A q \in born' : (Follows(q))' /\ ~q.ready
  <2>1. \A q \in started : (Follows(q))'
    BY DEF Follows, pointers
  <2> QED BY <1>1, <1>4, <2>1 DEF SameButBy, IInv, ProcessesOK
<1>6. app' # NoApp /\ ~app'.left => (Follows(app))'
  <2>1. app' # NoApp /\ ~app'.left => SameButBy(app', app) /\ Follows(app)
    BY <1>1 DEF SameButBy, IInv, ProcessesOK
  <2> QED BY <2>1 DEF SameButBy, Follows, pointers
<1>7. app' # NoApp /\ app'.ready => app'.version \in proven'
  BY <1>1 DEF SameButBy, IInv, ProcessesOK
<1>8. ProcessesOK'
  BY <1>5, <1>6, <1>7 DEF ProcessesOK
<1> QED BY <1>1, <1>2, <1>3, <1>8, TurnIsFine

LEMMA EndingIsFine ==
    ASSUME IInv, Base', ~MayFail, NEW l \in Launchers,
           \/ Committed(l) \/ Relaunch(l) \/ PendingFails(l) \/ DropPending(l)
           \/ StartCurrent(l) \/ FallBack(l) \/ Restart(l) \/ LauncherDies(l)
    PROVE  IInv'
<1> USE DEF At
<1>1. /\ Base /\ Pointers /\ Knows(launcher[l]) /\ current \in Versions /\ current \in Nat
      /\ dir[current] = "whole" /\ {} \in SUBSET Processes
  BY PointersAreKnown DEF IInv, LauncherOK, Pointers
<1>2. Active(l)
  BY DEF Active, Committed, Relaunch, PendingFails, DropPending, StartCurrent, FallBack,
         Restart, LauncherDies
<1>3. ~PendingFails(l) /\ ~DropPending(l) /\ ~FallBack(l) /\ ~Restart(l)
  BY <1>1 DEF PendingFails, DropPending, FallBack, Restart, Knows
<1>4. CASE Committed(l) \/ LauncherDies(l)
  <2>1. Ends(l, {}) /\ UNCHANGED <<dir, pointers, ack, updater, proven>>
    BY <1>4 DEF Committed, LauncherDies
  <2> QED BY <1>1, <1>2, <2>1, EndIsFine
<1>5. CASE Relaunch(l) \/ StartCurrent(l)
  <2> DEFINE p == Process(current, Nobody, FALSE)
  <2>1. p \in Processes /\ p.version = current /\ ~p.ready
    <3>1. FALSE \in BOOLEAN /\ Nobody \in Launchers \cup {Nobody}
      BY Zenon
    <3> QED BY <1>1, <3>1, NothingIsTyped
  <2>2. pending = NoPending
    BY <1>1, <1>5 DEF Relaunch, StartCurrent, Knows, Settled
  <2>3. launcher[l].pc = "undo_sweep" => launcher[l].mine.previous = current
    BY <1>1 DEF Knows
  <2>4. Ends(l, {p}) /\ UNCHANGED <<dir, pointers, ack, updater, proven>>
    BY <1>1, <1>5, <2>3 DEF Relaunch, StartCurrent, MayNotStart
  <2> HIDE DEF p
  <2>5. Follows(p)
    BY <1>1, <2>1, <2>2 DEF Follows
  <2> QED BY <1>2, <2>1, <2>4, <2>5, EndIsFine
<1> QED BY <1>3, <1>4, <1>5

\* An updater at work is alone, and nobody is left who could ask for the next
\* update: the pointers may move.
LEMMA UpdaterTurn ==
    ASSUME IInv, updater.pc \notin {"off", "launched"}, UNCHANGED apps,
           \A l \in Launchers : launcher'[l].pc = launcher[l].pc
    PROVE  OneActor' /\ LauncherOK' /\ ProcessesOK'
<1>1. /\ \A l \in Launchers : launcher'[l].pc = "off"
      /\ born' = {} /\ (app' = NoApp \/ app'.left)
  BY DEF IInv, OneActor, Active, apps
<1>2. app' # NoApp /\ app'.ready => app'.version \in proven'
  BY DEF IInv, ProcessesOK, apps
<1> QED BY <1>1, <1>2 DEF OneActor, Active, LauncherOK, Knows, Sweeping, Trying, Settled,
           ProcessesOK

LEMMA InstallIsFine ==
    ASSUME IInv, Base',
           \/ VerifyStaged \/ ParentGone \/ StartCopy \/ EndCopy \/ RetireTarget
           \/ ReplaceTarget \/ WritePending \/ SwitchCurrent
    PROVE  IInv'
<1> USE DEF pointers, apps, Step
<1>1. /\ Base /\ Pointers /\ UpdaterOK /\ dir \in [Dirs -> {"absent", "torn", "whole"}]
      /\ updater \in UpdaterStates /\ ack \subseteq proven
      /\ launcher \in [Launchers -> LauncherStates]
      /\ \A v \in Protected : dir[v] = "whole"
  BY DEF IInv, Base, Shapes, Pointers
<1>2. /\ updater.pc \in Installing \cup {"switch"}
      /\ updater.pc \notin {"off", "launched"} /\ UNCHANGED <<ack, previous, apps>>
  BY DEF Installing, VerifyStaged, ParentGone, StartCopy, EndCopy, RetireTarget,
         ReplaceTarget, WritePending, SwitchCurrent
<1>3. /\ updater.target \in Versions /\ updater.target \in Nat /\ updater.target \in Dirs
      /\ updater.target # Incoming /\ Incoming \in Dirs
      /\ updater.pc # "verify" => updater.base \in Versions
  BY <1>1, <1>2, Words DEF Base, Named
<1>4. \A l \in Launchers : launcher'[l].pc = launcher[l].pc
  <2>1. CASE UNCHANGED launcher
    BY <2>1
  <2>2. CASE StartCopy
    BY <1>1, <2>2 DEF StartCopy, LauncherStates
  <2> QED BY <2>1, <2>2 DEF VerifyStaged, ParentGone, EndCopy, RetireTarget, ReplaceTarget,
             WritePending, SwitchCurrent
<1>5. OneActor' /\ LauncherOK' /\ ProcessesOK'
  BY <1>2, <1>4, UpdaterTurn
<1>6. /\ \A v \in Protected : v \in Versions /\ v \in Nat /\ v \in Dirs /\ v # Incoming
      /\ current \in Protected /\ current \in Nat
  BY <1>1, PointersAreKnown, Words
<1>7. updater.pc \in Installing => \A v \in Protected : v # updater.target
  BY <1>1, <1>3, <1>6 DEF UpdaterOK
<1>8. CASE VerifyStaged
  <2>1. Pointers'
    BY <1>1, <1>8, PointersStand DEF VerifyStaged
  <2>2. updater'.pc = "wait" /\ updater'.base = current /\ updater'.target = updater.target
    BY <1>1, <1>8 DEF VerifyStaged, UpdaterStates
  <2>3. UpdaterOK'
    BY <1>1, <1>8, <2>2 DEF VerifyStaged, UpdaterOK, Installing, Protected
  <2> QED BY <1>5, <2>1, <2>3 DEF IInv
<1>9. CASE \/ ParentGone \/ StartCopy \/ EndCopy \/ RetireTarget \/ ReplaceTarget
  <2>1. /\ UNCHANGED <<pointers, proven>>
        /\ updater'.target = updater.target /\ updater'.base = updater.base
        /\ updater.pc \in {"wait", "copy", "copying", "retire", "replace"}
        /\ updater'.pc \in {"copy", "copying", "retire", "replace", "promote"}
    BY <1>1, <1>9 DEF UpdaterStates, ParentGone, StartCopy, EndCopy, RetireTarget, ReplaceTarget
  <2>2. \A d \in Dirs \ {Incoming, updater.target} : dir'[d] = dir[d]
    BY <1>1, <1>3, <1>9 DEF ParentGone, StartCopy, EndCopy, RetireTarget, ReplaceTarget
  <2>3. \A v \in Protected : dir'[v] = "whole"
    BY <1>1, <1>6, <1>7, <2>1, <2>2 DEF Installing
  <2>4. Pointers'
    BY <1>1, <1>2, <2>1, <2>3, PointersStand
  <2>5. updater'.pc \in {"retire", "replace"} => dir'[Incoming] = "whole"
    BY <1>1, <1>3, <1>9, <2>1 DEF UpdaterOK, ParentGone, StartCopy, EndCopy, RetireTarget,
       ReplaceTarget, UpdaterStates
  <2>6. updater'.pc = "promote" => dir'[updater'.target] = "whole"
    BY <1>1, <1>3, <1>9, <2>1 DEF UpdaterOK, ParentGone, StartCopy, EndCopy, RetireTarget,
       ReplaceTarget, UpdaterStates
  <2>7. UpdaterOK'
    BY <1>1, <2>1, <2>5, <2>6 DEF UpdaterOK, Installing, Protected
  <2> QED BY <1>5, <2>4, <2>7 DEF IInv
<1>10. CASE WritePending
  <2> DEFINE new == [previous |-> updater.base, candidate |-> updater.target]
  <2>1. /\ updater.pc = "promote" /\ updater'.pc = "switch" /\ pending' = new
        /\ updater'.target = updater.target /\ updater'.base = updater.base
        /\ UNCHANGED <<dir, current>>
    BY <1>1, <1>10 DEF WritePending, UpdaterStates
  <2>2. /\ updater.base = current /\ dir[updater.target] = "whole" /\ current \in proven
        /\ current < updater.target
    BY <1>1, <1>6, <2>1 DEF UpdaterOK, Installing
  <2>3. new.previous = current /\ new.candidate = updater.target /\ new # NoPending
    BY <1>3, <2>2, Words DEF NoPending
  <2> HIDE DEF new
  <2>4. Protected' \subseteq Protected \cup {updater.target}
    BY <1>2, <1>6, <2>1, <2>3 DEF Protected
  <2>5. Installed' = current
    BY <2>1, <2>3 DEF Installed
  <2>6. previous # NoVersion => previous <= current
    <3>1. Installed <= current
      BY <1>1, PointersAreKnown DEF Pointers
    <3> QED BY <1>1, <3>1, PointersAreKnown DEF Pointers
  <2>7. Pointers'
    BY <1>1, <1>2, <2>1, <2>2, <2>3, <2>4, <2>5, <2>6 DEF Pointers
  <2>8. UpdaterOK'
    BY <2>1 DEF UpdaterOK, Installing, new
  <2> QED BY <1>5, <2>7, <2>8 DEF IInv
<1>11. CASE SwitchCurrent
  <2>1. /\ updater.pc = "switch" /\ updater'.pc = "launch" /\ current' = updater.target
        /\ UNCHANGED <<dir, pending, proven>>
    BY <1>1, <1>11 DEF SwitchCurrent, UpdaterStates
  <2>2. pending = [previous |-> updater.base, candidate |-> updater.target]
    BY <1>1, <2>1 DEF UpdaterOK
  <2>3. pending # NoPending /\ pending.candidate = updater.target
    BY <1>3, <2>2, Words DEF NoPending
  <2>4. Protected' \subseteq Protected /\ Installed' = Installed
    BY <1>2, <1>3, <2>1, <2>3, Words DEF Protected, Installed
  <2>5. Pointers'
    BY <1>1, <1>2, <2>1, <2>3, <2>4 DEF Pointers
  <2>6. UpdaterOK'
    BY <2>1 DEF UpdaterOK, Installing
  <2> QED BY <1>5, <2>5, <2>6 DEF IInv
<1> QED BY <1>8, <1>9, <1>10, <1>11

\* The updater starts the launcher, or ends, or is killed.
LEMMA InstallEndsFine ==
    ASSUME IInv, Base',
           (\E l \in Launchers : LaunchCandidate(l)) \/ UpdaterEnds \/ InstallFails \/ UpdaterDies
    PROVE  IInv'
<1> USE DEF pointers, apps
<1>1. /\ Base /\ Pointers /\ OneActor /\ LauncherOK /\ ProcessesOK /\ ack \subseteq proven
      /\ dir \in [Dirs -> {"absent", "torn", "whole"}] /\ updater \in UpdaterStates
      /\ launcher \in [Launchers -> LauncherStates]
      /\ \A v \in Protected : dir[v] = "whole" /\ v \in Dirs /\ v # Incoming
  <2>1. Base /\ Pointers /\ OneActor /\ LauncherOK /\ ProcessesOK
    BY DEF IInv
  <2> QED BY <2>1, PointersAreKnown, Words DEF Base, Shapes, Pointers
<1>2. UNCHANGED <<pointers, ack, apps>> /\ \A d \in Dirs \ {Incoming} : dir'[d] = dir[d]
  BY <1>1 DEF LaunchCandidate, UpdaterEnds, InstallFails, UpdaterDies
<1>3. Pointers' /\ ProcessesOK'
  BY <1>1, <1>2, PointersStand, ProcessesStand
<1>4. CASE UpdaterEnds \/ InstallFails \/ UpdaterDies
  <2>1. updater'.pc = "off" /\ UNCHANGED launcher
    BY <1>4, NothingIsTyped DEF UpdaterEnds, InstallFails, UpdaterDies
  <2>2. OneActor' /\ UpdaterOK'
    BY <1>1, <2>1 DEF OneActor, Active, UpdaterOK, Installing
  <2>3. LauncherOK'
    BY <1>1, <1>2, <2>1 DEF LauncherOK, Knows, Protected
  <2> QED BY <1>3, <2>2, <2>3 DEF IInv
<1>5. CASE \E l \in Launchers : LaunchCandidate(l)
  <2>1. PICK l \in Launchers : LaunchCandidate(l)
    BY <1>5
  <2>2. /\ updater.pc = "launch" /\ updater'.pc = "launched" /\ Go(l, "keep_current")
        /\ "keep_current" \in LauncherPcs
    BY <1>1, <2>1 DEF LaunchCandidate, Step, UpdaterStates, LauncherPcs
  <2>3. /\ launcher'[l].pc = "keep_current"
        /\ \A k \in Launchers \ {l} : launcher'[k] = launcher[k]
    BY <1>1, <2>2, LauncherGoes
  <2>4. \A k \in Launchers \ {l} : launcher'[k].pc = "off"
    BY <1>1, <2>2, <2>3 DEF OneActor, Active
  <2>5. OneActor' /\ UpdaterOK'
    BY <2>2, <2>3, <2>4 DEF OneActor, Active, UpdaterOK, Installing
  <2>6. LauncherOK'
    BY <2>3, <2>4 DEF LauncherOK, Knows, Sweeping, Trying, Settled
  <2> QED BY <1>3, <2>5, <2>6 DEF IInv
<1> QED BY <1>4, <1>5

\* What the application does moves no pointer.
LEMMA LaunchersKnow ==
    ASSUME LauncherOK, UNCHANGED <<launcher, pointers>>, proven \subseteq proven'
    PROVE  LauncherOK'
BY DEF LauncherOK, Knows, Protected, pointers

LEMMA UseIsFine ==
    ASSUME IInv, Base', (\E p \in born : Claim(p)) \/ BecomeReady \/ Exit
    PROVE  IInv'
<1> USE DEF pointers, apps
<1>1. /\ Base /\ Shapes /\ Pointers /\ OneActor /\ LauncherOK /\ UpdaterOK /\ ProcessesOK
      /\ updater \in UpdaterStates /\ app \in {NoApp} \cup Processes
      /\ ~NoApp.left /\ NoApp \notin Processes /\ ack \subseteq proven
  BY NothingIsTyped DEF IInv, Base, Shapes, Pointers
<1>2. /\ UNCHANGED <<dir, pointers, launcher>> /\ proven \subseteq proven'
      /\ updater'.pc = updater.pc /\ updater'.target = updater.target
      /\ updater'.base = updater.base
  BY <1>1 DEF Claim, BecomeReady, Exit, UpdaterStates
<1>3. LauncherOK' /\ UpdaterOK'
  BY <1>1, <1>2, LaunchersKnow DEF UpdaterOK, Protected
<1>4. CASE \E p \in born : Claim(p)
  <2>1. PICK p \in born : Claim(p)
    BY <1>4
  <2>2. /\ born' = born \ {p} /\ (app' = app \/ app' = p) /\ UNCHANGED <<ack, proven>>
    BY <2>1 DEF Claim
  <2>3. Follows(p) /\ ~p.ready
    BY <1>1 DEF ProcessesOK
  <2>4. OneActor'
    BY <1>1, <1>2, <2>1 DEF OneActor, Active
  <2>5. ProcessesOK'
    <3>1. \A q : Follows(q) => (Follows(q))'
      BY <1>2 DEF Follows
    <3>2. \A q \in born' : (Follows(q))' /\ ~q.ready
      BY <1>1, <2>2, <3>1 DEF ProcessesOK
    <3>3. CASE app' = app
      BY <1>1, <2>2, <3>1, <3>2, <3>3 DEF ProcessesOK
    <3>4. CASE app' = p
      BY <2>3, <3>1, <3>2, <3>4 DEF ProcessesOK
    <3> QED BY <2>2, <3>3, <3>4
  <2>6. Pointers'
    BY <1>1, <1>2, <2>2, PointersStand DEF Pointers
  <2> QED BY <1>3, <2>4, <2>5, <2>6 DEF IInv
<1>5. CASE BecomeReady
  <2>1. /\ app \in Processes /\ app' \in Processes /\ app'.version = app.version
        /\ app'.left = app.left /\ app'.version \in proven' /\ born' = born
    <3>1. app \in Processes /\ TRUE \in BOOLEAN
      BY <1>1, <1>5, Zenon DEF BecomeReady
    <3> QED BY <3>1, <1>5 DEF BecomeReady, Processes
  <2>2. ack' \subseteq proven'
    BY <1>1, <1>5 DEF BecomeReady
  <2>3. OneActor'
    BY <1>1, <1>2, <2>1 DEF OneActor, Active
  <2>4. ProcessesOK'
    BY <1>1, <1>2, <2>1 DEF ProcessesOK, Follows
  <2>5. Pointers'
    BY <1>1, <1>2, <2>2 DEF Pointers, Installed, Protected
  <2> QED BY <1>3, <2>3, <2>4, <2>5 DEF IInv
<1>6. CASE Exit
  <2>1. app' = NoApp /\ UNCHANGED <<born, ack, proven>>
    BY <1>6 DEF Exit
  <2>2. OneActor'
    BY <1>1, <1>2, <2>1 DEF OneActor, Active
  <2>3. ProcessesOK'
    BY <1>1, <1>2, <2>1 DEF ProcessesOK, Follows
  <2>4. Pointers'
    BY <1>1, <1>2, <2>1, PointersStand DEF Pointers
  <2> QED BY <1>3, <2>2, <2>3, <2>4 DEF IInv
<1> QED BY <1>4, <1>5, <1>6

\* The next update is newer than what the pointers name, and falls back to a
\* version that has started.
LEMMA RequestIsFine ==
    ASSUME IInv, Base', ~Overlap, ~EarlyUpdates, NEW v \in Versions, RequestUpdate(v)
    PROVE  IInv'
<1> USE DEF pointers, apps
<1>1. /\ Base /\ Shapes /\ Pointers /\ LauncherOK /\ ProcessesOK
      /\ app \in Processes /\ app.version \in Nat /\ ~app.left /\ app.ready /\ Alone
      /\ v > app.version /\ v \in Nat
  BY Words DEF IInv, Base, Shapes, RequestUpdate, Processes
<1>2. /\ app' \in Processes /\ app'.left /\ app'.version = app.version
      /\ app' # NoApp /\ UNCHANGED <<dir, pointers, launcher, born, proven>>
  <2>1. app' \in Processes /\ app'.left /\ app'.version = app.version
    <3>1. TRUE \in BOOLEAN
      BY Zenon
    <3> QED BY <1>1, <3>1 DEF RequestUpdate, Processes
  <2> QED BY <2>1, NothingIsTyped DEF RequestUpdate
<1>3. updater'.pc = "verify" /\ updater'.target = v
  BY DEF RequestUpdate
<1>4. Follows(app) /\ app.version \in proven
  BY <1>1, NothingIsTyped DEF ProcessesOK
<1>5. \A w \in Protected : w < v
  <2>1. \A w \in Protected : w \in Nat /\ w <= app.version
    BY <1>1, <1>4, FollowersAreAhead, PointersAreKnown
  <2> QED BY <1>1, <2>1
<1>6. current \in proven
  <2>1. CASE pending = NoPending
    BY <1>1, <2>1, PointersAreKnown DEF Pointers
  <2>2. CASE pending # NoPending
    BY <1>1, <1>4, <2>2, PointersAreKnown DEF Pointers, Follows
  <2> QED BY <2>1, <2>2
<1>7. UpdaterOK'
  BY <1>2, <1>3, <1>5, <1>6 DEF UpdaterOK, Installing, Protected
<1>8. OneActor'
  BY <1>1, <1>2 DEF OneActor, Active, Alone, At
<1>9. LauncherOK'
  BY <1>1, <1>2, LaunchersKnow
<1>10. Pointers'
  BY <1>1, <1>2, PointersStand DEF Pointers, RequestUpdate
<1>11. ProcessesOK'
  BY <1>1, <1>2, <1>4 DEF ProcessesOK, Follows
<1> QED BY <1>7, <1>8, <1>9, <1>10, <1>11 DEF IInv

LEMMA PowerLossIsFine ==
    ASSUME IInv, Base', AllDie
    PROVE  IInv'
<1>1. /\ \A l \in Launchers : launcher'[l].pc = "off"
      /\ updater'.pc = "off" /\ app' = NoApp /\ born' = {}
      /\ UNCHANGED <<dir, pointers, ack, proven>>
  BY NothingIsTyped DEF AllDie
<1>2. Pointers'
  BY <1>1, PointersStand DEF IInv, Pointers
<1> QED BY <1>1, <1>2 DEF IInv, OneActor, Active, LauncherOK, Knows, Sweeping, Trying, Settled,
          UpdaterOK, Installing, ProcessesOK

LEMMA IInvAtFirst == Init => IInv
<1> SUFFICES ASSUME Init PROVE IInv
  OBVIOUS
<1>1. Base /\ \A v \in Versions : v \in Nat /\ v # NoVersion /\ v \in Dirs
  BY BaseAtFirst, Words
<1>2. /\ pending = NoPending /\ Installed = current /\ current \in proven
      /\ pending.previous = NoVersion /\ pending.candidate = NoVersion
  BY <1>1, Words DEF Init, Installed
<1>3. Protected = proven /\ proven \subseteq Versions
  BY <1>1, <1>2 DEF Init, Protected
<1>4. \A v \in Protected : dir[v] = "whole"
  BY <1>1, <1>3 DEF Init
<1>5. previous # NoVersion => previous \in proven /\ previous <= current
  BY <1>1 DEF Init
<1>6. Pointers
  BY <1>2, <1>4, <1>5 DEF Init, Pointers
<1>7. \A l \in Launchers : launcher[l].pc = "off"
  BY NothingIsTyped DEF Init
<1>8. updater.pc = "off" /\ app = NoApp /\ born = {}
  BY NothingIsTyped DEF Init
<1> QED BY <1>1, <1>6, <1>7, <1>8 DEF IInv, OneActor, Active, LauncherOK, Knows, Sweeping,
          Trying, Settled, UpdaterOK, Installing, ProcessesOK

LEMMA IInvIsKept ==
    ASSUME ~Overlap, ~MayFail, ~EarlyUpdates, IInv, [Next]_vars
    PROVE  IInv'
<1>1. Base'
  BY BaseIsKept DEF IInv
<1>2. CASE UNCHANGED vars
  BY <1>2 DEF vars, pointers, apps, IInv, Base, Shapes, Named, OneActor, Active, Pointers,
     Installed, Protected, LauncherOK, Knows, UpdaterOK, ProcessesOK, Follows
<1>3. CASE \E l \in Launchers :
              \/ LauncherStep(l) \/ StartLauncher(l) \/ Timeout(l) \/ PendingFails(l)
              \/ \E d \in Dirs : TearTree(l, d)
  BY <1>1, <1>3, RecoveryIsFine, TrialIsFine, CommitIsFine, RollbackIsFine, EndingIsFine
     DEF LauncherStep
<1>4. CASE UpdaterStep
  BY <1>1, <1>4, InstallIsFine, InstallEndsFine DEF UpdaterStep
<1>5. CASE AppStep
  BY <1>1, <1>5, UseIsFine, RequestIsFine DEF AppStep
<1>6. CASE Death
  BY <1>1, <1>6, EndingIsFine, InstallEndsFine, PowerLossIsFine DEF Death
<1> QED BY <1>2, <1>3, <1>4, <1>5, <1>6 DEF Next

\* If launchers and updaters run one after the other, files can be written and
\* updates are asked for after startup, then at any moment, also after a kill or
\* a power loss at any step: every version a pointer file names is complete, the
\* one to fall back to has started properly, what a launcher is about to remove
\* is named by no pointer, and what an updater overwrites is newer than all of
\* them (launcher.py, updater/external.py).
THEOREM Invariant ==
    ASSUME ~Overlap, ~MayFail, ~EarlyUpdates
    PROVE  Spec => []IInv
<1>1. IInv /\ [Next]_vars => IInv'
  BY IInvIsKept
<1> QED BY <1>1, IInvAtFirst, PTL DEF Spec

\* The version that the next start or rollback relies on is complete and has
\* started properly before (launcher.py: _launch_pending, _rollback_pending and
\* main; updater/external.py: install_candidate).
THEOREM TheInstalledVersionWorks ==
    ASSUME ~Overlap, ~MayFail, ~EarlyUpdates
    PROVE  Spec => []InstalledWorks
<1>1. IInv => InstalledWorks
  BY PointersAreKnown DEF IInv, Pointers, InstalledWorks
<1> QED BY <1>1, Invariant, PTL

\* So is the one previous.json names, to which a launcher falls back when the
\* current version does not start (launcher.py: _launch_pending, main).
THEOREM ThePreviousVersionWorks ==
    ASSUME ~Overlap, ~MayFail, ~EarlyUpdates
    PROVE  Spec => []PreviousWorks
<1>1. IInv => PreviousWorks
  BY DEF IInv, Pointers, Protected, PreviousWorks
<1> QED BY <1>1, Invariant, PTL

-----------------------------------------------------------------------------
(* The promise *)

\* A step that moves none of it.
LEMMA Unseen ==
    ASSUME UNCHANGED <<Installed, pending, proven>>
    PROVE  UNCHANGED Promise!promise
BY DEF Promise!promise

LEMMA PromiseAtFirst == Init => Promise!Init
<1> SUFFICES ASSUME Init PROVE Promise!Init
  OBVIOUS
<1>1. IInv /\ pending = NoPending
  BY IInvAtFirst DEF Init
<1> QED BY <1>1, PointersAreKnown DEF IInv, Base, Shapes, Pointers, Promise!Init, NoPending

\* The steps that prove a version, put one on trial, commit and roll back.
LEMMA ReadyProves ==
    ASSUME Base, BecomeReady
    PROVE  Promise!Next
<1>1. app.version \in Versions /\ proven' = proven \cup {app.version}
  BY DEF Base, Shapes, BecomeReady, Processes
<1>2. UNCHANGED <<Installed, pending>>
  BY DEF BecomeReady, pointers, Installed
<1>3. Promise!Prove(app.version)
  BY <1>1, <1>2 DEF Promise!Prove
<1> QED BY <1>1, <1>3 DEF Promise!Next

LEMMA WritePendingTries ==
    ASSUME IInv, WritePending
    PROVE  Promise!Next
<1>1. /\ Base /\ Pointers /\ updater.pc = "promote" /\ updater.base = current
      /\ updater.target \in Versions /\ \A v \in Protected : v < updater.target
      /\ current \in proven /\ current \in Protected /\ Installed \in Protected
      /\ pending' = [previous |-> updater.base, candidate |-> updater.target]
      /\ UNCHANGED <<current, proven>>
  BY PointersAreKnown DEF IInv, Base, Named, UpdaterOK, Installing, WritePending, Step, apps
<1>2. pending'.candidate = updater.target /\ pending'.previous = current /\ current # NoVersion
  BY <1>1, PointersAreKnown
<1>3. Installed' = current
  BY <1>2, Words DEF Installed
<1>4. \A m, n : n > m <=> m < n
  OBVIOUS
<1>5. CASE current = Installed
  <2>1. Promise!Try(updater.target)
    BY <1>1, <1>2, <1>3, <1>4, <1>5 DEF Promise!Try
  <2> QED BY <1>1, <2>1 DEF Promise!Next
<1>6. CASE current # Installed
  <2>1. current = pending.candidate
    BY <1>1, <1>6 DEF Installed, Pointers
  <2>2. Promise!CommitAndTry(updater.target)
    BY <1>1, <1>2, <1>3, <1>4, <2>1 DEF Promise!CommitAndTry
  <2> QED BY <1>1, <2>2 DEF Promise!Next
<1> QED BY <1>5, <1>6

LEMMA RemovePendingCommits ==
    ASSUME IInv, NEW l \in Launchers, RemovePending(l)
    PROVE  Promise!Next
<1>1. /\ Knows(launcher[l]) /\ launcher[l].pc = "commit_pending" /\ pending' = NoPending
      /\ UNCHANGED <<current, proven>>
  BY DEF IInv, LauncherOK, RemovePending, At, apps
<1>2. pending.candidate \in proven /\ current = pending.candidate
  BY <1>1 DEF Knows, Trying
<1>3. Installed' = pending.candidate /\ pending'.candidate = NoVersion
  BY <1>1, <1>2, Words DEF Installed
<1>4. Promise!Commit
  BY <1>1, <1>2, <1>3 DEF Promise!Commit
<1> QED BY <1>4 DEF Promise!Next

LEMMA UndoPendingRollsBack ==
    ASSUME IInv, NEW l \in Launchers, UndoPending(l)
    PROVE  Promise!Next
<1>1. /\ Knows(launcher[l]) /\ launcher[l].pc = "undo_pending" /\ pending' = NoPending
      /\ UNCHANGED <<current, proven>> /\ Base /\ Pointers
  BY DEF IInv, LauncherOK, UndoPending, At, apps
<1>2. pending # NoPending /\ current = pending.previous
  BY <1>1 DEF Knows, Trying
<1>3. Installed' = Installed /\ pending'.candidate = NoVersion
  BY <1>1, <1>2, Words DEF Installed
<1>4. pending.candidate # NoVersion
  BY <1>1, <1>2, PointersAreKnown, Words
<1>5. Promise!RollBack
  BY <1>1, <1>3, <1>4 DEF Promise!RollBack
<1> QED BY <1>5 DEF Promise!Next

\* Where current.json moves while an update is pending, what is installed stays.
LEMMA SwitchIsUnseen ==
    ASSUME IInv,
           \/ SwitchCurrent
           \/ \E l \in Launchers : CommitCurrent(l) \/ UndoCurrent(l)
    PROVE  UNCHANGED Promise!promise
<1>1. UNCHANGED <<pending, proven>>
  BY DEF SwitchCurrent, CommitCurrent, UndoCurrent, pointers, apps
<1>2. pending # NoPending
  <2>1. CASE SwitchCurrent
    <3>1. /\ updater.base \in Versions
          /\ pending = [previous |-> updater.base, candidate |-> updater.target]
      BY <2>1 DEF IInv, Base, Named, UpdaterOK, SwitchCurrent, Step
    <3> QED BY <3>1, Words DEF NoPending
  <2>2. CASE \E l \in Launchers : CommitCurrent(l) \/ UndoCurrent(l)
    BY <2>2 DEF IInv, LauncherOK, CommitCurrent, UndoCurrent, At, Knows, Trying
  <2> QED BY <2>1, <2>2
<1> QED BY <1>1, <1>2, Unseen DEF Installed

LEMMA LauncherPromises ==
    ASSUME ~MayFail, IInv, NEW l \in Launchers,
           \/ LauncherStep(l) \/ StartLauncher(l) \/ Timeout(l) \/ PendingFails(l)
           \/ \E d \in Dirs : TearTree(l, d)
    PROVE  Promise!Next \/ UNCHANGED Promise!promise
<1>1. ~PendingFails(l) /\ ~DropPending(l) /\ ~FallBack(l)
  BY DEF PendingFails, DropPending, FallBack, IInv, LauncherOK, Knows, At
<1>2. CASE UNCHANGED <<pointers, proven>>
  <2>1. UNCHANGED <<Installed, pending, proven>>
    BY <1>2 DEF pointers, Installed
  <2> QED BY <2>1, Unseen
<1>3. CASE CommitPrevious(l)
  <2>1. UNCHANGED <<Installed, pending, proven>>
    BY <1>3 DEF CommitPrevious, apps, Installed
  <2> QED BY <2>1, Unseen
<1>4. CASE \/ KeepCurrent(l) \/ KeepPrevious(l) \/ KeepPending(l) \/ ListOrphans(l)
           \/ (\E d \in Dirs : RemoveTree(l, d)) \/ ReadPending(l) \/ RemoveAck(l)
           \/ LookForAck(l) \/ PollCandidate(l) \/ ListForUndo(l) \/ StartLauncher(l)
           \/ \E d \in Dirs : TearTree(l, d)
  <2>1. UNCHANGED <<pointers, apps>>
    BY <1>4 DEF KeepCurrent, KeepPrevious, KeepPending, Keep, ListOrphans, RemoveTree,
       ReadPending, RemoveAck, LookForAck, PollCandidate, ListForUndo, StartLauncher, TearTree
  <2> QED BY <1>2, <2>1 DEF apps
<1>5. CASE \/ SpawnCandidate(l) \/ Committed(l) \/ Relaunch(l) \/ StartCurrent(l)
           \/ Restart(l) \/ Timeout(l)
  BY <1>2, <1>5 DEF SpawnCandidate, Committed, Relaunch, StartCurrent, Restart, Timeout
<1> QED BY <1>1, <1>3, <1>4, <1>5, SwitchIsUnseen, RemovePendingCommits, UndoPendingRollsBack
       DEF LauncherStep

LEMMA PromiseIsKept ==
    ASSUME ~MayFail, IInv, [Next]_vars
    PROVE  [Promise!Next]_Promise!promise
<1>1. CASE UNCHANGED <<pointers, proven>>
  <2>1. UNCHANGED <<Installed, pending, proven>>
    BY <1>1 DEF pointers, Installed
  <2> QED BY <2>1, Unseen
<1>2. CASE UNCHANGED vars
  BY <1>1, <1>2 DEF vars, apps
<1>3. CASE \E l \in Launchers :
              \/ LauncherStep(l) \/ StartLauncher(l) \/ Timeout(l) \/ PendingFails(l)
              \/ \E d \in Dirs : TearTree(l, d)
  BY <1>3, LauncherPromises
<1>4. CASE UpdaterStep
  <2>1. CASE WritePending \/ SwitchCurrent
    BY <2>1, WritePendingTries, SwitchIsUnseen
  <2>2. CASE \/ VerifyStaged \/ ParentGone \/ StartCopy \/ EndCopy \/ RetireTarget
             \/ ReplaceTarget \/ (\E l \in Launchers : LaunchCandidate(l))
             \/ UpdaterEnds \/ InstallFails
    <3>1. UNCHANGED <<pointers, apps>>
      BY <2>2 DEF VerifyStaged, ParentGone, StartCopy, EndCopy, RetireTarget, ReplaceTarget,
         LaunchCandidate, UpdaterEnds, InstallFails
    <3> QED BY <1>1, <3>1 DEF apps
  <2> QED BY <1>4, <2>1, <2>2 DEF UpdaterStep
<1>5. CASE AppStep
  <2>1. CASE BecomeReady
    BY <2>1, ReadyProves DEF IInv
  <2>2. CASE ~BecomeReady
    BY <1>1, <1>5, <2>2 DEF AppStep, Claim, Exit, RequestUpdate
  <2> QED BY <2>1, <2>2
<1>6. CASE Death
  BY <1>1, <1>6 DEF Death, LauncherDies, UpdaterDies, AllDie, apps
<1> QED BY <1>2, <1>3, <1>4, <1>5, <1>6 DEF Next

\* Seen from outside, the files move only as a self-update promises: a newer
\* version goes on trial, takes the installed one's place only once it has
\* started properly, or is given up, whatever dies in between (launcher.py and
\* updater/external.py implement UpdatePromise).
THEOREM UpdatesKeepTheirPromise ==
    ASSUME ~Overlap, ~MayFail, ~EarlyUpdates
    PROVE  Spec => KeepsPromise
<1>1. Init => Promise!Init
  BY PromiseAtFirst
<1>2. IInv /\ [Next]_vars => [Promise!Next]_Promise!promise
  BY PromiseIsKept
<1>3. Spec => []IInv
  BY Invariant
<1> QED BY <1>1, <1>2, <1>3, PTL DEF Spec, KeepsPromise, Promise!Spec

=============================================================================
