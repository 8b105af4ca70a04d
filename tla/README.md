# A verification project for DDS Companion

DDS Companion archives what the DDS plugin captures from Discord: it watches a
directory of `capture.json` files, imports them into SQLite, downloads the
attachments they mention into a local cache, and updates itself in place. This
directory holds TLA+ specifications of that program, TLC configurations that
check them on small instances, and proofs that TLAPS checks for every instance.

Every definition is translated from the source; `PROJECT.json` names, for each
one, the file and the lines it stands for.

## 1. The system

### 1.1 Components

Paths are relative to `src/dds_companion/`.

| component | state it keeps | operations | correct when |
|---|---|---|---|
| Media registry (`services/media_registry_service.py`) | one row of `media_objects` per attachment: state, current URL, request to download again, attempts, retry time, local path, cause | register an attachment of a capture, prepare retry / re-cache of one or of a scope, ignore one or all, clear processed issues, re-queue manual evictions, mark removed files, reconcile missing files | the columns of a row agree; what the user ended stays ended; a file's row says where it is |
| Media backfill (`services/media_backfill_service.py`) | the batch in hand; rows `QUEUED`, `DOWNLOADING` | recover abandoned claims, plan, claim, download in a pool, record outcomes, manual plan and claim | every download gets an outcome; retries end; one failure does not stop the others |
| Media runtime (`services/media_runtime.py`) | the media thread, its command queue, its connection | drain commands, automatic or manual cycle, cache maintenance | the thread outlives failures; the setting "automatic download" is obeyed |
| Media cache maintenance (`services/media_cache_service.py`) | files of the media directory | clear, enforce age and size, list, tell the registry | `EVICTED` is said of files that are gone; no download-evict loop |
| Source evidence (`services/source_evidence_service.py`) | `source_channel_evidence` | import a proof of deletion, apply it, decide whether a new capture recovers a row | `SOURCE_GONE` follows from the proofs, whatever the order of files |
| Import service (`services/import_service.py`) | messages, attachments, `capture_imports`, `failed_jobs` | import a file once per path and hash, record and resolve failures | a transaction per file; failures are retried or shown |
| Capture watcher (`watcher/`) | `known` and `pending` signatures | prime, scan, settle, import, retry | each settled version of a file is imported |
| GUI runtime (`gui/runtime.py`) | the runtime thread, wake and stop events, command queues | start, stop, requests, snapshots | starting and stopping leave one owner per resource |
| Updater transaction (`updater/external.py`, `launcher.py`, `updater/pointer.py`, `updater/journal.py`, `updater/lock.py`) | `current.json`, `previous.json`, `pending_update.json`, version directories, journal, acknowledgement | copy, promote, launch, acknowledge, commit, roll back, clean up | a runnable version is current after a crash at any instant |
| Update controller (`updater/controller.py`, `check_state.py`, `downloader.py`, `staging.py`, `cancel.py`) | operation lock, process lock, cancel event, attempt time, prepared package | check, download, cancel, throttle | one operation at a time; cancel reaches the operation it was meant for |
| Update payload checks (`updater/integrity.py`, `payload.py`, `versioning.py`, ...) | none | verify hashes, compare versions, unpack | version order is a total order |
| Storage and migrations (`storage/`) | schema, `schema_meta` | open, migrate additively, retry on lock | concurrent openers end with the full schema |
| Archive reset (`services/archive_reset_service.py`) | reset marker, database, media directory | write the boundary, delete, recreate | nothing of before the reset returns |
| Branch maintenance (`services/branch_maintenance_service.py`) | messages, media rows, files, export rules | clear a branch's cache, delete its data, delete the branch | shared media survives; no orphans; it has the archive for itself |
| Health and monitoring (`services/health_service.py`, `runtime_monitor.py`, ...) | subsystem states | record, roll up, report transitions | the worst subsystem shows |
| Library and export (`services/library_service.py`, `export_package_service.py`) | export rules; the page's window of messages, its combos | inherit and resolve rules, page through messages, select, package | a child's rule overrides its parent's; the window has no holes; a complete package is complete |
| Settings and paths (`core/`) | `settings.json` | load, validate, migrate, save | values outside their range never get in |
| Capture parser (`parser/`) | none | validate and normalise JSON | |
| Single instance, desktop lifecycle (`gui/single_instance.py`, `gui/desktop_lifecycle.py`) | a local server, an autostart entry | claim, activate, toggle | one instance |
| GUI (`gui/window.py`, pages, widgets) | widgets; short-lived threads | show, send commands, clear or enforce the cache | |
| Runtime overlay (`../dds_companion_patchxx.py`) | failures it has re-armed in this process | re-arm failures of the network before each plan, relax the size check of WebP previews, start the application | a re-armed row is one that failed; nothing else is brought back |
| Command line, build tools | none | | |

### 1.2 How they interact

* **Threads.** One process runs the GUI thread, the *runtime thread* (watcher,
  import, snapshots), the *media thread* (registry commands, backfill, cache
  policy) with its pool of download threads, and GUI threads for cache and
  branch maintenance. Each has its own SQLite connection; they share the
  database, the media directory and a few `threading.Event`s. The updater and
  the launcher are processes of their own that share files with it.
* **Transactions.** Python's `sqlite3` opens a transaction at the first
  INSERT, UPDATE or DELETE. A SELECT before that is outside of it: what another
  thread commits in between is overwritten by an UPDATE that names the row by key
  alone. Most of the media hazards are of this shape.
* **Entry point.** The released program starts `dds_companion_patchxx.main`, which
  wraps a few functions of the package (media planning among them) before it runs it.
* **Commands.** The user's media commands travel through a queue to the media
  thread (`gui/runtime.py` 83-113, `services/media_runtime.py` 75-178). They are
  therefore serialised with planning and recording, though not with imports and
  not with the GUI threads that maintain the cache.
* **Maintenance.** Clearing or deleting a branch, resetting the archive and packing a
  branch are threads of the window. The first two stop the runtime, wait for its
  thread for a limited time, work, and signal the window, which starts a new one.
* **Files.** A capture file is written by another program (the plugin); the cache
  files are written by the download pool and removed by three different services.

### 1.3 What is hard

`PROJECT.json` lists each hazard at its line. In short: writes by key after stale
reads (planner, outcomes, reconciliation); a capture that brings a new URL while
the old one is being tried; crashes between a claim and its outcome, or between a
file and its row; removal that half succeeds; retries whose budget is read early;
classes of rows that can starve others; an intent bit that six functions write;
evidence and captures in any order. Outside the media pipeline: the update
transaction (crash at any instruction, starts that overlap it); the worker of the
update controller, its cancel event and the reports on their way to the window; the
watcher's failure bookkeeping and the window between `prime` and the full import;
threads that migrate the schema while others hold its lock; maintenance that stops
threads which may not end in time; and pages, snapshots and commands that cross on
their way between the Library page and a runtime that comes and goes.

## 2. Plan

| step | modules | status |
|---|---|---|
| 1 | `MediaLifecycle`, `MCMediaLifecycle`, `MediaLifecycle_proofs`: registry, worker, runtime, cache, evidence | modelled, checked and proved, section 3 |
| 2 | `UpdateTransaction` (updater, launcher, application, crashes, starts that overlap an update), `UpdatePromise` (what an update promises), the refinement | modelled, checked and proved, section 4 |
| 3 | `CaptureImport`: prime, full import, settle, retry, import once, failed jobs, the reset boundary | modelled, checked and proved, section 5 |
| 4 | `UpdateController`: two locks, cancel event, throttle, download, staging, the window's buttons | modelled, checked and proved, section 6 |
| 5 | `Maintenance`: branch maintenance, archive reset and export beside runtimes that stop and start | modelled, checked and proved, section 7 |
| 6 | `LibraryView`: the tree, inherited rules, message pages | modelled, checked and proved, section 8 |
| 7 | `ArchiveOpening`: concurrent openers, lock retries, the additive column, crashes | modelled, checked and proved, section 9 |
| 8 | proofs, module by module, in `<module>_proofs` | every safety property of a passing run is proved, in the section of its module |
| 9 | `MediaPromise`, the life of an attachment as the documentation tells it, implemented by `MediaLifecycle` under a mapping of states | open |
| 10 | pure algorithms, each against a reference definition: retry delay, version order, health rollup, settings validation | open |

The modules share no variables. Where one program step belongs to two of them, each
has what its own properties need and the header of the module says which other has
the rest: `Maintenance` has a media row in five states and a capture with one message,
whose details are in `MediaLifecycle` and `CaptureImport`; `UpdateController` ends where
`UpdateTransaction` begins, with a staged tree.

The safety properties of the passing runs, invariants and action properties, are all
theorems now, some under a hypothesis on the constants that the run has too (sections
4.8 and 7.4 say which and why). What is left to prove: step 9. The
liveness properties stay with TLC: TLAPS reasons neither about fairness nor about
ENABLED. No module declares a RECURSIVE operator, and where an algorithm of the code is a loop
or a sort the model states its result in a form that needs no induction over data
(section 8.4).

## 3. The media lifecycle

### 3.1 Modules

* `MediaLifecycle.tla` - the model, its properties, and, beside the definitions
  they vary, a few variants with a plausible mistake in them (`RecoverNothing`,
  `ReconcilePaths`, ...). They are used by no action; with one of them in
  place of the original, TLC refutes the property it is paired with in
  `PROJECT.json`, which shows that the property depends on that piece of code.
* `MCMediaLifecycle.tla` - values for the constants, and `BatchSpec`, a smaller
  environment for two attachments.
* `MediaLifecycle_proofs.tla` - theorems and their proofs.

### 3.2 State and actions

| variable | in the code |
|---|---|
| `row` | `media_objects`, a record per key: `state`, `current_url`, `manual_recache_requested`, `attempt_count`, whether the time for a retry or for giving a claim up has come (`elapsed`), whether `local_relpath` is set (`path`), and why it was evicted or what it awaits (`cause`) |
| `attachments` | the `attachments` table: the URL each message gives each attachment |
| `evidence` | channels with a verified proof of deletion |
| `file` | final files on disk (temporary files are never read by another step) |
| `auto` | the setting `media_autodownload_enabled`, written by the GUI, read by the worker at the start of a cycle |
| `pc`, `mode`, `target`, `seen`, `job`, `out` | the media thread: where it is, which batch it serves, the keys it may claim, the rows its last SELECT returned, claimed URLs, outcomes not yet recorded |
| `sweep` | each run of `clear()` or `enforce()`: files still to do, files it will report |

One action per transaction, or per statement outside of one:

| actions | code |
|---|---|
| `ImportCapture`, `ImportEvidence` | an import: attachments, `register_attachment` of each, `apply_verified`, in one transaction |
| `Start`, `CommandUpdate` and the `...Command`s | the thread's start-up upkeep and its command queue |
| `BeginCycle`, `RecoverAbandoned`, `Reconcile`/`Heal`, `Rearm`, `PassEvidence`, `Select`/`Plan`, `PlanManual`, `SelectClaims`/`TakeClaims`, `Fetch`, `ReadAttempts`/`RecordOutcome` | the cycle; a pair is a SELECT and the transaction that uses it |
| `StartSweep`, `MaintainCache`, `RemoveFile`, `SpareFile`, `KeepLockedFile`, `SyncRegistry` | cache maintenance file by file, then the registry |
| `DatabaseFails`, `StopRuntime`, `Crash` | a lock that outlasts the busy timeout, the orderly stop, the end of the process |
| `Elapse` | time: a retry or the abandonment threshold comes due |

Operators such as `Registered`, `Verdict`, `Planned`, `Recorded`, `Recached`,
`Evicted` map one row to one row and are the translation of the code's SQL.

`Rearm` is the overlay's (`dds_companion_patchxx.py` 142-208): before every plan, failed
rows whose failure came from the network and is half an hour old become `KNOWN` again,
with a fresh budget of attempts. Which rows are due is a choice.

Abstracted: URLs are values, some of them outside the Discord hosts; time is one
bit per row; the size of an expected download is a choice of the planner's
environment, that of a finished one of the downloader's; which files `enforce`
picks by age and size is a choice; HTTP is its outcome (`Answers` allows exactly
those the URL and the attempts can produce). Reports, statistics and wording are
left out.

### 3.3 Runs

| run | instance | shows |
|---|---|---|
| `MediaRows` | 1 key, 2 URLs, GUI sweeper, rows of older versions, locked database, crash | `TypeOK`; the inductive invariant `IInv`, whose conjuncts include `CachedHasPath`, `UnresolvedHasNoUrl`, `IntentIsLive` and `RetryableHasBudget`; `IgnoreIsDurable`, `SourceGoneIsTerminal`; `EvictionIsSticky`: beside a GUI thread that sweeps, an eviction ends by the user's request, or by the one race the property names |
| `MediaLiveness` | 1 key, 2 URLs of which one outside Discord, GUI sweeper, locked database, files of older versions, fair threads and time | `BacklogDrains`: queued media gets an outcome, after a crash too; `LostFilesAreNoticed`: a cached row whose file is gone does not stay so. Both except a worker whose thread has ended |
| `MediaBatch` | 2 keys, 1 row planned at a time, 1 slot, fair | `FailuresAreIsolatedOnceSized`: each attachment gets its turn unless rows that are too large keep taking up the planning, downloads keep ending as `TOO_LARGE`, or failures are re-armed for ever |

What the code does otherwise than the repository says is in section 10.

### 3.4 Bounds

* **Keys.** Statements treat rows independently; rows meet in the planning, which reads
  the oldest `PlanLimit` candidates (200 in the code), in the batch (`ClaimLimit`) and in
  "for every row" commands. One key therefore shows every row-level behaviour; the
  competition needs two keys, with one place in the planning and one slot. Of the order
  by `first_seen_at` the model keeps what it decides: an order of the keys (`Oldest`).
* **Urls.** Two: the one being tried and the one that arrives meanwhile.
  `MediaBatch`, which is about slots, has one.
* **MaxAttempts** is 5 in the code, 2 here: a first failure that is retried and a
  last one that is not.
* **Messages, Channels.** One each: no property of the runs compares two messages
  or two channels.
* **Sweepers.** One GUI thread besides the worker's own sweep; two sweeps can then
  overlap. `MediaBatch`, which is about places, has none.
* No other counter is unbounded. `DbMayFail` and `Legacy` turn on locked
  databases and rows of older versions; they are off where a run does not need them.

Deadlock is checked in every run: there is always something to do.

### 3.5 Fairness

`FairSpec` asks for weak fairness of the worker's next step (`WorkerStep`; the
media thread is a loop whose every wait has a timeout), of each sweep (a running
loop over files) and of time (`Elapse`). Users, imports, crashes and locked
databases are owed nothing. The liveness properties speak of behaviours in which
those eventually pause (`Quiet`), since a capture per second keeps any queue from
draining. `WorkerStep` includes `Start`: after a crash someone starts the program
again, or nothing can be promised. An exception in a command or in the manual cycle ends
the media thread for the life of the process (`pc = "dead"`), and then nothing drains:
the properties of `MediaLiveness`, whose database may be locked, except it, and it is
listed as a hazard. `MediaBatch` has `DbMayFail = FALSE`. `BatchSpec` states the same fairness over a smaller environment:
captures arrive while the worker is off and the process may end anywhere.

### 3.6 Proofs

`MediaLifecycle_proofs.tla` proves, for every value of the constants that
satisfies `ConstantsOK` (any number of keys, URLs, messages, channels and
sweepers, any limits), with locked databases and rows of older versions or without:

| theorem | statement |
|---|---|
| `Invariant` | `Spec => []IInv` |
| `TypeCorrect` | `Spec => []TypeOK` |
| `CachedRowsHaveAPath` | `Spec => []CachedHasPath` |
| `RowsAreConsistent` | `Spec => [](UnresolvedHasNoUrl /\ IntentIsLive /\ RetryableHasBudget)` |
| `IgnoreEndsByTheUser` | `Spec => IgnoreIsDurable` |
| `SourceGoneEndsByNewUrl` | `Spec => SourceGoneIsTerminal` |
| `EvictionsEndByTheUser` | `Spec => EvictionIsSticky` |

The row invariants are not inductive: `TakeClaims`, `Plan`, `Heal` and
`RecordOutcome` write by key after reading earlier, so what they do depends on
what others may have done to the row since. `IInv` adds why it is harmless *to
these properties*: a row in the worker's hands cannot have been given up or ignored
(`HandledRowsAreActive`; commands run on the worker's own thread), nor become
`CACHED` while it is being planned (`PlannedRowsAreUncached`; only the worker
writes `CACHED`), an outcome belongs to a download in flight and the attempt count
read for it bounds the row's (`OutcomesAreInFlight`; imports only reset it), and the
worker does nothing else while it sweeps (`WorkerSweepsAlone`). This is also where
the argument would break with two workers; section 7 shows when there can be two.

The proof has three layers. Lemmas about the row operators say that each takes a
good row to a good row under the conditions its SQL tests. A step of another
thread only *drifts* a row (an import, a sweep), and drift keeps every row in hand
as the invariant wants it. Then each action has its lemma, and `InvariantIsKept`
collects them. The two action properties follow from the same lemmas, which also
say which rows a step may take out of `IGNORED` and `SOURCE_GONE`.

`EInv` is a second invariant on top of `IInv`, for `EvictionIsSticky`. GUI threads evict rows
at any time, and planner, claim and outcome write by key alone, so it has to be shown
that what they write to is never evicted. It is not, because a sweep evicts only rows that
are `CACHED`, and a row on its way from a SELECT through its claim to its outcome is
neither `CACHED` nor evicted (`NoneInTransitHeld`): only an outcome makes a row `CACHED`,
and it takes the row out of the worker's hands. The rows that `Reconcile` has selected to
heal are the exception. They are `CACHED`, so a sweep may evict one before `Heal` writes it;
the property therefore names `Heal`, section 10 has the disagreement, and no invariant
would prove the property without that disjunct.

Assumed: `ConstantsOK`, one worker, transactions that are atomic, no column of a row
that the model leaves out has an effect on those it keeps.

Only model-checked: `BacklogDrains`, `LostFilesAreNoticed` and
`FailuresAreIsolatedOnceSized`, which depend on fairness.

## 4. The update transaction

### 4.1 Modules

* `UpdatePromise.tla` - what an update promises: a version is installed that has
  started properly before (`installed`, `proven`); a newer one may be on `trial`;
  it takes the installed one's place only after it has started properly too.
* `UpdateTransaction.tla` - the updater, the launcher and the application, step by
  step, and the instance of `UpdatePromise` it implements. Its variants are used as
  those of section 3.
* `MCUpdateTransaction.tla` - values for `Versions`.

### 4.2 State and actions

| variable | in the code |
|---|---|
| `dir` | `versions/<version>` and the hidden directory an updater copies into: absent, torn (part of it), whole |
| `current`, `previous`, `pending` | `current.json`, `previous.json`, `pending_update.json`; a missing file is `NoVersion`, `NoPending`. Each write is `os.replace` of a synced temporary file, hence one step |
| `ack` | versions whose `startup-<version>.ok` exists |
| `launcher` | per `DDS.exe` process: its place in `main`, `_launch_pending` or `_rollback_pending` (`pc`), the update it has read (`mine`), the versions its recovery keeps (`keep`), the directories its sweep has listed (`todo`) |
| `updater` | the `DDSUpdater.exe` process: its place in `install_candidate`, target, the version it found current (`base`), whether the process it waits for still lives (`parent`) |
| `app`, `born` | the primary `DDSApp.exe`, and those that have not claimed the instance yet; who waits for them, whether they were told to acknowledge, whether they are ready, whether they have launched an updater |
| `proven` | history: the versions whose window has ever reported that startup is complete. No action reads it |

| actions | code |
|---|---|
| `VerifyStaged` ... `UpdaterEnds`, `InstallFails` | `install_candidate`, a step per file operation that others can see |
| `KeepCurrent`, `KeepPrevious`, `KeepPending`, `ListOrphans`, `TearTree`, `RemoveTree` | `_recover_orphan_versions` and the three sweeps; a tree is removed file by file, and what is in use stays |
| `ReadPending`, `StartCurrent`, `FallBack`, `Restart`, `PendingFails`, `DropPending` | `main` of the launcher, with the handler for a marker it cannot handle |
| `RemoveAck`, `SpawnCandidate`, `LookForAck`, `PollCandidate`, `Timeout`, `CommitCurrent`, `CommitPrevious`, `RemovePending`, `Committed` | `_launch_pending` |
| `UndoCurrent`, `UndoPending`, `ListForUndo`, `Relaunch` | `_rollback_pending` |
| `Claim`, `BecomeReady`, `Exit`, `RequestUpdate` | the application: single instance, acknowledgement, end, start of the updater |
| `LauncherDies`, `UpdaterDies`, `AllDie` | a process is killed; power fails |

Three constants turn on what the program does not guard against: `Overlap` (the
user starts DDS while an update runs or another start is under way), `MayFail` (a
locked file or a full disk stops a write), `EarlyUpdates` (an update is asked for
before startup has finished). With all three off, the code keeps its promise;
each of them alone breaks a part of it.

### 4.3 Runs

| run | instance | shows |
|---|---|---|
| `UpdateRollback` | 3 versions, all three constants off, any process may die at any step | `InstalledWorks`, `PreviousWorks`: the versions that the next start, a rollback or the fallback rely on are whole and have started before; `KeepsPromise`: the three files and the acknowledgement implement `UpdatePromise` |
| `UpdateLiveness` | 2 versions, all three constants on, fair | `LauncherEnds`: a launcher never hangs; `UpdateDecided`: once no process is killed, every update is committed or rolled back |

| `UpdateOverlap` (violation) | 3 versions, `Overlap` | a start between the updater's two writes rolls back an update that is then promoted; the next start removes the last working version (`SomethingWorks`) |

Section 10 has the disagreements behind the other two constants.

### 4.4 The refinement

`installed` is the version DDS falls back to (`current`, or the pending update's
`previous`), `trial` the pending candidate. Writing `pending_update.json` is `Try`,
removing it is `Commit` or `RollBack`, depending on what `current.json` names then;
all else stutters. This is why the code writes the pending file before it
switches `current.json`, and removes it after both pointers are written: at
every instant between, a crash leaves an update that the next start verifies
again. `CommitAndTry` is the one step that does two things: a candidate that has
started properly, but whose launcher died before the commit, asks for the next
update, whose pending file replaces its own.

### 4.5 Bounds

* **Versions.** Three where a second update may follow an undecided one or
  `previous.json` may name a version apart from both (`UpdateRollback`,
  `UpdateOverlap`); two elsewhere.
* **Launchers.** One process at a time. `Overlap` lets it run beside the updater
  and the application, and the one the updater starts takes the same place.
* **MaxStarting.** 1: a user waits for the application he started to appear
  before starting DDS again. It bounds `born`.
* **Incoming.** One name for all hidden directories: a fresh copy under the same
  name is taken out of the lists of sweeps that began earlier, as its real name
  (a UUID) would not be in them.

### 4.6 Fairness

`FairSpec`: a launcher and an updater that run go on (weak fairness of
`LauncherStep`, `UpdaterStep`), the 30 s deadline passes if the launcher keeps
polling (strong fairness of `Timeout`, as each poll takes it away for a moment),
a started application claims the instance or exits, and the user starts DDS
again. Nothing obliges an application to become ready or a user to quit.
`TearTree` is not fair: an attempt at a tree may fail, attempts are bounded and
`RemoveTree` ends them. `UpdateDecided` speaks of behaviours in which killing ends
(`Calm`).

### 4.7 Assumptions

Files survive power failure once written. The code syncs each JSON file, but not
the directory it copies a candidate from; a candidate whose files were lost that
way would be verified by its startup only. A whole directory can be started, a
torn or absent one may not be; whether an application that runs becomes ready is
left open. With `MayFail` the start of a process may fail for any version
(`MayNotStart`), after which the launcher goes on as it does for a broken one, and
a recovery may pass over a pointer it cannot read (`KeepCurrent`, `KeepPrevious`,
`KeepPending`), whose version its sweep then takes for an orphan, unless it could
read none of the three: then it sweeps nothing. A process gives up its claim to be the primary instance when it ends.
The parent's process id is not reused while the updater waits. `RequestUpdate` stands
for check, download, staging and the start of the updater together, as far as the
updater's files are concerned: section 6 takes these apart.

Deadlock is checked in every run; power may always fail, so it shows little here.

### 4.8 Proofs

`UpdateTransaction_proofs.tla`, for any set of versions and any number of launchers:

| theorem | statement |
|---|---|
| `BaseInvariant` | `Spec => []Base` |
| `TypeCorrect` | `Spec => []TypeOK` |
| `Invariant` | `~Overlap, ~MayFail, ~EarlyUpdates`: `Spec => []IInv` |
| `TheInstalledVersionWorks` | the same hypotheses: `Spec => []InstalledWorks` |
| `ThePreviousVersionWorks` | the same: `Spec => []PreviousWorks` |
| `UpdatesKeepTheirPromise` | the same: `Spec => KeepsPromise` |

The first two need no hypothesis: whatever overlaps, fails or dies, `current.json` names
a version. `TypeOK` alone is not inductive, since a pointer is written from what a
process read earlier; `Base` adds that whoever is going to write a pointer holds a
version to write (`Named`).

The others are about updates one after the other, and the three hypotheses are exactly
those whose absence breaks them (`UpdateOverlap`, section 10). `IInv` says, besides
`Base`: at most one of the launchers and the updater moves the pointers (`OneActor`);
the pointers name whole versions, and the one to fall back to has started before
(`Pointers`); a launcher's reading of the files is still true at each place where it acts
on it (`LauncherOK`); what the updater overwrites is newer than all the pointers name
(`UpdaterOK`); and a process in which a user can ask for the next update runs a version
that the pointers are not ahead of (`Follows`). The last part is needed because
`RequestUpdate` compares with the version of the running process, not with the files; a
process that is left over from an earlier update would otherwise have the updater
overwrite a version `previous.json` names.

The refinement is proved step by step: `BecomeReady` is `Prove`; `WritePending` is `Try`, or
`CommitAndTry` when the candidate of an undecided update asks for the next one;
`RemovePending` is `Commit`; `UndoPending` is `RollBack`; every other step leaves
`installed`, `trial` and `proven` as they are. `IInv` supplies the guards of the
abstract steps, above all that what is committed has started.

Only model-checked: `LauncherEnds` and `UpdateDecided` (fairness). `SomethingWorks` is
refuted by its run and not a theorem.

## 5. Captures on their way into the archive

### 5.1 Modules

`CaptureImport.tla`: the Discord plugin, the runtime thread with its watcher, the import
of a file, and what an archive reset leaves to it. `MCCaptureImport.tla` extends it.

### 5.2 State and actions

| variable | in the code |
|---|---|
| `disk`, `clock` | the `capture.json` and `source_evidence.json` files, each with a content and a modification time; the plugin may be in the middle of a write (`Torn`) or write what fails validation (`Invalid`) |
| `marker`, `reset`, `born` | the reset boundary on disk; a reset that has written it and not yet deleted; when the reset of the present database began |
| `db` | what the archive says of each file, `capture_imports`, open `failed_jobs`, the `last_error` row |
| `rt` | the runtime thread: phase, `stop_event`, the boundary it has read, the watcher's `known` and `pending`, files still to do in this pass |
| `job` | the file in hand: which step of its import comes next, attempt, error, what was read |

| actions | code |
|---|---|
| `Write`, `Remove` | the plugin and the user, at any time |
| `Start`, `Prime`, `ImportAll`, `EndOfSync`, `Scan`, `EndOfScan` | `GuiRuntime.run`, `CaptureWatcher.prime`, `scan_once`, `import_all` |
| `BeginImport`, `Read`, `Commit`, `Note` | `import_file`: read and check, the transaction, then the resolution of failed jobs and the activity in transactions of their own |
| `RecordFailure` | `record_failure`, for the full import and for the watcher |
| `RuntimeFails`, `CommitFails`, `NoteFails`, `RecordingFails`, `Crash`, `AskToStop`, `Stop` | an exception of SQLite at each place, the end of the process, the orderly stop |
| `MarkReset`, `DeleteDatabase`, `ResetFails` | `reset_local_archive`, with a crash possible in between |

Abstracted: a file's messages are one content; the signature of a file is its
modification time; evidence files are ordered, as the newer proof replaces the older.
File events only wake the scan earlier, and a scan may come at any time.

### 5.3 Run

`CaptureArchive`: one capture file, one evidence file, two contents.
`NothingIsLostSilently`: what the watcher takes for known and will not look at again is
archived, older than the reset, or told as a failed job (`KnownIsAccounted`), and the
error the user sees is open exactly as long as such a job is (`LastErrorIsOpen`).
`ResetForgets`: nothing of before a reset returns. `AppliedOnce`: no content is applied
twice. `EventuallyAccounted`: if the runtime keeps running, every file is accounted for.

**Bounds.** `MaxTime` 2: two writes in all, which is what a stat before a read, or a read
before a commit, needs to go stale. `Ahead` 2: a file may be stamped later than anything
this machine will write, which is what the boundary's maximum over the files is for.
`SettleScans` 1 and `RetryCount` 2 (3 in the code): a changed file settles before it is
read, a transient error is retried once and then final.

**Fairness.** The runtime thread runs on (`WF RuntimeStep`; its waits have timeouts).
Nobody has to write, start, stop or reset. Deadlock is checked.

**Assumed.** Two writes of a file differ in time (a size adds nothing then); one runtime
at a time (section 7 has the other case); SQLite's transactions are atomic.

### 5.4 Proofs

`CaptureImport_proofs.tla`, for any files, contents, clocks, numbers of settle scans and
retries that satisfy `CaptureConstantsOK`:

| theorem | statement |
|---|---|
| `Invariant` | `Spec => []IInv` |
| `TypeCorrect` | `Spec => []TypeOK` |
| `NothingIsLost` | `Spec => []NothingIsLostSilently` |
| `ResetIsForGood` | `Spec => []ResetForgets` |
| `ContentsAreAppliedOnce` | `Spec => AppliedOnce` |

`NothingIsLostSilently` is about files the watcher has done with; what makes it inductive is
what is true of the others. `Past`: no signature is later than the clock, so that a
signature once seen names one version of a file for ever. `JobOK`: at each place of an
import, what was read is the version the scan saw, or one that the next scan will not
take for it; in particular, when `known` is about to be set, that version is accounted for.
`WatchOK`: until the full import has been through a file, the watcher has nothing due, and
a file it passed is accounted for or has changed since. `ResetOK`: after a reset's
boundary, no capture that was there at that time is newer than it (`Bounded`), a
statement about modification times in the future of this machine too. The plugin may
write between any two steps of this; that is the case each step of the proof has to
treat.

Only model-checked: `EventuallyAccounted` (fairness).

## 6. Looking for an update and staging it

### 6.1 Modules

`UpdateController.tla`: the controller's worker thread, the window that shows it, the
files of a download, and the two locks. `UpdateTransaction` takes over with a staged
version.

### 6.2 State and actions

| variable | in the code |
|---|---|
| `w` | the worker's place in `check` and `download` (`controller.py`), with what it works on; not idle means `_operation_lock` is held |
| `cancel`, `available`, `prepared` | `_cancel_event`, the version found, the one ready to install |
| `queue`, `shown` | the worker's reports as queued signals; the status the update page shows, by which it enables its buttons |
| `holder`, `updater` | `update.lock`, freed with its process; the external updater |
| `disk` | per version the `.part` file, the package, the staged tree: absent, bad, whole |
| `journal`, `check`, `asked` | `update_journal.json`; the age of the attempt in `update_check.json`; background requests since (history) |

| actions | code |
|---|---|
| `ClickCheck`, `BackgroundCheck`, `ClickDownload`, `NothingToDownload`, `ClickCancel`, `Deliver` | the update page and the window |
| `Claim`, `Check`, `Request`, `Response` | the locks, the throttle, the release query |
| `Journal` | `_write_journal`, part of the steps below: with `MayFail` the entry may not get into the file, and nobody hears of it. `w.noted` says whether the last one did |
| `Download`, `Room`, `Fetch`, `Receive`, `Again`, `Verify`, `Verifying` | the first entry, the room on the disk, and `downloader.py` with its attempts, each check a step that may fail |
| `Stage`, `Extract`, `Staged` | `staging.py` |
| `ReleaseProcessLock`, `ReleaseOperationLock` | the `finally` blocks |
| `LaunchUpdater`, `UpdaterStarts`, `UpdaterEnds` | Install, and the external process as far as the lock and the staged tree go |
| `Boot`, `Exit`, `Elapse` | the process, which may end anywhere; 24 hours |

### 6.3 Run

`UpdateController`: `PayloadIsWhole`: a package under its own name is whole, and what
the window offers to install is staged and whole, whatever the server sent and wherever
the process ended. `UpdaterIsUndisturbed`: nothing touches a staged tree while the
updater copies it, although DDS may be running again. `JournalSaysHowItEnded`: each way
out of a download leaves its word in the journal, if the last entry got into the file; a
lost one leaves what was there before, `DOWNLOADING` for instance. `ButtonsComeBack`: the
page does not stay in a busy state, even when a cancellation meets an operation that has
just ended. `TypeOK` contains `OneRequestADay`, the throttle, as far as `update_check.json`
can be read: an unreadable record counts as due, and `MayFail` lets it be so at any time.

**Bounds.** One newer version: the worker has one operation in hand, so a second
version would only meet the files of its own. `MaxAttempts` 2; `MaxQueued` 2 reports may
wait when an operation begins.

**Fairness.** The worker (every request has a timeout), the event loop, and the end of a
process whose window is closed. Deadlock is checked.

**Assumed.** A hash or a version check passes only for what is whole; the operating
system frees a lock with its process.

### 6.4 Proofs

`UpdateController_proofs.tla`, for any versions, any number of attempts and of reports that
wait:

| theorem | statement |
|---|---|
| `Invariant` | `Spec => []IInv` |
| `TypeCorrect` | `Spec => []TypeOK`, with the throttle `OneRequestADay` |
| `WhatIsOfferedIsWhole` | `Spec => []PayloadIsWhole` |
| `UpdaterWorksAlone` | `Spec => UpdaterIsUndisturbed` |
| `JournalTellsTheEnd` | `Spec => JournalSaysHowItEnded` |

What the window offers is old news: the worker's files may have changed since the report
was queued. `OfferOK` is therefore about `Told`, the last report that the worker sent,
arrived or not: if it offers an installation, the worker is at a place from which it
tells something else before it touches the staged tree. `WorkerOK` says what the worker
holds at each place (a version, a staged tree, and, once its last entry got into the file,
a word in the journal that says how it ended), `LockOK` that
whoever works on the files owns `update.lock`, `ThrottleOK` that the attempt is recorded
before the request goes out, so that a crash between the two costs an attempt and not a
second request.

Only model-checked: `ButtonsComeBack` (fairness).

## 7. Maintenance beside the runtime

### 7.1 Modules

`Maintenance.tla`: a runtime and its media worker in one of `MaxRuntimes` slots, the
window, and the three maintenance threads. `MCMaintenance.tla`: two messages, one of the
branch and one outside it, that share a medium.

### 7.2 State and actions

| variable | in the code |
|---|---|
| `capture`, `archive`, `files` | the plugin's files (newer or older than the boundary); messages, imports and media rows; cached media |
| `runtime`, `current` | per slot the thread, its `stop_event` and its media worker; the slot of `window.runtime`. An old thread keeps its slot until it has ended |
| `busy`, `inbox` | the window's `_..._in_progress` flags, `maintenance_done` signals |
| `job`, `reset`, `export` | the threads of `BranchMaintenanceService`, `reset_local_archive`, `ExportPackageService` |
| `gone`, `abandoned` | history: messages the user deleted; media a worker had not looked at when the process ended |

| actions | code |
|---|---|
| `Open`, `Import`, `Watch`, `HearStop`, `RuntimeFails`, `RuntimeEnds` | `GuiRuntime.run` |
| `Claim`, `Downloaded`, `DownloadFails`, `Heal`, `WorkerEnds` | the media worker |
| `AskBranch`, `AskReset`, `AskExport`, `StartRuntime`, `Deliver`, `Sweep`, `Restart` | the window; `Restart` is the end of the process and a new one |
| `BeginClear`, `ClearFile`, `ClearRows`, `DeleteMessages`, `SpareMedia`, `UnlinkMedia`, `RemoveRow`, `JobDone`, `JobFails` | `branch_maintenance_service.py` |
| `MarkBoundary`, `DeleteDatabase`, `ResetFile`, `ResetDone`, `ResetFails` | `archive_reset_service.py` |
| `ReadMessages`, `ReadAttachments`, `CopyMedia`, `Publish`, `ExportFails` | `export_package_service.py` |

### 7.3 Run

`Maintenance`: `DeletedStaysDeleted`: what the user deleted comes back only with a new
capture. `MediaFollowsMessages`: no message without its media rows, no row without a
message unless a worker is about to remove it, has failed, or died. `ResetLeavesNothing`:
a reset that reports success leaves no message, row or file. `CompleteMeansWhole`: a package that lists nothing as missing is whole.
`ArchiveComesBack`: after each maintenance a runtime works again.

Three constants turn on what the window does not guard against or what it relies on.
`Prompt` says that threads end within the time others wait for them (the runtime's
`join(timeout=5)`, the ten seconds of the maintenance threads); `Overlap`, that the
user resets the archive while a branch is worked on; `MayFail`, that files are locked
and the database raises errors.
The run has `Prompt = TRUE`, `Overlap = FALSE`, `MayFail = TRUE`; section 10 says what
breaks otherwise.

**Bounds.** Two messages and one medium: shared, or used once when one message is gone.
`MaxRuntimes` 2: an old thread beside a new one. `MaxRequests` 2: one maintenance after
another, or an export beside one.

**Fairness.** Each thread of the runtime, each maintenance thread, the delivery of
signals. The user and the plugin are owed nothing. Deadlock is checked.

**Assumed.** Windows: an open database cannot be deleted. A message is one capture.

### 7.4 Proofs

`Maintenance_proofs.tla`, for any messages, media, branch and number of runtimes:

| theorem | statement |
|---|---|
| `BaseInvariant` | `Spec => []Base` |
| `TypeCorrect` | `Spec => []TypeOK` |
| `CompleteIsWhole` | `Spec => []CompleteMeansWhole` |
| `Invariant` | `Spec => []IInv` |
| `DeletedMessagesStay` | `Spec => []DeletedStaysDeleted` |
| `MaintenanceTakesTurns` | `~Overlap`: `Spec => []AloneInv` |
| `MediaFollow` | `~Overlap`: `Spec => []MediaFollowsMessages` |
| `ResetsAreComplete` | `~Overlap`: `Spec => []ResetLeavesNothing` |
| `ResetsForgetTheOld` | `Spec => []ResetLeavesNothingOld` |

Three layers, each with the hypotheses it needs and no more. `Base` and `IInv` need none:
a package is judged by what the export itself has read, and a deleted message stays
deleted because one runtime at most can import (`OneRuntime`) and because a deletion that
still waits for that runtime meets no boundary that lets its captures in (`Waiting`). This
is more than the run shows, which has `Prompt = TRUE` and `Overlap = FALSE`.

`AloneInv` adds what maintenance one at a time gives: the flags let one worker in
(`Turns`), who works has waited for the window's runtime (`Stopped`), what the branch worker
has in hand is still as it read it (`JobOK`), and a reset past the deletion of the database
finds it empty (`ResetOK`; a media worker that is still there has the database open, so
that the deletion fails). It does not need `Prompt`: these properties hold beside threads
that outlive the time others wait for them.

`ResetsForgetTheOld` is what remains of a reset without `~Overlap`. The report of a branch
worker may then start a runtime in the middle of a reset, which imports new captures, so
something may be left; `ResetLeavesNothingOld` says that all of it was captured after the
boundary. `NewInv` says why: the database can be deleted only when nobody has it open, so
that moment leaves no thread with anything old in hand, and from then on what any of them
does is about media of newer captures. The worker of a branch only removes.

Only model-checked: `ArchiveComesBack` (fairness).

## 8. The Library page

### 8.1 Modules

`LibraryView.tla`: the page in the window's thread, the runtime that answers it, and
what happens to the archive in between. `MCLibraryView.tla`: a server, a channel and its
thread; of three messages, two of the channel have the same time.

### 8.2 State and actions

| variable | in the code |
|---|---|
| `archive` | messages, nodes of the tree, explicit `archive_export_rules` |
| `runtime` | whether its thread lives, its `library_control_queue`, whether it has a change to report |
| `signals` | its answers on their way to the window |
| `tree` | the snapshot the page has, and the rule box of each branch |
| `view` | the branch selected, generation, messages shown, `hasMore`, the button; `base`, history: what was archived when the branch was opened |
| `unsaved` | history: branches whose last choice was lost |

| actions | code |
|---|---|
| `Click`, `OpenMenu`, `ShowMore`, `ChooseRule`, `ReceivePage`, `ReceiveSnapshot` | `LibraryPage` in `gui/pages.py` |
| `AnswerPage`, `StoreRule`, `ReportChange`, `Start`, `Stop` | `gui/runtime.py` with `LibraryService` |
| `Import`, `Delete` | an import; branch maintenance, for which the runtime is stopped |

`Page` is `message_page` (newest first, cursor of time and id, a channel without its
threads), `Effective` the inheritance of rules in `snapshot`.

### 8.3 Runs

`LibraryView`: `WindowHasNoHoles`: the messages shown are those of the branch, in order,
each once, none missing between the oldest shown and what was archived when the branch
was opened. `CombosTellRules`: once everything sent has arrived, each box tells the rule
in force. `PageArrives`: a page asked for arrives unless its runtime ended.
`LibraryMenu` (violation): a right click on another branch, then Show more, mixes two
branches (`PageIsOneBranch`).

**Bounds.** `PageSize` 1 (50 in the code) and two messages of the same time in a channel,
so that each page border falls between messages that a cursor by time alone confuses.
`MaxGeneration` 2: a branch, and one it was left for. `MaxEdits` 2, `MaxCommands` 2,
`MaxSignals` 1.

**Fairness.** The runtime ticks while it lives, the event loop runs. Deadlock is checked.

### 8.4 Proofs

`LibraryView_proofs.tla`, for any tree of three levels, any messages, page size and bounds,
with and without errors of the database:

| theorem | statement |
|---|---|
| `Invariant` | `Spec => []IInv` |
| `TypeCorrect` | `Spec => []TypeOK` |
| `NoHoles` | `Spec => []WindowHasNoHoles` |
| `RulesAreTold` | `Spec => []CombosTellRules` |

**The window.** What it shows says nothing of the answers on their way, so `IInv` has them
too. A generation has one request at most, in the queue or among the answers, and while
there is one the page's lock is held (`OneRequest`). A request is the first of its branch
or starts where the window ends (`GoesOn`), and the answer to it covers everything the
window is measured by (`Covers`): messages of the branch that were archived when it was
opened are still archived when the older page is read, or have been deleted from both. An
answer holds all that was archived before its cursor from its oldest message on, and
everything if it says that there is no more (`PagesOK`). An older page then joins the window
without a hole. With two requests under way, or one that starts elsewhere, it would not;
this is what the generation number and the lock are for, and why the context menu, which
changes the branch without them, is excepted (`LibraryMenu`).

**The rules.** `NewestIsTrue`: the last snapshot on its way, or the tree if there is none, has
the nodes of the archive, and its rules unless a change is still to be reported. `CombosOK`:
a box that differs from the known tree shows the rule that was sent last, or the one
stored, or the tree is about to be drawn again. When everything has arrived, only the
stored rule is left.

**Data.** `Sorted`, the order of a page, is given by ranks: the message in place `i` has
`i - 1` before it. That each rank is taken once in a finite total order (`Ranks`) follows
from the library's theorems on cardinalities; a sort by recursion would need induction over
data, which is out of reach. `Effective` is written over the three levels the code has, server,
channel, thread, and needs no recursion.

Only model-checked: `PageArrives` (fairness). `PageIsOneBranch` is refuted by its run.

## 9. Opening the archive

### 9.1 Modules

`ArchiveOpening.tla`: `connect_database` and `apply_migrations`, statement by statement,
for any number of threads. `MCArchiveOpening.tla` extends it.

### 9.2 State and actions

| variable | in the code |
|---|---|
| `db` | what is committed: journal mode, schema objects, `schema_version`, and one user's request in the column that V6 adds |
| `lock` | the write lock of SQLite |
| `conn` | per thread: the statement it is at, the position in the scripts, why it failed, whether the ten seconds of the call are over (`late`) |
| `spent` | opens, writes and crashes so far, for the bounds |

| actions | code |
|---|---|
| `Call`, `AlreadyWal`, `Negotiate`, `SwitchToWal` | `PRAGMA journal_mode=WAL` |
| `Create`, `ReadColumns`, `Alter`, `CreateIndex`, `Stamp`, `CommitStamp` | the scripts, `_apply_v6` with its race for the column, the stamp |
| `DeadlinePasses`, `Locked`, `Fail` | time passing for a call that finds the lock taken; "database is locked", on which `connect_database` starts the set-up again or, behind its deadline, gives up; an error of the disk |
| `Begin`, `Commit`, `Close`, `Crash` | the transactions of open connections, the end of the process |

An object of the model stands for the tables and indexes only it creates. The archive
found may be of this release, of any earlier schema version, or none.

### 9.3 Run

`ArchiveOpening`: `SchemaIsWhole`: who gets a connection finds everything of this
release, and the version stamped is never ahead of the schema, which is what a later
release relies on. `RaceIsNotFatal`: losing the race for the column is no error.
`RequestsSurvive`: no migration, retry or crash takes back a request that was
committed. `OpeningEnds`: each call gets a connection or an error.

**Bounds.** Three threads, three calls in all, one transaction, one crash; `MayFail` is on.

**Fairness.** Time passes also for a thread that finds the lock taken again and again
(`SF DeadlinePasses`), and a thread takes its next statement or, behind the deadline, gives
up (`WF`). Nothing is assumed of transactions: one that never ends makes the others give
up, and that is what `OpeningEnds` rests on, not the bounds. Deadlock is not checked here:
calls are bounded, and after the last one there may be nothing to do.

**Assumed.** SQLite commits each statement of a script on its own (`executescript` in
autocommit); a switch to WAL needs the lock.

### 9.4 Proofs

`ArchiveOpening_proofs.tla`, for any number of threads, calls, transactions and crashes,
locks held for any time, with errors of the disk or without:

| theorem | statement |
|---|---|
| `Invariant` | `Spec => []IInv` |
| `TypeCorrect` | `Spec => []TypeOK` |
| `SchemaIsAlwaysWhole` | `Spec => []SchemaIsWhole` |
| `RaceIsNeverFatal` | `Spec => []RaceIsNotFatal` |
| `LockFollowsTransactions` | `Spec => []LockIsHeld` |
| `RequestsAlwaysSurvive` | `Spec => RequestsSurvive` |

That the schema is whole at the end of a set-up is not inductive: a thread in the middle
relies on what it has created before. `Reached` says how much of the schema a thread's
place in the scripts implies; as no step of any thread removes an object, others cannot
make it false. `LockIsHeld` says that the lock is held by exactly the thread in a
transaction, so that no failed or killed set-up leaves it behind. `StampIsBacked` then holds at the
one place that commits the stamp.

Only model-checked: `OpeningEnds` (fairness).

## 10. Disagreements

Two runs expect a violation, `UpdateOverlap` and `LibraryMenu`; `PROJECT.json` quotes
what the repository says. The others were found in the same way and can be reproduced
by a cfg that differs from one of the directory as told.

| property | cfg | what the code does | what is said |
|---|---|---|---|
| `OnlyTriedUrlsAreDropped` | `MediaRows` with `Sweepers = {}`, `Legacy = {}`, `DbMayFail = FALSE` | the 404 of the old URL wipes the new one a capture brought meanwhile (`media_backfill_service.py` 824) | "A new signed CDN URL is the recovery mechanism" (`media_registry_service.py` 208) |
| `EvictionIsSticky` without its last disjunct | `MediaRows` with `Legacy = {}`, `DbMayFail = FALSE` | reconciliation turns a row just evicted by a GUI thread into `KNOWN`, to be downloaded again | "without creating an automatic download -> eviction -> redownload loop" |
| `IntentWaitsForUrl` | `MediaRows` with `Sweepers = {}`, `Legacy = {}`, `DbMayFail = FALSE` | the automatic planner drops the request of a row without URL (`media_backfill_service.py` 244) | "preserves explicit user intent across an expired Discord URL" (`ARCHITECTURE.md` 62) |
| `FailuresAreIsolatedOnceSized` with `SizesAreKnown` without its first disjunct | `MediaBatch` | attachments known to exceed the limit are selected and passed over in every cycle (`media_backfill_service.py` 190-199, 232-242); 200 of them, the oldest, fill the window, and no newer one is ever planned. The same happens to the slots without the second disjunct, when the size is found out by the download only | "bounded, failure-isolated attachment backfill" (149) |
| `InstalledWorks` | `UpdateRollback` with `TwoVersions`, `MayFail = TRUE` | a file error during verification, commit or rollback is taken for a broken marker (`launcher.py` 312); the unverified candidate stays installed | "Startup acknowledgement/rollback protects the previous working version" (`ARCHITECTURE.md` 74) |
| `JournalFollowsTable` | `UpdateController` | writers of the journal do not go through the table | `_ALLOWED_TRANSITIONS` (`updater/journal.py` 17-30) |
| `WatcherSurvives` | `CaptureArchive` | an exception while a failure is being recorded, or after the commit, ends the runtime | "must not terminate the watcher loop" (`capture_watcher.py` 220) |
| `ArchiveComesBack` | `Maintenance` with `Prompt = FALSE` | a maintenance that gave up waiting ends with `_start_runtime`, which returns because the old thread still lives (`gui/window.py` 560); when that one ends, nobody starts another | "DDS будет перезапущен" (`gui/window.py` 1194) |
| `ResetLeavesNothing` | `Maintenance` with `Overlap = TRUE` | the window starts a reset while a branch is worked on (`gui/window.py` 1049); the report of the branch worker starts a runtime in the middle of the reset, which then reports success beside what that runtime has imported | "Caller must first stop the archive runtime so no SQLite/watcher/media worker still owns the files" (`archive_reset_service.py` 110) |

Observations on the way that contradict no sentence of the repository:

* **Media.** `plan()` decides on rows selected before its transaction (`media_backfill_service.py`
  923), so a row can be `SKIPPED` for want of a URL that a capture has just brought.
  `register_attachment` keeps `SOURCE_GONE` when a message of a live channel repeats
  the retained URL (`media_registry_service.py` 193), although then one reference has no
  proof. An exception in a command or in the manual cycle ends the media thread.
  `clear()` lists a path before it unlinks the file (`media_cache_service.py` 52), so that
  a locked file is reported as removed and its row becomes `EVICTED` beside the file.
* **Updates.** With `EarlyUpdates` alone, `PreviousWorks` fails in three versions: a
  candidate whose launcher died and which has not finished its startup may start the
  next update, and is then committed to `previous.json`, which `launcher.py` 266 wants
  to hold "never a candidate that has not passed startup health". `RemoveTree(l,
  Incoming)` can happen while an updater copies, although `launcher.py` 67 speaks of "a
  dead updater"; the update then fails or is rolled back. The updater writes
  `VERIFYING_STARTUP` to the journal after it has started the launcher, so it can follow
  `COMPLETE`. `prepared` may name a version whose staged tree a cancelled download has
  removed; the window no longer offers it then. An updater that is turned away by
  `update.lock` ends without a word. `_write_journal` swallows every error
  (`updater/controller.py` 284-294), so a download that fails or is cancelled while the
  file is locked leaves `DOWNLOADING` or `VERIFYING` there; one that fails before its first
  entry leaves what an earlier operation wrote. An `update_check.json` that cannot be read
  is taken for none, and the request goes out again.
* **Captures.** A failed job of a file that was removed stays open, as does one written
  after a successful import. Content that returns to an earlier version (A, B, A) is
  taken for already imported, and B stays. `source_evidence.json` does not count towards
  the reset boundary. A boundary that cannot be read is taken for none.
* **Maintenance.** `gui/runtime.py` 315 says that a media failure "must never outlive the
  archive runtime", yet it waits for five seconds only. A reset that fails leaves its
  boundary. `_remove_orphan_media` deletes the row of a file it could not unlink. A
  crash between the deletion of messages and that of orphans leaves rows without
  references. An export reads messages and attachments one after the other without a
  transaction. Commands queued for an old runtime are lost.
* **Library.** A box whose command was lost keeps the unsaved choice. A rule chosen for a
  branch that has been deleted is stored all the same. A page asked for while the
  runtime is stopped never comes, and its button stays disabled until another branch
  is clicked.
* **Opening.** The busy timeout of ten seconds equals the deadline of the retries, so a
  lock that is held that long is not retried; only conflicts SQLite reports at once are.

## 11. Not modelled

* **Health and monitoring.** Subsystem states are written by one thread each and rolled up
  for display; no other step depends on them. The rollup and the transitions reported
  are pure functions, left for step 10 of the plan.
* **Settings and paths.** Checks of single values and of path strings. Settings are
  written by the GUI thread alone, with `os.replace`; those the workers read (`auto`)
  are variables of the models that depend on them.
* **Desktop lifecycle.** A registry value and a tray icon. Activating the running instance
  is a message that shows its window.
* **GUI.** The pages other than the Library and the updates show what they are given.
  Widgets, layout and text are left out.
* **Command line and build tools.** They call the services one after the other. Importing
  from the command line beside a running GUI is an import in `MediaLifecycle`, not one in
  `CaptureImport`, which has one importer.
* **Data handling.** Hashing and unpacking of payloads, the comparison of version strings,
  the shapes the parser accepts, the WebP size rule of the overlay (its outcomes are those
  `Fetch` allows), the text inside an export, logging, activity and statistics.
