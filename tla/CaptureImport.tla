---------------------------- MODULE CaptureImport ----------------------------
(***************************************************************************)
(* How captures reach the archive.  The Discord plugin writes capture.json *)
(* and source_evidence.json files; one thread of the Companion, GuiRuntime,*)
(* primes a watcher, imports everything it finds, and then polls: a file   *)
(* whose signature is not the known one is left to settle and imported.    *)
(* A file is read, and its content committed to SQLite together with the   *)
(* record that it was imported; what cannot be imported becomes a failed   *)
(* job.  Resetting the archive leaves the files alone: it writes down a    *)
(* boundary, deletes the database, and files not newer than the boundary   *)
(* are ignored from then on.                                               *)
(*                                                                         *)
(* The plugin writes at any time.  The process may end between two steps.  *)
(* A signature is the file's modification time: the size adds nothing      *)
(* while every write has a time of its own.                                *)
(*                                                                         *)
(* Definitions marked "Variant" are used by no action: each is a plausible *)
(* mistake in the definition it stands before.                             *)
(***************************************************************************)
EXTENDS Naturals, FiniteSets

CONSTANTS
    Captures, Evidence,  \* capture.json paths, source_evidence.json paths
    Contents,       \* what a well-formed file can say; evidence is ordered
    Torn,           \* half-written: not JSON
    Invalid,        \* JSON that fails validation
    MaxTime,        \* bound on the plugin's writes
    Ahead,          \* what a clock that is wrong may be ahead
    SettleScans,    \* scans until a changed file counts as settled
    RetryCount,     \* reads of a file before a transient error is final
    MayFail,        \* whether SQLite or an unlink may raise
    NoFile, NoJob, NoReset

Files == Captures \cup Evidence

ASSUME CaptureConstantsOK ==
    /\ Captures \cap Evidence = {}
    /\ Contents \subseteq Nat
    /\ {Torn, Invalid, NoFile} \cap Contents = {} /\ Torn # Invalid
    /\ {MaxTime, Ahead} \subseteq Nat /\ (Ahead = 0 \/ Ahead >= MaxTime)
    /\ {SettleScans, RetryCount} \subseteq Nat \ {0}
    /\ MayFail \in BOOLEAN
    /\ NoJob \notin Files /\ NoReset \notin Nat

VARIABLES
    disk,       \* what the plugin has written
    clock,      \* the time
    marker,     \* the reset boundary on disk; 0 if there is none
    reset,      \* when a reset wrote the boundary, until it does the rest
    db,         \* the archive
    rt,         \* the runtime thread and its watcher
    job,        \* the file it is importing
    born        \* when the reset that created the database began

vars == <<disk, clock, marker, reset, db, rt, job, born>>

-----------------------------------------------------------------------------
Version == [content : Contents \cup {Torn, Invalid}, mtime : 1..Ahead + MaxTime]

Errors == {"transient", "invalid", "database"}
Failure == [kind : {"capture_import", "watcher_import"}, target : Files,
            error : Errors]

\* What the archive says of a file, the contents imported from it, the failed
\* jobs without resolved_at, and the last_error row of application_state.
EmptyDb == [archive |-> [f \in Files |-> NoFile], imports |-> {},
            failures |-> {}, lastError |-> FALSE]

NotDue == [sig |-> 0, left |-> 0]

Idle == [phase |-> "off", stop |-> FALSE, boundary |-> 0,
         known |-> [f \in Files |-> 0],
         pending |-> [f \in Files |-> NotDue], todo |-> {}]

NoImport == [file |-> NoJob, at |-> "none", attempt |-> 1, error |-> "none",
             read |-> NoFile]

Signature(f) == IF disk[f] = NoFile THEN 0 ELSE disk[f].mtime
Signatures == [f \in Files |-> Signature(f)]

Init ==
    /\ disk = [f \in Files |-> NoFile]
    /\ clock = 0 /\ marker = 0 /\ reset = NoReset /\ born = 0
    /\ db = EmptyDb /\ rt = Idle /\ job = NoImport

-----------------------------------------------------------------------------
(* The plugin, and the clock it stamps files with *)

\* A file may also come with a time ahead of this machine's clock; no two
\* writes share a time.
Write(f) ==
    /\ clock < MaxTime
    /\ clock' = clock + 1
    /\ \E v \in Version :
         /\ v.mtime \in {clock', clock' + Ahead}
         /\ v.content = Torn => f \in Captures
         /\ disk' = [disk EXCEPT ![f] = v]
    /\ UNCHANGED <<marker, reset, db, rt, job, born>>

Remove(f) ==
    /\ disk[f] # NoFile
    /\ disk' = [disk EXCEPT ![f] = NoFile]
    /\ UNCHANGED <<clock, marker, reset, db, rt, job, born>>

-----------------------------------------------------------------------------
(* The runtime *)

Running == rt.phase \notin {"off", "error"}

\* The database is opened and the boundary read.
Start ==
    /\ ~Running /\ reset = NoReset
    /\ rt' = [Idle EXCEPT !.phase = "starting", !.boundary = marker]
    /\ UNCHANGED <<disk, clock, marker, reset, db, job, born>>

\* The watcher takes the files as it finds them for known.
Prime ==
    /\ rt.phase = "starting"
    /\ rt' = [rt EXCEPT !.phase = "primed", !.known = Signatures]
    /\ UNCHANGED <<disk, clock, marker, reset, db, job, born>>

\* Then every file is imported, in an order that makes no difference.
ImportAll ==
    /\ rt.phase = "primed"
    /\ rt' = [rt EXCEPT !.phase = "initial",
                        !.todo = {f \in Files : disk[f] # NoFile}]
    /\ UNCHANGED <<disk, clock, marker, reset, db, job, born>>

\* Variant: the watcher is primed once everything is imported.
EndOfSyncVariant ==
    /\ rt.phase = "initial" /\ rt.todo = {} /\ job = NoImport
    /\ rt' = [rt EXCEPT !.phase = "synced", !.known = Signatures]
    /\ UNCHANGED <<disk, clock, marker, reset, db, job, born>>

EndOfSync ==
    /\ rt.phase = "initial" /\ rt.todo = {} /\ job = NoImport
    /\ rt' = [rt EXCEPT !.phase = "synced"]
    /\ UNCHANGED <<disk, clock, marker, reset, db, job, born>>

\* What one scan makes of its pending files.  A removed file is forgotten; a
\* new signature starts to settle; one that has settled and changed since
\* starts again.
Settling(f, now) ==
    LET p == rt.pending[f]
        gone == now[f] = 0
        fresh == now[f] # rt.known[f] /\ now[f] # p.sig
        again == p.sig # 0 /\ p.left <= 1 /\ now[f] # p.sig
    IN  CASE gone -> IF rt.known[f] # 0 \/ p.left <= 1 THEN NotDue
                     ELSE [p EXCEPT !.left = @ - 1]
          [] ~gone /\ (fresh \/ again) -> [sig |-> now[f], left |-> SettleScans]
          [] OTHER -> IF p.sig = 0 \/ p.left = 0 THEN p
                      ELSE [p EXCEPT !.left = @ - 1]

\* stop_event is polled before every scan but the first.
Scan ==
    /\ rt.phase = "synced" \/ (rt.phase = "armed" /\ ~rt.stop)
    /\ LET now == Signatures
           next == [f \in Files |-> Settling(f, now)]
           due == {f \in Files : next[f].sig # 0 /\ next[f].left = 0}
       IN  rt' = [rt EXCEPT
                    !.known = [f \in Files |-> IF now[f] = 0 THEN 0 ELSE rt.known[f]],
                    !.pending = next, !.todo = due,
                    !.phase = IF due = {} THEN "armed" ELSE "scan"]
    /\ UNCHANGED <<disk, clock, marker, reset, db, job, born>>

EndOfScan ==
    /\ rt.phase = "scan" /\ rt.todo = {} /\ job = NoImport
    /\ rt' = [rt EXCEPT !.phase = "armed"]
    /\ UNCHANGED <<disk, clock, marker, reset, db, job, born>>

\* Health, activity and heartbeat are written outside every handler.
RuntimeFails ==
    /\ MayFail /\ rt.phase \in {"starting", "primed", "synced", "armed"}
    /\ rt' = [Idle EXCEPT !.phase = "error"]
    /\ UNCHANGED <<disk, clock, marker, reset, db, job, born>>

AskToStop ==
    /\ Running /\ ~rt.stop
    /\ rt' = [rt EXCEPT !.stop = TRUE]
    /\ UNCHANGED <<disk, clock, marker, reset, db, job, born>>

Stop ==
    /\ rt.phase = "armed" /\ rt.stop
    /\ rt' = Idle
    /\ UNCHANGED <<disk, clock, marker, reset, db, job, born>>

\* The process ends, in the middle of an import or of a reset.
Crash ==
    /\ rt.phase # "off" \/ reset # NoReset
    /\ rt' = Idle /\ job' = NoImport /\ reset' = NoReset
    /\ UNCHANGED <<disk, clock, marker, db, born>>

-----------------------------------------------------------------------------
(* Importing one file *)

Watching == rt.phase = "scan"
At(step) == job.at = step
Go(step, error) ==
    job' = [NoImport EXCEPT !.file = job.file, !.at = step, !.error = error]

BeginImport(f) ==
    /\ rt.phase \in {"initial", "scan"} /\ job = NoImport /\ f \in rt.todo
    /\ job' = [NoImport EXCEPT !.file = f, !.at = "read"]
    /\ UNCHANGED <<disk, clock, marker, reset, db, rt, born>>

\* Variant: no deduplication.
AlreadyImportedVariant(f, c) == FALSE

AlreadyImported(f, c) == <<f, c>> \in db.imports

NextAttempt == job.attempt + 1

\* Only the watcher retries, and only what a moment's patience may mend.
Retried == Watching /\ job.attempt < RetryCount

\* _before_reset_boundary
Ignored(v) == v.mtime <= rt.boundary

\* JSON without the ids, lists and schema version a capture has.
Malformed(v) == v.content = Invalid

\* The boundary, the bytes and their validation, the look into the history.
Outcome(f) ==
    IF disk[f] = NoFile THEN "transient"
    ELSE IF Ignored(disk[f]) THEN "skip"
    ELSE IF disk[f].content = Torn THEN "transient"
    ELSE IF Malformed(disk[f]) THEN "invalid"
    ELSE IF f \in Captures /\ AlreadyImported(f, disk[f].content) THEN "skip"
    ELSE "import"

Read ==
    /\ At("read")
    /\ LET outcome == Outcome(job.file)
       IN  \/ outcome = "skip" /\ Go("note", "none")
           \/ /\ outcome = "import"
              /\ job' = [job EXCEPT !.at = "commit", !.read = disk[job.file]]
           \/ /\ outcome = "transient" /\ Retried
              /\ job' = [job EXCEPT !.attempt = NextAttempt]
           \/ /\ outcome \in {"transient", "invalid"}
              /\ ~(outcome = "transient" /\ Retried)
              /\ Go("fail", outcome)
    /\ UNCHANGED <<disk, clock, marker, reset, db, rt, born>>

\* Evidence that is not newer than the archive's changes nothing.
Older(f, v) ==
    f \in Evidence /\ db.archive[f] # NoFile /\ db.archive[f].content >= v.content

LastErrorAfter(failures) == IF failures = {} THEN FALSE ELSE db.lastError

\* What was archived of the file is replaced: every table is written by key.
Archived(f, v) ==
    IF Older(f, v) THEN db.archive ELSE [db.archive EXCEPT ![f] = v]

\* One transaction: the archive, the import history, the failures of the file.
Commit ==
    /\ At("commit")
    /\ LET f == job.file
           open == {x \in db.failures : x.target # f}
       IN  db' = [archive |-> Archived(f, job.read),
                  imports |-> IF f \in Captures
                              THEN db.imports \cup {<<f, job.read.content>>}
                              ELSE db.imports,
                  failures |-> open,
                  lastError |-> LastErrorAfter(open)]
    /\ Go("note", "none")
    /\ UNCHANGED <<disk, clock, marker, reset, rt, born>>

\* The transaction is rolled back.
CommitFails ==
    /\ MayFail /\ At("commit")
    /\ Go("fail", "database")
    /\ UNCHANGED <<disk, clock, marker, reset, db, rt, born>>

\* Variant: the file counts as known in the state it is in now.
DoneVariant(f) ==
    rt' = [rt EXCEPT !.todo = @ \ {f},
                     !.known[f] = IF Watching THEN Signature(f) ELSE @,
                     !.pending[f] = IF Watching THEN NotDue ELSE @]

\* The file is known in the state the scan found it in.
Done(f) ==
    rt' = [rt EXCEPT !.todo = @ \ {f},
                     !.known[f] = IF Watching THEN rt.pending[f].sig ELSE @,
                     !.pending[f] = IF Watching THEN NotDue ELSE @]

\* The watcher notes its last event.
Note ==
    /\ job.at \in {"note", "noteFailure"}
    /\ Done(job.file)
    /\ job' = NoImport
    /\ UNCHANGED <<disk, clock, marker, reset, db, born>>

\* The note of a success is inside the handler of failed imports.
NoteFails ==
    /\ MayFail /\ Watching /\ At("note")
    /\ Go("fail", "database")
    /\ UNCHANGED <<disk, clock, marker, reset, db, rt, born>>

RecordFailure ==
    /\ At("fail")
    /\ LET x == [kind |-> IF Watching THEN "watcher_import" ELSE "capture_import",
                 target |-> job.file, error |-> job.error]
       IN  db' = [db EXCEPT !.failures = @ \cup {x}, !.lastError = TRUE]
    /\ Go("noteFailure", "none")
    /\ UNCHANGED <<disk, clock, marker, reset, rt, born>>

\* Recording a failure, and the note of it, are outside every handler: the
\* runtime ends.
RecordingFails ==
    /\ MayFail
    /\ At("fail") \/ (Watching /\ At("noteFailure"))
    /\ rt' = [Idle EXCEPT !.phase = "error"]
    /\ job' = NoImport
    /\ UNCHANGED <<disk, clock, marker, reset, db, born>>

-----------------------------------------------------------------------------
(* Resetting the archive, once the runtime has ended *)

NewestCapture ==
    {disk[f].mtime : f \in {g \in Captures : disk[g] # NoFile}} \cup {0}

\* Variant: the boundary is this machine's time.
BoundaryVariant == clock

\* No capture that exists is newer.
Boundary ==
    CHOOSE b \in NewestCapture \cup {clock} :
        \A t \in NewestCapture \cup {clock} : t <= b

MarkReset ==
    /\ ~Running /\ reset = NoReset
    /\ marker' = Boundary /\ reset' = clock
    /\ UNCHANGED <<disk, clock, db, rt, job, born>>

\* The database and its journal are unlinked, the media cache is emptied, an
\* empty database is created.
DeleteDatabase ==
    /\ reset # NoReset
    /\ db' = EmptyDb /\ born' = reset /\ reset' = NoReset
    /\ UNCHANGED <<disk, clock, marker, rt, job>>

\* Another connection holds the database.
ResetFails ==
    /\ MayFail /\ reset # NoReset /\ reset' = NoReset
    /\ UNCHANGED <<disk, clock, marker, db, rt, job, born>>

-----------------------------------------------------------------------------
ImportStep ==
    \/ \E f \in Files : BeginImport(f)
    \/ Read \/ Commit \/ Note \/ RecordFailure

RuntimeStep ==
    \/ Prime \/ ImportAll \/ EndOfSync \/ Scan \/ EndOfScan \/ Stop \/ ImportStep

Faults == RuntimeFails \/ CommitFails \/ NoteFails \/ RecordingFails \/ Crash

Reset == MarkReset \/ DeleteDatabase \/ ResetFails

Next ==
    \/ \E f \in Files : Write(f) \/ Remove(f)
    \/ Start \/ AskToStop \/ Reset \/ RuntimeStep \/ Faults

Spec == Init /\ [][Next]_vars

\* The thread runs on.  Nobody has to write, to start, to stop or to reset.
FairSpec == Spec /\ WF_vars(RuntimeStep)

-----------------------------------------------------------------------------
(* Properties *)

\* Types: the files, what the archive and the watcher record of them, and the
\* import in hand.
TypeOK ==
    /\ disk \in [Files -> Version \cup {NoFile}]
    /\ clock \in 0..MaxTime
    /\ marker \in 0..Ahead + MaxTime
    /\ born \in 0..MaxTime
    /\ reset \in 0..MaxTime \cup {NoReset}
    /\ db \in [archive : [Files -> Version \cup {NoFile}],
               imports : SUBSET (Captures \X Contents),
               failures : SUBSET Failure, lastError : BOOLEAN]
    /\ rt \in [phase : {"off", "error", "starting", "primed", "initial",
                        "synced", "armed", "scan"},
               stop : BOOLEAN, boundary : 0..Ahead + MaxTime,
               known : [Files -> 0..Ahead + MaxTime],
               pending : [Files -> [sig : 0..Ahead + MaxTime, left : 0..SettleScans]],
               todo : SUBSET Files]
    /\ job \in [file : Files \cup {NoJob},
                at : {"none", "read", "commit", "note", "fail", "noteFailure"},
                attempt : 1..RetryCount, error : Errors \cup {"none"},
                read : Version \cup {NoFile}]

Imported(f) ==
    IF f \in Captures THEN <<f, disk[f].content>> \in db.imports
    ELSE db.archive[f] # NoFile /\ db.archive[f].content >= disk[f].content

Failing(f) == \E x \in db.failures : x.target = f

\* What is on disk is in the archive, or older than its reset, or a failed job
\* tells the user why it is neither.
Accounted(f) ==
    \/ disk[f] = NoFile
    \/ disk[f].mtime <= rt.boundary
    \/ disk[f].content \in Contents /\ Imported(f)
    \/ Failing(f)

\* A file the watcher takes for known, and so will not look at again, is
\* accounted for, however the plugin's writes fall between the scan's stat,
\* the reads and the commit (capture_watcher.py scan_once, prime).
KnownIsAccounted ==
    rt.phase \in {"synced", "armed", "scan"} =>
        \A f \in Files :
            rt.known[f] = Signature(f) /\ rt.pending[f].sig = 0 => Accounted(f)

\* application_state shows an error exactly as long as a failed job is open
\* (import_service.py record_failure, _resolve_failures_for_target).
LastErrorIsOpen == db.lastError <=> db.failures # {}

\* No file is dropped without the user being able to see it.
NothingIsLostSilently == KnownIsAccounted /\ LastErrorIsOpen

WrittenAt(v) == IF v.mtime > MaxTime THEN v.mtime - Ahead ELSE v.mtime

\* An archive that was reset holds nothing from a capture file that existed
\* at the reset, through any crash and restart (archive_reset_service.py).
ResetForgets ==
    \A f \in Captures :
        db.archive[f] # NoFile => WrittenAt(db.archive[f]) > born

\* No content of a file is applied twice, so a version that was superseded
\* does not replace the later one (import_service.py _already_imported).
AppliedOnce ==
    [][\A f \in Captures :
        db'.archive[f] \notin {db.archive[f], NoFile} =>
            <<f, db'.archive[f].content>> \notin db.imports]_vars

\* Once the plugin pauses, a runtime that keeps running accounts for every
\* file.
EventuallyAccounted == <>[]Running => <>[](\A f \in Files : Accounted(f))

\* "An unexpected failure is isolated to this file and must not terminate the
\* watcher loop" (capture_watcher.py 220); the code does not keep this (README,
\* "Disagreements").
WatcherSurvives == [][Watching => rt'.phase # "error"]_vars
=============================================================================
