--------------------------- MODULE UpdateController ---------------------------
(***************************************************************************)
(* Looking for an update, downloading and staging it, inside a running     *)
(* Companion.  A worker thread does one operation at a time, under a lock  *)
(* of the process (_operation_lock) and one between processes (update.lock,*)
(* which the external updater takes too); the user may cancel it.  What    *)
(* the worker reports is queued for the window, which shows it and enables *)
(* its buttons by what it shows; the window's own reports are shown at     *)
(* once.  The process may end anywhere: the files stay, the operating      *)
(* system releases update.lock.                                            *)
(*                                                                         *)
(* UpdateTransaction takes over where the external updater holds a whole   *)
(* staged version.                                                         *)
(*                                                                         *)
(* Definitions marked "Variant" are used by no action: each is a plausible *)
(* mistake in the definition it stands before.                             *)
(***************************************************************************)
EXTENDS Naturals, Sequences

CONSTANTS
    Versions,       \* versions newer than this one
    NoVersion,
    MaxAttempts,    \* downloads of a package before the error is final
    MaxQueued,      \* bound: reports not shown yet when an operation begins
    MayFail         \* whether the disk may be full or a file locked

ASSUME ControllerConstantsOK ==
    /\ NoVersion \notin Versions
    /\ MaxAttempts \in Nat \ {0} /\ MaxQueued \in Nat \ {0}
    /\ MayFail \in BOOLEAN

VARIABLES
    app,        \* the process: off, on, or its window closed
    w,          \* the worker; not idle means _operation_lock is held
    cancel,     \* _cancel_event
    available, prepared,    \* the version found, the version ready to install
    shown,      \* the status in the window, and the version it speaks of
    queue,      \* the worker's reports on their way to the window
    holder,     \* who holds update.lock
    updater,    \* the external updater
    disk,       \* per version: the .part file, the package, the staged tree
    journal,    \* update_journal.json
    check,      \* update_check.json: how old the last attempt is
    asked       \* background requests since the last attempt turned old

memory == <<w, cancel, available, prepared, queue>>
outside == <<holder, updater>>
files == <<disk, journal, check, asked>>
vars == <<app, memory, shown, outside, files>>

-----------------------------------------------------------------------------
Busy == {"CHECKING", "DOWNLOADING", "VERIFYING", "CANCELLING"}
Statuses == Busy \cup {"IDLE", "BUSY", "CURRENT", "AVAILABLE", "ERROR",
                       "STAGED", "CANCELLED"}
Targets == Versions \cup {NoVersion}
Status == [state : Statuses, target : Targets]

\* "noted" says that the operation's last journal entry is in the file.
Idle == [pc |-> "idle", kind |-> "check", background |-> FALSE,
         version |-> NoVersion, attempt |-> 1, noted |-> FALSE]

Nothing == [part |-> "absent", package |-> "absent", staging |-> "absent"]

Init ==
    /\ app = "off" /\ w = Idle /\ cancel = FALSE
    /\ available = NoVersion /\ prepared = NoVersion
    /\ shown = [state |-> "IDLE", target |-> NoVersion] /\ queue = <<>>
    /\ holder = "nobody" /\ updater = "off"
    /\ disk = [v \in Versions |-> Nothing]
    /\ journal = "IDLE" /\ check = "due" /\ asked = 0

-----------------------------------------------------------------------------
(* The process *)

Boot ==
    /\ app = "off"
    /\ app' = "on"
    /\ UNCHANGED <<memory, shown, outside, files>>

\* The process ends, and its threads with it.
Exit ==
    /\ app # "off"
    /\ app' = "off" /\ w' = Idle /\ cancel' = FALSE
    /\ available' = NoVersion /\ prepared' = NoVersion
    /\ shown' = [state |-> "IDLE", target |-> NoVersion] /\ queue' = <<>>
    /\ holder' = IF holder = "app" THEN "nobody" ELSE holder
    /\ UNCHANGED <<updater, files>>

\* 24 hours after the last attempt.  No request takes that long.
Elapse ==
    /\ check = "recent" /\ w.pc \notin {"request", "response"}
    /\ check' = "due" /\ asked' = 0
    /\ UNCHANGED <<app, memory, shown, outside, disk, journal>>

-----------------------------------------------------------------------------
(* The window *)

\* The next report arrives.
Deliver ==
    /\ app = "on" /\ queue # <<>>
    /\ LET s == Head(queue)
       IN  shown' = [state |-> s.state,
                     target |-> CASE s.state = "CURRENT" -> NoVersion
                                  [] s.target # NoVersion -> s.target
                                  [] OTHER -> shown.target]
    /\ queue' = Tail(queue)
    /\ UNCHANGED <<app, w, cancel, available, prepared, outside, files>>

Shows(state) == shown' = [shown EXCEPT !.state = state]

\* check_async, download_async
Begin(kind, background) ==
    /\ IF w.pc = "idle"
       THEN /\ Len(queue) < MaxQueued
            /\ w' = [Idle EXCEPT !.pc = "claim", !.kind = kind,
                                 !.background = background]
            /\ cancel' = FALSE /\ UNCHANGED shown
       ELSE Shows("BUSY") /\ UNCHANGED <<w, cancel>>
    /\ UNCHANGED <<app, available, prepared, queue, outside, files>>

ClickCheck ==
    /\ app = "on" /\ shown.state \notin Busy
    /\ Begin("check", FALSE)

\* Once after the start, and whenever the user switches the setting on.  A
\* record that cannot be read counts as due: "background" marks the requests
\* made on what the record says.
BackgroundCheck ==
    /\ app = "on"
    /\ \/ check = "due" /\ Begin("check", TRUE)
       \/ MayFail /\ Begin("check", FALSE)

CanDownload ==
    \/ shown.state = "AVAILABLE"
    \/ shown.state = "CANCELLED" /\ shown.target # NoVersion

ClickDownload ==
    /\ app = "on" /\ CanDownload /\ available # NoVersion
    /\ Begin("download", FALSE)

NothingToDownload ==
    /\ app = "on" /\ CanDownload /\ available = NoVersion
    /\ Shows("ERROR")
    /\ UNCHANGED <<app, memory, outside, files>>

\* Without an operation there is nothing to cancel.
ClickCancel ==
    /\ app = "on" /\ shown.state \in Busy \ {"CANCELLING"}
    /\ w.pc # "idle"
    /\ cancel' = TRUE /\ Shows("CANCELLING")
    /\ UNCHANGED <<app, w, available, prepared, queue, outside, files>>

\* The user installs, or closes the window with automatic installation on.
\* The threads run on for a moment.
LaunchUpdater ==
    /\ app = "on" /\ prepared # NoVersion /\ updater = "off"
    /\ updater' = "starting" /\ app' = "closing"
    /\ UNCHANGED <<memory, shown, holder, files>>

\* It does not wait for the lock.
UpdaterStarts ==
    /\ updater = "starting"
    /\ IF holder = "nobody" THEN holder' = "updater" /\ updater' = "on"
       ELSE updater' = "off" /\ UNCHANGED holder
    /\ UNCHANGED <<app, memory, shown, files>>

UpdaterEnds ==
    /\ updater = "on"
    /\ updater' = "off" /\ holder' = "nobody"
    /\ UNCHANGED <<app, memory, shown, files>>

-----------------------------------------------------------------------------
(* The worker *)

Worker(pc) == app # "off" /\ w.pc = pc
Go(pc) == w' = [w EXCEPT !.pc = pc]
Report(state, target) ==
    queue' = Append(queue, [state |-> state, target |-> target])

\* What a worker's step on the files and on the queue leaves alone.
Rest == UNCHANGED <<app, cancel, prepared, shown, outside, check, asked>>

\* _write_journal swallows every error: the word that was there stays.
Journal(word, pc) ==
    \E written \in {TRUE, ~MayFail} :
        /\ journal' = IF written THEN word ELSE journal
        /\ w' = [w EXCEPT !.pc = pc, !.noted = written]

\* The version a cancelled operation is reported for.
Reported == IF w.kind = "download" THEN available ELSE NoVersion

\* Variant: a cancelled operation ends without a word.
CancelledVariant ==
    /\ cancel
    /\ Journal("CANCELLED", "release") /\ UNCHANGED queue

\* A cancelled download writes its entry twice, of which one may succeed.
Cancelled ==
    /\ cancel
    /\ Journal("CANCELLED", "release") /\ Report("CANCELLED", Reported)

\* An operation that fails before its first entry only tells the window.
Refused == Report("ERROR", NoVersion) /\ Go("release") /\ UNCHANGED journal

\* Variant: a download that fails does the same.
FailedVariant == Refused

Failed == Journal("FAILED", "release") /\ Report("ERROR", NoVersion)

\* Variant: the thread works beside another process.
FreeVariant == TRUE

Free == holder = "nobody"

\* The operation's lock is released.
AfterBusy == "done"

Claim ==
    /\ Worker("claim")
    /\ IF Free
       THEN /\ holder' = "app"
            /\ IF w.kind = "check" THEN Report("CHECKING", NoVersion) /\ Go("check")
               ELSE w' = [w EXCEPT !.pc = "download", !.version = available]
                    /\ UNCHANGED queue
       ELSE Report("BUSY", NoVersion) /\ Go(AfterBusy) /\ UNCHANGED holder
    /\ UNCHANGED <<app, cancel, available, prepared, shown, updater, files>>

\* Variant: the attempt is recorded after the answer only.
AttemptedVariant == check

Attempted == "recent"

\* The attempt is recorded before the request is sent; if that fails, the
\* record of the failure may still count as one.
Check ==
    /\ Worker("check")
    /\ \/ Cancelled /\ UNCHANGED check
       \/ /\ ~cancel /\ check' = Attempted /\ Go("request")
          /\ UNCHANGED <<queue, journal>>
       \/ MayFail /\ ~cancel /\ check' \in {check, Attempted} /\ Refused
    /\ UNCHANGED <<app, cancel, available, prepared, shown, outside, disk, asked>>

Request ==
    /\ Worker("request")
    /\ asked' = IF w.background THEN asked + 1 ELSE asked
    /\ w' = [w EXCEPT !.pc = "response", !.background = FALSE]
    /\ UNCHANGED <<app, cancel, available, prepared, queue, shown, outside,
                   disk, journal, check>>

\* No answer, an answer too late, no newer version, or one - which may be known
\* although recording the success fails: with automatic download the operation
\* goes on.
Response ==
    /\ Worker("response")
    /\ \/ Cancelled /\ UNCHANGED available
       \/ Refused /\ UNCHANGED available
       \/ MayFail /\ ~cancel /\ Refused /\ available' \in Versions
       \/ /\ ~cancel /\ available' = NoVersion
          /\ Report("CURRENT", NoVersion) /\ Go("release")
          /\ UNCHANGED journal
       \/ \E v \in Versions, automatic \in BOOLEAN :
          /\ ~cancel /\ available' = v
          /\ Report("AVAILABLE", v)
          /\ w' = [w EXCEPT !.pc = IF automatic THEN "download" ELSE "release",
                            !.version = IF automatic THEN v ELSE NoVersion]
          /\ UNCHANGED journal
    /\ UNCHANGED disk /\ Rest

\* The release may lack the package; that is found before anything is written.
Download ==
    /\ Worker("download")
    /\ \/ Cancelled
       \/ Refused
       \/ ~cancel /\ Journal("DOWNLOADING", "room") /\ UNCHANGED queue
    /\ UNCHANGED <<disk, available>> /\ Rest

\* require_free_space.
Room ==
    /\ Worker("room")
    /\ \/ MayFail /\ Failed /\ UNCHANGED disk
       \/ /\ Report("DOWNLOADING", w.version) /\ Go("fetch") /\ UNCHANGED journal
          /\ disk' = [disk EXCEPT ![w.version].part = "absent"]
    /\ UNCHANGED available /\ Rest

Fetch ==
    /\ Worker("fetch")
    /\ \/ Cancelled /\ disk' = [disk EXCEPT ![w.version].part = "absent"]
       \/ /\ ~cancel /\ Go("receive")
          /\ disk' = [disk EXCEPT ![w.version].part = "bad"]
          /\ UNCHANGED <<queue, journal>>
    /\ UNCHANGED available /\ Rest

LastAttempt == w.attempt >= MaxAttempts

\* A failed attempt: the partial file goes, another attempt is made or not.
Again ==
    /\ disk' = [disk EXCEPT ![w.version].part = "absent"]
    /\ \/ LastAttempt /\ Failed
       \/ ~LastAttempt /\ Cancelled
       \/ /\ ~LastAttempt /\ ~cancel
          /\ w' = [w EXCEPT !.pc = "fetch", !.attempt = @ + 1]
          /\ UNCHANGED <<queue, journal>>

\* The connection breaks, or the transfer ends with the right bytes or others.
Receive ==
    /\ Worker("receive")
    /\ \/ Cancelled /\ disk' = [disk EXCEPT ![w.version].part = "absent"]
       \/ Again
       \/ /\ ~cancel /\ Go("verify") /\ UNCHANGED <<queue, journal>>
          /\ \E bytes \in {"whole", "bad"} :
                disk' = [disk EXCEPT ![w.version].part = bytes]
    /\ UNCHANGED available /\ Rest

\* Variant: size and SHA-256 are not compared with the manifest.
VerifiedVariant == TRUE

Verified == disk[w.version].part = "whole"

\* Size, SHA-256, then os.replace.
Verify ==
    /\ Worker("verify")
    /\ \/ ~Verified /\ Again
       \/ /\ Verified /\ w' = [w EXCEPT !.pc = "verifying", !.attempt = 1]
          /\ disk' = [disk EXCEPT ![w.version].package = disk[w.version].part,
                                  ![w.version].part = "absent"]
          /\ UNCHANGED <<queue, journal>>
    /\ UNCHANGED available /\ Rest

Verifying ==
    /\ Worker("verifying")
    /\ \/ Cancelled
       \/ ~cancel /\ Journal("VERIFYING", "stage") /\ Report("VERIFYING", w.version)
    /\ UNCHANGED <<disk, available>> /\ Rest

\* An older tree of the same version is removed first.  The package may be
\* refused and the disk be full before that; the removal may stop halfway.
Stage ==
    /\ Worker("stage")
    /\ LET leave(tree) == disk' = [disk EXCEPT ![w.version].staging = tree]
       IN  \/ Cancelled /\ UNCHANGED disk
           \/ MayFail /\ ~cancel /\ Failed /\ UNCHANGED disk
           \/ /\ MayFail /\ ~cancel /\ Failed
              /\ disk[w.version].staging # "absent" /\ leave("bad")
           \/ /\ ~cancel /\ Go("extract") /\ leave("bad")
              /\ UNCHANGED <<queue, journal>>
    /\ UNCHANGED available /\ Rest

\* What stage() leaves behind when it stops: errors of the removal are ignored.
Leftover == IF MayFail THEN {"absent", "bad"} ELSE {"absent"}

Extracted == {"whole"}

\* Extracting, and comparing every file with the install manifest.
Extract ==
    /\ Worker("extract")
    /\ \/ /\ Cancelled \/ (MayFail /\ Failed)
          /\ \E tree \in Leftover :
                disk' = [disk EXCEPT ![w.version].staging = tree]
       \/ /\ Go("staged") /\ UNCHANGED <<queue, journal>>
          /\ \E tree \in Extracted :
                disk' = [disk EXCEPT ![w.version].staging = tree]
    /\ UNCHANGED available /\ Rest

Staged ==
    /\ Worker("staged")
    /\ prepared' = w.version
    /\ Journal("STAGED", "release") /\ Report("STAGED", w.version)
    /\ UNCHANGED <<app, cancel, available, shown, outside, disk, check, asked>>

ReleaseProcessLock ==
    /\ Worker("release")
    /\ holder' = "nobody" /\ Go("done")
    /\ UNCHANGED <<app, cancel, available, prepared, queue, shown, updater, files>>

ReleaseOperationLock ==
    /\ Worker("done")
    /\ w' = Idle
    /\ UNCHANGED <<app, cancel, available, prepared, queue, shown, outside, files>>

-----------------------------------------------------------------------------
WorkerStep ==
    \/ Claim \/ Check \/ Request \/ Response
    \/ Download \/ Room \/ Fetch \/ Receive \/ Verify
    \/ Verifying \/ Stage \/ Extract \/ Staged
    \/ ReleaseProcessLock \/ ReleaseOperationLock

User ==
    \/ ClickCheck \/ BackgroundCheck \/ ClickDownload \/ NothingToDownload
    \/ ClickCancel \/ LaunchUpdater

Next ==
    \/ Boot \/ Exit \/ Elapse \/ Deliver \/ User
    \/ UpdaterStarts \/ UpdaterEnds \/ WorkerStep

Spec == Init /\ [][Next]_vars

\* Every request has a timeout, so the worker goes on; and so does the
\* window's event loop, until the window is closed and the process ends.
FairSpec ==
    /\ Spec
    /\ WF_vars(WorkerStep) /\ WF_vars(Deliver)
    /\ WF_vars(app = "closing" /\ Exit)

-----------------------------------------------------------------------------
(* Properties *)

Steps == {"idle", "claim", "check", "request", "response", "download", "room",
          "fetch", "receive", "verify", "verifying", "stage", "extract", "staged",
          "release", "done"}

Trees == {"absent", "bad", "whole"}

\* "Otherwise an outage would cause a background request on every DDS launch":
\* as long as update_check.json can be read, one background request in 24
\* hours, through crashes and restarts (controller.py 154).
OneRequestADay == asked <= 1

\* The types; the counter of background requests never passes one.
TypeOK ==
    /\ app \in {"off", "on", "closing"}
    /\ w \in [pc : Steps, kind : {"check", "download"}, background : BOOLEAN,
              version : Targets, attempt : 1..MaxAttempts,
              noted : BOOLEAN]
    /\ cancel \in BOOLEAN
    /\ available \in Targets /\ prepared \in Targets
    /\ shown \in Status /\ queue \in Seq(Status)
    /\ holder \in {"nobody", "app", "updater"}
    /\ updater \in {"off", "starting", "on"}
    /\ disk \in [Versions -> [part : Trees, package : Trees, staging : Trees]]
    /\ journal \in {"IDLE", "DOWNLOADING", "VERIFYING", "STAGED", "FAILED",
                    "CANCELLED"}
    /\ check \in {"due", "recent"} /\ asked \in Nat /\ OneRequestADay

\* A package under its own name is the released one, whatever the server sent
\* and wherever the process ended (downloader.py).
PackageIsWhole == \A v \in Versions : disk[v].package # "bad"

\* When the window offers to install and nothing is going on, the staged tree
\* is there and whole, although a later download of the same version removes
\* it (controller.py, pages.py set_update_status).
OfferIsWhole ==
    app = "on" /\ w.pc = "idle" /\ queue = <<>> /\ shown.state = "STAGED" =>
        prepared # NoVersion /\ disk[prepared].staging = "whole"

\* What DDS may install is what was released, packed and unpacked.
PayloadIsWhole == PackageIsWhole /\ OfferIsWhole

\* While the external updater copies a staged tree nobody touches it, although
\* the user may have started DDS again (lock.py, external.py).
UpdaterIsUndisturbed == [][updater = "on" => UNCHANGED disk]_vars

\* An operation whose last entry reached the journal leaves one that says how
\* it ended, whichever step ended it: none ends on the entry of a step
\* (controller.py 216-282).
JournalSaysHowItEnded ==
    [][w.pc = "done" /\ w.noted /\ w'.pc = "idle" /\ app' = app =>
         journal \in {"STAGED", "FAILED", "CANCELLED"}]_vars

\* While the window shows work in progress its buttons are disabled; it does
\* not stay that way, although a cancellation may meet an operation that has
\* just ended and every request may fail.
ButtonsComeBack == shown.state \in Busy ~> shown.state \notin Busy

\* _ALLOWED_TRANSITIONS of journal.py, as far as the controller goes.
Allowed ==
    [IDLE |-> {"DOWNLOADING", "VERIFYING"},
     DOWNLOADING |-> {"VERIFYING", "FAILED", "CANCELLED"},
     VERIFYING |-> {"STAGED", "FAILED", "CANCELLED"},
     STAGED |-> {"FAILED"},
     FAILED |-> {"IDLE", "DOWNLOADING", "VERIFYING"},
     CANCELLED |-> {"IDLE", "DOWNLOADING", "VERIFYING"}]

\* The journal changes as journal.py 17-30 allows; the code does not keep to it
\* (README, "Disagreements").
JournalFollowsTable ==
    [][journal' # journal => journal' \in Allowed[journal]]_vars
=============================================================================
