------------------------------ MODULE Maintenance ------------------------------
(***************************************************************************)
(* Maintenance of the archive inside a running Companion: clearing or      *)
(* deleting a branch of the Library, resetting the whole archive, packing  *)
(* a branch into a ZIP.  Each is a thread the window starts; the first two *)
(* stop the archive runtime (whose thread owns a second one, the media     *)
(* worker), wait for its thread, work on the database and the media        *)
(* directory, and report to the window, which starts a new runtime.        *)
(*                                                                         *)
(* CaptureImport and MediaLifecycle have the details of imports and of     *)
(* media rows; here a capture carries one message, a media row has the     *)
(* states these threads tell apart, and an open database cannot be deleted *)
(* (Windows, the platform the program is built for).                       *)
(*                                                                         *)
(* Definitions marked "Variant" are used by no action: each is a plausible *)
(* mistake in the definition it stands before.                             *)
(***************************************************************************)
EXTENDS Naturals, FiniteSets

CONSTANTS
    Messages,       \* each in a capture file of its own
    Keys,           \* media
    Uses,           \* the media each message refers to
    Branch,         \* the messages of the branch under maintenance
    MaxRuntimes,    \* bound: runtimes with a living thread, or waited for
    MaxRequests,    \* bound: maintenance the user asks for
    Prompt,         \* whether threads end within the time others wait
    Overlap,        \* whether the user resets while a branch is worked on
    MayFail         \* whether files and the database may raise errors

ASSUME MaintenanceConstantsOK ==
    /\ Uses \in [Messages -> SUBSET Keys] /\ Branch \subseteq Messages
    /\ Keys \cap {"none", "idle", "ended"} = {}
    /\ MaxRuntimes \in Nat \ {0} /\ MaxRequests \in Nat
    /\ {Prompt, Overlap, MayFail} \subseteq BOOLEAN

VARIABLES
    capture,    \* per message: its file, older or newer than the boundary
    archive,    \* the database: messages, captures imported, media rows
    files,      \* cached media on disk
    runtime,    \* per slot: the thread, its stop_event, its media worker
    current,    \* the slot of window.runtime
    busy,       \* the window's _..._in_progress flags
    inbox,      \* maintenance_done signals not delivered yet
    job,        \* the branch maintenance worker
    reset,      \* the archive reset worker
    export,     \* the export worker
    requests,   \* maintenance asked for so far
    gone,       \* messages deleted by the user and not captured again since
    abandoned   \* media a worker still had to look at when the process ended

threads == <<runtime, current>>
window == <<busy, inbox, requests>>
data == <<capture, archive, files, gone, abandoned>>
vars == <<data, threads, window, job, reset, export>>

-----------------------------------------------------------------------------
Slots == 1..MaxRuntimes
Kinds == {"branch", "reset", "export"}
RowStates == {"none", "queued", "downloading", "cached", "evicted"}

NoThread == [pc |-> "none", stop |-> FALSE, media |-> "none"]
Started == [NoThread EXCEPT !.pc = "opening"]

NoJob == [pc |-> "idle", op |-> "clear", thread |-> 0, keys |-> {}, now |-> {}]
NoReset == [pc |-> "idle", thread |-> 0, files |-> {}]
NoExport == [pc |-> "idle", messages |-> {}, owners |-> {}, todo |-> {},
             included |-> {}, missing |-> {}]

EmptyArchive == [messages |-> {}, imports |-> {},
                 rows |-> [k \in Keys |-> "none"]]

\* The process starts: the window, and a runtime in the first slot.
Fresh ==
    /\ runtime' = [r \in Slots |-> IF r = 1 THEN Started ELSE NoThread]
    /\ current' = 1
    /\ busy' = [k \in Kinds |-> FALSE] /\ inbox' = {}
    /\ job' = NoJob /\ reset' = NoReset /\ export' = NoExport

Init ==
    /\ capture = [m \in Messages |-> "fresh"]
    /\ archive = EmptyArchive /\ files = {} /\ gone = {} /\ abandoned = {}
    /\ runtime = [r \in Slots |-> IF r = 1 THEN Started ELSE NoThread]
    /\ current = 1
    /\ busy = [k \in Kinds |-> FALSE] /\ inbox = {} /\ requests = 0
    /\ job = NoJob /\ reset = NoReset /\ export = NoExport

Alive(r) == runtime[r].pc \notin {"none", "ended"}
Working(r) == runtime[r].media \notin {"none", "ended"}
HasMessage(k, messages) == \E m \in messages : k \in Uses[m]

-----------------------------------------------------------------------------
(* The Plugin *)

\* It writes a capture again, with the message in it.
Write(m) ==
    /\ capture[m] # "fresh" \/ m \in archive.imports
    /\ capture' = [capture EXCEPT ![m] = "fresh"]
    /\ archive' = [archive EXCEPT !.imports = @ \ {m}]
    /\ gone' = gone \ {m}
    /\ UNCHANGED <<files, abandoned, threads, window, job, reset, export>>

-----------------------------------------------------------------------------
(* The runtime *)

Moves(r, pc) == runtime' = [runtime EXCEPT ![r].pc = pc]

Open(r) ==
    /\ runtime[r].pc = "opening" /\ Moves(r, "importing")
    /\ UNCHANGED <<current, data, window, job, reset, export>>

\* import_all at the start, the watcher's scans later.  stop_event is looked
\* at between scans only.
Import(r, m) ==
    /\ runtime[r].pc \in {"importing", "watching"}
    /\ capture[m] = "fresh" /\ m \notin archive.imports
    /\ archive' = [messages |-> archive.messages \cup {m},
                   imports |-> archive.imports \cup {m},
                   rows |-> [k \in Keys |->
                               IF k \in Uses[m] /\ archive.rows[k] = "none"
                               THEN "queued" ELSE archive.rows[k]]]
    /\ UNCHANGED <<capture, files, gone, abandoned, threads, window, job, reset, export>>

\* The initial import is over, whether every capture could be read or not.
Watch(r) ==
    /\ runtime[r].pc = "importing"
    /\ runtime' = [runtime EXCEPT ![r].pc = "watching", ![r].media = "idle"]
    /\ UNCHANGED <<current, data, window, job, reset, export>>

HearStop(r) ==
    /\ runtime[r].pc = "watching" /\ runtime[r].stop /\ Moves(r, "ending")
    /\ UNCHANGED <<current, data, window, job, reset, export>>

RuntimeFails(r) ==
    /\ MayFail /\ runtime[r].pc \in {"opening", "importing", "watching"}
    /\ runtime' = [runtime EXCEPT ![r].pc = "ending", ![r].stop = TRUE]
    /\ UNCHANGED <<current, data, window, job, reset, export>>

\* Five seconds for the media worker; then the thread ends without it.
RuntimeEnds(r) ==
    /\ runtime[r].pc = "ending" /\ (Prompt => ~Working(r))
    /\ Moves(r, "ended")
    /\ UNCHANGED <<current, data, window, job, reset, export>>

-----------------------------------------------------------------------------
(* The media worker of a runtime.  media is idle, ended, or what it downloads *)

RowBecomes(k, state) == archive' = [archive EXCEPT !.rows[k] = state]

Claim(r, k) ==
    /\ runtime[r].media = "idle" /\ ~runtime[r].stop
    /\ archive.rows[k] = "queued" /\ RowBecomes(k, "downloading")
    /\ runtime' = [runtime EXCEPT ![r].media = k]
    /\ UNCHANGED <<capture, files, gone, abandoned, current, window, job, reset, export>>

\* The file is in place, then its row says so, if there still is one.
Downloaded(r, k) ==
    /\ runtime[r].media = k
    /\ files' = files \cup {k}
    /\ RowBecomes(k, IF archive.rows[k] = "none" THEN "none" ELSE "cached")
    /\ runtime' = [runtime EXCEPT ![r].media = "idle"]
    /\ UNCHANGED <<capture, gone, abandoned, current, window, job, reset, export>>

DownloadFails(r, k) ==
    /\ runtime[r].media = k
    /\ RowBecomes(k, IF archive.rows[k] = "none" THEN "none" ELSE "queued")
    /\ runtime' = [runtime EXCEPT ![r].media = "idle"]
    /\ UNCHANGED <<capture, files, gone, abandoned, current, window, job, reset, export>>

\* Claims of workers that are gone, rows whose file is gone.
Heal(r, k) ==
    /\ runtime[r].media = "idle" /\ ~runtime[r].stop
    /\ \/ archive.rows[k] = "downloading" /\ \A s \in Slots : runtime[s].media # k
       \/ archive.rows[k] = "cached" /\ k \notin files
    /\ RowBecomes(k, "queued")
    /\ UNCHANGED <<capture, files, gone, abandoned, threads, window, job, reset, export>>

WorkerEnds(r) ==
    /\ runtime[r].media = "idle" /\ runtime[r].stop
    /\ runtime' = [runtime EXCEPT ![r].media = "ended"]
    /\ UNCHANGED <<current, data, window, job, reset, export>>

-----------------------------------------------------------------------------
(* The window *)

StopCurrent == runtime' = [runtime EXCEPT ![current].stop = TRUE]

Begins(kind) ==
    /\ ~busy[kind] /\ requests < MaxRequests
    /\ busy' = [busy EXCEPT ![kind] = TRUE] /\ requests' = requests + 1
    /\ UNCHANGED <<data, current, inbox>>

\* _library_scope_action, _run_branch_maintenance
AskBranch(op) ==
    /\ ~busy["reset"] /\ Begins("branch") /\ StopCurrent
    /\ job' = [NoJob EXCEPT !.pc = "joining", !.op = op, !.thread = current]
    /\ UNCHANGED <<reset, export>>

\* _reset_local_archive looks at its own flag only.
AskReset ==
    /\ Overlap \/ ~busy["branch"]
    /\ Begins("reset") /\ StopCurrent
    /\ reset' = [NoReset EXCEPT !.pc = "joining", !.thread = current]
    /\ UNCHANGED <<job, export>>

AskExport ==
    /\ Begins("export")
    /\ export' = [NoExport EXCEPT !.pc = "reading"]
    /\ UNCHANGED <<runtime, job, reset>>

WaitedFor(r) ==
    \/ job.pc = "joining" /\ job.thread = r
    \/ reset.pc = "joining" /\ reset.thread = r

\* Variant: the runtime that ended is run again, its stop_event still set.
StartRuntimeVariant ==
    IF Alive(current) THEN UNCHANGED threads
    ELSE /\ ~Working(current) /\ ~WaitedFor(current)
         /\ runtime' = [runtime EXCEPT ![current] = [Started EXCEPT !.stop = TRUE]]
         /\ UNCHANGED current

\* _start_runtime: nothing while the last one is alive, told to stop or not.
StartRuntime ==
    IF Alive(current) THEN UNCHANGED threads
    ELSE \E r \in Slots :
            /\ ~Alive(r) /\ ~Working(r) /\ ~WaitedFor(r)
            /\ runtime' = [runtime EXCEPT ![r] = Started]
            /\ current' = r

\* _on_maintenance_done, after a success and after a failure.
Deliver(kind) ==
    /\ kind \in inbox
    /\ inbox' = inbox \ {kind} /\ busy' = [busy EXCEPT ![kind] = FALSE]
    /\ IF kind = "export" THEN UNCHANGED threads ELSE StartRuntime
    /\ export' = IF kind = "export" THEN NoExport ELSE export
    /\ job' = IF kind = "branch" THEN NoJob ELSE job
    /\ reset' = IF kind = "reset" THEN NoReset ELSE reset
    /\ UNCHANGED <<data, requests>>

\* Clear cache, or the cache policy (MediaLifecycle has its steps).
Sweep(k) ==
    /\ k \in files /\ files' = files \ {k}
    /\ RowBecomes(k, IF archive.rows[k] = "cached" THEN "evicted" ELSE archive.rows[k])
    /\ UNCHANGED <<capture, gone, abandoned, threads, window, job, reset, export>>

\* The process ends, with every thread in it, and is started again.
Restart ==
    /\ Fresh
    /\ abandoned' = abandoned \cup job.keys \cup job.now
    /\ UNCHANGED <<capture, archive, files, gone, requests>>

-----------------------------------------------------------------------------
(* The branch maintenance worker *)

\* Variant: the worker takes down its flag itself.
ReportsVariant(kind) ==
    /\ inbox' = inbox \cup {kind} /\ busy' = [busy EXCEPT ![kind] = FALSE]
    /\ UNCHANGED requests

\* The window takes down the flag when the signal arrives.
Reports(kind) == inbox' = inbox \cup {kind} /\ UNCHANGED <<busy, requests>>

JobJoined == job.pc = "joining" /\ ~Alive(job.thread)

\* clear_media_cache: the files no message outside the branch refers to.
BeginClear ==
    /\ JobJoined /\ job.op = "clear"
    /\ job' = [job EXCEPT !.pc = "clearing",
                 !.keys = {k \in files : /\ archive.rows[k] = "cached"
                                         /\ HasMessage(k, archive.messages \cap Branch)
                                         /\ ~HasMessage(k, archive.messages \ Branch)}]
    /\ UNCHANGED <<data, threads, window, reset, export>>

ClearFile(k) ==
    /\ job.pc = "clearing" /\ k \in job.keys
    /\ \/ files' = files \ {k} /\ job' = [job EXCEPT !.keys = @ \ {k}, !.now = @ \cup {k}]
       \/ MayFail /\ UNCHANGED files /\ job' = [job EXCEPT !.keys = @ \ {k}]
    /\ UNCHANGED <<capture, archive, gone, abandoned, threads, window, reset, export>>

\* reset_removed_cache_paths, in one transaction.
ClearRows ==
    /\ job.pc = "clearing" /\ job.keys = {}
    /\ archive' = [archive EXCEPT !.rows = [k \in Keys |->
                     IF k \in job.now /\ archive.rows[k] = "cached"
                     THEN "evicted" ELSE archive.rows[k]]]
    /\ job' = [job EXCEPT !.pc = "done", !.now = {}] /\ Reports("branch")
    /\ UNCHANGED <<capture, files, gone, abandoned, threads, reset, export>>

\* Variant: the imports of the branch are forgotten with its messages.
DeletedVariant(a) ==
    [a EXCEPT !.messages = @ \ Branch, !.imports = @ \ Branch]

\* The messages go, with their attachments and references (ON DELETE
\* CASCADE); capture_imports stays.
Deleted(a) == [a EXCEPT !.messages = @ \ Branch]

\* _media_keys_for_scope
Candidates(a) == {k \in Keys : HasMessage(k, a.messages \cap Branch)}

\* delete_data and delete_branch up to the commit.
DeleteMessages ==
    /\ JobJoined /\ job.op = "delete"
    /\ job' = [job EXCEPT !.pc = "sweeping", !.keys = Candidates(archive)]
    /\ archive' = Deleted(archive)
    /\ gone' = gone \cup {m \in Branch \cap archive.messages :
                            capture[m] # "fresh" \/ m \in archive.imports}
    /\ UNCHANGED <<capture, files, abandoned, threads, window, reset, export>>

\* Variant: media are removed whoever else refers to them.
StillReferencedVariant(k) == FALSE

StillReferenced(k) == HasMessage(k, archive.messages)

\* _remove_orphan_media, per key: look, unlink, delete the row, which goes
\* even if the file cannot be unlinked.
SpareMedia(k) ==
    /\ job.pc = "sweeping" /\ job.now = {} /\ k \in job.keys /\ StillReferenced(k)
    /\ job' = [job EXCEPT !.keys = @ \ {k}]
    /\ UNCHANGED <<data, threads, window, reset, export>>

UnlinkMedia(k) ==
    /\ job.pc = "sweeping" /\ job.now = {} /\ k \in job.keys /\ ~StillReferenced(k)
    /\ job' = [job EXCEPT !.keys = @ \ {k}, !.now = {k}]
    /\ \/ files' = IF archive.rows[k] = "cached" THEN files \ {k} ELSE files
       \/ MayFail /\ UNCHANGED files
    /\ UNCHANGED <<capture, archive, gone, abandoned, threads, window, reset, export>>

RemoveRow(k) ==
    /\ job.pc = "sweeping" /\ job.now = {k}
    /\ RowBecomes(k, "none") /\ job' = [job EXCEPT !.now = {}]
    /\ UNCHANGED <<capture, files, gone, abandoned, threads, window, reset, export>>

JobDone ==
    /\ job.pc = "sweeping" /\ job.keys = {} /\ job.now = {}
    /\ job' = [job EXCEPT !.pc = "done"] /\ Reports("branch")
    /\ UNCHANGED <<data, threads, reset, export>>

\* Both workers report what they raise.
ReportsFailure(kind) == Reports(kind)

\* The runtime did not end within ten seconds, or something is raised.
JobFails ==
    /\ \/ ~Prompt /\ job.pc = "joining" /\ Alive(job.thread)
       \/ MayFail /\ (JobJoined \/ job.pc \in {"clearing", "sweeping"})
    /\ abandoned' = abandoned \cup job.keys \cup job.now
    /\ job' = [NoJob EXCEPT !.pc = "done"] /\ ReportsFailure("branch")
    /\ UNCHANGED <<capture, archive, files, gone, threads, reset, export>>

-----------------------------------------------------------------------------
(* The archive reset worker *)

ResetMayStart == reset.pc = "joining" /\ ~Alive(reset.thread)

MarkBoundary ==
    /\ ResetMayStart
    /\ capture' = [m \in Messages |-> "old"]
    /\ reset' = [reset EXCEPT !.pc = "marked"]
    /\ UNCHANGED <<archive, files, gone, abandoned, threads, window, job, export>>

\* The threads that hold the database open.
Connected ==
    \/ \E r \in Slots : runtime[r].pc \in {"importing", "watching", "ending"} \/ Working(r)
    \/ job.pc \in {"clearing", "sweeping"}
    \/ export.pc \notin {"idle", "done"}

\* Variant: the files the registry knows.
FilesToClearVariant == {k \in files : archive.rows[k] = "cached"}

\* _clear_tree_files: every file there is.
FilesToClear == files

DeleteDatabase ==
    /\ reset.pc = "marked" /\ ~Connected
    /\ archive' = EmptyArchive
    /\ gone' = gone \cup {m \in archive.messages : capture[m] # "fresh"}
    /\ reset' = [reset EXCEPT !.pc = "clearing", !.files = FilesToClear]
    /\ UNCHANGED <<capture, files, abandoned, threads, window, job, export>>

ResetFile(k) ==
    /\ reset.pc = "clearing" /\ k \in reset.files
    /\ files' = files \ {k} /\ reset' = [reset EXCEPT !.files = @ \ {k}]
    /\ UNCHANGED <<capture, archive, gone, abandoned, threads, window, job, export>>

ResetDone ==
    /\ reset.pc = "clearing" /\ reset.files = {}
    /\ reset' = [reset EXCEPT !.pc = "reset"] /\ Reports("reset")
    /\ UNCHANGED <<data, threads, job, export>>

ResetFails ==
    /\ \/ ~Prompt /\ reset.pc = "joining" /\ Alive(reset.thread)
       \/ reset.pc = "marked" /\ Connected
       \/ MayFail /\ (ResetMayStart \/ reset.pc \in {"marked", "clearing"})
    /\ reset' = [NoReset EXCEPT !.pc = "failed"] /\ ReportsFailure("reset")
    /\ UNCHANGED <<data, threads, job, export>>

-----------------------------------------------------------------------------
(* The export worker, mode TEXT_AND_CACHE *)

ReadMessages ==
    /\ export.pc = "reading"
    /\ export' = [export EXCEPT !.pc = "attachments", !.messages = archive.messages \cap Branch]
    /\ UNCHANGED <<data, threads, window, job, reset>>

\* The attachments of these messages, as far as they are still archived.
ReadAttachments ==
    /\ export.pc = "attachments"
    /\ LET owners == export.messages \cap archive.messages
           media == {k \in Keys : HasMessage(k, owners)}
           cached == {k \in media : archive.rows[k] = "cached"}
       IN  export' = [export EXCEPT !.pc = "copying", !.owners = owners,
                                    !.todo = cached, !.missing = media \ cached]
    /\ UNCHANGED <<data, threads, window, job, reset>>

\* Variant: a cached file that is not there is not counted.
PackedVariant(e, k) ==
    [e EXCEPT !.todo = @ \ {k}, !.included = IF k \in files THEN @ \cup {k} ELSE @]

Packed(e, k) ==
    IF k \in files THEN [e EXCEPT !.todo = @ \ {k}, !.included = @ \cup {k}]
    ELSE [e EXCEPT !.todo = @ \ {k}, !.missing = @ \cup {k}]

CopyMedia(k) ==
    /\ export.pc = "copying" /\ k \in export.todo
    /\ export' = Packed(export, k)
    /\ UNCHANGED <<data, threads, window, job, reset>>

\* The ZIP is written, read back and moved to its name.
Publish ==
    /\ export.pc = "copying" /\ export.todo = {}
    /\ export' = [export EXCEPT !.pc = "done"] /\ Reports("export")
    /\ UNCHANGED <<data, threads, job, reset>>

\* Also when a file disappears between being found and being copied.
ExportFails ==
    /\ MayFail /\ export.pc \in {"reading", "attachments", "copying"}
    /\ export' = [NoExport EXCEPT !.pc = "failed"] /\ ReportsFailure("export")
    /\ UNCHANGED <<data, threads, job, reset>>

-----------------------------------------------------------------------------
RuntimeStep(r) ==
    \/ Open(r) \/ Watch(r) \/ HearStop(r) \/ RuntimeEnds(r)
    \/ \E k \in Keys : Downloaded(r, k) \/ DownloadFails(r, k)
    \/ WorkerEnds(r)

RuntimeWork(r) ==
    \/ RuntimeFails(r)
    \/ \E m \in Messages : Import(r, m)
    \/ \E k \in Keys : Claim(r, k) \/ Heal(r, k)

JobStep ==
    \/ BeginClear \/ ClearRows \/ DeleteMessages \/ JobDone \/ JobFails
    \/ \E k \in Keys : ClearFile(k) \/ SpareMedia(k) \/ UnlinkMedia(k) \/ RemoveRow(k)

ResetStep ==
    \/ MarkBoundary \/ DeleteDatabase \/ ResetDone \/ ResetFails
    \/ \E k \in Keys : ResetFile(k)

ExportStep ==
    \/ ReadMessages \/ ReadAttachments \/ Publish \/ ExportFails
    \/ \E k \in Keys : CopyMedia(k)

User ==
    \/ \E op \in {"clear", "delete"} : AskBranch(op)
    \/ AskReset \/ AskExport \/ Restart
    \/ \E k \in Keys : Sweep(k)

Next ==
    \/ \E r \in Slots : RuntimeStep(r) \/ RuntimeWork(r)
    \/ \E k \in Kinds : Deliver(k)
    \/ JobStep \/ ResetStep \/ ExportStep \/ User
    \/ \E m \in Messages : Write(m)

Spec == Init /\ [][Next]_vars

\* Threads run, and the window delivers its signals.
FairSpec ==
    /\ Spec
    /\ \A r \in Slots : WF_vars(RuntimeStep(r))
    /\ \A k \in Kinds : WF_vars(Deliver(k))
    /\ WF_vars(JobStep) /\ WF_vars(ResetStep) /\ WF_vars(ExportStep)

-----------------------------------------------------------------------------
(* Properties *)

\* The threads and files are what the code can make of them, and a flag of
\* the window is up from the user's click until the worker's report is in.
TypeOK ==
    /\ capture \in [Messages -> {"fresh", "old"}]
    /\ archive.messages \subseteq Messages /\ archive.imports \subseteq Messages
    /\ archive.rows \in [Keys -> RowStates]
    /\ files \subseteq Keys /\ abandoned \subseteq Keys /\ gone \subseteq Messages
    /\ \A r \in Slots :
         /\ runtime[r].pc \in {"none", "opening", "importing", "watching", "ending", "ended"}
         /\ runtime[r].stop \in BOOLEAN
         /\ runtime[r].media \in Keys \cup {"none", "idle", "ended"}
    /\ current \in Slots /\ busy \in [Kinds -> BOOLEAN] /\ inbox \subseteq Kinds
    /\ job.pc \in {"idle", "joining", "clearing", "sweeping", "done"}
    /\ reset.pc \in {"idle", "joining", "marked", "clearing", "reset", "failed"}
    /\ export.pc \in {"idle", "reading", "attachments", "copying", "done", "failed"}
    /\ job.keys \cup job.now \cup reset.files \subseteq Keys
    /\ busy["branch"] <=> job.pc # "idle"
    /\ busy["reset"] <=> reset.pc # "idle"
    /\ busy["export"] <=> export.pc # "idle"

\* A message the user deleted, with its branch or with the archive, does not
\* come back until the Plugin captures it again: capture_imports outlives a
\* branch, and the boundary outlives the database.
DeletedStaysDeleted == gone \cap archive.messages = {}

\* The references of an archived message lead to media rows, however
\* deletions and imports interleave.
MediaIsRegistered ==
    \A m \in archive.messages : \A k \in Uses[m] : archive.rows[k] # "none"

\* A media row no message refers to is about to be removed by the worker that
\* deleted its last message, unless that worker failed or died.
OrphansAreSwept ==
    \A k \in Keys :
        archive.rows[k] # "none" /\ ~HasMessage(k, archive.messages)
            => k \in job.keys \cup job.now \cup abandoned

\* Messages and media rows go together.
MediaFollowsMessages == MediaIsRegistered /\ OrphansAreSwept

\* A reset that reports success leaves no message, no row and no media file,
\* if the user does not work on a branch meanwhile (~Overlap).
ResetLeavesNothing ==
    reset.pc = "reset" => archive = EmptyArchive /\ files = {}

\* Some capture of the Plugin is newer than the boundary and refers to k.
Recaptured(k) == \E m \in Messages : capture[m] = "fresh" /\ k \in Uses[m]

\* Whatever the threads and the user do, what a reset that reports success
\* leaves was captured since: its messages, and the media they refer to.
ResetLeavesNothingOld ==
    reset.pc = "reset" =>
        /\ \A m \in archive.messages : capture[m] = "fresh"
        /\ \A k \in Keys : archive.rows[k] # "none" \/ k \in files => Recaptured(k)

\* A package that calls itself complete holds the media of every message
\* whose attachments were there to be read.
CompleteMeansWhole ==
    export.pc = "done" /\ export.missing = {} =>
        \A m \in export.owners : Uses[m] \subseteq export.included

\* The archive comes back to life after every maintenance: a runtime that was
\* not told to stop.
ArchiveComesBack ==
    busy["branch"] \/ busy["reset"] ~> Alive(current) /\ ~runtime[current].stop
=============================================================================
