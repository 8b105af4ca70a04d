-------------------------- MODULE Maintenance_proofs --------------------------
(***************************************************************************)
(* Proofs about Maintenance for any messages, media, branch and number of  *)
(* runtimes.                                                               *)
(*                                                                         *)
(* A deleted message stays deleted because only the window's runtime       *)
(* imports (OneRuntime) and a reset draws its boundary when no capture can *)
(* slip past it (Waiting, DeletedOK): this needs no assumption on the      *)
(* threads or the user.  What else a worker does to the archive is safe    *)
(* because it is alone: the flags let one maintenance in at a time, its    *)
(* report is the last thing it does (Turns), and a worker that has waited  *)
(* for the window's runtime has waited for them all (Stopped).  This needs *)
(* a user who does not reset the archive while a branch is worked on       *)
(* (~Overlap).  With such a user or without, what a reset leaves was       *)
(* captured after its boundary: the database can be deleted only when      *)
(* nobody has it open, and later work starts from new captures (NewInv).   *)
(***************************************************************************)
EXTENDS Maintenance, TLAPS

ThreadPcs == {"none", "opening", "importing", "watching", "ending", "ended"}
Threads == [pc : ThreadPcs, stop : BOOLEAN, media : Keys \cup {"none", "idle", "ended"}]
Archives == [messages : SUBSET Messages, imports : SUBSET Messages,
             rows : [Keys -> RowStates]]
JobPcs == {"idle", "joining", "clearing", "sweeping", "done"}
Jobs == [pc : JobPcs, op : {"clear", "delete"}, thread : 0..MaxRuntimes,
         keys : SUBSET Keys, now : SUBSET Keys]
ResetPcs == {"idle", "joining", "marked", "clearing", "reset", "failed"}
Resets == [pc : ResetPcs, thread : 0..MaxRuntimes, files : SUBSET Keys]
ExportPcs == {"idle", "reading", "attachments", "copying", "done", "failed"}
Exports == [pc : ExportPcs, messages : SUBSET Messages, owners : SUBSET Messages,
            todo : SUBSET Keys, included : SUBSET Keys, missing : SUBSET Keys]

Shapes ==
    /\ capture \in [Messages -> {"fresh", "old"}] /\ archive \in Archives
    /\ files \in SUBSET Keys /\ gone \in SUBSET Messages /\ abandoned \in SUBSET Keys
    /\ runtime \in [Slots -> Threads] /\ current \in Slots
    /\ busy \in [Kinds -> BOOLEAN] /\ inbox \in SUBSET Kinds
    /\ job \in Jobs /\ reset \in Resets /\ export \in Exports

\* A flag is up from the click until the report is in.
Flags ==
    /\ busy["branch"] <=> job.pc # "idle"
    /\ busy["reset"] <=> reset.pc # "idle"
    /\ busy["export"] <=> export.pc # "idle"
    /\ "branch" \in inbox => job.pc = "done"
    /\ "reset" \in inbox => reset.pc \in {"reset", "failed"}
    /\ "export" \in inbox => export.pc \in {"done", "failed"}

\* Only the window's runtime is alive; its media worker ends before it does,
\* if that takes no longer than others wait.
OneRuntime == \A r \in Slots : /\ Alive(r) => r = current
                               /\ Prompt /\ Working(r) => Alive(r)

\* A deletion that still waits for its thread while a reset has drawn its
\* boundary: nobody imports.
Waiting ==
    job.pc = "joining" =>
        /\ reset.pc = "joining" => reset.thread = current
        /\ reset.pc = "marked" =>
              /\ ~Alive(current)
              /\ \A m \in Messages : capture[m] = "fresh" => m \notin archive.imports

\* A deleted message is not archived, and there is no capture to import it from.
DeletedOK ==
    \A m \in gone :
        /\ m \notin archive.messages
        /\ capture[m] = "fresh" => m \in archive.imports /\ reset.pc # "marked"

ExportOK ==
    /\ export.pc \in {"copying", "done"} =>
          \A m \in export.owners : \A k \in Uses[m] :
              k \in export.included \/ k \in export.todo \/ k \in export.missing
    /\ export.pc = "done" => export.todo = {}

\* The inductive invariant, whatever threads and users do.
Base == Shapes /\ Flags /\ ExportOK
IInv == Base /\ OneRuntime /\ Waiting /\ DeletedOK

\* Maintenance comes one at a time, and waits for the window's runtime.
Turns ==
    /\ job.pc = "idle" \/ reset.pc = "idle"
    /\ job.pc = "joining" => job.thread = current
    /\ reset.pc = "joining" => reset.thread = current

JobWorks == job.pc \in {"clearing", "sweeping"}
ResetWorks == reset.pc \in {"marked", "clearing", "reset"}
Stopped == JobWorks \/ ResetWorks => ~Alive(current)

\* What is in the branch worker's hands.
JobOK ==
    /\ ~JobWorks => job.keys = {} /\ job.now = {}
    /\ job.pc = "clearing" =>
          \A k \in job.keys \cup job.now : HasMessage(k, archive.messages)
    /\ job.pc = "sweeping" => \A k \in job.now : ~HasMessage(k, archive.messages)

\* The database could be deleted, so no media worker had it open.
ResetOK ==
    /\ reset.pc \in {"clearing", "reset"} =>
          archive = EmptyArchive /\ \A r \in Slots : ~Working(r)
    /\ reset.pc = "clearing" => files \subseteq reset.files
    /\ reset.pc = "reset" => files = {}

\* What maintenance one at a time adds to it.
AloneInv == IInv /\ Turns /\ Stopped /\ JobOK /\ ResetOK /\ MediaFollowsMessages

-----------------------------------------------------------------------------
(* Types *)

LEMMA Words ==
    /\ MaxRuntimes \in Nat /\ MaxRuntimes # 0 /\ 1 \in Slots
    /\ \A r \in Slots : r \in 0..MaxRuntimes
    /\ \A k \in Keys : k # "none" /\ k # "idle" /\ k # "ended"
    /\ Branch \subseteq Messages /\ \A m \in Messages : Uses[m] \subseteq Keys
<1>1. MaxRuntimes \in Nat /\ MaxRuntimes # 0
  BY MaintenanceConstantsOK
<1>2. 1 \in Slots /\ \A r \in Slots : r \in 0..MaxRuntimes
  BY <1>1 DEF Slots
<1> QED BY <1>1, <1>2, MaintenanceConstantsOK

LEMMA NothingIsTyped ==
    /\ NoThread \in Threads /\ Started \in Threads
    /\ NoJob \in Jobs /\ NoReset \in Resets /\ NoExport \in Exports
    /\ EmptyArchive \in Archives
<1>1. NoThread \in Threads
  BY DEF NoThread, Threads, ThreadPcs
<1>2. Started \in Threads
  BY <1>1 DEF Started, Threads, ThreadPcs
<1>3. 0 \in 0..MaxRuntimes
  BY Words
<1>4. NoJob \in Jobs /\ NoReset \in Resets
  BY <1>3 DEF NoJob, Jobs, JobPcs, NoReset, Resets, ResetPcs
<1>5. NoExport \in Exports
  BY DEF NoExport, Exports, ExportPcs
<1>6. EmptyArchive \in Archives
  BY DEF EmptyArchive, Archives, RowStates
<1> QED BY <1>1, <1>2, <1>4, <1>5, <1>6

LEMMA FreshRuntimes ==
    LET fresh == [r \in Slots |-> IF r = 1 THEN Started ELSE NoThread]
    IN  /\ fresh \in [Slots -> Threads]
        /\ \A r \in Slots \ {1} : fresh[r].pc = "none" /\ fresh[r].media = "none"
        /\ fresh[1].pc = "opening" /\ fresh[1].media = "none"
<1>1. /\ Started.pc = "opening" /\ Started.media = "none"
      /\ NoThread.pc = "none" /\ NoThread.media = "none"
  BY DEF Started, NoThread
<1> QED BY <1>1, NothingIsTyped, Words

\* One thread changes.
LEMMA ThreadMoves ==
    ASSUME runtime \in [Slots -> Threads], NEW r \in Slots, NEW t \in Threads,
           runtime' = [runtime EXCEPT ![r] = t]
    PROVE  /\ runtime' \in [Slots -> Threads] /\ runtime'[r] = t
           /\ \A s \in Slots \ {r} : runtime'[s] = runtime[s]
OBVIOUS

\* One media row changes.
LEMMA RowMoves ==
    ASSUME archive \in Archives, NEW k \in Keys, NEW state \in RowStates,
           RowBecomes(k, state)
    PROVE  /\ archive' \in Archives
           /\ archive'.messages = archive.messages /\ archive'.imports = archive.imports
           /\ archive'.rows[k] = state
           /\ \A l \in Keys \ {k} : archive'.rows[l] = archive.rows[l]
           /\ state = archive.rows[k] => archive' = archive
<1> DEFINE rows == [archive.rows EXCEPT ![k] = state]
<1>1. archive' = [archive EXCEPT !.rows = rows]
  BY DEF RowBecomes
<1>2. rows \in [Keys -> RowStates]
  BY DEF Archives
<1>3. rows[k] = state /\ \A l \in Keys \ {k} : rows[l] = archive.rows[l]
  BY DEF Archives
<1>4. state = archive.rows[k] => rows = archive.rows
  BY DEF Archives
<1> HIDE DEF rows
<1> QED BY <1>1, <1>2, <1>3, <1>4 DEF Archives

-----------------------------------------------------------------------------
(* What the steps of a runtime and of its media worker do *)

\* Media rows change their states, but none comes or goes.
RowsKept ==
    /\ archive'.messages = archive.messages /\ archive'.imports = archive.imports
    /\ \A k \in Keys : archive'.rows[k] = "none" <=> archive.rows[k] = "none"

\* No thread comes to life, and a worker at work is not left behind.
Dwindles(r) ==
    /\ Alive(r)' => Alive(r)
    /\ Working(r)' => \/ Alive(r)' \/ ~Prompt
                      \/ Working(r) /\ runtime'[r].pc = runtime[r].pc

LEMMA ThreadStep ==
    ASSUME Shapes, NEW r \in Slots,
           \/ Open(r) \/ Watch(r) \/ HearStop(r) \/ RuntimeEnds(r) \/ WorkerEnds(r)
           \/ RuntimeFails(r)
    PROVE  /\ runtime' \in [Slots -> Threads] /\ Dwindles(r)
           /\ \A s \in Slots \ {r} : runtime'[s] = runtime[s]
           /\ UNCHANGED <<current, data, window, job, reset, export>>
<1> USE DEF Moves, Alive, Working, Dwindles
<1>1. runtime \in [Slots -> Threads] /\ runtime[r] \in Threads
  BY DEF Shapes
<1>2. ASSUME NEW t \in Threads, runtime' = [runtime EXCEPT ![r] = t]
      PROVE  /\ runtime' \in [Slots -> Threads] /\ runtime'[r] = t
             /\ \A s \in Slots \ {r} : runtime'[s] = runtime[s]
  BY <1>1, <1>2, ThreadMoves
<1>3. CASE Open(r) \/ HearStop(r) \/ RuntimeEnds(r)
  <2>1. PICK pc \in ThreadPcs :
          /\ runtime' = [runtime EXCEPT ![r] = [runtime[r] EXCEPT !.pc = pc]]
          /\ pc \in {"importing", "ending"} \/ (pc = "ended" /\ (Prompt => ~Working(r)))
          /\ runtime[r].pc \in {"opening", "watching", "ending"}
    BY <1>3 DEF Open, HearStop, RuntimeEnds, ThreadPcs
  <2>2. /\ [runtime[r] EXCEPT !.pc = pc] \in Threads
        /\ [runtime[r] EXCEPT !.pc = pc].pc = pc
        /\ [runtime[r] EXCEPT !.pc = pc].media = runtime[r].media
    BY <1>1 DEF Threads
  <2> QED BY <1>2, <1>3, <2>1, <2>2 DEF Open, HearStop, RuntimeEnds
<1>4. CASE Watch(r)
  <2> DEFINE t == [runtime[r] EXCEPT !.pc = "watching", !.media = "idle"]
  <2>1. t \in Threads /\ t.pc = "watching"
    BY <1>1 DEF Threads, ThreadPcs
  <2>2. runtime' = [runtime EXCEPT ![r] = t]
    BY <1>1, <1>4 DEF Watch, Threads
  <2> HIDE DEF t
  <2> QED BY <1>2, <1>4, <2>1, <2>2 DEF Watch
<1>5. CASE WorkerEnds(r)
  <2> DEFINE t == [runtime[r] EXCEPT !.media = "ended"]
  <2>1. t \in Threads /\ t.pc = runtime[r].pc /\ t.media = "ended"
    BY <1>1 DEF Threads
  <2>2. runtime' = [runtime EXCEPT ![r] = t]
    BY <1>1, <1>5 DEF WorkerEnds
  <2> HIDE DEF t
  <2> QED BY <1>2, <1>5, <2>1, <2>2 DEF WorkerEnds
<1>6. CASE RuntimeFails(r)
  <2> DEFINE t == [runtime[r] EXCEPT !.pc = "ending", !.stop = TRUE]
  <2>1. t \in Threads /\ t.pc = "ending"
    BY <1>1 DEF Threads, ThreadPcs
  <2>2. runtime' = [runtime EXCEPT ![r] = t]
    BY <1>1, <1>6 DEF RuntimeFails, Threads
  <2> HIDE DEF t
  <2> QED BY <1>2, <1>6, <2>1, <2>2 DEF RuntimeFails
<1> QED BY <1>3, <1>4, <1>5, <1>6

LEMMA WorkerStep ==
    ASSUME Shapes, NEW r \in Slots, NEW k \in Keys,
           Downloaded(r, k) \/ DownloadFails(r, k) \/ Claim(r, k) \/ Heal(r, k)
    PROVE  /\ runtime' \in [Slots -> Threads] /\ Dwindles(r) /\ Working(r)
           /\ \A s \in Slots \ {r} : runtime'[s] = runtime[s]
           /\ archive' \in Archives /\ files' \in SUBSET Keys /\ RowsKept
           /\ UNCHANGED <<capture, gone, abandoned, current, window, job, reset, export>>
<1>1. /\ runtime \in [Slots -> Threads] /\ runtime[r] \in Threads
      /\ archive \in Archives /\ files \in SUBSET Keys /\ archive.rows[k] \in RowStates
  BY DEF Shapes, Archives
<1>2. Working(r)
  BY Words DEF Working, Downloaded, DownloadFails, Claim, Heal
<1>3. PICK media \in Keys \cup {"none", "idle", "ended"} :
        runtime' = [runtime EXCEPT ![r] = [runtime[r] EXCEPT !.media = media]]
  <2>1. CASE Heal(r, k)
    <3>1. runtime[r].media \in Keys \cup {"none", "idle", "ended"}
      BY <1>1 DEF Threads
    <3>2. [runtime[r] EXCEPT !.media = runtime[r].media] = runtime[r]
      BY <1>1 DEF Threads
    <3>3. runtime' = [runtime EXCEPT ![r] = [runtime[r] EXCEPT !.media = runtime[r].media]]
      BY <1>1, <2>1, <3>2 DEF Heal, threads
    <3> QED BY <3>1, <3>3
  <2> QED BY <2>1 DEF Downloaded, DownloadFails, Claim
<1>4. /\ [runtime[r] EXCEPT !.media = media] \in Threads
      /\ [runtime[r] EXCEPT !.media = media].pc = runtime[r].pc
  BY <1>1 DEF Threads
<1>5. /\ runtime' \in [Slots -> Threads] /\ runtime'[r].pc = runtime[r].pc
      /\ \A s \in Slots \ {r} : runtime'[s] = runtime[s]
  BY <1>1, <1>3, <1>4, ThreadMoves
<1>6. PICK state \in RowStates :
        /\ RowBecomes(k, state)
        /\ state = "none" <=> archive.rows[k] = "none"
  BY <1>1 DEF Downloaded, DownloadFails, Claim, Heal, RowStates
<1>7. archive' \in Archives /\ RowsKept
  BY <1>1, <1>6, RowMoves DEF RowsKept
<1>8. /\ files' \in SUBSET Keys
      /\ UNCHANGED <<capture, gone, abandoned, current, window, job, reset, export>>
  BY <1>1 DEF Downloaded, DownloadFails, Claim, Heal, threads
<1> QED BY <1>2, <1>5, <1>7, <1>8 DEF Dwindles, Alive

LEMMA ImportStep ==
    ASSUME Shapes, NEW r \in Slots, NEW m \in Messages, Import(r, m)
    PROVE  /\ archive' \in Archives /\ Alive(r)
           /\ archive'.messages = archive.messages \cup {m}
           /\ archive'.imports = archive.imports \cup {m}
           /\ \A k \in Keys : /\ archive.rows[k] # "none" \/ k \in Uses[m] => archive'.rows[k] # "none"
                              /\ archive'.rows[k] # "none" => archive.rows[k] # "none" \/ k \in Uses[m]
           /\ UNCHANGED <<capture, files, gone, abandoned, threads, window, job, reset, export>>
<1> DEFINE rows == [k \in Keys |-> IF k \in Uses[m] /\ archive.rows[k] = "none"
                                   THEN "queued" ELSE archive.rows[k]]
<1>1. archive \in Archives
  BY DEF Shapes
<1>2. archive' = [messages |-> archive.messages \cup {m},
                  imports |-> archive.imports \cup {m}, rows |-> rows]
  BY DEF Import
<1>3. \A k \in Keys : rows[k] = IF k \in Uses[m] /\ archive.rows[k] = "none"
                               THEN "queued" ELSE archive.rows[k]
  OBVIOUS
<1>4. rows \in [Keys -> RowStates]
  BY <1>1 DEF Archives, RowStates
<1> HIDE DEF rows
<1>5. archive' \in Archives
  BY <1>1, <1>2, <1>4 DEF Archives
<1>6. \A k \in Keys : archive'.rows[k] = rows[k]
  BY <1>2
<1> QED BY <1>2, <1>3, <1>5, <1>6 DEF Import, Alive

-----------------------------------------------------------------------------
(* What the steps of the workers and of the window leave *)

\* A step of the branch worker: it goes on, or makes its report.
LEMMA JobSteps ==
    ASSUME Shapes, JobStep
    PROVE  /\ job' \in Jobs /\ archive' \in Archives /\ files' \in SUBSET Keys
           /\ gone' \in SUBSET Messages /\ abandoned' \in SUBSET Keys
           /\ job.pc \in {"joining", "clearing", "sweeping"}
           /\ \/ /\ job'.pc \in {"clearing", "sweeping"} /\ inbox' = inbox
                 /\ JobJoined \/ JobWorks
              \/ job'.pc = "done" /\ inbox' = inbox \cup {"branch"}
           /\ UNCHANGED <<capture, threads, busy, reset, export>>
<1> USE DEF JobWorks
<1>0. /\ job \in Jobs /\ archive \in Archives /\ files \in SUBSET Keys
      /\ gone \in SUBSET Messages /\ abandoned \in SUBSET Keys
      /\ job.keys \in SUBSET Keys /\ job.now \in SUBSET Keys
      /\ archive.messages \in SUBSET Messages /\ archive.rows \in [Keys -> RowStates]
  BY DEF Shapes, Jobs, Archives
<1>1. CASE BeginClear
  <2>1. PICK keys \in SUBSET Keys : job' = [job EXCEPT !.pc = "clearing", !.keys = keys]
    BY <1>0, <1>1 DEF BeginClear
  <2>2. job' \in Jobs /\ job'.pc = "clearing"
    BY <1>0, <2>1 DEF Jobs, JobPcs
  <2> QED BY <1>0, <1>1, <2>2 DEF BeginClear, JobJoined, data, window
<1>2. CASE ClearRows
  <2> DEFINE rows == [k \in Keys |-> IF k \in job.now /\ archive.rows[k] = "cached"
                                     THEN "evicted" ELSE archive.rows[k]]
  <2>1. rows \in [Keys -> RowStates] /\ archive' = [archive EXCEPT !.rows = rows]
    BY <1>0, <1>2 DEF ClearRows, RowStates
  <2> HIDE DEF rows
  <2>2. archive' \in Archives
    BY <1>0, <2>1 DEF Archives
  <2>3. job' \in Jobs /\ job'.pc = "done" /\ job.pc = "clearing"
    BY <1>0, <1>2 DEF ClearRows, Jobs, JobPcs
  <2> QED BY <1>0, <1>2, <2>2, <2>3 DEF ClearRows, Reports
<1>3. CASE DeleteMessages
  <2>1. archive' \in Archives
    BY <1>0, <1>3 DEF DeleteMessages, Deleted, Archives
  <2>2. PICK keys \in SUBSET Keys : job' = [job EXCEPT !.pc = "sweeping", !.keys = keys]
    BY <1>3 DEF DeleteMessages, Candidates
  <2>3. job' \in Jobs /\ job'.pc = "sweeping"
    BY <1>0, <2>2 DEF Jobs, JobPcs
  <2> QED BY <1>0, <1>3, <2>1, <2>3 DEF DeleteMessages, JobJoined, window
<1>4. CASE JobDone
  <2>1. job' \in Jobs /\ job'.pc = "done" /\ job.pc = "sweeping"
    BY <1>0, <1>4 DEF JobDone, Jobs, JobPcs
  <2> QED BY <1>0, <1>4, <2>1 DEF JobDone, Reports, data
<1>5. CASE JobFails
  <2>1. job' \in Jobs /\ job'.pc = "done"
    BY <1>5, NothingIsTyped DEF JobFails, Jobs, JobPcs
  <2> QED BY <1>0, <1>5, <2>1 DEF JobFails, ReportsFailure, Reports, JobJoined
<1>6. ASSUME NEW k \in Keys, ClearFile(k) \/ SpareMedia(k) \/ UnlinkMedia(k)
      PROVE  /\ job' \in Jobs /\ job'.pc = job.pc /\ files' \in SUBSET Keys
  <2>1. PICK keys, now \in SUBSET Keys : job' = [job EXCEPT !.keys = keys, !.now = now]
    <3>1. [job EXCEPT !.keys = job.keys \ {k}]
            = [job EXCEPT !.keys = job.keys \ {k}, !.now = job.now]
      BY <1>0 DEF Jobs
    <3> QED BY <1>0, <1>6, <3>1 DEF ClearFile, SpareMedia, UnlinkMedia
  <2>2. job' \in Jobs /\ job'.pc = job.pc
    BY <1>0, <2>1 DEF Jobs
  <2>3. files' \in SUBSET Keys
    BY <1>0, <1>6 DEF ClearFile, SpareMedia, UnlinkMedia, data
  <2> QED BY <2>2, <2>3
<1>7. CASE \E k \in Keys : ClearFile(k) \/ SpareMedia(k) \/ UnlinkMedia(k)
  BY <1>0, <1>6, <1>7 DEF ClearFile, SpareMedia, UnlinkMedia, data, window
<1>8. CASE \E k \in Keys : RemoveRow(k)
  <2>1. PICK k \in Keys : RemoveRow(k)
    BY <1>8
  <2>2. archive' \in Archives
    BY <1>0, <2>1, RowMoves DEF RemoveRow, RowStates
  <2>3. job' \in Jobs /\ job'.pc = "sweeping" /\ job.pc = "sweeping"
    BY <1>0, <2>1 DEF RemoveRow, Jobs
  <2> QED BY <1>0, <2>1, <2>2, <2>3 DEF RemoveRow, window
<1> QED BY <1>1, <1>2, <1>3, <1>4, <1>5, <1>7, <1>8 DEF JobStep

\* A step of the reset worker.
LEMMA ResetSteps ==
    ASSUME Shapes, ResetStep
    PROVE  /\ reset' \in Resets /\ archive' \in Archives /\ files' \in SUBSET Keys
           /\ gone' \in SUBSET Messages /\ capture' \in [Messages -> {"fresh", "old"}]
           /\ reset.pc \in {"joining", "marked", "clearing"}
           /\ \/ /\ reset'.pc \in {"marked", "clearing", "reset"}
                 /\ ResetMayStart \/ ResetWorks
              \/ reset'.pc = "failed"
           /\ \/ reset'.pc \in {"marked", "clearing"} /\ inbox' = inbox
              \/ reset'.pc \in {"reset", "failed"} /\ inbox' = inbox \cup {"reset"}
           /\ UNCHANGED <<abandoned, threads, busy, job, export>>
<1> USE DEF ResetWorks
<1>0. /\ reset \in Resets /\ archive \in Archives /\ files \in SUBSET Keys
      /\ gone \in SUBSET Messages /\ capture \in [Messages -> {"fresh", "old"}]
      /\ reset.files \in SUBSET Keys /\ archive.messages \in SUBSET Messages
  BY DEF Shapes, Resets, Archives
<1>1. CASE MarkBoundary
  <2>1. reset' \in Resets /\ reset'.pc = "marked"
    BY <1>0, <1>1 DEF MarkBoundary, Resets, ResetPcs
  <2> QED BY <1>0, <1>1, <2>1 DEF MarkBoundary, ResetMayStart, window
<1>2. CASE DeleteDatabase
  <2>1. reset' \in Resets /\ reset'.pc = "clearing"
    BY <1>0, <1>2 DEF DeleteDatabase, FilesToClear, Resets, ResetPcs
  <2> QED BY <1>0, <1>2, <2>1, NothingIsTyped DEF DeleteDatabase, window
<1>3. CASE ResetDone
  <2>1. reset' \in Resets /\ reset'.pc = "reset"
    BY <1>0, <1>3 DEF ResetDone, Resets, ResetPcs
  <2> QED BY <1>0, <1>3, <2>1 DEF ResetDone, Reports, data
<1>4. CASE ResetFails
  <2>1. reset' \in Resets /\ reset'.pc = "failed"
    BY <1>4, NothingIsTyped DEF ResetFails, Resets, ResetPcs
  <2> QED BY <1>0, <1>4, <2>1 DEF ResetFails, ReportsFailure, Reports, ResetMayStart, data
<1>5. CASE \E k \in Keys : ResetFile(k)
  <2>1. reset' \in Resets /\ reset'.pc = "clearing" /\ reset.pc = "clearing"
    BY <1>0, <1>5 DEF ResetFile, Resets
  <2> QED BY <1>0, <1>5, <2>1 DEF ResetFile, window
<1> QED BY <1>1, <1>2, <1>3, <1>4, <1>5 DEF ResetStep

\* A step of the export worker, which changes nothing but its package.
LEMMA ExportSteps ==
    ASSUME Shapes, ExportOK, ExportStep
    PROVE  /\ export' \in Exports /\ ExportOK'
           /\ export.pc \in {"reading", "attachments", "copying"}
           /\ \/ export'.pc \in {"attachments", "copying"} /\ inbox' = inbox
              \/ export'.pc \in {"done", "failed"} /\ inbox' = inbox \cup {"export"}
           /\ UNCHANGED <<data, threads, busy, job, reset>>
<1>0. /\ export \in Exports /\ export.messages \in SUBSET Messages
      /\ export.todo \in SUBSET Keys /\ archive.messages \in SUBSET Messages
      /\ export.included \in SUBSET Keys /\ export.missing \in SUBSET Keys
      /\ export.owners \in SUBSET Messages
  BY DEF Shapes, Exports, Archives
<1>1. CASE ReadMessages
  <2>1. export' \in Exports /\ export'.pc = "attachments" /\ export.pc = "reading"
    BY <1>0, <1>1 DEF ReadMessages, Exports, ExportPcs
  <2> QED BY <1>1, <2>1 DEF ReadMessages, window, ExportOK
<1>2. CASE ReadAttachments
  <2> DEFINE owners == export.messages \cap archive.messages
             media == {k \in Keys : HasMessage(k, owners)}
             cached == {k \in media : archive.rows[k] = "cached"}
  <2>1. export' = [export EXCEPT !.pc = "copying", !.owners = owners,
                                 !.todo = cached, !.missing = media \ cached]
    BY <1>2 DEF ReadAttachments
  <2>2. owners \in SUBSET Messages /\ media \in SUBSET Keys /\ cached \in SUBSET Keys
    BY <1>0
  <2>3. \A m \in owners : \A k \in Uses[m] : k \in media
    BY <1>0, Words DEF HasMessage
  <2>4. \A k \in media : k \in cached \/ k \in media \ cached
    OBVIOUS
  <2>5. export.pc = "attachments" /\ UNCHANGED <<data, threads, window, job, reset>>
    BY <1>2 DEF ReadAttachments
  <2> HIDE DEF owners, media, cached
  <2>6. /\ export' \in Exports /\ export'.pc = "copying" /\ export'.owners = owners
        /\ export'.todo = cached /\ export'.missing = media \ cached
    BY <1>0, <2>1, <2>2 DEF Exports, ExportPcs
  <2>7. ExportOK'
    BY <2>3, <2>4, <2>6 DEF ExportOK
  <2> QED BY <2>5, <2>6, <2>7 DEF window
<1>3. CASE Publish
  <2>1. /\ export' \in Exports /\ export'.pc = "done" /\ export.pc = "copying"
        /\ export'.todo = {} /\ export.todo = {} /\ export'.owners = export.owners
        /\ export'.included = export.included /\ export'.missing = export.missing
    BY <1>0, <1>3 DEF Publish, Exports, ExportPcs
  <2>2. ExportOK'
    BY <2>1 DEF ExportOK
  <2> QED BY <1>3, <2>1, <2>2 DEF Publish, Reports
<1>4. CASE ExportFails
  <2>1. export' \in Exports /\ export'.pc = "failed"
    BY <1>4, NothingIsTyped DEF ExportFails, Exports, ExportPcs
  <2> QED BY <1>4, <2>1 DEF ExportFails, ReportsFailure, Reports, ExportOK
<1>5. CASE \E k \in Keys : CopyMedia(k)
  <2>1. PICK k \in Keys : CopyMedia(k)
    BY <1>5
  <2>2. CASE k \in files
    <3>1. /\ export' \in Exports /\ export'.pc = "copying" /\ export.pc = "copying"
          /\ export'.todo = export.todo \ {k} /\ export'.owners = export.owners
          /\ export'.included = export.included \cup {k} /\ export'.missing = export.missing
      BY <1>0, <2>1, <2>2 DEF CopyMedia, Packed, Exports
    <3>2. ExportOK'
      BY <3>1 DEF ExportOK
    <3> QED BY <2>1, <3>1, <3>2 DEF CopyMedia, window
  <2>3. CASE k \notin files
    <3>1. /\ export' \in Exports /\ export'.pc = "copying" /\ export.pc = "copying"
          /\ export'.todo = export.todo \ {k} /\ export'.owners = export.owners
          /\ export'.included = export.included /\ export'.missing = export.missing \cup {k}
      BY <1>0, <2>1, <2>3 DEF CopyMedia, Packed, Exports
    <3>2. ExportOK'
      BY <3>1 DEF ExportOK
    <3> QED BY <2>1, <3>1, <3>2 DEF CopyMedia, window
  <2> QED BY <2>2, <2>3
<1> QED BY <1>1, <1>2, <1>3, <1>4, <1>5 DEF ExportStep

\* The window tells its runtime to stop.
LEMMA StopSteps ==
    ASSUME Shapes, StopCurrent
    PROVE  /\ runtime' \in [Slots -> Threads]
           /\ \A r \in Slots : /\ runtime'[r].pc = runtime[r].pc
                               /\ runtime'[r].media = runtime[r].media
<1>1. runtime \in [Slots -> Threads] /\ current \in Slots
  BY DEF Shapes
<1> DEFINE t == [runtime[current] EXCEPT !.stop = TRUE]
<1>2. TRUE \in BOOLEAN
  BY Zenon
<1>3. t \in Threads /\ t.pc = runtime[current].pc /\ t.media = runtime[current].media
  BY <1>1, <1>2 DEF Threads
<1>4. runtime' = [runtime EXCEPT ![current] = t]
  BY <1>1 DEF StopCurrent
<1> HIDE DEF t
<1> QED BY <1>1, <1>3, <1>4, ThreadMoves

\* The window starts a runtime, in a slot nobody uses.
LEMMA StartSteps ==
    ASSUME Shapes, StartRuntime
    PROVE  /\ runtime' \in [Slots -> Threads] /\ current' \in Slots
           /\ \/ Alive(current) /\ UNCHANGED threads
              \/ /\ ~Alive(current)
                 /\ runtime'[current'].pc = "opening" /\ runtime'[current'].media = "none"
                 /\ \A s \in Slots \ {current'} : runtime'[s] = runtime[s]
<1>1. runtime \in [Slots -> Threads] /\ current \in Slots
  BY DEF Shapes
<1>2. CASE Alive(current)
  BY <1>1, <1>2 DEF StartRuntime, threads
<1>3. CASE ~Alive(current)
  <2>1. PICK r \in Slots : runtime' = [runtime EXCEPT ![r] = Started] /\ current' = r
    BY <1>3 DEF StartRuntime
  <2>2. Started \in Threads /\ Started.pc = "opening" /\ Started.media = "none"
    BY NothingIsTyped DEF Started, NoThread
  <2> QED BY <1>1, <1>3, <2>1, <2>2, ThreadMoves
<1> QED BY <1>2, <1>3

\* The window delivers a report: the flag goes down, the worker's record too.
LEMMA DeliverSteps ==
    ASSUME Shapes, Flags, NEW kind \in Kinds, Deliver(kind)
    PROVE  /\ runtime' \in [Slots -> Threads] /\ current' \in Slots
           /\ kind \in inbox /\ inbox' = inbox \ {kind}
           /\ busy' \in [Kinds -> BOOLEAN] /\ ~busy'[kind]
           /\ \A k \in Kinds \ {kind} : busy'[k] = busy[k]
           /\ job' = IF kind = "branch" THEN NoJob ELSE job
           /\ reset' = IF kind = "reset" THEN NoReset ELSE reset
           /\ export' = IF kind = "export" THEN NoExport ELSE export
           /\ IF kind = "export" THEN UNCHANGED threads ELSE StartRuntime
           /\ UNCHANGED data
<1>1. busy \in [Kinds -> BOOLEAN] /\ runtime \in [Slots -> Threads] /\ current \in Slots
  BY DEF Shapes
<1>2. FALSE \in BOOLEAN
  BY Zenon
<1>3. /\ busy' \in [Kinds -> BOOLEAN] /\ ~busy'[kind]
      /\ \A k \in Kinds \ {kind} : busy'[k] = busy[k]
  BY <1>1, <1>2 DEF Deliver
<1>4. runtime' \in [Slots -> Threads] /\ current' \in Slots
  BY <1>1, StartSteps DEF Deliver, threads
<1> QED BY <1>3, <1>4 DEF Deliver

\* The user asks for maintenance: a flag goes up, nobody has reported yet.
LEMMA BeginSteps ==
    ASSUME Shapes, NEW kind \in Kinds, Begins(kind)
    PROVE  /\ busy' \in [Kinds -> BOOLEAN] /\ busy'[kind] /\ ~busy[kind]
           /\ \A k \in Kinds \ {kind} : busy'[k] = busy[k]
           /\ UNCHANGED <<data, current, inbox>>
<1>1. busy \in [Kinds -> BOOLEAN]
  BY DEF Shapes
<1>2. TRUE \in BOOLEAN
  BY Zenon
<1> QED BY <1>1, <1>2 DEF Begins

\* A worker is given its work.
LEMMA RequestSteps ==
    ASSUME Shapes
    PROVE  /\ \A op \in {"clear", "delete"} : AskBranch(op) =>
                /\ runtime' \in [Slots -> Threads]
                /\ \A r \in Slots : /\ runtime'[r].pc = runtime[r].pc
                                    /\ runtime'[r].media = runtime[r].media
                /\ job' \in Jobs /\ job'.pc = "joining" /\ job'.thread = current
                /\ job'.keys = {} /\ job'.now = {} /\ UNCHANGED <<reset, export>>
           /\ AskReset =>
                /\ runtime' \in [Slots -> Threads]
                /\ \A r \in Slots : /\ runtime'[r].pc = runtime[r].pc
                                    /\ runtime'[r].media = runtime[r].media
                /\ reset' \in Resets /\ reset'.pc = "joining" /\ reset'.thread = current
                /\ UNCHANGED <<job, export>>
           /\ AskExport =>
                /\ export' \in Exports /\ export'.pc = "reading"
                /\ UNCHANGED <<runtime, job, reset>>
<1>1. current \in Slots /\ current \in 0..MaxRuntimes
  BY Words DEF Shapes
<1>2. ASSUME NEW op \in {"clear", "delete"}, AskBranch(op)
      PROVE  /\ job' \in Jobs /\ job'.pc = "joining" /\ job'.thread = current
             /\ job'.keys = {} /\ job'.now = {}
  BY <1>1, <1>2 DEF AskBranch, NoJob, Jobs, JobPcs
<1>3. AskReset => reset' \in Resets /\ reset'.pc = "joining" /\ reset'.thread = current
  BY <1>1 DEF AskReset, NoReset, Resets, ResetPcs
<1>4. AskExport => export' \in Exports /\ export'.pc = "reading"
  BY DEF AskExport, NoExport, Exports, ExportPcs
<1> QED BY <1>2, <1>3, <1>4, StopSteps DEF AskBranch, AskReset, AskExport

-----------------------------------------------------------------------------
(* What holds however long threads take and whatever the user asks for *)

\* Every step keeps what Base says.
LEMMA WorkOfRuntimes ==
    ASSUME Base, NEW r \in Slots, RuntimeStep(r) \/ RuntimeWork(r)
    PROVE  Base'
<1>1. /\ Shapes /\ Flags /\ ExportOK
  BY DEF Base
<1>2. Shapes' /\ UNCHANGED <<window, job, reset, export>>
  <2>1. CASE \/ Open(r) \/ Watch(r) \/ HearStop(r) \/ RuntimeEnds(r) \/ WorkerEnds(r)
             \/ RuntimeFails(r)
    BY <1>1, <2>1, ThreadStep DEF Shapes, data, window
  <2>2. CASE \E k \in Keys : Downloaded(r, k) \/ DownloadFails(r, k) \/ Claim(r, k) \/ Heal(r, k)
    BY <1>1, <2>2, WorkerStep DEF Shapes, window
  <2>3. CASE \E m \in Messages : Import(r, m)
    BY <1>1, <2>3, ImportStep DEF Shapes, window, threads
  <2> QED BY <2>1, <2>2, <2>3 DEF RuntimeStep, RuntimeWork
<1>3. Flags' /\ ExportOK'
  BY <1>1, <1>2 DEF Flags, ExportOK, window
<1> QED BY <1>2, <1>3 DEF Base

LEMMA WorkOfWorkers ==
    ASSUME Base, JobStep \/ ResetStep \/ ExportStep
    PROVE  Base'
<1>1. /\ Shapes /\ Flags /\ ExportOK /\ inbox \in SUBSET Kinds
  BY DEF Base, Shapes
<1>2. CASE JobStep
  <2>1. Shapes'
    BY <1>1, <1>2, JobSteps DEF Shapes, threads, Kinds
  <2>2. Flags' /\ ExportOK'
    BY <1>1, <1>2, JobSteps DEF Flags, ExportOK
  <2> QED BY <2>1, <2>2 DEF Base
<1>3. CASE ResetStep
  <2>1. Shapes'
    BY <1>1, <1>3, ResetSteps DEF Shapes, threads, Kinds
  <2>2. Flags' /\ ExportOK'
    BY <1>1, <1>3, ResetSteps DEF Flags, ExportOK
  <2> QED BY <2>1, <2>2 DEF Base
<1>4. CASE ExportStep
  <2>1. Shapes'
    BY <1>1, <1>4, ExportSteps DEF Shapes, threads, data, Kinds
  <2>2. Flags' /\ ExportOK'
    BY <1>1, <1>4, ExportSteps DEF Flags
  <2> QED BY <2>1, <2>2 DEF Base
<1> QED BY <1>2, <1>3, <1>4

LEMMA WorkOfWindow ==
    ASSUME Base, \/ User \/ (\E k \in Kinds : Deliver(k)) \/ (\E m \in Messages : Write(m))
    PROVE  Base'
<1>1. /\ Shapes /\ Flags /\ ExportOK /\ inbox \in SUBSET Kinds
      /\ archive \in Archives /\ archive.rows \in [Keys -> RowStates]
      /\ files \in SUBSET Keys /\ gone \in SUBSET Messages /\ abandoned \in SUBSET Keys
      /\ job.keys \in SUBSET Keys /\ job.now \in SUBSET Keys
      /\ capture \in [Messages -> {"fresh", "old"}]
  BY DEF Base, Shapes, Archives, Jobs
<1>2. CASE \E op \in {"clear", "delete"} : AskBranch(op)
  <2>1. PICK op \in {"clear", "delete"} : AskBranch(op)
    BY <1>2
  <2>2. "branch" \in Kinds /\ Begins("branch")
    BY <2>1 DEF AskBranch, Kinds
  <2>3. /\ busy' \in [Kinds -> BOOLEAN] /\ busy'["branch"] /\ ~busy["branch"]
        /\ busy'["reset"] = busy["reset"] /\ busy'["export"] = busy["export"]
        /\ UNCHANGED <<data, current, inbox>>
    BY <1>1, <2>2, BeginSteps DEF Kinds
  <2>4. Shapes'
    BY <1>1, <2>1, <2>3, RequestSteps DEF Shapes, data
  <2>5. Flags' /\ ExportOK'
    BY <1>1, <2>1, <2>3, RequestSteps DEF Flags, ExportOK
  <2> QED BY <2>4, <2>5 DEF Base
<1>3. CASE AskReset
  <2>2. "reset" \in Kinds /\ Begins("reset")
    BY <1>3 DEF AskReset, Kinds
  <2>3. /\ busy' \in [Kinds -> BOOLEAN] /\ busy'["reset"] /\ ~busy["reset"]
        /\ busy'["branch"] = busy["branch"] /\ busy'["export"] = busy["export"]
        /\ UNCHANGED <<data, current, inbox>>
    BY <1>1, <2>2, BeginSteps DEF Kinds
  <2>4. Shapes'
    BY <1>1, <1>3, <2>3, RequestSteps DEF Shapes, data
  <2>5. Flags' /\ ExportOK'
    BY <1>1, <1>3, <2>3, RequestSteps DEF Flags, ExportOK
  <2> QED BY <2>4, <2>5 DEF Base
<1>4. CASE AskExport
  <2>2. "export" \in Kinds /\ Begins("export")
    BY <1>4 DEF AskExport, Kinds
  <2>3. /\ busy' \in [Kinds -> BOOLEAN] /\ busy'["export"] /\ ~busy["export"]
        /\ busy'["branch"] = busy["branch"] /\ busy'["reset"] = busy["reset"]
        /\ UNCHANGED <<data, current, inbox>>
    BY <1>1, <2>2, BeginSteps DEF Kinds
  <2>4. Shapes'
    BY <1>1, <1>4, <2>3, RequestSteps DEF Shapes, data
  <2>5. Flags' /\ ExportOK'
    BY <1>1, <1>4, <2>3, RequestSteps DEF Flags, ExportOK
  <2> QED BY <2>4, <2>5 DEF Base
<1>5. CASE Restart
  <2>1. runtime' \in [Slots -> Threads] /\ current' \in Slots
    BY <1>5, FreshRuntimes, Words DEF Restart, Fresh
  <2>2. busy' \in [Kinds -> BOOLEAN] /\ \A k \in Kinds : ~busy'[k]
    <3>1. FALSE \in BOOLEAN
      BY Zenon
    <3> QED BY <1>5, <3>1 DEF Restart, Fresh
  <2>3. /\ job' = NoJob /\ reset' = NoReset /\ export' = NoExport /\ inbox' = {}
        /\ job'.pc = "idle" /\ reset'.pc = "idle" /\ export'.pc = "idle"
    BY <1>5 DEF Restart, Fresh, NoJob, NoReset, NoExport
  <2>4. Shapes'
    BY <1>1, <1>5, <2>1, <2>2, <2>3, NothingIsTyped DEF Restart, Shapes
  <2>5. Flags' /\ ExportOK'
    BY <2>2, <2>3 DEF Flags, ExportOK, Kinds
  <2> QED BY <2>4, <2>5 DEF Base
<1>6. CASE \E k \in Keys : Sweep(k)
  <2>1. PICK k \in Keys : Sweep(k)
    BY <1>6
  <2>2. archive' \in Archives
    BY <1>1, <2>1, RowMoves DEF Sweep, RowStates
  <2>3. Shapes'
    BY <1>1, <2>1, <2>2 DEF Sweep, Shapes, threads, window
  <2>4. Flags' /\ ExportOK'
    BY <1>1, <2>1 DEF Sweep, Flags, ExportOK, window
  <2> QED BY <2>3, <2>4 DEF Base
<1>7. CASE \E k \in Kinds : Deliver(k)
  <2>1. PICK k \in Kinds : Deliver(k)
    BY <1>7
  <2>2. /\ NoJob.pc = "idle" /\ NoReset.pc = "idle" /\ NoExport.pc = "idle"
        /\ Kinds = {"branch", "reset", "export"}
    BY DEF NoJob, NoReset, NoExport, Kinds
  <2>3. Shapes'
    BY <1>1, <2>1, DeliverSteps, NothingIsTyped DEF Shapes, data
  <2>4. Flags'
    <3>1. CASE k = "branch"
      BY <1>1, <2>1, <2>2, <3>1, DeliverSteps DEF Flags
    <3>2. CASE k = "reset"
      BY <1>1, <2>1, <2>2, <3>2, DeliverSteps DEF Flags
    <3>3. CASE k = "export"
      BY <1>1, <2>1, <2>2, <3>3, DeliverSteps DEF Flags
    <3> QED BY <2>2, <3>1, <3>2, <3>3
  <2>5. ExportOK'
    BY <1>1, <2>1, <2>2, DeliverSteps DEF ExportOK
  <2> QED BY <2>3, <2>4, <2>5 DEF Base
<1>8. CASE \E m \in Messages : Write(m)
  <2>1. PICK m \in Messages : Write(m)
    BY <1>8
  <2>2. archive' \in Archives /\ capture' \in [Messages -> {"fresh", "old"}]
    BY <1>1, <2>1 DEF Write, Archives
  <2>3. Shapes'
    BY <1>1, <2>1, <2>2 DEF Write, Shapes, threads, window
  <2>4. Flags' /\ ExportOK'
    BY <1>1, <2>1 DEF Write, Flags, ExportOK, window
  <2> QED BY <2>3, <2>4 DEF Base
<1> QED BY <1>2, <1>3, <1>4, <1>5, <1>6, <1>7, <1>8 DEF User

LEMMA BaseIsKept == Base /\ [Next]_vars => Base'
<1> SUFFICES ASSUME Base, [Next]_vars PROVE Base'
  OBVIOUS
<1>1. CASE UNCHANGED vars
  <2>1. Shapes' /\ Flags' /\ ExportOK'
    BY <1>1 DEF Base, Shapes, Flags, ExportOK, vars, data, threads, window
  <2> QED BY <2>1 DEF Base
<1>2. CASE Next
  BY <1>2, WorkOfRuntimes, WorkOfWorkers, WorkOfWindow DEF Next
<1> QED BY <1>1, <1>2

LEMMA BaseAtFirst == Init => Base
<1> SUFFICES ASSUME Init PROVE Base
  OBVIOUS
<1>1. FALSE \in BOOLEAN
  BY Zenon
<1>2. busy \in [Kinds -> BOOLEAN] /\ \A k \in Kinds : ~busy[k]
  BY <1>1 DEF Init
<1>3. Shapes
  BY <1>2, FreshRuntimes, NothingIsTyped, Words DEF Init, Shapes
<1>4. Flags /\ ExportOK
  BY <1>2 DEF Init, Flags, ExportOK, Kinds, NoJob, NoReset, NoExport
<1> QED BY <1>3, <1>4 DEF Base

\* What holds of every archive and window, with no assumption on the threads
\* or the user (gui/window.py, services/export_service.py).
THEOREM BaseInvariant == Spec => []Base
<1>1. Base /\ [Next]_vars => Base'
  BY BaseIsKept
<1> QED BY <1>1, BaseAtFirst, PTL DEF Spec

\* A flag of the window is up exactly while its maintenance is under way
\* (gui/window.py, _on_maintenance_done), and every thread, file and row is in
\* a state the code knows.
THEOREM TypeCorrect == Spec => []TypeOK
<1>1. Base => TypeOK
  BY DEF Base, Shapes, Flags, TypeOK, Threads, ThreadPcs, Archives, Jobs, JobPcs,
         Resets, ResetPcs, Exports, ExportPcs
<1> QED BY <1>1, BaseInvariant, PTL

\* A package that calls itself complete has the media of every message whose
\* attachments could be read, even if the cache is swept, or the branch
\* deleted, while the files are copied (services/export_service.py).
THEOREM CompleteIsWhole == Spec => []CompleteMeansWhole
<1>1. Base => CompleteMeansWhole
  BY Words DEF Base, Shapes, Exports, ExportOK, CompleteMeansWhole
<1> QED BY <1>1, BaseInvariant, PTL

-----------------------------------------------------------------------------
(* Whatever threads and users do: one runtime, and deletions that last *)

\* No thread comes to life.
NobodyNew ==
    /\ current' = current
    /\ \A s \in Slots : /\ Alive(s)' => Alive(s)
                        /\ Prompt /\ Working(s)' => Alive(s)'

\* Nothing is imported, forgotten or captured.
NothingNew ==
    /\ archive'.messages = archive.messages /\ archive'.imports = archive.imports
    /\ UNCHANGED <<capture, gone>>

LEMMA CalmIsFine ==
    /\ OneRuntime /\ NobodyNew => OneRuntime'
    /\ DeletedOK /\ NothingNew /\ (reset'.pc = "marked" => reset.pc = "marked") => DeletedOK'
    /\ IInv /\ NobodyNew /\ NothingNew /\ UNCHANGED <<job, reset>> => Waiting'
    /\ UNCHANGED threads /\ OneRuntime => NobodyNew
<1>1. OneRuntime /\ NobodyNew => OneRuntime'
  BY DEF OneRuntime, NobodyNew
<1>2. DeletedOK /\ NothingNew /\ (reset'.pc = "marked" => reset.pc = "marked") => DeletedOK'
  BY DEF DeletedOK, NothingNew
<1>3. IInv /\ NobodyNew /\ NothingNew /\ UNCHANGED <<job, reset>> => Waiting'
  <2>1. IInv => current \in Slots
    BY DEF IInv, Base, Shapes
  <2> QED BY <2>1 DEF IInv, Waiting, NobodyNew, NothingNew
<1>4. UNCHANGED threads /\ OneRuntime => NobodyNew
  BY DEF threads, OneRuntime, NobodyNew, Alive, Working
<1> QED BY <1>1, <1>2, <1>3, <1>4

LEMMA ThreadsWaste ==
    ASSUME IInv, NEW r \in Slots,
           \/ Open(r) \/ Watch(r) \/ HearStop(r) \/ RuntimeEnds(r) \/ WorkerEnds(r)
           \/ RuntimeFails(r)
    PROVE  /\ NobodyNew /\ NothingNew /\ UNCHANGED <<data, job, reset>>
           /\ \A s \in Slots : Working(s)' => Working(s) \/ Alive(s)
<1>1. Shapes /\ OneRuntime
  BY DEF IInv, Base
<1>2. /\ Dwindles(r) /\ \A s \in Slots \ {r} : runtime'[s] = runtime[s]
      /\ UNCHANGED <<current, data, window, job, reset, export>>
  BY <1>1, ThreadStep
<1>3. \A s \in Slots : /\ Alive(s)' => Alive(s)
                       /\ Prompt /\ Working(s)' => Alive(s)'
  BY <1>1, <1>2 DEF OneRuntime, Dwindles, Alive, Working
<1>4. Working(r)' => Working(r) \/ Alive(r)
  BY <1>1 DEF Shapes, Open, Watch, HearStop, RuntimeEnds, WorkerEnds, RuntimeFails, Moves,
         Working, Alive, Threads
<1>5. \A s \in Slots : Working(s)' => Working(s) \/ Alive(s)
  BY <1>2, <1>4 DEF Working
<1> QED BY <1>2, <1>3, <1>5 DEF NobodyNew, NothingNew, data

LEMMA WorkersWork ==
    ASSUME IInv, NEW r \in Slots, NEW k \in Keys,
           Downloaded(r, k) \/ DownloadFails(r, k) \/ Claim(r, k) \/ Heal(r, k)
    PROVE  /\ NobodyNew /\ NothingNew /\ RowsKept /\ Working(r)
           /\ UNCHANGED <<abandoned, job, reset>>
           /\ \A s \in Slots : Working(s)' => Working(s)
<1>1. Shapes /\ OneRuntime
  BY DEF IInv, Base
<1>2. /\ Dwindles(r) /\ Working(r) /\ \A s \in Slots \ {r} : runtime'[s] = runtime[s]
      /\ RowsKept /\ UNCHANGED <<capture, gone, abandoned, current, window, job, reset, export>>
  BY <1>1, WorkerStep
<1>3. \A s \in Slots : /\ Alive(s)' => Alive(s)
                       /\ Prompt /\ Working(s)' => Alive(s)'
                       /\ Working(s)' => Working(s)
  BY <1>1, <1>2 DEF OneRuntime, Dwindles, Alive, Working
<1> QED BY <1>2, <1>3 DEF NobodyNew, NothingNew, RowsKept

LEMMA RuntimesAreFine ==
    ASSUME IInv, Base', NEW r \in Slots, RuntimeStep(r) \/ RuntimeWork(r)
    PROVE  IInv'
<1>1. Shapes /\ OneRuntime /\ DeletedOK /\ Waiting
  BY DEF IInv, Base
<1>2. CASE \/ Open(r) \/ Watch(r) \/ HearStop(r) \/ RuntimeEnds(r) \/ WorkerEnds(r)
           \/ RuntimeFails(r)
  BY <1>1, <1>2, ThreadsWaste, CalmIsFine DEF IInv
<1>3. CASE \E k \in Keys : Downloaded(r, k) \/ DownloadFails(r, k) \/ Claim(r, k) \/ Heal(r, k)
  BY <1>1, <1>3, WorkersWork, CalmIsFine DEF IInv
<1>4. CASE \E m \in Messages : Import(r, m)
  <2>1. PICK m \in Messages : Import(r, m)
    BY <1>4
  <2>2. /\ Alive(r)
        /\ archive'.messages = archive.messages \cup {m}
        /\ archive'.imports = archive.imports \cup {m}
        /\ UNCHANGED <<capture, gone, threads, job, reset>>
    BY <1>1, <2>1, ImportStep
  <2>3. OneRuntime'
    BY <1>1, <2>2, CalmIsFine
  <2>4. Waiting'
    BY <1>1, <2>2 DEF Waiting, OneRuntime, threads
  <2>5. m \notin gone
    BY <1>1, <2>1 DEF Import, DeletedOK
  <2>6. DeletedOK'
    BY <1>1, <2>2, <2>5 DEF DeletedOK
  <2> QED BY <2>3, <2>4, <2>6 DEF IInv
<1> QED BY <1>2, <1>3, <1>4 DEF RuntimeStep, RuntimeWork

LEMMA JobIsFine ==
    ASSUME IInv, Base', JobStep
    PROVE  IInv'
<1>1. /\ Shapes /\ OneRuntime /\ DeletedOK /\ Waiting /\ job \in Jobs /\ archive \in Archives
      /\ archive.messages \in SUBSET Messages
  BY DEF IInv, Base, Shapes, Archives
<1>2. job'.pc \in {"clearing", "sweeping", "done"} /\ UNCHANGED <<capture, threads, reset>>
  BY <1>1, JobSteps
<1>3. OneRuntime' /\ Waiting'
  BY <1>1, <1>2, CalmIsFine DEF Waiting
<1>4. CASE DeleteMessages
  <2>1. /\ archive'.messages = archive.messages \ Branch /\ archive'.imports = archive.imports
        /\ job.pc = "joining"
    BY <1>1, <1>4 DEF DeleteMessages, JobJoined, Deleted, Archives
  <2>2. ASSUME NEW m \in gone'
        PROVE  /\ m \notin archive'.messages
               /\ capture[m] = "fresh" => m \in archive.imports /\ reset.pc # "marked"
    <3>1. CASE m \in gone
      BY <1>1, <2>1, <3>1 DEF DeletedOK
    <3>2. CASE m \notin gone
      BY <1>1, <1>4, <2>1, <2>2, <3>2 DEF DeleteMessages, Waiting
    <3> QED BY <3>1, <3>2
  <2>3. DeletedOK'
    BY <1>2, <2>1, <2>2 DEF DeletedOK
  <2> QED BY <1>3, <2>3 DEF IInv
<1>5. CASE ~DeleteMessages
  <2>1. NothingNew
    <3>1. CASE ClearRows
      BY <1>1, <3>1 DEF ClearRows, NothingNew, Archives
    <3>2. CASE \E k \in Keys : RemoveRow(k)
      BY <1>1, <3>2 DEF RemoveRow, RowBecomes, NothingNew, Archives
    <3> QED BY <1>5, <3>1, <3>2 DEF JobStep, BeginClear, JobDone, JobFails, ClearFile, SpareMedia,
               UnlinkMedia, NothingNew, data
  <2> QED BY <1>1, <1>2, <1>3, <2>1, CalmIsFine DEF IInv
<1> QED BY <1>4, <1>5

LEMMA ResetIsFine ==
    ASSUME IInv, Base', ResetStep
    PROVE  IInv'
<1>1. /\ Shapes /\ OneRuntime /\ DeletedOK /\ Waiting /\ reset \in Resets
      /\ gone \in SUBSET Messages /\ current \in Slots
  BY DEF IInv, Base, Shapes
<1>2. UNCHANGED <<threads, job>>
  BY <1>1, ResetSteps
<1>3. OneRuntime'
  BY <1>1, <1>2, CalmIsFine
<1>4. CASE MarkBoundary
  <2>1. /\ reset.pc = "joining" /\ ~Alive(reset.thread)
        /\ reset'.pc = "marked" /\ \A m \in Messages : capture'[m] = "old"
        /\ UNCHANGED <<archive, gone>>
    BY <1>1, <1>4 DEF MarkBoundary, ResetMayStart, Resets
  <2>2. Waiting'
    BY <1>1, <1>2, <2>1 DEF Waiting, Alive, threads
  <2>3. DeletedOK'
    BY <1>1, <2>1 DEF DeletedOK
  <2> QED BY <1>3, <2>2, <2>3 DEF IInv
<1>5. CASE DeleteDatabase
  <2>1. /\ reset.pc = "marked" /\ reset'.pc = "clearing" /\ archive' = EmptyArchive
        /\ UNCHANGED capture
    BY <1>1, <1>5 DEF DeleteDatabase, Resets
  <2>2. \A m \in gone' : capture[m] # "fresh"
    BY <1>1, <1>5, <2>1 DEF DeleteDatabase, DeletedOK
  <2>3. DeletedOK' /\ Waiting'
    BY <2>1, <2>2 DEF DeletedOK, Waiting, EmptyArchive
  <2> QED BY <1>3, <2>3 DEF IInv
<1>6. CASE ResetDone \/ ResetFails \/ \E k \in Keys : ResetFile(k)
  <2>1. reset'.pc \in {"clearing", "reset", "failed"} /\ UNCHANGED <<capture, archive, gone>>
    BY <1>1, <1>6 DEF ResetDone, ResetFails, ResetFile, Resets, NoReset, data
  <2>2. Waiting'
    BY <2>1 DEF Waiting
  <2>3. DeletedOK'
    BY <1>1, <2>1, CalmIsFine DEF NothingNew
  <2> QED BY <1>3, <2>2, <2>3 DEF IInv
<1> QED BY <1>4, <1>5, <1>6 DEF ResetStep

LEMMA AskIsFine ==
    ASSUME IInv, Base', AskReset \/ \E op \in {"clear", "delete"} : AskBranch(op)
    PROVE  IInv'
<1>1. /\ Shapes /\ Flags /\ OneRuntime /\ DeletedOK /\ Waiting
  BY DEF IInv, Base
<1>2. /\ UNCHANGED <<data, current>> /\ reset.pc = "idle"
      /\ \A r \in Slots : /\ runtime'[r].pc = runtime[r].pc
                          /\ runtime'[r].media = runtime[r].media
      /\ \/ reset'.pc = "joining" /\ reset'.thread = current
         \/ reset' = reset
  BY <1>1, RequestSteps DEF AskReset, AskBranch, Begins, Flags
<1>3. OneRuntime'
  BY <1>1, <1>2 DEF OneRuntime, Alive, Working
<1>4. Waiting'
  BY <1>2 DEF Waiting
<1>5. DeletedOK'
  BY <1>1, <1>2, CalmIsFine DEF NothingNew, data
<1> QED BY <1>3, <1>4, <1>5 DEF IInv

LEMMA DeliverIsFine ==
    ASSUME IInv, Base', NEW kind \in Kinds, Deliver(kind)
    PROVE  IInv'
<1>1. /\ Shapes /\ Flags /\ OneRuntime /\ DeletedOK /\ Waiting /\ current \in Slots
  BY DEF IInv, Base, Shapes
<1>2. /\ job' = (IF kind = "branch" THEN NoJob ELSE job)
      /\ reset' = (IF kind = "reset" THEN NoReset ELSE reset)
      /\ IF kind = "export" THEN UNCHANGED threads ELSE StartRuntime
      /\ UNCHANGED data /\ kind \in inbox
      /\ NoJob.pc = "idle" /\ NoReset.pc = "idle" /\ Kinds = {"branch", "reset", "export"}
  BY <1>1, DeliverSteps DEF NoJob, NoReset, Kinds
<1>3. OneRuntime'
  BY <1>1, <1>2, StartSteps DEF OneRuntime, Alive, Working, threads
<1>4. DeletedOK'
  BY <1>1, <1>2, CalmIsFine DEF NothingNew, data
<1>5. Waiting'
  <2>1. CASE kind = "export"
    BY <1>1, <1>2, <2>1 DEF Waiting, threads, data, Alive
  <2>2. CASE kind # "export"
    BY <1>1, <1>2, <2>2 DEF Waiting
  <2> QED BY <2>1, <2>2
<1> QED BY <1>3, <1>4, <1>5 DEF IInv

LEMMA OthersAreFine ==
    ASSUME IInv, Base', \/ ExportStep \/ AskExport \/ Restart
                        \/ (\E k \in Keys : Sweep(k)) \/ \E m \in Messages : Write(m)
    PROVE  IInv'
<1>1. /\ Shapes /\ ExportOK /\ OneRuntime /\ DeletedOK /\ Waiting /\ archive \in Archives
      /\ capture \in [Messages -> {"fresh", "old"}] /\ gone \in SUBSET Messages
  BY DEF IInv, Base, Shapes
<1>2. CASE ExportStep \/ AskExport
  <2>1. UNCHANGED <<data, threads, job, reset>>
    BY <1>1, <1>2, ExportSteps DEF AskExport, Begins, threads
  <2> QED BY <1>1, <2>1, CalmIsFine DEF NothingNew, data, IInv
<1>3. CASE Restart
  <2>1. OneRuntime'
    BY <1>3, FreshRuntimes, Words DEF Restart, Fresh, OneRuntime, Alive, Working
  <2>2. Waiting' /\ DeletedOK'
    BY <1>1, <1>3 DEF Restart, Fresh, NoJob, NoReset, Waiting, DeletedOK
  <2> QED BY <2>1, <2>2 DEF IInv
<1>4. CASE \E k \in Keys : Sweep(k)
  <2>1. NothingNew /\ UNCHANGED <<threads, job, reset>>
    BY <1>1, <1>4 DEF Sweep, RowBecomes, NothingNew, Archives
  <2> QED BY <1>1, <2>1, CalmIsFine DEF IInv
<1>5. CASE \E m \in Messages : Write(m)
  <2>1. PICK m \in Messages : Write(m)
    BY <1>5
  <2>2. /\ archive'.messages = archive.messages /\ archive'.imports = archive.imports \ {m}
        /\ gone' = gone \ {m} /\ \A n \in Messages \ {m} : capture'[n] = capture[n]
        /\ UNCHANGED <<threads, job, reset>>
    BY <1>1, <2>1 DEF Write, Archives
  <2>3. OneRuntime'
    BY <1>1, <2>2, CalmIsFine
  <2>4. Waiting' /\ DeletedOK'
    BY <1>1, <2>2 DEF Waiting, DeletedOK, threads, Alive
  <2> QED BY <2>3, <2>4 DEF IInv
<1> QED BY <1>2, <1>3, <1>4, <1>5

LEMMA IInvIsKept == IInv /\ [Next]_vars => IInv'
<1> SUFFICES ASSUME IInv, [Next]_vars PROVE IInv'
  OBVIOUS
<1>1. Base'
  BY BaseIsKept DEF IInv
<1>2. CASE UNCHANGED vars
  <2>1. UNCHANGED <<data, threads, job, reset>>
    BY <1>2 DEF vars
  <2> QED BY <1>1, <2>1, CalmIsFine DEF NothingNew, data, IInv
<1>3. CASE Next
  BY <1>1, <1>3, RuntimesAreFine, JobIsFine, ResetIsFine, AskIsFine, DeliverIsFine,
     OthersAreFine DEF Next, User
<1> QED BY <1>2, <1>3

LEMMA IInvAtFirst == Init => IInv
<1> SUFFICES ASSUME Init PROVE IInv
  OBVIOUS
<1>1. Base
  BY BaseAtFirst
<1>2. OneRuntime
  BY FreshRuntimes, Words DEF Init, OneRuntime, Alive, Working
<1>3. Waiting /\ DeletedOK
  BY DEF Init, NoJob, Waiting, DeletedOK
<1> QED BY <1>1, <1>2, <1>3 DEF IInv

\* One archive runtime at most is alive, the window's (gui/window.py,
\* _start_runtime), and what it may import is never what the user deleted.
THEOREM Invariant == Spec => []IInv
BY IInvIsKept, IInvAtFirst, PTL DEF Spec

\* A message the user deleted does not come back until the Plugin captures it
\* again, whatever is imported before and after the deletion, even if the
\* archive is reset meanwhile and threads outlive the time others wait for
\* them (services/branch_maintenance_service.py, archive_reset_service.py).
THEOREM DeletedMessagesStay == Spec => []DeletedStaysDeleted
<1>1. IInv => DeletedStaysDeleted
  BY DEF IInv, DeletedOK, DeletedStaysDeleted
<1> QED BY <1>1, Invariant, PTL

-----------------------------------------------------------------------------
(* Maintenance one at a time *)

\* A step beside the maintenance: rows and files change, no row comes or goes,
\* and a reset archive is left alone.
Quiet ==
    /\ NobodyNew /\ NothingNew /\ RowsKept /\ UNCHANGED <<abandoned, job, reset>>
    /\ reset.pc \in {"clearing", "reset"} =>
          /\ archive' = archive /\ files' \subseteq files
          /\ \A s \in Slots : Working(s)' => Working(s)

LEMMA QuietIsAlone == AloneInv /\ Quiet /\ IInv' => AloneInv'
<1> SUFFICES ASSUME AloneInv, Quiet, IInv' PROVE AloneInv'
  OBVIOUS
<1>1. Turns' /\ ResetOK'
  BY DEF AloneInv, Quiet, NobodyNew, Turns, ResetOK
<1>2. Stopped'
  <2>1. current \in Slots
    BY DEF AloneInv, IInv, Base, Shapes
  <2> QED BY <2>1 DEF AloneInv, Quiet, NobodyNew, Stopped, JobWorks, ResetWorks
<1>3. JobOK'
  BY DEF AloneInv, Quiet, RowsKept, JobOK, JobWorks, HasMessage
<1>4. MediaFollowsMessages'
  <2>1. archive.messages \in SUBSET Messages
    BY DEF AloneInv, IInv, Base, Shapes, Archives
  <2> QED BY <2>1, Words DEF AloneInv, Quiet, RowsKept, MediaFollowsMessages, MediaIsRegistered,
        OrphansAreSwept, HasMessage
<1> QED BY <1>1, <1>2, <1>3, <1>4 DEF AloneInv

\* While a reset works, nothing is at work in a runtime.
LEMMA NobodyWorks ==
    ASSUME AloneInv, NEW r \in Slots
    PROVE  /\ JobWorks \/ ResetWorks => ~Alive(r)
           /\ reset.pc \in {"clearing", "reset"} => ~Working(r) /\ ~Alive(r)
BY DEF AloneInv, IInv, Stopped, OneRuntime, ResetOK, ResetWorks

LEMMA RuntimesAreAlone ==
    ASSUME AloneInv, IInv', NEW r \in Slots, RuntimeStep(r) \/ RuntimeWork(r)
    PROVE  AloneInv'
<1>1. IInv /\ Shapes /\ archive.messages \in SUBSET Messages
  BY DEF AloneInv, IInv, Base, Shapes, Archives
<1>2. CASE \/ Open(r) \/ Watch(r) \/ HearStop(r) \/ RuntimeEnds(r) \/ WorkerEnds(r)
           \/ RuntimeFails(r)
  <2>1. /\ NobodyNew /\ NothingNew /\ UNCHANGED <<data, job, reset>>
        /\ \A s \in Slots : Working(s)' => Working(s) \/ Alive(s)
    BY <1>1, <1>2, ThreadsWaste
  <2>2. Quiet
    BY <2>1, NobodyWorks DEF Quiet, RowsKept, data
  <2> QED BY <2>2, QuietIsAlone
<1>3. CASE \E k \in Keys : Downloaded(r, k) \/ DownloadFails(r, k) \/ Claim(r, k) \/ Heal(r, k)
  <2>1. /\ NobodyNew /\ NothingNew /\ RowsKept /\ Working(r)
        /\ UNCHANGED <<abandoned, job, reset>>
    BY <1>1, <1>3, WorkersWork
  <2>2. Quiet
    BY <2>1, NobodyWorks DEF Quiet
  <2> QED BY <2>2, QuietIsAlone
<1>4. CASE \E m \in Messages : Import(r, m)
  <2>1. PICK m \in Messages : Import(r, m)
    BY <1>4
  <2>2. /\ Alive(r) /\ archive'.messages = archive.messages \cup {m}
        /\ \A k \in Keys : /\ archive.rows[k] # "none" \/ k \in Uses[m] => archive'.rows[k] # "none"
                           /\ archive'.rows[k] # "none" => archive.rows[k] # "none" \/ k \in Uses[m]
        /\ UNCHANGED <<files, abandoned, threads, job, reset>>
    BY <1>1, <2>1, ImportStep
  <2>3. ~JobWorks /\ ~ResetWorks
    BY <2>2, NobodyWorks
  <2>4. Turns' /\ Stopped' /\ JobOK' /\ ResetOK'
    BY <2>2, <2>3 DEF AloneInv, Turns, Stopped, JobOK, ResetOK, JobWorks, ResetWorks, threads
  <2>5. MediaIsRegistered'
    BY <1>1, <2>2, Words DEF AloneInv, MediaFollowsMessages, MediaIsRegistered
  <2>6. ASSUME NEW k \in Keys, archive'.rows[k] # "none", ~HasMessage(k, archive'.messages)
        PROVE  k \in job.keys \cup job.now \cup abandoned
    <3>1. k \notin Uses[m] /\ ~HasMessage(k, archive.messages)
      BY <2>2, <2>6 DEF HasMessage
    <3> QED BY <2>2, <2>6, <3>1 DEF AloneInv, MediaFollowsMessages, OrphansAreSwept
  <2>7. OrphansAreSwept'
    BY <2>2, <2>6 DEF OrphansAreSwept
  <2> QED BY <2>4, <2>5, <2>7 DEF AloneInv, MediaFollowsMessages
<1> QED BY <1>2, <1>3, <1>4 DEF RuntimeStep, RuntimeWork

\* The messages and rows stay, and nothing that is owed to them is forgotten.
LEMMA NothingElseMoves ==
    ASSUME AloneInv, archive'.messages = archive.messages, archive'.rows = archive.rows,
           job.keys \cup job.now \cup abandoned
             \subseteq (job.keys \cup job.now \cup abandoned)'
    PROVE  MediaFollowsMessages'
BY DEF AloneInv, MediaFollowsMessages, MediaIsRegistered, OrphansAreSwept, HasMessage

LEMMA AskIsAlone ==
    ASSUME AloneInv, IInv', ~Overlap,
           AskReset \/ \E op \in {"clear", "delete"} : AskBranch(op)
    PROVE  AloneInv'
<1>1. Shapes /\ Flags
  BY DEF AloneInv, IInv, Base
<1>2. CASE \E op \in {"clear", "delete"} : AskBranch(op)
  <2>1. PICK op \in {"clear", "delete"} : AskBranch(op)
    BY <1>2
  <2>2. UNCHANGED <<data, current>> /\ job.pc = "idle" /\ reset.pc = "idle"
    BY <1>1, <2>1 DEF AskBranch, Begins, Flags
  <2>3. /\ job'.pc = "joining" /\ job'.thread = current
        /\ job'.keys = {} /\ job'.now = {} /\ UNCHANGED reset
    BY <1>1, <2>1, RequestSteps
  <2>4. Turns' /\ Stopped' /\ JobOK' /\ ResetOK'
    BY <2>2, <2>3 DEF Turns, Stopped, JobWorks, ResetWorks, JobOK, ResetOK
  <2>5. MediaFollowsMessages'
    BY <2>2, <2>3, NothingElseMoves DEF AloneInv, JobOK, JobWorks, data
  <2> QED BY <2>4, <2>5 DEF AloneInv
<1>3. CASE AskReset
  <2>1. UNCHANGED <<data, current>> /\ job.pc = "idle" /\ reset.pc = "idle"
    BY <1>1, <1>3 DEF AskReset, Begins, Flags
  <2>2. /\ reset'.pc = "joining" /\ reset'.thread = current /\ UNCHANGED job
    BY <1>1, <1>3, RequestSteps
  <2>3. Turns' /\ Stopped' /\ JobOK' /\ ResetOK'
    BY <2>1, <2>2 DEF AloneInv, Turns, Stopped, JobWorks, ResetWorks, JobOK, ResetOK
  <2>4. MediaFollowsMessages'
    BY <2>1, <2>2, NothingElseMoves DEF data
  <2> QED BY <2>3, <2>4 DEF AloneInv
<1> QED BY <1>2, <1>3

LEMMA OthersAreAlone ==
    ASSUME AloneInv, IInv', \/ ExportStep \/ AskExport \/ Deliver("export") \/ Restart
                            \/ (\E k \in Keys : Sweep(k)) \/ \E m \in Messages : Write(m)
    PROVE  AloneInv'
<1>1. /\ Shapes /\ ExportOK /\ OneRuntime /\ archive \in Archives
  BY DEF AloneInv, IInv, Base, Shapes
<1>2. CASE ExportStep \/ AskExport \/ Deliver("export")
  <2>1. UNCHANGED <<data, threads, job, reset>>
    BY <1>1, <1>2, ExportSteps DEF AskExport, Begins, Deliver, threads
  <2>2. Quiet
    BY <1>1, <2>1, CalmIsFine DEF Quiet, RowsKept, NothingNew, data, threads, Working
  <2> QED BY <2>2, QuietIsAlone
<1>3. CASE Restart
  <2>1. /\ job'.pc = "idle" /\ reset'.pc = "idle" /\ job'.keys = {} /\ job'.now = {}
    BY <1>3 DEF Restart, Fresh, NoJob, NoReset
  <2>2. Turns' /\ Stopped' /\ JobOK' /\ ResetOK'
    BY <2>1 DEF Turns, Stopped, JobWorks, ResetWorks, JobOK, ResetOK
  <2>3. MediaFollowsMessages'
    BY <1>3, NothingElseMoves DEF Restart
  <2> QED BY <2>2, <2>3 DEF AloneInv
<1>4. CASE \E k \in Keys : Sweep(k)
  <2>1. PICK k \in Keys : Sweep(k)
    BY <1>4
  <2>2. PICK state \in RowStates :
          /\ RowBecomes(k, state)
          /\ state = "none" <=> archive.rows[k] = "none"
    BY <1>1, <2>1 DEF Sweep, Archives, RowStates
  <2>3. /\ RowsKept
        /\ archive.rows[k] = "none" => archive' = archive
    BY <1>1, <2>2, RowMoves DEF RowsKept
  <2>4. EmptyArchive.rows[k] = "none"
    BY DEF EmptyArchive
  <2>5. reset.pc \in {"clearing", "reset"} => archive' = archive /\ files' \subseteq files
    BY <2>1, <2>3, <2>4 DEF AloneInv, ResetOK, Sweep
  <2>6. Quiet
    BY <1>1, <2>1, <2>3, <2>5, CalmIsFine DEF Quiet, NothingNew, RowsKept, Sweep, threads, Working
  <2> QED BY <2>6, QuietIsAlone
<1>5. CASE \E m \in Messages : Write(m)
  <2>1. PICK m \in Messages : Write(m)
    BY <1>5
  <2>2. /\ archive'.messages = archive.messages /\ archive'.rows = archive.rows
        /\ UNCHANGED <<files, abandoned, threads, job, reset>>
    BY <1>1, <2>1 DEF Write, Archives
  <2>3. archive = EmptyArchive => archive' = archive
    BY <1>1, <2>1 DEF Write, Archives, EmptyArchive
  <2>4. Turns' /\ Stopped' /\ ResetOK'
    BY <2>2, <2>3 DEF AloneInv, Turns, Stopped, ResetOK, JobWorks, ResetWorks, Alive, Working,
                      threads
  <2>5. JobOK'
    BY <2>2 DEF AloneInv, JobOK, JobWorks
  <2>6. MediaFollowsMessages'
    BY <2>2, NothingElseMoves
  <2> QED BY <2>4, <2>5, <2>6 DEF AloneInv
<1> QED BY <1>2, <1>3, <1>4, <1>5

\* A report is the last thing its worker does: the new runtime meets nobody.
LEMMA DeliverIsAlone ==
    ASSUME AloneInv, IInv', NEW kind \in {"branch", "reset"}, Deliver(kind)
    PROVE  AloneInv'
<1>1. Shapes /\ Flags /\ kind \in Kinds
  BY DEF AloneInv, IInv, Base, Kinds
<1>2. /\ job' = (IF kind = "branch" THEN NoJob ELSE job)
      /\ reset' = (IF kind = "reset" THEN NoReset ELSE reset)
      /\ UNCHANGED data /\ kind \in inbox
  BY <1>1, DeliverSteps
<1>3. /\ NoJob.pc = "idle" /\ NoJob.keys = {} /\ NoJob.now = {} /\ NoReset.pc = "idle"
  BY DEF NoJob, NoReset
<1>4. /\ job'.pc = "idle" /\ reset'.pc = "idle" /\ job'.keys = {} /\ job'.now = {}
      /\ job.keys = {} /\ job.now = {}
  <2>1. CASE kind = "branch"
    BY <1>1, <1>2, <1>3, <2>1 DEF Flags, AloneInv, Turns, JobOK, JobWorks
  <2>2. CASE kind = "reset"
    BY <1>1, <1>2, <1>3, <2>2 DEF Flags, AloneInv, Turns, JobOK, JobWorks
  <2> QED BY <2>1, <2>2
<1>5. Turns' /\ Stopped' /\ JobOK' /\ ResetOK'
  BY <1>4 DEF Turns, Stopped, JobWorks, ResetWorks, JobOK, ResetOK
<1>6. MediaFollowsMessages'
  BY <1>2, <1>4, NothingElseMoves DEF data
<1> QED BY <1>5, <1>6 DEF AloneInv

\* What every step of the branch worker leaves true: it is alone.
LEMMA JobIsAlone ==
    ASSUME AloneInv, JobStep
    PROVE  Turns' /\ Stopped' /\ ResetOK' /\ reset.pc = "idle"
<1>1. Shapes /\ current \in Slots
  BY DEF AloneInv, IInv, Base, Shapes
<1>2. /\ job.pc \in {"joining", "clearing", "sweeping"}
      /\ (job'.pc \in {"clearing", "sweeping"} /\ (JobJoined \/ JobWorks)) \/ job'.pc = "done"
      /\ UNCHANGED <<threads, reset>>
  BY <1>1, JobSteps
<1>3. reset.pc = "idle"
  BY <1>2 DEF AloneInv, Turns
<1>4. JobJoined \/ JobWorks => ~Alive(current)
  BY <1>2 DEF AloneInv, Turns, Stopped, JobJoined, JobWorks
<1> QED BY <1>2, <1>3, <1>4 DEF AloneInv, Turns, Stopped, ResetOK, JobWorks,
          ResetWorks, Alive, Working, threads

\* Clearing takes nothing away that has no message.
LEMMA ClearingIsAlone ==
    ASSUME AloneInv, IInv',
           BeginClear \/ ClearRows \/ \E k \in Keys : ClearFile(k)
    PROVE  AloneInv'
<1>1. Turns' /\ Stopped' /\ ResetOK' /\ reset.pc = "idle"
  BY JobIsAlone DEF JobStep
<1>2. /\ job \in Jobs /\ archive \in Archives /\ job.keys \in SUBSET Keys
      /\ job.now \in SUBSET Keys
  BY DEF AloneInv, IInv, Base, Shapes, Jobs
<1>3. UNCHANGED <<capture, gone, abandoned, reset>> /\ RowsKept
  <2>1. CASE ClearRows
    <3> DEFINE rows == [k \in Keys |-> IF k \in job.now /\ archive.rows[k] = "cached"
                                       THEN "evicted" ELSE archive.rows[k]]
    <3>1. archive' = [archive EXCEPT !.rows = rows]
      BY <2>1 DEF ClearRows
    <3>2. \A k \in Keys : rows[k] = "none" <=> archive.rows[k] = "none"
      OBVIOUS
    <3> HIDE DEF rows
    <3>3. RowsKept
      BY <1>2, <3>1, <3>2 DEF RowsKept, Archives
    <3> QED BY <2>1, <3>3 DEF ClearRows
  <2>2. CASE BeginClear \/ \E k \in Keys : ClearFile(k)
    BY <2>2 DEF BeginClear, ClearFile, data, RowsKept
  <2> QED BY <2>1, <2>2
<1>4. CASE BeginClear
  <2>1. /\ job'.pc = "clearing" /\ job'.now = {} /\ job.keys = {} /\ job.now = {}
        /\ archive' = archive
        /\ \A k \in job'.keys : HasMessage(k, archive.messages)
    BY <1>2, <1>4 DEF BeginClear, JobJoined, Jobs, AloneInv, JobOK, JobWorks, data, HasMessage
  <2>2. JobOK'
    BY <2>1 DEF JobOK, JobWorks
  <2>3. MediaFollowsMessages'
    BY <1>3, <2>1, NothingElseMoves
  <2> QED BY <1>1, <2>2, <2>3 DEF AloneInv
<1>5. CASE ClearRows
  <2>1. /\ job'.pc = "done" /\ job'.now = {} /\ job'.keys = {} /\ job.keys = {}
        /\ job.pc = "clearing"
    BY <1>2, <1>5 DEF ClearRows, Jobs
  <2>2. JobOK'
    BY <2>1 DEF JobOK, JobWorks
  <2>3. MediaFollowsMessages'
    <3>1. \A k \in job.keys \cup job.now : HasMessage(k, archive.messages)
      BY <2>1 DEF AloneInv, JobOK
    <3>2. MediaIsRegistered'
      <4>1. archive.messages \in SUBSET Messages
        BY <1>2 DEF Archives
      <4> QED BY <1>3, <4>1, Words DEF RowsKept, AloneInv, MediaFollowsMessages, MediaIsRegistered
    <3>3. OrphansAreSwept'
      BY <1>3, <3>1 DEF RowsKept, AloneInv, MediaFollowsMessages, OrphansAreSwept
    <3> QED BY <3>2, <3>3 DEF MediaFollowsMessages
  <2> QED BY <1>1, <2>2, <2>3 DEF AloneInv
<1>6. CASE \E k \in Keys : ClearFile(k)
  <2>1. PICK k \in Keys : ClearFile(k)
    BY <1>6
  <2>2. /\ job.pc = "clearing" /\ job'.pc = "clearing" /\ archive' = archive
        /\ job'.keys = job.keys \ {k} /\ k \in job.keys
        /\ job'.now = job.now \/ job'.now = job.now \cup {k}
    BY <1>2, <2>1 DEF ClearFile, Jobs
  <2>3. \A l \in job.keys \cup job.now : HasMessage(l, archive.messages)
    BY <2>2 DEF AloneInv, JobOK
  <2>4. JobOK'
    BY <2>2, <2>3 DEF JobOK, JobWorks
  <2>5. MediaFollowsMessages'
    BY <1>3, <2>2, <2>3 DEF AloneInv, MediaFollowsMessages, MediaIsRegistered, OrphansAreSwept
  <2> QED BY <1>1, <2>4, <2>5 DEF AloneInv
<1> QED BY <1>4, <1>5, <1>6

\* Deletion: the messages at once, with every medium that may have lost its
\* last one as a candidate.
LEMMA DeletionIsAlone ==
    ASSUME AloneInv, IInv', DeleteMessages
    PROVE  AloneInv'
<1>1. Turns' /\ Stopped' /\ ResetOK' /\ reset.pc = "idle"
  BY JobIsAlone DEF JobStep
<1>2. /\ job \in Jobs /\ archive \in Archives /\ archive.messages \in SUBSET Messages
  BY DEF AloneInv, IInv, Base, Shapes, Archives
<1>3. /\ job'.pc = "sweeping" /\ job'.keys = Candidates(archive) /\ job'.now = job.now
      /\ job.keys = {} /\ job.now = {}
      /\ archive'.messages = archive.messages \ Branch
      /\ archive'.rows = archive.rows /\ UNCHANGED abandoned
  BY <1>2 DEF DeleteMessages, JobJoined, Jobs, AloneInv, JobOK, JobWorks, Deleted, Archives
<1>4. JobOK'
  BY <1>3 DEF JobOK, JobWorks
<1>5. MediaIsRegistered'
  BY <1>3 DEF AloneInv, MediaFollowsMessages, MediaIsRegistered
<1>6. OrphansAreSwept'
  <2>1. ASSUME NEW k \in Keys, archive.rows[k] # "none",
               ~HasMessage(k, archive.messages \ Branch)
        PROVE  k \in Candidates(archive) \cup abandoned
    <3>1. CASE HasMessage(k, archive.messages)
      BY <2>1, <3>1 DEF HasMessage, Candidates
    <3>2. CASE ~HasMessage(k, archive.messages)
      BY <1>3, <2>1, <3>2 DEF AloneInv, MediaFollowsMessages, OrphansAreSwept
    <3> QED BY <3>1, <3>2
  <2> QED BY <1>3, <2>1 DEF OrphansAreSwept
<1> QED BY <1>1, <1>4, <1>5, <1>6 DEF AloneInv, MediaFollowsMessages

\* The candidates one by one: spared, or unlinked and then removed.
LEMMA SweepingIsAlone ==
    ASSUME AloneInv, IInv',
           JobDone \/ \E k \in Keys : SpareMedia(k) \/ UnlinkMedia(k) \/ RemoveRow(k)
    PROVE  AloneInv'
<1>1. Turns' /\ Stopped' /\ ResetOK' /\ reset.pc = "idle"
  BY JobIsAlone DEF JobStep
<1>2. /\ job \in Jobs /\ archive \in Archives /\ archive.messages \in SUBSET Messages
      /\ \A m \in Messages : Uses[m] \subseteq Keys
  BY Words DEF AloneInv, IInv, Base, Shapes, Archives
<1>3. CASE JobDone \/ \E k \in Keys : SpareMedia(k) \/ UnlinkMedia(k)
  <2>1. UNCHANGED <<capture, archive, gone, abandoned, reset>>
    BY <1>3 DEF JobDone, SpareMedia, UnlinkMedia, data
  <2>2. JobOK' /\ MediaFollowsMessages'
    <3>1. CASE JobDone
      <4>1. job'.pc = "done" /\ job'.keys = job.keys /\ job'.now = job.now
        BY <1>2, <3>1 DEF JobDone, Jobs
      <4>2. JobOK'
        BY <3>1, <4>1 DEF JobDone, JobOK, JobWorks
      <4>3. MediaFollowsMessages'
        BY <2>1, <4>1, NothingElseMoves
      <4> QED BY <4>2, <4>3
    <3>2. CASE \E k \in Keys : SpareMedia(k)
      <4>1. PICK k \in Keys : SpareMedia(k)
        BY <3>2
      <4>2. /\ job'.pc = "sweeping" /\ job'.keys = job.keys \ {k} /\ job'.now = {}
            /\ job.now = {} /\ HasMessage(k, archive.messages)
        BY <1>2, <4>1 DEF SpareMedia, StillReferenced, Jobs
      <4>3. JobOK'
        BY <4>2 DEF JobOK, JobWorks
      <4>4. MediaFollowsMessages'
        BY <2>1, <4>2 DEF AloneInv, MediaFollowsMessages, MediaIsRegistered, OrphansAreSwept
      <4> QED BY <4>3, <4>4
    <3>3. CASE \E k \in Keys : UnlinkMedia(k)
      <4>1. PICK k \in Keys : UnlinkMedia(k)
        BY <3>3
      <4>2. /\ job'.pc = "sweeping" /\ job'.keys = job.keys \ {k} /\ job'.now = {k}
            /\ job.now = {} /\ ~HasMessage(k, archive.messages)
        BY <1>2, <4>1 DEF UnlinkMedia, StillReferenced, Jobs
      <4>3. JobOK'
        BY <2>1, <4>2 DEF JobOK, JobWorks
      <4>4. MediaFollowsMessages'
        BY <2>1, <4>2, NothingElseMoves
      <4> QED BY <4>3, <4>4
    <3> QED BY <1>3, <3>1, <3>2, <3>3
  <2> QED BY <1>1, <2>2 DEF AloneInv
<1>4. CASE \E k \in Keys : RemoveRow(k)
  <2>1. PICK k \in Keys : RemoveRow(k)
    BY <1>4
  <2>2. /\ job.pc = "sweeping" /\ job'.pc = "sweeping" /\ job'.keys = job.keys
        /\ job'.now = {} /\ job.now = {k} /\ UNCHANGED <<capture, gone, abandoned, reset>>
    BY <1>2, <2>1 DEF RemoveRow, Jobs
  <2>3. /\ archive'.messages = archive.messages /\ archive'.imports = archive.imports
        /\ archive'.rows[k] = "none"
        /\ \A l \in Keys \ {k} : archive'.rows[l] = archive.rows[l]
    BY <1>2, <2>1, RowMoves DEF RemoveRow, RowStates
  <2>4. ~HasMessage(k, archive.messages)
    BY <2>2 DEF AloneInv, JobOK
  <2>5. JobOK'
    BY <2>2 DEF JobOK, JobWorks
  <2>6. MediaIsRegistered'
    BY <1>2, <2>3, <2>4 DEF AloneInv, MediaFollowsMessages, MediaIsRegistered, HasMessage
  <2>7. OrphansAreSwept'
    BY <2>2, <2>3 DEF AloneInv, MediaFollowsMessages, OrphansAreSwept
  <2> QED BY <1>1, <2>5, <2>6, <2>7 DEF AloneInv, MediaFollowsMessages
<1> QED BY <1>3, <1>4

\* A worker that fails leaves what it had to do to nobody.
LEMMA FailureIsAlone ==
    ASSUME AloneInv, IInv', JobFails
    PROVE  AloneInv'
<1>1. Turns' /\ Stopped' /\ ResetOK' /\ reset.pc = "idle"
  BY JobIsAlone DEF JobStep
<1>2. job'.pc = "done" /\ job'.keys = {} /\ job'.now = {}
  BY DEF JobFails, NoJob
<1>3. JobOK'
  BY <1>2 DEF JobOK, JobWorks
<1>4. MediaFollowsMessages'
  BY NothingElseMoves DEF JobFails
<1> QED BY <1>1, <1>3, <1>4 DEF AloneInv

LEMMA ResetIsAlone ==
    ASSUME AloneInv, IInv', ResetStep
    PROVE  AloneInv'
<1>1. Shapes /\ current \in Slots /\ reset \in Resets
  BY DEF AloneInv, IInv, Base, Shapes
<1>2. /\ reset.pc \in {"joining", "marked", "clearing"}
      /\ \/ /\ reset'.pc \in {"marked", "clearing", "reset"}
            /\ ResetMayStart \/ ResetWorks
         \/ reset'.pc = "failed"
      /\ UNCHANGED <<abandoned, threads, job>>
  BY <1>1, ResetSteps
<1>3. job.pc = "idle" /\ job.keys = {} /\ job.now = {}
  BY <1>2 DEF AloneInv, Turns, JobOK, JobWorks
<1>4. Turns'
  BY <1>2, <1>3 DEF AloneInv, Turns, Alive, Working, threads
<1>5. Stopped'
  BY <1>2, <1>3 DEF AloneInv, Turns, Stopped, ResetMayStart, ResetWorks, JobWorks, Alive, threads
<1>6. JobOK'
  BY <1>2, <1>3 DEF JobOK, JobWorks
<1>7. CASE MarkBoundary
  <2>1. reset'.pc = "marked" /\ UNCHANGED <<archive, files>>
    BY <1>1, <1>7 DEF MarkBoundary, Resets
  <2>2. ResetOK'
    BY <2>1 DEF ResetOK
  <2>3. MediaFollowsMessages'
    BY <1>2, <2>1, NothingElseMoves
  <2> QED BY <1>4, <1>5, <1>6, <2>2, <2>3 DEF AloneInv
<1>8. CASE DeleteDatabase
  <2>1. /\ reset.pc = "marked" /\ reset'.pc = "clearing" /\ reset'.files = files
        /\ archive' = EmptyArchive /\ UNCHANGED files
        /\ \A r \in Slots : ~Working(r)
    BY <1>1, <1>8 DEF DeleteDatabase, Connected, FilesToClear, Resets
  <2>2. ResetOK'
    BY <1>2, <2>1 DEF ResetOK, Working, threads
  <2>3. MediaFollowsMessages'
    BY <2>1 DEF MediaFollowsMessages, MediaIsRegistered, OrphansAreSwept, EmptyArchive
  <2> QED BY <1>4, <1>5, <1>6, <2>2, <2>3 DEF AloneInv
<1>9. CASE ResetDone \/ ResetFails
  <2>1. /\ reset'.pc = "reset" => reset.pc = "clearing" /\ reset.files = {}
        /\ reset'.pc \in {"reset", "failed"} /\ UNCHANGED data
    BY <1>1, <1>9 DEF ResetDone, ResetFails, Resets, NoReset
  <2>2. ResetOK'
    BY <1>2, <2>1 DEF AloneInv, ResetOK, Working, threads, data
  <2>3. MediaFollowsMessages'
    BY <1>2, <2>1, NothingElseMoves DEF data
  <2> QED BY <1>4, <1>5, <1>6, <2>2, <2>3 DEF AloneInv
<1>10. CASE \E k \in Keys : ResetFile(k)
  <2>1. PICK k \in Keys : ResetFile(k)
    BY <1>10
  <2>2. /\ reset.pc = "clearing" /\ reset'.pc = "clearing"
        /\ reset'.files = reset.files \ {k} /\ files' = files \ {k}
        /\ UNCHANGED archive
    BY <1>1, <2>1 DEF ResetFile, Resets
  <2>3. ResetOK'
    BY <1>2, <2>2 DEF AloneInv, ResetOK, Working, threads
  <2>4. MediaFollowsMessages'
    BY <1>2, <2>2, NothingElseMoves
  <2> QED BY <1>4, <1>5, <1>6, <2>3, <2>4 DEF AloneInv
<1> QED BY <1>7, <1>8, <1>9, <1>10 DEF ResetStep

LEMMA AloneIsKept ==
    ASSUME ~Overlap, IInv, AloneInv, [Next]_vars
    PROVE  AloneInv'
<1>1. IInv'
  BY IInvIsKept
<1>2. CASE UNCHANGED vars
  <2>1. UNCHANGED <<data, threads, job, reset>> /\ OneRuntime
    BY <1>2 DEF vars, IInv
  <2>2. Quiet
    BY <2>1, CalmIsFine DEF Quiet, RowsKept, NothingNew, data, threads, Working
  <2> QED BY <1>1, <2>2, QuietIsAlone
<1>3. CASE \E r \in Slots : RuntimeStep(r) \/ RuntimeWork(r)
  BY <1>1, <1>3, RuntimesAreAlone
<1>4. CASE \E k \in Kinds : Deliver(k)
  BY <1>1, <1>4, DeliverIsAlone, OthersAreAlone DEF Kinds
<1>5. CASE JobStep
  BY <1>1, <1>5, ClearingIsAlone, DeletionIsAlone, SweepingIsAlone, FailureIsAlone DEF JobStep
<1>6. CASE ResetStep
  BY <1>1, <1>6, ResetIsAlone
<1>7. CASE \/ ExportStep \/ User \/ \E m \in Messages : Write(m)
  BY <1>1, <1>7, AskIsAlone, OthersAreAlone DEF User
<1> QED BY <1>2, <1>3, <1>4, <1>5, <1>6, <1>7 DEF Next

LEMMA AloneAtFirst == Init => AloneInv
<1> SUFFICES ASSUME Init PROVE AloneInv
  OBVIOUS
<1>1. Turns /\ Stopped /\ JobOK /\ ResetOK /\ MediaFollowsMessages
  BY DEF Init, NoJob, NoReset, EmptyArchive, Turns, Stopped, JobWorks, ResetWorks, JobOK,
         ResetOK, MediaFollowsMessages, MediaIsRegistered, OrphansAreSwept
<1> QED BY <1>1, IInvAtFirst DEF AloneInv

\* If the user does not reset the archive while a branch is worked on, a worker
\* that works on the archive has no other beside it (gui/window.py,
\* _run_branch_maintenance).
THEOREM MaintenanceTakesTurns ==
    ASSUME ~Overlap
    PROVE  Spec => []AloneInv
<1>1. IInv /\ AloneInv /\ [Next]_vars => AloneInv'
  BY AloneIsKept
<1> QED BY <1>1, AloneAtFirst, Invariant, PTL DEF Spec

\* Then every medium of an archived message has its row, and a row without a
\* message is on the list of the worker that will remove it, unless that worker
\* failed (services/branch_maintenance_service.py, _remove_orphan_media), even
\* if a media worker of the runtime has not ended yet.
THEOREM MediaFollow ==
    ASSUME ~Overlap
    PROVE  Spec => []MediaFollowsMessages
<1>1. AloneInv => MediaFollowsMessages
  BY DEF AloneInv
<1> QED BY <1>1, MaintenanceTakesTurns, PTL

\* Then a reset that reports success has left no message, no row and no file,
\* also if a media worker outlives its runtime: the database it holds open
\* cannot be deleted (services/archive_reset_service.py, reset_local_archive).
THEOREM ResetsAreComplete ==
    ASSUME ~Overlap
    PROVE  Spec => []ResetLeavesNothing
<1>1. AloneInv => ResetLeavesNothing
  BY DEF AloneInv, ResetOK, ResetLeavesNothing
<1> QED BY <1>1, MaintenanceTakesTurns, PTL

-----------------------------------------------------------------------------
(* A reset with anything beside it: other maintenance, threads that outlive    *)
(* the time others wait for them                                               *)

\* A medium is about: in the database, on disk though the reset has been by, or
\* in a worker's hands.
About(k) ==
    \/ archive.rows[k] # "none" \/ k \in files \ reset.files
    \/ \E r \in Slots : runtime[r].media = k

Clears == reset.pc \in {"clearing", "reset"}

\* From the deletion of the database on, nothing is about but what was captured
\* after the boundary.
NewInv ==
    Clears => /\ \A m \in archive.messages : capture[m] = "fresh"
              /\ \A k \in Keys : About(k) => Recaptured(k)
              /\ reset.pc = "reset" => reset.files = {}

NoCaptureLost == \A m \in Messages : capture[m] = "fresh" => capture'[m] = "fresh"

LEMMA NothingOldComes ==
    ASSUME IInv, NewInv, NoCaptureLost, UNCHANGED reset,
           \A m \in archive'.messages : m \in archive.messages \/ capture'[m] = "fresh",
           \A k \in Keys : About(k)' => About(k) \/ Recaptured(k)'
    PROVE  NewInv'
<1>1. archive.messages \in SUBSET Messages
  BY DEF IInv, Base, Shapes, Archives
<1>2. \A k \in Keys : Recaptured(k) => Recaptured(k)'
  BY DEF Recaptured, NoCaptureLost
<1> QED BY <1>1, <1>2 DEF NewInv, Clears, NoCaptureLost

LEMMA RuntimesBringNew ==
    ASSUME IInv, NewInv, NEW r \in Slots, RuntimeStep(r) \/ RuntimeWork(r)
    PROVE  NewInv'
<1>1. Shapes /\ runtime \in [Slots -> Threads] /\ archive \in Archives
  BY DEF IInv, Base, Shapes
<1>2. CASE \/ Open(r) \/ Watch(r) \/ HearStop(r) \/ RuntimeEnds(r) \/ WorkerEnds(r)
           \/ RuntimeFails(r)
  <2>1. /\ \A s \in Slots \ {r} : runtime'[s] = runtime[s]
        /\ UNCHANGED <<data, job, reset>>
    BY <1>1, <1>2, ThreadStep
  <2>2. runtime'[r].media \in {runtime[r].media, "idle", "ended"}
    BY <1>1, <1>2 DEF Open, Watch, HearStop, RuntimeEnds, WorkerEnds, RuntimeFails, Moves, Threads
  <2>3. \A k \in Keys : About(k)' => About(k)
    BY <2>1, <2>2, Words DEF About, data
  <2> QED BY <2>1, <2>3, NothingOldComes DEF data, NoCaptureLost
<1>3. CASE \E k \in Keys : Downloaded(r, k) \/ DownloadFails(r, k) \/ Claim(r, k) \/ Heal(r, k)
  <2>1. PICK k \in Keys : Downloaded(r, k) \/ DownloadFails(r, k) \/ Claim(r, k) \/ Heal(r, k)
    BY <1>3
  <2>2. /\ \A s \in Slots \ {r} : runtime'[s] = runtime[s]
        /\ RowsKept /\ UNCHANGED <<capture, gone, abandoned, job, reset>>
    BY <1>1, <2>1, WorkerStep
  <2>3. About(k) /\ files' \in {files, files \cup {k}}
    BY <2>1 DEF About, Downloaded, DownloadFails, Claim, Heal
  <2>4. runtime'[r].media \in {runtime[r].media, "idle", k}
    BY <1>1, <2>1 DEF Downloaded, DownloadFails, Claim, Heal, Threads, threads
  <2>5. \A l \in Keys : About(l)' => About(l)
    BY <2>2, <2>3, <2>4, Words DEF About, RowsKept
  <2> QED BY <2>2, <2>5, NothingOldComes DEF RowsKept, NoCaptureLost
<1>4. CASE \E m \in Messages : Import(r, m)
  <2>1. PICK m \in Messages : Import(r, m)
    BY <1>4
  <2>2. /\ archive'.messages = archive.messages \cup {m}
        /\ \A k \in Keys : archive'.rows[k] # "none" => archive.rows[k] # "none" \/ k \in Uses[m]
        /\ UNCHANGED <<capture, files, threads, reset>> /\ capture[m] = "fresh"
    BY <1>1, <2>1, ImportStep DEF Import
  <2>3. \A k \in Keys : About(k)' => About(k) \/ Recaptured(k)'
    BY <2>2 DEF About, Recaptured, threads
  <2> QED BY <2>2, <2>3, NothingOldComes DEF NoCaptureLost
<1> QED BY <1>2, <1>3, <1>4 DEF RuntimeStep, RuntimeWork

LEMMA JobBringsNothing ==
    ASSUME IInv, NewInv, JobStep
    PROVE  NewInv'
<1>1. /\ Shapes /\ archive \in Archives /\ archive.rows \in [Keys -> RowStates]
  BY DEF IInv, Base, Shapes, Archives
<1>2. UNCHANGED <<capture, threads, reset>>
  BY <1>1, JobSteps
<1>3. files' \subseteq files
  BY <1>1 DEF JobStep, BeginClear, ClearFile, ClearRows, DeleteMessages, SpareMedia, UnlinkMedia,
         RemoveRow, JobDone, JobFails, data
<1>4. /\ archive'.messages \subseteq archive.messages
      /\ \A k \in Keys : archive'.rows[k] # "none" => archive.rows[k] # "none"
  <2>1. CASE ClearRows
    <3> DEFINE rows == [k \in Keys |-> IF k \in job.now /\ archive.rows[k] = "cached"
                                       THEN "evicted" ELSE archive.rows[k]]
    <3>1. archive'.messages = archive.messages /\ archive'.rows = rows
      BY <1>1, <2>1 DEF ClearRows, Archives
    <3>2. \A k \in Keys : rows[k] # "none" => archive.rows[k] # "none"
      OBVIOUS
    <3> QED BY <3>1, <3>2
  <2>2. CASE DeleteMessages
    BY <1>1, <2>2 DEF DeleteMessages, Deleted, Archives
  <2>3. CASE \E k \in Keys : RemoveRow(k)
    <3>1. PICK k \in Keys : RemoveRow(k)
      BY <2>3
    <3>2. RowBecomes(k, "none") /\ "none" \in RowStates
      BY <3>1 DEF RemoveRow, RowStates
    <3> QED BY <1>1, <3>2, RowMoves
  <2> QED BY <2>1, <2>2, <2>3 DEF JobStep, BeginClear, ClearFile, SpareMedia, UnlinkMedia,
             JobDone, JobFails, data
<1>5. \A k \in Keys : About(k)' => About(k)
  BY <1>2, <1>3, <1>4 DEF About, threads
<1> QED BY <1>2, <1>4, <1>5, NothingOldComes DEF NoCaptureLost

LEMMA ResetKeepsNothing ==
    ASSUME IInv, NewInv, ResetStep
    PROVE  NewInv'
<1>1. Shapes /\ reset \in Resets /\ files \in SUBSET Keys
  BY DEF IInv, Base, Shapes
<1>2. UNCHANGED <<threads, job>>
  BY <1>1, ResetSteps
<1>3. CASE MarkBoundary \/ ResetFails
  BY <1>1, <1>3 DEF MarkBoundary, ResetFails, NoReset, Resets, NewInv, Clears
<1>4. CASE DeleteDatabase
  <2>1. /\ reset'.pc = "clearing" /\ reset'.files = files /\ files' = files
        /\ archive' = EmptyArchive /\ \A r \in Slots : ~Working(r)
    BY <1>1, <1>4 DEF DeleteDatabase, Connected, FilesToClear, Resets
  <2>2. \A k \in Keys : ~About(k)'
    BY <1>2, <2>1, Words DEF About, EmptyArchive, Working, threads
  <2> QED BY <2>1, <2>2 DEF NewInv, EmptyArchive
<1>5. CASE ResetDone
  <2>1. /\ reset.pc = "clearing" /\ reset.files = {} /\ reset'.files = {}
        /\ UNCHANGED <<data, threads>>
    BY <1>1, <1>5 DEF ResetDone, Resets
  <2>2. \A k \in Keys : About(k)' => About(k)
    BY <2>1 DEF About, data, threads
  <2> QED BY <2>1, <2>2 DEF NewInv, Clears, Recaptured, data
<1>6. CASE \E k \in Keys : ResetFile(k)
  <2>1. PICK k \in Keys : ResetFile(k)
    BY <1>6
  <2>2. /\ reset.pc = "clearing" /\ reset'.pc = "clearing"
        /\ reset'.files = reset.files \ {k} /\ files' = files \ {k}
        /\ UNCHANGED <<capture, archive, threads>>
    BY <1>1, <2>1 DEF ResetFile, Resets
  <2>3. \A l \in Keys : About(l)' => About(l)
    BY <2>2 DEF About, threads
  <2> QED BY <2>2, <2>3 DEF NewInv, Clears, Recaptured
<1> QED BY <1>3, <1>4, <1>5, <1>6 DEF ResetStep

LEMMA OthersBringNew ==
    ASSUME IInv, NewInv,
           \/ ExportStep \/ User \/ (\E k \in Kinds : Deliver(k)) \/ \E m \in Messages : Write(m)
    PROVE  NewInv'
<1>1. /\ Shapes /\ Flags /\ ExportOK /\ archive \in Archives
      /\ capture \in [Messages -> {"fresh", "old"}]
  BY DEF IInv, Base, Shapes
<1>2. CASE ExportStep \/ AskExport \/ \E op \in {"clear", "delete"} : AskBranch(op)
  <2>1. /\ UNCHANGED <<data, reset>>
        /\ \A r \in Slots : runtime'[r].media = runtime[r].media
    BY <1>1, <1>2, ExportSteps, RequestSteps DEF AskExport, AskBranch, Begins, threads
  <2>2. \A k \in Keys : About(k)' => About(k)
    BY <2>1 DEF About, data
  <2> QED BY <2>1, <2>2, NothingOldComes DEF data, NoCaptureLost
<1>3. CASE AskReset
  BY <1>1, <1>3, RequestSteps DEF NewInv, Clears
<1>4. CASE Restart
  BY <1>4 DEF Restart, Fresh, NoReset, NewInv, Clears
<1>5. CASE \E k \in Keys : Sweep(k)
  <2>1. PICK k \in Keys : Sweep(k)
    BY <1>5
  <2>2. PICK state \in RowStates :
          RowBecomes(k, state) /\ (state # "none" => archive.rows[k] # "none")
    BY <1>1, <2>1 DEF Sweep, Archives, RowStates
  <2>3. /\ archive'.messages = archive.messages
        /\ \A l \in Keys : archive'.rows[l] # "none" => archive.rows[l] # "none"
    BY <1>1, <2>2, RowMoves
  <2>4. files' \subseteq files /\ UNCHANGED <<capture, threads, reset>>
    BY <2>1 DEF Sweep
  <2>5. \A l \in Keys : About(l)' => About(l)
    BY <2>3, <2>4 DEF About, threads
  <2> QED BY <2>3, <2>4, <2>5, NothingOldComes DEF NoCaptureLost
<1>6. CASE \E kind \in Kinds : Deliver(kind)
  <2>1. PICK kind \in Kinds : Deliver(kind)
    BY <1>6
  <2>2. /\ reset' = (IF kind = "reset" THEN NoReset ELSE reset) /\ UNCHANGED data
        /\ IF kind = "export" THEN UNCHANGED threads ELSE StartRuntime
    BY <1>1, <2>1, DeliverSteps
  <2>3. CASE kind = "reset"
    BY <2>2, <2>3 DEF NoReset, NewInv, Clears
  <2>4. CASE kind # "reset"
    <3>1. \A r \in Slots : runtime'[r].media \in {runtime[r].media, "none"}
      BY <1>1, <2>2, StartSteps DEF threads
    <3>2. \A k \in Keys : About(k)' => About(k)
      BY <2>2, <2>4, <3>1, Words DEF About, data
    <3> QED BY <2>2, <2>4, <3>2, NothingOldComes DEF data, NoCaptureLost
  <2> QED BY <2>3, <2>4
<1>7. CASE \E m \in Messages : Write(m)
  <2>1. PICK m \in Messages : Write(m)
    BY <1>7
  <2>2. /\ archive'.messages = archive.messages /\ archive'.rows = archive.rows
        /\ UNCHANGED <<files, threads, reset>>
        /\ \A n \in Messages : capture'[n] \in {capture[n], "fresh"}
    BY <1>1, <2>1 DEF Write, Archives
  <2>3. \A k \in Keys : About(k)' => About(k)
    BY <2>2 DEF About, threads
  <2> QED BY <2>2, <2>3, NothingOldComes DEF NoCaptureLost
<1> QED BY <1>2, <1>3, <1>4, <1>5, <1>6, <1>7 DEF User

LEMMA NewIsKept == IInv /\ NewInv /\ [Next]_vars => NewInv'
<1> SUFFICES ASSUME IInv, NewInv, [Next]_vars PROVE NewInv'
  OBVIOUS
<1>1. CASE UNCHANGED vars
  BY <1>1 DEF vars, data, threads, NewInv, Clears, About, Recaptured
<1>2. CASE Next
  BY <1>2, RuntimesBringNew, JobBringsNothing, ResetKeepsNothing, OthersBringNew DEF Next
<1> QED BY <1>1, <1>2

\* Whatever threads and users do, also a media worker that outlives its runtime
\* and a branch worker whose report starts a runtime during the reset: what a
\* successful reset leaves was captured after its boundary
\* (services/archive_reset_service.py, reset_local_archive).
THEOREM ResetsForgetTheOld == Spec => []ResetLeavesNothingOld
<1>1. Init => NewInv
  BY DEF Init, NoReset, NewInv, Clears
<1>2. NewInv => ResetLeavesNothingOld
  BY DEF NewInv, Clears, About, ResetLeavesNothingOld
<1> QED BY <1>1, <1>2, NewIsKept, Invariant, PTL DEF Spec

=============================================================================
