--------------------------- MODULE MediaLifecycle ---------------------------
(***************************************************************************)
(* The life of a media object (an attachment) in DDS Companion: the        *)
(* registry row in SQLite, the cached file on disk, and the threads that   *)
(* touch both.                                                             *)
(*                                                                         *)
(*   importer   runtime thread: imports captures and source evidence       *)
(*   worker     MediaBackfillRuntime thread: drains user commands, plans,  *)
(*              claims, downloads, records outcomes, sweeps the cache      *)
(*   sweepers   GUI threads that clear the cache or enforce its policy     *)
(*                                                                         *)
(* Every SQLite transaction is one atomic step.  A SELECT that precedes    *)
(* the transaction using its rows is a step of its own, because Python's   *)
(* sqlite3 opens the transaction at the first UPDATE: whatever the other   *)
(* threads commit in between is what the code may overwrite.               *)
(***************************************************************************)
EXTENDS Naturals, FiniteSets

CONSTANTS
    Keys,          \* media keys; their order is that of first_seen_at
    Urls,          \* signed attachment URLs
    ForeignUrls,   \* those outside the Discord hosts
    Messages, Channels,
    ChannelOf,     \* the channel each message was posted in
    MaxAttempts,   \* MediaBackfillService.MAX_ATTEMPTS
    PlanLimit,     \* how many rows one planning reads, 200
    ClaimLimit,    \* the worker pool's size, max_workers
    Sweepers,      \* GUI threads that maintain the cache
    Legacy,        \* row states an archive of an older version may hold
    DbMayFail,     \* whether SQLite may stay locked past the busy timeout
    NoUrl, Absent, NoJob, Unread, Worker

ASSUME ConstantsOK ==
    /\ Keys \subseteq Nat
    /\ ForeignUrls \subseteq Urls
    /\ ChannelOf \in [Messages -> Channels]
    /\ MaxAttempts \in Nat \ {0}
    /\ {PlanLimit, ClaimLimit} \subseteq Nat \ {0}
    /\ Legacy \subseteq {"STALE_URL", "IGNORED", "EVICTED"}
    /\ DbMayFail \in BOOLEAN
    /\ {NoUrl, Absent, NoJob} \cap Urls = {}
    /\ NoUrl # Absent /\ NoUrl # NoJob
    /\ Worker \notin Sweepers

VARIABLES
    row,          \* media_objects, one record per key
    attachments,  \* the URL each archived message gives each attachment
    evidence,     \* channels whose deletion the audit log proves
    file,         \* keys whose final cache file exists on disk
    auto,         \* the setting media_autodownload_enabled
    pc,           \* where the worker thread is
    mode,         \* what the worker's batch serves
    target,       \* the keys its claim may take
    seen,         \* the rows its last SELECT returned
    job,          \* the URL each claimed download was given
    out,          \* outcomes of the batch not recorded yet
    sweep         \* progress of each cache maintenance

archive == <<attachments, evidence>>
batch == <<mode, target, seen, job, out>>
vars == <<row, attachments, evidence, file, auto, pc, batch, sweep>>

-----------------------------------------------------------------------------
MediaStates ==
    {"KNOWN", "QUEUED", "DOWNLOADING", "CACHED", "SKIPPED", "TOO_LARGE",
     "FAILED_RETRYABLE", "FAILED_PERMANENT", "STALE_URL", "EVICTED",
     "IGNORED", "UNRESOLVED", "SOURCE_GONE"}

\* Why an EVICTED row lost its file, and which IGNORED rows stem from an
\* expired URL: the only failure classes any query tests.
Causes == {"none", "policy", "manual_clear", "legacy", "awaiting"}

MaybeUrl == Urls \cup {NoUrl}

\* A row of media_objects.  "elapsed" is what the clock says of the one
\* timestamp the row's state reads: next_retry_at while FAILED_RETRYABLE,
\* last_attempt_at (five minutes) while DOWNLOADING.  attempt_count is only
\* compared with MAX_ATTEMPTS, so it stops there.
Rows ==
    [state : MediaStates \cup {"NONE"}, url : MaybeUrl, manual : BOOLEAN,
     attempts : 0 .. MaxAttempts, elapsed : BOOLEAN, path : BOOLEAN,
     cause : Causes]

NoRow == [state |-> "NONE", url |-> NoUrl, manual |-> FALSE, attempts |-> 0,
          elapsed |-> TRUE, path |-> FALSE, cause |-> "none"]

Plannable == {"KNOWN", "FAILED_RETRYABLE", "TOO_LARGE"}

Results ==
    {"CACHED", "SKIPPED", "TOO_LARGE", "FAILED_RETRYABLE",
     "FAILED_PERMANENT", "UNRESOLVED"}

Refs(k, att) == {m \in Messages : att[m][k] # Absent}
Referenced(k) == Refs(k, attachments) # {}

Idle == [kind |-> "idle", todo |-> {}, removed |-> {}]
NothingSeen == [k \in Keys |-> Unread]
Claims(jobs) == {k \in Keys : jobs[k] # NoJob}

-----------------------------------------------------------------------------
(* What each statement does to a row *)

\* SourceEvidenceService.apply_verified: passive rows whose every reference
\* lies in a provably deleted channel, with the archived URL put back.
AllSourcesGone(k, att, ev) ==
    /\ Refs(k, att) # {}
    /\ \A m \in Refs(k, att) : ChannelOf[m] \in ev

ArchivedUrl(k, att) ==
    LET urls == {att[m][k] : m \in Refs(k, att)} \ {NoUrl}
    IN  IF urls = {} THEN NoUrl ELSE CHOOSE u \in urls : TRUE

Gone(r, k, att) ==
    [r EXCEPT !.state = "SOURCE_GONE", !.manual = FALSE, !.elapsed = TRUE,
              !.url = IF r.url = NoUrl THEN ArchivedUrl(k, att) ELSE r.url]

ApplyVerified(rows, att, ev) ==
    [k \in Keys |->
        IF /\ rows[k].state \in {"UNRESOLVED", "STALE_URL"}
           /\ AllSourcesGone(k, att, ev)
        THEN Gone(rows[k], k, att)
        ELSE rows[k]]

\* A row made eligible for planning again, with a new URL and no attempts.
Fresh(r, u) ==
    [r EXCEPT !.state = "KNOWN", !.url = u, !.attempts = 0, !.elapsed = TRUE,
              !.path = FALSE, !.cause = "none"]

\* Mutant: a URL the row already retains counts as a recovery.
CanRecoverAnyUrl(r, u, later) == later /\ u \notin {NoUrl} \cup ForeignUrls

\* can_recover: "later" says the observation is newer than every deletion
\* proof that concerns the attachment and its URL has not expired.
CanRecover(r, u, later) == later /\ u \notin {NoUrl, r.url} \cup ForeignUrls

\* Mutant: a refreshed URL undoes an Ignore.
RegisteredUnignored(r, u, later) ==
    IF r.state = "NONE" THEN Fresh(NoRow, u)
    ELSE IF r.url = u THEN r ELSE Fresh(r, u)

\* register_attachment
Registered(r, u, later) ==
    CASE r.state = "NONE" -> Fresh(NoRow, u)
      [] r.state \in {"EVICTED", "IGNORED"} ->
             [r EXCEPT !.url = u, !.path = FALSE]
      [] r.state = "CACHED" /\ r.path -> [r EXCEPT !.url = u]
      [] r.state = "SOURCE_GONE" ->
             IF CanRecover(r, u, later)
             THEN Fresh(r, u)
             ELSE [r EXCEPT !.path = FALSE,
                            !.url = IF r.url = NoUrl THEN u ELSE r.url]
      [] OTHER -> IF r.url = u THEN [r EXCEPT !.path = FALSE] ELSE Fresh(r, u)

\* MediaBackfillService._set_state: by key alone, the cache columns untouched.
SetState(r, s) ==
    [r EXCEPT !.state = s, !.manual = FALSE, !.elapsed = TRUE,
              !.cause = "none"]

Queued(r) == [r EXCEPT !.state = "QUEUED", !.elapsed = TRUE]

Downloadable(u) == u \in Urls \ ForeignUrls

\* What both planners decide of a row they read, in the order of their tests.
\* "big" says the expected size exceeds the limits in force.
Verdict(s, big) ==
    CASE s.state = "FAILED_RETRYABLE" /\ ~s.elapsed -> "wait"
      [] s.state = "FAILED_RETRYABLE" /\ s.elapsed
         /\ s.attempts >= MaxAttempts -> "exhausted"
      [] OTHER -> CASE big -> "too_large"
                    [] ~big /\ s.url = NoUrl -> "no_url"
                    [] ~big /\ s.url \in ForeignUrls -> "foreign"
                    [] OTHER -> "download"

\* plan(): s is the row as selected, r the row the transaction finds.
Planned(s, r, big) ==
    LET v == Verdict(s, big)
    IN  CASE v = "exhausted" -> SetState(r, "FAILED_PERMANENT")
          [] v = "too_large" /\ s.state # "TOO_LARGE" -> SetState(r, "TOO_LARGE")
          [] v \in {"no_url", "foreign"} -> SetState(r, "SKIPPED")
          [] v = "download" /\ r.state \in Plannable -> Queued(r)
          [] OTHER -> r

\* Mutant: one retry too many.
RecordedOnceMore(r, result, n) ==
    IF result = "FAILED_RETRYABLE" /\ n <= MaxAttempts
    THEN [r EXCEPT !.state = "FAILED_RETRYABLE", !.path = FALSE]
    ELSE SetState(r, "FAILED_PERMANENT")

\* _apply_outcome: n is the attempt count read before the transaction.
Recorded(r, result, n) ==
    CASE result = "CACHED" ->
             [r EXCEPT !.state = "CACHED", !.manual = FALSE, !.path = TRUE,
                       !.elapsed = TRUE, !.cause = "none"]
      [] result = "UNRESOLVED" ->
             [r EXCEPT !.state = "UNRESOLVED", !.url = NoUrl, !.path = FALSE,
                       !.elapsed = TRUE, !.cause = "none"]
      [] result = "FAILED_RETRYABLE" /\ n < MaxAttempts ->
             [r EXCEPT !.state = "FAILED_RETRYABLE", !.path = FALSE,
                       !.elapsed = FALSE, !.cause = "none"]
      [] OTHER ->
             [r EXCEPT !.state = IF result = "FAILED_RETRYABLE"
                                 THEN "FAILED_PERMANENT" ELSE result,
                       !.manual = FALSE, !.path = FALSE, !.elapsed = TRUE,
                       !.cause = "none"]

\* _plan_manual_recache, for one row.
PlannedManually(s, r, big) ==
    LET v == Verdict(s, big)
    IN  CASE v = "exhausted" -> Recorded(r, "FAILED_PERMANENT", s.attempts)
          [] v = "too_large" -> Recorded(r, "TOO_LARGE", s.attempts)
          [] v = "no_url" -> Recorded(r, "UNRESOLVED", s.attempts)
          [] v = "foreign" -> Recorded(r, "SKIPPED", s.attempts)
          [] v = "download" /\ r.manual
             /\ r.state \in {"KNOWN", "FAILED_RETRYABLE"} -> Queued(r)
          [] OTHER -> r

\* The claim's UPDATE.
Claimed(r) ==
    [r EXCEPT !.state = "DOWNLOADING", !.elapsed = FALSE,
              !.attempts = IF @ < MaxAttempts THEN @ + 1 ELSE @]

\* reconcile_cached_files: by key alone.
Healed(r) ==
    [r EXCEPT !.state = "KNOWN", !.path = FALSE, !.elapsed = TRUE,
              !.cause = "none"]

\* The runtime overlay makes a failed row eligible again.
Rearmed(r) ==
    [r EXCEPT !.state = "KNOWN", !.attempts = 0, !.elapsed = TRUE,
              !.cause = "none"]

\* reset_removed_cache_paths
Evicted(r, why) ==
    [r EXCEPT !.state = "EVICTED", !.path = FALSE, !.manual = FALSE,
              !.elapsed = TRUE, !.cause = why]

\* prepare_manual_recache and prepare_manual_recache_scope
Recached(r) ==
    [r EXCEPT !.state = IF r.url = NoUrl THEN "UNRESOLVED" ELSE "QUEUED",
              !.manual = TRUE, !.attempts = 0, !.elapsed = TRUE,
              !.cause = "none"]

\* clear_processed_issues and normalize_expired_urls drop the URL.
Unresolved(r) ==
    [r EXCEPT !.state = "UNRESOLVED", !.url = NoUrl, !.elapsed = TRUE,
              !.cause = "none"]

-----------------------------------------------------------------------------
(* The initial archive: empty, or written by an older version *)

LegacyCause(s) ==
    CASE s = "EVICTED" -> "legacy"
      [] s = "IGNORED" -> "awaiting"
      [] OTHER -> "none"

LegacyRow(s, u) ==
    [NoRow EXCEPT !.state = s, !.url = u, !.cause = LegacyCause(s)]

LegacyRows == {LegacyRow(s, u) : s \in Legacy, u \in Urls}

Init ==
    /\ row \in [Keys -> {NoRow} \cup LegacyRows]
    /\ attachments \in [Messages -> [Keys -> MaybeUrl \cup {Absent}]]
    /\ \A k \in Keys :
          \/ row[k] = NoRow /\ ~Referenced(k)
          \/ row[k] # NoRow /\ \A m \in Messages : attachments[m][k] = row[k].url
    /\ evidence = {}
    /\ file = {}
    /\ auto \in BOOLEAN
    /\ pc = "off"
    /\ mode = "auto"
    /\ target = {}
    /\ seen = NothingSeen
    /\ job = [k \in Keys |-> NoJob]
    /\ out = [k \in Keys |-> "none"]
    /\ sweep = [a \in Sweepers \cup {Worker} |-> Idle]

-----------------------------------------------------------------------------
(* The importer, the clock and the user's setting *)

\* Mutant: entries that are null are registered too.
ImportCaptureUnfiltered(m, shot, later) ==
    /\ attachments' = [attachments EXCEPT ![m] = shot]
    /\ row' = [k \in Keys |-> Registered(row[k], shot[k], later)]
    /\ UNCHANGED <<evidence, file, auto, pc, batch, sweep>>

\* import_file for a capture holding message m with the attachments in "shot".
ImportCapture(m, shot, later) ==
    /\ attachments' = [attachments EXCEPT ![m] = shot]
    /\ LET registered ==
             [k \in Keys |-> IF shot[k] = Absent THEN row[k]
                             ELSE Registered(row[k], shot[k], later)]
       IN  row' = ApplyVerified(registered, attachments', evidence)
    /\ UNCHANGED <<evidence, file, auto, pc, batch, sweep>>

\* import_file for a source_evidence.json: a first proof, or a replay of one.
ImportEvidence(c) ==
    /\ evidence' = evidence \cup {c}
    /\ row' = ApplyVerified(row, attachments, evidence')
    /\ UNCHANGED <<attachments, file, auto, pc, batch, sweep>>

\* The timestamp a waiting row reads passes.
Elapse(k) ==
    /\ row[k].state \in {"DOWNLOADING", "FAILED_RETRYABLE"}
    /\ ~row[k].elapsed
    /\ row' = [row EXCEPT ![k].elapsed = TRUE]
    /\ UNCHANGED <<archive, file, auto, pc, batch, sweep>>

SetAuto(b) ==
    /\ auto # b
    /\ auto' = b
    /\ UNCHANGED <<row, archive, file, pc, batch, sweep>>

-----------------------------------------------------------------------------
(* The worker's start and the commands it drains from the control queue *)

Forget ==
    /\ seen' = NothingSeen
    /\ job' = [k \in Keys |-> NoJob]
    /\ out' = [k \in Keys |-> "none"]

Start ==
    /\ pc = "off"
    /\ pc' = "drain"
    /\ row' = [k \in Keys |->
                 IF \/ row[k].state = "STALE_URL"
                    \/ row[k].state = "IGNORED" /\ row[k].cause = "awaiting"
                 THEN Unresolved(row[k]) ELSE row[k]]
    /\ UNCHANGED <<archive, file, auto, batch, sweep>>

\* A command that is one UPDATE: "updated" holds the new rows of the keys that
\* satisfy its WHERE clause, and every such clause asks for a reference.
CommandUpdate(updated) ==
    /\ pc = "drain"
    /\ row' = [k \in Keys |-> IF k \in DOMAIN updated /\ Referenced(k)
                              THEN updated[k] ELSE row[k]]
    /\ UNCHANGED <<archive, file, auto, pc, batch, sweep>>

\* Mutant: switching on re-arms policy evictions too.
EnableCommandAnyCause ==
    LET evicted == {k \in Keys : row[k].state = "EVICTED"}
    IN  CommandUpdate([k \in evicted |-> [row[k] EXCEPT !.state = "KNOWN"]])

\* Automatic download switched on: requeue_manual_clear_evictions.
EnableCommand ==
    LET cleared == {k \in Keys : /\ row[k].state = "EVICTED"
                                 /\ row[k].cause \in {"manual_clear", "legacy"}}
    IN  CommandUpdate([k \in cleared |->
                          [row[k] EXCEPT !.state = "KNOWN", !.attempts = 0,
                                         !.elapsed = TRUE, !.cause = "none"]])

Ignored(r) == [r EXCEPT !.state = "IGNORED", !.elapsed = TRUE]

IgnoreCommand(i) ==
    /\ row[i].state \in {"FAILED_PERMANENT", "FAILED_RETRYABLE"}
    /\ CommandUpdate([k \in {i} |-> Ignored(row[k])])

IgnoreAllCommand ==
    LET failed == {k \in Keys : row[k].state = "FAILED_PERMANENT"}
    IN  CommandUpdate([k \in failed |-> Ignored(row[k])])

ClearProcessedCommand ==
    LET ignored == {k \in Keys : row[k].state = "IGNORED"}
    IN  CommandUpdate([k \in ignored |->
                          [Unresolved(row[k]) EXCEPT !.attempts = 0]])

RecacheScopeCommand(c) ==
    LET scope == {k \in Keys :
                     /\ row[k].state = "EVICTED"
                     /\ \E m \in Refs(k, attachments) : ChannelOf[m] = c}
    IN  CommandUpdate([k \in scope |-> Recached(row[k])])

\* retry_media_once and recache_media_once: the row is prepared, then claimed
\* and downloaded by the worker at once, whatever the setting says.
CommandDownload(i, r) ==
    /\ row' = [row EXCEPT ![i] = r]
    /\ mode' = "command"
    /\ target' = {i}
    /\ pc' = IF r.state = "UNRESOLVED" THEN "drain" ELSE "claim"
    /\ UNCHANGED <<archive, file, auto, seen, job, out, sweep>>

RetryCommand(i) ==
    /\ pc = "drain"
    /\ Referenced(i)
    /\ row[i].state \in {"FAILED_PERMANENT", "FAILED_RETRYABLE", "IGNORED",
                         "STALE_URL"}
    /\ CommandDownload(i, [Queued(row[i]) EXCEPT !.attempts = 0,
                                                 !.cause = "none"])

RecacheCommand(i) ==
    /\ pc = "drain"
    /\ Referenced(i)
    /\ row[i].state = "EVICTED"
    /\ CommandDownload(i, Recached(row[i]))

-----------------------------------------------------------------------------
(* The worker's cycle *)

\* Settings are loaded once the queue is empty; both kinds of cycle open with
\* _recover_abandoned.
BeginCycle ==
    /\ pc = "drain"
    /\ mode' = IF auto THEN "auto" ELSE "manual"
    /\ target' = Keys
    /\ pc' = "recover"
    /\ UNCHANGED <<row, archive, file, auto, seen, job, out, sweep>>

\* Mutant: claims of a dead process are never taken back.
RecoverNothing ==
    /\ pc = "recover"
    /\ pc' = IF mode = "auto" THEN "reconcile" ELSE "select"
    /\ UNCHANGED <<row, archive, file, auto, batch, sweep>>

RecoverAbandoned ==
    /\ pc = "recover"
    /\ row' = [k \in Keys |->
                 IF row[k].state = "DOWNLOADING" /\ row[k].elapsed
                 THEN Queued(row[k]) ELSE row[k]]
    /\ pc' = IF mode = "auto" THEN "reconcile" ELSE "select"
    /\ UNCHANGED <<archive, file, auto, batch, sweep>>

\* Mutant: only the path column is tested, not the file.
ReconcilePaths ==
    /\ pc = "reconcile"
    /\ seen' = [k \in Keys |-> IF row[k].state = "CACHED" /\ ~row[k].path
                               THEN row[k] ELSE Unread]
    /\ pc' = IF seen' = NothingSeen THEN "evidence" ELSE "heal"
    /\ UNCHANGED <<row, archive, file, auto, mode, target, job, out, sweep>>

\* reconcile_cached_files: the CACHED rows whose file is missing ...
Reconcile ==
    /\ pc = "reconcile"
    /\ seen' = [k \in Keys |->
                  IF row[k].state = "CACHED" /\ ~(row[k].path /\ k \in file)
                  THEN row[k] ELSE Unread]
    /\ pc' = IF seen' = NothingSeen THEN "evidence" ELSE "heal"
    /\ UNCHANGED <<row, archive, file, auto, mode, target, job, out, sweep>>

\* ... and, in a transaction of its own, their reset.
Heal ==
    /\ pc = "heal"
    /\ row' = [k \in Keys |-> IF seen[k] # Unread THEN Healed(row[k]) ELSE row[k]]
    /\ seen' = NothingSeen
    /\ pc' = "evidence"
    /\ UNCHANGED <<archive, file, auto, mode, target, job, out, sweep>>

\* Before each plan() the overlay re-arms, in one transaction, terminal
\* failures: those of the network that are half an hour old, and once per
\* process those of the WebP size check.  "due" abstracts class and age.
Rearm(due) ==
    /\ pc = "evidence"
    /\ \A k \in due : row[k].state = "FAILED_PERMANENT" /\ row[k].url # NoUrl
    /\ row' = [k \in Keys |-> IF k \in due THEN Rearmed(row[k]) ELSE row[k]]
    /\ UNCHANGED <<archive, file, auto, pc, batch, sweep>>

PassEvidence ==
    /\ pc = "evidence"
    /\ row' = ApplyVerified(row, attachments, evidence)
    /\ pc' = "select"
    /\ UNCHANGED <<archive, file, auto, batch, sweep>>

\* The first "limit" keys of a query ordered by first_seen_at.
Oldest(keys, limit) == {k \in keys : Cardinality({j \in keys : j < k}) < limit}

Read(keys) == seen' = [k \in Keys |-> IF k \in keys THEN row[k] ELSE Unread]

Candidate(k) ==
    /\ Referenced(k)
    /\ \/ mode = "auto" /\ row[k].state \in Plannable
       \/ /\ mode = "manual" /\ row[k].manual
          /\ row[k].state \in {"KNOWN", "FAILED_RETRYABLE"}

\* The oldest candidates, whether or not anything can be done about them.
Select ==
    /\ pc = "select"
    /\ Read(Oldest({k \in Keys : Candidate(k)}, PlanLimit))
    /\ pc' = IF mode = "auto" THEN "plan" ELSE "plan_manual"
    /\ UNCHANGED <<row, archive, file, auto, mode, target, job, out, sweep>>

\* plan(): one transaction over the selected rows.
Plan(big) ==
    /\ pc = "plan"
    /\ row' = [k \in Keys |-> IF seen[k] = Unread THEN row[k]
                              ELSE Planned(seen[k], row[k], k \in big)]
    /\ seen' = NothingSeen
    /\ pc' = "claim"
    /\ UNCHANGED <<archive, file, auto, mode, target, job, out, sweep>>

\* _plan_manual_recache: row by row, because _apply_outcome commits.
PlanManual(i, big) ==
    /\ pc = "plan_manual"
    /\ seen[i] # Unread
    /\ LET planned ==
             [row EXCEPT ![i] = PlannedManually(seen[i], row[i], big)]
       IN  row' = IF Verdict(seen[i], big) = "no_url"
                  THEN ApplyVerified(planned, attachments, evidence)
                  ELSE planned
    /\ seen' = [seen EXCEPT ![i] = Unread]
    /\ UNCHANGED <<archive, file, auto, pc, mode, target, job, out, sweep>>

PlanManualDone ==
    /\ pc = "plan_manual"
    /\ seen = NothingSeen
    /\ pc' = "claim"
    /\ UNCHANGED <<row, archive, file, auto, batch, sweep>>

\* _claim, _claim_manual and _claim_one: the oldest queued rows ...
Claimable(k) ==
    /\ k \in target
    /\ row[k].state = "QUEUED"
    /\ mode = "manual" => row[k].manual

SelectClaims ==
    /\ pc = "claim"
    /\ Read(Oldest({k \in Keys : Claimable(k)}, ClaimLimit))
    /\ pc' = "take"
    /\ UNCHANGED <<row, archive, file, auto, mode, target, job, out, sweep>>

\* Where the worker goes when its batch is over: process_once may be followed
\* by cache maintenance.
BatchDone == IF mode = "auto" THEN "maintain" ELSE "drain"

\* ... taken one by one if still queued, with the URL that was selected.
TakeClaims ==
    /\ pc = "take"
    /\ LET taken == {k \in Keys : seen[k] # Unread /\ Claimable(k)}
       IN  /\ row' = [k \in Keys |-> IF k \in taken THEN Claimed(row[k]) ELSE row[k]]
           /\ job' = [k \in Keys |-> IF k \in taken THEN seen[k].url ELSE NoJob]
           /\ pc' = IF taken = {} THEN BatchDone ELSE "fetch"
    /\ seen' = NothingSeen
    /\ UNCHANGED <<archive, file, auto, mode, target, out, sweep>>

-----------------------------------------------------------------------------
(* Downloads and their outcomes *)

\* What _download_one may answer for the URL it was given.
Answers(u) == IF Downloadable(u) THEN Results \ {"SKIPPED"} ELSE {"SKIPPED"}

\* A pool thread ends a download; a file that is kept is renamed into the
\* cache here, before any row says so.
Fetch(k, result) ==
    /\ pc = "fetch"
    /\ job[k] # NoJob /\ out[k] = "none"
    /\ result \in Answers(job[k])
    /\ out' = [out EXCEPT ![k] = result]
    /\ file' = IF result = "CACHED" THEN file \cup {k} ELSE file
    /\ pc' = IF \A j \in Claims(job) : out'[j] # "none" THEN "apply" ELSE "fetch"
    /\ UNCHANGED <<row, archive, auto, mode, target, seen, job, sweep>>

\* _apply_outcome, in the order the downloads ended: the attempt count is read ...
ReadAttempts(k) ==
    /\ pc = "apply"
    /\ out[k] # "none"
    /\ seen' = [NothingSeen EXCEPT ![k] = row[k]]
    /\ pc' = "record"
    /\ UNCHANGED <<row, archive, file, auto, mode, target, job, out, sweep>>

\* ... and the row is written by key alone, whatever it has become.
RecordOutcome(k) ==
    /\ pc = "record"
    /\ seen[k] # Unread
    /\ LET recorded ==
             [row EXCEPT ![k] = Recorded(row[k], out[k], seen[k].attempts)]
       IN  row' = IF out[k] = "UNRESOLVED"
                  THEN ApplyVerified(recorded, attachments, evidence)
                  ELSE recorded
    /\ seen' = NothingSeen
    /\ out' = [out EXCEPT ![k] = "none"]
    /\ job' = [job EXCEPT ![k] = NoJob]
    /\ pc' = IF Claims(job') = {} THEN BatchDone ELSE "apply"
    /\ UNCHANGED <<archive, file, auto, mode, target, sweep>>

-----------------------------------------------------------------------------
(* Cache maintenance: MediaCacheService.clear and enforce *)

ListFiles(a, kind) ==
    /\ sweep[a].kind = "idle"
    /\ sweep' = [sweep EXCEPT ![a] = [kind |-> kind, todo |-> file, removed |-> {}]]

StartSweep(a, kind) ==
    /\ ListFiles(a, kind)
    /\ UNCHANGED <<row, archive, file, auto, pc, batch>>

\* After a batch the worker enforces the policy, at once if it cached a file
\* and otherwise once a minute.
MaintainCache ==
    /\ pc = "maintain"
    /\ \/ ListFiles(Worker, "enforce") /\ pc' = "sweep"
       \/ UNCHANGED sweep /\ pc' = "drain"
    /\ UNCHANGED <<row, archive, file, auto, batch>>

Handled(a, k, listed) ==
    /\ sweep' = [sweep EXCEPT ![a].todo = @ \ {k},
                              ![a].removed = IF listed THEN @ \cup {k} ELSE @]
    /\ UNCHANGED <<row, archive, auto, pc, batch>>

RemoveFile(a, k) ==
    /\ k \in sweep[a].todo \cap file
    /\ file' = file \ {k}
    /\ Handled(a, k, TRUE)

\* enforce() keeps the file, or fails to unlink it; clear() finds it gone.
SpareFile(a, k) ==
    /\ k \in sweep[a].todo
    /\ sweep[a].kind = "clear" => k \notin file
    /\ UNCHANGED file
    /\ Handled(a, k, FALSE)

\* clear() lists the path as removed before an unlink that fails.
KeepLockedFile(a, k) ==
    /\ k \in sweep[a].todo \cap file
    /\ sweep[a].kind = "clear"
    /\ UNCHANGED file
    /\ Handled(a, k, TRUE)

\* _sync_registry_removed, which swallows a database error.
SyncRegistry(a, synced) ==
    /\ sweep[a].kind # "idle"
    /\ sweep[a].todo = {}
    /\ LET why == IF sweep[a].kind = "clear" THEN "manual_clear" ELSE "policy"
       IN  row' = [k \in Keys |->
                     IF /\ synced /\ k \in sweep[a].removed
                        /\ row[k].state = "CACHED" /\ row[k].path
                     THEN Evicted(row[k], why) ELSE row[k]]
    /\ sweep' = [sweep EXCEPT ![a] = Idle]
    /\ pc' = IF a = Worker THEN "drain" ELSE pc
    /\ UNCHANGED <<archive, file, auto, batch>>

-----------------------------------------------------------------------------
(* Failures *)

\* A statement meets a database locked past the busy timeout: its transaction
\* is rolled back.  Only the automatic cycle catches the exception; in a
\* command or a manual cycle it ends the thread.
DatabaseFails ==
    /\ DbMayFail
    /\ pc \in {"drain", "recover", "reconcile", "heal", "evidence", "select",
               "plan", "plan_manual", "claim", "take", "apply", "record"}
    /\ pc' = IF mode = "auto" /\ pc # "drain" THEN "drain" ELSE "dead"
    /\ Forget
    /\ UNCHANGED <<row, archive, file, auto, mode, target, sweep>>

\* The runtime stops between two cycles, or after the thread has died.
StopRuntime ==
    /\ pc \in {"drain", "dead"}
    /\ pc' = "off"
    /\ UNCHANGED <<row, archive, file, auto, batch, sweep>>

\* The process ends anywhere: rows and files stay, threads are gone.
Crash ==
    /\ pc # "off"
    /\ pc' = "off"
    /\ Forget
    /\ sweep' = [a \in Sweepers \cup {Worker} |-> Idle]
    /\ UNCHANGED <<row, archive, file, auto, mode, target>>

-----------------------------------------------------------------------------
Shots == [Keys -> MaybeUrl \cup {Absent}]

Import ==
    \/ \E m \in Messages, shot \in Shots, later \in BOOLEAN :
          ImportCapture(m, shot, later)
    \/ \E c \in Channels : ImportEvidence(c)

Command ==
    \/ EnableCommand \/ IgnoreAllCommand \/ ClearProcessedCommand
    \/ \E k \in Keys : IgnoreCommand(k) \/ RetryCommand(k) \/ RecacheCommand(k)
    \/ \E c \in Channels : RecacheScopeCommand(c)

WorkerStep ==
    \/ Start \/ BeginCycle \/ RecoverAbandoned \/ Reconcile \/ Heal
    \/ \E due \in SUBSET Keys \ {{}} : Rearm(due)
    \/ PassEvidence \/ Select \/ PlanManualDone \/ SelectClaims \/ TakeClaims
    \/ MaintainCache
    \/ \E big \in SUBSET Keys : Plan(big)
    \/ \E k \in Keys, big \in BOOLEAN : PlanManual(k, big)
    \/ \E k \in Keys, result \in Results : Fetch(k, result)
    \/ \E k \in Keys : ReadAttempts(k) \/ RecordOutcome(k)

SweepStep(a) ==
    \/ \E k \in Keys : RemoveFile(a, k) \/ SpareFile(a, k) \/ KeepLockedFile(a, k)
    \/ \E synced \in {TRUE, ~DbMayFail} : SyncRegistry(a, synced)

Environment ==
    \/ Import \/ Command \/ DatabaseFails \/ StopRuntime \/ Crash
    \/ \E b \in BOOLEAN : SetAuto(b)
    \/ \E a \in Sweepers, kind \in {"clear", "enforce"} : StartSweep(a, kind)

Next ==
    \/ Environment
    \/ WorkerStep
    \/ \E a \in Sweepers \cup {Worker} : SweepStep(a)
    \/ \E k \in Keys : Elapse(k)

Spec == Init /\ [][Next]_vars

\* Threads that run keep running and time passes; users, imports and failures
\* are owed nothing.
FairSpec ==
    /\ Spec
    /\ WF_vars(WorkerStep)
    /\ \A a \in Sweepers \cup {Worker} : WF_vars(SweepStep(a))
    /\ \A k \in Keys : WF_vars(Elapse(k))

-----------------------------------------------------------------------------
(* Properties *)

\* Types: rows, captures and evidence; and what the worker and each sweep hold.
TypeOK ==
    /\ row \in [Keys -> Rows]
    /\ attachments \in [Messages -> [Keys -> MaybeUrl \cup {Absent}]]
    /\ evidence \subseteq Channels
    /\ file \subseteq Keys
    /\ auto \in BOOLEAN
    /\ pc \in {"off", "dead", "drain", "recover", "reconcile", "heal",
               "evidence", "select", "plan", "plan_manual", "claim", "take",
               "fetch", "apply", "record", "maintain", "sweep"}
    /\ mode \in {"auto", "manual", "command"}
    /\ target \subseteq Keys
    /\ seen \in [Keys -> Rows \cup {Unread}]
    /\ job \in [Keys -> MaybeUrl \cup {NoJob}]
    /\ out \in [Keys -> Results \cup {"none"}]
    /\ sweep \in [Sweepers \cup {Worker} ->
                    [kind : {"idle", "clear", "enforce"},
                     todo : SUBSET Keys, removed : SUBSET Keys]]

\* A row names a cache file exactly while it is CACHED, although planner,
\* outcome, healing, eviction and import write its state and its path in
\* statements of their own, most of them by key alone.
CachedHasPath == \A k \in Keys : row[k].state = "CACHED" <=> row[k].path

\* A row waiting for rediscovery holds no URL, whatever order outcomes, imports
\* and commands came in: a capture that repeats "no URL" leaves it waiting, any
\* other one recovers it.
UnresolvedHasNoUrl ==
    \A k \in Keys : row[k].state = "UNRESOLVED" => row[k].url = NoUrl

\* "Download again" survives only on rows that something will still act on:
\* never on one that is cached, evicted again or given up.
IntentIsLive ==
    \A k \in Keys : row[k].manual =>
        row[k].state \in {"KNOWN", "QUEUED", "DOWNLOADING", "FAILED_RETRYABLE",
                          "UNRESOLVED", "IGNORED"}

\* A row that will be retried has attempts left, although the count is read
\* before the transaction that decides and imports reset it in between.
RetryableHasBudget ==
    \A k \in Keys : row[k].state = "FAILED_RETRYABLE" =>
        row[k].attempts < MaxAttempts

\* The rows the worker acts on by key alone: those it selected for healing or
\* planning, and those of the downloads in flight.
InHand(k) ==
    \/ pc \in {"heal", "plan", "plan_manual"} /\ seen[k] # Unread
    \/ pc \in {"fetch", "apply", "record"} /\ job[k] # NoJob

\* Why writing by key alone is harmless to the properties above: no row in the
\* worker's hands has been given up, ignored or (while planning) cached, since
\* commands run on the worker's own thread and nobody else takes these steps;
\* an outcome belongs to a download in flight; the attempt count that was read
\* is an upper bound of the row's; and the worker does nothing else while it
\* sweeps the cache.
HandledRowsAreActive ==
    \A k \in Keys : InHand(k) =>
        row[k].state \notin {"NONE", "UNRESOLVED", "STALE_URL", "SOURCE_GONE",
                             "IGNORED"}

PlannedRowsAreUncached ==
    \A k \in Keys : pc = "plan" /\ seen[k] # Unread => row[k].state # "CACHED"

OutcomesAreInFlight ==
    \A k \in Keys :
        /\ job[k] # NoJob => pc \in {"fetch", "apply", "record"}
        /\ out[k] # "none" => job[k] # NoJob
        /\ pc = "record" /\ seen[k] # Unread =>
              out[k] # "none" /\ row[k].attempts <= seen[k].attempts

WorkerSweepsAlone == sweep[Worker].kind # "idle" => pc = "sweep"

\* The inductive invariant behind the safety properties.
IInv ==
    /\ TypeOK
    /\ CachedHasPath /\ UnresolvedHasNoUrl /\ IntentIsLive /\ RetryableHasBudget
    /\ HandledRowsAreActive /\ PlannedRowsAreUncached /\ OutcomesAreInFlight
    /\ WorkerSweepsAlone

\* An Ignore is undone by Retry, by Clear processed, or by the startup
\* normalisation of expired URLs; no capture, plan or outcome undoes it.
IgnoreIsDurable ==
    [][\A k \in Keys :
          row[k].state = "IGNORED" /\ row'[k].state # "IGNORED" =>
              RetryCommand(k) \/ ClearProcessedCommand \/ Start]_vars

\* SOURCE_GONE ends only when a capture shows a URL other than the retained
\* one; no late outcome, stale plan or user command ends it.
SourceGoneIsTerminal ==
    [][\A k \in Keys :
          row[k].state = "SOURCE_GONE" /\ row'[k].state # "SOURCE_GONE" =>
              /\ row'[k].state = "KNOWN"
              /\ row'[k].url \notin {NoUrl, row[k].url}
              /\ \E m \in Messages : attachments'[m][k] = row'[k].url]_vars

\* An evicted object is downloaded again only on the user's request (Download
\* again, or switching automatic download on after a manual clear), whatever
\* planner, outcomes and imports write by key alone while GUI threads sweep the
\* cache; with one exception: a row the worker is about to heal, because a sweep
\* had unlinked its file, and which that sweep evicts before the worker writes.
EvictionIsSticky ==
    [][\A k \in Keys :
          row[k].state = "EVICTED" /\ row'[k].state # "EVICTED" =>
              \/ RecacheCommand(k)
              \/ \E c \in Channels : RecacheScopeCommand(c)
              \/ EnableCommand /\ row[k].cause # "policy"
              \/ Heal /\ seen[k] # Unread]_vars

\* An outcome takes away only the URL that was tried: a URL a capture brought
\* while the download ran is the recovery the row waits for.  The code does not
\* keep to this, nor to the next (README, "Disagreements").
OnlyTriedUrlsAreDropped ==
    [][\A k \in Keys :
          RecordOutcome(k) /\ row[k].url \in Urls /\ row'[k].url = NoUrl =>
              row[k].url = job[k]]_vars

\* The planner never forgets a "download again" for want of a URL.
IntentWaitsForUrl ==
    [][\A k \in Keys :
          (\E big \in SUBSET Keys : Plan(big))
              /\ row[k].manual /\ row[k].url = NoUrl => row'[k].manual]_vars

\* Once users, imports and failures leave the system alone ...
Quiet == <>[][~Environment]_vars

\* ... media that is to be downloaded reaches an outcome, unless a locked
\* database has ended the worker: abandoned claims are recovered, retries end.
Backlog(k) ==
    /\ pc # "dead"
    /\ Referenced(k)
    /\ auto \/ row[k].manual
    /\ row[k].state \in {"KNOWN", "QUEUED", "DOWNLOADING", "FAILED_RETRYABLE"}

BacklogDrains == Quiet => \A k \in Keys : Backlog(k) ~> ~Backlog(k)

\* The planner passes over a row that is TOO_LARGE and stays so.
PassedOver(k) ==
    /\ \E big \in SUBSET Keys : Plan(big)
    /\ seen[k] # Unread /\ seen[k].state = "TOO_LARGE" /\ row'[k].state = "TOO_LARGE"

\* Several attachments compete for a place among the rows that are planned and
\* for the download slots.  Each gets its turn if, in the end, no planning is
\* taken up by rows that are too large, no download ends as TOO_LARGE after the
\* planner found nothing wrong with the size, and no failure is re-armed.
SizesAreKnown ==
    <>[][~ \/ Cardinality({k \in Keys : PassedOver(k)}) >= PlanLimit
           \/ \E k \in Keys : Fetch(k, "TOO_LARGE")
           \/ \E due \in SUBSET Keys : Rearm(due)]_vars

FailuresAreIsolatedOnceSized == SizesAreKnown => BacklogDrains

\* ... and a CACHED row whose file is missing does not stay so.
Lost(k) == pc # "dead" /\ auto /\ row[k].state = "CACHED" /\ k \notin file

LostFilesAreNoticed == Quiet => \A k \in Keys : Lost(k) ~> ~Lost(k)

=============================================================================
