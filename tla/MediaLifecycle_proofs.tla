------------------------ MODULE MediaLifecycle_proofs ------------------------
(***************************************************************************)
(* Proofs about MediaLifecycle for any number of attachments, URLs,        *)
(* messages, channels and cache sweepers, any attempt limit and any number *)
(* of download slots.                                                      *)
(*                                                                         *)
(* The argument has three layers.  A row operator turns a good row into a  *)
(* good row.  An action applies one operator to each row, so good rows     *)
(* stay good provided the worker's hands are clean (no row it holds was    *)
(* given up, ignored or, while planning, cached).  And the hands stay      *)
(* clean because what other threads do to a row is only a drift.           *)
(***************************************************************************)
EXTENDS MediaLifecycle, TLAPS

Live == {"KNOWN", "QUEUED", "DOWNLOADING", "FAILED_RETRYABLE", "UNRESOLVED",
         "IGNORED"}

\* The row invariants, for one row.
RowOK(r) ==
    /\ r.state = "CACHED" <=> r.path
    /\ r.state = "UNRESOLVED" => r.url = NoUrl
    /\ r.manual => r.state \in Live
    /\ r.state = "FAILED_RETRYABLE" => r.attempts < MaxAttempts

GoodRow(r) == r \in Rows /\ RowOK(r)

Passive == {"NONE", "UNRESOLVED", "STALE_URL", "SOURCE_GONE", "IGNORED"}

\* What other threads may do to a row in the worker's hands.
Drift(r, s) ==
    /\ r.state \notin Passive => s.state \notin Passive
    /\ s.attempts <= r.attempts
    /\ r.state # "CACHED" => s.state # "CACHED"

\* A step that neither undoes an Ignore nor ends SOURCE_GONE.
Settled(r, s) ==
    r.state \in {"IGNORED", "SOURCE_GONE"} => s.state = r.state

-----------------------------------------------------------------------------
(* Row operators *)

\* The constants' types, in the form the provers use.
LEMMA Bounds ==
    /\ MaxAttempts \in Nat /\ 0 < MaxAttempts
    /\ 0 \in 0 .. MaxAttempts
    /\ NoUrl \in MaybeUrl
    /\ Worker \notin Sweepers
BY ConstantsOK DEF MaybeUrl

\* The state and cause names are what Rows allows.
LEMMA Names ==
    /\ \A s \in MediaStates : s \in MediaStates \cup {"NONE"}
    /\ Results \subseteq MediaStates
    /\ "NONE" \in MediaStates \cup {"NONE"}
    /\ {"KNOWN", "QUEUED", "DOWNLOADING", "CACHED", "FAILED_PERMANENT",
        "FAILED_RETRYABLE", "UNRESOLVED", "EVICTED", "IGNORED", "SKIPPED",
        "TOO_LARGE", "SOURCE_GONE"} \subseteq MediaStates
    /\ "none" \in Causes
BY DEF MediaStates, Results, Causes

\* An absent row is a good one.
LEMMA NoRowIsGood == GoodRow(NoRow)
<1>1. NoRow \in Rows
  BY Bounds, Names, Zenon DEF NoRow, Rows
<1>2. RowOK(NoRow)
  BY DEF NoRow, RowOK, Live
<1> QED BY <1>1, <1>2 DEF GoodRow

\* A row made eligible again is good, whatever it was.
LEMMA FreshIsGood ==
    ASSUME NEW r \in Rows, NEW u \in MaybeUrl
    PROVE  /\ GoodRow(Fresh(r, u))
           /\ Fresh(r, u).state = "KNOWN"
           /\ Fresh(r, u).url = u
           /\ Fresh(r, u).attempts = 0
<1>1. Fresh(r, u) \in Rows
  <2>1. "KNOWN" \in MediaStates /\ "none" \in Causes
    BY Names
  <2> QED BY <2>1, Bounds, Zenon DEF Fresh, Rows
<1>2. RowOK(Fresh(r, u))
  BY Bounds, SMT DEF Fresh, Rows, RowOK, Live
<1>3. /\ Fresh(r, u).state = "KNOWN"
      /\ Fresh(r, u).url = u
      /\ Fresh(r, u).attempts = 0
  BY SMT DEF Fresh, Rows
<1> QED BY <1>1, <1>2, <1>3 DEF GoodRow

\* register_attachment keeps a row good, lets it drift at most, keeps Ignore,
\* and ends SOURCE_GONE only for a URL other than the retained one.
LEMMA RegisteredIsGood ==
    ASSUME NEW r, GoodRow(r), NEW u \in MaybeUrl, NEW later \in BOOLEAN
    PROVE  /\ GoodRow(Registered(r, u, later))
           /\ Drift(r, Registered(r, u, later))
           /\ r.state = "IGNORED" => Registered(r, u, later).state = "IGNORED"
           /\ r.state = "SOURCE_GONE" =>
                 \/ Registered(r, u, later).state = "SOURCE_GONE"
                 \/ /\ Registered(r, u, later).state = "KNOWN"
                    /\ Registered(r, u, later).url = u
                    /\ u \notin {NoUrl, r.url}
<1> DEFINE s == Registered(r, u, later)
<1>0. r \in Rows /\ RowOK(r)
  BY DEF GoodRow
<1>1. GoodRow(Fresh(r, u)) /\ GoodRow(Fresh(NoRow, u))
  BY <1>0, FreshIsGood, NoRowIsGood DEF GoodRow
<1>2. /\ Fresh(r, u).state = "KNOWN" /\ Fresh(NoRow, u).state = "KNOWN"
      /\ Fresh(r, u).attempts = 0 /\ Fresh(NoRow, u).attempts = 0
      /\ Fresh(r, u).url = u
  BY <1>0, FreshIsGood, NoRowIsGood DEF GoodRow
<1>3. s \in Rows
  BY <1>0, <1>1, Zenon DEF Registered, Rows, GoodRow
<1>4. RowOK(s)
  BY <1>0, <1>1, SMT DEF Registered, Rows, GoodRow, RowOK, Live
<1>5. Drift(r, s)
  BY <1>0, <1>2, Bounds, SMT DEF Registered, Rows, Drift, Passive, RowOK
<1>6. /\ r.state = "IGNORED" => s.state = "IGNORED"
      /\ r.state = "SOURCE_GONE" =>
            \/ s.state = "SOURCE_GONE"
            \/ s.state = "KNOWN" /\ s.url = u /\ u \notin {NoUrl, r.url}
  BY <1>0, <1>2, SMT DEF Registered, CanRecover, Rows
<1> QED BY <1>3, <1>4, <1>5, <1>6 DEF GoodRow
\* The URL put back into a SOURCE_GONE row is a URL or none.
LEMMA ArchivedUrlIsTyped ==
    ASSUME NEW k \in Keys,
           NEW att \in [Messages -> [Keys -> MaybeUrl \cup {Absent}]]
    PROVE  ArchivedUrl(k, att) \in MaybeUrl
<1> DEFINE urls == {att[m][k] : m \in Refs(k, att)} \ {NoUrl}
<1>1. urls \subseteq MaybeUrl
  BY DEF Refs
<1>2. CASE urls = {}
  BY <1>2, Bounds DEF ArchivedUrl
<1>3. CASE urls # {}
  <2>1. (CHOOSE u \in urls : TRUE) \in urls
    BY <1>3
  <2> QED BY <2>1, <1>1, <1>3 DEF ArchivedUrl
<1> QED BY <1>2, <1>3

\* apply_verified keeps every row good and touches only passive rows; what it
\* does is a drift that neither undoes an Ignore nor ends SOURCE_GONE.
LEMMA ApplyVerifiedIsGood ==
    ASSUME NEW rows \in [Keys -> Rows], \A k \in Keys : GoodRow(rows[k]),
           NEW att \in [Messages -> [Keys -> MaybeUrl \cup {Absent}]],
           NEW ev
    PROVE  /\ ApplyVerified(rows, att, ev) \in [Keys -> Rows]
           /\ \A k \in Keys :
                /\ GoodRow(ApplyVerified(rows, att, ev)[k])
                /\ Drift(rows[k], ApplyVerified(rows, att, ev)[k])
                /\ Settled(rows[k], ApplyVerified(rows, att, ev)[k])
                /\ rows[k].state \notin {"UNRESOLVED", "STALE_URL"} =>
                      ApplyVerified(rows, att, ev)[k] = rows[k]
<1> DEFINE after == ApplyVerified(rows, att, ev)
<1> SUFFICES ASSUME NEW k \in Keys
             PROVE  /\ GoodRow(after[k])
                    /\ Drift(rows[k], after[k])
                    /\ Settled(rows[k], after[k])
                    /\ rows[k].state \notin {"UNRESOLVED", "STALE_URL"} =>
                          after[k] = rows[k]
  BY DEF ApplyVerified, GoodRow
<1> DEFINE r == rows[k]
<1>0. r \in Rows /\ RowOK(r)
  BY DEF GoodRow
<1>1. \/ after[k] = r
      \/ r.state \in {"UNRESOLVED", "STALE_URL"} /\ after[k] = Gone(r, k, att)
  BY DEF ApplyVerified
<1>2. CASE after[k] = r
  BY <1>0, <1>2, SMT DEF GoodRow, Drift, Settled, Rows
<1>3. CASE r.state \in {"UNRESOLVED", "STALE_URL"} /\ after[k] = Gone(r, k, att)
  <2>1. "SOURCE_GONE" \in MediaStates
    BY Names
  <2>2. Gone(r, k, att) \in Rows
    BY <1>0, <2>1, ArchivedUrlIsTyped, Zenon DEF Gone, Rows
  <2>3. RowOK(Gone(r, k, att))
    BY <1>0, <1>3, SMT DEF Gone, Rows, RowOK, Live
  <2>4. Drift(r, Gone(r, k, att)) /\ Settled(r, Gone(r, k, att))
    BY <1>0, <1>3, SMT DEF Gone, Rows, Drift, Settled, Passive
  <2> QED BY <1>3, <2>2, <2>3, <2>4 DEF GoodRow
<1> QED BY <1>1, <1>2, <1>3

\* _set_state leaves the cache columns alone, so it must not meet a CACHED row.
LEMMA SetStateIsGood ==
    ASSUME NEW r, GoodRow(r), r.state # "CACHED",
           NEW s \in {"FAILED_PERMANENT", "TOO_LARGE", "SKIPPED"}
    PROVE  GoodRow(SetState(r, s))
<1>0. r \in Rows /\ RowOK(r)
  BY DEF GoodRow
<1>1. s \in MediaStates /\ "none" \in Causes
  BY Names
<1>2. SetState(r, s) \in Rows
  BY <1>0, <1>1, Zenon DEF SetState, Rows
<1>3. RowOK(SetState(r, s))
  BY <1>0, SMT DEF SetState, Rows, RowOK, Live
<1> QED BY <1>2, <1>3 DEF GoodRow

\* Queueing leaves the cache columns alone as well.
LEMMA QueuedIsGood ==
    ASSUME NEW r, GoodRow(r), r.state # "CACHED"
    PROVE  GoodRow(Queued(r)) /\ Queued(r).state = "QUEUED"
<1>0. r \in Rows /\ RowOK(r)
  BY DEF GoodRow
<1>1. "QUEUED" \in MediaStates
  BY Names
<1>2. Queued(r) \in Rows
  BY <1>0, <1>1, Zenon DEF Queued, Rows
<1>3. RowOK(Queued(r)) /\ Queued(r).state = "QUEUED"
  BY <1>0, SMT DEF Queued, Rows, RowOK, Live
<1> QED BY <1>2, <1>3 DEF GoodRow

\* plan() does no harm to a row that is not CACHED.
LEMMA PlannedIsGood ==
    ASSUME NEW s \in Rows, NEW r, GoodRow(r), r.state # "CACHED",
           NEW big \in BOOLEAN
    PROVE  GoodRow(Planned(s, r, big))
<1>1. /\ GoodRow(SetState(r, "FAILED_PERMANENT"))
      /\ GoodRow(SetState(r, "TOO_LARGE"))
      /\ GoodRow(SetState(r, "SKIPPED"))
      /\ GoodRow(Queued(r))
  BY SetStateIsGood, QueuedIsGood
<1> QED BY <1>1 DEF Planned

\* _apply_outcome rewrites the cache columns itself, so any row will do; a retry
\* is scheduled only within the attempts that were read.
LEMMA RecordedIsGood ==
    ASSUME NEW r, GoodRow(r), NEW result \in Results, NEW n,
           result = "FAILED_RETRYABLE" => n \in Nat /\ r.attempts <= n
    PROVE  GoodRow(Recorded(r, result, n))
<1>0. r \in Rows /\ RowOK(r)
  BY DEF GoodRow
<1>1. /\ "none" \in Causes /\ NoUrl \in MaybeUrl
      /\ "CACHED" \in MediaStates /\ "UNRESOLVED" \in MediaStates
      /\ "FAILED_RETRYABLE" \in MediaStates
      /\ "FAILED_PERMANENT" \in MediaStates
      /\ result \in MediaStates
  BY Names, Bounds
<1>2. Recorded(r, result, n) \in Rows
  BY <1>0, <1>1, Zenon DEF Recorded, Rows
<1>3. RowOK(Recorded(r, result, n))
  BY <1>0, Bounds, SMT DEF Recorded, Results, Rows, RowOK, Live
<1> QED BY <1>2, <1>3 DEF GoodRow

\* The planner of requested rows records through _apply_outcome: any row will do.
LEMMA PlannedManuallyIsGood ==
    ASSUME NEW s \in Rows, NEW r, GoodRow(r), NEW big \in BOOLEAN
    PROVE  GoodRow(PlannedManually(s, r, big))
<1>1. /\ GoodRow(Recorded(r, "FAILED_PERMANENT", s.attempts))
      /\ GoodRow(Recorded(r, "TOO_LARGE", s.attempts))
      /\ GoodRow(Recorded(r, "UNRESOLVED", s.attempts))
      /\ GoodRow(Recorded(r, "SKIPPED", s.attempts))
  BY RecordedIsGood DEF Results
<1>2. r.state \in {"KNOWN", "FAILED_RETRYABLE"} => GoodRow(Queued(r))
  BY QueuedIsGood
<1> QED BY <1>1, <1>2 DEF PlannedManually

\* A claim takes a queued row, which has no cache columns to contradict it.
LEMMA ClaimedIsGood ==
    ASSUME NEW r, GoodRow(r), r.state = "QUEUED"
    PROVE  GoodRow(Claimed(r)) /\ Claimed(r).state = "DOWNLOADING"
<1>0. r \in Rows /\ RowOK(r)
  BY DEF GoodRow
<1>1. "DOWNLOADING" \in MediaStates
  BY Names
<1>2. r.attempts < MaxAttempts => r.attempts + 1 \in 0 .. MaxAttempts
  BY <1>0, Bounds, SMT DEF Rows
<1>3. Claimed(r) \in Rows
  BY <1>0, <1>1, <1>2, Zenon DEF Claimed, Rows
<1>4. RowOK(Claimed(r)) /\ Claimed(r).state = "DOWNLOADING"
  BY <1>0, SMT DEF Claimed, Rows, RowOK, Live
<1> QED BY <1>3, <1>4 DEF GoodRow

\* Healing clears the cache columns, so any row will do.
LEMMA HealedIsGood ==
    ASSUME NEW r, GoodRow(r)
    PROVE  GoodRow(Healed(r))
<1>0. r \in Rows /\ RowOK(r)
  BY DEF GoodRow
<1>1. "KNOWN" \in MediaStates /\ "none" \in Causes
  BY Names
<1>2. Healed(r) \in Rows
  BY <1>0, <1>1, Zenon DEF Healed, Rows
<1>3. RowOK(Healed(r))
  BY <1>0, SMT DEF Healed, Rows, RowOK, Live
<1> QED BY <1>2, <1>3 DEF GoodRow

\* So does re-arming, which starts from a terminal failure.
LEMMA RearmedIsGood ==
    ASSUME NEW r, GoodRow(r), r.state = "FAILED_PERMANENT"
    PROVE  GoodRow(Rearmed(r))
<1>0. r \in Rows /\ RowOK(r)
  BY DEF GoodRow
<1>1. "KNOWN" \in MediaStates /\ "none" \in Causes /\ 0 \in 0 .. MaxAttempts
  BY Names, Bounds
<1>2. Rearmed(r) \in Rows
  BY <1>0, <1>1, Zenon DEF Rearmed, Rows
<1>3. RowOK(Rearmed(r))
  BY <1>0, SMT DEF Rearmed, Rows, RowOK, Live
<1> QED BY <1>2, <1>3 DEF GoodRow

\* An eviction is a drift too: sweepers of other threads do it.
LEMMA EvictedIsGood ==
    ASSUME NEW r, GoodRow(r), NEW why \in {"manual_clear", "policy"}
    PROVE  /\ GoodRow(Evicted(r, why))
           /\ r.state = "CACHED" =>
                 Drift(r, Evicted(r, why)) /\ Settled(r, Evicted(r, why))
<1>0. r \in Rows /\ RowOK(r)
  BY DEF GoodRow
<1>1. "EVICTED" \in MediaStates /\ why \in Causes
  BY Names DEF Causes
<1>2. Evicted(r, why) \in Rows
  BY <1>0, <1>1, Zenon DEF Evicted, Rows
<1>3. RowOK(Evicted(r, why))
  BY <1>0, SMT DEF Evicted, Rows, RowOK, Live
<1>4. r.state = "CACHED" =>
        Drift(r, Evicted(r, why)) /\ Settled(r, Evicted(r, why))
  BY <1>0, Bounds, SMT DEF Evicted, Rows, Drift, Settled, Passive
<1> QED BY <1>2, <1>3, <1>4 DEF GoodRow

\* A requested row waits without a URL or is queued with one.
LEMMA RecachedIsGood ==
    ASSUME NEW r, GoodRow(r), r.state # "CACHED"
    PROVE  GoodRow(Recached(r))
<1>0. r \in Rows /\ RowOK(r)
  BY DEF GoodRow
<1>1. /\ "UNRESOLVED" \in MediaStates /\ "QUEUED" \in MediaStates
      /\ "none" \in Causes
  BY Names
<1>2. Recached(r) \in Rows
  BY <1>0, <1>1, Bounds, Zenon DEF Recached, Rows
<1>3. RowOK(Recached(r))
  BY <1>0, SMT DEF Recached, Rows, RowOK, Live
<1> QED BY <1>2, <1>3 DEF GoodRow

\* Sending a row to rediscovery drops its URL.
LEMMA UnresolvedIsGood ==
    ASSUME NEW r, GoodRow(r), r.state \in {"STALE_URL", "IGNORED"}
    PROVE  /\ GoodRow(Unresolved(r))
           /\ GoodRow([Unresolved(r) EXCEPT !.attempts = 0])
<1>0. r \in Rows /\ RowOK(r)
  BY DEF GoodRow
<1>1. "UNRESOLVED" \in MediaStates /\ "none" \in Causes
  BY Names
<1>2. /\ Unresolved(r) \in Rows
      /\ [Unresolved(r) EXCEPT !.attempts = 0] \in Rows
  BY <1>0, <1>1, Bounds, Zenon DEF Unresolved, Rows
<1>3. RowOK(Unresolved(r)) /\ RowOK([Unresolved(r) EXCEPT !.attempts = 0])
  BY <1>0, SMT DEF Unresolved, Rows, RowOK, Live
<1> QED BY <1>2, <1>3 DEF GoodRow
-----------------------------------------------------------------------------
(* The invariant in parts: rows, hands, and the state of everything else *)

RowsGood ==
    /\ row \in [Keys -> Rows]
    /\ \A k \in Keys : GoodRow(row[k])

Elsewhere ==
    /\ attachments \in [Messages -> [Keys -> MaybeUrl \cup {Absent}]]
    /\ evidence \subseteq Channels
    /\ file \subseteq Keys
    /\ auto \in BOOLEAN
    /\ sweep \in [Sweepers \cup {Worker} ->
                    [kind : {"idle", "clear", "enforce"},
                     todo : SUBSET Keys, removed : SUBSET Keys]]
    /\ WorkerSweepsAlone

WorkerTyped ==
    /\ pc \in {"off", "dead", "drain", "recover", "reconcile", "heal",
               "evidence", "select", "plan", "plan_manual", "claim", "take",
               "fetch", "apply", "record", "maintain", "sweep"}
    /\ mode \in {"auto", "manual", "command"}
    /\ target \subseteq Keys
    /\ seen \in [Keys -> Rows \cup {Unread}]
    /\ job \in [Keys -> MaybeUrl \cup {NoJob}]
    /\ out \in [Keys -> Results \cup {"none"}]

Hands == HandledRowsAreActive /\ PlannedRowsAreUncached /\ OutcomesAreInFlight

\* The inductive invariant is the conjunction of these parts, before a step ...
LEMMA Parts ==
    ASSUME IInv
    PROVE  RowsGood /\ Elsewhere /\ WorkerTyped /\ Hands
<1>1. row \in [Keys -> Rows] /\ Elsewhere /\ WorkerTyped
  BY DEF IInv, TypeOK, Elsewhere, WorkerTyped, WorkerSweepsAlone
<1>2. \A k \in Keys : RowOK(row[k])
  BY DEF IInv, CachedHasPath, UnresolvedHasNoUrl, IntentIsLive,
         RetryableHasBudget, RowOK, Live
<1> QED BY <1>1, <1>2 DEF IInv, RowsGood, GoodRow, Hands

\* ... and after it.
LEMMA Whole ==
    ASSUME RowsGood', Elsewhere', WorkerTyped', Hands'
    PROVE  IInv'
<1>1. TypeOK'
  BY DEF RowsGood, Elsewhere, WorkerTyped, TypeOK
<1>2. \A k \in Keys : RowOK(row[k])'
  BY DEF RowsGood, GoodRow
<1>3. /\ CachedHasPath' /\ UnresolvedHasNoUrl' /\ IntentIsLive'
      /\ RetryableHasBudget'
  BY <1>2 DEF CachedHasPath, UnresolvedHasNoUrl, IntentIsLive,
              RetryableHasBudget, RowOK, Live
<1> QED BY <1>1, <1>3 DEF IInv, Hands, Elsewhere

\* A worker with no download in flight has no jobs and no outcomes.
LEMMA NothingInFlight ==
    ASSUME IInv, pc \notin {"fetch", "apply", "record"}
    PROVE  \A k \in Keys : job[k] = NoJob /\ out[k] = "none"
BY DEF IInv, OutcomesAreInFlight

\* Hands that hold nothing are clean.
LEMMA EmptyHands ==
    ASSUME pc' \notin {"heal", "plan", "plan_manual", "fetch", "apply", "record"},
           \A k \in Keys : job'[k] = NoJob /\ out'[k] = "none"
    PROVE  Hands'
BY DEF Hands, HandledRowsAreActive, PlannedRowsAreUncached,
       OutcomesAreInFlight, InHand

\* The hands stay clean when other threads let the rows drift.
LEMMA DriftKeepsInvariant ==
    ASSUME IInv, RowsGood', Elsewhere',
           \A k \in Keys : Drift(row[k], row'[k]),
           UNCHANGED <<pc, batch>>
    PROVE  IInv'
<1>1. RowsGood /\ WorkerTyped /\ Hands
  BY Parts
<1>2. /\ UNCHANGED <<pc, mode, target, seen, job, out>>
      /\ WorkerTyped'
  BY <1>1 DEF batch, WorkerTyped
<1>3. HandledRowsAreActive' /\ PlannedRowsAreUncached'
  BY <1>1, <1>2 DEF Hands, HandledRowsAreActive, PlannedRowsAreUncached,
                    InHand, Drift, Passive
<1>4. OutcomesAreInFlight'
  <2> SUFFICES ASSUME NEW k \in Keys, pc = "record", seen[k] # Unread
               PROVE  out[k] # "none" /\ row'[k].attempts <= seen[k].attempts
    BY <1>1, <1>2 DEF Hands, OutcomesAreInFlight
  <2>1. out[k] # "none" /\ row[k].attempts <= seen[k].attempts
    BY <1>1 DEF Hands, OutcomesAreInFlight
  <2>2. row'[k].attempts <= row[k].attempts
    BY DEF Drift
  <2>3. row[k] \in Rows /\ row'[k] \in Rows /\ seen[k] \in Rows
    BY <1>1 DEF RowsGood, WorkerTyped
  <2>4. /\ row[k].attempts \in Nat /\ row'[k].attempts \in Nat
        /\ seen[k].attempts \in Nat
    BY <2>3, Bounds DEF Rows
  <2> QED BY <2>1, <2>2, <2>4
<1> QED BY <1>2, <1>3, <1>4, Whole DEF Hands

\* A row left alone drifts nowhere.
LEMMA Unmoved ==
    ASSUME NEW r \in Rows
    PROVE  Drift(r, r) /\ Settled(r, r)
BY Bounds, SMT DEF Rows, Drift, Settled

\* Steps of other threads that leave the registry alone.
LEMMA RowsLeftAlone ==
    ASSUME IInv, Elsewhere', UNCHANGED <<row, pc, batch>>
    PROVE  IInv'
<1>1. RowsGood
  BY Parts
<1>2. RowsGood' /\ \A k \in Keys : Drift(row[k], row'[k])
  BY <1>1, Unmoved DEF RowsGood
<1> QED BY <1>2, DriftKeepsInvariant
-----------------------------------------------------------------------------
(* Steps of the importer, the clock and the cache sweepers *)

\* What every step but a few named ones promises of Ignore and SOURCE_GONE.
AllSettled == \A k \in Keys : Settled(row[k], row'[k])

\* A step that writes no row settles trivially.
LEMMA UnmovedIsSettled ==
    ASSUME IInv, UNCHANGED row
    PROVE  AllSettled
BY Parts, Unmoved DEF RowsGood, AllSettled

\* A capture: the rows drift, an Ignore stays, and SOURCE_GONE ends only as
\* can_recover allows.
LEMMA ImportCaptureStep ==
    ASSUME IInv, NEW m \in Messages, NEW shot \in Shots, NEW later \in BOOLEAN,
           ImportCapture(m, shot, later)
    PROVE  /\ IInv'
           /\ \A k \in Keys :
                /\ row[k].state = "IGNORED" => row'[k].state = "IGNORED"
                /\ row[k].state = "SOURCE_GONE" /\ row'[k].state # "SOURCE_GONE" =>
                      /\ row'[k].state = "KNOWN"
                      /\ row'[k].url \notin {NoUrl, row[k].url}
                      /\ attachments'[m][k] = row'[k].url
<1> DEFINE reg == [k \in Keys |-> IF shot[k] = Absent THEN row[k]
                                  ELSE Registered(row[k], shot[k], later)]
<1>1. RowsGood /\ Elsewhere
  BY Parts
<1>2. attachments' \in [Messages -> [Keys -> MaybeUrl \cup {Absent}]]
  BY <1>1 DEF ImportCapture, Elsewhere, Shots
<1>3. ASSUME NEW k \in Keys
      PROVE  /\ GoodRow(reg[k])
             /\ Drift(row[k], reg[k])
             /\ row[k].state = "IGNORED" => reg[k].state = "IGNORED"
             /\ row[k].state = "SOURCE_GONE" /\ reg[k].state # "SOURCE_GONE" =>
                   /\ reg[k].state = "KNOWN"
                   /\ reg[k].url \notin {NoUrl, row[k].url}
                   /\ shot[k] = reg[k].url
  <2>1. GoodRow(row[k]) /\ row[k] \in Rows
    BY <1>1 DEF RowsGood
  <2>2. CASE shot[k] = Absent
    BY <2>1, <2>2, Unmoved
  <2>3. CASE shot[k] # Absent
    <3>1. shot[k] \in MaybeUrl
      BY <2>3 DEF Shots
    <3>2. reg[k] = Registered(row[k], shot[k], later)
      BY <2>3
    <3> HIDE DEF reg
    <3> QED BY <2>1, <3>1, <3>2, RegisteredIsGood
  <2> QED BY <2>2, <2>3
<1>4. reg \in [Keys -> Rows]
  BY <1>3 DEF GoodRow
<1>5. row' = ApplyVerified(reg, attachments', evidence)
  BY DEF ImportCapture
<1> HIDE DEF reg
<1>6. /\ row' \in [Keys -> Rows]
      /\ \A k \in Keys :
           /\ GoodRow(row'[k])
           /\ Drift(reg[k], row'[k])
           /\ Settled(reg[k], row'[k])
           /\ reg[k].state \notin {"UNRESOLVED", "STALE_URL"} => row'[k] = reg[k]
  BY <1>2, <1>3, <1>4, <1>5, ApplyVerifiedIsGood
<1>7. \A k \in Keys : Drift(row[k], row'[k])
  <2> SUFFICES ASSUME NEW k \in Keys
               PROVE  Drift(row[k], row'[k])
    OBVIOUS
  <2>1. Drift(row[k], reg[k]) /\ Drift(reg[k], row'[k])
    BY <1>3, <1>6
  <2>2. /\ row[k].attempts \in Nat /\ reg[k].attempts \in Nat
        /\ row'[k].attempts \in Nat
    BY <1>1, <1>4, <1>6, Bounds DEF RowsGood, Rows
  <2> QED BY <2>1, <2>2 DEF Drift
<1>8. RowsGood'
  BY <1>6 DEF RowsGood
<1>9. Elsewhere' /\ UNCHANGED <<pc, batch>>
  BY <1>1, <1>2 DEF ImportCapture, Elsewhere, WorkerSweepsAlone
<1>10. IInv'
  BY <1>7, <1>8, <1>9, DriftKeepsInvariant
<1>11. \A k \in Keys : attachments'[m][k] = shot[k]
  BY <1>1 DEF ImportCapture, Elsewhere
<1>12. ASSUME NEW k \in Keys
       PROVE  /\ row[k].state = "IGNORED" => row'[k].state = "IGNORED"
              /\ row[k].state = "SOURCE_GONE" /\ row'[k].state # "SOURCE_GONE" =>
                    /\ row'[k].state = "KNOWN"
                    /\ row'[k].url \notin {NoUrl, row[k].url}
                    /\ attachments'[m][k] = row'[k].url
  <2>1. CASE row[k].state = "IGNORED"
    BY <1>3, <1>6, <2>1 DEF Settled
  <2>2. CASE row[k].state = "SOURCE_GONE"
    <3>1. CASE reg[k].state = "SOURCE_GONE"
      BY <1>6, <2>2, <3>1 DEF Settled
    <3>2. CASE reg[k].state # "SOURCE_GONE"
      <4>1. reg[k].state = "KNOWN" /\ row'[k] = reg[k]
        BY <1>3, <1>6, <2>2, <3>2
      <4> QED BY <1>3, <1>11, <2>2, <3>2, <4>1
    <3> QED BY <3>1, <3>2
  <2> QED BY <2>1, <2>2
<1> QED BY <1>10, <1>12

\* A deletion proof: passive rows may become SOURCE_GONE.
LEMMA ImportEvidenceStep ==
    ASSUME IInv, NEW c \in Channels, ImportEvidence(c)
    PROVE  IInv' /\ AllSettled
<1>1. RowsGood /\ Elsewhere
  BY Parts
<1>2. /\ RowsGood'
      /\ \A k \in Keys : Drift(row[k], row'[k]) /\ Settled(row[k], row'[k])
  <2>1. row' = ApplyVerified(row, attachments, evidence')
    BY DEF ImportEvidence
  <2> QED BY <1>1, <2>1, ApplyVerifiedIsGood DEF RowsGood, Elsewhere
<1>3. Elsewhere' /\ UNCHANGED <<pc, batch>>
  BY <1>1 DEF ImportEvidence, Elsewhere, WorkerSweepsAlone
<1> QED BY <1>2, <1>3, DriftKeepsInvariant DEF AllSettled

\* The clock only tells that a timestamp has passed.
LEMMA ElapseStep ==
    ASSUME IInv, NEW i \in Keys, Elapse(i)
    PROVE  IInv' /\ AllSettled
<1>1. RowsGood /\ Elsewhere
  BY Parts
<1> DEFINE s == [row[i] EXCEPT !.elapsed = TRUE]
<1>2. GoodRow(row[i]) /\ row[i] \in Rows /\ RowOK(row[i])
  BY <1>1 DEF RowsGood, GoodRow
<1>3. s \in Rows
  BY <1>2, Zenon DEF Rows
<1>4. RowOK(s) /\ Drift(row[i], s) /\ Settled(row[i], s)
  BY <1>2, Bounds, SMT DEF Rows, RowOK, Live, Drift, Settled
<1>5. row' = [row EXCEPT ![i] = s]
  BY DEF Elapse
<1> HIDE DEF s
<1>6. /\ RowsGood'
      /\ \A k \in Keys : Drift(row[k], row'[k]) /\ Settled(row[k], row'[k])
  BY <1>1, <1>3, <1>4, <1>5, Unmoved DEF RowsGood, GoodRow
<1>7. Elsewhere' /\ UNCHANGED <<pc, batch>>
  BY <1>1 DEF Elapse, archive, Elsewhere, WorkerSweepsAlone
<1> QED BY <1>6, <1>7, DriftKeepsInvariant DEF AllSettled

\* The setting is read by the worker and written by the user.
LEMMA SetAutoStep ==
    ASSUME IInv, NEW b \in BOOLEAN, SetAuto(b)
    PROVE  IInv' /\ AllSettled
<1>1. Elsewhere' /\ UNCHANGED <<row, pc, batch>>
  BY Parts DEF SetAuto, archive, Elsewhere, WorkerSweepsAlone
<1> QED BY <1>1, RowsLeftAlone, UnmovedIsSettled

\* A sweep starts with the files that exist.
LEMMA ListFilesIsTyped ==
    ASSUME IInv, NEW a \in Sweepers \cup {Worker},
           NEW kind \in {"clear", "enforce"}, ListFiles(a, kind)
    PROVE  sweep' \in [Sweepers \cup {Worker} ->
                         [kind : {"idle", "clear", "enforce"},
                          todo : SUBSET Keys, removed : SUBSET Keys]]
<1>1. Elsewhere
  BY Parts
<1>2. [kind |-> kind, todo |-> file, removed |-> {}] \in
         [kind : {"idle", "clear", "enforce"},
          todo : SUBSET Keys, removed : SUBSET Keys]
  BY <1>1 DEF Elsewhere
<1> QED BY <1>1, <1>2 DEF ListFiles, Elsewhere

\* A GUI thread starts a sweep of its own, never the worker's.
LEMMA StartSweepStep ==
    ASSUME IInv, NEW a \in Sweepers, NEW kind \in {"clear", "enforce"},
           StartSweep(a, kind)
    PROVE  IInv' /\ AllSettled
<1>1. Elsewhere' /\ UNCHANGED <<row, pc, batch>>
  BY Parts, ListFilesIsTyped, Bounds
     DEF StartSweep, ListFiles, archive, Elsewhere, WorkerSweepsAlone
<1> QED BY <1>1, RowsLeftAlone, UnmovedIsSettled

\* Handling one listed file changes neither rows nor the worker.
LEMMA HandledStep ==
    ASSUME IInv, NEW a \in Sweepers \cup {Worker}, NEW k \in Keys,
           NEW listed \in BOOLEAN, Handled(a, k, listed), file' \subseteq Keys
    PROVE  IInv' /\ AllSettled
<1>1. Elsewhere
  BY Parts
<1>2. sweep' \in [Sweepers \cup {Worker} ->
                    [kind : {"idle", "clear", "enforce"},
                     todo : SUBSET Keys, removed : SUBSET Keys]]
  BY <1>1 DEF Handled, Elsewhere
<1>3. Elsewhere' /\ UNCHANGED <<row, pc, batch>>
  BY <1>1, <1>2 DEF Handled, archive, Elsewhere, WorkerSweepsAlone
<1> QED BY <1>3, RowsLeftAlone, UnmovedIsSettled

\* The registry update of a sweep: CACHED rows become EVICTED.
LEMMA SyncedRows ==
    ASSUME IInv, NEW a \in Sweepers \cup {Worker}, NEW synced \in BOOLEAN,
           SyncRegistry(a, synced)
    PROVE  /\ RowsGood' /\ AllSettled
           /\ \A k \in Keys : Drift(row[k], row'[k])
           /\ Elsewhere'
<1>1. RowsGood /\ Elsewhere
  BY Parts
<1> DEFINE why == IF sweep[a].kind = "clear" THEN "manual_clear" ELSE "policy"
<1>2. why \in {"manual_clear", "policy"}
  OBVIOUS
<1>3. \A k \in Keys : \/ row'[k] = row[k]
                      \/ row[k].state = "CACHED" /\ row'[k] = Evicted(row[k], why)
  BY DEF SyncRegistry
<1>4. row' = [k \in Keys |-> row'[k]]
  BY DEF SyncRegistry
<1> HIDE DEF why
<1>5. ASSUME NEW k \in Keys
      PROVE  GoodRow(row'[k]) /\ Drift(row[k], row'[k]) /\ Settled(row[k], row'[k])
  <2>1. GoodRow(row[k]) /\ row[k] \in Rows
    BY <1>1 DEF RowsGood
  <2> QED BY <1>2, <1>3, <2>1, EvictedIsGood, Unmoved
<1>6. RowsGood'
  <2>1. \A k \in Keys : row'[k] \in Rows
    BY <1>5 DEF GoodRow
  <2> QED BY <1>4, <1>5, <2>1, Zenon DEF RowsGood
<1>7. Elsewhere'
  BY <1>1 DEF SyncRegistry, archive, Elsewhere, WorkerSweepsAlone, Idle
<1> QED BY <1>5, <1>6, <1>7 DEF AllSettled
\* Whatever a sweep does, the registry drifts and the worker goes on.
LEMMA SweepSteps ==
    ASSUME IInv, NEW a \in Sweepers \cup {Worker}, SweepStep(a)
    PROVE  IInv' /\ AllSettled
<1>1. Elsewhere /\ WorkerTyped
  BY Parts
<1>2. ASSUME NEW k \in Keys, RemoveFile(a, k) \/ SpareFile(a, k) \/ KeepLockedFile(a, k)
      PROVE  IInv' /\ AllSettled
  <2>1. CASE RemoveFile(a, k)
    BY <1>1, <2>1, HandledStep DEF RemoveFile, Elsewhere
  <2>2. CASE SpareFile(a, k)
    BY <1>1, <2>2, HandledStep DEF SpareFile, Elsewhere
  <2>3. CASE KeepLockedFile(a, k)
    BY <1>1, <2>3, HandledStep DEF KeepLockedFile, Elsewhere
  <2> QED BY <1>2, <2>1, <2>2, <2>3
<1>3. ASSUME NEW synced \in BOOLEAN, SyncRegistry(a, synced)
      PROVE  IInv' /\ AllSettled
  <2>1. /\ RowsGood' /\ AllSettled /\ Elsewhere'
        /\ \A k \in Keys : Drift(row[k], row'[k])
    BY <1>3, SyncedRows
  <2>2. CASE a \in Sweepers
    <3>1. UNCHANGED <<pc, batch>>
      BY <1>3, <2>2, Bounds DEF SyncRegistry
    <3> QED BY <2>1, <3>1, DriftKeepsInvariant
  <2>3. CASE a = Worker
    <3>1. pc = "sweep" /\ pc' = "drain" /\ UNCHANGED batch
      BY <1>1, <1>3, <2>3 DEF SyncRegistry, Elsewhere, WorkerSweepsAlone
    <3>2. WorkerTyped'
      BY <1>1, <3>1 DEF WorkerTyped, batch
    <3>3. \A k \in Keys : job'[k] = NoJob /\ out'[k] = "none"
      BY <3>1, NothingInFlight DEF batch
    <3>4. Hands'
      BY <3>1, <3>3, EmptyHands
    <3> QED BY <2>1, <3>2, <3>4, Whole
  <2> QED BY <2>2, <2>3
<1>4. {TRUE, ~DbMayFail} \subseteq BOOLEAN
  BY ConstantsOK
<1> QED BY <1>2, <1>3, <1>4 DEF SweepStep

-----------------------------------------------------------------------------
(* Steps of the worker *)

\* A worker step that leaves its hands empty owes only good rows.
LEMMA HandsFreeStep ==
    ASSUME IInv, RowsGood', Elsewhere', WorkerTyped',
           pc \notin {"fetch", "apply", "record"},
           pc' \notin {"heal", "plan", "plan_manual", "fetch", "apply", "record"},
           UNCHANGED <<job, out>>
    PROVE  IInv'
<1>1. \A k \in Keys : job'[k] = NoJob /\ out'[k] = "none"
  BY NothingInFlight
<1> QED BY <1>1, EmptyHands, Whole

\* The startup normalisation drops expired URLs and wakes awaiting rows.
LEMMA StartStep ==
    ASSUME IInv, Start
    PROVE  /\ IInv'
           /\ \A k \in Keys : row[k].state = "SOURCE_GONE" => row'[k] = row[k]
<1>1. RowsGood /\ Elsewhere /\ WorkerTyped
  BY Parts
<1>2. RowsGood'
  <2>1. \A k \in Keys : GoodRow(row'[k]) /\ row'[k] \in Rows
    BY <1>1, UnresolvedIsGood DEF Start, RowsGood, GoodRow
  <2>2. row' \in [Keys -> Rows]
    BY <1>1, <2>1 DEF Start, RowsGood
  <2> QED BY <2>1, <2>2 DEF RowsGood
<1>3. Elsewhere' /\ WorkerTyped' /\ UNCHANGED <<job, out>>
  BY <1>1 DEF Start, archive, batch, Elsewhere, WorkerTyped, WorkerSweepsAlone
<1>4. IInv'
  BY <1>2, <1>3, HandsFreeStep DEF Start
<1> QED BY <1>4 DEF Start

\* A command that is one UPDATE.
LEMMA CommandUpdateStep ==
    ASSUME IInv, NEW updated, CommandUpdate(updated),
           \A k \in Keys : k \in DOMAIN updated => GoodRow(updated[k])
    PROVE  IInv'
<1>1. RowsGood /\ Elsewhere /\ WorkerTyped
  BY Parts
<1>2. RowsGood'
  <2>1. \A k \in Keys : GoodRow(row'[k]) /\ row'[k] \in Rows
    BY <1>1 DEF CommandUpdate, RowsGood, GoodRow
  <2>2. row' \in [Keys -> Rows]
    BY <1>1, <2>1 DEF CommandUpdate, RowsGood
  <2> QED BY <2>1, <2>2 DEF RowsGood
<1>3. Elsewhere' /\ WorkerTyped' /\ UNCHANGED <<pc, job, out>>
  BY <1>1 DEF CommandUpdate, archive, batch, Elsewhere, WorkerTyped, WorkerSweepsAlone
<1> QED BY <1>2, <1>3, HandsFreeStep DEF CommandUpdate
\* Switching automatic download on re-arms rows the user had cleared.
LEMMA EnableStep ==
    ASSUME IInv, EnableCommand
    PROVE  IInv' /\ AllSettled
<1> DEFINE armed(k) == [row[k] EXCEPT !.state = "KNOWN", !.attempts = 0,
                                      !.elapsed = TRUE, !.cause = "none"]
           cleared == {k \in Keys : /\ row[k].state = "EVICTED"
                                    /\ row[k].cause \in {"manual_clear", "legacy"}}
           updated == [k \in cleared |-> armed(k)]
<1>1. RowsGood
  BY Parts
<1>2. CommandUpdate(updated)
  BY DEF EnableCommand
<1>3. ASSUME NEW k \in Keys, row[k].state = "EVICTED"
      PROVE  GoodRow(armed(k))
  <2>1. row[k] \in Rows /\ RowOK(row[k])
    BY <1>1 DEF RowsGood, GoodRow
  <2>2. "KNOWN" \in MediaStates /\ "none" \in Causes
    BY Names
  <2>3. armed(k) \in Rows
    BY <2>1, <2>2, Bounds, Zenon DEF Rows
  <2>4. RowOK(armed(k))
    BY <1>3, <2>1, Bounds, SMT DEF Rows, RowOK, Live
  <2> QED BY <2>3, <2>4 DEF GoodRow
<1>4. \A k \in Keys : k \in DOMAIN updated => GoodRow(updated[k])
  BY <1>3
<1>5. AllSettled
  <2>1. \A k \in Keys : row[k].state # "EVICTED" => row'[k] = row[k]
    BY <1>2 DEF CommandUpdate
  <2> QED BY <2>1 DEF AllSettled, Settled
<1> HIDE DEF updated
<1>6. IInv'
  BY <1>2, <1>4, CommandUpdateStep
<1> QED BY <1>5, <1>6

\* Ignoring a failed row keeps it good.
LEMMA IgnoredIsGood ==
    ASSUME NEW r, GoodRow(r), r.state \in {"FAILED_PERMANENT", "FAILED_RETRYABLE"}
    PROVE  GoodRow(Ignored(r))
<1>0. r \in Rows /\ RowOK(r)
  BY DEF GoodRow
<1>1. "IGNORED" \in MediaStates
  BY Names
<1>2. Ignored(r) \in Rows
  BY <1>0, <1>1, Zenon DEF Ignored, Rows
<1>3. RowOK(Ignored(r))
  BY <1>0, SMT DEF Ignored, Rows, RowOK, Live
<1> QED BY <1>2, <1>3 DEF GoodRow

\* Ignore: only a failed row is written.
LEMMA IgnoreStep ==
    ASSUME IInv, NEW i \in Keys, IgnoreCommand(i)
    PROVE  IInv' /\ AllSettled
<1> DEFINE updated == [k \in {i} |-> Ignored(row[k])]
<1>1. CommandUpdate(updated)
  BY DEF IgnoreCommand
<1>2. \A k \in Keys : k \in DOMAIN updated => GoodRow(updated[k])
  BY Parts, IgnoredIsGood DEF IgnoreCommand, RowsGood
<1>3. AllSettled
  <2>1. \A k \in Keys : k # i => row'[k] = row[k]
    BY <1>1 DEF CommandUpdate
  <2>2. row[i].state \notin {"IGNORED", "SOURCE_GONE"}
    BY DEF IgnoreCommand
  <2> QED BY <2>1, <2>2 DEF AllSettled, Settled
<1> HIDE DEF updated
<1>4. IInv'
  BY <1>1, <1>2, CommandUpdateStep
<1> QED BY <1>3, <1>4

\* Ignore all: only failed rows are written.
LEMMA IgnoreAllStep ==
    ASSUME IInv, IgnoreAllCommand
    PROVE  IInv' /\ AllSettled
<1> DEFINE failed == {k \in Keys : row[k].state = "FAILED_PERMANENT"}
           updated == [k \in failed |-> Ignored(row[k])]
<1>1. CommandUpdate(updated)
  BY DEF IgnoreAllCommand
<1>2. \A k \in Keys : k \in DOMAIN updated => GoodRow(updated[k])
  BY Parts, IgnoredIsGood DEF RowsGood
<1>3. AllSettled
  <2>1. \A k \in Keys : row[k].state # "FAILED_PERMANENT" => row'[k] = row[k]
    BY <1>1 DEF CommandUpdate
  <2> QED BY <2>1 DEF AllSettled, Settled
<1> HIDE DEF updated
<1>4. IInv'
  BY <1>1, <1>2, CommandUpdateStep
<1> QED BY <1>3, <1>4

\* No step but a capture ends SOURCE_GONE.
GoneKept ==
    \A k \in Keys : row[k].state = "SOURCE_GONE" => row'[k].state = "SOURCE_GONE"

\* Clear processed sends ignored rows to rediscovery.
LEMMA ClearProcessedStep ==
    ASSUME IInv, ClearProcessedCommand
    PROVE  IInv' /\ GoneKept
<1> DEFINE ignored == {k \in Keys : row[k].state = "IGNORED"}
           updated == [k \in ignored |-> [Unresolved(row[k]) EXCEPT !.attempts = 0]]
<1>1. CommandUpdate(updated)
  BY DEF ClearProcessedCommand
<1>2. \A k \in Keys : k \in DOMAIN updated => GoodRow(updated[k])
  BY Parts, UnresolvedIsGood DEF RowsGood
<1>3. GoneKept
  <2>1. \A k \in Keys : row[k].state # "IGNORED" => row'[k] = row[k]
    BY <1>1 DEF CommandUpdate
  <2> QED BY <2>1 DEF GoneKept
<1> HIDE DEF updated
<1>4. IInv'
  BY <1>1, <1>2, CommandUpdateStep
<1> QED BY <1>3, <1>4

\* Download a branch again: only evicted rows are written.
LEMMA RecacheScopeStep ==
    ASSUME IInv, NEW c \in Channels, RecacheScopeCommand(c)
    PROVE  IInv' /\ AllSettled
<1> DEFINE scope == {k \in Keys : /\ row[k].state = "EVICTED"
                                  /\ \E m \in Refs(k, attachments) : ChannelOf[m] = c}
           updated == [k \in scope |-> Recached(row[k])]
<1>1. CommandUpdate(updated)
  BY DEF RecacheScopeCommand
<1>2. \A k \in Keys : k \in DOMAIN updated => GoodRow(updated[k])
  BY Parts, RecachedIsGood DEF RowsGood
<1>3. AllSettled
  <2>1. \A k \in Keys : row[k].state # "EVICTED" => row'[k] = row[k]
    BY <1>1 DEF CommandUpdate
  <2> QED BY <2>1 DEF AllSettled, Settled
<1> HIDE DEF updated
<1>4. IInv'
  BY <1>1, <1>2, CommandUpdateStep
<1> QED BY <1>3, <1>4

\* Retry and "download again" replace one row before the worker claims it.
LEMMA CommandDownloadStep ==
    ASSUME IInv, NEW i \in Keys, NEW r, GoodRow(r), pc = "drain",
           CommandDownload(i, r)
    PROVE  IInv' /\ \A k \in Keys : k # i => row'[k] = row[k]
<1>1. RowsGood /\ Elsewhere /\ WorkerTyped
  BY Parts
<1>2. row' = [row EXCEPT ![i] = r]
  BY DEF CommandDownload
<1>3. RowsGood' /\ \A k \in Keys : k # i => row'[k] = row[k]
  BY <1>1, <1>2 DEF RowsGood, GoodRow
<1>4. /\ Elsewhere' /\ WorkerTyped' /\ UNCHANGED <<job, out>>
      /\ pc' \in {"drain", "claim"}
  BY <1>1 DEF CommandDownload, archive, Elsewhere, WorkerTyped, WorkerSweepsAlone
<1> QED BY <1>3, <1>4, HandsFreeStep

\* Retry may end the Ignore of the row it is for, and of no other.
LEMMA RetryStep ==
    ASSUME IInv, NEW i \in Keys, RetryCommand(i)
    PROVE  /\ IInv' /\ GoneKept
           /\ \A k \in Keys : k # i => row'[k] = row[k]
<1> DEFINE r == [Queued(row[i]) EXCEPT !.attempts = 0, !.cause = "none"]
<1>1. GoodRow(row[i])
  BY Parts DEF RowsGood
<1>2. row[i].state \in {"FAILED_PERMANENT", "FAILED_RETRYABLE", "IGNORED",
                        "STALE_URL"}
  BY DEF RetryCommand
<1>3. GoodRow(r)
  <2>1. row[i] \in Rows /\ RowOK(row[i])
    BY <1>1 DEF GoodRow
  <2>2. "QUEUED" \in MediaStates /\ "none" \in Causes
    BY Names
  <2>3. r \in Rows
    BY <2>1, <2>2, Bounds, Zenon DEF Queued, Rows
  <2>4. RowOK(r)
    BY <1>2, <2>1, SMT DEF Queued, Rows, RowOK, Live
  <2> QED BY <2>3, <2>4 DEF GoodRow
<1>4. pc = "drain" /\ CommandDownload(i, r)
  BY DEF RetryCommand
<1> HIDE DEF r
<1>5. IInv' /\ \A k \in Keys : k # i => row'[k] = row[k]
  BY <1>3, <1>4, CommandDownloadStep
<1>6. GoneKept
  BY <1>2, <1>5 DEF GoneKept
<1> QED BY <1>5, <1>6

\* Download again: only an evicted row is written.
LEMMA RecacheStep ==
    ASSUME IInv, NEW i \in Keys, RecacheCommand(i)
    PROVE  IInv' /\ AllSettled
<1>1. GoodRow(row[i]) /\ row[i].state = "EVICTED"
  BY Parts DEF RowsGood, RecacheCommand
<1>2. GoodRow(Recached(row[i]))
  BY <1>1, RecachedIsGood
<1>3. IInv' /\ \A k \in Keys : k # i => row'[k] = row[k]
  BY <1>2, CommandDownloadStep DEF RecacheCommand
<1>4. AllSettled
  BY <1>1, <1>3 DEF AllSettled, Settled
<1> QED BY <1>3, <1>4

\* A SELECT returns rows of the keys it is asked for.
LEMMA ReadRows ==
    ASSUME RowsGood, NEW keys, Read(keys)
    PROVE  /\ seen' \in [Keys -> Rows \cup {Unread}]
           /\ \A k \in Keys : seen'[k] # Unread => k \in keys
BY DEF RowsGood, Read

\* Worker steps that touch no row and hold none afterwards.
LEMMA IdleSteps ==
    ASSUME IInv, \/ BeginCycle \/ PlanManualDone \/ SelectClaims
                 \/ MaintainCache \/ StopRuntime
    PROVE  IInv' /\ AllSettled
<1>1. RowsGood /\ Elsewhere /\ WorkerTyped
  BY Parts
<1>2. UNCHANGED <<row, job, out>>
  BY DEF BeginCycle, PlanManualDone, SelectClaims, MaintainCache, StopRuntime, batch
<1>3. RowsGood'
  BY <1>1, <1>2 DEF RowsGood
<1>4. Elsewhere'
  <2>1. CASE MaintainCache
    <3>1. \/ ListFiles(Worker, "enforce") /\ pc' = "sweep"
          \/ UNCHANGED sweep /\ pc' = "drain"
      BY <2>1 DEF MaintainCache
    <3>2. sweep' \in [Sweepers \cup {Worker} ->
                        [kind : {"idle", "clear", "enforce"},
                         todo : SUBSET Keys, removed : SUBSET Keys]]
      BY <1>1, <3>1, ListFilesIsTyped DEF Elsewhere
    <3> QED BY <1>1, <2>1, <3>1, <3>2
           DEF MaintainCache, archive, Elsewhere, WorkerSweepsAlone
  <2>2. CASE ~MaintainCache
    BY <1>1, <2>2 DEF BeginCycle, PlanManualDone, SelectClaims, StopRuntime,
                      archive, Elsewhere, WorkerSweepsAlone
  <2> QED BY <2>1, <2>2
<1>5. WorkerTyped'
  <2>1. CASE SelectClaims
    <3>1. seen' \in [Keys -> Rows \cup {Unread}]
      BY <1>1, <2>1, ReadRows DEF SelectClaims
    <3> QED BY <1>1, <2>1, <3>1 DEF SelectClaims, WorkerTyped
  <2>2. CASE ~SelectClaims
    BY <1>1, <2>2 DEF BeginCycle, PlanManualDone, MaintainCache, StopRuntime, batch,
       WorkerTyped
  <2> QED BY <2>1, <2>2
<1>6. /\ pc \notin {"fetch", "apply", "record"}
      /\ pc' \notin {"heal", "plan", "plan_manual", "fetch", "apply", "record"}
  BY DEF BeginCycle, PlanManualDone, SelectClaims, MaintainCache, StopRuntime
<1>7. IInv'
  BY <1>2, <1>3, <1>4, <1>5, <1>6, HandsFreeStep
<1> QED BY <1>2, <1>7, UnmovedIsSettled

\* Taking back abandoned claims writes rows that were being downloaded.
LEMMA RecoverStep ==
    ASSUME IInv, RecoverAbandoned
    PROVE  IInv' /\ AllSettled
<1>1. RowsGood /\ Elsewhere /\ WorkerTyped
  BY Parts
<1>2. \A k \in Keys : /\ GoodRow(row'[k])
                      /\ row[k].state # "DOWNLOADING" => row'[k] = row[k]
  BY <1>1, QueuedIsGood DEF RecoverAbandoned, RowsGood
<1>3. RowsGood'
  BY <1>1, <1>2 DEF RecoverAbandoned, RowsGood, GoodRow
<1>4. Elsewhere' /\ WorkerTyped' /\ UNCHANGED <<job, out>>
  BY <1>1 DEF RecoverAbandoned, archive, batch, Elsewhere, WorkerTyped,
              WorkerSweepsAlone
<1>5. IInv'
  BY <1>3, <1>4, HandsFreeStep DEF RecoverAbandoned
<1> QED BY <1>2, <1>5 DEF AllSettled, Settled

\* The worker takes rows into its hands: missing files, or candidates.
LEMMA SelectSteps ==
    ASSUME IInv, Reconcile \/ Select
    PROVE  IInv' /\ AllSettled
<1>1. RowsGood /\ Elsewhere /\ WorkerTyped
  BY Parts
<1>2. UNCHANGED <<row, archive, file, auto, mode, target, job, out, sweep>>
  BY DEF Reconcile, Select
<1>3. \A k \in Keys : job'[k] = NoJob /\ out'[k] = "none"
  BY <1>2, NothingInFlight DEF Reconcile, Select
<1>4. RowsGood' /\ Elsewhere'
  BY <1>1, <1>2 DEF Reconcile, Select, archive, RowsGood, Elsewhere,
                    WorkerSweepsAlone
<1> DEFINE candidates == {k \in Keys : Candidate(k)}
<1>0. Select => Read(Oldest(candidates, PlanLimit))
  BY DEF Select
<1> HIDE DEF candidates
<1>5. WorkerTyped'
  <2>1. \A k \in Keys : row[k] \in Rows
    BY <1>1 DEF RowsGood
  <2>2. seen' \in [Keys -> Rows \cup {Unread}]
    <3>1. CASE Select
      BY <1>0, <1>1, <3>1, ReadRows
    <3>2. CASE Reconcile
      BY <2>1, <3>2 DEF Reconcile
    <3> QED BY <3>1, <3>2
  <2>3. pc' \in {"evidence", "heal", "plan", "plan_manual"}
    BY DEF Reconcile, Select
  <2> QED BY <1>1, <1>2, <2>2, <2>3 DEF WorkerTyped
<1>6. pc' \in {"evidence", "heal", "plan", "plan_manual"}
  BY DEF Reconcile, Select
<1>7. \A k \in Keys : seen'[k] # Unread =>
         /\ row[k].state \notin Passive
         /\ pc' = "plan" => row[k].state # "CACHED"
  <2>1. CASE Reconcile
    BY <2>1 DEF Reconcile, Passive
  <2>2. CASE Select
    <3>1. \A k \in Keys : seen'[k] # Unread => k \in Oldest(candidates, PlanLimit)
      BY <1>0, <1>1, <2>2, ReadRows
    <3>2. \A k \in Oldest(candidates, PlanLimit) : Candidate(k)
      BY DEF Oldest, candidates
    <3> QED BY <2>2, <3>1, <3>2 DEF Select, Candidate, Plannable, Passive
  <2> QED BY <2>1, <2>2
<1>8. Hands'
  BY <1>2, <1>3, <1>6, <1>7 DEF Hands, HandledRowsAreActive, PlannedRowsAreUncached,
     OutcomesAreInFlight, InHand, Passive
<1> QED BY <1>2, <1>4, <1>5, <1>8, Whole, UnmovedIsSettled

\* Healing finds active rows in the worker's hands, so no Ignore is undone.
LEMMA HealStep ==
    ASSUME IInv, Heal
    PROVE  IInv' /\ AllSettled
<1>1. RowsGood /\ Elsewhere /\ WorkerTyped /\ Hands
  BY Parts
<1>2. \A k \in Keys : /\ GoodRow(row'[k])
                      /\ seen[k] = Unread => row'[k] = row[k]
  BY <1>1, HealedIsGood DEF Heal, RowsGood
<1>3. RowsGood'
  BY <1>1, <1>2 DEF Heal, RowsGood, GoodRow
<1>4. Elsewhere' /\ WorkerTyped' /\ UNCHANGED <<job, out>>
  BY <1>1 DEF Heal, archive, Elsewhere, WorkerTyped, WorkerSweepsAlone,
              NothingSeen
<1>5. IInv'
  BY <1>3, <1>4, HandsFreeStep DEF Heal
<1>6. \A k \in Keys : seen[k] # Unread => row[k].state \notin {"IGNORED", "SOURCE_GONE"}
  BY <1>1 DEF Heal, Hands, HandledRowsAreActive, InHand
<1> QED BY <1>2, <1>5, <1>6 DEF AllSettled, Settled

\* Re-arming touches terminal failures only, so no Ignore is undone.
LEMMA RearmStep ==
    ASSUME IInv, NEW due, Rearm(due)
    PROVE  IInv' /\ AllSettled
<1>1. RowsGood /\ Elsewhere /\ WorkerTyped
  BY Parts
<1>2. \A k \in Keys : /\ GoodRow(row'[k])
                      /\ row[k].state # "FAILED_PERMANENT" => row'[k] = row[k]
  BY <1>1, RearmedIsGood DEF Rearm, RowsGood
<1>3. RowsGood'
  BY <1>1, <1>2 DEF Rearm, RowsGood, GoodRow
<1>4. Elsewhere' /\ WorkerTyped' /\ UNCHANGED <<job, out>>
  BY <1>1 DEF Rearm, archive, batch, Elsewhere, WorkerTyped, WorkerSweepsAlone
<1>5. IInv'
  BY <1>3, <1>4, HandsFreeStep DEF Rearm
<1> QED BY <1>2, <1>5 DEF AllSettled, Settled

\* The evidence pass of plan(): passive rows may become SOURCE_GONE.
LEMMA PassEvidenceStep ==
    ASSUME IInv, PassEvidence
    PROVE  IInv' /\ AllSettled
<1>1. RowsGood /\ Elsewhere /\ WorkerTyped
  BY Parts
<1>2. RowsGood' /\ \A k \in Keys : Settled(row[k], row'[k])
  BY <1>1, ApplyVerifiedIsGood DEF PassEvidence, RowsGood, Elsewhere
<1>3. Elsewhere' /\ WorkerTyped' /\ UNCHANGED <<job, out>>
  BY <1>1 DEF PassEvidence, archive, batch, Elsewhere, WorkerTyped,
              WorkerSweepsAlone
<1>4. IInv'
  BY <1>2, <1>3, HandsFreeStep DEF PassEvidence
<1> QED BY <1>2, <1>4 DEF AllSettled

\* Planning: what was selected is still active and not CACHED.
LEMMA PlanStep ==
    ASSUME IInv, NEW big \in SUBSET Keys, Plan(big)
    PROVE  IInv' /\ AllSettled
<1>1. RowsGood /\ Elsewhere /\ WorkerTyped /\ Hands
  BY Parts
<1>2. \A k \in Keys : seen[k] # Unread =>
         /\ seen[k] \in Rows
         /\ row[k].state \notin {"CACHED", "IGNORED", "SOURCE_GONE"}
  BY <1>1 DEF Plan, WorkerTyped, Hands, HandledRowsAreActive,
              PlannedRowsAreUncached, InHand
<1>3. \A k \in Keys : /\ GoodRow(row'[k])
                      /\ seen[k] = Unread => row'[k] = row[k]
  <2> SUFFICES ASSUME NEW k \in Keys
               PROVE  /\ GoodRow(row'[k])
                      /\ seen[k] = Unread => row'[k] = row[k]
    OBVIOUS
  <2>1. GoodRow(row[k])
    BY <1>1 DEF RowsGood
  <2>2. seen[k] # Unread => GoodRow(Planned(seen[k], row[k], k \in big))
    BY <1>2, <2>1, PlannedIsGood, (k \in big) \in BOOLEAN
  <2>3. row'[k] = IF seen[k] = Unread THEN row[k]
                  ELSE Planned(seen[k], row[k], k \in big)
    BY DEF Plan
  <2> QED BY <2>1, <2>2, <2>3
<1>4. RowsGood'
  BY <1>1, <1>3 DEF Plan, RowsGood, GoodRow
<1>5. Elsewhere' /\ WorkerTyped' /\ UNCHANGED <<job, out>>
  BY <1>1 DEF Plan, archive, Elsewhere, WorkerTyped, WorkerSweepsAlone, NothingSeen
<1>6. IInv'
  BY <1>4, <1>5, HandsFreeStep DEF Plan
<1> QED BY <1>2, <1>3, <1>6 DEF AllSettled, Settled
\* Planning a requested row: it is active, so neither verdict undoes an Ignore,
\* and the rows still in hand are too active for apply_verified.
LEMMA PlanManualStep ==
    ASSUME IInv, NEW i \in Keys, NEW big \in BOOLEAN, PlanManual(i, big)
    PROVE  IInv' /\ AllSettled
<1>1. RowsGood /\ Elsewhere /\ WorkerTyped /\ Hands
  BY Parts
<1> DEFINE planned == [row EXCEPT ![i] = PlannedManually(seen[i], row[i], big)]
<1>2. /\ seen[i] \in Rows
      /\ \A k \in Keys : seen[k] # Unread => row[k].state \notin Passive
  BY <1>1 DEF PlanManual, WorkerTyped, Hands, HandledRowsAreActive, InHand, Passive
<1>3. planned \in [Keys -> Rows] /\ \A k \in Keys : GoodRow(planned[k])
  <2>1. GoodRow(PlannedManually(seen[i], row[i], big))
    BY <1>1, <1>2, PlannedManuallyIsGood DEF RowsGood
  <2> QED BY <1>1, <2>1 DEF RowsGood, GoodRow
<1>4. \A k \in Keys : k # i => planned[k] = row[k]
  BY <1>1 DEF RowsGood
<1>5. \/ row' = planned
      \/ row' = ApplyVerified(planned, attachments, evidence)
  BY DEF PlanManual
<1> HIDE DEF planned
<1>6. /\ RowsGood'
      /\ \A k \in Keys : k # i => /\ Settled(row[k], row'[k])
                                  /\ row[k].state \notin Passive => row'[k] = row[k]
  <2>1. CASE row' = planned
    BY <1>1, <1>3, <1>4, <2>1, Unmoved DEF RowsGood
  <2>2. CASE row' = ApplyVerified(planned, attachments, evidence)
    BY <1>1, <1>3, <1>4, <2>2, ApplyVerifiedIsGood DEF RowsGood, Elsewhere, Passive
  <2> QED BY <1>5, <2>1, <2>2
<1>7. row[i].state \notin Passive
  BY <1>2 DEF PlanManual
<1>8. Elsewhere' /\ WorkerTyped'
  BY <1>1 DEF PlanManual, archive, Elsewhere, WorkerTyped, WorkerSweepsAlone
<1>9. Hands'
  <2>1. /\ pc = "plan_manual" /\ UNCHANGED <<pc, job, out>>
        /\ \A k \in Keys : seen'[k] # Unread => k # i /\ seen[k] # Unread
    BY <1>1 DEF PlanManual, WorkerTyped
  <2>2. \A k \in Keys : job[k] = NoJob /\ out[k] = "none"
    BY <2>1, NothingInFlight
  <2>3. \A k \in Keys : seen'[k] # Unread => row'[k].state \notin Passive
    BY <1>2, <1>6, <2>1
  <2> QED BY <2>1, <2>2, <2>3 DEF Hands, HandledRowsAreActive,
          PlannedRowsAreUncached, OutcomesAreInFlight, InHand, Passive
<1> QED BY <1>6, <1>7, <1>8, <1>9, Whole DEF AllSettled, Settled, Passive

\* Claiming: what is taken was queued, so it becomes an active row in hand.
LEMMA TakeStep ==
    ASSUME IInv, TakeClaims
    PROVE  IInv' /\ AllSettled
<1>1. RowsGood /\ Elsewhere /\ WorkerTyped
  BY Parts
<1> DEFINE taken == {k \in Keys : seen[k] # Unread /\ Claimable(k)}
<1>2. /\ row' = [k \in Keys |-> IF k \in taken THEN Claimed(row[k]) ELSE row[k]]
      /\ job' = [k \in Keys |-> IF k \in taken THEN seen[k].url ELSE NoJob]
      /\ pc' = IF taken = {} THEN BatchDone ELSE "fetch"
      /\ seen' = NothingSeen
      /\ UNCHANGED <<archive, file, auto, mode, target, out, sweep>>
      /\ pc = "take"
  BY DEF TakeClaims
<1>3. \A k \in taken : row[k].state = "QUEUED" /\ seen[k] \in Rows /\ k \in Keys
  BY <1>1 DEF Claimable, WorkerTyped
<1> HIDE DEF taken
<1>4. \A k \in Keys :
         /\ GoodRow(row'[k])
         /\ k \in taken => row'[k].state = "DOWNLOADING"
         /\ k \notin taken => row'[k] = row[k]
  BY <1>1, <1>2, <1>3, ClaimedIsGood DEF RowsGood
<1>5. RowsGood'
  BY <1>2, <1>4 DEF RowsGood, GoodRow
<1>6. Elsewhere'
  BY <1>1, <1>2 DEF archive, Elsewhere, WorkerSweepsAlone
<1>7. BatchDone \in {"maintain", "drain"}
  BY DEF BatchDone
<1>8. WorkerTyped'
  <2>1. \A k \in taken : seen[k].url \in MaybeUrl
    BY <1>3 DEF Rows
  <2> QED BY <1>1, <1>2, <1>7, <2>1 DEF WorkerTyped, NothingSeen
<1>9. Hands'
  <2>1. \A k \in Keys : out'[k] = "none" /\ (job'[k] # NoJob => k \in taken)
    BY <1>2, NothingInFlight
  <2>2. \A k \in Keys : job'[k] # NoJob => pc' = "fetch"
    BY <1>2, <2>1
  <2>3. pc' \in {"maintain", "drain", "fetch"}
    BY <1>2, <1>7
  <2> QED BY <1>4, <2>1, <2>2, <2>3 DEF Hands, HandledRowsAreActive,
          PlannedRowsAreUncached, OutcomesAreInFlight, InHand
<1>10. AllSettled
  BY <1>3, <1>4 DEF AllSettled, Settled
<1> QED BY <1>5, <1>6, <1>8, <1>9, <1>10, Whole

\* A download ends: no row is written yet.
LEMMA FetchStep ==
    ASSUME IInv, NEW i \in Keys, NEW result \in Results, Fetch(i, result)
    PROVE  IInv' /\ AllSettled
<1>1. RowsGood /\ Elsewhere /\ WorkerTyped /\ Hands
  BY Parts
<1>2. UNCHANGED <<row, archive, auto, mode, target, seen, job, sweep>>
  BY DEF Fetch
<1>3. RowsGood' /\ Elsewhere' /\ WorkerTyped'
  BY <1>1 DEF Fetch, archive, RowsGood, Elsewhere, WorkerTyped, WorkerSweepsAlone
<1>4. /\ pc = "fetch" /\ pc' \in {"fetch", "apply"}
      /\ job[i] # NoJob
      /\ \A k \in Keys : k # i => out'[k] = out[k]
  BY <1>1 DEF Fetch, WorkerTyped
<1>5. Hands'
  BY <1>1, <1>2, <1>4 DEF Hands, HandledRowsAreActive, PlannedRowsAreUncached,
                          OutcomesAreInFlight, InHand
<1> QED BY <1>2, <1>3, <1>5, Whole, UnmovedIsSettled

\* The attempt count is read: it bounds the row's from above.
LEMMA ReadStep ==
    ASSUME IInv, NEW i \in Keys, ReadAttempts(i)
    PROVE  IInv' /\ AllSettled
<1>1. RowsGood /\ Elsewhere /\ WorkerTyped /\ Hands
  BY Parts
<1>2. UNCHANGED <<row, archive, file, auto, mode, target, job, out, sweep>>
  BY DEF ReadAttempts
<1>3. row[i] \in Rows
  BY <1>1 DEF RowsGood
<1>4. RowsGood' /\ Elsewhere' /\ WorkerTyped'
  BY <1>1, <1>3 DEF ReadAttempts, archive, RowsGood, Elsewhere, WorkerTyped,
                    WorkerSweepsAlone, NothingSeen
<1>5. /\ pc = "apply" /\ pc' = "record"
      /\ out[i] # "none"
      /\ seen'[i] = row[i]
      /\ \A k \in Keys : k # i => seen'[k] = Unread
  BY DEF ReadAttempts, NothingSeen
<1>6. row[i].attempts <= row[i].attempts
  BY <1>3, Bounds DEF Rows
<1>7. Hands'
  BY <1>1, <1>2, <1>5, <1>6 DEF Hands, HandledRowsAreActive,
     PlannedRowsAreUncached, OutcomesAreInFlight, InHand
<1> QED BY <1>2, <1>4, <1>7, Whole, UnmovedIsSettled

\* An outcome is written by key alone, into a row that is still active.
LEMMA RecordStep ==
    ASSUME IInv, NEW i \in Keys, RecordOutcome(i)
    PROVE  IInv' /\ AllSettled
<1>1. RowsGood /\ Elsewhere /\ WorkerTyped /\ Hands
  BY Parts
<1> DEFINE recorded == [row EXCEPT ![i] = Recorded(row[i], out[i], seen[i].attempts)]
<1>2. /\ pc = "record" /\ seen[i] # Unread /\ out[i] # "none"
      /\ row[i].attempts <= seen[i].attempts
      /\ \A k \in Keys : job[k] # NoJob => row[k].state \notin Passive
      /\ job[i] # NoJob
  BY <1>1 DEF RecordOutcome, Hands, OutcomesAreInFlight, HandledRowsAreActive,
              InHand, Passive
<1>3. out[i] \in Results /\ seen[i] \in Rows /\ seen[i].attempts \in Nat
  BY <1>1, <1>2, Bounds DEF WorkerTyped, Rows
<1>4. recorded \in [Keys -> Rows] /\ \A k \in Keys : GoodRow(recorded[k])
  <2>1. GoodRow(Recorded(row[i], out[i], seen[i].attempts))
    BY <1>1, <1>2, <1>3, RecordedIsGood DEF RowsGood
  <2> QED BY <1>1, <2>1 DEF RowsGood, GoodRow
<1>5. \A k \in Keys : k # i => recorded[k] = row[k]
  BY <1>1 DEF RowsGood
<1>6. \/ row' = recorded
      \/ row' = ApplyVerified(recorded, attachments, evidence)
  BY DEF RecordOutcome
<1> HIDE DEF recorded
<1>7. /\ RowsGood'
      /\ \A k \in Keys : k # i => /\ Settled(row[k], row'[k])
                                  /\ row[k].state \notin Passive => row'[k] = row[k]
  <2>1. CASE row' = recorded
    BY <1>1, <1>4, <1>5, <2>1, Unmoved DEF RowsGood
  <2>2. CASE row' = ApplyVerified(recorded, attachments, evidence)
    BY <1>1, <1>4, <1>5, <2>2, ApplyVerifiedIsGood DEF RowsGood, Elsewhere, Passive
  <2> QED BY <1>6, <2>1, <2>2
<1>8. BatchDone \in {"maintain", "drain"}
  BY DEF BatchDone
<1>9. Elsewhere'
  BY <1>1, <1>2, <1>8 DEF RecordOutcome, archive, Elsewhere, WorkerSweepsAlone
<1>10. WorkerTyped'
  BY <1>1, <1>8 DEF RecordOutcome, WorkerTyped, NothingSeen
<1>11. Hands'
  <2>1. /\ \A k \in Keys : seen'[k] = Unread
        /\ job'[i] = NoJob /\ out'[i] = "none"
        /\ \A k \in Keys : k # i => job'[k] = job[k] /\ out'[k] = out[k]
    BY <1>1 DEF RecordOutcome, NothingSeen, WorkerTyped
  <2>2. pc' = IF Claims(job') = {} THEN BatchDone ELSE "apply"
    BY DEF RecordOutcome
  <2>3. \A k \in Keys : job'[k] # NoJob => pc' = "apply"
    BY <2>2 DEF Claims
  <2>4. \A k \in Keys : out'[k] # "none" => job'[k] # NoJob
    BY <1>1, <2>1 DEF Hands, OutcomesAreInFlight
  <2>5. \A k \in Keys : job'[k] # NoJob => row'[k].state \notin Passive
    BY <1>2, <1>7, <2>1
  <2>6. pc' \in {"maintain", "drain", "apply"}
    BY <1>8, <2>2
  <2> QED BY <2>1, <2>3, <2>4, <2>5, <2>6 DEF Hands, HandledRowsAreActive,
          PlannedRowsAreUncached, OutcomesAreInFlight, InHand, Passive
<1>12. AllSettled
  BY <1>2, <1>7 DEF AllSettled, Settled, Passive
<1> QED BY <1>7, <1>9, <1>10, <1>11, <1>12, Whole

\* A failure or a crash leaves the rows and empties the hands.
LEMMA FailureSteps ==
    ASSUME IInv, DatabaseFails \/ Crash
    PROVE  IInv' /\ AllSettled
<1>1. RowsGood /\ Elsewhere /\ WorkerTyped
  BY Parts
<1>2. UNCHANGED row
  BY DEF DatabaseFails, Crash
<1>3. RowsGood'
  BY <1>1, <1>2 DEF RowsGood
<1>4. Elsewhere'
  BY <1>1 DEF DatabaseFails, Crash, archive, Elsewhere, WorkerSweepsAlone, Idle
<1>5. WorkerTyped'
  BY <1>1 DEF DatabaseFails, Crash, Forget, NothingSeen, WorkerTyped
<1>6. /\ pc' \in {"drain", "dead", "off"}
      /\ \A k \in Keys : job'[k] = NoJob /\ out'[k] = "none"
  BY DEF DatabaseFails, Crash, Forget
<1>7. Hands'
  BY <1>6, EmptyHands
<1> QED BY <1>2, <1>3, <1>4, <1>5, <1>7, Whole, UnmovedIsSettled
-----------------------------------------------------------------------------
(* The invariant of the specification *)

\* What an older version may have left in the archive is a good row.
LEMMA LegacyRowIsGood ==
    ASSUME NEW r \in LegacyRows
    PROVE  GoodRow(r)
<1>0. PICK s \in Legacy, u \in Urls : r = LegacyRow(s, u)
  BY DEF LegacyRows
<1>1. r = [NoRow EXCEPT !.state = s, !.url = u, !.cause = LegacyCause(s)]
  BY <1>0 DEF LegacyRow
<1>2. s \in {"STALE_URL", "IGNORED", "EVICTED"}
  BY ConstantsOK
<1>3. s \in MediaStates /\ u \in MaybeUrl
  BY <1>2 DEF MediaStates, MaybeUrl
<1>4. LegacyCause(s) \in Causes
  BY <1>2 DEF LegacyCause, Causes
<1>5. NoRow \in Rows
  BY NoRowIsGood DEF GoodRow
<1>6. r \in Rows
  BY <1>1, <1>3, <1>4, <1>5, Zenon DEF Rows
<1>7. RowOK(r)
  <2>1. r.state = s
    BY <1>1, <1>5, SMT DEF Rows
  <2>2. ~r.path
    BY <1>1, <1>5, SMT DEF NoRow, Rows
  <2>3. ~r.manual
    BY <1>1, <1>5, SMT DEF NoRow, Rows
  <2> QED BY <1>2, <2>1, <2>2, <2>3 DEF RowOK
<1> QED BY <1>6, <1>7 DEF GoodRow

\* The invariant holds of an empty archive and of one an older version left.
LEMMA InitIsGood ==
    ASSUME Init
    PROVE  IInv
<1>1. \A k \in Keys : GoodRow(row[k])
  <2> SUFFICES ASSUME NEW k \in Keys
               PROVE  GoodRow(row[k])
    OBVIOUS
  <2>1. row[k] = NoRow \/ row[k] \in LegacyRows
    BY DEF Init
  <2> QED BY <2>1, NoRowIsGood, LegacyRowIsGood
<1>2. row \in [Keys -> Rows]
  BY <1>1 DEF Init, GoodRow
<1>3. TypeOK
  <2>1. Idle \in [kind : {"idle", "clear", "enforce"},
                  todo : SUBSET Keys, removed : SUBSET Keys]
    BY DEF Idle
  <2> QED BY <1>2, <2>1 DEF Init, TypeOK, NothingSeen
<1>4. \A k \in Keys : RowOK(row[k])
  BY <1>1 DEF GoodRow
<1>5. /\ CachedHasPath /\ UnresolvedHasNoUrl /\ IntentIsLive
      /\ RetryableHasBudget
  BY <1>4 DEF CachedHasPath, UnresolvedHasNoUrl, IntentIsLive,
              RetryableHasBudget, RowOK, Live
<1>6. /\ HandledRowsAreActive /\ PlannedRowsAreUncached /\ OutcomesAreInFlight
      /\ WorkerSweepsAlone
  BY DEF Init, HandledRowsAreActive, PlannedRowsAreUncached, InHand,
         OutcomesAreInFlight, WorkerSweepsAlone, Idle
<1> QED BY <1>3, <1>5, <1>6 DEF IInv

\* Every action but a capture, Retry, Clear processed and Start.
LEMMA SettledSteps ==
    ASSUME IInv, Next,
           ~\E m \in Messages, shot \in Shots, later \in BOOLEAN :
               ImportCapture(m, shot, later),
           ~\E k \in Keys : RetryCommand(k),
           ~ClearProcessedCommand,
           ~Start
    PROVE  IInv' /\ AllSettled
<1>1. CASE Environment
  BY <1>1, ImportEvidenceStep, EnableStep, IgnoreAllStep, IgnoreStep,
     RecacheStep, RecacheScopeStep, FailureSteps, IdleSteps, SetAutoStep,
     StartSweepStep
     DEF Environment, Import, Command
<1>2. CASE WorkerStep
  BY <1>2, IdleSteps, RecoverStep, SelectSteps, HealStep, RearmStep,
     PassEvidenceStep,
     TakeStep, PlanStep, PlanManualStep, FetchStep, ReadStep, RecordStep
     DEF WorkerStep
<1>3. CASE \E a \in Sweepers \cup {Worker} : SweepStep(a)
  BY <1>3, SweepSteps
<1>4. CASE \E k \in Keys : Elapse(k)
  BY <1>4, ElapseStep
<1> QED BY <1>1, <1>2, <1>3, <1>4 DEF Next

\* A step that changes nothing changes nothing here.
LEMMA StutterStep ==
    ASSUME IInv, UNCHANGED vars
    PROVE  IInv' /\ AllSettled
<1>1. UNCHANGED <<row, pc, batch>> /\ Elsewhere'
  BY Parts DEF vars, archive, batch, Elsewhere, WorkerSweepsAlone
<1> QED BY <1>1, RowsLeftAlone, UnmovedIsSettled

\* Every step keeps the invariant.
LEMMA InvariantIsKept ==
    ASSUME IInv, [Next]_vars
    PROVE  IInv'
<1>1. CASE \E m \in Messages, shot \in Shots, later \in BOOLEAN :
             ImportCapture(m, shot, later)
  BY <1>1, ImportCaptureStep
<1>2. CASE \E k \in Keys : RetryCommand(k)
  BY <1>2, RetryStep
<1>3. CASE ClearProcessedCommand
  BY <1>3, ClearProcessedStep
<1>4. CASE Start
  BY <1>4, StartStep
<1>5. CASE UNCHANGED vars
  BY <1>5, StutterStep
<1> QED BY <1>1, <1>2, <1>3, <1>4, <1>5, SettledSteps

\* The inductive invariant holds in every reachable state, so every row's
\* columns agree and nothing the worker writes by key alone can break them.
THEOREM Invariant == Spec => []IInv
<1>1. Init => IInv
  BY InitIsGood
<1>2. IInv /\ [Next]_vars => IInv'
  BY InvariantIsKept
<1> QED BY <1>1, <1>2, PTL DEF Spec

\* Every variable keeps its type.
THEOREM TypeCorrect == Spec => []TypeOK
<1>1. IInv => TypeOK
  BY DEF IInv
<1> QED BY <1>1, Invariant, PTL

\* A row names a cache file exactly while it is CACHED.
THEOREM CachedRowsHaveAPath == Spec => []CachedHasPath
<1>1. IInv => CachedHasPath
  BY DEF IInv
<1> QED BY <1>1, Invariant, PTL

\* A row waiting for rediscovery holds no URL, a request to download again sits
\* on a row that will be acted on, and a row to be retried has attempts left.
THEOREM RowsAreConsistent ==
    Spec => [](UnresolvedHasNoUrl /\ IntentIsLive /\ RetryableHasBudget)
<1>1. IInv => UnresolvedHasNoUrl /\ IntentIsLive /\ RetryableHasBudget
  BY DEF IInv
<1> QED BY <1>1, Invariant, PTL

-----------------------------------------------------------------------------
(* What no step may do *)

\* An Ignore ends by Retry, Clear processed or the startup normalisation only.
THEOREM IgnoreEndsByTheUser == Spec => IgnoreIsDurable
<1> DEFINE Durable ==
        \A k \in Keys :
            row[k].state = "IGNORED" /\ row'[k].state # "IGNORED" =>
                RetryCommand(k) \/ ClearProcessedCommand \/ Start
<1>1. IInv /\ [Next]_vars => [Durable]_vars
  <2> SUFFICES ASSUME IInv, Next
               PROVE  Durable
    OBVIOUS
  <2>1. CASE \E m \in Messages, shot \in Shots, later \in BOOLEAN :
               ImportCapture(m, shot, later)
    BY <2>1, ImportCaptureStep
  <2>2. CASE \E k \in Keys : RetryCommand(k)
    BY <2>2, RetryStep
  <2>3. CASE ~ \/ \E m \in Messages, shot \in Shots, later \in BOOLEAN :
                    ImportCapture(m, shot, later)
               \/ \E k \in Keys : RetryCommand(k)
               \/ ClearProcessedCommand
               \/ Start
    BY <2>3, SettledSteps DEF AllSettled, Settled
  <2> QED BY <2>1, <2>2, <2>3
<1> QED BY <1>1, Invariant, PTL DEF Spec, IgnoreIsDurable

\* SOURCE_GONE ends only by a capture that shows a URL other than the retained
\* one.
THEOREM SourceGoneEndsByNewUrl == Spec => SourceGoneIsTerminal
<1> DEFINE Terminal ==
        \A k \in Keys :
            row[k].state = "SOURCE_GONE" /\ row'[k].state # "SOURCE_GONE" =>
                /\ row'[k].state = "KNOWN"
                /\ row'[k].url \notin {NoUrl, row[k].url}
                /\ \E m \in Messages : attachments'[m][k] = row'[k].url
<1>1. IInv /\ [Next]_vars => [Terminal]_vars
  <2> SUFFICES ASSUME IInv, Next
               PROVE  Terminal
    OBVIOUS
  <2>1. CASE \E m \in Messages, shot \in Shots, later \in BOOLEAN :
               ImportCapture(m, shot, later)
    BY <2>1, ImportCaptureStep
  <2>2. CASE \E k \in Keys : RetryCommand(k)
    BY <2>2, RetryStep DEF GoneKept
  <2>3. CASE ClearProcessedCommand
    BY <2>3, ClearProcessedStep DEF GoneKept
  <2>4. CASE Start
    BY <2>4, StartStep
  <2>5. CASE ~ \/ \E m \in Messages, shot \in Shots, later \in BOOLEAN :
                    ImportCapture(m, shot, later)
               \/ \E k \in Keys : RetryCommand(k)
               \/ ClearProcessedCommand
               \/ Start
    BY <2>5, SettledSteps DEF AllSettled, Settled
  <2> QED BY <2>1, <2>2, <2>3, <2>4, <2>5
<1> QED BY <1>1, Invariant, PTL DEF Spec, SourceGoneIsTerminal

-----------------------------------------------------------------------------
(* Evictions                                                               *)
(*                                                                         *)
(* Only _sync_registry_removed evicts a row, and only a CACHED one, which  *)
(* only the worker's outcome makes.  So a row the worker has selected for  *)
(* planning, or is downloading, is neither CACHED nor EVICTED when it is   *)
(* written, whatever GUI threads sweep; a row selected for healing may be. *)

Held == {"CACHED", "EVICTED"}

InTransit(k) ==
    \/ pc \in {"plan", "plan_manual"} /\ seen[k] # Unread
    \/ pc \in {"fetch", "apply", "record"} /\ job[k] # NoJob

NoneInTransitHeld == \A k \in Keys : InTransit(k) => row[k].state \notin Held

EInv == IInv /\ NoneInTransitHeld

\* A step that makes no row CACHED and ends no eviction.
Kept(r, s) ==
    /\ r.state \notin Held => s.state \notin Held
    /\ r.state = "EVICTED" => s.state = "EVICTED"

AllKept == \A k \in Keys : Kept(row[k], row'[k])

\* Ends of an eviction that the user asked for.
AskedFor(k) ==
    \/ RecacheCommand(k)
    \/ \E c \in Channels : RecacheScopeCommand(c)
    \/ EnableCommand /\ row[k].cause # "policy"

LEMMA KeptRow == \A r : Kept(r, r)
BY DEF Kept

\* The statements that write a state write one that holds no file, but for
\* three of them.
LEMMA WrittenStates ==
    ASSUME NEW r \in Rows
    PROVE  /\ Healed(r).state = "KNOWN" /\ Rearmed(r).state = "KNOWN"
           /\ Claimed(r).state = "DOWNLOADING" /\ Queued(r).state = "QUEUED"
           /\ Ignored(r).state = "IGNORED" /\ Unresolved(r).state = "UNRESOLVED"
           /\ [Unresolved(r) EXCEPT !.attempts = 0].state = "UNRESOLVED"
           /\ Recached(r).state \in {"UNRESOLVED", "QUEUED"}
           /\ \A s \in {"FAILED_PERMANENT", "TOO_LARGE", "SKIPPED"} : SetState(r, s).state = s
           /\ [r EXCEPT !.elapsed = TRUE].state = r.state
           /\ [Queued(r) EXCEPT !.attempts = 0, !.cause = "none"].state = "QUEUED"
BY DEF Healed, Rearmed, Claimed, Queued, Ignored, Unresolved, Recached, SetState, Rows

\* A capture keeps what is evicted, and caches nothing.
LEMMA CapturesKeep ==
    ASSUME NEW r \in Rows, NEW u, NEW later
    PROVE  Kept(r, Registered(r, u, later))
<1>1. Fresh(r, u).state = "KNOWN"
  BY DEF Fresh, Rows
<1>2. Fresh(NoRow, u).state = "KNOWN"
  BY DEF Fresh, NoRow
<1> QED BY <1>1, <1>2 DEF Registered, Rows, Kept, Held

\* So does a proof of deletion.
LEMMA ProofsKeep ==
    ASSUME NEW rows \in [Keys -> Rows], NEW att, NEW ev, NEW k \in Keys
    PROVE  Kept(rows[k], ApplyVerified(rows, att, ev)[k])
<1>1. Gone(rows[k], k, att).state = "SOURCE_GONE"
  BY DEF Gone, Rows
<1> QED BY <1>1 DEF ApplyVerified, Kept, Held

LEMMA ManualPlansKeep ==
    ASSUME NEW s, NEW r \in Rows, NEW big, r.state \notin Held
    PROVE  PlannedManually(s, r, big).state \notin Held
<1>1. ASSUME NEW result \in {"FAILED_PERMANENT", "TOO_LARGE", "UNRESOLVED", "SKIPPED"}, NEW n
      PROVE  Recorded(r, result, n).state \notin Held
  BY DEF Recorded, Rows, Held
<1> QED BY <1>1, WrittenStates DEF PlannedManually, Held

\* Rows that are kept in two steps are kept.
LEMMA KeptTwice ==
    ASSUME NEW r, NEW s, NEW t, Kept(r, s), Kept(s, t)
    PROVE  Kept(r, t)
BY DEF Kept

\* Steps of others, which do not change what the worker holds.
LEMMA OthersKeep ==
    ASSUME EInv, IInv', UNCHANGED <<pc, seen, job>>, AllKept
    PROVE  EInv'
BY DEF EInv, NoneInTransitHeld, InTransit, AllKept, Kept

\* Steps after which the worker holds nothing.
LEMMA EmptyHandsKeep ==
    ASSUME IInv', pc' \notin {"plan", "plan_manual", "fetch", "apply", "record"}
    PROVE  EInv'
BY DEF EInv, NoneInTransitHeld, InTransit

LEMMA ImportKeeps ==
    ASSUME EInv, Import
    PROVE  EInv' /\ AllKept
<1>1. IInv' /\ row \in [Keys -> Rows] /\ UNCHANGED <<pc, seen, job>>
  BY ImportCaptureStep, ImportEvidenceStep, Parts
     DEF EInv, Import, RowsGood, ImportCapture, ImportEvidence, batch
<1>2. CASE \E m \in Messages, shot \in Shots, later \in BOOLEAN : ImportCapture(m, shot, later)
  <2>1. PICK m \in Messages, shot \in Shots, later \in BOOLEAN : ImportCapture(m, shot, later)
    BY <1>2
  <2> DEFINE registered == [k \in Keys |-> IF shot[k] = Absent THEN row[k]
                                           ELSE Registered(row[k], shot[k], later)]
  <2>2. row' = ApplyVerified(registered, attachments', evidence)
    BY <2>1 DEF ImportCapture
  <2>3. \A k \in Keys : shot[k] # Absent => shot[k] \in MaybeUrl
    BY DEF Shots
  <2>4. \A k \in Keys : GoodRow(row[k])
    BY Parts DEF EInv, RowsGood
  <2>5. registered \in [Keys -> Rows]
    BY <1>1, <2>3, <2>4, RegisteredIsGood DEF GoodRow
  <2>6. \A k \in Keys : Kept(row[k], registered[k])
    BY <1>1, CapturesKeep, KeptRow
  <2> HIDE DEF registered
  <2>7. \A k \in Keys : Kept(registered[k], row'[k])
    BY <2>2, <2>5, ProofsKeep
  <2>8. AllKept
    BY <2>6, <2>7, KeptTwice DEF AllKept
  <2> QED BY <1>1, <2>8, OthersKeep
<1>3. CASE \E c \in Channels : ImportEvidence(c)
  <2>1. AllKept
    BY <1>1, <1>3, ProofsKeep DEF ImportEvidence, AllKept
  <2> QED BY <1>1, <2>1, OthersKeep
<1> QED BY <1>2, <1>3 DEF Import

\* The commands that end an eviction are the user's; none caches a row.
LEMMA CommandKeeps ==
    ASSUME EInv, IInv', Command
    PROVE  /\ EInv'
           /\ \A k \in Keys : row[k].state = "EVICTED" /\ row'[k].state # "EVICTED" =>
                 AskedFor(k)
<1>0. row \in [Keys -> Rows]
  BY Parts DEF EInv, RowsGood
<1> DEFINE armed(k) == [row[k] EXCEPT !.state = "KNOWN", !.attempts = 0,
                                      !.elapsed = TRUE, !.cause = "none"]
           cleared == {k \in Keys : /\ row[k].state = "EVICTED"
                                    /\ row[k].cause \in {"manual_clear", "legacy"}}
<1>a. EnableCommand => CommandUpdate([k \in cleared |-> armed(k)])
  BY DEF EnableCommand
<1> HIDE DEF armed
<1>1. pc' \in {"drain", "claim"}
  <2>1. CASE EnableCommand
    BY <1>a, <2>1 DEF CommandUpdate
  <2>2. CASE \/ IgnoreAllCommand \/ ClearProcessedCommand
             \/ (\E i \in Keys : IgnoreCommand(i))
             \/ (\E c \in Channels : RecacheScopeCommand(c))
    BY <2>2 DEF IgnoreAllCommand, ClearProcessedCommand, IgnoreCommand,
       RecacheScopeCommand, CommandUpdate
  <2>3. CASE \E i \in Keys : RetryCommand(i) \/ RecacheCommand(i)
    BY <2>3 DEF RetryCommand, RecacheCommand, CommandDownload
  <2> QED BY <2>1, <2>2, <2>3 DEF Command
<1>2. SUFFICES ASSUME NEW k \in Keys, row[k].state = "EVICTED", row'[k].state # "EVICTED"
               PROVE  AskedFor(k)
  BY <1>1, EmptyHandsKeep
<1>3. CASE EnableCommand
  <2>1. row'[k] = row[k] \/ row[k].cause # "policy"
    BY <1>0, <1>a, <1>3 DEF CommandUpdate
  <2> QED BY <1>2, <1>3, <2>1 DEF AskedFor
<1>4. ~ \/ IgnoreAllCommand \/ ClearProcessedCommand
        \/ \E i \in Keys : IgnoreCommand(i) \/ RetryCommand(i)
  <2>1. ~IgnoreAllCommand /\ ~ClearProcessedCommand
    BY <1>0, <1>2 DEF IgnoreAllCommand, ClearProcessedCommand, CommandUpdate
  <2>2. \A i \in Keys : ~IgnoreCommand(i)
    BY <1>0, <1>2 DEF IgnoreCommand, CommandUpdate
  <2>3. \A i \in Keys : ~RetryCommand(i)
    BY <1>0, <1>2 DEF RetryCommand, CommandDownload
  <2> QED BY <2>1, <2>2, <2>3
<1>5. CASE \E c \in Channels : RecacheScopeCommand(c)
  BY <1>5 DEF AskedFor
<1>6. CASE \E i \in Keys : RecacheCommand(i)
  <2>1. PICK i \in Keys : RecacheCommand(i)
    BY <1>6
  <2>2. i = k
    BY <1>0, <1>2, <2>1 DEF RecacheCommand, CommandDownload
  <2> QED BY <2>1, <2>2 DEF AskedFor
<1> QED BY <1>3, <1>4, <1>5, <1>6 DEF Command

\* Steps after which the worker holds no row in transit, but for its sweep.
LEMMA ElsewhereKeeps ==
    ASSUME EInv, IInv',
           \/ Start \/ BeginCycle \/ RecoverAbandoned \/ PlanManualDone \/ SelectClaims
           \/ (\E due \in SUBSET Keys : Rearm(due)) \/ PassEvidence
           \/ StopRuntime \/ DatabaseFails \/ Crash \/ Reconcile \/ MaintainCache
    PROVE  EInv' /\ AllKept
<1>1. row \in [Keys -> Rows]
  BY Parts DEF EInv, RowsGood
<1>2. pc' \notin {"plan", "plan_manual", "fetch", "apply", "record"}
  BY DEF Start, BeginCycle, RecoverAbandoned, PlanManualDone, SelectClaims, Rearm,
     PassEvidence, StopRuntime, DatabaseFails, Crash, Reconcile, MaintainCache
<1>3. AllKept
  <2>1. CASE Start
    BY <1>1, <2>1, WrittenStates DEF Start, AllKept, Kept, Held
  <2>2. CASE RecoverAbandoned
    BY <1>1, <2>2, WrittenStates DEF RecoverAbandoned, AllKept, Kept, Held
  <2>3. CASE \E due \in SUBSET Keys : Rearm(due)
    BY <1>1, <2>3, WrittenStates DEF Rearm, AllKept, Kept, Held
  <2>4. CASE PassEvidence
    BY <1>1, <2>4, ProofsKeep DEF PassEvidence, AllKept
  <2>5. CASE \/ BeginCycle \/ PlanManualDone \/ SelectClaims \/ StopRuntime
             \/ DatabaseFails \/ Crash \/ Reconcile \/ MaintainCache
    <3>1. UNCHANGED row
      BY <2>5 DEF BeginCycle, PlanManualDone, SelectClaims, StopRuntime, DatabaseFails,
         Crash, Reconcile, MaintainCache
    <3> QED BY <3>1, KeptRow DEF AllKept
  <2> QED BY <2>1, <2>2, <2>3, <2>4, <2>5
<1> QED BY <1>2, <1>3, EmptyHandsKeep

\* Reading rows, ending a download, the clock.
LEMMA ReadingKeeps ==
    ASSUME EInv, IInv',
           \/ (\E k \in Keys : Elapse(k)) \/ (\E b \in BOOLEAN : SetAuto(b))
           \/ Select \/ (\E k \in Keys : ReadAttempts(k))
           \/ \E k \in Keys, result \in Results : Fetch(k, result)
    PROVE  EInv' /\ AllKept
<1>1. RowsGood /\ row \in [Keys -> Rows]
  BY Parts DEF EInv, RowsGood
<1>2. CASE \E k \in Keys : Elapse(k)
  <2>1. PICK i \in Keys : Elapse(i)
    BY <1>2
  <2>2. row' = [row EXCEPT ![i] = [row[i] EXCEPT !.elapsed = TRUE]]
    BY <1>1, <2>1 DEF Elapse
  <2>3. [row[i] EXCEPT !.elapsed = TRUE].state = row[i].state
    BY <1>1, WrittenStates
  <2>4. AllKept
    BY <1>1, <2>2, <2>3 DEF AllKept, Kept
  <2> QED BY <2>1, <2>4, OthersKeep DEF Elapse, batch
<1>3. CASE \E b \in BOOLEAN : SetAuto(b)
  BY <1>3, OthersKeep DEF SetAuto, batch, AllKept, Kept
<1>4. CASE Select
  <2> DEFINE candidates == {k \in Keys : Candidate(k)}
  <2>1. /\ UNCHANGED row /\ pc' \in {"plan", "plan_manual"}
        /\ Read(Oldest(candidates, PlanLimit))
    BY <1>4 DEF Select
  <2>2. \A k \in Oldest(candidates, PlanLimit) : row[k].state \notin Held
    BY DEF Oldest, Candidate, Plannable, Held
  <2> HIDE DEF candidates
  <2>3. \A k \in Keys : seen'[k] # Unread => k \in Oldest(candidates, PlanLimit)
    BY <1>1, <2>1, ReadRows
  <2>4. NoneInTransitHeld'
    BY <2>1, <2>2, <2>3 DEF NoneInTransitHeld, InTransit
  <2> QED BY <2>1, <2>4, KeptRow DEF EInv, AllKept
<1>5. CASE \/ \E k \in Keys : ReadAttempts(k)
           \/ \E k \in Keys, result \in Results : Fetch(k, result)
  <2>1. /\ UNCHANGED <<row, job>> /\ pc \in {"fetch", "apply"}
        /\ pc' \in {"fetch", "apply", "record"}
    BY <1>5 DEF ReadAttempts, Fetch
  <2> QED BY <2>1, KeptRow DEF EInv, NoneInTransitHeld, InTransit, AllKept
<1> QED BY <1>2, <1>3, <1>4, <1>5

\* Planning and claiming: the rows read or queued hold nothing.
LEMMA PlanKeeps ==
    ASSUME EInv, IInv', (\E big \in SUBSET Keys : Plan(big)) \/ TakeClaims
    PROVE  EInv' /\ \A k \in Keys : row[k].state = "EVICTED" => row'[k].state = "EVICTED"
<1>1. row \in [Keys -> Rows] /\ WorkerTyped
  BY Parts DEF EInv, RowsGood
<1>2. CASE \E big \in SUBSET Keys : Plan(big)
  <2>1. \A k \in Keys : seen[k] = Unread => row'[k] = row[k]
    BY <1>2 DEF Plan
  <2>2. pc = "plan" /\ pc' = "claim"
    BY <1>2 DEF Plan
  <2>3. \A k \in Keys : seen[k] # Unread => row[k].state # "EVICTED"
    BY <2>2 DEF EInv, NoneInTransitHeld, InTransit, Held
  <2> QED BY <2>1, <2>2, <2>3, EmptyHandsKeep
<1>3. CASE TakeClaims
  <2> DEFINE taken == {k \in Keys : seen[k] # Unread /\ Claimable(k)}
  <2>1. /\ row' = [k \in Keys |-> IF k \in taken THEN Claimed(row[k]) ELSE row[k]]
        /\ job' = [k \in Keys |-> IF k \in taken THEN seen[k].url ELSE NoJob]
        /\ pc' \in {"maintain", "drain", "fetch"}
    BY <1>3 DEF TakeClaims, BatchDone
  <2>2. \A k \in taken : row[k].state = "QUEUED"
    BY DEF Claimable
  <2> HIDE DEF taken
  <2>3. \A k \in Keys : k \in taken => row'[k].state = "DOWNLOADING"
    BY <1>1, <2>1, WrittenStates
  <2>4. NoneInTransitHeld'
    BY <2>1, <2>3 DEF NoneInTransitHeld, InTransit, Held
  <2> QED BY <2>1, <2>2, <2>4 DEF EInv
<1> QED BY <1>2, <1>3

\* A requested row and an outcome are written by key alone, and what is proved
\* deleted with them: the row in hand was not evicted, the others are kept.
LEMMA ByKeyKeeps ==
    ASSUME EInv, IInv',
           \/ \E k \in Keys, big \in BOOLEAN : PlanManual(k, big)
           \/ \E k \in Keys : RecordOutcome(k)
    PROVE  EInv' /\ \A k \in Keys : row[k].state = "EVICTED" => row'[k].state = "EVICTED"
<1>1. row \in [Keys -> Rows] /\ WorkerTyped /\ Hands /\ \A k \in Keys : GoodRow(row[k])
  BY Parts DEF EInv, RowsGood
<1>2. ASSUME NEW i \in Keys, NEW r \in Rows,
             LET rows == [row EXCEPT ![i] = r] IN
             row' = rows \/ row' = ApplyVerified(rows, attachments, evidence)
      PROVE  /\ \A k \in Keys \ {i} : Kept(row[k], row'[k])
             /\ r.state \notin Held => row'[i].state \notin Held
  <2> DEFINE rows == [row EXCEPT ![i] = r]
  <2>1. rows \in [Keys -> Rows] /\ rows[i] = r /\ \A k \in Keys \ {i} : rows[k] = row[k]
    BY <1>1
  <2>2. row' = rows \/ row' = ApplyVerified(rows, attachments, evidence)
    BY <1>2
  <2> HIDE DEF rows
  <2>3. \A k \in Keys : Kept(rows[k], row'[k])
    BY <2>1, <2>2, ProofsKeep, KeptRow
  <2> QED BY <2>1, <2>3 DEF Kept
<1>3. CASE \E k \in Keys, big \in BOOLEAN : PlanManual(k, big)
  <2>1. PICK i \in Keys, big \in BOOLEAN : PlanManual(i, big)
    BY <1>3
  <2> DEFINE r == PlannedManually(seen[i], row[i], big)
  <2>2. /\ UNCHANGED <<pc, job>> /\ pc = "plan_manual" /\ seen[i] # Unread
        /\ \A k \in Keys : seen'[k] # Unread => seen[k] # Unread /\ k # i
        /\ LET rows == [row EXCEPT ![i] = r] IN
           row' = rows \/ row' = ApplyVerified(rows, attachments, evidence)
    BY <1>1, <2>1 DEF PlanManual, WorkerTyped
  <2>3. row[i].state \notin Held
    BY <2>2 DEF EInv, NoneInTransitHeld, InTransit
  <2>4. r \in Rows
    <3>1. seen[i] \in Rows
      BY <1>1, <2>2 DEF WorkerTyped
    <3>2. row[i].state \notin Passive
      BY <1>1, <2>2 DEF Hands, HandledRowsAreActive, InHand, Passive
    <3> QED BY <1>1, <3>1, <3>2, PlannedManuallyIsGood DEF GoodRow
  <2> HIDE DEF r
  <2>5. \A k \in Keys \ {i} : Kept(row[k], row'[k])
    BY <1>2, <2>2, <2>4
  <2>6. NoneInTransitHeld'
    BY <2>2, <2>5 DEF EInv, NoneInTransitHeld, InTransit, Kept
  <2> QED BY <2>3, <2>5, <2>6 DEF EInv, Kept, Held
<1>4. CASE \E k \in Keys : RecordOutcome(k)
  <2>1. PICK i \in Keys : RecordOutcome(i)
    BY <1>4
  <2> DEFINE r == Recorded(row[i], out[i], seen[i].attempts)
  <2>2. /\ pc = "record" /\ seen[i] # Unread /\ pc' \in {"maintain", "drain", "apply"}
        /\ \A k \in Keys : job'[k] # NoJob => job[k] # NoJob /\ k # i
        /\ LET rows == [row EXCEPT ![i] = r] IN
           row' = rows \/ row' = ApplyVerified(rows, attachments, evidence)
    BY <1>1, <2>1 DEF RecordOutcome, WorkerTyped, BatchDone
  <2>3. /\ out[i] # "none" /\ job[i] # NoJob /\ row[i].attempts <= seen[i].attempts
        /\ row[i].state \notin Held
    BY <1>1, <2>2 DEF Hands, OutcomesAreInFlight, EInv, NoneInTransitHeld, InTransit
  <2>4. r \in Rows
    <3>1. out[i] \in Results /\ seen[i] \in Rows
      BY <1>1, <2>2, <2>3 DEF WorkerTyped
    <3>2. seen[i].attempts \in Nat
      BY <3>1, Bounds DEF Rows
    <3>3. row[i].state \notin Passive
      BY <1>1, <2>2, <2>3 DEF Hands, HandledRowsAreActive, InHand, Passive
    <3> QED BY <1>1, <2>3, <3>1, <3>2, <3>3, RecordedIsGood DEF GoodRow
  <2> HIDE DEF r
  <2>5. \A k \in Keys \ {i} : Kept(row[k], row'[k])
    BY <1>2, <2>2, <2>4
  <2>6. NoneInTransitHeld'
    BY <2>2, <2>5 DEF EInv, NoneInTransitHeld, InTransit, Kept
  <2> QED BY <2>3, <2>5, <2>6 DEF EInv, Kept, Held
<1> QED BY <1>3, <1>4

\* A sweep evicts CACHED rows, whoever takes it.
LEMMA SweepsKeep ==
    ASSUME EInv, IInv', NEW a \in Sweepers \cup {Worker},
           SweepStep(a) \/ (a # Worker /\ \E kind \in {"clear", "enforce"} : StartSweep(a, kind))
    PROVE  EInv' /\ AllKept
<1>1. Elsewhere
  BY Parts DEF EInv
<1>2. CASE \/ \E k \in Keys : RemoveFile(a, k) \/ SpareFile(a, k) \/ KeepLockedFile(a, k)
           \/ \E kind \in {"clear", "enforce"} : StartSweep(a, kind)
  <2>1. UNCHANGED <<row, pc, seen, job>>
    BY <1>2 DEF RemoveFile, SpareFile, KeepLockedFile, Handled, StartSweep, batch
  <2> QED BY <2>1, KeptRow, OthersKeep DEF AllKept
<1>3. CASE \E synced \in {TRUE, ~DbMayFail} : SyncRegistry(a, synced)
  <2>1. PICK synced \in {TRUE, ~DbMayFail} : SyncRegistry(a, synced)
    BY <1>3
  <2> DEFINE why == IF sweep[a].kind = "clear" THEN "manual_clear" ELSE "policy"
  <2>2. \A k \in Keys : \/ row'[k] = row[k]
                        \/ row[k].state = "CACHED" /\ row'[k] = Evicted(row[k], why)
    BY <2>1 DEF SyncRegistry
  <2>3. AllKept
    BY <2>2 DEF AllKept, Kept, Held
  <2>4. UNCHANGED <<seen, job>> /\ (a # Worker => UNCHANGED pc) /\ (a = Worker => pc' = "drain")
    BY <2>1 DEF SyncRegistry, batch
  <2> QED BY <2>3, <2>4, OthersKeep, EmptyHandsKeep
<1> QED BY <1>2, <1>3 DEF SweepStep

\* Every step keeps what is in transit unheld, and ends no eviction but as asked
\* or by healing.
LEMMA EvictionStep ==
    ASSUME EInv, [Next]_vars
    PROVE  /\ EInv'
           /\ \A k \in Keys : row[k].state = "EVICTED" /\ row'[k].state # "EVICTED" =>
                 AskedFor(k) \/ (Heal /\ seen[k] # Unread)
<1>1. IInv'
  BY InvariantIsKept DEF EInv
<1>2. SUFFICES \/ EInv' /\ AllKept
               \/ /\ EInv'
                  /\ \A k \in Keys : row[k].state = "EVICTED" /\ row'[k].state # "EVICTED" =>
                        AskedFor(k) \/ (Heal /\ seen[k] # Unread)
  BY DEF AllKept, Kept
<1>3. CASE UNCHANGED vars
  BY <1>1, <1>3, OthersKeep, KeptRow DEF vars, batch, AllKept
<1>4. CASE Import
  BY <1>4, ImportKeeps
<1>5. CASE Command
  BY <1>1, <1>5, CommandKeeps
<1>6. CASE \/ DatabaseFails \/ StopRuntime \/ Crash
           \/ (\E b \in BOOLEAN : SetAuto(b)) \/ \E k \in Keys : Elapse(k)
  BY <1>1, <1>6, ElsewhereKeeps, ReadingKeeps
<1>7. CASE \/ \E a \in Sweepers, kind \in {"clear", "enforce"} : StartSweep(a, kind)
           \/ \E a \in Sweepers \cup {Worker} : SweepStep(a)
  BY <1>1, <1>7, SweepsKeep, Bounds
<1>8. CASE Heal
  <2>1. pc' = "evidence" /\ \A k \in Keys : seen[k] = Unread => row'[k] = row[k]
    BY <1>8 DEF Heal
  <2> QED BY <1>1, <1>8, <2>1, EmptyHandsKeep
<1>9. CASE WorkerStep /\ ~Heal
  <2>1. CASE \/ Start \/ BeginCycle \/ RecoverAbandoned \/ PlanManualDone \/ SelectClaims
             \/ (\E due \in SUBSET Keys : Rearm(due)) \/ PassEvidence
             \/ Reconcile \/ MaintainCache
    BY <1>1, <2>1, ElsewhereKeeps
  <2>2. CASE \/ Select \/ (\E k \in Keys : ReadAttempts(k))
             \/ \E k \in Keys, result \in Results : Fetch(k, result)
    BY <1>1, <2>2, ReadingKeeps
  <2>3. CASE (\E big \in SUBSET Keys : Plan(big)) \/ TakeClaims
    BY <1>1, <2>3, PlanKeeps
  <2>4. CASE \/ \E k \in Keys, big \in BOOLEAN : PlanManual(k, big)
             \/ \E k \in Keys : RecordOutcome(k)
    BY <1>1, <2>4, ByKeyKeeps
  <2> QED BY <1>9, <2>1, <2>2, <2>3, <2>4 DEF WorkerStep
<1> QED BY <1>3, <1>4, <1>5, <1>6, <1>7, <1>8, <1>9 DEF Next, Environment

\* An eviction ends by Download again, for one object or a branch, by switching
\* automatic download on after a manual clear, or by healing a row that lost its
\* file to the very sweep that evicts it; never by the planner, an outcome or an
\* import, although the registry is written by key alone while any number of GUI
\* threads clear the cache.
THEOREM EvictionsEndByTheUser == Spec => EvictionIsSticky
<1> DEFINE Sticky ==
        \A k \in Keys :
            row[k].state = "EVICTED" /\ row'[k].state # "EVICTED" =>
                \/ RecacheCommand(k)
                \/ \E c \in Channels : RecacheScopeCommand(c)
                \/ EnableCommand /\ row[k].cause # "policy"
                \/ Heal /\ seen[k] # Unread
<1>1. Init => EInv
  <2>1. Init => pc = "off"
    BY DEF Init
  <2> QED BY <2>1, InitIsGood DEF EInv, NoneInTransitHeld, InTransit
<1>2. EInv /\ [Next]_vars => EInv' /\ [Sticky]_vars
  BY EvictionStep DEF AskedFor
<1> QED BY <1>1, <1>2, PTL DEF Spec, EvictionIsSticky
===============================================================================
