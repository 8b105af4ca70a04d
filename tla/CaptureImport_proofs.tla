------------------------- MODULE CaptureImport_proofs -------------------------
(***************************************************************************)
(* Proofs about CaptureImport for any files, contents, clocks and numbers  *)
(* of scans and retries.                                                   *)
(*                                                                         *)
(* Every write has a time of its own, so a signature the watcher has seen  *)
(* names one version of a file for ever (Past).  While a file is imported, *)
(* what was read, what was committed and what was recorded stand for the   *)
(* version the scan saw, or for none that can be taken for it (JobOK); what *)
(* the watcher takes for known has been through that (WatchOK).  A reset   *)
(* leaves no file of its own time above the boundary (ResetOK).            *)
(***************************************************************************)
EXTENDS CaptureImport, FiniteSetTheorems, WellFoundedInduction, TLAPS

Stamp(m) == IF m > MaxTime THEN m - Ahead ELSE m

Past ==
    /\ \A f \in Files : /\ Stamp(Signature(f)) <= clock
                        /\ Stamp(rt.known[f]) <= clock
                        /\ Stamp(rt.pending[f].sig) <= clock
    /\ born <= clock
    /\ reset # NoReset => reset <= clock

\* No capture that existed at time t is newer than the boundary.
Bounded(t) ==
    \A f \in Captures :
        disk[f] # NoFile /\ WrittenAt(disk[f]) <= t => disk[f].mtime <= marker

ResetOK ==
    /\ reset # NoReset => ~Running /\ Bounded(reset)
    /\ Running => rt.boundary = marker
    /\ Bounded(born)

\* The version a file was last seen in, and whether it is still the one.
Seen(f) == IF Watching THEN rt.pending[f].sig ELSE rt.known[f]
Same(f) == disk[f] # NoFile /\ Signature(f) = Seen(f)

JobOK ==
    /\ job.at # "none" => rt.phase \in {"initial", "scan"} /\ job.file \in rt.todo
    /\ job.at = "commit" =>
          /\ job.read \in Version /\ job.read.content \in Contents
          /\ Same(job.file) => job.read = disk[job.file]
          /\ job.file \in Captures =>
                /\ WrittenAt(job.read) > born
                /\ ~AlreadyImported(job.file, job.read.content)
    /\ job.at = "note" => (Same(job.file) => Accounted(job.file))
    /\ job.at = "fail" => job.error \in Errors
    /\ job.at = "noteFailure" => Failing(job.file)

WatchOK ==
    /\ rt.phase \in {"starting", "primed", "initial"} =>
          \A f \in Files : rt.pending[f] = NotDue
    /\ rt.phase = "initial" =>
          \A f \in Files \ rt.todo : Same(f) => Accounted(f)
    /\ rt.phase = "scan" => \A f \in rt.todo : rt.pending[f].sig # 0

\* The inductive invariant.
IInv ==
    /\ TypeOK
    /\ Past
    /\ ResetOK
    /\ JobOK
    /\ WatchOK
    /\ NothingIsLostSilently
    /\ ResetForgets

-----------------------------------------------------------------------------
(* Types *)

Times == 0..Ahead + MaxTime
Due == [sig : Times, left : 0..SettleScans]
Dbs == [archive : [Files -> Version \cup {NoFile}],
        imports : SUBSET (Captures \X Contents),
        failures : SUBSET Failure, lastError : BOOLEAN]
Phases == {"off", "error", "starting", "primed", "initial", "synced", "armed", "scan"}
Runtimes == [phase : Phases, stop : BOOLEAN, boundary : Times,
             known : [Files -> Times], pending : [Files -> Due], todo : SUBSET Files]
Steps == {"none", "read", "commit", "note", "fail", "noteFailure"}
Jobs == [file : Files \cup {NoJob}, at : Steps, attempt : 1..RetryCount,
         error : Errors \cup {"none"}, read : Version \cup {NoFile}]

LEMMA Typed ==
    TypeOK <=>
        /\ disk \in [Files -> Version \cup {NoFile}]
        /\ clock \in 0..MaxTime /\ marker \in Times /\ born \in 0..MaxTime
        /\ reset \in 0..MaxTime \cup {NoReset}
        /\ db \in Dbs /\ rt \in Runtimes /\ job \in Jobs
BY Zenon DEF TypeOK, Times, Due, Dbs, Phases, Runtimes, Steps, Jobs

LEMMA TypedNext ==
    TypeOK' <=>
        /\ disk' \in [Files -> Version \cup {NoFile}]
        /\ clock' \in 0..MaxTime /\ marker' \in Times /\ born' \in 0..MaxTime
        /\ reset' \in 0..MaxTime \cup {NoReset}
        /\ db' \in Dbs /\ rt' \in Runtimes /\ job' \in Jobs
BY Zenon DEF TypeOK, Times, Due, Dbs, Phases, Runtimes, Steps, Jobs

LEMMA Numbers ==
    /\ MaxTime \in Nat /\ Ahead \in Nat /\ (Ahead = 0 \/ Ahead >= MaxTime)
    /\ SettleScans \in Nat /\ SettleScans # 0
    /\ RetryCount \in Nat /\ RetryCount # 0
    /\ Contents \subseteq Nat /\ 0 \in Times /\ 0 \in 0..MaxTime /\ 1 \in 1..RetryCount
<1>1. /\ MaxTime \in Nat /\ Ahead \in Nat /\ (Ahead = 0 \/ Ahead >= MaxTime)
      /\ SettleScans \in Nat /\ SettleScans # 0
      /\ RetryCount \in Nat /\ RetryCount # 0 /\ Contents \subseteq Nat
  BY CaptureConstantsOK
<1> QED BY <1>1 DEF Times

LEMMA NothingIsTyped ==
    /\ NotDue \in Due /\ EmptyDb \in Dbs /\ Idle \in Runtimes /\ NoImport \in Jobs
    /\ \A p \in Phases, b \in Times :
          [Idle EXCEPT !.phase = p, !.boundary = b] \in Runtimes
<1>1. NotDue \in Due /\ NotDue.sig = 0
  BY Numbers DEF NotDue, Due
<1>2. EmptyDb \in Dbs
  BY DEF EmptyDb, Dbs
<1>3. Idle \in Runtimes
  BY <1>1, Numbers DEF Idle, Runtimes, Phases
<1>4. NoImport \in Jobs
  BY Numbers DEF NoImport, Jobs, Steps
<1> QED BY <1>1, <1>2, <1>3, <1>4 DEF Runtimes

LEMMA PhaseMoves ==
    ASSUME rt \in Runtimes, NEW p \in Phases, rt' = [rt EXCEPT !.phase = p]
    PROVE  /\ rt' \in Runtimes /\ rt'.phase = p
           /\ UNCHANGED <<rt.stop, rt.boundary, rt.known, rt.pending, rt.todo>>
BY DEF Runtimes

LEMMA SignaturesAreTyped ==
    ASSUME disk \in [Files -> Version \cup {NoFile}], NEW f \in Files
    PROVE  /\ Signature(f) \in Times
           /\ Signature(f) = 0 <=> disk[f] = NoFile
           /\ disk[f] # NoFile => disk[f] \in Version /\ Signature(f) = disk[f].mtime
           /\ Signatures \in [Files -> Times] /\ Signatures[f] = Signature(f)
<1>1. ASSUME NEW g \in Files
      PROVE  /\ Signature(g) \in Times
             /\ Signature(g) = 0 <=> disk[g] = NoFile
             /\ disk[g] # NoFile => disk[g] \in Version /\ Signature(g) = disk[g].mtime
  BY Numbers DEF Signature, Version, Times
<1> QED BY <1>1 DEF Signatures

-----------------------------------------------------------------------------
(* Times *)

\* The time of a write is a new one, on the plugin's clock and on a wrong one.
LEMMA WritesAreNew ==
    ASSUME clock \in 0..MaxTime, clock < MaxTime,
           NEW m \in {clock + 1, clock + 1 + Ahead}
    PROVE  Stamp(m) = clock + 1
BY Numbers DEF Stamp

LEMMA WrittenAtIsStamp ==
    \A v : WrittenAt(v) = Stamp(v.mtime)
BY DEF WrittenAt, Stamp

\* A set of numbers below a bound has a greatest one.
LEMMA Least ==
    ASSUME NEW S \in SUBSET Nat, S # {}
    PROVE  \E x \in S : \A y \in S : ~(y < x)
<1> DEFINE R == OpToRel(<, Nat)
<1>1. IsWellFoundedOn(R, Nat)
  BY NatLessThanWellFounded
<1>2. \A x, y \in Nat : y < x => <<y, x>> \in R
  BY DEF OpToRel
<1> HIDE DEF R
<1>3. \E x \in S : \A y \in S : ~(<<y, x>> \in R)
  BY <1>1, WFMin
<1> QED BY <1>2, <1>3

LEMMA Greatest ==
    ASSUME NEW n \in Nat, NEW S \in SUBSET (0..n), S # {}
    PROVE  \E x \in S : \A y \in S : y <= x
<1> DEFINE T == {n - x : x \in S}
<1>1. T \in SUBSET Nat /\ T # {}
  <2>1. \A x \in S : n - x \in Nat
    OBVIOUS
  <2>2. PICK x \in S : TRUE
    OBVIOUS
  <2>3. n - x \in T
    OBVIOUS
  <2> QED BY <2>1, <2>3
<1>2. PICK t \in T : \A u \in T : ~(u < t)
  BY <1>1, Least, Zenon
<1>3. PICK x \in S : t = n - x
  BY <1>2
<1>4. \A y \in S : n - y \in T
  OBVIOUS
<1> HIDE DEF T
<1>5. ASSUME NEW y \in S PROVE y <= x
  <2>1. ~(n - y < n - x)
    BY <1>2, <1>3, <1>4
  <2> QED BY <2>1
<1> QED BY <1>5

LEMMA BoundaryIsNewest ==
    ASSUME disk \in [Files -> Version \cup {NoFile}], clock \in 0..MaxTime
    PROVE  /\ Boundary \in Times
           /\ \A f \in Captures : disk[f] # NoFile => disk[f].mtime <= Boundary
<1> DEFINE S == NewestCapture \cup {clock}
<1>1. S \in SUBSET Times /\ S # {}
  BY Numbers DEF NewestCapture, Version, Times, Files
<1>2. \A f \in Captures : disk[f] # NoFile => disk[f].mtime \in S
  BY DEF NewestCapture
<1> HIDE DEF S
<1>3. \E x \in S : \A y \in S : y <= x
  <2> DEFINE n == Ahead + MaxTime
  <2>1. n \in Nat /\ S \in SUBSET (0..n)
    BY <1>1, Numbers DEF Times
  <2> HIDE DEF n
  <2> QED BY <1>1, <2>1, Greatest
<1>4. Boundary = CHOOSE x \in S : \A y \in S : y <= x
  BY DEF Boundary, S
<1>5. Boundary \in S /\ \A y \in S : y <= Boundary
  BY <1>3, <1>4
<1> QED BY <1>1, <1>2, <1>5

-----------------------------------------------------------------------------
(* What a step leaves alone *)

LEMMA AccountedStays ==
    ASSUME NEW f \in Files, disk'[f] = disk[f], UNCHANGED db, rt'.boundary = rt.boundary
    PROVE  Accounted(f)' = Accounted(f)
BY DEF Accounted, Imported, Failing

LEMMA SameStays ==
    ASSUME NEW f \in Files, disk'[f] = disk[f], rt'.phase = rt.phase,
           rt'.known[f] = rt.known[f], rt'.pending[f] = rt.pending[f]
    PROVE  /\ Signature(f)' = Signature(f) /\ Seen(f)' = Seen(f) /\ Same(f)' = Same(f)
BY DEF Signature, Seen, Same, Watching

-----------------------------------------------------------------------------
(* The plugin *)

\* A file that is written at a new time, or removed, is not the one that was
\* seen, read or committed.
LEMMA FileMoves ==
    ASSUME IInv, NEW f \in Files, UNCHANGED <<marker, reset, db, rt, job, born>>,
           disk' \in [Files -> Version \cup {NoFile}],
           \A g \in Files \ {f} : disk'[g] = disk[g],
           clock' \in 0..MaxTime, clock' >= clock,
           disk'[f] # NoFile => clock' = clock + 1 /\ Stamp(disk'[f].mtime) = clock'
    PROVE  IInv'
<1>1. /\ disk \in [Files -> Version \cup {NoFile}] /\ clock \in 0..MaxTime
      /\ born \in 0..MaxTime /\ reset \in 0..MaxTime \cup {NoReset}
      /\ rt \in Runtimes /\ job \in Jobs /\ db \in Dbs
  BY Typed DEF IInv
<1>2. TypeOK'
  BY Typed, TypedNext DEF IInv
<1>3. ASSUME NEW g \in Files \ {f}
      PROVE  /\ Signature(g)' = Signature(g) /\ Same(g)' = Same(g)
             /\ Accounted(g)' = Accounted(g)
  BY <1>3, AccountedStays, SameStays
<1>4. /\ ~Same(f)'
      /\ Accounted(f)' \/ (Signature(f)' # rt'.known[f])
      /\ Stamp(Signature(f)') <= clock'
  <2>1. CASE disk'[f] = NoFile
    <3>1. Signature(f)' = 0 /\ Stamp(0) = 0
      BY <2>1, Numbers DEF Signature, Stamp
    <3> QED BY <1>1, <2>1, <3>1 DEF Same, Accounted
  <2>2. CASE disk'[f] # NoFile
    <3>1. Signature(f)' = disk'[f].mtime /\ Stamp(disk'[f].mtime) = clock + 1
      BY <2>2 DEF Signature
    <3>2. Stamp(rt.known[f]) <= clock /\ Stamp(rt.pending[f].sig) <= clock
      BY DEF IInv, Past
    <3>3. Signature(f)' # rt.known[f] /\ Signature(f)' # rt.pending[f].sig
      BY <1>1, <3>1, <3>2
    <3> QED BY <1>1, <2>2, <3>1, <3>3 DEF Same, Seen, Watching
  <2> QED BY <2>1, <2>2
<1>5. Past'
  <2>1. \A g \in Files : Stamp(Signature(g)') <= clock'
    <3>1. \A g \in Files \ {f} : Signature(g)' = Signature(g) /\ Stamp(Signature(g)) <= clock
      BY <1>3 DEF IInv, Past
    <3>2. \A g \in Files : Signature(g) \in Times
      BY <1>1, SignaturesAreTyped
    <3>3. \A m \in Times : Stamp(m) \in Int
      BY Numbers DEF Stamp, Times
    <3> QED BY <1>1, <1>4, <3>1, <3>2, <3>3
  <2>2. \A g \in Files : Stamp(rt.known[g]) <= clock' /\ Stamp(rt.pending[g].sig) <= clock'
    <3>1. \A g \in Files : rt.known[g] \in Times /\ rt.pending[g].sig \in Times
      BY <1>1 DEF Runtimes, Due
    <3>2. \A m \in Times : Stamp(m) \in Int
      BY Numbers DEF Stamp, Times
    <3> QED BY <1>1, <3>1, <3>2 DEF IInv, Past
  <2>3. born <= clock' /\ (reset # NoReset => reset <= clock')
    BY <1>1 DEF IInv, Past
  <2> QED BY <2>1, <2>2, <2>3 DEF Past, Stamp
<1>6. ASSUME NEW t \in 0..MaxTime, t <= clock, Bounded(t) PROVE Bounded(t)'
  <2>1. ASSUME NEW g \in Captures, disk'[g] # NoFile, WrittenAt(disk'[g]) <= t
        PROVE  disk'[g].mtime <= marker'
    <3>1. g # f
      BY <1>1, <1>6, <2>1, WrittenAtIsStamp
    <3> QED BY <1>6, <2>1, <3>1 DEF Bounded, Files
  <2> QED BY <2>1 DEF Bounded, WrittenAt
<1>7. ResetOK'
  BY <1>1, <1>6 DEF IInv, Past, ResetOK, Running, Bounded, WrittenAt
<1>8. JobOK'
  BY <1>1, <1>3, <1>4 DEF IInv, JobOK, AlreadyImported, Failing, WrittenAt, Runtimes
<1>9. WatchOK' /\ NothingIsLostSilently'
  BY <1>3, <1>4 DEF IInv, WatchOK, NothingIsLostSilently, KnownIsAccounted, LastErrorIsOpen
<1> QED BY <1>2, <1>5, <1>7, <1>8, <1>9 DEF IInv, ResetForgets, WrittenAt

LEMMA PluginIsFine == IInv /\ (\E f \in Files : Write(f) \/ Remove(f)) => IInv'
<1> SUFFICES ASSUME IInv, NEW f \in Files, Write(f) \/ Remove(f) PROVE IInv'
  OBVIOUS
<1>1. disk \in [Files -> Version \cup {NoFile}] /\ clock \in 0..MaxTime
  BY Typed DEF IInv
<1>2. CASE Write(f)
  <2>1. PICK v \in Version : /\ v.mtime \in {clock', clock' + Ahead}
                             /\ disk' = [disk EXCEPT ![f] = v]
    BY <1>2 DEF Write
  <2>2. clock' = clock + 1 /\ clock < MaxTime /\ clock' \in 0..MaxTime
    BY <1>1, <1>2, Numbers DEF Write
  <2>3. Stamp(v.mtime) = clock'
    BY <1>1, <2>1, <2>2, WritesAreNew
  <2>4. disk'[f] = v /\ \A g \in Files \ {f} : disk'[g] = disk[g]
    BY <1>1, <2>1
  <2>5. disk' \in [Files -> Version \cup {NoFile}]
    BY <1>1, <2>1
  <2>6. UNCHANGED <<marker, reset, db, rt, job, born>> /\ clock' >= clock
    BY <1>1, <1>2, <2>2 DEF Write
  <2> QED BY <2>2, <2>3, <2>4, <2>5, <2>6, FileMoves
<1>3. CASE Remove(f)
  <2>1. disk' = [disk EXCEPT ![f] = NoFile] /\ UNCHANGED <<marker, reset, db, rt, job, born>>
    BY <1>3 DEF Remove
  <2>2. clock' \in 0..MaxTime /\ clock' >= clock
    BY <1>1, <1>3, Numbers DEF Remove
  <2>3. /\ disk' \in [Files -> Version \cup {NoFile}] /\ disk'[f] = NoFile
        /\ \A g \in Files \ {f} : disk'[g] = disk[g]
    BY <1>1, <2>1
  <2> QED BY <2>1, <2>2, <2>3, FileMoves
<1> QED BY <1>2, <1>3

-----------------------------------------------------------------------------
(* The runtime *)

LEMMA Parts ==
    ASSUME IInv
    PROVE  /\ disk \in [Files -> Version \cup {NoFile}]
           /\ clock \in 0..MaxTime /\ marker \in Times /\ born \in 0..MaxTime
           /\ reset \in 0..MaxTime \cup {NoReset}
           /\ db \in Dbs /\ rt \in Runtimes /\ job \in Jobs
BY Typed DEF IInv

\* A thread that has just begun, or has ended, has nothing in hand.
LEMMA FreshIsFine ==
    ASSUME IInv, rt' \in Runtimes, rt'.phase \in {"off", "error", "starting"},
           \A f \in Files : rt'.known[f] = 0 /\ rt'.pending[f] = NotDue,
           rt'.phase = "starting" => rt'.boundary = marker /\ reset' = NoReset,
           job' \in Jobs, job'.at = "none", reset' \in {reset, NoReset},
           UNCHANGED <<disk, clock, marker, db, born>>
    PROVE  IInv'
<1>1. TypeOK'
  BY Parts, TypedNext
<1>2. Past'
  <2>1. Stamp(0) = 0 /\ \A c \in 0..MaxTime : 0 <= c
    BY Numbers DEF Stamp
  <2>2. \A f \in Files : Signature(f)' = Signature(f)
    BY DEF Signature
  <2> QED BY <2>1, <2>2, Parts DEF IInv, Past, NotDue, Stamp
<1>3. ResetOK'
  BY DEF IInv, ResetOK, Running, Bounded, WrittenAt
<1>4. JobOK'
  BY DEF JobOK
<1>5. WatchOK' /\ NothingIsLostSilently'
  BY DEF IInv, WatchOK, NothingIsLostSilently, KnownIsAccounted, LastErrorIsOpen
<1> QED BY <1>1, <1>2, <1>3, <1>4, <1>5 DEF IInv, ResetForgets, WrittenAt

LEMMA StartIsFine == IInv /\ Start => IInv'
<1> SUFFICES ASSUME IInv, Start PROVE IInv'
  OBVIOUS
<1>1. job.at = "none" /\ reset' = NoReset
  BY DEF IInv, JobOK, Start, Running
<1>2. rt' = [Idle EXCEPT !.phase = "starting", !.boundary = marker]
  BY DEF Start
<1>3. /\ rt' \in Runtimes /\ rt'.phase = "starting" /\ rt'.boundary = marker
      /\ \A f \in Files : rt'.known[f] = 0 /\ rt'.pending[f] = NotDue
  BY <1>2, Parts, NothingIsTyped DEF Idle, Phases
<1> QED BY <1>1, <1>3, Parts, FreshIsFine DEF Start

LEMMA EndingsAreFine ==
    IInv /\ (RuntimeFails \/ Stop \/ Crash \/ RecordingFails) => IInv'
<1> SUFFICES ASSUME IInv, RuntimeFails \/ Stop \/ Crash \/ RecordingFails PROVE IInv'
  OBVIOUS
<1>1. NoImport \in Jobs /\ NoImport.at = "none"
  BY NothingIsTyped DEF NoImport
<1>2. /\ rt' \in Runtimes /\ rt'.phase \in {"off", "error"}
      /\ \A f \in Files : rt'.known[f] = 0 /\ rt'.pending[f] = NotDue
  <2>1. rt' = Idle \/ rt' = [Idle EXCEPT !.phase = "error"]
    BY DEF RuntimeFails, Stop, Crash, RecordingFails
  <2>2. /\ Idle \in Runtimes /\ Idle.phase = "off"
        /\ \A f \in Files : Idle.known[f] = 0 /\ Idle.pending[f] = NotDue
    BY NothingIsTyped DEF Idle
  <2>3. CASE rt' = Idle
    BY <2>2, <2>3
  <2>4. CASE rt' = [Idle EXCEPT !.phase = "error"]
    BY <2>2, <2>4 DEF Runtimes, Phases
  <2> QED BY <2>1, <2>3, <2>4
<1>3. job' \in Jobs /\ job'.at = "none"
  BY <1>1, Parts DEF IInv, JobOK, RuntimeFails, Stop, Crash, RecordingFails
<1>4. reset' \in {reset, NoReset} /\ UNCHANGED <<disk, clock, marker, db, born>>
  BY DEF RuntimeFails, Stop, Crash, RecordingFails
<1> QED BY <1>2, <1>3, <1>4, FreshIsFine

\* A step of the thread that keeps what it has seen, but for what is new.
LEMMA RuntimeMoves ==
    ASSUME IInv, UNCHANGED <<disk, clock, marker, reset, db, born>>,
           Running, rt' \in Runtimes, rt'.boundary = rt.boundary,
           job' \in Jobs, JobOK', WatchOK', KnownIsAccounted',
           \A f \in Files :
               /\ rt'.known[f] \in {0, rt.known[f], rt.pending[f].sig, Signature(f)}
               /\ rt'.pending[f].sig \in {0, rt.pending[f].sig, Signature(f)}
    PROVE  IInv'
<1>1. TypeOK'
  BY Parts, TypedNext
<1>2. Past'
  <2>1. Stamp(0) = 0 /\ \A c \in 0..MaxTime : 0 <= c
    BY Numbers DEF Stamp
  <2>2. \A f \in Files : Signature(f)' = Signature(f)
    BY DEF Signature
  <2> QED BY <2>1, <2>2, Parts DEF IInv, Past, Stamp
<1>3. ResetOK'
  BY DEF IInv, ResetOK, Running, Bounded, WrittenAt
<1> QED BY <1>1, <1>2, <1>3
        DEF IInv, ResetForgets, WrittenAt, NothingIsLostSilently, LastErrorIsOpen

LEMMA PrimeIsFine == IInv /\ Prime => IInv'
<1> SUFFICES ASSUME IInv, Prime PROVE IInv'
  OBVIOUS
<1> USE DEF Prime
<1>1. /\ rt' \in Runtimes /\ rt'.phase = "primed" /\ rt'.boundary = rt.boundary
      /\ rt'.pending = rt.pending /\ rt'.known = Signatures
  <2>1. rt' = [rt EXCEPT !.phase = "primed", !.known = Signatures] /\ rt \in Runtimes
    BY Parts
  <2>2. Signatures \in [Files -> Times]
    <3>1. \A f \in Files : Signature(f) \in Times
      BY Parts, SignaturesAreTyped
    <3> QED BY <3>1 DEF Signatures
  <2> QED BY <2>1, <2>2 DEF Runtimes, Phases
<1>2. job.at = "none"
  BY DEF IInv, JobOK
<1>3. JobOK'
  BY <1>2 DEF JobOK
<1>4. WatchOK' /\ KnownIsAccounted'
  BY <1>1 DEF IInv, WatchOK, KnownIsAccounted
<1>5. \A f \in Files : rt'.known[f] = Signature(f)
  BY <1>1 DEF Signatures
<1> QED BY <1>1, <1>3, <1>4, <1>5, Parts, RuntimeMoves DEF Running

LEMMA ImportAllIsFine == IInv /\ ImportAll => IInv'
<1> SUFFICES ASSUME IInv, ImportAll PROVE IInv'
  OBVIOUS
<1> USE DEF ImportAll
<1>1. /\ rt' \in Runtimes /\ rt'.phase = "initial" /\ rt'.boundary = rt.boundary
      /\ rt'.pending = rt.pending /\ rt'.known = rt.known
      /\ rt'.todo = {f \in Files : disk[f] # NoFile}
  <2>1. rt \in Runtimes /\ {f \in Files : disk[f] # NoFile} \in SUBSET Files
    BY Parts
  <2> QED BY <2>1 DEF Runtimes, Phases
<1>2. job.at = "none"
  BY DEF IInv, JobOK
<1>3. JobOK'
  BY <1>2 DEF JobOK
<1>4. WatchOK'
  BY <1>1 DEF IInv, WatchOK, Same
<1>5. KnownIsAccounted'
  BY <1>1 DEF KnownIsAccounted
<1> QED BY <1>1, <1>3, <1>4, <1>5, Parts, RuntimeMoves DEF Running

\* When the first import ends, every file is known that is not due to change.
LEMMA EndOfSyncIsFine == IInv /\ EndOfSync => IInv'
<1> SUFFICES ASSUME IInv, EndOfSync PROVE IInv'
  OBVIOUS
<1> USE DEF EndOfSync
<1>1. /\ rt' \in Runtimes /\ rt'.phase = "synced" /\ rt'.boundary = rt.boundary
      /\ rt'.pending = rt.pending /\ rt'.known = rt.known
  BY Parts, PhaseMoves DEF Phases
<1>2. job'.at = "none"
  BY DEF NoImport
<1>3. JobOK' /\ WatchOK'
  BY <1>1, <1>2 DEF JobOK, WatchOK
<1>4. ASSUME NEW f \in Files, rt'.known[f] = Signature(f)'
      PROVE  Accounted(f)'
  <2>1. Signature(f) = rt.known[f] /\ rt.todo = {}
    BY <1>1, <1>4 DEF Signature
  <2>2. Same(f) => Accounted(f)
    BY DEF IInv, WatchOK
  <2>3. Accounted(f)
    BY <2>1, <2>2 DEF Same, Seen, Watching, Accounted
  <2> QED BY <1>1, <2>3, AccountedStays
<1>5. KnownIsAccounted'
  BY <1>1, <1>4 DEF KnownIsAccounted
<1> QED BY <1>1, <1>3, <1>5, Parts, RuntimeMoves DEF Running

LEMMA EndOfScanIsFine == IInv /\ (EndOfScan \/ AskToStop) => IInv'
<1> SUFFICES ASSUME IInv, EndOfScan \/ AskToStop PROVE IInv'
  OBVIOUS
<1> USE DEF EndOfScan, AskToStop
<1>1. /\ rt' \in Runtimes /\ rt'.boundary = rt.boundary
      /\ rt'.pending = rt.pending /\ rt'.known = rt.known /\ rt'.todo = rt.todo
      /\ rt'.phase = rt.phase \/ (job.at = "none" /\ rt'.phase = "armed" /\ rt.phase = "scan")
  <2>1. CASE EndOfScan
    BY <2>1, Parts, PhaseMoves DEF NoImport, Phases
  <2>2. CASE AskToStop
    BY <2>2, Parts DEF Runtimes
  <2> QED BY <2>1, <2>2
<1>2. \A f \in Files : Accounted(f)' = Accounted(f) /\ Signature(f)' = Signature(f)
  BY <1>1, AccountedStays DEF Signature
<1>3. rt'.phase = rt.phase => \A f \in Files : Same(f)' = Same(f)
  BY <1>1, SameStays
<1>4. JobOK'
  <2>1. job.at # "none" => job.file \in Files /\ rt'.phase = rt.phase
    BY <1>1, Parts DEF IInv, JobOK, Runtimes
  <2> QED BY <1>1, <1>2, <1>3, <2>1
          DEF IInv, JobOK, AlreadyImported, WrittenAt, Failing
<1>5. WatchOK'
  BY <1>1, <1>2, <1>3 DEF IInv, WatchOK
<1>6. KnownIsAccounted'
  BY <1>1, <1>2 DEF IInv, NothingIsLostSilently, KnownIsAccounted
<1> QED BY <1>1, <1>4, <1>5, <1>6, Parts, RuntimeMoves DEF Running

\* A file in the state it is known in does not begin to settle, and one that
\* settles does not stop before it was imported.
LEMMA SettlingIsTyped ==
    ASSUME rt \in Runtimes, NEW now \in [Files -> Times], NEW f \in Files
    PROVE  /\ Settling(f, now) \in Due
           /\ Settling(f, now).sig \in {0, rt.pending[f].sig, now[f]}
           /\ now[f] # 0 /\ now[f] = rt.known[f] /\ Settling(f, now).sig = 0 =>
                 rt.pending[f].sig = 0
<1> DEFINE p == rt.pending[f]
           gone == now[f] = 0
           fresh == now[f] # rt.known[f] /\ now[f] # p.sig
           again == p.sig # 0 /\ p.left <= 1 /\ now[f] # p.sig
<1>1. /\ p \in Due /\ p.sig \in Times /\ p.left \in 0..SettleScans
      /\ NotDue \in Due /\ NotDue.sig = 0 /\ now[f] \in Times
  BY NothingIsTyped DEF Runtimes, Due, NotDue
<1>2. p.left # 0 => [p EXCEPT !.left = p.left - 1] \in Due
                    /\ [p EXCEPT !.left = p.left - 1].sig = p.sig
  <2>1. p.left # 0 => p.left - 1 \in 0..SettleScans
    BY <1>1, Numbers
  <2> QED BY <1>1, <2>1 DEF Due
<1>3. [sig |-> now[f], left |-> SettleScans] \in Due
  BY <1>1, Numbers DEF Due
<1>4. Settling(f, now) =
        CASE gone -> IF rt.known[f] # 0 \/ p.left <= 1 THEN NotDue
                     ELSE [p EXCEPT !.left = p.left - 1]
          [] ~gone /\ (fresh \/ again) -> [sig |-> now[f], left |-> SettleScans]
          [] OTHER -> IF p.sig = 0 \/ p.left = 0 THEN p
                      ELSE [p EXCEPT !.left = p.left - 1]
  BY DEF Settling
<1>5. CASE gone
  BY <1>1, <1>2, <1>4, <1>5
<1>6. CASE ~gone /\ (fresh \/ again)
  <2>1. Settling(f, now) = [sig |-> now[f], left |-> SettleScans]
    BY <1>4, <1>6
  <2> QED BY <1>3, <1>6, <2>1
<1>7. CASE ~gone /\ ~(fresh \/ again)
  <2>1. Settling(f, now) = IF p.sig = 0 \/ p.left = 0 THEN p
                           ELSE [p EXCEPT !.left = p.left - 1]
    BY <1>4, <1>7
  <2> QED BY <1>1, <1>2, <2>1
<1> QED BY <1>5, <1>6, <1>7

LEMMA ScanIsFine == IInv /\ Scan => IInv'
<1> SUFFICES ASSUME IInv, Scan PROVE IInv'
  OBVIOUS
<1> DEFINE now == Signatures
           next == [f \in Files |-> Settling(f, now)]
           known == [f \in Files |-> IF now[f] = 0 THEN 0 ELSE rt.known[f]]
           due == {f \in Files : next[f].sig # 0 /\ next[f].left = 0}
           phase == IF due = {} THEN "armed" ELSE "scan"
<1>1. /\ rt.phase \in {"synced", "armed"}
      /\ rt' = [rt EXCEPT !.known = known, !.pending = next, !.todo = due, !.phase = phase]
      /\ UNCHANGED <<disk, clock, marker, reset, db, job, born>>
  BY DEF Scan
<1>2. /\ now \in [Files -> Times]
      /\ \A f \in Files : now[f] = Signature(f) /\ (now[f] = 0 <=> disk[f] = NoFile)
  <2>1. \A f \in Files : Signature(f) \in Times /\ (Signature(f) = 0 <=> disk[f] = NoFile)
    BY Parts, SignaturesAreTyped
  <2> QED BY <2>1 DEF Signatures
<1> HIDE DEF now
<1>3. \A f \in Files : Settling(f, now) \in Due
  BY <1>2, Parts, SettlingIsTyped
<1>4. next \in [Files -> Due] /\ \A f \in Files : next[f] = Settling(f, now)
  BY <1>3
<1>5. known \in [Files -> Times] /\ due \in SUBSET Files /\ phase \in {"armed", "scan"}
  <2>1. \A f \in Files : rt.known[f] \in Times
    BY Parts DEF Runtimes
  <2> QED BY <1>2, <2>1
<1>6. \A f \in due : next[f].sig # 0
  OBVIOUS
<1>7. \A f \in Files : known[f] = IF now[f] = 0 THEN 0 ELSE rt.known[f]
  OBVIOUS
<1> HIDE DEF next, known, due, phase
<1>8. /\ rt' \in Runtimes /\ rt'.phase \in {"armed", "scan"}
      /\ rt'.boundary = rt.boundary /\ rt'.known = known
      /\ rt'.pending = next /\ rt'.todo = due
  BY <1>1, <1>4, <1>5, Parts DEF Runtimes, Phases
<1>9. job.at = "none"
  BY <1>1 DEF IInv, JobOK
<1>10. JobOK' /\ WatchOK'
  BY <1>1, <1>6, <1>8, <1>9 DEF JobOK, WatchOK
<1>11. ASSUME NEW f \in Files, rt'.known[f] = Signature(f)', rt'.pending[f].sig = 0
       PROVE  Accounted(f)'
  <2>1. known[f] = now[f] /\ next[f].sig = 0
    BY <1>1, <1>2, <1>8, <1>11 DEF Signature
  <2>2. CASE now[f] = 0
    BY <1>2, <2>2, <1>1 DEF Accounted
  <2>3. CASE now[f] # 0
    <3>1. rt.known[f] = now[f]
      BY <1>7, <2>1, <2>3
    <3>2. rt.pending[f].sig = 0
      BY <1>2, <1>4, <2>1, <2>3, <3>1, Parts, SettlingIsTyped
    <3>3. Accounted(f)
      BY <1>1, <1>2, <3>1, <3>2 DEF IInv, NothingIsLostSilently, KnownIsAccounted
    <3> QED BY <1>1, <1>8, <3>3, AccountedStays
  <2> QED BY <2>2, <2>3
<1>12. KnownIsAccounted'
  BY <1>11 DEF KnownIsAccounted
<1>13. ASSUME NEW f \in Files
       PROVE  /\ rt'.known[f] \in {0, rt.known[f], rt.pending[f].sig, Signature(f)}
              /\ rt'.pending[f].sig \in {0, rt.pending[f].sig, Signature(f)}
  BY <1>2, <1>4, <1>7, <1>8, Parts, SettlingIsTyped
<1>14. Running
  BY <1>1 DEF Running
<1> QED BY <1>1, <1>8, <1>10, <1>12, <1>13, <1>14, Parts, RuntimeMoves

-----------------------------------------------------------------------------
(* Importing one file *)

\* A job is about a file that is still to do.
LEMMA AtWork ==
    ASSUME IInv, job.at # "none"
    PROVE  /\ rt.phase \in {"initial", "scan"} /\ Running
           /\ job.file \in Files /\ job.file \in rt.todo
           /\ rt.phase = "scan" => rt.pending[job.file].sig # 0
BY Parts DEF IInv, JobOK, WatchOK, Running, Runtimes

\* The job goes on, and nothing else does.
LEMMA JobMoves ==
    ASSUME IInv, Running, job' \in Jobs, JobOK',
           UNCHANGED <<disk, clock, marker, reset, db, rt, born>>
    PROVE  IInv'
<1>1. \A f \in Files : Accounted(f)' = Accounted(f) /\ Same(f)' = Same(f)
  BY AccountedStays, SameStays
<1>2. WatchOK'
  BY <1>1 DEF IInv, WatchOK
<1>3. KnownIsAccounted'
  BY <1>1 DEF IInv, NothingIsLostSilently, KnownIsAccounted, Signature
<1> QED BY <1>2, <1>3, Parts, RuntimeMoves

LEMMA GoMoves ==
    ASSUME job \in Jobs, NEW step \in Steps, NEW error \in Errors \cup {"none"},
           Go(step, error)
    PROVE  job' \in Jobs /\ job'.at = step /\ job'.file = job.file /\ job'.error = error
BY NothingIsTyped DEF Go, Jobs

LEMMA BeginImportIsFine == IInv /\ (\E f \in Files : BeginImport(f)) => IInv'
<1> SUFFICES ASSUME IInv, NEW f \in Files, BeginImport(f) PROVE IInv'
  OBVIOUS
<1> USE DEF BeginImport
<1>1. job' \in Jobs /\ job'.at = "read" /\ job'.file = f
  BY NothingIsTyped DEF Jobs, Steps
<1>2. JobOK'
  BY <1>1 DEF JobOK
<1> QED BY <1>1, <1>2, JobMoves DEF Running

LEMMA OutcomeIsRight ==
    ASSUME IInv, NEW f \in Files
    PROVE  /\ Outcome(f) = "skip" => Accounted(f)
           /\ Outcome(f) = "import" =>
                 /\ disk[f] \in Version /\ disk[f].content \in Contents
                 /\ disk[f].mtime > rt.boundary
                 /\ f \in Captures => ~AlreadyImported(f, disk[f].content)
<1>1. /\ disk[f] \in Version \cup {NoFile} /\ db.imports \subseteq Captures \X Contents
      /\ rt.boundary \in Times
  BY Parts DEF Dbs, Runtimes
<1>2. CASE disk[f] = NoFile
  BY <1>2 DEF Outcome
<1>3. CASE disk[f] # NoFile /\ Ignored(disk[f])
  BY <1>3 DEF Outcome, Ignored, Accounted
<1>4. CASE disk[f] # NoFile /\ ~Ignored(disk[f])
  <2>1. /\ disk[f] \in Version /\ disk[f].mtime \in Times
        /\ disk[f].content \in Contents \cup {Torn, Invalid}
    BY <1>1, <1>4, Numbers DEF Version, Times
  <2>2. disk[f].mtime > rt.boundary
    BY <1>1, <1>4, <2>1, Numbers DEF Ignored, Times
  <2>3. CASE disk[f].content = Torn
    BY <1>4, <2>3 DEF Outcome
  <2>4. CASE disk[f].content # Torn /\ Malformed(disk[f])
    BY <1>4, <2>4 DEF Outcome
  <2>5. CASE disk[f].content # Torn /\ ~Malformed(disk[f])
    <3>1. disk[f].content \in Contents
      BY <2>1, <2>5 DEF Malformed
    <3>2. CASE f \in Captures /\ AlreadyImported(f, disk[f].content)
      <4>1. Outcome(f) = "skip"
        BY <1>4, <2>5, <3>2 DEF Outcome
      <4>2. Accounted(f)
        BY <3>1, <3>2 DEF Accounted, Imported, AlreadyImported
      <4> QED BY <4>1, <4>2
    <3>3. CASE ~(f \in Captures /\ AlreadyImported(f, disk[f].content))
      <4>1. Outcome(f) = "import"
        BY <1>4, <2>5, <3>3 DEF Outcome
      <4> QED BY <2>1, <2>2, <3>1, <3>3, <4>1
    <3> QED BY <3>2, <3>3
  <2> QED BY <2>3, <2>4, <2>5
<1> QED BY <1>2, <1>3, <1>4

LEMMA ReadIsFine == IInv /\ Read => IInv'
<1> SUFFICES ASSUME IInv, Read PROVE IInv'
  OBVIOUS
<1>0. PICK f \in Files : f = job.file
  BY AtWork DEF Read, At
<1>1. /\ job.at = "read" /\ f = job.file /\ f \in rt.todo /\ job \in Jobs
      /\ rt.phase \in {"initial", "scan"} /\ Running
      /\ UNCHANGED <<disk, clock, marker, reset, db, rt, born>>
  BY <1>0, AtWork, Parts DEF Read, At
<1>2. CASE Outcome(f) = "skip" /\ Go("note", "none")
  <2>1. job' \in Jobs /\ job'.at = "note" /\ job'.file = f
    BY <1>1, <1>2, GoMoves DEF Steps
  <2>2. Accounted(f)'
    <3>1. Accounted(f)
      BY <1>1, <1>2, OutcomeIsRight
    <3>2. Accounted(f)' = Accounted(f)
      BY <1>1, AccountedStays
    <3> QED BY <3>1, <3>2
  <2>3. JobOK'
    BY <1>1, <2>1, <2>2 DEF JobOK
  <2> QED BY <1>1, <2>1, <2>3, JobMoves
<1>3. CASE /\ Outcome(f) = "import"
           /\ job' = [job EXCEPT !.at = "commit", !.read = disk[f]]
  <2>1. /\ disk[f] \in Version /\ disk[f].content \in Contents
        /\ disk[f].mtime > rt.boundary
        /\ f \in Captures => ~AlreadyImported(f, disk[f].content)
    BY <1>1, <1>3, OutcomeIsRight
  <2>2. job' \in Jobs /\ job'.at = "commit" /\ job'.file = f /\ job'.read = disk[f]
    BY <1>1, <1>3, <2>1 DEF Jobs, Steps
  <2>3. f \in Captures => WrittenAt(disk[f]) > born
    <3>1. rt.boundary = marker /\ Bounded(born)
      BY <1>1 DEF IInv, ResetOK
    <3>2. disk[f].mtime \in Times /\ marker \in Times /\ born \in 0..MaxTime
      BY <2>1, Parts, Numbers DEF Version, Times
    <3>3. WrittenAt(disk[f]) \in Int
      BY <3>2, Numbers DEF WrittenAt, Times
    <3>4. ASSUME f \in Captures, WrittenAt(disk[f]) <= born PROVE FALSE
      <4>1. CASE disk[f] = NoFile
        BY <1>3, <4>1 DEF Outcome
      <4>2. CASE disk[f] # NoFile
        BY <2>1, <3>1, <3>2, <3>4, <4>2 DEF Bounded, Times
      <4> QED BY <4>1, <4>2
    <3> QED BY <3>2, <3>3, <3>4
  <2>4. JobOK'
    BY <1>1, <2>1, <2>2, <2>3 DEF JobOK, WrittenAt, AlreadyImported
  <2> QED BY <1>1, <2>2, <2>4, JobMoves
<1>4. CASE Retried /\ job' = [job EXCEPT !.attempt = NextAttempt]
  <2>1. job.attempt + 1 \in 1..RetryCount
    <3>1. job.attempt \in 1..RetryCount /\ job.attempt < RetryCount
      BY <1>1, <1>4 DEF Jobs, Retried
    <3> QED BY <3>1, Numbers
  <2>2. job' \in Jobs /\ job'.at = "read" /\ job'.file = f
    BY <1>1, <1>4, <2>1 DEF Jobs, NextAttempt
  <2>3. JobOK'
    BY <1>1, <2>2 DEF JobOK
  <2> QED BY <1>1, <2>2, <2>3, JobMoves
<1>5. CASE Outcome(f) \in {"transient", "invalid"} /\ Go("fail", Outcome(f))
  <2>1. job' \in Jobs /\ job'.at = "fail" /\ job'.file = f /\ job'.error \in Errors
    BY <1>1, <1>5, GoMoves DEF Steps, Errors
  <2>2. JobOK'
    BY <1>1, <2>1 DEF JobOK
  <2> QED BY <1>1, <2>1, <2>2, JobMoves
<1> QED BY <1>1, <1>2, <1>3, <1>4, <1>5 DEF Read

LEMMA ImportFailuresAreFine == IInv /\ (CommitFails \/ NoteFails) => IInv'
<1> SUFFICES ASSUME IInv, CommitFails \/ NoteFails PROVE IInv'
  OBVIOUS
<1>1. /\ job.at # "none" /\ Go("fail", "database")
      /\ UNCHANGED <<disk, clock, marker, reset, db, rt, born>>
  BY DEF CommitFails, NoteFails, At
<1>2. /\ job.file \in rt.todo /\ rt.phase \in {"initial", "scan"} /\ Running
  BY <1>1, AtWork
<1>3. job' \in Jobs /\ job'.at = "fail" /\ job'.file = job.file /\ job'.error \in Errors
  BY <1>1, Parts, GoMoves DEF Steps, Errors
<1>4. JobOK'
  BY <1>1, <1>2, <1>3 DEF JobOK
<1> QED BY <1>1, <1>2, <1>3, <1>4, JobMoves

\* What a commit writes is typed, and what it says of the file in hand.
LEMMA CommitWrites ==
    ASSUME IInv, Commit
    PROVE  /\ db' \in Dbs
           /\ db.imports \subseteq db'.imports
           /\ \A g \in Files \ {job.file} : db'.archive[g] = db.archive[g]
           /\ \A x \in db.failures : x.target # job.file => x \in db'.failures
           /\ db'.archive[job.file] \in {db.archive[job.file], job.read}
           /\ job.file \in Captures => <<job.file, job.read.content>> \in db'.imports
           /\ job.file \in Evidence =>
                 /\ db'.archive[job.file] # NoFile \/ job.read = NoFile
                 /\ db'.archive[job.file].content >= job.read.content
           /\ db'.lastError <=> db'.failures # {}
<1> DEFINE open == {x \in db.failures : x.target # job.file}
<1>1. /\ job.file \in Files /\ job.read \in Version /\ job.read.content \in Contents
      /\ db \in Dbs
  BY AtWork, Parts DEF IInv, JobOK, Commit, At
<1>2. /\ db'.archive = Archived(job.file, job.read)
      /\ db'.imports = IF job.file \in Captures
                       THEN db.imports \cup {<<job.file, job.read.content>>}
                       ELSE db.imports
      /\ db'.failures = open /\ db'.lastError = LastErrorAfter(open)
      /\ db' = [archive |-> db'.archive, imports |-> db'.imports,
                failures |-> db'.failures, lastError |-> db'.lastError]
  BY DEF Commit
<1>3. /\ db'.archive \in [Files -> Version \cup {NoFile}]
      /\ \A g \in Files \ {job.file} : db'.archive[g] = db.archive[g]
      /\ db'.archive[job.file] \in {db.archive[job.file], job.read}
  BY <1>1, <1>2 DEF Archived, Dbs
<1>4. /\ db'.imports \in SUBSET (Captures \X Contents) /\ db.imports \subseteq db'.imports
      /\ job.file \in Captures => <<job.file, job.read.content>> \in db'.imports
  BY <1>1, <1>2 DEF Dbs
<1>5. db'.failures \in SUBSET Failure /\ open \subseteq db.failures
  BY <1>1, <1>2 DEF Dbs
<1>6. /\ db'.lastError \in BOOLEAN
      /\ db'.lastError <=> db'.failures # {}
  <2>1. db.lastError \in BOOLEAN /\ (db.lastError <=> db.failures # {})
    BY <1>1 DEF IInv, NothingIsLostSilently, LastErrorIsOpen, Dbs
  <2>2. CASE open = {}
    <3>1. db'.lastError = FALSE
      BY <1>2, <2>2 DEF LastErrorAfter
    <3> QED BY <1>2, <2>2, <3>1
  <2>3. CASE open # {}
    <3>1. db'.lastError = db.lastError
      BY <1>2, <2>3 DEF LastErrorAfter
    <3>2. db.failures # {}
      BY <1>5, <2>3
    <3> QED BY <1>2, <2>1, <2>3, <3>1, <3>2
  <2> QED BY <2>2, <2>3
<1>7. db' \in Dbs
  BY <1>2, <1>3, <1>4, <1>5, <1>6 DEF Dbs
<1>8. ASSUME job.file \in Evidence
      PROVE  /\ db'.archive[job.file] # NoFile \/ job.read = NoFile
             /\ db'.archive[job.file].content >= job.read.content
  <2>1. CASE Older(job.file, job.read)
    BY <1>2, <2>1 DEF Older, Archived
  <2>2. CASE ~Older(job.file, job.read)
    <3>1. db'.archive[job.file] = job.read
      BY <1>1, <1>2, <2>2 DEF Archived, Dbs
    <3>2. job.read.content >= job.read.content
      <4>1. \A c \in Contents : c >= c
        BY Numbers
      <4> QED BY <1>1, <4>1
    <3> QED BY <3>1, <3>2
  <2> QED BY <2>1, <2>2
<1> QED BY <1>2, <1>3, <1>4, <1>5, <1>6, <1>7, <1>8

\* A commit accounts for the version it read, and loses no other file.
LEMMA CommitIsFine == IInv /\ Commit => IInv'
<1> SUFFICES ASSUME IInv, Commit PROVE IInv'
  OBVIOUS
<1>0. PICK f \in Files : f = job.file
  BY AtWork DEF Commit, At
<1>1. /\ job.at = "commit" /\ f \in rt.todo /\ rt.phase \in {"initial", "scan"}
      /\ Running /\ (rt.phase = "scan" => rt.pending[f].sig # 0)
      /\ UNCHANGED <<disk, clock, marker, reset, rt, born>>
  BY <1>0, AtWork DEF Commit, At
<1>2. /\ job.read \in Version /\ job.read.content \in Contents
      /\ Same(f) => job.read = disk[f]
      /\ f \in Captures => WrittenAt(job.read) > born
  BY <1>0, <1>1 DEF IInv, JobOK
<1>3. job' \in Jobs /\ job'.at = "note" /\ job'.file = f
  BY <1>0, Parts, GoMoves DEF Commit, Steps
<1>4. TypeOK'
  BY <1>1, <1>3, CommitWrites, Parts, TypedNext
<1>5. \A g \in Files : Same(g)' = Same(g) /\ Signature(g)' = Signature(g)
  BY <1>1, SameStays
<1>6. ASSUME NEW g \in Files \ {f}, Accounted(g) PROVE Accounted(g)'
  <2>1. /\ disk' = disk /\ rt' = rt /\ db'.archive[g] = db.archive[g]
        /\ db.imports \subseteq db'.imports
        /\ \A x \in db.failures : x.target = g => x \in db'.failures
    BY <1>0, <1>1, CommitWrites
  <2> QED BY <1>6, <2>1 DEF Accounted, Imported, Failing
<1>7. Same(f)' => Accounted(f)'
  <2> SUFFICES ASSUME Same(f) PROVE Accounted(f)'
    BY <1>5
  <2>1. disk' = disk /\ disk[f] = job.read /\ disk[f] # NoFile
    BY <1>1, <1>2 DEF Same
  <2>2. CASE f \in Captures
    <3>1. <<f, disk'[f].content>> \in db'.imports
      BY <1>0, <2>1, <2>2, CommitWrites
    <3> QED BY <1>2, <2>1, <2>2, <3>1 DEF Accounted, Imported
  <2>3. CASE f \notin Captures
    <3>1. f \in Evidence
      BY <2>3 DEF Files
    <3>2. db'.archive[f] # NoFile /\ db'.archive[f].content >= disk'[f].content
      BY <1>0, <2>1, <3>1, CommitWrites
    <3> QED BY <1>2, <2>1, <2>3, <3>2 DEF Accounted, Imported
  <2> QED BY <2>2, <2>3
<1>8. Past'
  BY <1>1 DEF IInv, Past, Signature, Stamp
<1>9. ResetOK'
  BY <1>1 DEF IInv, ResetOK, Running, Bounded, WrittenAt
<1>10. JobOK'
  BY <1>1, <1>3, <1>7 DEF JobOK
<1>11. WatchOK'
  BY <1>1, <1>5, <1>6 DEF IInv, WatchOK
<1>12. KnownIsAccounted'
  BY <1>1, <1>5, <1>6 DEF IInv, NothingIsLostSilently, KnownIsAccounted
<1>13. LastErrorIsOpen'
  BY CommitWrites DEF LastErrorIsOpen
<1>14. ASSUME NEW g \in Captures, db'.archive[g] # NoFile
       PROVE  WrittenAt(db'.archive[g]) > born'
  <2>1. db'.archive[g] = db.archive[g] \/ (g = f /\ db'.archive[g] = job.read)
    BY <1>0, <1>14, CommitWrites DEF Files
  <2> QED BY <1>1, <1>2, <1>14, <2>1 DEF IInv, ResetForgets
<1>15. ResetForgets'
  BY <1>14 DEF ResetForgets, WrittenAt
<1> QED BY <1>4, <1>8, <1>9, <1>10, <1>11, <1>12, <1>13, <1>15
        DEF IInv, NothingIsLostSilently

\* A failed job accounts for its file whatever it holds.
LEMMA RecordFailureIsFine == IInv /\ RecordFailure => IInv'
<1> SUFFICES ASSUME IInv, RecordFailure PROVE IInv'
  OBVIOUS
<1>0. PICK f \in Files : f = job.file
  BY AtWork DEF RecordFailure, At
<1>1. /\ job.at = "fail" /\ f \in rt.todo /\ rt.phase \in {"initial", "scan"} /\ Running
      /\ UNCHANGED <<disk, clock, marker, reset, rt, born>>
  BY <1>0, AtWork DEF RecordFailure, At
<1>2. PICK x \in Failure :
        /\ x.target = f
        /\ db' = [db EXCEPT !.failures = db.failures \cup {x}, !.lastError = TRUE]
  <2> DEFINE y == [kind |-> IF Watching THEN "watcher_import" ELSE "capture_import",
                   target |-> job.file, error |-> job.error]
  <2>1. y \in Failure /\ y.target = f
    BY <1>0, <1>1 DEF IInv, JobOK, Failure
  <2>2. db' = [db EXCEPT !.failures = db.failures \cup {y}, !.lastError = TRUE]
    BY DEF RecordFailure
  <2> HIDE DEF y
  <2> QED BY <2>1, <2>2
<1>3. /\ db'.archive = db.archive /\ db'.imports = db.imports
      /\ db'.failures = db.failures \cup {x} /\ db'.lastError = TRUE
      /\ db' \in Dbs
  BY <1>2, Parts DEF Dbs
<1>4. job' \in Jobs /\ job'.at = "noteFailure" /\ job'.file = f
  BY <1>0, Parts, GoMoves DEF RecordFailure, Steps
<1>5. \A g \in Files : Same(g)' = Same(g) /\ Signature(g)' = Signature(g)
  BY <1>1, SameStays
<1>6. ASSUME NEW g \in Files, Accounted(g) PROVE Accounted(g)'
  BY <1>1, <1>3, <1>6 DEF Accounted, Imported, Failing
<1>7. Failing(f)'
  BY <1>2, <1>3 DEF Failing
<1>8. JobOK'
  BY <1>1, <1>4, <1>7 DEF JobOK, Failing
<1>9. WatchOK' /\ KnownIsAccounted' /\ LastErrorIsOpen'
  BY <1>1, <1>3, <1>5, <1>6
     DEF IInv, WatchOK, NothingIsLostSilently, KnownIsAccounted, LastErrorIsOpen
<1>10. Past' /\ ResetOK' /\ ResetForgets'
  BY <1>1, <1>3 DEF IInv, Past, Signature, Stamp, ResetOK, Running, Bounded,
                    WrittenAt, ResetForgets
<1>11. TypeOK'
  BY <1>1, <1>3, <1>4, Parts, TypedNext
<1> QED BY <1>8, <1>9, <1>10, <1>11 DEF IInv, NothingIsLostSilently

\* The file becomes known in the state the scan found it in; if it is in that
\* state still, it is accounted for.
LEMMA NoteIsFine == IInv /\ Note => IInv'
<1> SUFFICES ASSUME IInv, Note PROVE IInv'
  OBVIOUS
<1>0. PICK f \in Files : f = job.file
  BY AtWork DEF Note
<1>1. /\ job.at \in {"note", "noteFailure"}
      /\ rt.phase \in {"initial", "scan"} /\ Running /\ Done(f)
      /\ job' \in Jobs /\ job'.at = "none"
      /\ UNCHANGED <<disk, clock, marker, reset, db, born>>
  BY <1>0, AtWork, NothingIsTyped DEF Note, NoImport
<1>2. Same(f) => Accounted(f)
  BY <1>0, <1>1 DEF IInv, JobOK, Accounted
<1>3. /\ rt' \in Runtimes /\ rt'.phase = rt.phase /\ rt'.boundary = rt.boundary
      /\ rt'.todo = rt.todo \ {f}
      /\ \A g \in Files \ {f} : /\ rt'.known[g] = rt.known[g]
                                /\ rt'.pending[g] = rt.pending[g]
      /\ rt.phase = "initial" => rt'.known[f] = rt.known[f] /\ rt'.pending[f] = rt.pending[f]
      /\ rt.phase = "scan" => rt'.known[f] = rt.pending[f].sig /\ rt'.pending[f] = NotDue
  <2>1. rt \in Runtimes /\ NotDue \in Due /\ rt.pending[f].sig \in Times
    BY Parts, NothingIsTyped DEF Runtimes, Due
  <2> DEFINE known == [rt.known EXCEPT ![f] = IF Watching THEN rt.pending[f].sig ELSE rt.known[f]]
             pending == [rt.pending EXCEPT ![f] = IF Watching THEN NotDue ELSE rt.pending[f]]
  <2>2. rt' = [rt EXCEPT !.todo = rt.todo \ {f}, !.known = known, !.pending = pending]
    BY <1>1, <2>1 DEF Done, Runtimes
  <2>3. known \in [Files -> Times] /\ pending \in [Files -> Due]
    BY <2>1 DEF Runtimes
  <2>4. /\ \A g \in Files \ {f} : known[g] = rt.known[g] /\ pending[g] = rt.pending[g]
        /\ known[f] = IF Watching THEN rt.pending[f].sig ELSE rt.known[f]
        /\ pending[f] = IF Watching THEN NotDue ELSE rt.pending[f]
    BY <2>1 DEF Runtimes
  <2> HIDE DEF known, pending
  <2>5. /\ rt' \in Runtimes /\ rt'.phase = rt.phase /\ rt'.boundary = rt.boundary
        /\ rt'.todo = rt.todo \ {f} /\ rt'.known = known /\ rt'.pending = pending
    BY <2>1, <2>2, <2>3 DEF Runtimes
  <2> QED BY <2>4, <2>5 DEF Watching
<1>4. \A g \in Files : Accounted(g)' = Accounted(g) /\ Signature(g)' = Signature(g)
  BY <1>1, <1>3, AccountedStays DEF Signature
<1>5. \A g \in Files \ {f} : Same(g)' = Same(g)
  BY <1>1, <1>3, SameStays
<1>6. rt.phase = "initial" => Same(f)' = Same(f)
  BY <1>1, <1>3, SameStays
<1>7. JobOK'
  BY <1>1 DEF JobOK
<1>8. WatchOK'
  <2>1. rt.todo \subseteq Files
    BY Parts DEF Runtimes
  <2>2. rt.phase = "initial" =>
            \A g \in Files : rt'.pending[g] = NotDue
    BY <1>3 DEF IInv, WatchOK
  <2>3. rt.phase = "initial" =>
            \A g \in Files \ rt'.todo : Same(g)' => Accounted(g)'
    BY <1>2, <1>3, <1>4, <1>5, <1>6 DEF IInv, WatchOK
  <2>4. rt.phase = "scan" => \A g \in rt'.todo : rt'.pending[g].sig # 0
    BY <1>3, <2>1 DEF IInv, WatchOK
  <2> QED BY <1>1, <1>3, <2>2, <2>3, <2>4 DEF WatchOK
<1>9. ASSUME NEW g \in Files, rt.phase = "scan",
             rt'.known[g] = Signature(g)', rt'.pending[g].sig = 0
      PROVE  Accounted(g)'
  <2>1. CASE g = f
    <3>1. Signature(f) = rt.pending[f].sig
      BY <1>3, <1>4, <1>9, <2>1
    <3>2. disk[f] # NoFile => Same(f)
      BY <1>9, <3>1 DEF Same, Seen, Watching
    <3>3. Accounted(f)
      BY <1>2, <3>2 DEF Accounted
    <3> QED BY <1>4, <2>1, <3>3
  <2>2. CASE g # f
    BY <1>3, <1>4, <1>9, <2>2 DEF IInv, NothingIsLostSilently, KnownIsAccounted
  <2> QED BY <2>1, <2>2
<1>10. KnownIsAccounted'
  BY <1>1, <1>3, <1>9 DEF KnownIsAccounted
<1>11. ASSUME NEW g \in Files
       PROVE  /\ rt'.known[g] \in {0, rt.known[g], rt.pending[g].sig, Signature(g)}
              /\ rt'.pending[g].sig \in {0, rt.pending[g].sig, Signature(g)}
  BY <1>1, <1>3 DEF NotDue
<1> QED BY <1>1, <1>3, <1>7, <1>8, <1>10, <1>11, RuntimeMoves

-----------------------------------------------------------------------------
(* The reset *)

\* Nothing runs beside a reset, so nothing is in hand.
LEMMA ResetIsFine == IInv /\ Reset => IInv'
<1> SUFFICES ASSUME IInv, Reset PROVE IInv'
  OBVIOUS
<1>1. /\ ~Running /\ job.at = "none" /\ UNCHANGED <<disk, clock, rt, job>>
  BY DEF IInv, ResetOK, JobOK, Reset, MarkReset, DeleteDatabase, ResetFails, Running
<1>2. JobOK' /\ WatchOK' /\ KnownIsAccounted'
  BY <1>1 DEF JobOK, WatchOK, KnownIsAccounted, Running
<1>3. CASE MarkReset
  <2>1. marker' = Boundary /\ reset' = clock /\ UNCHANGED <<db, born>>
    BY <1>3 DEF MarkReset
  <2>2. /\ marker' \in Times
        /\ \A f \in Captures : disk[f] # NoFile => disk[f].mtime <= marker'
    BY <2>1, Parts, BoundaryIsNewest
  <2>3. TypeOK'
    BY <1>1, <2>1, <2>2, Parts, TypedNext
  <2>4. Past'
    BY <1>1, <2>1, Parts DEF IInv, Past, Signature, Stamp
  <2>5. ResetOK'
    BY <1>1, <2>1, <2>2 DEF ResetOK, Running, Bounded, WrittenAt
  <2> QED BY <1>2, <2>1, <2>3, <2>4, <2>5
          DEF IInv, NothingIsLostSilently, LastErrorIsOpen, ResetForgets, WrittenAt
<1>4. CASE DeleteDatabase
  <2>1. /\ reset # NoReset /\ db' = EmptyDb /\ born' = reset /\ reset' = NoReset
        /\ UNCHANGED marker
    BY <1>4 DEF DeleteDatabase
  <2>2. born' \in 0..MaxTime /\ born' <= clock /\ Bounded(reset)
    BY <2>1, Parts DEF IInv, Past, ResetOK
  <2>3. TypeOK'
    BY <1>1, <2>1, <2>2, Parts, NothingIsTyped, TypedNext
  <2>4. Past'
    BY <1>1, <2>1, <2>2 DEF IInv, Past, Signature, Stamp
  <2>5. ResetOK'
    BY <1>1, <2>1, <2>2 DEF ResetOK, Running, Bounded, WrittenAt
  <2>6. LastErrorIsOpen' /\ ResetForgets'
    BY <2>1 DEF EmptyDb, LastErrorIsOpen, ResetForgets, Files
  <2> QED BY <1>2, <2>3, <2>4, <2>5, <2>6 DEF IInv, NothingIsLostSilently
<1>5. CASE ResetFails
  <2>1. reset' = NoReset /\ UNCHANGED <<marker, db, born>>
    BY <1>5 DEF ResetFails
  <2>2. TypeOK'
    BY <1>1, <2>1, Parts, TypedNext
  <2>3. Past' /\ ResetOK'
    BY <1>1, <2>1 DEF IInv, Past, Signature, Stamp, ResetOK, Running, Bounded, WrittenAt
  <2> QED BY <1>2, <2>1, <2>2, <2>3
          DEF IInv, NothingIsLostSilently, LastErrorIsOpen, ResetForgets, WrittenAt
<1> QED BY <1>3, <1>4, <1>5 DEF Reset

-----------------------------------------------------------------------------
(* The theorems *)

LEMMA InitIsFine == Init => IInv
<1> SUFFICES ASSUME Init PROVE IInv
  OBVIOUS
<1> USE DEF Init
<1>1. TypeOK
  <2>1. disk \in [Files -> Version \cup {NoFile}]
    OBVIOUS
  <2>2. marker \in Times /\ clock \in 0..MaxTime /\ born \in 0..MaxTime
    BY Numbers
  <2> QED BY <2>1, <2>2, NothingIsTyped, Typed
<1>2. \A f \in Files : /\ disk[f] = NoFile /\ Signature(f) = 0
                       /\ rt.known[f] = 0 /\ rt.pending[f].sig = 0
  BY DEF Signature, Idle, NotDue
<1>3. rt.phase = "off" /\ job.at = "none"
  BY DEF Idle, NoImport
<1>4. Past
  BY <1>2, Numbers DEF Past, Stamp
<1>5. ResetOK
  BY <1>2, <1>3 DEF ResetOK, Running, Bounded, Files
<1>6. JobOK /\ WatchOK /\ KnownIsAccounted
  BY <1>3 DEF JobOK, WatchOK, KnownIsAccounted
<1>7. LastErrorIsOpen /\ ResetForgets
  BY DEF EmptyDb, LastErrorIsOpen, ResetForgets, Files
<1> QED BY <1>1, <1>4, <1>5, <1>6, <1>7 DEF IInv, NothingIsLostSilently

LEMMA StutteringIsFine == IInv /\ UNCHANGED vars => IInv'
<1> SUFFICES ASSUME IInv, UNCHANGED vars PROVE IInv'
  OBVIOUS
<1> USE DEF vars
<1>1. \A f \in Files : /\ Accounted(f)' = Accounted(f) /\ Same(f)' = Same(f)
                       /\ Signature(f)' = Signature(f)
  BY AccountedStays, SameStays
<1>2. TypeOK'
  BY Parts, TypedNext
<1>3. Past' /\ ResetOK'
  BY <1>1 DEF IInv, Past, Stamp, ResetOK, Running, Bounded, WrittenAt
<1>4. job.at # "none" => job.file \in Files
  BY AtWork
<1>5. JobOK'
  BY <1>1, <1>4 DEF IInv, JobOK, AlreadyImported, WrittenAt, Failing
<1>6. WatchOK' /\ NothingIsLostSilently'
  BY <1>1 DEF IInv, WatchOK, NothingIsLostSilently, KnownIsAccounted, LastErrorIsOpen
<1> QED BY <1>2, <1>3, <1>5, <1>6 DEF IInv, ResetForgets, WrittenAt

LEMMA NextIsFine == IInv /\ [Next]_vars => IInv'
<1> SUFFICES ASSUME IInv, [Next]_vars PROVE IInv'
  OBVIOUS
<1>1. CASE RuntimeStep
  BY <1>1, PrimeIsFine, ImportAllIsFine, EndOfSyncIsFine, ScanIsFine, EndOfScanIsFine,
     EndingsAreFine, BeginImportIsFine, ReadIsFine, CommitIsFine, NoteIsFine,
     RecordFailureIsFine DEF RuntimeStep, ImportStep
<1>2. CASE Faults
  BY <1>2, EndingsAreFine, ImportFailuresAreFine DEF Faults
<1> QED BY <1>1, <1>2, PluginIsFine, StartIsFine, EndOfScanIsFine, ResetIsFine,
           StutteringIsFine DEF Next

\* The inductive invariant holds in every reachable state of the runtime, its
\* watcher, the import service and the archive reset.
THEOREM Invariant == Spec => []IInv
<1>1. Init => IInv
  BY InitIsFine
<1>2. IInv /\ [Next]_vars => IInv'
  BY NextIsFine
<1> QED BY <1>1, <1>2, PTL DEF Spec

\* The files, the archive, the watcher's records and the import in hand keep
\* their types.
THEOREM TypeCorrect == Spec => []TypeOK
<1>1. IInv => TypeOK
  BY DEF IInv
<1> QED BY <1>1, Invariant, PTL

\* A file the watcher will not look at again is in the archive, is older than
\* its reset, or has a failed job the user can see; application_state shows an
\* error exactly while one is open (capture_watcher.py, import_service.py).
THEOREM NothingIsLost == Spec => []NothingIsLostSilently
<1>1. IInv => NothingIsLostSilently
  BY DEF IInv
<1> QED BY <1>1, Invariant, PTL

\* An archive that was reset holds nothing from a capture of before the reset
\* (archive_reset_service.py).
THEOREM ResetIsForGood == Spec => []ResetForgets
<1>1. IInv => ResetForgets
  BY DEF IInv
<1> QED BY <1>1, Invariant, PTL

\* No step replaces what is archived of a capture by a content that was applied
\* before (import_service.py _already_imported).
THEOREM ContentsAreAppliedOnce == Spec => AppliedOnce
<1> DEFINE Once == \A f \in Captures :
                     db'.archive[f] \notin {db.archive[f], NoFile} =>
                         <<f, db'.archive[f].content>> \notin db.imports
<1>1. IInv /\ [Next]_vars => [Once]_vars
  <2> SUFFICES ASSUME IInv, Next PROVE Once
    OBVIOUS
  <2>1. CASE Commit
    <3>1. job.file \in Files /\ db' \in Dbs
      BY <2>1, AtWork, CommitWrites DEF Commit, At
    <3>2. job.file \in Captures => ~AlreadyImported(job.file, job.read.content)
      BY <2>1 DEF IInv, JobOK, Commit, At
    <3>3. \A f \in Captures : \/ db'.archive[f] = db.archive[f]
                              \/ f = job.file /\ db'.archive[f] = job.read
      BY <2>1, CommitWrites DEF Files
    <3> QED BY <3>2, <3>3 DEF AlreadyImported
  <2>2. CASE RecordFailure
    <3>1. db'.archive = db.archive
      BY <2>2, Parts DEF RecordFailure, Dbs
    <3> QED BY <3>1
  <2>3. CASE DeleteDatabase
    BY <2>3 DEF DeleteDatabase, EmptyDb, Files
  <2>4. CASE UNCHANGED db
    BY <2>4
  <2> QED BY <2>1, <2>2, <2>3, <2>4
          DEF Next, Write, Remove, Start, AskToStop, Reset, MarkReset, ResetFails,
              RuntimeStep, Prime, ImportAll, EndOfSync, Scan, EndOfScan, Stop,
              ImportStep, BeginImport, Read, Note, Faults, RuntimeFails,
              CommitFails, NoteFails, RecordingFails, Crash
<1> QED BY <1>1, Invariant, PTL DEF Spec, AppliedOnce

=============================================================================
