----------------------- MODULE UpdateController_proofs -----------------------
(***************************************************************************)
(* Proofs about UpdateController for any set of versions, any number of    *)
(* attempts and of reports under way.                                      *)
(*                                                                         *)
(* The worker's place says what it holds: update.lock, a version, and that *)
(* the last entry of an operation that ends is no entry of a step          *)
(* (WorkerOK, LockOK).  What the window offers *)
(* is the last thing the worker told it, told or still in the queue        *)
(* (Told), and nothing but a step that tells something else can take away  *)
(* what was offered (OfferOK).                                             *)
(***************************************************************************)
EXTENDS UpdateController, SequenceTheorems, TLAPS

\* What the window shows, or will when all reports have arrived.
Told == IF queue = <<>> THEN shown.state ELSE queue[Len(queue)].state

\* Places of an operation that works on a version.
AtVersion == {"download", "room", "fetch", "receive", "verify", "verifying", "stage",
              "extract", "staged"}

WorkerOK ==
    /\ w.pc \in {"claim", "check", "request", "response"} => w.version = NoVersion
    /\ w.pc \in AtVersion => w.version \in Versions
    /\ w.pc = "claim" /\ w.kind = "download" => available \in Versions
    /\ w.pc \in {"claim", "check", "request", "response", "download"} => ~w.noted
    /\ w.pc \in {"release", "done"} /\ w.noted =>
          journal \in {"STAGED", "FAILED", "CANCELLED"}
    /\ w.pc = "staged" => disk[w.version].staging = "whole"

\* update.lock has one owner, and who works on the files is it.
LockOK ==
    /\ w.pc \notin {"idle", "claim", "done"} => holder = "app"
    /\ updater = "on" => holder = "updater"

\* A background request is in the record of attempts before it is sent.
ThrottleOK ==
    /\ asked = 1 => check = "recent"
    /\ w.pc = "request" => check = "recent"
    /\ w.background /\ w.pc \in {"claim", "check", "request"} => asked = 0

OfferOK ==
    Told = "STAGED" =>
        /\ w.pc \in {"idle", "claim", "download", "room", "release", "done"}
        /\ prepared \in Versions
        /\ disk[prepared].staging = "whole"

\* The inductive invariant.
IInv ==
    /\ TypeOK
    /\ PackageIsWhole
    /\ WorkerOK
    /\ LockOK
    /\ ThrottleOK
    /\ OfferOK

-----------------------------------------------------------------------------
(* Types *)

Places == [pc : Steps, kind : {"check", "download"}, background : BOOLEAN,
           version : Targets, attempt : 1..MaxAttempts, noted : BOOLEAN]
Disks == [Versions -> [part : Trees, package : Trees, staging : Trees]]
Words == {"IDLE", "DOWNLOADING", "VERIFYING", "STAGED", "FAILED", "CANCELLED"}

LEMMA Typed ==
    TypeOK <=>
        /\ app \in {"off", "on", "closing"}
        /\ w \in Places /\ cancel \in BOOLEAN
        /\ available \in Targets /\ prepared \in Targets
        /\ shown \in Status /\ queue \in Seq(Status)
        /\ holder \in {"nobody", "app", "updater"}
        /\ updater \in {"off", "starting", "on"}
        /\ disk \in Disks /\ journal \in Words
        /\ check \in {"due", "recent"} /\ asked \in Nat /\ asked <= 1
BY Zenon DEF TypeOK, Places, Disks, Words, OneRequestADay

LEMMA TypedNext ==
    TypeOK' <=>
        /\ app' \in {"off", "on", "closing"}
        /\ w' \in Places /\ cancel' \in BOOLEAN
        /\ available' \in Targets /\ prepared' \in Targets
        /\ shown' \in Status /\ queue' \in Seq(Status)
        /\ holder' \in {"nobody", "app", "updater"}
        /\ updater' \in {"off", "starting", "on"}
        /\ disk' \in Disks /\ journal' \in Words
        /\ check' \in {"due", "recent"} /\ asked' \in Nat /\ asked' <= 1
BY Zenon DEF TypeOK, Places, Disks, Words, OneRequestADay

LEMMA IdleIsTyped ==
    /\ Idle \in Places
    /\ \A kind \in {"check", "download"}, background \in BOOLEAN :
          [Idle EXCEPT !.pc = "claim", !.kind = kind, !.background = background] \in Places
<1>1. /\ 1 \in 1..MaxAttempts /\ NoVersion \in Targets
      /\ "idle" \in Steps /\ "claim" \in Steps
  BY ControllerConstantsOK DEF Targets, Steps
<1> QED BY <1>1 DEF Idle, Places

LEMMA GoMoves ==
    ASSUME w \in Places, NEW pc \in Steps, Go(pc)
    PROVE  /\ w' \in Places /\ w'.pc = pc
           /\ w'.kind = w.kind /\ w'.background = w.background
           /\ w'.version = w.version /\ w'.attempt = w.attempt
           /\ w'.noted = w.noted
BY DEF Go, Places

\* An entry of the journal gets into the file, or is lost.
LEMMA JournalMoves ==
    ASSUME w \in Places, journal \in Words, NEW word \in Words, NEW pc \in Steps,
           Journal(word, pc)
    PROVE  /\ w' \in Places /\ w'.pc = pc
           /\ w'.background = w.background /\ w'.version = w.version
           /\ journal' \in Words
           /\ w'.noted => journal' = word
<1>1. PICK written \in {TRUE, ~MayFail} :
         /\ journal' = IF written THEN word ELSE journal
         /\ w' = [w EXCEPT !.pc = pc, !.noted = written]
  BY DEF Journal
<1>2. written \in BOOLEAN
  BY <1>1, ControllerConstantsOK
<1> QED BY <1>1, <1>2 DEF Places

\* A report is the last thing told.
LEMMA ReportTells ==
    ASSUME queue \in Seq(Status), NEW s \in Statuses, NEW v \in Targets, Report(s, v)
    PROVE  queue' \in Seq(Status) /\ queue' # <<>> /\ Told' = s
<1> DEFINE r == [state |-> s, target |-> v]
<1>1. r \in Status
  BY DEF Status
<1>2. queue' = Append(queue, r)
  BY DEF Report
<1>3. /\ queue' \in Seq(Status) /\ Len(queue') = Len(queue) + 1
      /\ queue'[Len(queue) + 1] = r
  BY <1>1, <1>2
<1>4. queue' # <<>>
  BY <1>3
<1> QED BY <1>3, <1>4 DEF Told

\* Delivering a report changes nothing about what has been told.
LEMMA DeliverTells ==
    ASSUME TypeOK, Deliver
    PROVE  shown' \in Status /\ queue' \in Seq(Status) /\ Told' = Told
<1>1. /\ queue \in Seq(Status) /\ queue # <<>>
      /\ shown \in Status /\ queue' = Tail(queue)
  BY Typed DEF Deliver
<1>2. /\ Head(queue) \in Status /\ Head(queue) = queue[1]
      /\ Tail(queue) \in Seq(Status) /\ Len(Tail(queue)) = Len(queue) - 1
      /\ \A i \in 1..Len(Tail(queue)) : Tail(queue)[i] = queue[i + 1]
  BY <1>1, HeadTailProperties
<1>3. shown' \in Status /\ shown'.state = Head(queue).state
  BY <1>1, <1>2 DEF Deliver, Status, Targets
<1>4. Len(queue) \in Nat
  BY <1>1
<1>5. CASE Tail(queue) = <<>>
  <2>1. Len(queue) = 1
    <3>1. Len(Tail(queue)) = 0
      BY <1>2, <1>5, EmptySeq, Zenon
    <3>2. Len(queue) - 1 = 0
      BY <1>2, <3>1, Zenon
    <3> QED BY <1>4, <3>2
  <2> QED BY <1>1, <1>2, <1>3, <1>4, <1>5, <2>1 DEF Told
<1>6. CASE Tail(queue) # <<>>
  <2>1. Len(Tail(queue)) \in 1..Len(Tail(queue))
    BY <1>2, <1>6, EmptySeq
  <2>2. Tail(queue)[Len(Tail(queue))] = queue[Len(queue)]
    BY <1>2, <1>4, <2>1
  <2> QED BY <1>1, <1>2, <1>3, <1>4, <1>6, <2>2 DEF Told
<1> QED BY <1>1, <1>2, <1>3, <1>5, <1>6

\* The window's own reports do not offer anything.
LEMMA ShowsTells ==
    ASSUME TypeOK, NEW s \in Statuses \ {"STAGED"}, Shows(s), UNCHANGED queue
    PROVE  shown' \in Status /\ (Told' = "STAGED" => Told = "STAGED")
BY Typed DEF Shows, Status, Told

\* How an operation ends early.
LEMMA Ends ==
    ASSUME TypeOK, Cancelled \/ Failed
    PROVE  /\ w' \in Places /\ w'.pc = "release" /\ w'.version = w.version
           /\ w'.background = w.background
           /\ queue' \in Seq(Status) /\ Told' # "STAGED"
           /\ journal' \in Words
           /\ w'.noted => journal' \in {"FAILED", "CANCELLED"}
<1> USE Typed DEF Cancelled, Failed
<1>1. \E word \in {"FAILED", "CANCELLED"} : Journal(word, "release")
  OBVIOUS
<1>2. Reported \in Targets /\ NoVersion \in Targets
  BY DEF Reported, Targets
<1>3. queue' \in Seq(Status) /\ Told' # "STAGED"
  BY <1>2, ReportTells DEF Statuses, Busy
<1> QED BY <1>1, <1>3, JournalMoves DEF Steps, Words

\* How it ends before its first entry.
LEMMA RefusalEnds ==
    ASSUME TypeOK, Refused
    PROVE  /\ w' \in Places /\ w'.pc = "release" /\ w'.version = w.version
           /\ w'.background = w.background /\ w'.noted = w.noted
           /\ queue' \in Seq(Status) /\ Told' # "STAGED"
           /\ journal' = journal
<1>1. Go("release") /\ Report("ERROR", NoVersion) /\ journal' = journal
  BY DEF Refused
<1>2. NoVersion \in Targets /\ "ERROR" \in Statuses /\ "release" \in Steps
  BY DEF Targets, Statuses, Steps
<1> QED BY <1>1, <1>2, Typed, GoMoves, ReportTells

-----------------------------------------------------------------------------
(* The process, the window and the updater *)

LEMMA InitIsFine == Init => IInv
<1> SUFFICES ASSUME Init PROVE IInv
  OBVIOUS
<1> USE DEF Init
<1>1. TypeOK
  <2>1. NoVersion \in Targets /\ shown \in Status
    BY DEF Targets, Status, Statuses
  <2>2. disk \in Disks
    BY DEF Disks, Nothing, Trees
  <2>3. queue \in Seq(Status)
    OBVIOUS
  <2>4. w \in Places /\ available \in Targets /\ prepared \in Targets
    BY <2>1, IdleIsTyped
  <2>5. cancel \in BOOLEAN
    BY Zenon
  <2>6. /\ app \in {"off", "on", "closing"}
        /\ holder \in {"nobody", "app", "updater"}
        /\ updater \in {"off", "starting", "on"} /\ journal \in Words
        /\ check \in {"due", "recent"} /\ asked \in Nat /\ asked <= 1
    BY DEF Words
  <2> QED BY <2>1, <2>2, <2>3, <2>4, <2>5, <2>6, Typed
<1>2. Told # "STAGED"
  BY DEF Told
<1> QED BY <1>1, <1>2 DEF IInv, PackageIsWhole, Nothing, WorkerOK, AtVersion,
                          Idle, LockOK, ThrottleOK, OfferOK

LEMMA StutteringIsFine == IInv /\ UNCHANGED vars => IInv'
<1> SUFFICES ASSUME IInv, UNCHANGED vars PROVE IInv'
  OBVIOUS
<1> USE DEF vars, memory, outside, files
<1>1. TypeOK'
  BY Typed, TypedNext DEF IInv
<1>2. Told' = Told
  BY DEF Told
<1> QED BY <1>1, <1>2 DEF IInv, PackageIsWhole, WorkerOK, LockOK, ThrottleOK, OfferOK

LEMMA BootIsFine == IInv /\ Boot => IInv'
<1> SUFFICES ASSUME IInv, Boot PROVE IInv'
  OBVIOUS
<1> USE DEF Boot, memory, outside, files
<1>1. TypeOK'
  BY Typed, TypedNext DEF IInv
<1>2. Told' = Told
  BY DEF Told
<1> QED BY <1>1, <1>2 DEF IInv, PackageIsWhole, WorkerOK, LockOK, ThrottleOK, OfferOK

LEMMA ExitIsFine == IInv /\ Exit => IInv'
<1> SUFFICES ASSUME IInv, Exit PROVE IInv'
  OBVIOUS
<1> USE DEF Exit, files
<1>1. TypeOK'
  <2>1. NoVersion \in Targets /\ shown' \in Status
    BY DEF Targets, Status, Statuses
  <2>2. queue' \in Seq(Status)
    OBVIOUS
  <2> QED BY <2>1, <2>2, IdleIsTyped, Typed, TypedNext DEF IInv
<1>2. Told' # "STAGED"
  BY DEF Told
<1> QED BY <1>1, <1>2 DEF IInv, PackageIsWhole, WorkerOK, AtVersion, Idle, LockOK,
                          ThrottleOK, OfferOK

LEMMA ElapseIsFine == IInv /\ Elapse => IInv'
<1> SUFFICES ASSUME IInv, Elapse PROVE IInv'
  OBVIOUS
<1> USE DEF Elapse, memory, outside
<1>1. TypeOK'
  BY Typed, TypedNext DEF IInv
<1>2. Told' = Told
  BY DEF Told
<1> QED BY <1>1, <1>2 DEF IInv, PackageIsWhole, WorkerOK, LockOK, ThrottleOK, OfferOK

LEMMA DeliverIsFine == IInv /\ Deliver => IInv'
<1> SUFFICES ASSUME IInv, Deliver PROVE IInv'
  OBVIOUS
<1>1. shown' \in Status /\ queue' \in Seq(Status) /\ Told' = Told
  BY DeliverTells DEF IInv
<1>2. TypeOK'
  BY <1>1, Typed, TypedNext DEF IInv, Deliver, outside, files
<1> QED BY <1>1, <1>2 DEF IInv, Deliver, outside, files, PackageIsWhole, WorkerOK,
                          LockOK, ThrottleOK, OfferOK

\* check_async and download_async; a background check only when none was made
\* for a day, a download only of a version that was found.
LEMMA BeginIsFine ==
    ASSUME IInv, NEW kind \in {"check", "download"}, NEW background \in BOOLEAN,
           kind = "download" => available \in Versions,
           background => check = "due",
           Begin(kind, background)
    PROVE  IInv'
<1> USE DEF Begin, outside, files
<1>1. CASE w.pc = "idle"
  <2>1. /\ w' = [Idle EXCEPT !.pc = "claim", !.kind = kind, !.background = background]
        /\ w' \in Places /\ cancel' = FALSE /\ UNCHANGED shown
    BY <1>1, IdleIsTyped
  <2>2. /\ w'.pc = "claim" /\ w'.kind = kind /\ w'.background = background
        /\ w'.version = NoVersion /\ ~w'.noted
    BY <2>1 DEF Idle
  <2>3. TypeOK'
    BY <2>1, Typed, TypedNext DEF IInv
  <2>4. Told' = Told
    BY <2>1 DEF Told
  <2> QED BY <1>1, <2>2, <2>3, <2>4, Typed
          DEF IInv, PackageIsWhole, WorkerOK, AtVersion, LockOK, ThrottleOK, OfferOK
<1>2. CASE w.pc # "idle"
  <2>1. Shows("BUSY") /\ UNCHANGED <<w, cancel, queue>>
    BY <1>2
  <2>2. shown' \in Status /\ (Told' = "STAGED" => Told = "STAGED")
    BY <2>1, ShowsTells DEF IInv, Statuses
  <2>3. TypeOK'
    BY <2>1, <2>2, Typed, TypedNext DEF IInv
  <2> QED BY <2>1, <2>2, <2>3
          DEF IInv, PackageIsWhole, WorkerOK, LockOK, ThrottleOK, OfferOK
<1> QED BY <1>1, <1>2

LEMMA NothingToDownloadIsFine == IInv /\ NothingToDownload => IInv'
<1> SUFFICES ASSUME IInv, NothingToDownload PROVE IInv'
  OBVIOUS
<1> USE DEF NothingToDownload, memory, outside, files
<1>1. shown' \in Status /\ (Told' = "STAGED" => Told = "STAGED")
  BY ShowsTells DEF IInv, Statuses
<1>2. TypeOK'
  BY <1>1, Typed, TypedNext DEF IInv
<1> QED BY <1>1, <1>2 DEF IInv, PackageIsWhole, WorkerOK, LockOK, ThrottleOK, OfferOK

LEMMA ClickCancelIsFine == IInv /\ ClickCancel => IInv'
<1> SUFFICES ASSUME IInv, ClickCancel PROVE IInv'
  OBVIOUS
<1> USE DEF ClickCancel, outside, files
<1>1. shown' \in Status /\ (Told' = "STAGED" => Told = "STAGED")
  BY ShowsTells DEF IInv, Statuses, Busy
<1>2. TypeOK'
  BY <1>1, Typed, TypedNext DEF IInv
<1> QED BY <1>1, <1>2 DEF IInv, PackageIsWhole, WorkerOK, LockOK, ThrottleOK, OfferOK

LEMMA UserIsFine == IInv /\ User => IInv'
<1> SUFFICES ASSUME IInv, User PROVE IInv'
  OBVIOUS
<1>1. CASE ClickCheck
  BY <1>1, BeginIsFine DEF ClickCheck
<1>2. CASE BackgroundCheck
  BY <1>2, BeginIsFine DEF BackgroundCheck
<1>3. CASE ClickDownload
  <2>1. available \in Versions
    BY <1>3, Typed DEF IInv, ClickDownload, Targets
  <2> QED BY <1>3, <2>1, BeginIsFine DEF ClickDownload
<1>4. CASE LaunchUpdater
  <2> USE <1>4 DEF LaunchUpdater, memory, files
  <2>1. TypeOK'
    BY Typed, TypedNext DEF IInv
  <2>2. Told' = Told
    BY DEF Told
  <2> QED BY <2>1, <2>2
          DEF IInv, PackageIsWhole, WorkerOK, LockOK, ThrottleOK, OfferOK
<1> QED BY <1>1, <1>2, <1>3, <1>4, NothingToDownloadIsFine, ClickCancelIsFine DEF User

LEMMA UpdaterIsFine == IInv /\ (UpdaterStarts \/ UpdaterEnds) => IInv'
<1> SUFFICES ASSUME IInv, UpdaterStarts \/ UpdaterEnds PROVE IInv'
  OBVIOUS
<1> USE DEF UpdaterStarts, UpdaterEnds, memory, files
<1>1. TypeOK'
  BY Typed, TypedNext DEF IInv
<1>2. Told' = Told
  BY DEF Told
<1> QED BY <1>1, <1>2 DEF IInv, PackageIsWhole, WorkerOK, LockOK, ThrottleOK, OfferOK

-----------------------------------------------------------------------------
(* The worker: the check *)

LEMMA ClaimIsFine == IInv /\ Claim => IInv'
<1> SUFFICES ASSUME IInv, Claim PROVE IInv'
  OBVIOUS
<1> USE DEF Claim, Worker, files
<1>1. NoVersion \in Targets /\ queue \in Seq(Status) /\ w \in Places
  BY Typed DEF IInv, Targets
<1>2. CASE Free /\ w.kind = "check"
  <2>1. Go("check") /\ Report("CHECKING", NoVersion) /\ holder' = "app"
    BY <1>2
  <2>2. queue' \in Seq(Status) /\ Told' = "CHECKING"
    BY <1>1, <2>1, ReportTells DEF Statuses, Busy
  <2>3. /\ w' \in Places /\ w'.pc = "check" /\ w'.version = w.version
        /\ w'.background = w.background /\ w'.noted = w.noted
    BY <1>1, <2>1, GoMoves DEF Steps
  <2>4. TypeOK'
    BY <2>1, <2>2, <2>3, Typed, TypedNext DEF IInv
  <2> QED BY <1>2, <2>1, <2>2, <2>3, <2>4
          DEF IInv, PackageIsWhole, WorkerOK, AtVersion, LockOK, ThrottleOK,
              OfferOK, Free
<1>3. CASE Free /\ w.kind # "check"
  <2>1. /\ w' = [w EXCEPT !.pc = "download", !.version = available]
        /\ holder' = "app" /\ UNCHANGED queue
    BY <1>3
  <2>2. available \in Versions
    BY <1>1, <1>3 DEF IInv, WorkerOK, Places
  <2>3. /\ w' \in Places /\ w'.pc = "download" /\ w'.version = available
        /\ w'.background = w.background /\ w'.noted = w.noted
    BY <1>1, <2>1, <2>2 DEF Places, Steps, Targets
  <2>4. TypeOK'
    BY <2>1, <2>3, Typed, TypedNext DEF IInv
  <2>5. Told' = Told
    BY <2>1 DEF Told
  <2> QED BY <1>3, <2>1, <2>2, <2>3, <2>4, <2>5
          DEF IInv, PackageIsWhole, WorkerOK, AtVersion, LockOK, ThrottleOK,
              OfferOK, Free
<1>4. CASE ~Free
  <2>1. Report("BUSY", NoVersion) /\ Go("done") /\ UNCHANGED holder
    BY <1>4 DEF AfterBusy
  <2>2. queue' \in Seq(Status) /\ Told' = "BUSY"
    BY <1>1, <2>1, ReportTells DEF Statuses
  <2>3. /\ w' \in Places /\ w'.pc = "done" /\ w'.version = w.version
        /\ w'.background = w.background /\ w'.noted = w.noted
    BY <1>1, <2>1, GoMoves DEF Steps
  <2>4. TypeOK'
    BY <2>1, <2>2, <2>3, Typed, TypedNext DEF IInv
  <2> QED BY <2>1, <2>2, <2>3, <2>4
          DEF IInv, PackageIsWhole, WorkerOK, AtVersion, LockOK, ThrottleOK, OfferOK
<1> QED BY <1>2, <1>3, <1>4

\* The record of attempts stands before the request is sent.
LEMMA CheckIsFine == IInv /\ Check => IInv'
<1> SUFFICES ASSUME IInv, Check PROVE IInv'
  OBVIOUS
<1> USE DEF Check, Worker, outside
<1>1. NoVersion \in Targets /\ queue \in Seq(Status) /\ w \in Places
  BY Typed DEF IInv, Targets
<1>2. check' \in {check, "recent"} /\ check' \in {"due", "recent"}
  BY Typed DEF IInv, Attempted
<1> DEFINE Effect ==
             /\ w' \in Places /\ w'.pc \in {"release", "request"}
             /\ w'.version = w.version /\ w'.background = w.background
             /\ w'.pc = "request" => check' = "recent" /\ ~w'.noted
             /\ w'.noted => journal' \in {"FAILED", "CANCELLED"}
             /\ (queue' \in Seq(Status) /\ Told' # "STAGED") \/ UNCHANGED queue
             /\ journal' \in Words
<1>n. ~w.noted
  BY DEF IInv, WorkerOK
<1>3. Effect
  <2>1. CASE Cancelled
    BY <2>1, Ends DEF IInv
  <2>2. CASE Go("request") /\ UNCHANGED <<queue, journal>> /\ check' = Attempted
    <3>1. Go("request") /\ "request" \in Steps
      BY <2>2 DEF Steps
    <3>2. /\ w' \in Places /\ w'.pc = "request" /\ w'.noted = w.noted
          /\ w'.version = w.version /\ w'.background = w.background
      BY <1>1, <3>1, GoMoves
    <3> QED BY <1>n, <2>2, <3>2, Typed DEF IInv, Attempted
  <2>3. CASE Refused
    BY <1>n, <2>3, RefusalEnds, Typed DEF IInv
  <2> QED BY <2>1, <2>2, <2>3
<1>4. w.version = NoVersion /\ Told # "STAGED"
  BY DEF IInv, WorkerOK, OfferOK
<1>5. queue' \in Seq(Status) /\ Told' # "STAGED"
  <2>1. CASE UNCHANGED queue
    BY <1>1, <1>4, <2>1 DEF Told
  <2> QED BY <1>3, <2>1
<1>6. TypeOK'
  BY <1>2, <1>3, <1>5, Typed, TypedNext DEF IInv
<1> QED BY <1>2, <1>3, <1>4, <1>5, <1>6
        DEF IInv, PackageIsWhole, WorkerOK, AtVersion, LockOK, ThrottleOK, OfferOK

\* A background request is the first since the last attempt turned old.
LEMMA RequestIsFine == IInv /\ Request => IInv'
<1> SUFFICES ASSUME IInv, Request PROVE IInv'
  OBVIOUS
<1> USE DEF Request, Worker, outside
<1>1. w \in Places /\ asked \in Nat
  BY Typed DEF IInv
<1>2. /\ w' \in Places /\ w'.pc = "response" /\ w'.version = w.version
      /\ w'.noted = w.noted
  BY <1>1 DEF Places, Steps
<1>3. asked' \in Nat /\ asked' <= 1
  BY <1>1, Typed DEF IInv, ThrottleOK
<1>4. TypeOK'
  BY <1>2, <1>3, Typed, TypedNext DEF IInv
<1>5. Told' = Told
  BY DEF Told
<1> QED BY <1>2, <1>4, <1>5
        DEF IInv, PackageIsWhole, WorkerOK, AtVersion, LockOK, ThrottleOK, OfferOK

LEMMA ResponseIsFine == IInv /\ Response => IInv'
<1> SUFFICES ASSUME IInv, Response PROVE IInv'
  OBVIOUS
<1> USE DEF Response, Worker, Rest, outside
<1>1. NoVersion \in Targets /\ queue \in Seq(Status) /\ w \in Places
  BY Typed DEF IInv, Targets
<1>2. w.version = NoVersion /\ ~w.noted
  BY DEF IInv, WorkerOK
<1> DEFINE Effect == /\ w' \in Places
                     /\ w'.noted => w'.pc = "release" /\ journal' \in {"FAILED", "CANCELLED"}
                     /\ \/ w'.pc = "release" /\ w'.version = NoVersion
                        \/ w'.pc = "download" /\ w'.version \in Versions
                     /\ queue' \in Seq(Status) /\ Told' # "STAGED"
                     /\ journal' \in Words /\ available' \in Targets
<1>3. Effect
  <2>1. CASE Cancelled /\ UNCHANGED available
    BY <1>2, <2>1, Ends, Typed DEF IInv
  <2>2. CASE Refused /\ available' \in Targets
    BY <1>2, <2>2, RefusalEnds, Typed DEF IInv
  <2>3. CASE /\ available' = NoVersion /\ UNCHANGED journal
             /\ Report("CURRENT", NoVersion) /\ Go("release")
    <3>1. w' \in Places /\ w'.pc = "release" /\ w'.version = w.version /\ ~w'.noted
      BY <1>1, <1>2, <2>3, GoMoves DEF Steps
    <3>2. queue' \in Seq(Status) /\ Told' # "STAGED"
      <4>1. "CURRENT" \in Statuses /\ Report("CURRENT", NoVersion)
        BY <2>3 DEF Statuses
      <4> QED BY <1>1, <4>1, ReportTells
    <3> QED BY <1>1, <1>2, <2>3, <3>1, <3>2, Typed DEF IInv
  <2>4. ASSUME NEW v \in Versions, NEW automatic \in BOOLEAN,
               available' = v, Report("AVAILABLE", v), UNCHANGED journal,
               w' = [w EXCEPT !.pc = IF automatic THEN "download" ELSE "release",
                              !.version = IF automatic THEN v ELSE NoVersion]
        PROVE  Effect
    <3>1. v \in Targets /\ NoVersion \in Targets
      BY DEF Targets
    <3>2. "AVAILABLE" \in Statuses /\ Report("AVAILABLE", v)
      BY <2>4 DEF Statuses
    <3>3. queue' \in Seq(Status) /\ Told' # "STAGED"
      BY <1>1, <3>1, <3>2, ReportTells
    <3>4. CASE automatic
      <4>1. w' = [w EXCEPT !.pc = "download", !.version = v]
        BY <2>4, <3>4
      <4> QED BY <1>1, <1>2, <2>4, <3>1, <3>3, <4>1, Typed DEF IInv, Places, Steps, Words
    <3>5. CASE ~automatic
      <4>1. w' = [w EXCEPT !.pc = "release", !.version = NoVersion]
        BY <2>4, <3>5
      <4> QED BY <1>1, <1>2, <2>4, <3>1, <3>3, <4>1, Typed DEF IInv, Places, Steps, Words
    <3> QED BY <3>4, <3>5
  <2>5. available \in Targets /\ Versions \subseteq Targets
    BY Typed DEF IInv, Targets
  <2> QED BY <2>1, <2>2, <2>3, <2>4, <2>5
<1>4. TypeOK'
  BY <1>3, Typed, TypedNext DEF IInv
<1> QED BY <1>3, <1>4
        DEF IInv, PackageIsWhole, WorkerOK, AtVersion, LockOK, ThrottleOK, OfferOK

-----------------------------------------------------------------------------
(* The worker: the download *)

\* An operation on a version that ends early leaves the packages alone; what it
\* does to the other files does not matter, as it has told that it ended.
LEMMA EndIsFine ==
    ASSUME IInv, w.pc \in AtVersion, Cancelled \/ Failed,
           disk' \in Disks, \A v \in Versions : disk'[v].package = disk[v].package,
           UNCHANGED available, Rest
    PROVE  IInv'
<1> USE DEF Rest, outside
<1>1. /\ w' \in Places /\ w'.pc = "release" /\ w'.version = w.version
      /\ queue' \in Seq(Status) /\ Told' # "STAGED"
      /\ journal' \in Words
      /\ w'.noted => journal' \in {"FAILED", "CANCELLED"}
  BY Ends DEF IInv
<1>3. TypeOK'
  BY <1>1, Typed, TypedNext DEF IInv
<1>4. PackageIsWhole'
  BY DEF IInv, PackageIsWhole
<1>5. LockOK'
  BY <1>1 DEF IInv, LockOK, AtVersion
<1> QED BY <1>1, <1>3, <1>4, <1>5 DEF IInv, WorkerOK, AtVersion, ThrottleOK, OfferOK

\* The next step of an operation on a version.
LEMMA StepIsFine ==
    ASSUME IInv, w.pc \in AtVersion, w' \in Places,
           w'.pc \in AtVersion \ {"download"}, w'.version = w.version,
           disk' \in Disks, \A v \in Versions : disk'[v].package # "bad",
           w'.pc = "staged" => disk'[w.version].staging = "whole",
           journal' \in Words, queue' \in Seq(Status), Told' # "STAGED",
           UNCHANGED available, Rest
    PROVE  IInv'
<1> USE DEF Rest, outside
<1>1. TypeOK'
  BY Typed, TypedNext DEF IInv
<1>2. PackageIsWhole'
  BY DEF PackageIsWhole
<1>3. WorkerOK'
  BY DEF IInv, WorkerOK, AtVersion
<1>4. LockOK'
  BY DEF IInv, LockOK, AtVersion
<1> QED BY <1>1, <1>2, <1>3, <1>4 DEF IInv, AtVersion, ThrottleOK, OfferOK

\* Past its beginning, what was offered is not offered any more.
LEMMA QuietIsUnoffered ==
    ASSUME IInv, w.pc \in AtVersion \ {"download", "room"},
           UNCHANGED <<queue, shown>>
    PROVE  queue' \in Seq(Status) /\ Told' # "STAGED"
<1>1. Told # "STAGED"
  BY DEF IInv, OfferOK, AtVersion
<1>2. Told' = Told
  BY DEF Told
<1> QED BY <1>1, <1>2, Typed DEF IInv

\* What every step on a version finds.
LEMMA AtWork ==
    ASSUME IInv, w.pc \in AtVersion
    PROVE  /\ w \in Places /\ w.version \in Versions /\ disk \in Disks
           /\ w.version \in Targets /\ journal \in Words /\ queue \in Seq(Status)
           /\ \A v \in Versions : disk[v].package # "bad"
BY Typed DEF IInv, WorkerOK, Targets, PackageIsWhole

\* One of the files of the version at work changes.
LEMMA PartMoves ==
    ASSUME IInv, w.pc \in AtVersion, NEW tree \in Trees,
           disk' = [disk EXCEPT ![w.version].part = tree]
    PROVE  /\ disk' \in Disks
           /\ \A v \in Versions : disk'[v].package = disk[v].package
<1> DEFINE d == [disk[w.version] EXCEPT !.part = tree]
<1>1. disk \in Disks /\ w.version \in Versions
  BY AtWork
<1>2. disk[w.version] \in [part : Trees, package : Trees, staging : Trees]
  BY <1>1 DEF Disks
<1>3. /\ d \in [part : Trees, package : Trees, staging : Trees]
      /\ d.package = disk[w.version].package /\ d.part = tree
  BY <1>2
<1>4. disk' = [disk EXCEPT ![w.version] = d]
  OBVIOUS
<1> HIDE DEF d
<1> QED BY <1>1, <1>3, <1>4 DEF Disks

LEMMA StagingMoves ==
    ASSUME IInv, w.pc \in AtVersion, NEW tree \in Trees,
           disk' = [disk EXCEPT ![w.version].staging = tree]
    PROVE  /\ disk' \in Disks
           /\ \A v \in Versions : disk'[v].package = disk[v].package
           /\ disk'[w.version].staging = tree
<1> DEFINE d == [disk[w.version] EXCEPT !.staging = tree]
<1>1. disk \in Disks /\ w.version \in Versions
  BY AtWork
<1>2. disk[w.version] \in [part : Trees, package : Trees, staging : Trees]
  BY <1>1 DEF Disks
<1>3. /\ d \in [part : Trees, package : Trees, staging : Trees]
      /\ d.package = disk[w.version].package /\ d.staging = tree
  BY <1>2
<1>4. disk' = [disk EXCEPT ![w.version] = d]
  OBVIOUS
<1> HIDE DEF d
<1> QED BY <1>1, <1>3, <1>4 DEF Disks

LEMMA DownloadIsFine == IInv /\ Download => IInv'
<1> SUFFICES ASSUME IInv, Download PROVE IInv'
  OBVIOUS
<1> USE DEF Download, Worker
<1>1. w.pc \in AtVersion /\ ~w.noted
  BY DEF AtVersion, IInv, WorkerOK
<1>2. CASE Cancelled
  BY <1>1, <1>2, AtWork, EndIsFine
<1>3. CASE Refused
  <2> USE DEF Rest, outside
  <2>1. /\ w' \in Places /\ w'.pc = "release" /\ ~w'.noted
        /\ queue' \in Seq(Status) /\ Told' # "STAGED" /\ journal' = journal
    BY <1>1, <1>3, RefusalEnds DEF IInv
  <2>2. TypeOK'
    BY <2>1, Typed, TypedNext DEF IInv
  <2> QED BY <2>1, <2>2
          DEF IInv, PackageIsWhole, WorkerOK, AtVersion, LockOK, ThrottleOK, OfferOK
<1>4. CASE Journal("DOWNLOADING", "room") /\ UNCHANGED queue
  <2> USE DEF Rest, outside
  <2>1. w' \in Places /\ w'.pc = "room" /\ w'.version = w.version /\ journal' \in Words
    BY <1>1, <1>4, AtWork, JournalMoves DEF Steps, Words
  <2>2. TypeOK'
    BY <1>4, <2>1, Typed, TypedNext DEF IInv
  <2>3. Told' = Told
    BY <1>4 DEF Told
  <2> QED BY <1>4, <2>1, <2>2, <2>3
          DEF IInv, PackageIsWhole, WorkerOK, AtVersion, LockOK, ThrottleOK, OfferOK
<1> QED BY <1>2, <1>3, <1>4

LEMMA RoomIsFine == IInv /\ Room => IInv'
<1> SUFFICES ASSUME IInv, Room PROVE IInv'
  OBVIOUS
<1> USE DEF Room, Worker
<1>1. w.pc \in AtVersion
  BY DEF AtVersion
<1>2. CASE Failed /\ UNCHANGED disk
  BY <1>1, <1>2, AtWork, EndIsFine
<1>3. CASE /\ Report("DOWNLOADING", w.version) /\ Go("fetch") /\ UNCHANGED journal
           /\ disk' = [disk EXCEPT ![w.version].part = "absent"]
  <2>1. w' \in Places /\ w'.pc = "fetch" /\ w'.version = w.version
    BY <1>1, <1>3, AtWork, GoMoves DEF Steps
  <2>2. queue' \in Seq(Status) /\ Told' = "DOWNLOADING"
    BY <1>1, <1>3, AtWork, ReportTells DEF Statuses, Busy
  <2>3. disk' \in Disks /\ \A v \in Versions : disk'[v].package = disk[v].package
    BY <1>1, <1>3, PartMoves DEF Trees
  <2>4. journal' \in Words /\ w'.pc \in AtVersion \ {"download"}
    BY <1>1, <1>3, <2>1, AtWork DEF AtVersion
  <2> QED BY <1>1, <2>1, <2>2, <2>3, <2>4, AtWork, StepIsFine
<1> QED BY <1>2, <1>3

LEMMA AgainIsFine ==
    ASSUME IInv, w.pc \in {"receive", "verify"}, Again, UNCHANGED available, Rest
    PROVE  IInv'
<1> USE DEF Again
<1>1. w.pc \in AtVersion
  BY DEF AtVersion
<1>2. disk' \in Disks /\ \A v \in Versions : disk'[v].package = disk[v].package
  BY <1>1, PartMoves DEF Trees
<1>3. CASE Cancelled \/ Failed
  BY <1>1, <1>2, <1>3, EndIsFine
<1>4. CASE /\ ~LastAttempt /\ w' = [w EXCEPT !.pc = "fetch", !.attempt = w.attempt + 1]
           /\ UNCHANGED <<queue, journal>>
  <2>1. w.attempt + 1 \in 1..MaxAttempts
    <3>1. w.attempt \in 1..MaxAttempts /\ MaxAttempts \in Nat
      BY <1>1, AtWork, ControllerConstantsOK DEF Places
    <3> QED BY <1>4, <3>1 DEF LastAttempt
  <2>2. w' \in Places /\ w'.pc = "fetch" /\ w'.version = w.version
    BY <1>1, <1>4, <2>1, AtWork DEF Places, Steps
  <2>3. queue' \in Seq(Status) /\ Told' # "STAGED"
    BY <1>4, QuietIsUnoffered DEF AtVersion, Rest
  <2>4. journal' \in Words /\ w'.pc \in AtVersion \ {"download"}
    BY <1>1, <1>4, <2>2, AtWork DEF AtVersion
  <2> QED BY <1>1, <1>2, <2>2, <2>3, <2>4, AtWork, StepIsFine
<1> QED BY <1>3, <1>4

LEMMA FetchIsFine == IInv /\ Fetch => IInv'
<1> SUFFICES ASSUME IInv, Fetch PROVE IInv'
  OBVIOUS
<1> USE DEF Fetch, Worker
<1>1. w.pc \in AtVersion \ {"download", "room"}
  BY DEF AtVersion
<1>2. disk' \in Disks /\ \A v \in Versions : disk'[v].package = disk[v].package
  BY <1>1, PartMoves DEF Trees
<1>3. CASE Cancelled
  BY <1>1, <1>2, <1>3, EndIsFine
<1>4. CASE Go("receive") /\ UNCHANGED <<queue, journal>>
  <2>1. w' \in Places /\ w'.pc = "receive" /\ w'.version = w.version
    BY <1>1, <1>4, AtWork, GoMoves DEF Steps
  <2>2. queue' \in Seq(Status) /\ Told' # "STAGED"
    BY <1>1, <1>4, QuietIsUnoffered DEF Rest
  <2>3. journal' \in Words /\ w'.pc \in AtVersion \ {"download"}
    BY <1>1, <1>4, <2>1, AtWork DEF AtVersion
  <2> QED BY <1>1, <1>2, <2>1, <2>2, <2>3, AtWork, StepIsFine
<1> QED BY <1>3, <1>4

LEMMA ReceiveIsFine == IInv /\ Receive => IInv'
<1> SUFFICES ASSUME IInv, Receive PROVE IInv'
  OBVIOUS
<1> USE DEF Receive, Worker
<1>1. w.pc \in AtVersion \ {"download", "room"}
  BY DEF AtVersion
<1>2. CASE Cancelled /\ disk' = [disk EXCEPT ![w.version].part = "absent"]
  <2>1. disk' \in Disks /\ \A v \in Versions : disk'[v].package = disk[v].package
    BY <1>1, <1>2, PartMoves DEF Trees
  <2> QED BY <1>1, <1>2, <2>1, EndIsFine
<1>3. CASE Again
  BY <1>3, AgainIsFine
<1>4. ASSUME NEW bytes \in {"whole", "bad"}, Go("verify"), UNCHANGED <<queue, journal>>,
             disk' = [disk EXCEPT ![w.version].part = bytes]
      PROVE  IInv'
  <2>1. w' \in Places /\ w'.pc = "verify" /\ w'.version = w.version
    BY <1>1, <1>4, AtWork, GoMoves DEF Steps
  <2>2. queue' \in Seq(Status) /\ Told' # "STAGED"
    BY <1>1, <1>4, QuietIsUnoffered DEF Rest
  <2>3. journal' \in Words /\ w'.pc \in AtVersion \ {"download"}
    BY <1>1, <1>4, <2>1, AtWork DEF AtVersion
  <2>4. disk' \in Disks /\ \A v \in Versions : disk'[v].package = disk[v].package
    BY <1>1, <1>4, PartMoves DEF Trees
  <2> QED BY <1>1, <2>1, <2>2, <2>3, <2>4, AtWork, StepIsFine
<1> QED BY <1>2, <1>3, <1>4

\* Only a .part file that was compared with the manifest becomes the package.
LEMMA VerifyIsFine == IInv /\ Verify => IInv'
<1> SUFFICES ASSUME IInv, Verify PROVE IInv'
  OBVIOUS
<1> USE DEF Verify, Worker
<1>1. w.pc \in AtVersion \ {"download", "room"}
  BY DEF AtVersion
<1>2. CASE Again
  BY <1>2, AgainIsFine
<1>3. CASE /\ Verified /\ UNCHANGED <<queue, journal>>
           /\ w' = [w EXCEPT !.pc = "verifying", !.attempt = 1]
           /\ disk' = [disk EXCEPT ![w.version].package = disk[w.version].part,
                                   ![w.version].part = "absent"]
  <2>1. w' \in Places /\ w'.pc = "verifying" /\ w'.version = w.version
    <3>1. 1 \in 1..MaxAttempts /\ "verifying" \in Steps /\ w \in Places
      BY <1>1, AtWork, ControllerConstantsOK DEF Steps
    <3> QED BY <1>3, <3>1 DEF Places
  <2>2. queue' \in Seq(Status) /\ Told' # "STAGED"
    BY <1>1, <1>3, QuietIsUnoffered DEF Rest
  <2>3. journal' \in Words /\ w'.pc \in AtVersion \ {"download"}
    BY <1>1, <1>3, <2>1, AtWork DEF AtVersion
  <2>4. disk' \in Disks /\ \A v \in Versions : disk'[v].package # "bad"
    <3> DEFINE d == [disk[w.version] EXCEPT !.package = "whole", !.part = "absent"]
    <3>1. disk[w.version].part = "whole"
      BY <1>3 DEF Verified
    <3>2. disk' = [disk EXCEPT ![w.version] = d]
      BY <1>1, <1>3, <3>1, AtWork DEF Disks
    <3>3. d \in [part : Trees, package : Trees, staging : Trees] /\ d.package = "whole"
      <4>1. disk[w.version] \in [part : Trees, package : Trees, staging : Trees]
        BY <1>1, AtWork DEF Disks
      <4> QED BY <4>1 DEF Trees
    <3> HIDE DEF d
    <3> QED BY <1>1, <3>2, <3>3, AtWork DEF Disks
  <2> QED BY <1>1, <2>1, <2>2, <2>3, <2>4, AtWork, StepIsFine
<1> QED BY <1>2, <1>3

LEMMA VerifyingIsFine == IInv /\ Verifying => IInv'
<1> SUFFICES ASSUME IInv, Verifying PROVE IInv'
  OBVIOUS
<1> USE DEF Verifying, Worker
<1>1. w.pc \in AtVersion
  BY DEF AtVersion
<1>2. disk' \in Disks /\ \A v \in Versions : disk'[v].package = disk[v].package
  BY <1>1, AtWork
<1>3. CASE Cancelled
  BY <1>1, <1>2, <1>3, EndIsFine
<1>4. CASE Journal("VERIFYING", "stage") /\ Report("VERIFYING", w.version)
  <2>1. w' \in Places /\ w'.pc = "stage" /\ w'.version = w.version /\ journal' \in Words
    BY <1>1, <1>4, AtWork, JournalMoves DEF Steps, Words
  <2>2. queue' \in Seq(Status) /\ Told' = "VERIFYING"
    BY <1>1, <1>4, AtWork, ReportTells DEF Statuses, Busy
  <2>3. journal' \in Words /\ w'.pc \in AtVersion \ {"download"}
    BY <2>1 DEF AtVersion
  <2> QED BY <1>1, <1>2, <2>1, <2>2, <2>3, AtWork, StepIsFine
<1> QED BY <1>3, <1>4

LEMMA StageIsFine == IInv /\ Stage => IInv'
<1> SUFFICES ASSUME IInv, Stage PROVE IInv'
  OBVIOUS
<1> USE DEF Stage, Worker
<1>1. w.pc \in AtVersion \ {"download", "room"}
  BY DEF AtVersion
<1>2. disk' \in Disks /\ \A v \in Versions : disk'[v].package = disk[v].package
  <2>1. CASE UNCHANGED disk
    BY <1>1, <2>1, AtWork
  <2>2. CASE disk' = [disk EXCEPT ![w.version].staging = "bad"]
    BY <1>1, <2>2, StagingMoves DEF Trees
  <2> QED BY <2>1, <2>2
<1>3. CASE Cancelled \/ Failed
  BY <1>1, <1>2, <1>3, EndIsFine
<1>4. CASE Go("extract") /\ UNCHANGED <<queue, journal>>
  <2>1. w' \in Places /\ w'.pc = "extract" /\ w'.version = w.version
    BY <1>1, <1>4, AtWork, GoMoves DEF Steps
  <2>2. queue' \in Seq(Status) /\ Told' # "STAGED"
    BY <1>1, <1>4, QuietIsUnoffered DEF Rest
  <2>3. journal' \in Words /\ w'.pc \in AtVersion \ {"download"}
    BY <1>1, <1>4, <2>1, AtWork DEF AtVersion
  <2> QED BY <1>1, <1>2, <2>1, <2>2, <2>3, AtWork, StepIsFine
<1> QED BY <1>3, <1>4

LEMMA ExtractIsFine == IInv /\ Extract => IInv'
<1> SUFFICES ASSUME IInv, Extract PROVE IInv'
  OBVIOUS
<1> USE DEF Extract, Worker
<1>1. w.pc \in AtVersion \ {"download", "room"}
  BY DEF AtVersion
<1>2. ASSUME NEW tree \in Leftover, Cancelled \/ Failed,
             disk' = [disk EXCEPT ![w.version].staging = tree]
      PROVE  IInv'
  <2>1. tree \in Trees
    BY <1>2 DEF Leftover, Trees
  <2>2. disk' \in Disks /\ \A v \in Versions : disk'[v].package = disk[v].package
    BY <1>1, <1>2, <2>1, StagingMoves
  <2> QED BY <1>1, <1>2, <2>2, EndIsFine
<1>3. CASE /\ Go("staged") /\ UNCHANGED <<queue, journal>>
           /\ disk' = [disk EXCEPT ![w.version].staging = "whole"]
  <2>1. w' \in Places /\ w'.pc = "staged" /\ w'.version = w.version
    BY <1>1, <1>3, AtWork, GoMoves DEF Steps
  <2>2. queue' \in Seq(Status) /\ Told' # "STAGED"
    BY <1>1, <1>3, QuietIsUnoffered DEF Rest
  <2>3. journal' \in Words /\ w'.pc \in AtVersion \ {"download"}
    BY <1>1, <1>3, <2>1, AtWork DEF AtVersion
  <2>4. /\ disk' \in Disks /\ \A v \in Versions : disk'[v].package = disk[v].package
        /\ disk'[w.version].staging = "whole"
    BY <1>1, <1>3, StagingMoves DEF Trees
  <2> QED BY <1>1, <2>1, <2>2, <2>3, <2>4, AtWork, StepIsFine
<1> QED BY <1>2, <1>3 DEF Extracted

\* The offer is made when the tree is there, by the one who holds the lock.
LEMMA StagedIsFine == IInv /\ Staged => IInv'
<1> SUFFICES ASSUME IInv, Staged PROVE IInv'
  OBVIOUS
<1> USE DEF Staged, Worker, outside
<1>1. w.pc \in AtVersion
  BY DEF AtVersion
<1>2. /\ w' \in Places /\ w'.pc = "release" /\ w'.version = w.version
      /\ journal' \in Words /\ (w'.noted => journal' = "STAGED")
  BY <1>1, AtWork, JournalMoves DEF Steps, Words
<1>3. queue' \in Seq(Status)
  BY <1>1, AtWork, ReportTells DEF Statuses
<1>4. prepared' \in Versions /\ prepared' \in Targets
  BY <1>1, AtWork
<1>5. TypeOK'
  BY <1>2, <1>3, <1>4, Typed, TypedNext DEF IInv
<1>6. disk[w.version].staging = "whole"
  BY DEF IInv, WorkerOK
<1>7. OfferOK'
  BY <1>2, <1>4, <1>6 DEF OfferOK
<1> QED BY <1>2, <1>5, <1>7
        DEF IInv, PackageIsWhole, WorkerOK, AtVersion, LockOK, ThrottleOK

LEMMA ReleaseIsFine == IInv /\ (ReleaseProcessLock \/ ReleaseOperationLock) => IInv'
<1> SUFFICES ASSUME IInv, ReleaseProcessLock \/ ReleaseOperationLock PROVE IInv'
  OBVIOUS
<1> USE DEF ReleaseProcessLock, ReleaseOperationLock, Worker, outside, files
<1>1. w \in Places
  BY Typed DEF IInv
<1>2. Told' = Told
  BY DEF Told
<1>3. CASE ReleaseProcessLock
  <2>1. Go("done") /\ "done" \in Steps
    BY <1>3 DEF Steps
  <2>2. /\ w' \in Places /\ w'.pc = "done" /\ w'.version = w.version
        /\ w'.noted = w.noted
    BY <1>1, <2>1, GoMoves
  <2>3. TypeOK'
    BY <1>3, <2>2, Typed, TypedNext DEF IInv
  <2> QED BY <1>2, <1>3, <2>2, <2>3
          DEF IInv, PackageIsWhole, WorkerOK, AtVersion, LockOK, ThrottleOK, OfferOK
<1>4. CASE ReleaseOperationLock
  <2>1. w' \in Places /\ w'.pc = "idle"
    BY <1>4, IdleIsTyped DEF Idle
  <2>2. TypeOK'
    BY <1>4, <2>1, Typed, TypedNext DEF IInv
  <2> QED BY <1>2, <1>4, <2>1, <2>2
          DEF IInv, PackageIsWhole, WorkerOK, AtVersion, LockOK, ThrottleOK, OfferOK
<1> QED BY <1>3, <1>4

-----------------------------------------------------------------------------
(* The theorems *)

LEMMA NextIsFine == IInv /\ [Next]_vars => IInv'
<1> SUFFICES ASSUME IInv, [Next]_vars PROVE IInv'
  OBVIOUS
<1>1. CASE WorkerStep
  BY <1>1, ClaimIsFine, CheckIsFine, RequestIsFine, ResponseIsFine, DownloadIsFine,
     RoomIsFine, FetchIsFine, ReceiveIsFine, VerifyIsFine, VerifyingIsFine, StageIsFine,
     ExtractIsFine, StagedIsFine, ReleaseIsFine DEF WorkerStep
<1> QED BY <1>1, StutteringIsFine, BootIsFine, ExitIsFine, ElapseIsFine,
           DeliverIsFine, UserIsFine, UpdaterIsFine DEF Next

\* The inductive invariant holds in every reachable state of controller.py, its
\* window and the external updater.
THEOREM Invariant == Spec => []IInv
<1>1. Init => IInv
  BY InitIsFine
<1>2. IInv /\ [Next]_vars => IInv'
  BY NextIsFine
<1> QED BY <1>1, <1>2, PTL DEF Spec

\* The variables keep their types and no more than one background request is
\* sent in 24 hours, through crashes and restarts (update_check.json).
THEOREM TypeCorrect == Spec => []TypeOK
<1>1. IInv => TypeOK
  BY DEF IInv
<1> QED BY <1>1, Invariant, PTL

\* The package under its own name is the released one, and what the window
\* offers to install is whole (downloader.py, staging.py, pages.py).
THEOREM WhatIsOfferedIsWhole == Spec => []PayloadIsWhole
<1>1. IInv => PayloadIsWhole
  <2> SUFFICES ASSUME IInv PROVE PackageIsWhole /\ OfferIsWhole
    BY DEF PayloadIsWhole
  <2>1. PackageIsWhole
    BY DEF IInv
  <2>2. ASSUME queue = <<>>, shown.state = "STAGED"
        PROVE  prepared # NoVersion /\ disk[prepared].staging = "whole"
    <3>1. Told = "STAGED"
      BY <2>2 DEF Told
    <3> QED BY <3>1, ControllerConstantsOK DEF IInv, OfferOK
  <2> QED BY <2>1, <2>2 DEF OfferIsWhole
<1> QED BY <1>1, Invariant, PTL

\* Only the owner of update.lock changes the files: not one step of the
\* Companion does while the external updater is at work (lock.py, external.py).
THEOREM UpdaterWorksAlone == Spec => UpdaterIsUndisturbed
<1>1. IInv /\ [Next]_vars => [updater = "on" => UNCHANGED disk]_vars
  <2> SUFFICES ASSUME IInv, Next, updater = "on" PROVE UNCHANGED disk
    OBVIOUS
  <2>1. holder = "updater" /\ w.pc \in {"idle", "claim", "done"}
    BY DEF IInv, LockOK
  <2>2. CASE WorkerStep
    BY <2>1, <2>2
       DEF WorkerStep, Worker, Claim, Check, Request, Response, Download, Room,
           Fetch, Receive, Verify, Verifying, Stage, Extract, Staged,
           ReleaseProcessLock, ReleaseOperationLock, files
  <2>3. CASE User
    BY <2>3 DEF User, ClickCheck, BackgroundCheck, ClickDownload,
                NothingToDownload, ClickCancel, LaunchUpdater, Begin, files
  <2> QED BY <2>2, <2>3
          DEF Next, Boot, Exit, Elapse, Deliver, UpdaterStarts, UpdaterEnds, files
<1> QED BY <1>1, Invariant, PTL DEF Spec, UpdaterIsUndisturbed

\* However a download ends, short of the end of the process: an entry that says
\* it is under way is never the last one that reached the file (controller.py
\* _download_and_stage, _write_journal).
THEOREM JournalTellsTheEnd == Spec => JournalSaysHowItEnded
<1>1. IInv /\ [Next]_vars =>
        [w.pc = "done" /\ w.noted /\ w'.pc = "idle" /\ app' = app =>
             journal \in {"STAGED", "FAILED", "CANCELLED"}]_vars
  BY DEF IInv, WorkerOK
<1> QED BY <1>1, Invariant, PTL DEF Spec, JournalSaysHowItEnded

=============================================================================
