------------------------ MODULE ArchiveOpening_proofs ------------------------
(***************************************************************************)
(* Proofs about ArchiveOpening for any number of threads, calls,           *)
(* transactions and crashes.                                               *)
(*                                                                         *)
(* No step removes a schema object, so what a thread has seen created stays*)
(* so whatever the others do.  Hence a thread's place in the set-up says   *)
(* how much of the schema there is (Reached), the invariant is inductive   *)
(* with it, and only the place that commits the stamp has to be looked at. *)
(***************************************************************************)
EXTENDS ArchiveOpening, TLAPS

\* Places behind the scripts, behind the column, behind the index.
BehindScript == {"columns", "alter", "index", "stamp", "commit", "open", "writing"}
BehindColumn == {"index", "stamp", "commit", "open", "writing"}
BehindIndex == {"stamp", "commit", "open", "writing"}

\* What a thread's place in connect_database says of the archive.
Reached(t) ==
    /\ conn[t].pc \in {"journal_mode", "switching"} => conn[t].next = 1
    /\ conn[t].pc = "script" => \A i \in 1..conn[t].next - 1 : Script[i] \in db.parts
    /\ conn[t].pc \in BehindScript => Tables \subseteq db.parts
    /\ conn[t].pc \in BehindColumn => "manual_recache_requested" \in db.parts
    /\ conn[t].pc \in BehindIndex => "idx_manual_recache" \in db.parts
    /\ conn[t].pc \in {"script"} \cup BehindScript => db.wal
    /\ conn[t].pc \in {"open", "writing"} => db.version = SCHEMA_VERSION

\* A transaction holds the lock, and one thread at a time does.
Holding == {"switching", "commit", "writing"}
LockIsHeld == \A t \in Threads : conn[t].pc \in Holding <=> lock = t

\* The inductive invariant.
IInv ==
    /\ TypeOK
    /\ \A t \in Threads : Reached(t)
    /\ LockIsHeld
    /\ StampIsBacked
    /\ RaceIsNotFatal

-----------------------------------------------------------------------------
(* The schema *)

LEMMA ScriptHasStatements ==
    /\ Len(Script) \in Nat /\ 1 <= Len(Script)
    /\ ObjectsOf(BaseSchema) \subseteq Tables /\ ObjectsOf(V2Schema) \subseteq Tables
    /\ ObjectsOf(V3Schema) \subseteq Tables /\ ObjectsOf(V4Schema) \subseteq Tables
    /\ ObjectsOf(V5Schema) \subseteq Tables
BY DEF Script, Tables, ObjectsOf, BaseSchema, V2Schema, V3Schema, V4Schema, V5Schema

\* No release leaves behind more than this one knows.
LEMMA SchemasGrow ==
    ASSUME NEW v \in 0..SCHEMA_VERSION
    PROVE  SchemaOf(v) \subseteq Whole
<1>1. \A i \in 1..5 : ObjectsOf(Scripts[i]) \subseteq Tables
  BY ScriptHasStatements DEF Scripts
<1>2. 1..(IF v > 5 THEN 5 ELSE v) \subseteq 1..5
  BY DEF SCHEMA_VERSION
<1> QED BY <1>1, <1>2 DEF SchemaOf, Whole, V6Parts

-----------------------------------------------------------------------------
(* Types *)

Archives == [wal : BOOLEAN, parts : SUBSET Whole, version : 0..SCHEMA_VERSION,
             requested : BOOLEAN]
PCs == Opening \cup {"closed", "failed", "open", "writing"}
Places == [pc : PCs, next : 1..Len(Script), why : {"-", "locked", "disk", "schema"},
           writes : BOOLEAN, late : BOOLEAN]
Counts == [opens : 0..MaxOpens, writes : 0..MaxWrites, crashes : 0..MaxCrashes]

LEMMA Typed ==
    TypeOK <=> /\ db \in Archives /\ lock \in Threads \cup {Nobody}
               /\ conn \in [Threads -> Places] /\ spent \in Counts
BY Zenon DEF TypeOK, Archives, PCs, Places, Counts

LEMMA TypedNext ==
    TypeOK' <=> /\ db' \in Archives /\ lock' \in Threads \cup {Nobody}
                /\ conn' \in [Threads -> Places] /\ spent' \in Counts
BY Zenon DEF TypeOK, Archives, PCs, Places, Counts

LEMMA InitIsTyped == Init => TypeOK
<1> SUFFICES ASSUME Init PROVE TypeOK
  OBVIOUS
<1>1. PICK v \in 0..SCHEMA_VERSION :
        db = [wal |-> v > 0, parts |-> SchemaOf(v), version |-> v, requested |-> FALSE]
  BY DEF Init
<1>2. db \in Archives
  BY <1>1, SchemasGrow DEF Archives
<1>3. conn \in [Threads -> Places]
  BY ScriptHasStatements DEF Init, Closed, Places, PCs
<1>4. spent \in Counts
  BY OpeningConstantsOK DEF Init, Counts
<1> QED BY <1>2, <1>3, <1>4, Typed DEF Init

\* A set-up at its start, and one that has failed.
LEMMA StartsAreTyped ==
    /\ Closed \in Places
    /\ \A pc \in PCs : [Closed EXCEPT !.pc = pc] \in Places
    /\ \A pc \in PCs, why \in {"locked", "disk"} :
          [Closed EXCEPT !.pc = pc, !.why = why] \in Places
<1>1. Closed \in Places
  <2>1. 1 \in 1..Len(Script) /\ "closed" \in PCs
    BY ScriptHasStatements DEF PCs
  <2> QED BY <2>1 DEF Closed, Places
<1> QED BY <1>1 DEF Places

\* A thread moves.
LEMMA MoveIsTyped ==
    ASSUME conn \in [Threads -> Places], NEW t \in Threads, NEW c \in Places,
           conn' = [conn EXCEPT ![t] = c]
    PROVE  conn' \in [Threads -> Places]
OBVIOUS

LEMMA GoIsTyped ==
    ASSUME conn \in [Threads -> Places], NEW t \in Threads, NEW pc \in PCs, Go(t, pc)
    PROVE  conn' \in [Threads -> Places]
<1>1. [conn[t] EXCEPT !.pc = pc] \in Places
  BY DEF Places
<1>2. conn' = [conn EXCEPT ![t] = [conn[t] EXCEPT !.pc = pc]]
  BY DEF Go
<1> QED BY <1>1, <1>2

\* An object is created.
LEMMA CreatedIsTyped ==
    ASSUME db \in Archives, NEW object \in Whole
    PROVE  Created(object) \in Archives
<1>1. db.parts \cup {object} \in SUBSET Whole
  BY DEF Archives
<1>2. Created(object) = [db EXCEPT !.parts = db.parts \cup {object}]
  BY DEF Created
<1> QED BY <1>1, <1>2 DEF Archives

LEMMA CallIsTyped == ASSUME TypeOK, NEW t \in Threads, Call(t) PROVE TypeOK'
<1>1. spent' \in Counts
  BY OpeningConstantsOK, Typed DEF Call, Counts
<1>2. conn' \in [Threads -> Places]
  BY StartsAreTyped, Typed DEF Call, PCs, Opening
<1> QED BY <1>1, <1>2, Typed, TypedNext DEF Call

LEMMA CreateIsTyped == ASSUME TypeOK, NEW t \in Threads, Create(t) PROVE TypeOK'
<1> DEFINE c == conn[t]
<1>1. c \in Places
  BY Typed
<1>2. [c EXCEPT !.pc = "columns", !.next = 1] \in Places
  <2>1. 1 \in 1..Len(Script) /\ "columns" \in PCs
    BY ScriptHasStatements DEF PCs, Opening
  <2> QED BY <1>1, <2>1 DEF Places
<1>3. ~IsLast(c.next) => [c EXCEPT !.next = c.next + 1] \in Places
  <2>1. ~IsLast(c.next) => c.next + 1 \in 1..Len(Script)
    BY <1>1, ScriptHasStatements DEF Places, IsLast
  <2> QED BY <1>1, <2>1 DEF Places
<1>4. conn' \in [Threads -> Places]
  <2>1. CASE IsLast(c.next)
    BY <2>1, <1>2, Typed DEF Create
  <2>2. CASE ~IsLast(c.next)
    <3>1. conn' = [conn EXCEPT ![t] = [c EXCEPT !.next = c.next + 1]]
      BY <2>2 DEF Create
    <3> QED BY <3>1, <2>2, <1>3, MoveIsTyped, Typed
  <2> QED BY <2>1, <2>2
<1>5. Script[c.next] \in Whole
  BY <1>1 DEF Places, Whole, Tables, ObjectsOf
<1>6. db' \in Archives
  BY <1>5, CreatedIsTyped, Typed DEF Create
<1> QED BY <1>4, <1>6, Typed, TypedNext DEF Create

LEMMA AlterIsTyped == ASSUME TypeOK, NEW t \in Threads, Alter(t) PROVE TypeOK'
<1>1. db' \in Archives
  BY CreatedIsTyped, Typed DEF Alter, Altered, Whole, V6Parts
<1>2. conn' = [conn EXCEPT ![t].pc = "index", ![t].why = conn[t].why]
  BY DEF Alter, LostRace
<1>3. conn' \in [Threads -> Places]
  <2>1. [conn[t] EXCEPT !.pc = "index"] \in Places
    BY Typed DEF Places, PCs, Opening
  <2>2. conn' = [conn EXCEPT ![t] = [conn[t] EXCEPT !.pc = "index"]]
    BY <1>2, Typed DEF Places
  <2> QED BY <2>1, <2>2, MoveIsTyped, Typed
<1> QED BY <1>1, <1>3, Typed, TypedNext DEF Alter

LEMMA ConnectIsTyped == ASSUME TypeOK, NEW t \in Threads, Connect(t) PROVE TypeOK'
<1> USE Typed, TypedNext
<1>0. \A pc \in Opening : Go(t, pc) => conn' \in [Threads -> Places]
  BY GoIsTyped DEF PCs
<1>1. CASE AlreadyWal(t)
  BY <1>0, <1>1 DEF AlreadyWal, Opening
<1>2. CASE Negotiate(t)
  BY <1>0, <1>2 DEF Negotiate, Opening
<1>3. CASE SwitchToWal(t)
  <2>1. db' \in Archives
    BY <1>3 DEF SwitchToWal, Archives
  <2> QED BY <1>0, <1>3, <2>1 DEF SwitchToWal, Opening
<1>4. CASE Create(t)
  BY <1>4, CreateIsTyped
<1>5. CASE ReadColumns(t)
  BY <1>0, <1>5 DEF ReadColumns, Opening
<1>6. CASE Alter(t)
  BY <1>6, AlterIsTyped
<1>7. CASE CreateIndex(t)
  BY <1>0, <1>7, CreatedIsTyped DEF CreateIndex, Opening, Whole, V6Parts
<1>8. CASE Stamp(t)
  BY <1>0, <1>8 DEF Stamp, Opening
<1>9. CASE CommitStamp(t)
  <2>1. db' \in Archives
    BY <1>9 DEF CommitStamp, Archives, SCHEMA_VERSION
  <2>2. conn' \in [Threads -> Places]
    BY <1>9, StartsAreTyped DEF CommitStamp, PCs
  <2> QED BY <1>9, <2>1, <2>2 DEF CommitStamp
<1> QED BY <1>1, <1>2, <1>3, <1>4, <1>5, <1>6, <1>7, <1>8, <1>9 DEF Connect

LEMMA ErrorsAreTyped ==
    ASSUME TypeOK, NEW t \in Threads, DeadlinePasses(t) \/ Locked(t) \/ Fail(t)
    PROVE  TypeOK'
<1>1. \A why \in {"locked", "disk"} :
        Raise(t, why) => conn' \in [Threads -> Places] /\ lock' \in Threads \cup {Nobody}
  <2> SUFFICES ASSUME NEW why \in {"locked", "disk"}, Raise(t, why)
               PROVE  conn' \in [Threads -> Places] /\ lock' \in Threads \cup {Nobody}
    OBVIOUS
  <2>1. [Closed EXCEPT !.pc = "failed", !.why = why] \in Places
    BY StartsAreTyped DEF PCs
  <2> QED BY <2>1, MoveIsTyped, Typed DEF Raise, Release
<1>2. CASE Locked(t)
  <2>1. [Closed EXCEPT !.pc = RetryFrom(t)] \in Places
    BY StartsAreTyped DEF RetryFrom, PCs, Opening
  <2>2. conn' \in [Threads -> Places] /\ lock' \in Threads \cup {Nobody}
    BY <1>1, <1>2, <2>1, Typed DEF Locked, Retry, Release
  <2> QED BY <1>2, <2>2, Typed, TypedNext DEF Locked
<1>3. CASE Fail(t)
  BY <1>1, <1>3, Typed, TypedNext DEF Fail
<1>4. CASE DeadlinePasses(t)
  <2> DEFINE c == [conn[t] EXCEPT !.late = TRUE]
  <2>1. c \in Places
    <3>1. TRUE \in BOOLEAN
      BY Zenon
    <3> QED BY <3>1, Typed DEF Places
  <2>2. conn' = [conn EXCEPT ![t] = c]
    BY <1>4 DEF DeadlinePasses
  <2> QED BY <1>4, <2>1, <2>2, MoveIsTyped, Typed, TypedNext DEF DeadlinePasses
<1> QED BY <1>2, <1>3, <1>4

LEMMA UseIsTyped ==
    ASSUME TypeOK, NEW t \in Threads, Begin(t) \/ Commit(t) \/ Close(t) PROVE TypeOK'
<1> DEFINE c == conn[t]
<1>0. c \in Places
  BY Typed
<1>1. CASE Begin(t)
  <2>1. PICK requested \in BOOLEAN :
          conn' = [conn EXCEPT ![t].pc = "writing", ![t].writes = requested]
    BY <1>1 DEF Begin
  <2>2. [c EXCEPT !.pc = "writing", !.writes = requested] \in Places
    BY <1>0 DEF Places, PCs
  <2>3. conn' = [conn EXCEPT ![t] = [c EXCEPT !.pc = "writing", !.writes = requested]]
    BY <2>1, Typed
  <2>4. spent' \in Counts
    <3>1. spent.writes + 1 \in 0..MaxWrites
      <4>1. MaxWrites \in Nat /\ spent.writes \in 0..MaxWrites
        BY OpeningConstantsOK, Typed DEF Counts
      <4> QED BY <1>1, <4>1 DEF Begin
    <3> QED BY <1>1, <3>1, Typed DEF Begin, Counts
  <2> QED BY <1>1, <2>2, <2>3, <2>4, MoveIsTyped, Typed, TypedNext DEF Begin
<1>2. CASE Commit(t)
  <2>1. [c EXCEPT !.pc = "open", !.writes = FALSE] \in Places
    BY <1>0 DEF Places, PCs
  <2>2. conn' = [conn EXCEPT ![t] = [c EXCEPT !.pc = "open", !.writes = FALSE]]
    BY <1>2, Typed DEF Commit
  <2>3. db' \in Archives
    BY <1>0, <1>2, Typed DEF Commit, Archives, Places
  <2> QED BY <1>2, <2>1, <2>2, <2>3, MoveIsTyped, Typed, TypedNext DEF Commit
<1>3. CASE Close(t)
  BY <1>3, StartsAreTyped, Typed, TypedNext DEF Close
<1> QED BY <1>1, <1>2, <1>3

LEMMA CrashIsTyped == ASSUME TypeOK, Crash PROVE TypeOK'
<1>1. spent' \in Counts
  BY OpeningConstantsOK, Typed DEF Crash, Counts
<1> QED BY <1>1, StartsAreTyped, Typed, TypedNext DEF Crash

LEMMA StepsAreTyped == TypeOK /\ [Next]_vars => TypeOK'
<1> SUFFICES ASSUME TypeOK, [Next]_vars PROVE TypeOK'
  OBVIOUS
<1>1. CASE UNCHANGED vars
  BY <1>1 DEF vars, TypeOK
<1> QED
  BY <1>1, CallIsTyped, ConnectIsTyped, ErrorsAreTyped, UseIsTyped, CrashIsTyped DEF Next

\* Whatever happens, the state is one of the declared kind (connect_database,
\* apply_migrations).
THEOREM TypeCorrect == Spec => []TypeOK
<1> QED BY InitIsTyped, StepsAreTyped, PTL DEF Spec

-----------------------------------------------------------------------------
(* What a thread has seen stays *)

\* No step takes anything back from the archive.
Grows ==
    /\ db.parts \subseteq db'.parts
    /\ db.wal => db'.wal
    /\ db.version = SCHEMA_VERSION => db'.version = SCHEMA_VERSION

\* A thread that does not move loses nothing by what the others do.
LEMMA ReachedStays ==
    ASSUME NEW t \in Threads, Reached(t), Grows,
           conn'[t].pc = conn[t].pc, conn'[t].next = conn[t].next
    PROVE  Reached(t)'
BY DEF Reached, Grows

\* Neither does one that starts again, fails or closes.
LEMMA StartHasNoPast ==
    ASSUME NEW t \in Threads, conn'[t].next = 1,
           conn'[t].pc \in {"closed", "failed", "journal_mode"}
    PROVE  Reached(t)'
BY DEF Reached, BehindScript, BehindColumn, BehindIndex

\* What a step of thread t is to be shown to keep.
Keeps(t) ==
    /\ Grows /\ StampIsBacked'
    /\ Reached(t)'
    /\ conn'[t].why # "schema"
    /\ conn'[t].pc \in Holding <=> lock' = t
    /\ \A u \in Threads \ {t} : conn'[u] = conn[u] /\ (lock' = u <=> lock = u)

\* The facts the steps need of the state they start in.
LEMMA AtStart ==
    ASSUME IInv, NEW t \in Threads
    PROVE  /\ conn \in [Threads -> Places] /\ conn[t] \in Places
           /\ db \in Archives /\ lock \in Threads \cup {Nobody} /\ Nobody # t
           /\ Reached(t) /\ StampIsBacked /\ conn[t].why # "schema"
           /\ conn[t].pc \in Holding <=> lock = t
BY Typed, OpeningConstantsOK DEF IInv, LockIsHeld, RaceIsNotFatal

LEMMA CallKeeps == ASSUME IInv, NEW t \in Threads, Call(t) PROVE Keeps(t)
<1> USE AtStart
<1>1. /\ Grows /\ StampIsBacked'
  BY DEF Call, Grows, StampIsBacked
<1>2. /\ conn'[t].pc = "journal_mode" /\ conn'[t].why = "-" /\ conn'[t].next = 1
      /\ \A u \in Threads \ {t} : conn'[u] = conn[u]
  BY DEF Call, Closed
<1> QED BY <1>1, <1>2, StartHasNoPast DEF Call, Keeps, Holding

LEMMA CreateKeeps == ASSUME IInv, NEW t \in Threads, Create(t) PROVE Keeps(t)
<1> DEFINE c == conn[t]
<1> USE AtStart
<1>1. /\ db' \in Archives /\ db'.parts = db.parts \cup {Script[c.next]}
      /\ db'.wal = db.wal /\ db'.version = db.version
  BY TypedNext, CreateIsTyped DEF Create, Created, Archives, IInv
<1>2. Grows /\ StampIsBacked'
  BY <1>1 DEF Grows, StampIsBacked
<1>3. c.next \in 1..Len(Script) /\ c.pc = "script"
  BY DEF Places, Create, At
<1>4. Reached(t)'
  <2>1. CASE IsLast(c.next)
    <3>1. \A i \in 1..Len(Script) : Script[i] \in db'.parts
      BY <1>1, <1>3, <2>1, ScriptHasStatements DEF Reached, IsLast
    <3>2. conn'[t].pc = "columns"
      BY <2>1 DEF Create, Places
    <3> QED BY <3>1, <3>2, <1>1, <1>3 DEF Reached, Tables, ObjectsOf, BehindScript,
              BehindColumn, BehindIndex
  <2>2. CASE ~IsLast(c.next)
    <3>1. conn'[t].pc = "script" /\ conn'[t].next = c.next + 1
      BY <2>2, <1>3 DEF Create, Places
    <3>2. \A i \in 1..c.next : Script[i] \in db'.parts
      BY <1>1, <1>3 DEF Reached
    <3>3. (c.next + 1) - 1 = c.next
      BY <1>3
    <3> QED BY <3>1, <3>2, <3>3, <1>1, <1>3 DEF Reached, BehindScript, BehindColumn, BehindIndex
  <2> QED BY <2>1, <2>2
<1>5. /\ conn'[t].pc \in {"script", "columns"} /\ conn'[t].why = c.why
      /\ \A u \in Threads \ {t} : conn'[u] = conn[u]
  BY <1>3 DEF Create, Places
<1> QED BY <1>2, <1>3, <1>4, <1>5 DEF Create, Keeps, Holding

\* Steps that end one statement of the set-up and go to the next.
LEMMA GoMoves ==
    ASSUME IInv, NEW t \in Threads, NEW pc, Go(t, pc)
    PROVE  /\ conn'[t].pc = pc /\ conn'[t].why = conn[t].why
           /\ conn'[t].next = conn[t].next
           /\ \A u \in Threads \ {t} : conn'[u] = conn[u]
BY AtStart DEF Go, Places

LEMMA SetUpKeeps ==
    ASSUME IInv, NEW t \in Threads,
           \/ AlreadyWal(t) \/ Negotiate(t) \/ SwitchToWal(t) \/ ReadColumns(t)
           \/ CreateIndex(t) \/ Stamp(t)
    PROVE  Keeps(t)
<1> USE AtStart DEF Keeps, Holding
<1>1. CASE AlreadyWal(t)
  <2>1. Grows /\ StampIsBacked'
    BY <1>1 DEF AlreadyWal, Grows, StampIsBacked, Archives
  <2>2. Reached(t)'
    BY <1>1, <2>1, GoMoves DEF AlreadyWal, At, Grows, Reached, Archives, BehindScript, BehindColumn,
       BehindIndex
  <2> QED BY <1>1, <2>1, <2>2, GoMoves DEF AlreadyWal, At
<1>2. CASE Negotiate(t)
  <2>1. Grows /\ StampIsBacked'
    BY <1>2 DEF Negotiate, Grows, StampIsBacked, Archives
  <2>2. Reached(t)'
    BY <1>2, <2>1, GoMoves DEF Negotiate, At, Grows, Reached, Archives, BehindScript, BehindColumn,
       BehindIndex
  <2> QED BY <1>2, <2>1, <2>2, GoMoves DEF Negotiate, At
<1>3. CASE SwitchToWal(t)
  <2>1. Grows /\ StampIsBacked'
    BY <1>3 DEF SwitchToWal, Grows, StampIsBacked, Archives
  <2>2. Reached(t)'
    BY <1>3, <2>1, GoMoves DEF SwitchToWal, At, Grows, Reached, Archives, BehindScript, BehindColumn,
       BehindIndex
  <2> QED BY <1>3, <2>1, <2>2, GoMoves DEF SwitchToWal, At
<1>4. CASE ReadColumns(t)
  <2>1. Grows /\ StampIsBacked'
    BY <1>4 DEF ReadColumns, Grows, StampIsBacked, Archives
  <2>2. Reached(t)'
    BY <1>4, <2>1, GoMoves DEF ReadColumns, At, Grows, Reached, Archives, BehindScript, BehindColumn,
       BehindIndex
  <2> QED BY <1>4, <2>1, <2>2, GoMoves DEF ReadColumns, At
<1>5. CASE CreateIndex(t)
  <2>1. Grows /\ StampIsBacked'
    BY <1>5 DEF CreateIndex, Grows, StampIsBacked, Archives, Created
  <2>2. Reached(t)'
    BY <1>5, <2>1, GoMoves DEF CreateIndex, At, Grows, Reached, Archives, BehindScript, BehindColumn,
       BehindIndex, Created
  <2> QED BY <1>5, <2>1, <2>2, GoMoves DEF CreateIndex, At
<1>6. CASE Stamp(t)
  <2>1. Grows /\ StampIsBacked'
    BY <1>6 DEF Stamp, Grows, StampIsBacked, Archives
  <2>2. Reached(t)'
    BY <1>6, <2>1, GoMoves DEF Stamp, At, Grows, Reached, Archives, BehindScript, BehindColumn,
       BehindIndex
  <2> QED BY <1>6, <2>1, <2>2, GoMoves DEF Stamp, At
<1> QED BY <1>1, <1>2, <1>3, <1>4, <1>5, <1>6

LEMMA AlterKeeps == ASSUME IInv, NEW t \in Threads, Alter(t) PROVE Keeps(t)
<1> USE AtStart
<1>1. /\ db'.parts = db.parts \cup {"manual_recache_requested"}
      /\ db'.wal = db.wal /\ db'.version = db.version
  BY DEF Alter, Altered, Created, Archives
<1>2. Grows /\ StampIsBacked'
  BY <1>1 DEF Grows, StampIsBacked
<1>3. /\ conn[t].pc = "alter" /\ conn'[t].pc = "index" /\ conn'[t].why = conn[t].why
      /\ \A u \in Threads \ {t} : conn'[u] = conn[u]
  BY DEF Alter, At, LostRace, Places
<1>4. Reached(t)'
  BY <1>1, <1>3 DEF Reached, BehindScript, BehindColumn, BehindIndex
<1> QED BY <1>2, <1>3, <1>4 DEF Alter, Keeps, Holding

LEMMA CommitStampKeeps == ASSUME IInv, NEW t \in Threads, CommitStamp(t) PROVE Keeps(t)
<1> USE AtStart
<1>1. /\ db'.parts = db.parts /\ db'.wal = db.wal /\ db'.version = SCHEMA_VERSION
  BY DEF CommitStamp, Archives
<1>2. /\ conn[t].pc = "commit" /\ conn'[t].pc = "open" /\ conn'[t].why = "-"
      /\ \A u \in Threads \ {t} : conn'[u] = conn[u]
  BY DEF CommitStamp, At, Closed
<1>3. Whole \subseteq db.parts
  BY <1>2 DEF Reached, Whole, V6Parts, BehindScript, BehindColumn, BehindIndex
<1>4. StampIsBacked'
  BY <1>1, <1>3, SchemasGrow DEF StampIsBacked, SCHEMA_VERSION
<1>5. Reached(t)'
  BY <1>1, <1>2 DEF Reached, BehindScript, BehindColumn, BehindIndex
<1> QED BY <1>1, <1>2, <1>4, <1>5 DEF CommitStamp, Grows, Keeps, Holding

LEMMA ErrorsKeep ==
    ASSUME IInv, NEW t \in Threads, DeadlinePasses(t) \/ Locked(t) \/ Fail(t)
    PROVE  Keeps(t)
<1> USE AtStart
<1>1. Grows /\ StampIsBacked'
  BY DEF DeadlinePasses, Locked, Fail, Grows, StampIsBacked
<1>2. CASE DeadlinePasses(t)
  <2>1. /\ conn'[t].pc = conn[t].pc /\ conn'[t].next = conn[t].next
        /\ conn'[t].why = conn[t].why /\ \A u \in Threads \ {t} : conn'[u] = conn[u]
    BY <1>2 DEF DeadlinePasses, Places
  <2> QED BY <1>1, <1>2, <2>1, ReachedStays DEF DeadlinePasses, Keeps
<1>3. ASSUME Locked(t) \/ Fail(t)
      PROVE
      /\ conn'[t].pc \in {"failed", "journal_mode"} /\ conn'[t].why # "schema"
      /\ conn'[t].next = 1 /\ \A u \in Threads \ {t} : conn'[u] = conn[u]
      /\ lock' = Release(t)
  BY <1>3 DEF Locked, Retry, Fail, Raise, RetryFrom, Closed
<1> QED BY <1>1, <1>2, <1>3, StartHasNoPast DEF Release, Keeps, Holding

LEMMA UseKeeps ==
    ASSUME IInv, NEW t \in Threads, Begin(t) \/ Commit(t) \/ Close(t) PROVE Keeps(t)
<1> USE AtStart
<1>1. Grows /\ StampIsBacked'
  BY DEF Begin, Commit, Close, Grows, StampIsBacked, Archives
<1>2. CASE Begin(t)
  <2>1. /\ conn[t].pc = "open" /\ conn'[t].pc = "writing" /\ conn'[t].why = conn[t].why
        /\ \A u \in Threads \ {t} : conn'[u] = conn[u]
    BY <1>2 DEF Begin, At, Places
  <2>2. Reached(t)'
    BY <1>1, <2>1 DEF Grows, Reached, BehindScript, BehindColumn, BehindIndex
  <2> QED BY <1>1, <1>2, <2>1, <2>2 DEF Begin, Keeps, Holding
<1>3. CASE Commit(t)
  <2>1. /\ conn[t].pc = "writing" /\ conn'[t].pc = "open" /\ conn'[t].why = conn[t].why
        /\ \A u \in Threads \ {t} : conn'[u] = conn[u]
    BY <1>3 DEF Commit, At, Places
  <2>2. Reached(t)'
    BY <1>1, <2>1 DEF Grows, Reached, BehindScript, BehindColumn, BehindIndex
  <2> QED BY <1>1, <1>3, <2>1, <2>2 DEF Commit, Keeps, Holding
<1>4. CASE Close(t)
  <2>1. /\ conn'[t].pc = "closed" /\ conn'[t].why = "-" /\ conn'[t].next = 1
        /\ \A u \in Threads \ {t} : conn'[u] = conn[u]
    BY <1>4 DEF Close, Closed
  <2> QED BY <1>1, <1>4, <2>1, StartHasNoPast DEF Close, Keeps, Holding
<1> QED BY <1>2, <1>3, <1>4

\* A step that keeps what it should for its own thread keeps the invariant.
LEMMA KeepingIsEnough ==
    ASSUME IInv, TypeOK', NEW t \in Threads, Keeps(t) PROVE IInv'
<1>1. \A u \in Threads : Reached(u)'
  BY ReachedStays DEF IInv, Keeps
<1>2. LockIsHeld' /\ RaceIsNotFatal'
  BY DEF IInv, Keeps, LockIsHeld, RaceIsNotFatal
<1> QED BY <1>1, <1>2 DEF IInv, Keeps

LEMMA CrashKeeps == ASSUME IInv, Crash PROVE IInv'
<1>1. TypeOK'
  BY CrashIsTyped DEF IInv
<1>2. \A u \in Threads : conn'[u] = Closed
  BY DEF Crash
<1>3. \A u \in Threads : Reached(u)'
  BY <1>2, StartHasNoPast DEF Closed
<1>4. LockIsHeld' /\ RaceIsNotFatal' /\ StampIsBacked'
  BY <1>2, OpeningConstantsOK DEF Crash, Closed, LockIsHeld, RaceIsNotFatal, StampIsBacked,
     Holding, IInv
<1> QED BY <1>1, <1>3, <1>4 DEF IInv

LEMMA InvariantIsKept == IInv /\ [Next]_vars => IInv'
<1> SUFFICES ASSUME IInv, [Next]_vars PROVE IInv'
  OBVIOUS
<1>0. TypeOK'
  BY StepsAreTyped DEF IInv
<1>1. CASE UNCHANGED vars
  BY <1>0, <1>1 DEF vars, IInv, Reached, LockIsHeld, StampIsBacked, RaceIsNotFatal
<1>2. ASSUME NEW t \in Threads, Connect(t) PROVE Keeps(t)
  BY <1>2, SetUpKeeps, CreateKeeps, AlterKeeps, CommitStampKeeps DEF Connect
<1>3. ASSUME NEW t \in Threads,
             \/ Call(t) \/ Connect(t) \/ DeadlinePasses(t) \/ Locked(t) \/ Fail(t)
             \/ Begin(t) \/ Commit(t) \/ Close(t)
      PROVE  Keeps(t)
  BY <1>2, <1>3, CallKeeps, ErrorsKeep, UseKeeps
<1> QED BY <1>0, <1>1, <1>3, KeepingIsEnough, CrashKeeps DEF Next

LEMMA InvariantHoldsAtFirst == Init => IInv
<1> SUFFICES ASSUME Init PROVE IInv
  OBVIOUS
<1>1. \A t \in Threads : conn[t].pc = "closed" /\ conn[t].why = "-"
  BY DEF Init, Closed
<1>2. StampIsBacked
  BY DEF Init, StampIsBacked
<1>3. \A t \in Threads : Reached(t)
  BY <1>1 DEF Reached, BehindScript, BehindColumn, BehindIndex
<1>4. LockIsHeld /\ RaceIsNotFatal
  BY <1>1, OpeningConstantsOK DEF Init, LockIsHeld, RaceIsNotFatal, Holding
<1> QED BY <1>2, <1>3, <1>4, InitIsTyped DEF IInv

-----------------------------------------------------------------------------
(* Theorems *)

\* What each place in connect_database says of the archive holds whoever else
\* is opening, writing, failing or dying.
THEOREM Invariant == Spec => []IInv
<1> QED BY InvariantHoldsAtFirst, InvariantIsKept, PTL DEF Spec

\* Whoever gets a connection finds the whole schema, whatever others do and
\* wherever the process died before; the stamp is never ahead of the schema
\* (connect_database).
THEOREM SchemaIsAlwaysWhole == Spec => []SchemaIsWhole
<1>1. IInv => SchemaIsWhole
  <2> SUFFICES ASSUME IInv, NEW t \in Threads, conn[t].pc \in {"open", "writing"}
               PROVE  db.parts = Whole /\ db.version = SCHEMA_VERSION /\ db.wal
    BY DEF IInv, SchemaIsWhole, OpenMeansWhole
  <2>1. Reached(t) /\ db.parts \subseteq Whole
    BY Typed DEF IInv, Archives
  <2> QED BY <2>1 DEF Reached, Whole, V6Parts, BehindScript, BehindColumn, BehindIndex
<1> QED BY <1>1, Invariant, PTL

\* Losing the race for the new column is no error (_apply_v6).
THEOREM RaceIsNeverFatal == Spec => []RaceIsNotFatal
<1>1. IInv => RaceIsNotFatal
  BY DEF IInv
<1> QED BY <1>1, Invariant, PTL

\* The lock is held by exactly the transaction under way, so no failed,
\* retried or killed set-up leaves it behind.
THEOREM LockFollowsTransactions == Spec => []LockIsHeld
<1>1. IInv => LockIsHeld
  BY DEF IInv
<1> QED BY <1>1, Invariant, PTL

\* A committed request changes by nothing but a transaction of an open
\* connection.
LEMMA RequestChangesInTransaction ==
    ASSUME TypeOK, [Next]_vars, db'.requested # db.requested
    PROVE  \E t \in Threads : At(t, "writing") /\ conn'[t].pc = "open"
<1>1. CASE UNCHANGED vars \/ Crash
  BY <1>1 DEF vars, Crash
<1>2. ASSUME NEW t \in Threads,
             Call(t) \/ DeadlinePasses(t) \/ Locked(t) \/ Fail(t) \/ Begin(t) \/ Close(t)
      PROVE  FALSE
  BY <1>2 DEF Call, DeadlinePasses, Locked, Fail, Begin, Close
<1>3. ASSUME NEW t \in Threads, Connect(t) PROVE FALSE
  BY <1>3, Typed DEF Connect, AlreadyWal, Negotiate, SwitchToWal, Create, ReadColumns, Alter,
     CreateIndex, Stamp, CommitStamp, Created, Altered, Archives
<1>4. ASSUME NEW t \in Threads, Commit(t)
      PROVE  At(t, "writing") /\ conn'[t].pc = "open"
  BY <1>4, Typed DEF Commit, Places
<1> QED BY <1>1, <1>2, <1>3, <1>4 DEF Next

THEOREM RequestsAlwaysSurvive == Spec => RequestsSurvive
<1>1. TypeOK /\ [Next]_vars =>
        [db'.requested # db.requested =>
            \E t \in Threads : At(t, "writing") /\ conn'[t].pc = "open"]_vars
  BY RequestChangesInTransaction
<1> QED BY <1>1, TypeCorrect, PTL DEF Spec, RequestsSurvive

=============================================================================
