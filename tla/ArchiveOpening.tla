---------------------------- MODULE ArchiveOpening ----------------------------
(***************************************************************************)
(* Opening the archive: every thread of the Companion that needs the       *)
(* database calls connect_database, which switches the file to WAL, brings *)
(* the schema up to date and stamps its version, also when other threads   *)
(* do the same or write.  SQLite commits each statement of a script on its *)
(* own, so an archive may be found at any point of a migration.            *)
(*                                                                         *)
(* A script is a sequence of schema objects, an object standing for tables *)
(* and indexes that only it creates.  What an open connection writes is    *)
(* the bit column V6 adds: the user's request to cache a medium again.     *)
(*                                                                         *)
(* Definitions marked "Variant" are used by no action: each is a plausible *)
(* mistake in the definition it stands before.                             *)
(***************************************************************************)
EXTENDS Naturals, Sequences

CONSTANTS
    Threads,        \* the threads that open the archive
    Nobody,         \* the holder of a free lock
    MaxOpens,       \* bound: calls of connect_database
    MaxWrites,      \* bound: transactions of open connections
    MaxCrashes,     \* bound: ends of the process
    MayFail         \* whether the disk may raise errors

ASSUME OpeningConstantsOK ==
    /\ Nobody \notin Threads
    /\ {MaxOpens, MaxWrites, MaxCrashes} \subseteq Nat
    /\ MayFail \in BOOLEAN

VARIABLES
    db,         \* what is committed: journal mode, schema, version, request
    lock,       \* who holds the lock a write needs
    conn,       \* per thread: where connect_database or its caller is
    spent       \* opens, writes and crashes so far

vars == <<db, lock, conn, spent>>

-----------------------------------------------------------------------------
(* The schema.                                                             *)

SCHEMA_VERSION == 6
BaseSchema == <<"schema_meta", "archive", "imports">>
V2Schema == <<"activity_events", "subsystem_health">>
V3Schema == <<"media_objects", "media_refs">>
V4Schema == <<"archive_export_rules">>
V5Schema == <<"source_channel_evidence">>

Scripts == <<BaseSchema, V2Schema, V3Schema, V4Schema, V5Schema>>
Script == BaseSchema \o V2Schema \o V3Schema \o V4Schema \o V5Schema

ObjectsOf(script) == {script[i] : i \in 1..Len(script)}
Tables == ObjectsOf(Script)
V6Parts == {"manual_recache_requested", "idx_manual_recache"}
Whole == Tables \cup V6Parts

\* What a release whose schema has version v leaves behind.
SchemaOf(v) ==
    (UNION {ObjectsOf(Scripts[i]) : i \in 1..(IF v > 5 THEN 5 ELSE v)})
        \cup (IF v = SCHEMA_VERSION THEN V6Parts ELSE {})

Closed == [pc |-> "closed", next |-> 1, why |-> "-", writes |-> FALSE, late |-> FALSE]

\* An archive of this release, of an earlier one, or none.
Init ==
    /\ \E v \in 0..SCHEMA_VERSION :
          db = [wal |-> v > 0, parts |-> SchemaOf(v), version |-> v,
                requested |-> FALSE]
    /\ lock = Nobody
    /\ conn = [t \in Threads |-> Closed]
    /\ spent = [opens |-> 0, writes |-> 0, crashes |-> 0]

-----------------------------------------------------------------------------
(* connect_database.                                                       *)

At(t, pc) == conn[t].pc = pc
Go(t, pc) == conn' = [conn EXCEPT ![t].pc = pc]

\* Has the statement nothing to write, or may it take the lock?
MayWrite(nothing) == nothing \/ lock = Nobody

Call(t) ==
    /\ conn[t].pc \in {"closed", "failed"}
    /\ spent.opens < MaxOpens
    /\ conn' = [conn EXCEPT ![t] = [Closed EXCEPT !.pc = "journal_mode"]]
    /\ spent' = [spent EXCEPT !.opens = @ + 1]
    /\ UNCHANGED <<db, lock>>

\* PRAGMA journal_mode: a file in WAL mode already stays as it is.
AlreadyWal(t) ==
    /\ At(t, "journal_mode") /\ db.wal
    /\ Go(t, "script")
    /\ UNCHANGED <<db, lock, spent>>

Negotiate(t) ==
    /\ At(t, "journal_mode") /\ ~db.wal /\ lock = Nobody
    /\ lock' = t
    /\ Go(t, "switching")
    /\ UNCHANGED <<db, spent>>

SwitchToWal(t) ==
    /\ At(t, "switching")
    /\ db' = [db EXCEPT !.wal = TRUE]
    /\ lock' = Nobody
    /\ Go(t, "script")
    /\ UNCHANGED spent

Created(object) == [db EXCEPT !.parts = @ \cup {object}]

\* Variant: one statement too far.
IsLastVariant(i) == i > Len(Script)

IsLast(i) == i = Len(Script)

\* One CREATE ... IF NOT EXISTS of the scripts.
Create(t) ==
    /\ At(t, "script")
    /\ LET object == Script[conn[t].next]
       IN  /\ MayWrite(object \in db.parts)
           /\ db' = Created(object)
    /\ LET c == conn[t]
       IN  conn' = [conn EXCEPT ![t] =
                      IF IsLast(c.next) THEN [c EXCEPT !.pc = "columns", !.next = 1]
                      ELSE [c EXCEPT !.next = c.next + 1]]
    /\ UNCHANGED <<lock, spent>>

\* _media_object_columns before the ALTER: what it finds may be outdated by
\* the time the ALTER gets the lock.
ReadColumns(t) ==
    /\ At(t, "columns")
    /\ Go(t, IF "manual_recache_requested" \in db.parts
             THEN "index" ELSE "alter")
    /\ UNCHANGED <<db, lock, spent>>

\* Variant: a column somebody else has added is an error like any other.
LostRaceVariant == "failed"

\* "duplicate column name": the columns are read again, and the column is
\* there.
LostRace == "index"

\* Variant: the table is rebuilt with the column in it.
AlteredVariant == [Created("manual_recache_requested") EXCEPT
                      !.requested = FALSE]

\* ADD COLUMN, NOT NULL DEFAULT 0; without effect when the column is there.
Altered == Created("manual_recache_requested")

Alter(t) ==
    /\ At(t, "alter") /\ lock = Nobody
    /\ db' = Altered
    /\ LET next == IF "manual_recache_requested" \in db.parts
                   THEN LostRace ELSE "index"
       IN  conn' = [conn EXCEPT ![t].pc = next,
                       ![t].why = IF next = "failed" THEN "schema" ELSE @]
    /\ UNCHANGED <<lock, spent>>

CreateIndex(t) ==
    /\ At(t, "index")
    /\ MayWrite("idx_manual_recache" \in db.parts)
    /\ db' = Created("idx_manual_recache")
    /\ Go(t, "stamp")
    /\ UNCHANGED <<lock, spent>>

\* INSERT of schema_version, in a transaction Python has begun.
Stamp(t) ==
    /\ At(t, "stamp") /\ lock = Nobody
    /\ lock' = t
    /\ Go(t, "commit")
    /\ UNCHANGED <<db, spent>>

CommitStamp(t) ==
    /\ At(t, "commit")
    /\ db' = [db EXCEPT !.version = SCHEMA_VERSION]
    /\ lock' = Nobody
    /\ conn' = [conn EXCEPT ![t] = [Closed EXCEPT !.pc = "open"]]
    /\ UNCHANGED spent

-----------------------------------------------------------------------------
(* Errors of connect_database.                                             *)

Opening == {"journal_mode", "switching", "script", "columns", "alter",
            "index", "stamp", "commit"}

\* A statement that cannot do without the lock, at the point t is.
NeedsLock(t) ==
    CASE At(t, "journal_mode") -> ~db.wal
      [] At(t, "script") -> Script[conn[t].next] \notin db.parts
      [] At(t, "index") -> "idx_manual_recache" \notin db.parts
      [] OTHER -> conn[t].pc \in {"alter", "stamp"}

\* connection.close and connection.rollback end what t has begun.
Release(t) == IF lock = t THEN Nobody ELSE lock

\* The connection is closed and the error raised.
Raise(t, why) ==
    /\ conn' = [conn EXCEPT ![t] = [Closed EXCEPT !.pc = "failed",
                                                  !.why = why]]
    /\ lock' = Release(t)

\* Variant: the set-up goes on behind the statement that did not run.
RetryFromVariant(t) ==
    IF At(t, "journal_mode") THEN "script"
    ELSE IF At(t, "script") THEN "columns"
    ELSE IF At(t, "alter") THEN "index" ELSE "stamp"

\* The whole set-up is one retryable unit.
RetryFrom(t) == "journal_mode"

\* Somebody else has the lock that the next statement of t needs.
Blocked(t) ==
    conn[t].pc \in Opening /\ NeedsLock(t) /\ lock \notin {Nobody, t}

\* The ten seconds of the call are over: they are looked at on a lock error.
DeadlinePasses(t) ==
    /\ Blocked(t) /\ ~conn[t].late
    /\ conn' = [conn EXCEPT ![t].late = TRUE]
    /\ UNCHANGED <<db, lock, spent>>

\* Variant: every try has a deadline of its own.
GivesUpVariant(t) == FALSE

GivesUp(t) == conn[t].late

Retry(t) ==
    /\ conn' = [conn EXCEPT ![t] = [Closed EXCEPT !.pc = RetryFrom(t)]]
    /\ lock' = Release(t)

\* "database is locked": the set-up starts again, or is given up behind the
\* deadline.  A wait for the whole busy timeout ends behind it.
Locked(t) ==
    /\ Blocked(t)
    /\ IF GivesUp(t) THEN Raise(t, "locked") ELSE Retry(t)
    /\ UNCHANGED <<db, spent>>

\* Any other error, as of a full disk, is raised at once.
Fail(t) ==
    /\ MayFail /\ conn[t].pc \in Opening
    /\ Raise(t, "disk")
    /\ UNCHANGED <<db, spent>>

-----------------------------------------------------------------------------
(* The connection in use, as the threads of the other modules use it.      *)

Begin(t) ==
    /\ At(t, "open") /\ lock = Nobody
    /\ spent.writes < MaxWrites
    /\ lock' = t
    /\ \E requested \in BOOLEAN :
          conn' = [conn EXCEPT ![t].pc = "writing",
                               ![t].writes = requested]
    /\ spent' = [spent EXCEPT !.writes = @ + 1]
    /\ UNCHANGED db

Commit(t) ==
    /\ At(t, "writing")
    /\ db' = [db EXCEPT !.requested = conn[t].writes]
    /\ lock' = Nobody
    /\ conn' = [conn EXCEPT ![t].pc = "open", ![t].writes = FALSE]
    /\ UNCHANGED spent

Close(t) ==
    /\ conn[t].pc \in {"open", "writing"}
    /\ conn' = [conn EXCEPT ![t] = Closed]
    /\ lock' = IF lock = t THEN Nobody ELSE lock
    /\ UNCHANGED <<db, spent>>

\* The process ends: its locks with it, and what was not committed.
Crash ==
    /\ spent.crashes < MaxCrashes
    /\ conn' = [t \in Threads |-> Closed]
    /\ lock' = Nobody
    /\ spent' = [spent EXCEPT !.crashes = @ + 1]
    /\ UNCHANGED db

-----------------------------------------------------------------------------
Connect(t) ==
    \/ AlreadyWal(t) \/ Negotiate(t) \/ SwitchToWal(t)
    \/ Create(t) \/ ReadColumns(t) \/ Alter(t) \/ CreateIndex(t)
    \/ Stamp(t) \/ CommitStamp(t)

Next ==
    \/ \E t \in Threads :
          \/ Call(t) \/ Connect(t) \/ DeadlinePasses(t) \/ Locked(t) \/ Fail(t)
          \/ Begin(t) \/ Commit(t) \/ Close(t)
    \/ Crash

Spec == Init /\ [][Next]_vars

\* Time passes also for who finds the lock taken again and again, and a
\* statement waits for it until its busy timeout at most.  Nothing is assumed
\* of the transactions it waits for.
FairSpec == Spec /\ \A t \in Threads :
                       /\ SF_vars(DeadlinePasses(t))
                       /\ WF_vars(Connect(t) \/ (conn[t].late /\ Locked(t)))

-----------------------------------------------------------------------------
(* Properties.                                                             *)

(* Types; a connection works at one statement of the scripts.              *)
TypeOK ==
    /\ db \in [wal : BOOLEAN, parts : SUBSET Whole,
               version : 0..SCHEMA_VERSION, requested : BOOLEAN]
    /\ lock \in Threads \cup {Nobody}
    /\ conn \in [Threads ->
                   [pc : Opening \cup {"closed", "failed", "open", "writing"},
                    next : 1..Len(Script), why : {"-", "locked", "disk", "schema"},
                    writes : BOOLEAN, late : BOOLEAN]]
    /\ spent \in [opens : 0..MaxOpens, writes : 0..MaxWrites,
                  crashes : 0..MaxCrashes]

(* connect_database returns a connection only to an archive that has every *)
(* table, column and index of this release, whatever state the archive was *)
(* found in and whoever else was migrating it, retrying or dying meanwhile.*)
OpenMeansWhole ==
    \A t \in Threads : conn[t].pc \in {"open", "writing"} =>
        db.parts = Whole /\ db.version = SCHEMA_VERSION /\ db.wal

(* The version in the archive is never ahead of the schema: an archive     *)
(* stamped v has everything of version v, also after a crash in between.   *)
StampIsBacked == SchemaOf(db.version) \subseteq db.parts

(* Neither a caller nor a later release is told of tables that are missing.*)
SchemaIsWhole == OpenMeansWhole /\ StampIsBacked

(* Threads that migrate at once do not fail because of each other: setting *)
(* up fails through a lock held beyond the timeouts or through the disk    *)
(* (the docstring of _apply_v6: the loser takes the column for success).   *)
RaceIsNotFatal == \A t \in Threads : conn[t].why # "schema"

(* A request to cache a medium again that has been committed is changed by *)
(* nothing but a transaction of an open connection: no migration of        *)
(* another thread, no retry and no crash takes it back.                    *)
RequestsSurvive ==
    [][db'.requested # db.requested =>
         \E t \in Threads : At(t, "writing") /\ conn'[t].pc = "open"]_vars

(* Everyone who calls connect_database gets a connection or an error, even *)
(* when others fail halfway through their own set-up or never let go of the*)
(* lock.                                                                   *)
OpeningEnds ==
    \A t \in Threads : (conn[t].pc \in Opening) ~> (conn[t].pc \notin Opening)
=============================================================================
