--------------------------- MODULE StoreMigration ---------------------------
(***************************************************************************)
(* Opening the store of an older version (storage.rs: initialize,          *)
(* migrate_v1_messages) from several processes.  The version and the       *)
(* legacy table are read outside the transaction that migrates; SQLite's   *)
(* deferred transaction reads a snapshot at its first statement and takes  *)
(* the one write lock at its first write, which fails when the snapshot is *)
(* no longer the newest.                                                   *)
(***************************************************************************)
EXTENDS Naturals, Sequences

CONSTANTS
    Opener,     \* processes that open the store
    Messages,   \* the messages of a version 1 store, in order
    NoOpener    \* no process

Current == 4    \* SCHEMA_VERSION

VARIABLES
    had,       \* history: the messages of the store before anyone opened it
    db,        \* the committed store: version, messages, entries, columns;
               \* readable: every message can be parsed
    commits,   \* number of commits
    writeLock, \* its holder
    opening,   \* where each process stands
    legacy,    \* what it read outside its transaction
    snapshot   \* the commit its transaction reads

migVars == <<had, db, commits, writeLock, opening, legacy, snapshot>>

\* A new store, one of version 1 (user_version 0, with messages), and one of
\* version 2 or 3, which lacks columns.
Stores ==
    {[version |-> 0, table |-> FALSE, messages |-> <<>>, entries |-> <<>>, columns |-> FALSE,
      readable |-> TRUE],
     [version |-> 0, table |-> TRUE, messages |-> Messages, entries |-> <<>>, columns |-> FALSE,
      readable |-> TRUE],
     [version |-> 0, table |-> TRUE, messages |-> Messages, entries |-> <<>>, columns |-> FALSE,
      readable |-> FALSE],
     [version |-> 2, table |-> FALSE, messages |-> <<>>, entries |-> Messages, columns |-> FALSE,
      readable |-> TRUE]}

Init ==
    /\ db \in Stores /\ had = db.messages \o db.entries
    /\ commits = 0 /\ writeLock = NoOpener
    /\ opening = [p \in Opener |-> "version"]
    /\ legacy = [p \in Opener |-> FALSE]
    /\ snapshot = [p \in Opener |-> 0]

Stands(p, s) == opening' = [opening EXCEPT ![p] = s]

ReadVersion(p) ==
    /\ opening[p] = "version"
    /\ \/ db.version >= Current /\ Stands(p, "open") /\ UNCHANGED legacy
       \/ /\ db.version < Current
          /\ legacy' = [legacy EXCEPT ![p] = db.version = 0]   \* has_table is asked next
          /\ Stands(p, "table")
    /\ UNCHANGED <<had, db, commits, writeLock, snapshot>>

ReadTable(p) ==
    /\ opening[p] = "table"
    /\ legacy' = [legacy EXCEPT ![p] = @ /\ db.table]
    /\ Stands(p, "begin")
    /\ UNCHANGED <<had, db, commits, writeLock, snapshot>>

\* The first statement of the transaction.
Begin(p) ==
    /\ opening[p] = "begin"
    /\ snapshot' = [snapshot EXCEPT ![p] = commits]
    /\ Stands(p, "write")
    /\ UNCHANGED <<had, db, commits, writeLock, legacy>>

TakeLock(p) ==
    /\ opening[p] = "write" /\ writeLock = NoOpener
    /\ snapshot[p] = commits
    /\ writeLock' = p /\ Stands(p, "migrate")
    /\ UNCHANGED <<had, db, commits, legacy, snapshot>>

Fails(p) ==
    /\ writeLock' = IF writeLock = p THEN NoOpener ELSE writeLock
    /\ Stands(p, "failed")
    /\ UNCHANGED <<had, db, commits, legacy, snapshot>>

\* The snapshot is old, or the lock stays with another for too long.
Busy(p) ==
    /\ opening[p] = "write"
    /\ snapshot[p] # commits \/ writeLock # NoOpener
    /\ Fails(p)

\* A message cannot be parsed, or the table another process saw is gone.
MigrationFails(p) ==
    /\ opening[p] = "migrate" /\ legacy[p]
    /\ ~db.readable \/ ~db.table
    /\ Fails(p)

\* Mutant of Migrated: the old table is kept.
MigratedKeeping(p) ==
    [db EXCEPT !.version = Current, !.columns = TRUE,
               !.entries = IF legacy[p] THEN @ \o db.messages ELSE @]

\* The tables, the columns, the messages as facts in their order, the version.
Migrated(p) ==
    [db EXCEPT !.version = Current, !.columns = TRUE,
               !.entries = IF legacy[p] THEN @ \o db.messages ELSE @,
               !.messages = IF legacy[p] THEN <<>> ELSE @,
               !.table = IF legacy[p] THEN FALSE ELSE @]

CommitMigration(p) ==
    /\ opening[p] = "migrate"
    /\ legacy[p] => db.readable /\ db.table
    /\ db' = Migrated(p)
    /\ commits' = commits + 1 /\ writeLock' = NoOpener
    /\ Stands(p, "open")
    /\ UNCHANGED <<had, legacy, snapshot>>

\* A process dies, or is told of the failure, and tries again.
TryAgain(p) ==
    /\ opening[p] # "version" /\ Stands(p, "version")
    /\ writeLock' = IF writeLock = p THEN NoOpener ELSE writeLock
    /\ UNCHANGED <<had, db, commits, legacy, snapshot>>

Next ==
    \E p \in Opener :
        \/ ReadVersion(p) \/ ReadTable(p) \/ Begin(p) \/ TakeLock(p) \/ Busy(p)
        \/ MigrationFails(p) \/ CommitMigration(p) \/ TryAgain(p)

Spec == Init /\ [][Next]_migVars

-----------------------------------------------------------------------------
(* Properties. *)

\* Whatever processes open the store, fail, die and try again: no message of an
\* old store is lost or doubled, and none is in both places (storage.rs:690-694).
NothingLost == db.messages \o db.entries = had

\* A process that has the store open sees the current schema.
OpenIsCurrent ==
    \A p \in Opener : opening[p] = "open" =>
        db.version = Current /\ db.columns /\ ~db.table

\* The migration (initialize): both.
MigrationSound == NothingLost /\ OpenIsCurrent
=============================================================================
