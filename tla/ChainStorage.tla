---------------------------- MODULE ChainStorage ----------------------------
(***************************************************************************)
(* The shared RocksDB database of a node (RocksDBManager) and where the    *)
(* chain state is kept: in column families of that database ("unified")    *)
(* or in the database chain/blockchain of older releases ("legacy").       *)
(* The operators are the single writes of opening the database and of      *)
(* moving the chain state from one place to the other.                     *)
(***************************************************************************)
EXTENDS Integers

CONSTANTS
    MaxHeight,  \* bound on the height of the stored chain
    Paths       \* the directories a migration may set the legacy database aside in, each
                \* known by the second in its name

ASSUME StorageAssumption == {MaxHeight} \cup Paths \subseteq Nat \ {0}

Height == 0 .. MaxHeight

\* A chain state is known by the height it has reached; a copy cut short by Part.
Part == -1
NoChain == -2
Chain == Height \cup {Part, NoChain}

Layouts == {"", "legacy", "unified", "migration-in-progress"}
NoPath == 0

\* What is in db/: the blocks, the chain_state families, the storage metadata;
\* whole is FALSE of a directory some files of which are missing.
Database == [origin: {"own", "restored"}, blocks: Height, chain: Chain, layout: Layouts,
             backup: Paths \cup {NoPath}, whole: BOOLEAN]
NoDb == [origin |-> "none"]

\* create_if_missing
CreatedDb == [origin |-> "own", blocks |-> 0, chain |-> 0, layout |-> "",
              backup |-> NoPath, whole |-> TRUE]

-----------------------------------------------------------------------------
(* Opening the database *)

OpenedDb(db) == IF db = NoDb THEN CreatedDb ELSE db

\* initialize_storage_metadata
OpenRefused(db) == db.layout = "migration-in-progress"

InitializeLayout(db, legacy) ==
    [db EXCEPT !.layout =
        CASE db.layout = "" -> IF legacy = NoChain THEN "unified" ELSE "legacy"
          [] db.layout = "legacy" /\ legacy = NoChain -> "unified"
          [] OTHER -> db.layout]

\* The chain state that controller.open is given.
ServedChain(db, legacy) == IF db.layout = "unified" THEN db.chain ELSE legacy

WriteLayout(db, layout) == [db EXCEPT !.layout = layout]

-----------------------------------------------------------------------------
(* migrate_legacy_chain_db_to_unified and rollback_unified_chain_db_migration *)

\* timestamp_suffix: the directory is named for the time of the migration, so it is
\* later than that of any migration before, the last of which was at second stamp.
BackupPaths(stamp) == {p \in Paths : p > stamp}

CanMigrate(db, legacy, aside, stamp) ==
    /\ db.layout = "legacy" /\ legacy # NoChain
    /\ \E p \in BackupPaths(stamp) : aside[p] = NoChain

\* clear_column_family, and the first batches of the copy
CopyBegun(db) == [db EXCEPT !.chain = Part]

Copied(db, legacy) == [db EXCEPT !.chain = legacy]

VerifyCopy(db, legacy) == db.chain = legacy

WriteBackupPath(db, p) == [db EXCEPT !.backup = p]

CanRollback(db, legacy, aside) ==
    /\ db.layout = "unified" /\ db.backup # NoPath
    /\ aside[db.backup] # NoChain /\ legacy = NoChain

\* What the catch blocks write back: the layout that matches where the legacy
\* database now is.
MigrationUndone(renamed) == IF renamed THEN "unified" ELSE "legacy"

RollbackUndone(renamed) == IF renamed THEN "legacy" ELSE "unified"
=============================================================================
