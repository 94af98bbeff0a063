--------------------------- MODULE BaseDirectory ---------------------------
(***************************************************************************)
(* What a restore leaves in the base directory of a node, one durable      *)
(* change at a time: the staged snapshot, the request to activate it, the  *)
(* steps of activate_staged_restore_snapshot and the files of the          *)
(* observer-first policy.                                                  *)
(***************************************************************************)
EXTENDS ChainStorage

\* The directory of a staged snapshot.  far: on another file system than db/.
Staging == [st: {"none", "partial", "complete"}, db: Database \cup {NoDb}, far: BOOLEAN]
NoStaging == [st |-> "none", db |-> NoDb, far |-> FALSE]

Disk == [db: Database \cup {NoDb},
         legacy: Chain,               \* chain/blockchain
         aside: [Paths -> Chain],     \* chain/blockchain.legacy-pre-unified-*
         snap: Database \cup {NoDb},  \* the newest snapshot of the local repository
         staging: Staging,
         intent: BOOLEAN,             \* .teleno-restore-activation-request.json
         marker: BOOLEAN,             \* .backup-just-restored
         hold: BOOLEAN,               \* .backup-observer-recovery
         preDb: SUBSET Database,      \* what is under .pre-restore
         preChain: SUBSET Chain]

-----------------------------------------------------------------------------
(* Staging a snapshot and asking for its activation *)

\* stage_local_restore_snapshot: the directory must be missing, its .partial too.
CanStage(d) == d.staging.st = "none" /\ d.snap # NoDb

StageBegun(d, far) ==
    [d EXCEPT !.staging = [st |-> "partial", far |-> far,
                           db |-> [d.snap EXCEPT !.origin = "restored", !.whole = FALSE]]]

\* A copy or a checksum fails: the .partial directory is removed.
StageAborted(d) == [d EXCEPT !.staging = NoStaging]

StageDone(d) == [d EXCEPT !.staging.st = "complete", !.staging.db.whole = TRUE]

\* Mutant: only a base directory that has a database can be restored over.
CanActivateOver(d) == d.staging.st = "complete" /\ d.staging.db # NoDb /\ d.db # NoDb

\* The checks of a request, made again when the request is carried out.
CanActivate(d) == d.staging.st = "complete" /\ d.staging.db # NoDb

WriteIntent(d) == [d EXCEPT !.intent = TRUE]

RemoveIntent(d) == [d EXCEPT !.intent = FALSE]

HasPending(d) == d.intent

-----------------------------------------------------------------------------
(* activate_staged_restore_snapshot *)

\* preserve_existing_path( "db" )
PreserveDb(d) ==
    IF d.db = NoDb THEN d ELSE [d EXCEPT !.db = NoDb, !.preDb = @ \cup {d.db}]

\* preserve_existing_path( "chain/blockchain" )
PreserveLegacy(d) ==
    IF d.legacy = NoChain THEN d
    ELSE [d EXCEPT !.legacy = NoChain, !.preChain = @ \cup {d.legacy}]

\* move_path_with_copy_fallback: a rename, or else a copy and a remove_all.
MoveRenamed(d) == [d EXCEPT !.db = d.staging.db, !.staging.db = NoDb]

CopyStarted(d) == [d EXCEPT !.db = [d.staging.db EXCEPT !.whole = FALSE]]

CopyFinished(d) == [d EXCEPT !.db = d.staging.db]

SourceRemoving(d) == [d EXCEPT !.staging.db.whole = FALSE]

SourceRemoved(d) == [d EXCEPT !.staging.db = NoDb]

WriteMarker(d) == [d EXCEPT !.marker = TRUE]

-----------------------------------------------------------------------------
(* apply_restore_startup_policy: the durable hold comes before the marker goes *)

WriteHold(d) == [d EXCEPT !.hold = TRUE]

ConsumeMarker(d) == [d EXCEPT !.marker = FALSE]

\* An explicit --enable block_producer, on a start that found no marker.
ReleasesHold(d, explicit) == ~d.marker /\ d.hold /\ explicit

ReleaseHold(d) == [d EXCEPT !.hold = FALSE]
=============================================================================
