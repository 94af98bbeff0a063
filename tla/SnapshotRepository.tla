------------------------- MODULE SnapshotRepository -------------------------
(***************************************************************************)
(* The local backup repository (backup/snapshot_repository.cpp): a         *)
(* content-addressed object store, one directory per snapshot and          *)
(* latest.json.  An object appears under its own name only after it was    *)
(* verified (copied to .tmp or .partial and renamed), so the set of        *)
(* objects is the set of good ones.                                        *)
(*                                                                         *)
(* Backup ids begin with the time of the checkpoint: their order is the    *)
(* order of the numbers that stand for them.                               *)
(***************************************************************************)
EXTENDS Naturals, FiniteSets

Sets == INSTANCE FiniteSetsExt

CONSTANTS
    Obj,           \* content hashes
    MaxId,         \* bound on the number of snapshots
    Files,         \* the objects in files.json of each snapshot
    ConfigObj,     \* the object of config.yml, which a restore may do without
    LocalRetention \* backup.local.retention-count

Id == 1 .. MaxId
NoId == 0

ASSUME RepositoryAssumption ==
    /\ MaxId \in Nat \ {0} /\ LocalRetention \in Nat
    /\ \A i \in Id : Files[i] \subseteq Obj

\* A snapshot directory: with files.json and COMPLETE; with COMPLETE only, which an
\* interrupted remove_all can leave behind; or with no COMPLETE.
DirState == {"absent", "complete", "noindex", "nomark"}

Repositories ==
    [objs: SUBSET Obj, dir: [Id -> DirState], partial: SUBSET Id, latest: Id \cup {NoId}]

\* A repository in which the first k snapshots have been stored.
HeldRepository(k) ==
    [objs |-> UNION {Files[i] : i \in 1 .. k}, partial |-> {}, latest |-> k,
     dir |-> [i \in Id |-> IF i <= k THEN "complete" ELSE "absent"]]

\* completed_snapshot_dirs
Completed(r) == {i \in Id : r.dir[i] \in {"complete", "noindex"}}

\* collect_snapshot_object_hashes: a directory without files.json names nothing.
Named(r, ids) == UNION {Files[i] : i \in {j \in ids : r.dir[j] = "complete"}}

\* newest_completed_backup_id
Newest(ids) == IF ids = {} THEN NoId ELSE Sets!Max(ids)

Eldest(ids) == Sets!Min(ids)

\* The n smallest elements of a set of ids: what a retention count drops.
Oldest(ids, n) == {i \in ids : Cardinality({j \in ids : j < i}) < n}

\* The snapshots that exceed a retention count; a count of zero keeps everything.
Exceeding(ids, count) ==
    IF count = 0 \/ Cardinality(ids) <= count THEN {}
    ELSE Oldest(ids, Cardinality(ids) - count)

\* store_checkpoint_snapshot refuses an id in use.
CanStore(r, i) == i \notin r.partial /\ r.dir[i] = "absent"

\* latest.json or an exact id, as every request selects its snapshot.
Selected(r, i) == IF i = NoId THEN r.latest ELSE i

Missing(r, i) == Files[i] \ r.objs

\* build_local_restore_preflight: ready_to_restore.
Preflight(r, i, space) == r.dir[i] = "complete" /\ Missing(r, i) = {} /\ space

\* cache_downloaded_snapshot_metadata: metadata of a snapshot of another repository
\* is kept like a snapshot of this one, its objects are not.
CacheRefuses(r, i) ==
    \/ r.dir[i] = "absent" /\ i \in r.partial
    \/ r.dir[i] = "nomark"
=============================================================================
