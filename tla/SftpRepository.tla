--------------------------- MODULE SftpRepository ---------------------------
(***************************************************************************)
(* The private backup repository on an SFTP server and the public          *)
(* bootstrap directory beside it, as the native client changes them        *)
(* (backup/sftp_uploader.cpp).  One operator is one remote command; a      *)
(* connection may break before, and for an upload within, any of them.     *)
(***************************************************************************)
EXTENDS SnapshotRepository

CONSTANTS
    RemoteRetention,  \* backup.remote.retention-count
    PublicRetention   \* backup.public-publish.retention-count

ASSUME SftpAssumption == RemoteRetention \in Nat /\ PublicRetention \in Nat

\* Of each object the server has nothing, a file cut short, or all of it.
RemoteObject == {"none", "short", "full"}

\* A snapshot directory holds COMPLETE and both manifests, or only some of them.
RemoteDir == {"absent", "complete", "broken"}

Remotes ==
    [objs: [Obj -> RemoteObject], dir: [Id -> RemoteDir], partial: SUBSET Id,
     latest: Id \cup {NoId}, latestPartial: Id \cup {NoId}]

HeldRemote(k) ==
    [objs |-> [o \in Obj |-> IF \E i \in 1 .. k : o \in Files[i] THEN "full" ELSE "none"],
     dir |-> [i \in Id |-> IF i <= k THEN "complete" ELSE "absent"], partial |-> {},
     latest |-> k, latestPartial |-> NoId]

\* download_remote_snapshot_metadata
Listed(m) == {i \in Id : m.dir[i] = "complete"}

\* Mutant: any file under the object's name is taken for the object.
PutObjectIfMissing(m, o) == [m EXCEPT !.objs[o] = IF @ = "none" THEN "full" ELSE @]

\* upload_file: an object whose size is already right is skipped, any other file is
\* truncated and written.
PutObject(m, o) == [m EXCEPT !.objs[o] = "full"]

\* The same, broken off after the truncation.
CutObject(m, o) == [m EXCEPT !.objs[o] = IF @ = "full" THEN "full" ELSE "short"]

\* make_directory and the uploads of files.json, manifest.json and COMPLETE.
PutPartial(m, i) == [m EXCEPT !.partial = @ \cup {i}]

\* rename_path of a snapshot: the server refuses a name in use, and the client then
\* accepts the refusal only if the source is gone.
RenameRefused(m, i) == m.dir[i] # "absent" /\ i \in m.partial

RenamePartial(m, i) == [m EXCEPT !.dir[i] = "complete", !.partial = @ \ {i}]

PutLatest(m, i) == [m EXCEPT !.latestPartial = i]

RemoveLatest(m) == [m EXCEPT !.latest = NoId]

RenameLatest(m) == [m EXCEPT !.latest = m.latestPartial, !.latestPartial = NoId]

\* The files of a snapshot are removed in the order of their names, COMPLETE first.
RemoveFiles(m, i) == [m EXCEPT !.dir[i] = "broken"]

RemoveDirectory(m, i) == [m EXCEPT !.dir[i] = "absent"]

RemoveObject(m, o) == [m EXCEPT !.objs[o] = "none"]

\* Mutant: what other snapshots name is not looked at.
ReclaimableAll(m, i) == Files[i]

\* delete_remote_backup_snapshot: the objects no other snapshot names.
Reclaimable(m, i) == Files[i] \ UNION {Files[j] : j \in Listed(m) \ {i}}

\* prune_remote_retention_if_configured: the newest and the one just uploaded stay.
Expirable(m, keep) == Exceeding(Listed(m), RemoteRetention) \ {keep}

-----------------------------------------------------------------------------
(* The public bootstrap directory: metadata only.  Its objects are those of  *)
(* the private repository, through an overlay the operator provides.         *)

Publics == [dir: [Id -> RemoteDir], latest: Id \cup {NoId}]

HeldPublic(k) ==
    [dir |-> [i \in Id |-> IF i <= k THEN "complete" ELSE "absent"], latest |-> k]
=============================================================================
