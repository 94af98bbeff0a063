-------------------------- MODULE MCBackupService --------------------------
(* Instance of BackupService for TLC: two snapshots that share an object. *)
EXTENDS BackupService, TLC

MCFiles == 1 :> {"a", "b"} @@ 2 :> {"b", "c"}

Ask(kind, id, dry) == [kind |-> kind, id |-> id, dry |-> dry]

MCRequests ==
    {Ask("local", NoId, FALSE), Ask("configured", NoId, FALSE), Ask("upload", NoId, FALSE),
     Ask("delete both", 1, FALSE), Ask("delete both", 1, TRUE),
     Ask("fetch", NoId, FALSE), Ask("public fetch", 1, FALSE)}
=============================================================================
