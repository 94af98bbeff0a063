----------------------------- MODULE BackupPlan -----------------------------
(***************************************************************************)
(* The backup section of the configuration, the dry run that judges it     *)
(* (build_backup_dry_run_plan) and the checks the backup commands and the  *)
(* backup service make for themselves before they start.                   *)
(* A value is kept as far as a check tells it apart.                       *)
(***************************************************************************)
EXTENDS Naturals

References == {"empty", "missing", "directory", "file"}
RemotePaths == {"empty", "relative", "absolute"}
Secrets == {"empty", "missing", "shared", "private"}

Config == [
    enabled: BOOLEAN, nodeId: BOOLEAN, workspace: References,
    scheduled: BOOLEAN, interval: BOOLEAN,
    local: BOOLEAN, localDir: References,
    remote: BOOLEAN, remoteDir: RemotePaths, suffix: BOOLEAN,
    ssh: BOOLEAN, sshEndpoint: BOOLEAN,  \* host, transport, user, port and timeout
    auth: {"password-file", "private-key", "env-password", "other"},
    secret: Secrets, passphrase: Secrets, strict: BOOLEAN, knownHosts: References,
    publish: BOOLEAN, publishDir: RemotePaths, publishUrl: BOOLEAN,
    publishNetwork: BOOLEAN, observerConfig: References, publishSuffix: BOOLEAN]

\* A configuration nothing is wrong with.
Complete == [
    enabled |-> TRUE, nodeId |-> TRUE, workspace |-> "directory",
    scheduled |-> TRUE, interval |-> TRUE,
    local |-> TRUE, localDir |-> "directory",
    remote |-> TRUE, remoteDir |-> "absolute", suffix |-> TRUE,
    ssh |-> TRUE, sshEndpoint |-> TRUE,
    auth |-> "private-key", secret |-> "private", passphrase |-> "empty",
    strict |-> TRUE, knownHosts |-> "file",
    publish |-> TRUE, publishDir |-> "absolute", publishUrl |-> TRUE,
    publishNetwork |-> TRUE, observerConfig |-> "file", publishSuffix |-> TRUE]

-----------------------------------------------------------------------------
(* The errors of the dry run; what it only warns of is no error *)

\* A directory that does not exist yet is a warning.
BadDirectory(ref) == ref \in {"empty", "file"}

BadFile(ref) == ref # "file"

BadSecret(secret) == secret # "private"

\* Mutant: a remote target is accepted without the transport it needs.
SshErrorsUnasked(c) == c.ssh /\ ~c.sshEndpoint

SshErrors(c) ==
    IF ~c.ssh THEN c.remote
    ELSE \/ ~c.sshEndpoint
         \/ c.auth = "other"
         \/ c.auth \in {"password-file", "private-key"} /\ BadSecret(c.secret)
         \/ c.auth = "private-key" /\ c.passphrase # "empty" /\ BadSecret(c.passphrase)
         \/ c.strict /\ c.knownHosts # "empty" /\ BadFile(c.knownHosts)

RemoteErrors(c) == c.remote /\ (c.remoteDir # "absolute" \/ ~c.suffix)

PublishErrors(c) ==
    /\ c.publish
    /\ \/ ~c.remote \/ c.publishDir # "absolute"
       \/ ~c.publishUrl \/ ~c.publishNetwork \/ ~c.publishSuffix
       \/ BadFile(c.observerConfig)

\* has_errors of the plan: a disabled backup is not looked at any further.
PlanErrors(c) ==
    /\ c.enabled
    /\ \/ ~c.nodeId \/ BadDirectory(c.workspace)
       \/ c.scheduled /\ ~c.interval
       \/ ~c.local /\ ~c.remote
       \/ c.local /\ BadDirectory(c.localDir)
       \/ RemoteErrors(c) \/ PublishErrors(c) \/ SshErrors(c)

-----------------------------------------------------------------------------
(* The checks of the service and of the commands *)

LocalSnapshotRefused(c) ==
    ~c.enabled \/ ~c.local \/ c.workspace = "empty" \/ c.localDir = "empty"

LocalRepositoryRefused(c) == ~c.local \/ c.localDir = "empty"

RemoteRepositoryRefused(c) ==
    LocalRepositoryRefused(c) \/ ~c.remote \/ c.remoteDir = "empty" \/ ~c.ssh

PublicPublishRefused(c) ==
    \/ RemoteRepositoryRefused(c) \/ ~c.publish \/ c.publishDir = "empty"
    \/ ~c.publishUrl \/ ~c.publishNetwork \/ c.observerConfig = "empty"

\* --backup-create, before and in create_local_snapshot
CreateRefused(c) ==
    \/ ~c.local \/ c.localDir = "empty"
    \/ c.remote /\ (~c.ssh \/ c.remoteDir = "empty")
    \/ LocalSnapshotRefused(c)

\* --backup-upload-latest
UploadRefused(c) == ~c.local \/ ~c.remote \/ ~c.ssh

\* What each target of a configuration asks for.
Refused(c, target) ==
    CASE target = "create"  -> CreateRefused(c)
      [] target = "upload"  -> UploadRefused(c) \/ RemoteRepositoryRefused(c)
      [] target = "publish" -> PublicPublishRefused(c)

\* The targets a configuration switches on.
Targets(c) ==
    (IF c.local THEN {"create"} ELSE {})
    \cup (IF c.local /\ c.remote THEN {"upload"} ELSE {})
    \cup (IF c.local /\ c.publish THEN {"publish"} ELSE {})
=============================================================================
