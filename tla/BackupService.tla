--------------------------- MODULE BackupService ---------------------------
(***************************************************************************)
(* BackupService, its worker thread, BackupScheduler and the sessions of   *)
(* BackupAdminServer over the local, the remote and the public repository. *)
(*                                                                         *)
(* An operation is a list of phases the worker runs in order.  A step of   *)
(* the worker is one change of a repository, so that a broken connection,  *)
(* a failed call, a cancellation or a crash can fall between any two.      *)
(* Sessions list the remote repository and stage a restore beside it:      *)
(* these calls are not operations and nothing excludes them.               *)
(***************************************************************************)
EXTENDS SftpRepository, Sequences

CONSTANTS
    Requests,     \* the operations that are asked for
    Publishing,   \* backup.public-publish.enabled
    MaxAttempts,  \* SftpTransferOptions::max_attempts
    MaxOps,       \* bound on the number of operations
    MaxEvents,    \* bound on failed calls, crashes, listings, stagings, shutdowns
    Held,         \* how many snapshots earlier processes made
    Heights,      \* head heights
    MinProgress   \* backup.schedule.minimum-head-progress

\* An operation to start: a snapshot id of NoId stands for latest.json.
Request ==
    [kind: {"local", "configured", "upload", "delete local", "delete remote",
            "delete both", "fetch", "public fetch"},
     id: Id \cup {NoId}, dry: BOOLEAN]

ASSUME ServiceAssumption ==
    /\ MaxAttempts \in Nat \ {0}
    /\ {MaxOps, MaxEvents, MinProgress} \subseteq Nat /\ Heights \subseteq Nat
    /\ Held \in 0 .. MaxId /\ Requests \subseteq Request

VARIABLES
    local, remote, pub,  \* the repositories
    svc,      \* _running, _worker_active, _worker and what of _status is read
    call,     \* of each caller: where its start_*_async is
    w,        \* the worker's operation
    leaving,  \* threads past their operation, _worker_active not yet cleared
    list,     \* of each thread that lists the remote repository: where it is
    stage,    \* the session that stages a restore
    staged,   \* of each snapshot: the files of its completed staging directory
    sched,    \* the scheduler
    own,      \* history: snapshots stored here whose removal has not begun
    bounds    \* how often what is bounded has happened

repos == <<local, remote, pub>>
sessions == <<list, stage, staged>>
vars == <<repos, svc, call, w, leaving, sessions, sched, own, bounds>>

Caller == {"admin", "scheduler"}
Lister == {"admin", "worker"}
NoRequest == [kind |-> "none", id |-> NoId, dry |-> FALSE]

Idle == [no |-> 0, pc |-> "idle", req |-> NoRequest, rest |-> <<>>, id |-> NoId,
         todo |-> {}, plan |-> {}, n |-> 1, kept |-> NoId, wasLatest |-> FALSE,
         next |-> NoId]
NoCall == [pc |-> "none", req |-> NoRequest, join |-> 0]
NoStage == [pc |-> "idle", id |-> NoId, todo |-> {}, copied |-> {}]
NoList == [pc |-> "idle", todo |-> {}, id |-> NoId, n |-> 1]
NoStaged == {"none"}
NoRun == [pc |-> "wait", stop |-> FALSE, no |-> 0, height |-> 0, last |-> 0]

\* A process that has just started.
Fresh ==
    /\ svc' = [svc EXCEPT !.running = FALSE, !.active = FALSE, !.cancel = FALSE,
                          !.state = "idle", !.handle = 0]
    /\ call' = [c \in Caller |-> NoCall]
    /\ w' = Idle /\ leaving' = {}
    /\ list' = [a \in Lister |-> NoList] /\ stage' = NoStage
    /\ sched' = NoRun

Init ==
    /\ local = HeldRepository(Held) /\ remote = HeldRemote(Held) /\ pub = HeldPublic(Held)
    /\ own = 1 .. Held /\ bounds = [ids |-> Held, made |-> Held, ops |-> 0, events |-> 0]
    /\ svc = [running |-> FALSE, active |-> FALSE, cancel |-> FALSE, state |-> "idle",
              handle |-> 0, no |-> 0]
    /\ call = [c \in Caller |-> NoCall]
    /\ w = Idle /\ leaving = {}
    /\ list = [a \in Lister |-> NoList] /\ stage = NoStage
    /\ staged = [i \in Id |-> NoStaged]
    /\ sched = NoRun

-----------------------------------------------------------------------------
(* Starting, cancelling and finishing an operation *)

\* Files are visited in the order of the inventory.
FirstOf(todo) == IF todo = {} THEN {} ELSE {CHOOSE o \in todo : TRUE}

Alive(n) == n \in leaving \/ (w.no = n /\ w.pc # "idle")

\* The phases of the operations, in the order the worker runs them.
AfterUpload == (IF Publishing THEN <<"publish">> ELSE <<>>) \o <<"retain">>

ConfiguredPhases == <<"snapshot", "upload">> \o AfterUpload

UploadPhases == <<"upload">> \o AfterUpload

\* A real deletion of both takes the remote snapshot first, a dry run the local one.
DeletePhases(req) ==
    CASE req.kind = "delete local"  -> <<"local delete">>
      [] req.kind = "delete remote" -> <<"remote delete">>
      [] req.dry -> <<"local delete", "remote delete">>
      [] OTHER   -> <<"remote delete", "local delete">>

Phases(req) ==
    CASE req.kind = "local"      -> <<"snapshot">>
      [] req.kind = "configured" -> ConfiguredPhases
      [] req.kind = "upload"     -> UploadPhases
      [] req.kind \in {"fetch", "public fetch"} -> <<req.kind>>
      [] OTHER -> DeletePhases(req)

\* What a start call asks of its arguments: a deletion names its snapshot.
Accepted(req) == req.kind \in {"delete local", "delete remote", "delete both"} => req.id # NoId

\* join_finished_worker: take the handle of a thread that has left, then join it.
JoinFinished(c, req) ==
    /\ call[c].pc = "none" /\ Accepted(req) /\ bounds.ops < MaxOps
    /\ req.kind \in {"local", "configured"} => bounds.made < MaxId
    /\ bounds' = [bounds EXCEPT !.ops = @ + 1,
          !.made = IF req.kind \in {"local", "configured"} THEN @ + 1 ELSE @]
    /\ LET take == svc.handle # 0 /\ ~svc.active IN
        /\ call' = [call EXCEPT ![c] = [pc |-> "begin", req |-> req,
                                        join |-> IF take THEN svc.handle ELSE 0]]
        /\ svc' = [svc EXCEPT !.handle = IF take THEN 0 ELSE @]

\* What the start call comes to; the admin session answers and is done.
Returned(c, how) ==
    [call EXCEPT ![c] = [NoCall EXCEPT !.pc = IF c = "admin" THEN "none" ELSE how]]

\* begin_operation, which throws while an operation runs, and _worker_active = true.
Begin(c) ==
    /\ call[c].pc = "begin" /\ (call[c].join = 0 \/ ~Alive(call[c].join))
    /\ IF svc.running
       THEN /\ call' = Returned(c, "thrown")
            /\ UNCHANGED svc
       ELSE /\ svc' = [svc EXCEPT !.running = TRUE, !.active = TRUE, !.cancel = FALSE,
                                  !.state = "running", !.no = @ + 1]
            /\ call' = [call EXCEPT ![c].pc = "assign"]
    /\ UNCHANGED <<repos, w, leaving, sessions, sched, own, bounds>>

\* _worker = std::thread( ... )
Assign(c) ==
    /\ call[c].pc = "assign" /\ svc.handle = 0
    /\ svc' = [svc EXCEPT !.handle = svc.no]
    /\ leaving' = IF w.pc = "exit" THEN leaving \cup {w.no} ELSE leaving
    /\ w' = [Idle EXCEPT !.no = svc.no, !.pc = "phase", !.req = call[c].req,
                         !.rest = Phases(call[c].req), !.id = call[c].req.id]
    /\ call' = Returned(c, "started")
    /\ UNCHANGED <<repos, sessions, sched, own, bounds>>

\* The thread cannot be created: the operation fails and the call throws.
AssignThrows(c) ==
    /\ call[c].pc = "assign" /\ svc.handle = 0 /\ bounds.events < MaxEvents
    /\ svc' = [svc EXCEPT !.running = FALSE, !.active = FALSE, !.state = "failed"]
    /\ call' = Returned(c, "thrown")
    /\ bounds' = [bounds EXCEPT !.events = @ + 1]
    /\ UNCHANGED <<repos, w, leaving, sessions, sched, own>>

\* Assigning to a joinable std::thread ends the process: the previous thread has left
\* its operation but has not cleared _worker_active, so nobody has joined it.
AssignTerminates(c) ==
    /\ call[c].pc = "assign" /\ svc.handle # 0
    /\ Fresh
    /\ UNCHANGED <<repos, staged, own, bounds>>

\* cancel_current_operation
Cancel ==
    /\ svc.running /\ ~svc.cancel
    /\ svc' = [svc EXCEPT !.cancel = TRUE]
    /\ UNCHANGED <<repos, call, w, leaving, sessions, sched, own, bounds>>

-----------------------------------------------------------------------------
(* The worker: the end of a phase, of the operation and of the thread *)

\* Where a cancellation is looked for before the next step.
Checked == {"phase", "store", "put", "rename", "latest put", "latest rm",
            "latest mv", "retain", "retain next", "fetch", "download", "public fetch",
            "public object"}

At(pc) == w.pc = pc /\ ~(pc \in Checked /\ svc.cancel)

EndPhase ==
    w' = [w EXCEPT !.pc = "phase", !.rest = Tail(@), !.plan = {}, !.wasLatest = FALSE,
                   !.next = NoId]

Leave(pc) == w' = [Idle EXCEPT !.no = w.no, !.pc = pc]

Throw == Leave("throw")

Worker(changed) == UNCHANGED <<call, leaving, sched>> /\ UNCHANGED changed

\* throw_if_cancel_requested and throw_if_transfer_cancelled
Cancelled ==
    /\ svc.cancel /\ w.pc \in Checked /\ ~(w.pc = "phase" /\ w.rest = <<>>)
    /\ Throw
    /\ Worker(<<repos, svc, sessions, own, bounds>>)

NextPhase ==
    /\ At("phase") /\ w.rest # <<>>
    /\ w' = [w EXCEPT !.pc = Head(w.rest), !.n = 1]
    /\ Worker(<<repos, svc, sessions, own, bounds>>)

\* finish_operation_success
FinishSuccess ==
    /\ w.pc = "phase" /\ w.rest = <<>>
    /\ svc' = [svc EXCEPT !.running = FALSE, !.cancel = FALSE, !.state = "succeeded"]
    /\ Leave("exit")
    /\ Worker(<<repos, sessions, own, bounds>>)

\* finish_operation_failure, from the catch clauses of execute_*_operation.
FinishFailure ==
    /\ w.pc = "throw"
    /\ svc' = [svc EXCEPT !.running = FALSE, !.state = "failed"]
    /\ Leave("exit")
    /\ Worker(<<repos, sessions, own, bounds>>)

\* The last statement of the thread, of the current worker or of an earlier one.
ClearActive ==
    /\ \/ w.pc = "exit" /\ w' = Idle /\ UNCHANGED leaving
       \/ \E n \in leaving : leaving' = leaving \ {n} /\ UNCHANGED w
    /\ svc' = [svc EXCEPT !.active = FALSE]
    /\ UNCHANGED <<repos, call, sessions, sched, own, bounds>>

-----------------------------------------------------------------------------
(* create_local_snapshot_body: checkpoint, objects, metadata, retention *)

Checkpoint ==
    /\ At("snapshot")
    /\ w' = [w EXCEPT !.pc = "store"]
    /\ Worker(<<repos, svc, sessions, own, bounds>>)

\* store_checkpoint_snapshot: a new id, and its .partial directory.
StoreBegin ==
    LET i == bounds.ids + 1 IN
    /\ At("store") /\ CanStore(local, i)
    /\ local' = [local EXCEPT !.partial = @ \cup {i}]
    /\ w' = [w EXCEPT !.pc = "objects", !.id = i, !.todo = Files[i]]
    /\ bounds' = [bounds EXCEPT !.ids = i]
    /\ Worker(<<remote, pub, svc, sessions, own>>)

\* An object that is already there is reused as it is.
StoreObject(o) ==
    /\ At("objects") /\ o \in FirstOf(w.todo)
    /\ local' = [local EXCEPT !.objs = @ \cup {o}]
    /\ w' = [w EXCEPT !.todo = @ \ {o}]
    /\ Worker(<<remote, pub, svc, sessions, own, bounds>>)

StoreCommit ==
    /\ At("objects") /\ w.todo = {}
    /\ local' = [local EXCEPT !.partial = @ \ {w.id}, !.dir[w.id] = "complete"]
    /\ own' = own \cup {w.id}
    /\ w' = [w EXCEPT !.pc = "store latest"]
    /\ Worker(<<remote, pub, svc, sessions, bounds>>)

StoreLatest ==
    /\ At("store latest")
    /\ local' = [local EXCEPT !.latest = w.id]
    /\ LET old == Exceeding(Completed(local), LocalRetention) IN
       IF old = {} THEN EndPhase
       ELSE w' = [w EXCEPT !.pc = "prune", !.todo = old]
    /\ Worker(<<remote, pub, svc, sessions, own, bounds>>)

\* remove_all of a snapshot directory removes its files one by one: it may stop with
\* COMPLETE still there or with COMPLETE gone first.
Remains(i, failed) == IF failed THEN {"noindex", "nomark"} ELSE {"absent"}

\* prune_local_snapshot_repository: directories first; an error is ignored.
PruneDirectory(i, failed) ==
    /\ At("prune") /\ i \in w.todo /\ (failed => bounds.events < MaxEvents)
    /\ \E left \in Remains(i, failed) : local' = [local EXCEPT !.dir[i] = left]
    /\ own' = own \ {i}
    /\ w' = [w EXCEPT !.todo = @ \ {i}]
    /\ bounds' = [bounds EXCEPT !.events = IF failed THEN @ + 1 ELSE @]
    /\ Worker(<<remote, pub, svc, sessions>>)

\* Mutant: the snapshot that was just stored is not counted.
PruneCollectAll ==
    /\ At("prune") /\ w.todo = {}
    /\ w' = [w EXCEPT !.pc = "prune objects",
                      !.todo = local.objs \ Named(local, Completed(local) \ {w.id})]
    /\ Worker(<<repos, svc, sessions, own, bounds>>)

\* Then every object that no completed snapshot names.
PruneCollect ==
    /\ At("prune") /\ w.todo = {}
    /\ w' = [w EXCEPT !.pc = "prune objects",
                      !.todo = local.objs \ Named(local, Completed(local))]
    /\ Worker(<<repos, svc, sessions, own, bounds>>)

PruneObject ==
    /\ At("prune objects")
    /\ IF w.todo = {} THEN EndPhase /\ UNCHANGED local
       ELSE \E o \in FirstOf(w.todo) :
                /\ local' = [local EXCEPT !.objs = @ \ {o}]
                /\ w' = [w EXCEPT !.todo = @ \ {o}]
    /\ Worker(<<remote, pub, svc, sessions, own, bounds>>)

-----------------------------------------------------------------------------
(* upload_latest_snapshot_with_managed_sftp *)

\* build_sftp_upload_plan: latest.json of this moment, and every object there is.
UploadPlan ==
    /\ At("upload")
    /\ IF local.latest # NoId /\ local.dir[local.latest] = "complete"
       THEN w' = [w EXCEPT !.pc = "put", !.id = local.latest,
                           !.plan = local.objs, !.todo = local.objs]
       ELSE Throw
    /\ Worker(<<repos, svc, sessions, own, bounds>>)

UploadObject(o) ==
    /\ At("put") /\ o \in FirstOf(w.todo)
    /\ remote' = PutObject(remote, o)
    /\ w' = [w EXCEPT !.todo = @ \ {o}]
    /\ Worker(<<local, pub, svc, sessions, own, bounds>>)

UploadMetadata ==
    /\ At("put") /\ w.todo = {}
    /\ remote' = PutPartial(remote, w.id)
    /\ w' = [w EXCEPT !.pc = "rename"]
    /\ Worker(<<local, pub, svc, sessions, own, bounds>>)

\* run_native_sftp_commands_with_retries: the whole list again, from a new connection.
UploadError ==
    IF w.n < MaxAttempts
    THEN w' = [w EXCEPT !.pc = "put", !.todo = w.plan, !.n = @ + 1]
    ELSE Throw

UploadRename ==
    /\ At("rename")
    /\ IF RenameRefused(remote, w.id) THEN UploadError /\ UNCHANGED remote
       ELSE /\ remote' = RenamePartial(remote, w.id)
            /\ w' = [w EXCEPT !.pc = "latest put", !.kept = w.id]
    /\ Worker(<<local, pub, svc, sessions, own, bounds>>)

\* latest.json is sent as it is now, then the one on the server is replaced.
UploadLatest ==
    /\ \/ /\ At("latest put")
          /\ remote' = PutLatest(remote, local.latest) /\ w' = [w EXCEPT !.pc = "latest rm"]
       \/ /\ At("latest rm")
          /\ remote' = RemoveLatest(remote) /\ w' = [w EXCEPT !.pc = "latest mv"]
       \/ /\ At("latest mv")
          /\ remote' = RenameLatest(remote) /\ EndPhase
    /\ Worker(<<local, pub, svc, sessions, own, bounds>>)

-----------------------------------------------------------------------------
(* publish_public_bootstrap_plan_with_sftp: one attempt *)

\* build_public_bootstrap_publish_plan reads latest.json again, and here every object of
\* the snapshot must be in the local repository.
PublishPlan ==
    /\ At("publish")
    /\ IF local.latest # NoId /\ local.dir[local.latest] = "complete"
           /\ Missing(local, local.latest) = {}
       THEN w' = [w EXCEPT !.pc = "publish meta", !.id = local.latest]
       ELSE Throw
    /\ Worker(<<repos, svc, sessions, own, bounds>>)

\* The metadata goes to a directory of a name of its own.
PublishMetadata ==
    /\ At("publish meta")
    /\ w' = [w EXCEPT !.pc = "publish swap"]
    /\ Worker(<<repos, svc, sessions, own, bounds>>)

\* remove_public_snapshot_metadata_if_exists, then the rename, then latest.json.
PublishSwap ==
    /\ \/ /\ At("publish swap")
          /\ pub' = [pub EXCEPT !.dir[w.id] = "absent"]
          /\ w' = [w EXCEPT !.pc = "publish rename"]
       \/ /\ At("publish rename")
          /\ pub' = [pub EXCEPT !.dir[w.id] = "complete"]
          /\ w' = [w EXCEPT !.pc = "publish latest"]
       \/ /\ At("publish latest")
          /\ pub' = [pub EXCEPT !.latest = NoId]
          /\ w' = [w EXCEPT !.pc = "publish mv"]
       \/ /\ At("publish mv")
          /\ pub' = [pub EXCEPT !.latest = w.id]
          /\ w' = [w EXCEPT !.pc = "publish prune"]
    /\ Worker(<<local, remote, svc, sessions, own, bounds>>)

\* prune_public_bootstrap_metadata: metadata only.
PublishPrune ==
    LET old == Exceeding({i \in Id : pub.dir[i] = "complete"}, PublicRetention) IN
    /\ At("publish prune")
    /\ IF old = {} THEN EndPhase /\ UNCHANGED pub
       ELSE pub' = [pub EXCEPT !.dir[Eldest(old)] = "absent"] /\ UNCHANGED w
    /\ Worker(<<local, remote, svc, sessions, own, bounds>>)

-----------------------------------------------------------------------------
(* Retention and deletion *)

\* prune_remote_retention_if_configured lists the remote repository first.
Retain ==
    /\ At("retain")
    /\ \/ /\ RemoteRetention = 0
          /\ EndPhase /\ UNCHANGED list
       \/ /\ RemoteRetention # 0 /\ list["worker"].pc = "idle"
          /\ list' = [list EXCEPT !["worker"].pc = "latest"]
          /\ w' = [w EXCEPT !.pc = "retain listing"]
    /\ Worker(<<repos, svc, stage, staged, own, bounds>>)

RetainListed ==
    /\ w.pc = "retain listing" /\ list["worker"].pc \in {"done", "thrown"}
    /\ list' = [list EXCEPT !["worker"] = NoList]
    /\ IF list["worker"].pc = "done" THEN w' = [w EXCEPT !.pc = "retain next"] ELSE Throw
    /\ Worker(<<repos, svc, stage, staged, own, bounds>>)

\* The snapshots past the retention count, the oldest first.
RetainNext ==
    LET old == Expirable(remote, w.kept) IN
    /\ At("retain next")
    /\ IF old = {} THEN EndPhase
       ELSE w' = [w EXCEPT !.pc = "remote delete", !.id = Eldest(old)]
    /\ Worker(<<repos, svc, sessions, own, bounds>>)

Deleted == IF Head(w.rest) = "retain" THEN w' = [w EXCEPT !.pc = "retain next"] ELSE EndPhase

\* delete_remote_backup_snapshot_with_managed_sftp: what to remove is settled first.
RemoteDelete ==
    /\ At("remote delete")
    /\ CASE w.id \notin Listed(remote) -> Throw
         [] w.req.dry -> Deleted
         [] OTHER ->
            w' = [w EXCEPT !.pc = "remote files", !.todo = Reclaimable(remote, w.id),
                           !.wasLatest = (remote.latest = w.id),
                           !.next = Newest(Listed(remote) \ {w.id})]
    /\ Worker(<<repos, svc, sessions, own, bounds>>)

RemoteRemove ==
    /\ \/ /\ At("remote files")
          /\ remote' = RemoveFiles(remote, w.id) /\ w' = [w EXCEPT !.pc = "remote dir"]
       \/ /\ At("remote dir")
          /\ remote' = RemoveDirectory(remote, w.id) /\ w' = [w EXCEPT !.pc = "remote objects"]
       \/ /\ At("remote objects")
          /\ \E o \in FirstOf(w.todo) :
                remote' = RemoveObject(remote, o) /\ w' = [w EXCEPT !.todo = @ \ {o}]
    /\ Worker(<<local, pub, svc, sessions, own, bounds>>)

\* latest.json follows when it named the snapshot: removed, or replaced in three steps.
RemoteLatest ==
    /\ \/ /\ At("remote objects") /\ w.todo = {}
          /\ IF ~w.wasLatest THEN Deleted /\ UNCHANGED remote
             ELSE IF w.next = NoId THEN Deleted /\ remote' = RemoveLatest(remote)
             ELSE remote' = PutLatest(remote, w.next) /\ w' = [w EXCEPT !.pc = "remote latest rm"]
       \/ /\ At("remote latest rm")
          /\ remote' = RemoveLatest(remote) /\ w' = [w EXCEPT !.pc = "remote latest mv"]
       \/ /\ At("remote latest mv")
          /\ remote' = RenameLatest(remote) /\ Deleted
    /\ Worker(<<local, pub, svc, sessions, own, bounds>>)

\* delete_local_backup_snapshot
LocalDelete(failed) ==
    /\ At("local delete") /\ (failed => bounds.events < MaxEvents)
    /\ IF w.id \notin Completed(local)
       THEN ~failed /\ Throw /\ UNCHANGED <<local, own, bounds>>
       ELSE IF w.req.dry THEN ~failed /\ EndPhase /\ UNCHANGED <<local, own, bounds>>
       ELSE /\ \E left \in Remains(w.id, failed) :
                    local' = [local EXCEPT !.dir[w.id] = left]
            /\ own' = own \ {w.id}
            /\ bounds' = [bounds EXCEPT !.events = IF failed THEN @ + 1 ELSE @]
            /\ IF failed THEN Throw
               ELSE w' = [w EXCEPT !.pc = "local objects",
                        !.todo = Named(local, {w.id}) \ Named(local, Completed(local) \ {w.id}),
                        !.wasLatest = (local.latest = w.id),
                        !.next = Newest(Completed(local) \ {w.id})]
    /\ Worker(<<remote, pub, svc, sessions>>)

LocalRemove ==
    /\ At("local objects")
    /\ IF w.todo = {}
       THEN /\ local' = [local EXCEPT !.latest = IF w.wasLatest THEN w.next ELSE @]
            /\ EndPhase
       ELSE \E o \in FirstOf(w.todo) :
                /\ local' = [local EXCEPT !.objs = @ \ {o}]
                /\ w' = [w EXCEPT !.todo = @ \ {o}]
    /\ Worker(<<remote, pub, svc, sessions, own, bounds>>)

-----------------------------------------------------------------------------
(* Fetching a snapshot for a restore *)

\* cache_downloaded_snapshot_metadata makes the directory under a .partial name.
CacheBegin(i) == [local EXCEPT !.partial = IF local.dir[i] = "absent" THEN @ \cup {i} ELSE @]

CacheEnd(i) ==
    IF i \in local.partial
    THEN [local EXCEPT !.partial = @ \ {i}, !.dir[i] = "complete"] ELSE local

\* fetch_remote_metadata: latest.json if asked for it, then the snapshot's files.
FetchMetadata ==
    LET i == IF w.req.id = NoId THEN remote.latest ELSE w.req.id IN
    /\ At("fetch")
    /\ IF i = NoId \/ i \notin Listed(remote) \/ CacheRefuses(local, i)
       THEN Throw /\ UNCHANGED local
       ELSE /\ local' = CacheBegin(i)
            /\ w' = [w EXCEPT !.pc = "fetch cache", !.id = i]
    /\ Worker(<<remote, pub, svc, sessions, own, bounds>>)

\* The rename and, when latest was asked for, the replacement of latest.json.
FetchCached ==
    /\ w.pc = "fetch cache"
    /\ local' = [CacheEnd(w.id) EXCEPT !.latest = IF w.req.id = NoId THEN w.id ELSE @]
    /\ w' = [w EXCEPT !.pc = "preflight"]
    /\ Worker(<<remote, pub, svc, sessions, own, bounds>>)

\* The preflight reads latest.json again.  Without the space for a restore nothing
\* is downloaded, and the operation succeeds all the same.
FetchPreflight(space) ==
    LET i == Selected(local, w.req.id) IN
    /\ w.pc = "preflight"
    /\ IF i = NoId \/ local.dir[i] # "complete" THEN Throw
       ELSE IF ~space THEN EndPhase
       ELSE w' = [w EXCEPT !.pc = IF w.req.kind = "fetch" THEN "download" ELSE "public object",
                           !.id = i, !.todo = Missing(local, i)]
    /\ Worker(<<repos, svc, sessions, own, bounds>>)

\* fetch_sftp_restore_objects_with_progress: all objects to .partial files, with retries.
FetchDownload ==
    /\ At("download")
    /\ IF \E o \in w.todo : remote.objs[o] = "none" THEN Throw
       ELSE w' = [w EXCEPT !.pc = "verify"]
    /\ Worker(<<repos, svc, sessions, own, bounds>>)

\* Size and hash are checked before an object gets its name.
FetchVerify(o) ==
    /\ w.pc = "verify" /\ o \in FirstOf(w.todo)
    /\ IF remote.objs[o] # "full" THEN Throw /\ UNCHANGED local
       ELSE /\ local' = [local EXCEPT !.objs = @ \cup {o}]
            /\ w' = [w EXCEPT !.todo = @ \ {o}]
    /\ Worker(<<remote, pub, svc, sessions, own, bounds>>)

FetchDone ==
    /\ w.pc \in {"verify", "public object"} /\ w.todo = {}
    /\ LET i == Selected(local, w.req.id) IN
       IF i = NoId \/ local.dir[i] # "complete" THEN Throw ELSE EndPhase
    /\ Worker(<<repos, svc, sessions, own, bounds>>)

\* fetch_public_metadata: latest.json is replaced when asked for, or written when missing.
PublicMetadata ==
    LET i == IF w.req.id = NoId THEN pub.latest ELSE w.req.id IN
    /\ At("public fetch")
    /\ IF i = NoId \/ pub.dir[i] # "complete" THEN Throw
       ELSE w' = [w EXCEPT !.pc = "public verify", !.id = i]
    /\ Worker(<<repos, svc, sessions, own, bounds>>)

\* verify_public_bootstrap_signature comes before anything is kept.
PublicVerified ==
    /\ w.pc = "public verify"
    /\ IF CacheRefuses(local, w.id) THEN Throw /\ UNCHANGED local
       ELSE local' = CacheBegin(w.id) /\ w' = [w EXCEPT !.pc = "public cache"]
    /\ Worker(<<remote, pub, svc, sessions, own, bounds>>)

PublicCached ==
    /\ w.pc = "public cache"
    /\ local' = [CacheEnd(w.id) EXCEPT
                    !.latest = IF w.req.id = NoId \/ @ = NoId THEN w.id ELSE @]
    /\ w' = [w EXCEPT !.pc = "preflight"]
    /\ Worker(<<remote, pub, svc, sessions, own, bounds>>)

\* fetch_missing_objects: one object after the other, each verified.
PublicObject(o) ==
    /\ At("public object") /\ o \in FirstOf(w.todo)
    /\ IF remote.objs[o] # "full" THEN Throw /\ UNCHANGED local
       ELSE /\ local' = [local EXCEPT !.objs = @ \cup {o}]
            /\ w' = [w EXCEPT !.todo = @ \ {o}]
    /\ Worker(<<remote, pub, svc, sessions, own, bounds>>)

-----------------------------------------------------------------------------
(* What can fail *)

StorePcs == {"objects", "store latest"}
UploadPcs == {"put", "rename", "latest put", "latest rm", "latest mv"}
PublishPcs == {"publish meta", "publish swap", "publish rename", "publish latest",
               "publish mv", "publish prune"}
DeletePcs == {"remote files", "remote dir", "remote objects", "remote latest rm",
              "remote latest mv", "local objects"}
FetchPcs == {"fetch cache", "verify", "public cache"}
ConnectPcs == {"publish", "remote delete", "fetch", "download"}
PublicPcs == {"public fetch", "public object"}

Failure(pcs) ==
    /\ bounds.events < MaxEvents /\ w.pc \in pcs
    /\ bounds' = [bounds EXCEPT !.events = @ + 1]
    /\ Worker(<<svc, sessions, own>>)

\* No checkpoint, no room or no permission: the .partial directory is removed.
StoreFails ==
    /\ Failure({"snapshot", "store"} \cup StorePcs)
    /\ local' = [local EXCEPT !.partial = @ \ {w.id}]
    /\ Throw /\ UNCHANGED <<remote, pub>>

\* Mutant: the attempts are not counted.
UploadFailsForever ==
    /\ w.pc \in UploadPcs
    /\ w' = [w EXCEPT !.pc = "put", !.todo = w.plan]
    /\ Worker(<<repos, svc, sessions, own, bounds>>)

\* An upload starts over, having perhaps cut an object short.
UploadFails ==
    /\ Failure(UploadPcs)
    /\ UploadError
    /\ \/ UNCHANGED remote
       \/ w.pc = "put" /\ \E o \in FirstOf(w.todo) : remote' = CutObject(remote, o)
    /\ UNCHANGED <<local, pub>>

\* The server, its key or the user's key is not accepted.
ConnectFails == Failure(ConnectPcs) /\ Throw /\ UNCHANGED repos

\* A published snapshot's metadata may lose some of its files.
PublishFails ==
    /\ Failure(PublishPcs)
    /\ Throw
    /\ \/ UNCHANGED pub
       \/ /\ w.pc = "publish swap" /\ pub.dir[w.id] = "complete"
          /\ pub' = [pub EXCEPT !.dir[w.id] = "broken"]
    /\ UNCHANGED <<local, remote>>

TransferFails == Failure(DeletePcs \cup FetchPcs) /\ Throw /\ UNCHANGED repos

\* PublicBackupClient: no connection, no certificate, no answer, or not the file.
DownloadFails == Failure(PublicPcs) /\ Throw /\ UNCHANGED repos

SignatureFails == Failure({"public verify"}) /\ Throw /\ UNCHANGED repos

\* The process dies.  Files stay as they are.
Crash ==
    /\ bounds.events < MaxEvents
    /\ bounds' = [bounds EXCEPT !.events = @ + 1]
    /\ Fresh
    /\ UNCHANGED <<repos, staged, own>>

-----------------------------------------------------------------------------
(* Sessions of the admin server that list repositories or stage a restore *)

ListStart(pc) ==
    /\ list["admin"].pc = "idle" /\ bounds.events < MaxEvents
    /\ list' = [list EXCEPT !["admin"].pc = pc]
    /\ bounds' = [bounds EXCEPT !.events = @ + 1]
    /\ UNCHANGED <<repos, svc, call, w, leaving, stage, staged, sched, own>>

\* list_remote_backup_snapshots_with_managed_sftp tries again.
ListError(a) ==
    list' = [list EXCEPT ![a] =
                IF @.n < MaxAttempts THEN [NoList EXCEPT !.pc = "latest", !.n = list[a].n + 1]
                ELSE [NoList EXCEPT !.pc = IF a = "worker" THEN "thrown" ELSE "idle"]]

ListUnchanged == UNCHANGED <<remote, pub, svc, call, w, leaving, stage, staged, sched, own>>

\* list_remote_backup_snapshots_once: the remote latest.json replaces the local one.
ListLatest(a) ==
    /\ list[a].pc = "latest"
    /\ local' = [local EXCEPT !.latest = IF remote.latest = NoId THEN @ ELSE remote.latest]
    /\ list' = [list EXCEPT ![a].pc = "entries",
                            ![a].todo = {i \in Id : remote.dir[i] # "absent"}]
    /\ ListUnchanged /\ UNCHANGED bounds

\* The metadata of every completed snapshot is kept in the local repository.
ListEntry(a) ==
    /\ list[a].pc = "entries" /\ list[a].todo # {}
    /\ LET i == Eldest(list[a].todo) IN
        IF i \notin Listed(remote)
        THEN list' = [list EXCEPT ![a].todo = @ \ {i}] /\ UNCHANGED local
        ELSE IF CacheRefuses(local, i) THEN ListError(a) /\ UNCHANGED local
        ELSE /\ local' = CacheBegin(i)
             /\ list' = [list EXCEPT ![a].pc = "cache", ![a].id = i, ![a].todo = @ \ {i}]
    /\ ListUnchanged /\ UNCHANGED bounds

ListCached(a) ==
    /\ list[a].pc = "cache"
    /\ local' = CacheEnd(list[a].id)
    /\ list' = [list EXCEPT ![a].pc = "entries"]
    /\ ListUnchanged /\ UNCHANGED bounds

\* The answer summarises the local directories, and throws at one without manifests.
ListDone(a) ==
    /\ list[a].pc = "entries" /\ list[a].todo = {}
    /\ IF \E i \in Id : local.dir[i] = "noindex" THEN ListError(a)
       ELSE list' = [list EXCEPT ![a] =
                        [NoList EXCEPT !.pc = IF a = "worker" THEN "done" ELSE "idle"]]
    /\ ListUnchanged /\ UNCHANGED <<local, bounds>>

\* A listing of the worker is cancelled with its operation; any may lose its connection.
ListBroken(a) ==
    /\ list[a].pc \in {"latest", "entries"}
    /\ \/ /\ a = "worker" /\ svc.cancel
          /\ list' = [list EXCEPT ![a].pc = "thrown"] /\ UNCHANGED bounds
       \/ /\ bounds.events < MaxEvents
          /\ bounds' = [bounds EXCEPT !.events = @ + 1] /\ ListError(a)
    /\ ListUnchanged /\ UNCHANGED local

\* list_public_backup_snapshots and the public preflight.
ListPublic ==
    /\ \/ /\ list["admin"].pc = "public"
          /\ IF pub.latest = NoId \/ pub.dir[pub.latest] # "complete"
                \/ CacheRefuses(local, pub.latest)
             THEN list' = [list EXCEPT !["admin"] = NoList] /\ UNCHANGED local
             ELSE /\ local' = CacheBegin(pub.latest)
                  /\ list' = [list EXCEPT !["admin"].pc = "public cache",
                                          !["admin"].id = pub.latest]
       \/ /\ list["admin"].pc = "public cache"
          /\ local' = [CacheEnd(list["admin"].id) EXCEPT !.latest = list["admin"].id]
          /\ list' = [list EXCEPT !["admin"] = NoList]
    /\ ListUnchanged /\ UNCHANGED bounds

\* stage_restore_snapshot looks for a running operation once, at the beginning.
StageBegin(id) ==
    LET i == Selected(local, id) IN
    /\ stage.pc = "idle" /\ bounds.events < MaxEvents /\ ~svc.running
    /\ i # NoId /\ Preflight(local, i, TRUE) /\ staged[i] = NoStaged
    /\ stage' = [pc |-> "copy", id |-> i, todo |-> Files[i], copied |-> {}]
    /\ staged' = [staged EXCEPT ![i] = {"partial"}]
    /\ bounds' = [bounds EXCEPT !.events = @ + 1]
    /\ UNCHANGED <<repos, svc, call, w, leaving, list, sched, own>>

\* Mutant: a file whose object has gone is left out.
StageCopyLenient(o) ==
    /\ stage.pc = "copy" /\ o \in FirstOf(stage.todo)
    /\ stage' = [stage EXCEPT !.todo = @ \ {o}, !.copied = @ \cup ({o} \cap local.objs)]
    /\ UNCHANGED <<repos, svc, call, w, leaving, list, staged, sched, own, bounds>>

\* stage_local_restore_snapshot: each file is copied and verified; one that is missing
\* ends the staging, unless it is config.yml.
StageCopy(o) ==
    /\ stage.pc = "copy" /\ o \in FirstOf(stage.todo)
    /\ IF o \in local.objs \/ o = ConfigObj
       THEN /\ stage' = [stage EXCEPT !.todo = @ \ {o}, !.copied = @ \cup ({o} \cap local.objs)]
            /\ UNCHANGED staged
       ELSE /\ stage' = NoStage
            /\ staged' = [staged EXCEPT ![stage.id] = NoStaged]
    /\ UNCHANGED <<repos, svc, call, w, leaving, list, sched, own, bounds>>

StageFinish ==
    /\ stage.pc = "copy" /\ stage.todo = {}
    /\ staged' = [staged EXCEPT ![stage.id] = stage.copied]
    /\ stage' = NoStage
    /\ UNCHANGED <<repos, svc, call, w, leaving, list, sched, own, bounds>>

-----------------------------------------------------------------------------
(* BackupScheduler *)

Scheduled == [kind |-> "configured", id |-> NoId, dry |-> FALSE]

\* should_run_at_height
ShouldRun(h) == h # 0 /\ (MinProgress = 0 \/ h >= sched.last + MinProgress)

\* run_once up to its call of start_configured_backup_async.
RunOnce(h) ==
    /\ sched.pc = "wait" /\ ~sched.stop
    /\ svc.state # "running" /\ h >= sched.height /\ ShouldRun(h)
    /\ JoinFinished("scheduler", Scheduled)
    /\ sched' = [sched EXCEPT !.pc = "starting", !.height = h]
    /\ UNCHANGED <<repos, w, leaving, sessions, own>>

\* The call has thrown, or wait_for_current_operation takes the worker's handle.
RunStarted ==
    /\ sched.pc = "starting" /\ call["scheduler"].pc \in {"started", "thrown"}
    /\ call' = [call EXCEPT !["scheduler"].pc = "none"]
    /\ IF call["scheduler"].pc = "thrown"
       THEN sched' = [sched EXCEPT !.pc = "wait"] /\ UNCHANGED svc
       ELSE /\ sched' = [sched EXCEPT !.pc = "waiting", !.no = svc.handle]
            /\ svc' = [svc EXCEPT !.handle = 0]
    /\ UNCHANGED <<repos, w, leaving, sessions, own, bounds>>

\* The thread is joined; the status read is the one of this moment.
RunFinished ==
    /\ sched.pc = "waiting" /\ ~Alive(sched.no)
    /\ sched' = [sched EXCEPT !.pc = "wait",
                              !.last = IF svc.state = "succeeded" THEN sched.height ELSE @]
    /\ UNCHANGED <<repos, svc, call, w, leaving, sessions, own, bounds>>

\* stop: the flag and the cancellation; then the thread is joined.
SchedulerStop ==
    /\ sched.pc # "off" /\ ~sched.stop /\ bounds.events < MaxEvents
    /\ sched' = [sched EXCEPT !.stop = TRUE]
    /\ svc' = [svc EXCEPT !.cancel = @ \/ svc.running]
    /\ bounds' = [bounds EXCEPT !.events = @ + 1]
    /\ UNCHANGED <<repos, call, w, leaving, sessions, own>>

\* run_loop: wait_for_stop_or_timeout returns true.
RunLoopEnds ==
    /\ sched.pc = "wait" /\ sched.stop
    /\ sched' = [sched EXCEPT !.pc = "off"]
    /\ UNCHANGED <<repos, svc, call, w, leaving, sessions, own, bounds>>

-----------------------------------------------------------------------------

AdminStart ==
    \E req \in Requests :
        JoinFinished("admin", req) /\ UNCHANGED <<repos, w, leaving, sessions, sched, own>>

CallStep(c) == Begin(c) \/ Assign(c)

SnapshotStep ==
    \/ Checkpoint \/ StoreBegin \/ StoreCommit \/ StoreLatest \/ PruneCollect \/ PruneObject
    \/ \E o \in Obj : StoreObject(o)
    \/ \E i \in Id : PruneDirectory(i, FALSE)

UploadStep ==
    \/ UploadPlan \/ UploadMetadata \/ UploadRename \/ UploadLatest
    \/ \E o \in Obj : UploadObject(o)
    \/ PublishPlan \/ PublishMetadata \/ PublishSwap \/ PublishPrune

DeleteStep ==
    \/ Retain \/ RetainListed \/ RetainNext \/ RemoteDelete \/ RemoteRemove \/ RemoteLatest
    \/ LocalDelete(FALSE) \/ LocalRemove

FetchStep ==
    \/ FetchMetadata \/ FetchCached \/ (\E space \in BOOLEAN : FetchPreflight(space))
    \/ FetchDownload \/ FetchDone \/ PublicMetadata \/ PublicVerified \/ PublicCached
    \/ \E o \in Obj : FetchVerify(o) \/ PublicObject(o)

WorkerStep ==
    \/ NextPhase \/ Cancelled \/ FinishSuccess \/ FinishFailure
    \/ SnapshotStep \/ UploadStep \/ DeleteStep \/ FetchStep

ListStep(a) == ListLatest(a) \/ ListEntry(a) \/ ListCached(a) \/ ListDone(a)

StageStep == StageFinish \/ \E o \in Obj : StageCopy(o)

SchedulerStep == RunStarted \/ RunFinished \/ RunLoopEnds

Faults ==
    \/ StoreFails \/ UploadFails \/ PublishFails \/ ConnectFails \/ TransferFails
    \/ DownloadFails \/ SignatureFails \/ Crash
    \/ (\E c \in Caller : AssignThrows(c)) \/ (\E a \in Lister : ListBroken(a))
    \/ LocalDelete(TRUE) \/ \E i \in Id : PruneDirectory(i, TRUE)

Next ==
    \/ AdminStart \/ Cancel \/ ClearActive \/ WorkerStep \/ StageStep \/ Faults
    \/ ListPublic \/ ListStart("latest") \/ ListStart("public")
    \/ \E c \in Caller : CallStep(c) \/ AssignTerminates(c)
    \/ \E a \in Lister : ListStep(a)
    \/ \E i \in Id \cup {NoId} : StageBegin(i)
    \/ SchedulerStop \/ SchedulerStep \/ \E h \in Heights : RunOnce(h)

\* Every thread runs on: the worker with its listing, a thread past its operation, the
\* scheduler's loop and an admin session inside a start call.  Nobody has to ask for
\* anything, and nothing has to fail.
Fairness ==
    /\ WF_vars(WorkerStep \/ ListStep("worker")) /\ WF_vars(ClearActive)
    /\ WF_vars(SchedulerStep \/ CallStep("scheduler") \/ AssignTerminates("scheduler"))
    /\ WF_vars(CallStep("admin") \/ AssignTerminates("admin"))

Spec == Init /\ [][Next]_vars /\ Fairness

-----------------------------------------------------------------------------

TypeOK ==
    /\ local \in Repositories /\ remote \in Remotes /\ pub \in Publics
    /\ svc \in [running: BOOLEAN, active: BOOLEAN, cancel: BOOLEAN, handle: 0 .. MaxOps,
                state: {"idle", "running", "succeeded", "failed"}, no: 0 .. MaxOps]
    /\ w.id \in Id \cup {NoId} /\ w.n \in 1 .. MaxAttempts /\ own \subseteq Id
    /\ staged \in [Id -> SUBSET (Obj \cup {"none", "partial"})]
    /\ svc.running <=> svc.state = "running"

\* A snapshot stored by store_checkpoint_snapshot has all its objects until its own
\* removal begins, whatever is deleted, pruned, fetched, listed or interrupted.
OwnSnapshotsWhole == TypeOK /\ \A i \in own : Missing(local, i) = {}

\* A completed staging directory holds every file of its snapshot, except perhaps
\* config.yml, although a deletion may run beside stage_local_restore_snapshot.
StagedIsWhole ==
    \A i \in Id : staged[i] \notin {NoStaged, {"partial"}} =>
        Files[i] \ {ConfigObj} \subseteq staged[i]

\* As long as a remote snapshot is listed no step takes one of its objects away or cuts
\* it short: neither retention nor a deletion nor the retry of an upload.
RemoteKeepsObjects ==
    [][\A i \in Listed(remote) \cap Listed(remote') : \A o \in Files[i] :
            remote.objs[o] = "full" => remote'.objs[o] = "full"]_vars

\* When a remote snapshot becomes complete, every object of it that the upload plan
\* read from the local repository is there in full length.
UploadedIsWhole ==
    [][\A i \in Listed(remote') \ Listed(remote) : \A o \in Files[i] \cap w.plan :
            remote'.objs[o] = "full"]_vars

\* Every operation comes to its end, cancelled, failed or not, and stopping the
\* scheduler returns (or the process has ended and started again): a moment comes when
\* nothing runs and a scheduler that was stopped is off.
OperationsFinish ==
    []<>(~svc.running /\ (sched.stop => sched.pc = "off"))
=============================================================================
