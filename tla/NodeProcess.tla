---------------------------- MODULE NodeProcess ----------------------------
(***************************************************************************)
(* main.cpp: the life of a node process over one base directory.           *)
(*                                                                         *)
(* A process is a node or one of the maintenance commands.  A step is one  *)
(* durable change or one service started or stopped, so that the process   *)
(* can end between any two; what is on disk is then all the next process   *)
(* has.  The operator runs commands on a stopped node only.                *)
(***************************************************************************)
EXTENDS BaseDirectory, BackupPlan, Sequences

CONSTANTS
    ConfigProducer,  \* features.block_producer in the configuration file
    Configs,         \* the backup configurations a dry run is asked about
    MaxEvents        \* bound on commands, signals, failed calls and crashes

ASSUME ProcessAssumption ==
    ConfigProducer \in BOOLEAN /\ Configs \subseteq Config /\ MaxEvents \in Nat

VARIABLES
    disk,    \* the base directory
    proc,    \* the process
    hist,    \* history: released, torn, indexed, and stamp, the time of the last migration
    events   \* how often what is bounded has happened

vars == <<disk, proc, hist, events>>

Service == {"block_store", "chain", "block_producer", "p2p", "jsonrpc", "backup_admin"}
Modes == {"run", "migrate", "rollback", "activate", "restore", "stage", "plan"}

NoConfig == [Complete EXCEPT !.enabled = FALSE]
Off == [pc |-> "off", mode |-> "run", enable |-> FALSE, disable |-> FALSE, then |-> "exit",
        open |-> FALSE, started |-> {}, todo |-> <<>>, path |-> NoPath, renamed |-> FALSE,
        requested |-> FALSE, session |-> FALSE, conf |-> NoConfig, clean |-> FALSE,
        refused |-> {}]

\* A node of today with a snapshot, or one of an older release whose chain state
\* has not been moved and that has been given a snapshot.
Init ==
    /\ \E legacy \in {NoChain, 1} :
        LET own == [CreatedDb EXCEPT !.blocks = 1, !.chain = IF legacy = 1 THEN 0 ELSE 1,
                                     !.layout = IF legacy = 1 THEN "legacy" ELSE "unified"]
        IN disk = [db |-> own, legacy |-> legacy, aside |-> [p \in Paths |-> NoChain],
                   snap |-> [CreatedDb EXCEPT !.layout = "unified"], staging |-> NoStaging,
                   intent |-> FALSE, marker |-> FALSE, hold |-> FALSE,
                   preDb |-> {}, preChain |-> {}]
    /\ proc = Off
    /\ hist = [released |-> TRUE, torn |-> FALSE, indexed |-> FALSE, stamp |-> 0]
    /\ events = 0

Event == events < MaxEvents /\ events' = events + 1

Goto(pc) == proc' = [proc EXCEPT !.pc = pc]

\* The process returns from main, or its exception reaches the end of main.
Exit == proc' = Off /\ hist' = [hist EXCEPT !.indexed = FALSE]

-----------------------------------------------------------------------------
(* Starting a process *)

Run ==
    /\ proc.pc = "off"
    /\ \E e, d \in BOOLEAN :
        proc' = [Off EXCEPT !.pc = "boot", !.enable = e, !.disable = d]
    /\ UNCHANGED <<disk, hist, events>>

\* Commands that are run before logging starts come to their work at once; those
\* that need the database open it as a node does.
Command(mode) ==
    /\ proc.pc = "off" /\ Event /\ mode \in Modes \ {"run", "plan"}
    /\ proc' = [Off EXCEPT !.mode = mode,
          !.pc = CASE mode \in {"migrate", "rollback"} -> "boot"
                   [] mode = "activate" -> "activate"
                   [] OTHER -> "stage",
          !.then = IF mode \in {"activate", "restore"} THEN "cli" ELSE "exit"]
    /\ UNCHANGED <<disk, hist>>

\* A request found before the database is opened is carried out first.
Boot ==
    /\ proc.pc = "boot"
    /\ proc' = IF HasPending(disk) THEN [proc EXCEPT !.pc = "activate", !.then = "open"]
               ELSE [proc EXCEPT !.pc = "open"]
    /\ UNCHANGED <<disk, hist, events>>

AfterOpen == CASE proc.mode = "run" -> "policy"
               [] proc.mode = "migrate" -> "migrate"
               [] OTHER -> "rollback"

\* RocksDBManager::open
Open ==
    /\ proc.pc = "open"
    /\ LET db == OpenedDb(disk.db) IN
        IF OpenRefused(db) THEN Exit /\ UNCHANGED disk
        ELSE /\ disk' = [disk EXCEPT !.db = InitializeLayout(db, disk.legacy)]
             /\ proc' = [proc EXCEPT !.pc = AfterOpen, !.open = TRUE]
             /\ UNCHANGED hist
    /\ UNCHANGED events

\* Of a directory with missing files RocksDB may notice that.
OpenFails ==
    /\ proc.pc = "open" /\ disk.db # NoDb /\ ~disk.db.whole
    /\ Exit /\ UNCHANGED <<disk, events>>

-----------------------------------------------------------------------------
(* The observer-first policy and the services *)

\* Mutant: the one-shot marker is consumed before the hold is durable.
PolicyMarkerFirst ==
    /\ proc.pc = "policy"
    /\ \/ disk.marker /\ disk' = ConsumeMarker(disk) /\ Goto("hold") /\ UNCHANGED hist
       \/ ~disk.marker /\ Goto("register") /\ UNCHANGED <<disk, hist>>
    /\ UNCHANGED events

Policy ==
    /\ proc.pc = "policy"
    /\ \/ /\ disk.marker
          /\ disk' = WriteHold(disk) /\ Goto("hold") /\ UNCHANGED hist
       \/ /\ ReleasesHold(disk, proc.enable)
          /\ disk' = ReleaseHold(disk) /\ hist' = [hist EXCEPT !.released = TRUE]
          /\ Goto("register")
       \/ /\ ~disk.marker /\ ~ReleasesHold(disk, proc.enable)
          /\ Goto("register") /\ UNCHANGED <<disk, hist>>
    /\ UNCHANGED events

PolicyHeld ==
    /\ proc.pc = "hold"
    /\ disk' = ConsumeMarker(disk) /\ Goto("register")
    /\ UNCHANGED <<hist, events>>

\* load_config, then the policy: --disable has the last word over --enable.
ProducerEnabled == (ConfigProducer \/ proc.enable) /\ ~proc.disable /\ ~disk.hold

ProducerService == IF ProducerEnabled THEN <<"block_producer">> ELSE <<>>

\* "jsonrpc" also stands for gRPC.
PublicServices == <<"p2p", "jsonrpc">>

\* The order of registration is the order of starting.
Registered == <<"block_store", "chain">> \o ProducerService \o PublicServices \o <<"backup_admin">>

Register ==
    /\ proc.pc = "register"
    /\ proc' = [proc EXCEPT !.pc = "gate", !.todo = Registered]
    /\ UNCHANGED <<disk, hist, events>>

Core == {"block_store", "chain"}

\* ServiceRegistry::start of the two core services, then start_all of the others.
StartNext ==
    /\ proc.todo # <<>>
    /\ \/ proc.pc = "gate" /\ Head(proc.todo) \in Core
       \/ proc.pc = "start"
    /\ proc' = [proc EXCEPT !.started = @ \cup {Head(proc.todo)}, !.todo = Tail(@)]
    /\ UNCHANGED <<disk, hist, events>>

Served == ServedChain(disk.db, disk.legacy)

WithServed(d, c) ==
    IF d.db.layout = "unified" THEN [d EXCEPT !.db.chain = c] ELSE [d EXCEPT !.legacy = c]

\* The recovery indexing gate.
Index ==
    /\ proc.pc = "gate" /\ Head(proc.todo) \notin Core
    /\ \E c \in Height :
        /\ c = Served \/ (Served < c /\ c <= disk.db.blocks)
        /\ disk' = WithServed(disk, c)
    /\ hist' = [hist EXCEPT !.indexed = TRUE]
    /\ Goto("start") /\ UNCHANGED events

\* Reverse order of registration.
StopOrder(started) ==
    SelectSeq(<<"backup_admin", "jsonrpc", "p2p", "block_producer", "chain", "block_store">>,
              LAMBDA s : s \in started)

Stopping(then) == [proc EXCEPT !.pc = "stop", !.then = then, !.todo = StopOrder(proc.started)]

\* A service that does not start, or an indexer that does not finish: what has been
\* started is stopped and the process ends.
StartFails ==
    /\ proc.pc \in {"gate", "start"} /\ proc.todo # <<>> /\ Event
    /\ proc' = Stopping("exit") /\ UNCHANGED <<disk, hist>>

Ready ==
    /\ proc.pc = "start" /\ proc.todo = <<>>
    /\ Goto("ready") /\ UNCHANGED <<disk, hist, events>>

-----------------------------------------------------------------------------
(* A running node *)

Working == proc.pc = "ready" /\ proc.open

\* A block is stored; the chain state on disk follows it some way.
Advance ==
    /\ Working /\ disk.db.blocks < MaxHeight
    /\ \E c \in Height :
        /\ Served <= c /\ c <= disk.db.blocks + 1
        /\ disk' = WithServed([disk EXCEPT !.db.blocks = @ + 1], c)
    /\ UNCHANGED <<proc, hist, events>>

\* A backup operation from its start to its end.
Backup ==
    /\ Working /\ disk.db.layout = "unified"
    /\ disk' = [disk EXCEPT !.snap = disk.db]
    /\ UNCHANGED <<proc, hist, events>>

\* The session of the admin server that stages a snapshot.
SessionStages(far) ==
    /\ Working /\ ~proc.session /\ CanStage(disk)
    /\ disk' = StageBegun(disk, far)
    /\ proc' = [proc EXCEPT !.session = TRUE]
    /\ UNCHANGED <<hist, events>>

SessionStaged ==
    /\ proc.session
    /\ disk' = StageDone(disk)
    /\ proc' = [proc EXCEPT !.session = FALSE]
    /\ UNCHANGED <<hist, events>>

\* request_restore_activation; a session may still be answered while the node stops.
RequestActivation ==
    /\ "backup_admin" \in proc.started /\ proc.pc \in {"ready", "stop"}
    /\ CanActivate(disk) /\ ~disk.intent
    /\ disk' = WriteIntent(disk)
    /\ UNCHANGED <<proc, hist, events>>

\* restore_activation_tick, which sets its timer again, and request_runtime_stop
Tick ==
    /\ proc.pc = "ready"
    /\ proc' = IF HasPending(disk) THEN [Stopping("returned") EXCEPT !.requested = TRUE] ELSE proc
    /\ UNCHANGED <<disk, hist, events>>

\* SIGINT or SIGTERM
Signal ==
    /\ proc.pc = "ready" /\ Event
    /\ proc' = Stopping("returned") /\ UNCHANGED <<disk, hist>>

-----------------------------------------------------------------------------
(* Stopping *)

\* BackupAdminServer::stop joins its sessions.
StopNext ==
    /\ proc.pc = "stop" /\ proc.todo # <<>>
    /\ Head(proc.todo) = "backup_admin" => ~proc.session
    /\ proc' = [proc EXCEPT !.started = @ \ {Head(proc.todo)}, !.todo = Tail(@)]
    /\ UNCHANGED <<disk, hist, events>>

\* stop_all goes on when a service throws, which is then still marked as started.
StopFails ==
    /\ proc.pc = "stop" /\ proc.todo # <<>> /\ Event
    /\ Head(proc.todo) # "backup_admin"
    /\ proc' = [proc EXCEPT !.todo = Tail(@)]
    /\ UNCHANGED <<disk, hist>>

StoppedAll ==
    /\ proc.pc = "stop" /\ proc.todo = <<>>
    /\ CASE proc.then = "exit" -> Exit
         [] proc.then = "returned" -> Goto("returned") /\ UNCHANGED hist
         [] proc.then = "close" -> Goto("close") /\ UNCHANGED hist
    /\ UNCHANGED <<disk, events>>

\* main_ioc.run has returned
Returned ==
    /\ proc.pc = "returned"
    /\ IF proc.requested \/ HasPending(disk)
       THEN proc' = Stopping("close") /\ UNCHANGED hist
       ELSE Exit
    /\ UNCHANGED <<disk, events>>

\* Mutant: the database is still open when its directory is moved.
CloseSkipped ==
    /\ proc.pc = "close"
    /\ proc' = [proc EXCEPT !.pc = "activate", !.then = "exit"]
    /\ UNCHANGED <<disk, hist, events>>

Close ==
    /\ proc.pc = "close"
    /\ proc' = [proc EXCEPT !.pc = "activate", !.then = "exit", !.open = FALSE]
    /\ UNCHANGED <<disk, hist, events>>

-----------------------------------------------------------------------------
(* Staging by command, and activation *)

StageCommand(far) ==
    /\ proc.pc = "stage"
    /\ IF CanStage(disk) THEN disk' = StageBegun(disk, far) /\ Goto("staging") /\ UNCHANGED hist
       ELSE Exit /\ UNCHANGED disk
    /\ UNCHANGED events

StageEnds ==
    /\ proc.pc = "staging"
    /\ disk' = StageDone(disk)
    /\ IF proc.mode = "restore" THEN Goto("activate") /\ UNCHANGED hist ELSE Exit
    /\ UNCHANGED events

StageFails ==
    /\ Event /\ disk' = StageAborted(disk)
    /\ \/ proc.session /\ proc' = [proc EXCEPT !.session = FALSE] /\ UNCHANGED hist
       \/ proc.pc = "staging" /\ Exit

Activate ==
    /\ proc.pc = "activate"
    /\ IF CanActivate(disk) THEN Goto("preserve db") /\ UNCHANGED hist ELSE Exit
    /\ UNCHANGED <<disk, events>>

ActivateDb ==
    /\ proc.pc = "preserve db"
    /\ disk' = PreserveDb(disk) /\ Goto("preserve chain")
    /\ UNCHANGED <<hist, events>>

ActivateLegacy ==
    /\ proc.pc = "preserve chain"
    /\ disk' = PreserveLegacy(disk) /\ Goto("move")
    /\ UNCHANGED <<hist, events>>

Moved == hist' = [hist EXCEPT !.released = FALSE]

ActivateMove ==
    /\ proc.pc = "move"
    /\ IF disk.staging.far THEN disk' = CopyStarted(disk) /\ Goto("copy")
       ELSE disk' = MoveRenamed(disk) /\ Goto("mark")
    /\ Moved /\ UNCHANGED events

ActivateCopied ==
    /\ proc.pc = "copy"
    /\ disk' = CopyFinished(disk) /\ Goto("copied")
    /\ UNCHANGED <<hist, events>>

ActivateRemoving ==
    /\ proc.pc = "copied"
    /\ disk' = SourceRemoving(disk) /\ Goto("removing")
    /\ UNCHANGED <<hist, events>>

ActivateRemoved ==
    /\ proc.pc = "removing"
    /\ disk' = SourceRemoved(disk) /\ Goto("mark")
    /\ UNCHANGED <<hist, events>>

\* The runtime files, the manifest and then the marker are written.
ActivateMark ==
    /\ proc.pc = "mark"
    /\ disk' = WriteMarker(disk)
    /\ IF proc.then = "cli" THEN proc' = Off ELSE Goto("intent")
    /\ hist' = [hist EXCEPT !.torn = ~disk.db.whole]
    /\ UNCHANGED events

\* activate_pending_restore_activation_request, when the activation has returned
ActivateEnds ==
    /\ proc.pc = "intent"
    /\ disk' = RemoveIntent(disk)
    /\ IF proc.then = "open" THEN Goto("open") /\ UNCHANGED hist ELSE Exit
    /\ UNCHANGED events

\* Some of the state has been set aside and no request is left that would bring the
\* rest into place, or the source of the copy is itself cut short.
TornByEnd ==
    \/ proc.then = "cli" /\ proc.pc \in {"preserve chain", "move", "copy", "copied", "removing", "mark"}
    \/ proc.pc = "removing"

\* The process dies, or a call throws what only main catches.
Dies ==
    /\ proc.pc # "off" /\ Event
    /\ proc' = Off
    /\ hist' = [hist EXCEPT !.torn = @ \/ TornByEnd, !.indexed = FALSE]
    /\ UNCHANGED disk

-----------------------------------------------------------------------------
(* Moving the chain state *)

Migrate ==
    /\ proc.pc = "migrate"
    /\ IF CanMigrate(disk.db, disk.legacy, disk.aside, hist.stamp)
       THEN \E p \in BackupPaths(hist.stamp) :
            /\ \A q \in BackupPaths(hist.stamp) : p <= q
            /\ disk.aside[p] = NoChain
            /\ disk' = [disk EXCEPT !.db = WriteLayout(@, "migration-in-progress")]
            /\ proc' = [proc EXCEPT !.pc = "m copy", !.path = p]
            /\ hist' = [hist EXCEPT !.stamp = p]
       ELSE Exit /\ UNCHANGED disk
    /\ UNCHANGED events

MigrateCopy ==
    /\ proc.pc = "m copy"
    /\ disk' = [disk EXCEPT !.db = CopyBegun(@)] /\ Goto("m copied")
    /\ UNCHANGED <<hist, events>>

MigrateCopied ==
    /\ proc.pc = "m copied"
    /\ disk' = [disk EXCEPT !.db = Copied(@, disk.legacy)] /\ Goto("m rename")
    /\ UNCHANGED <<hist, events>>

MigrateRename ==
    /\ proc.pc = "m rename" /\ VerifyCopy(disk.db, disk.legacy)
    /\ disk' = [disk EXCEPT !.aside[proc.path] = disk.legacy, !.legacy = NoChain]
    /\ proc' = [proc EXCEPT !.pc = "m unified", !.renamed = TRUE]
    /\ UNCHANGED <<hist, events>>

MigrateUnified ==
    /\ proc.pc = "m unified"
    /\ disk' = [disk EXCEPT !.db = WriteLayout(@, "unified")] /\ Goto("m path")
    /\ UNCHANGED <<hist, events>>

MigratePath ==
    /\ proc.pc = "m path"
    /\ disk' = [disk EXCEPT !.db = WriteBackupPath(@, proc.path)]
    /\ Exit /\ UNCHANGED events

Rollback ==
    /\ proc.pc = "rollback"
    /\ IF CanRollback(disk.db, disk.legacy, disk.aside)
       THEN /\ disk' = [disk EXCEPT !.db = WriteLayout(@, "migration-in-progress")]
            /\ Goto("r rename") /\ UNCHANGED hist
       ELSE Exit /\ UNCHANGED disk
    /\ UNCHANGED events

RollbackRename ==
    /\ proc.pc = "r rename"
    /\ disk' = [disk EXCEPT !.legacy = disk.aside[disk.db.backup],
                            !.aside[disk.db.backup] = NoChain]
    /\ proc' = [proc EXCEPT !.pc = "r legacy", !.renamed = TRUE]
    /\ UNCHANGED <<hist, events>>

RollbackLegacy ==
    /\ proc.pc = "r legacy"
    /\ disk' = [disk EXCEPT !.db = WriteLayout(@, "legacy")]
    /\ Exit /\ UNCHANGED events

\* A call inside the try block throws.
MoveFails ==
    /\ proc.pc \in {"m copy", "m copied", "m rename", "m unified", "m path", "r rename", "r legacy"}
    /\ Event /\ Goto("undo") /\ UNCHANGED <<disk, hist>>

\* Mutant: the layout is put back to what it was before the command.
MoveUndoneBlindly ==
    /\ proc.pc = "undo"
    /\ disk' = [disk EXCEPT !.db = WriteLayout(@,
                    IF proc.mode = "migrate" THEN "unified" ELSE "legacy")]
    /\ Exit /\ UNCHANGED events

MoveUndone ==
    /\ proc.pc = "undo"
    /\ disk' = [disk EXCEPT !.db = WriteLayout(@,
                    IF proc.mode = "migrate" THEN MigrationUndone(proc.renamed)
                    ELSE RollbackUndone(proc.renamed))]
    /\ Exit /\ UNCHANGED events

-----------------------------------------------------------------------------
(* --backup-dry-run, and then the commands the configuration is meant for *)

Plan ==
    /\ proc.pc = "off" /\ events = 0 /\ disk.staging = NoStaging
    /\ \E c \in Configs : proc' = [Off EXCEPT !.mode = "plan", !.pc = "dry run", !.conf = c]
    /\ UNCHANGED <<disk, hist, events>>

DryRun ==
    /\ proc.pc = "dry run"
    /\ proc' = [proc EXCEPT !.pc = "try", !.clean = ~PlanErrors(proc.conf)]
    /\ UNCHANGED <<disk, hist, events>>

TryTargets ==
    /\ proc.pc = "try"
    /\ proc' = [proc EXCEPT !.pc = "tried",
                  !.refused = {t \in Targets(proc.conf) : Refused(proc.conf, t)}]
    /\ UNCHANGED <<disk, hist, events>>

Tried == proc.pc = "tried" /\ Exit /\ UNCHANGED <<disk, events>>

-----------------------------------------------------------------------------

Opening == Boot \/ Open \/ OpenFails \/ Policy \/ PolicyHeld \/ Register \/ StartNext
           \/ Index \/ Ready
Closing == Tick \/ StopNext \/ StoppedAll \/ Returned \/ Close \/ SessionStaged
Activating == StageEnds \/ Activate \/ ActivateDb \/ ActivateLegacy \/ ActivateMove
              \/ ActivateCopied \/ ActivateRemoving \/ ActivateRemoved \/ ActivateMark
              \/ ActivateEnds
Moving == Migrate \/ MigrateCopy \/ MigrateCopied \/ MigrateRename \/ MigrateUnified
          \/ MigratePath \/ Rollback \/ RollbackRename \/ RollbackLegacy \/ MoveUndone
Planning == DryRun \/ TryTargets \/ Tried

Operating == Advance \/ Backup \/ RequestActivation \/ Signal
             \/ \E far \in BOOLEAN : SessionStages(far)
StagingByCommand == \E far \in BOOLEAN : StageCommand(far)
Failing == StageFails \/ StartFails \/ StopFails \/ MoveFails \/ Dies

Next ==
    \/ Run \/ Plan \/ \E mode \in Modes : Command(mode)
    \/ Opening \/ Closing \/ Activating \/ StagingByCommand \/ Moving \/ Planning
    \/ Operating \/ Failing

\* A process goes on with what it has begun; a node that has ended is started again
\* (--restart unless-stopped).
Fairness ==
    /\ WF_vars(Run) /\ WF_vars(Opening) /\ WF_vars(Closing) /\ WF_vars(Activating)
    /\ WF_vars(StagingByCommand) /\ WF_vars(Moving) /\ WF_vars(Planning)

Spec == Init /\ [][Next]_vars /\ Fairness

-----------------------------------------------------------------------------
(* Properties *)

TypeOK ==
    /\ disk \in Disk
    /\ proc.mode \in Modes /\ proc.started \subseteq Service
    /\ proc.path \in Paths \cup {NoPath}
    /\ \A b \in {proc.enable, proc.disable, proc.open, proc.renamed, proc.requested,
                 proc.session, proc.clean} : b \in BOOLEAN
    /\ hist \in [released: BOOLEAN, torn: BOOLEAN, indexed: BOOLEAN, stamp: Nat]
    /\ events \in 0 .. MaxEvents

\* A service has been started and nothing has begun to stop it.
Serving(s) == s \in proc.started /\ proc.pc \in {"gate", "start", "ready"}

\* A running chain service works on a complete chain state that is not ahead of the
\* stored blocks, whatever migration, rollback, restore or crash came before; and no
\* service that talks to the outside runs before the chain has been indexed in this
\* process.  (torn excepts the two interruptions that leave a half activated restore.)
ServesWholeChain ==
    /\ TypeOK
    /\ Serving("chain") => proc.open /\ (hist.torn \/ Served \in 0 .. disk.db.blocks)
    /\ proc.started \ Core # {} => hist.indexed

\* On a restored database no block is produced until the operator has released the
\* hold by a later start with --enable block_producer (apply_restore_startup_policy),
\* also when a process ends between the writes of the restore or of the policy.
ObserverFirst ==
    Serving("block_producer") /\ disk.db.origin = "restored"
        => hist.released \/ hist.torn

\* What a node had is never lost to a restore or a migration: a whole database leaves
\* db/ only when it is closed, and for .pre-restore; chain/blockchain only for
\* .pre-restore or the backup of a migration, and both keep what they have been given
\* until a rollback brings it back.
OldStateKept ==
    [][/\ disk.db # NoDb /\ disk.db.whole
            /\ (disk'.db = NoDb \/ disk'.db.origin # disk.db.origin
                                \/ disk'.db.blocks < disk.db.blocks)
          => ~proc.open /\ disk.db \in disk'.preDb
       /\ disk.legacy # NoChain /\ disk'.legacy = NoChain
          => disk.legacy \in disk'.preChain \cup {disk'.aside[p] : p \in Paths}
       /\ disk.preDb \subseteq disk'.preDb /\ disk.preChain \subseteq disk'.preChain
       /\ \A p \in Paths : disk.aside[p] \in {NoChain, disk'.aside[p], disk'.legacy}
      ]_<<disk, proc>>

\* A recorded request for a restore is carried out in the end, by the node that took
\* it or by the next one: the staged database is in place.
RequestServed == disk.intent ~> (~disk.intent \/ disk.staging.db = NoDb)

\* A configuration the dry run finds no error in is one the commands it switches on
\* do not refuse.
CleanPlanWorks == proc.pc = "tried" /\ proc.clean /\ proc.conf.enabled => proc.refused = {}
=============================================================================
