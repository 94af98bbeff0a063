------------------------- MODULE NodeProcessProofs -------------------------
(***************************************************************************)
(* The safety properties of NodeProcess for chains of any height, any      *)
(* number of migrations, every configuration and any number of commands,   *)
(* failures and crashes.                                                   *)
(*                                                                         *)
(* The inductive invariant says what the base directory is worth at every  *)
(* step a process can be at, and therefore what the next process finds if  *)
(* this one ends there.                                                    *)
(***************************************************************************)
EXTENDS NodeProcess, TLAPS

Fields == {"pc", "mode", "enable", "disable", "then", "open", "started", "todo", "path",
           "renamed", "requested", "session", "conf", "clean", "refused"}

\* The steps at which a process has the database open.
MigrateSteps == {"m copy", "m copied", "m rename", "m unified", "m path"}
RollbackSteps == {"r rename", "r legacy"}
OpenSteps == {"policy", "hold", "register", "gate", "start", "ready", "stop", "returned",
              "close", "migrate", "rollback", "undo"} \cup MigrateSteps \cup RollbackSteps

\* The steps of an activation that need the staged snapshot, and those at which what it
\* brings is in db/.
Taking == {"preserve db", "preserve chain", "move", "copy", "copied", "removing"}
Brought == {"copy", "copied", "removing", "mark"}

\* A chain state that is complete and not ahead of the blocks of db.
Fits(c, db) == c \in 0 .. db.blocks

\* If the legacy database that db's migration set aside is still there, it fits db.
Covers(db, aside, stamp) ==
    /\ db.backup <= stamp
    /\ db.backup # NoPath /\ aside[db.backup] # NoChain => Fits(aside[db.backup], db)

BackupFits(db) == Covers(db, disk.aside, hist.stamp)

\* A database that can be put in place of any other.
Restorable(db) == db.layout = "unified" /\ Fits(db.chain, db) /\ BackupFits(db)

\* The layout that the catch blocks would write now.
Undone == IF proc.mode = "migrate" THEN MigrationUndone(proc.renamed)
          ELSE RollbackUndone(proc.renamed)

\* What the base directory is worth whatever process runs on it.
DiskInv ==
    /\ disk \in Disk
    /\ hist \in [released: BOOLEAN, torn: BOOLEAN, indexed: BOOLEAN, stamp: Nat]
    /\ events \in 0 .. MaxEvents
    /\ disk.staging.st = "partial" => disk.staging.db # NoDb
    /\ disk.staging.st # "complete" =>
         ~hist.torn /\ ~disk.intent /\ disk.db # NoDb /\ (disk.snap # NoDb => Restorable(disk.snap))
    /\ disk.staging.st # "none" /\ disk.staging.db # NoDb => Restorable(disk.staging.db)
    /\ disk.db # NoDb => disk.db.layout # ""
    /\ disk.db # NoDb /\ ~hist.torn =>
         /\ disk.db.layout # "migration-in-progress" => Fits(ServedChain(disk.db, disk.legacy), disk.db)
         /\ BackupFits(disk.db)
    /\ \A p \in BackupPaths(hist.stamp) : disk.aside[p] = NoChain

ProcInv ==
    /\ Fields \subseteq DOMAIN proc /\ proc.conf \in Config
    /\ proc.mode \in Modes /\ proc.started \subseteq Service /\ proc.path \in Paths \cup {NoPath}
    /\ proc.enable \in BOOLEAN /\ proc.disable \in BOOLEAN /\ proc.open \in BOOLEAN
    /\ proc.renamed \in BOOLEAN /\ proc.requested \in BOOLEAN /\ proc.session \in BOOLEAN
    /\ proc.clean \in BOOLEAN
    /\ proc.open <=> proc.pc \in OpenSteps
    /\ proc.pc \in MigrateSteps \cup {"migrate"} => proc.mode = "migrate"
    /\ proc.pc \in RollbackSteps \cup {"rollback"} => proc.mode # "migrate"
    /\ proc.pc \in {"stage", "staging"} /\ proc.mode = "restore" => proc.then = "cli"
    /\ proc.renamed => proc.pc \in {"m unified", "m path", "r legacy", "undo"}
    /\ proc.pc \in {"m unified", "m path", "r legacy"} => proc.renamed

ServiceInv ==
    /\ proc.pc \in {"boot", "open", "policy", "hold", "register"} => proc.started = {}
    /\ proc.then = "open" /\ proc.pc \in {"activate", "mark", "intent"} \cup Taking
         => proc.started = {}
    /\ proc.started \ Core # {} => hist.indexed
    /\ proc.pc \in {"start", "ready"} => hist.indexed
    /\ proc.pc = "hold" => disk.hold
    /\ proc.pc \in {"register", "gate", "start", "ready"} => ~disk.marker
    /\ proc.pc \in {"gate", "start"} =>
         proc.todo \in Seq(Service \ (IF disk.hold THEN {"block_producer"} ELSE {}))
    /\ proc.pc \in {"gate", "start", "ready"} /\ disk.hold => "block_producer" \notin proc.started

\* A request is there from when it is acted on until it has been carried out.
RequestInv ==
    /\ proc.pc = "stop" => proc.then \in {"exit", "returned", "close"}
    /\ proc.pc = "close" \/ (proc.pc = "stop" /\ proc.then = "close") => disk.intent
    /\ proc.requested =>
         /\ disk.intent /\ proc.then # "open"
         /\ proc.pc \in {"stop", "returned", "close", "activate", "mark", "intent"} \cup Taking
    /\ proc.pc \in {"activate", "mark", "intent"} \cup Taking => proc.then = "cli" \/ disk.intent

\* A staged snapshot stays until it is activated, and there is no second one.
StageInv ==
    /\ proc.session => /\ disk.staging.st = "partial"
                       /\ proc.pc \in {"ready", "stop", "returned", "close", "activate"}
    /\ proc.pc = "staging" => disk.staging.st = "partial"
    /\ proc.pc \in Taking => CanActivate(disk)
    /\ proc.pc \in {"mark", "intent"} => disk.staging.st = "complete"

\* Where the database is, and the chain state it serves.
DbInv ==
    /\ proc.open \/ proc.pc \in Brought \cup {"intent"} => disk.db # NoDb
    /\ proc.pc \in {"preserve chain", "move"} => disk.db = NoDb
    /\ proc.pc \in {"policy", "hold", "register", "gate", "start", "ready", "migrate",
                    "rollback"} => disk.db.layout \in {"legacy", "unified"}
    /\ proc.pc = "copy" => ~disk.db.whole
    /\ proc.pc \in Brought => Restorable(disk.db)
    /\ disk.db = NoDb /\ ~hist.torn =>
         /\ proc.pc # "open"
         /\ disk.intent \/ (proc.then = "cli" /\ proc.pc \in {"preserve chain", "move"})

\* Moving the chain state: whatever throws, the layout that is written back names a
\* chain state that fits.
MoveInv ==
    /\ proc.pc \in MigrateSteps => proc.path = hist.stamp /\ proc.path \in Paths
    /\ proc.pc \in {"m copy", "m copied", "m rename"} =>
         /\ disk.aside[proc.path] = NoChain /\ disk.legacy # NoChain
         /\ ~hist.torn => disk.db.backup # proc.path
         /\ disk.staging.st # "complete" /\ disk.snap # NoDb => disk.snap.backup # proc.path
         /\ disk.staging.st # "none" /\ disk.staging.db # NoDb => disk.staging.db.backup # proc.path
    /\ proc.pc \in {"m copy", "m copied", "m rename", "m unified"} \cup RollbackSteps
         => disk.db.layout = "migration-in-progress"
    /\ proc.pc = "m path" => disk.db.layout = "unified"
    /\ proc.pc = "r rename" => disk.db.backup # NoPath /\ disk.aside[disk.db.backup] # NoChain
    /\ ~hist.torn =>
         /\ proc.pc \in MigrateSteps \cup RollbackSteps \cup {"undo"}
              => Fits(ServedChain(WriteLayout(disk.db, Undone), disk.legacy), disk.db)
         /\ proc.pc \in {"m unified", "m path"} => Fits(disk.aside[proc.path], disk.db)

\* A restored database is held until the operator lets it go.
HoldInv ==
    \/ hist.released \/ hist.torn \/ disk.marker \/ disk.hold
    \/ /\ ~proc.open /\ proc.pc \notin {"open", "intent"}
       /\ disk.intent \/ (proc.then = "cli" /\ proc.pc \in Brought)

PlanInv ==
    /\ proc.pc \in {"try", "tried"} => proc.clean = ~PlanErrors(proc.conf)
    /\ proc.pc = "tried" => proc.refused = {t \in Targets(proc.conf) : Refused(proc.conf, t)}

IInv ==
    /\ DiskInv /\ ProcInv /\ ServiceInv /\ RequestInv /\ StageInv /\ DbInv /\ MoveInv
    /\ HoldInv /\ PlanInv

\* What a step must do to the invariant.
Keeps(A) == IInv /\ A => IInv'

USE DEF OpenSteps, MigrateSteps, RollbackSteps, Taking, Brought

-----------------------------------------------------------------------------
(* Databases and chain states *)

\* The bounds are numbers.
LEMMA Bounds == MaxHeight \in Nat \ {0} /\ Paths \subseteq Nat \ {0}
  BY StorageAssumption

\* A missing database is not one.
LEMMA NoDbIsNone == NoDb \notin Database
<1>1. NoDb.origin = "none"
  BY DEF NoDb
<1>2. \A d \in Database : d.origin # "none"
  BY DEF Database
<1> QED BY <1>1, <1>2

\* The database that RocksDB creates.
LEMMA CreatedIsDatabase == CreatedDb \in Database
<1>1. 0 \in Height
  BY Bounds DEF Height
<1> QED BY <1>1 DEF CreatedDb, Database, Chain, Layouts, NoPath

\* A chain state that fits is a whole one.
LEMMA FitsIsWhole ==
    ASSUME NEW db \in Database, NEW c, Fits(c, db)
    PROVE  c \in Height /\ c \in Chain /\ c # NoChain /\ c # Part
<1>1. db.blocks \in 0 .. MaxHeight /\ MaxHeight \in Nat
  BY Bounds DEF Database, Height
<1>2. c \in 0 .. MaxHeight /\ c >= 0
  BY <1>1 DEF Fits
<1>3. NoChain < 0 /\ Part < 0
  BY DEF NoChain, Part
<1> QED BY <1>1, <1>2, <1>3 DEF Height, Chain

-----------------------------------------------------------------------------
(* What does not change when the process goes on *)

\* A process that goes to another step has the rest as it was.
StepsTo(pc) ==
    /\ Fields \subseteq DOMAIN proc' /\ proc'.pc = pc
    /\ proc'.mode = proc.mode /\ proc'.enable = proc.enable /\ proc'.disable = proc.disable
    /\ proc'.then = proc.then /\ proc'.open = proc.open /\ proc'.started = proc.started
    /\ proc'.todo = proc.todo /\ proc'.path = proc.path /\ proc'.renamed = proc.renamed
    /\ proc'.requested = proc.requested /\ proc'.session = proc.session
    /\ proc'.conf = proc.conf /\ proc'.clean = proc.clean /\ proc'.refused = proc.refused

\* Going to another step.
LEMMA GotoSteps ==
    ASSUME IInv, NEW pc, Goto(pc)
    PROVE  StepsTo(pc)
  BY Zenon DEF IInv, ProcInv, Fields, Goto, StepsTo

\* The process that is not running.
LEMMA OffFacts ==
    /\ Fields \subseteq DOMAIN Off /\ Off.pc = "off" /\ Off.mode = "run" /\ Off.then = "exit"
    /\ Off.enable = FALSE /\ Off.disable = FALSE /\ Off.open = FALSE /\ Off.started = {}
    /\ Off.todo = <<>> /\ Off.path = NoPath /\ Off.renamed = FALSE /\ Off.requested = FALSE
    /\ Off.session = FALSE /\ Off.conf \in Config /\ Off.clean = FALSE /\ Off.refused = {}
<1>1. NoConfig \in Config
  BY Zenon DEF NoConfig, Complete, Config, References, RemotePaths, Secrets
<1> QED BY <1>1 DEF Off, Fields

\* What is on disk is worth the same until something is written.
LEMMA DiskUnchanged ==
    ASSUME IInv, UNCHANGED <<disk, events>>, UNCHANGED hist
    PROVE  DiskInv'
  BY Zenon DEF IInv, DiskInv, Restorable, BackupFits, Fits

\* A process that has ended leaves no obligation but for what is on disk.
LEMMA EndedInv ==
    ASSUME DiskInv', proc' = Off,
           disk'.db = NoDb /\ ~hist'.torn => disk'.intent,
           hist'.released \/ hist'.torn \/ disk'.marker \/ disk'.hold \/ disk'.intent
    PROVE  IInv'
<1>1. ProcInv'
  BY OffFacts, Zenon DEF ProcInv, Modes
<1>2. ServiceInv' /\ RequestInv' /\ StageInv'
  BY OffFacts DEF ServiceInv, RequestInv, StageInv
<1>3. DbInv' /\ MoveInv'
  BY OffFacts DEF DbInv, MoveInv
<1>4. HoldInv' /\ PlanInv'
  BY OffFacts DEF HoldInv, PlanInv
<1> QED BY <1>1, <1>2, <1>3, <1>4 DEF IInv

-----------------------------------------------------------------------------
(* Starting a process *)

\* A node, a command or a dry run begins with nothing but what is on disk.
LEMMA BegunInv ==
    ASSUME IInv, proc.pc = "off", DiskInv', UNCHANGED <<disk, hist>>, Fields \subseteq DOMAIN proc',
           proc'.pc \in {"boot", "activate", "stage", "dry run"},
           proc'.mode \in Modes, proc'.conf \in Config,
           proc'.enable \in BOOLEAN, proc'.disable \in BOOLEAN,
           ~proc'.open, proc'.open \in BOOLEAN, proc'.started = {}, proc'.path = NoPath,
           proc'.renamed = FALSE, proc'.requested = FALSE, proc'.session = FALSE,
           proc'.clean = FALSE,
           proc'.pc = "activate" \/ proc'.mode = "restore" => proc'.then = "cli"
    PROVE  IInv'
<1>1. ProcInv'
  BY Zenon DEF ProcInv
<1>2. ServiceInv' /\ RequestInv' /\ StageInv'
  BY Zenon DEF ServiceInv, RequestInv, StageInv
<1>3. DbInv' /\ MoveInv'
  BY Zenon DEF IInv, DbInv, MoveInv
<1>4. HoldInv' /\ PlanInv'
  BY Zenon DEF IInv, HoldInv, PlanInv
<1> QED BY <1>1, <1>2, <1>3, <1>4, Zenon DEF IInv

\* A node is started.
LEMMA RunInv == Keeps(Run)
<1> SUFFICES ASSUME IInv, Run PROVE IInv'
  BY DEF Keeps
<1>1. DiskInv'
  BY DiskUnchanged DEF Run
<1>2. PICK e, d \in BOOLEAN : proc' = [Off EXCEPT !.pc = "boot", !.enable = e, !.disable = d]
  BY Zenon DEF Run
<1> QED BY <1>1, <1>2, OffFacts, BegunInv, Zenon DEF Run, Fields, Modes

\* A dry run is started.
LEMMA PlanStartInv == Keeps(Plan)
<1> SUFFICES ASSUME IInv, Plan PROVE IInv'
  BY DEF Keeps
<1>1. DiskInv'
  BY DiskUnchanged DEF Plan
<1>2. PICK c \in Configs : proc' = [Off EXCEPT !.mode = "plan", !.pc = "dry run", !.conf = c]
  BY Zenon DEF Plan
<1>3. c \in Config
  BY ProcessAssumption
<1> QED BY <1>1, <1>2, <1>3, OffFacts, BegunInv, Zenon DEF Plan, Fields, Modes

\* An event is counted within its bound.
LEMMA EventBound ==
    ASSUME IInv, Event
    PROVE  events' \in 0 .. MaxEvents
<1>1. events \in 0 .. MaxEvents /\ MaxEvents \in Nat
  BY ProcessAssumption, Zenon DEF IInv, DiskInv
<1> QED BY <1>1 DEF Event

\* Counting an event leaves everything else to the action.
LEMMA EventDisk ==
    ASSUME IInv, Event, UNCHANGED <<disk, hist>>
    PROVE  DiskInv'
<1>1. events' \in 0 .. MaxEvents
  BY EventBound
<1> QED BY <1>1, Zenon DEF IInv, DiskInv, Restorable, BackupFits, Fits

\* A command is started.
LEMMA CommandInv ==
    ASSUME NEW mode \in Modes
    PROVE  Keeps(Command(mode))
<1> SUFFICES ASSUME IInv, Command(mode) PROVE IInv'
  BY DEF Keeps
<1>1. DiskInv'
  BY EventDisk DEF Command
<1>2. /\ proc'.mode = mode /\ Fields \subseteq DOMAIN proc'
      /\ proc'.pc = CASE mode \in {"migrate", "rollback"} -> "boot"
                      [] mode = "activate" -> "activate"
                      [] OTHER -> "stage"
      /\ proc'.then = IF mode \in {"activate", "restore"} THEN "cli" ELSE "exit"
      /\ proc'.enable = FALSE /\ proc'.disable = FALSE /\ proc'.open = FALSE
      /\ proc'.started = {} /\ proc'.path = NoPath /\ proc'.renamed = FALSE
      /\ proc'.requested = FALSE /\ proc'.session = FALSE /\ proc'.conf \in Config
      /\ proc'.clean = FALSE
  BY OffFacts DEF Command, Fields
<1>3. /\ proc'.pc \in {"boot", "activate", "stage", "dry run"}
      /\ proc'.pc = "activate" \/ proc'.mode = "restore" => proc'.then = "cli"
  BY <1>2
<1> QED BY <1>1, <1>2, <1>3, BegunInv, Zenon DEF Command

\* The request is found, or the database is opened.
LEMMA BootInv == Keeps(Boot)
<1> SUFFICES ASSUME IInv, Boot PROVE IInv'
  BY DEF Keeps
<1>1. DiskInv' /\ UNCHANGED <<disk, hist>>
  BY DiskUnchanged DEF Boot
<1>2. CASE HasPending(disk)
  <2>1. proc' = [proc EXCEPT !.pc = "activate", !.then = "open"]
    BY <1>2 DEF Boot
  <2>2. /\ Fields \subseteq DOMAIN proc' /\ proc'.pc = "activate" /\ proc'.then = "open"
        /\ proc'.mode = proc.mode /\ proc'.enable = proc.enable /\ proc'.disable = proc.disable
        /\ proc'.open = proc.open /\ proc'.started = proc.started /\ proc'.path = proc.path
        /\ proc'.renamed = proc.renamed /\ proc'.requested = proc.requested
        /\ proc'.session = proc.session /\ proc'.conf = proc.conf /\ proc'.clean = proc.clean
    BY <2>1, Zenon DEF IInv, ProcInv, Fields
  <2> QED
    <3> USE <1>1, <1>2, <2>2
    <3>1. ProcInv'
      BY DEF Boot, HasPending, IInv, ProcInv
    <3>2. ServiceInv' /\ PlanInv'
      BY DEF Boot, HasPending, IInv, ProcInv, ServiceInv, PlanInv
    <3>3. RequestInv' /\ StageInv'
      BY DEF Boot, HasPending, IInv, ProcInv, RequestInv, StageInv
    <3>4. DbInv' /\ MoveInv'
      BY DEF Boot, HasPending, IInv, ProcInv, DbInv, MoveInv
    <3>5. HoldInv'
      BY DEF Boot, HasPending, IInv, ProcInv, HoldInv
    <3> QED BY <3>1, <3>2, <3>3, <3>4, <3>5 DEF IInv
<1>3. CASE ~HasPending(disk)
  <2>1. StepsTo("open")
    BY <1>3, GotoSteps DEF Boot, Goto
  <2> QED
    <3> USE <1>1, <1>3, <2>1
    <3>1. ProcInv'
      BY DEF StepsTo, Boot, HasPending, IInv, ProcInv
    <3>2. ServiceInv' /\ PlanInv'
      BY DEF StepsTo, Boot, HasPending, IInv, ProcInv, ServiceInv, PlanInv
    <3>3. RequestInv' /\ StageInv'
      BY DEF StepsTo, Boot, HasPending, IInv, ProcInv, RequestInv, StageInv
    <3>4. DbInv' /\ MoveInv'
      BY DEF StepsTo, Boot, HasPending, IInv, ProcInv, DbInv, MoveInv
    <3>5. HoldInv'
      BY DEF StepsTo, Boot, HasPending, IInv, ProcInv, HoldInv
    <3> QED BY <3>1, <3>2, <3>3, <3>4, <3>5 DEF IInv
<1> QED BY <1>2, <1>3

-----------------------------------------------------------------------------
(* Ending a process *)

\* A process ends of itself where it has nothing left to bring into place.
LEMMA ExitInv ==
    ASSUME IInv, Exit, UNCHANGED <<disk, events>>,
           proc.pc \notin {"preserve chain", "move"} \cup Brought
    PROVE  IInv'
<1>1. /\ hist' \in [released: BOOLEAN, torn: BOOLEAN, indexed: BOOLEAN, stamp: Nat]
      /\ hist'.released = hist.released /\ hist'.torn = hist.torn /\ hist'.stamp = hist.stamp
  BY Zenon DEF Exit, IInv, DiskInv
<1>2. DiskInv'
  BY <1>1, Zenon DEF IInv, DiskInv, Restorable, BackupFits, Fits
<1>3. proc' = Off
  BY Zenon DEF Exit
<1> QED BY <1>1, <1>2, <1>3, EndedInv, Zenon DEF IInv, DbInv, HoldInv

\* The database is opened: the layout of a new or of an old one is decided.
LEMMA OpenedDisk ==
    ASSUME IInv, Open, ~OpenRefused(OpenedDb(disk.db))
    PROVE  DiskInv' /\ disk'.db # NoDb /\ disk'.db.layout \in {"legacy", "unified"}
<1> DEFINE db == OpenedDb(disk.db)
           new == InitializeLayout(db, disk.legacy)
<1>1. disk \in Disk /\ db \in Database
  BY CreatedIsDatabase, Zenon DEF IInv, DiskInv, Disk, OpenedDb
<1> USE <1>1
<1>2. /\ new \in Database /\ new.blocks = db.blocks /\ new.chain = db.chain /\ new.backup = db.backup
      /\ new.layout \in {"legacy", "unified"}
      /\ \/ new.layout = db.layout \/ db.layout = ""
         \/ db.layout = "legacy" /\ disk.legacy = NoChain
  BY Zenon DEF InitializeLayout, OpenRefused, Database, Layouts
<1> USE <1>2
<1>3. disk' = [disk EXCEPT !.db = new]
  BY Zenon DEF Open
<1>4. new # NoDb
  BY NoDbIsNone, Zenon
<1>5. ~hist.torn => disk.db # NoDb /\ db = disk.db
  BY Zenon DEF Open, IInv, DbInv, OpenedDb
<1> USE <1>5
<1> HIDE DEF new, db
<1>6. /\ disk' \in Disk /\ disk'.db = new /\ disk'.legacy = disk.legacy /\ disk'.aside = disk.aside
      /\ disk'.snap = disk.snap /\ disk'.staging = disk.staging /\ disk'.intent = disk.intent
  BY <1>3, Zenon DEF Disk
<1>7. UNCHANGED <<hist, events>>
  BY Zenon DEF Open
<1>8. ~hist.torn => new.layout = disk.db.layout
  <2> SUFFICES ASSUME ~hist.torn PROVE new.layout = disk.db.layout
    BY Zenon
  <2>1. disk.db # NoDb /\ disk.db.layout # "" /\ db = disk.db
    BY Zenon DEF IInv, DiskInv
  <2> USE <2>1
  <2>2. CASE disk.db.layout = "legacy"
    <3>1. Fits(disk.legacy, disk.db)
      BY <2>2 DEF IInv, DiskInv, ServedChain
    <3> QED BY <3>1, FitsIsWhole, Zenon
  <2> QED BY <2>2, Zenon
<1>9. ~hist.torn =>
        Fits(ServedChain(new, disk.legacy), new) /\ Covers(new, disk.aside, hist.stamp)
  <2> SUFFICES ASSUME ~hist.torn
               PROVE  Fits(ServedChain(new, disk.legacy), new) /\ Covers(new, disk.aside, hist.stamp)
    BY Zenon
  <2>1. /\ new.blocks = disk.db.blocks /\ new.chain = disk.db.chain /\ new.backup = disk.db.backup
        /\ new.layout = disk.db.layout
    BY <1>8, Zenon
  <2>2. Fits(ServedChain(disk.db, disk.legacy), disk.db) /\ Covers(disk.db, disk.aside, hist.stamp)
    BY <2>1, Zenon DEF IInv, DiskInv, BackupFits
  <2> HIDE DEF new
  <2> QED BY <2>1, <2>2, Zenon DEF Fits, ServedChain, Covers
<1> HIDE DEF new
<1>10. DiskInv'
  BY <1>4, <1>6, <1>7, <1>9, ZenonT(40) DEF IInv, DiskInv, Restorable, BackupFits
<1> QED BY <1>4, <1>6, <1>10, Zenon

\* Opening the database, or refusing to.
LEMMA OpenInv == Keeps(Open)
<1> SUFFICES ASSUME IInv, Open PROVE IInv'
  BY DEF Keeps
<1>1. CASE OpenRefused(OpenedDb(disk.db))
  <2>1. Exit /\ UNCHANGED <<disk, events>>
    BY <1>1 DEF Open
  <2> QED BY <2>1, ExitInv DEF Open
<1>2. CASE ~OpenRefused(OpenedDb(disk.db))
  <2>1. DiskInv' /\ disk'.db # NoDb /\ disk'.db.layout \in {"legacy", "unified"}
    BY <1>2, OpenedDisk
  <2>2. /\ proc' = [proc EXCEPT !.pc = AfterOpen, !.open = TRUE] /\ UNCHANGED <<hist, events>>
        /\ disk' = [disk EXCEPT !.db = InitializeLayout(OpenedDb(disk.db), disk.legacy)]
    BY <1>2 DEF Open
  <2>3. /\ Fields \subseteq DOMAIN proc' /\ proc'.pc = AfterOpen /\ proc'.open = TRUE
        /\ proc'.mode = proc.mode /\ proc'.enable = proc.enable /\ proc'.disable = proc.disable
        /\ proc'.then = proc.then /\ proc'.started = proc.started /\ proc'.path = proc.path
        /\ proc'.renamed = proc.renamed /\ proc'.requested = proc.requested
        /\ proc'.session = proc.session /\ proc'.conf = proc.conf /\ proc'.clean = proc.clean
    BY <2>2, Zenon DEF IInv, ProcInv, Fields
  <2>4. /\ disk'.intent = disk.intent /\ disk'.marker = disk.marker /\ disk'.hold = disk.hold
        /\ disk'.staging = disk.staging
    BY <2>2, Zenon DEF IInv, DiskInv, Disk
  <2> QED
    <3> USE <2>1, <2>2, <2>3, <2>4
    <3>1. ProcInv'
      BY DEF Open, AfterOpen, IInv, ProcInv
    <3>2. ServiceInv' /\ PlanInv'
      BY DEF Open, AfterOpen, IInv, ProcInv, ServiceInv, PlanInv
    <3>3. RequestInv' /\ StageInv'
      BY DEF Open, AfterOpen, IInv, ProcInv, RequestInv, StageInv
    <3>4. DbInv' /\ MoveInv'
      BY DEF Open, AfterOpen, IInv, ProcInv, DbInv, MoveInv
    <3>5. HoldInv'
      BY DEF Open, AfterOpen, IInv, ProcInv, HoldInv
    <3> QED BY <3>1, <3>2, <3>3, <3>4, <3>5 DEF IInv
<1> QED BY <1>1, <1>2

\* RocksDB notices that files are missing.
LEMMA OpenFailsInv == Keeps(OpenFails)
<1> SUFFICES ASSUME IInv, OpenFails PROVE IInv'
  BY DEF Keeps
<1> QED BY ExitInv DEF OpenFails

-----------------------------------------------------------------------------
(* The observer-first policy and the services *)

\* The request and the files of the policy may change without the databases.
LEMMA FlagsDisk ==
    ASSUME IInv, disk' \in Disk, disk'.db = disk.db, disk'.legacy = disk.legacy,
           disk'.aside = disk.aside, disk'.snap = disk.snap, disk'.staging = disk.staging,
           disk'.intent => disk.intent \/ disk.staging.st = "complete",
           hist' \in [released: BOOLEAN, torn: BOOLEAN, indexed: BOOLEAN, stamp: Nat],
           hist'.torn = hist.torn, hist'.stamp = hist.stamp, UNCHANGED events
    PROVE  DiskInv'
  BY ZenonT(40) DEF IInv, DiskInv, Restorable, BackupFits, Fits

\* The marker becomes a hold, or the operator releases the hold.
LEMMA PolicyInv == Keeps(Policy)
<1> SUFFICES ASSUME IInv, Policy PROVE IInv'
  BY DEF Keeps
<1>0. disk \in Disk /\ hist \in [released: BOOLEAN, torn: BOOLEAN, indexed: BOOLEAN, stamp: Nat]
  BY Zenon DEF IInv, DiskInv
<1>1. CASE disk.marker /\ disk' = WriteHold(disk) /\ Goto("hold") /\ UNCHANGED hist
  <2>1. /\ disk' \in Disk /\ disk'.db = disk.db /\ disk'.legacy = disk.legacy
        /\ disk'.aside = disk.aside /\ disk'.snap = disk.snap /\ disk'.staging = disk.staging
        /\ disk'.intent = disk.intent /\ disk'.marker = disk.marker /\ disk'.hold = TRUE
    BY <1>0, <1>1, Zenon DEF WriteHold, Disk
  <2>2. DiskInv' /\ StepsTo("hold")
    BY <1>0, <1>1, <2>1, FlagsDisk, GotoSteps DEF Policy
  <2> QED
    <3> USE <1>1, <2>1, <2>2
    <3>1. ProcInv'
      BY DEF StepsTo, Policy, IInv, ProcInv
    <3>2. ServiceInv' /\ PlanInv'
      BY DEF StepsTo, Policy, IInv, ProcInv, ServiceInv, PlanInv
    <3>3. RequestInv' /\ StageInv'
      BY DEF StepsTo, Policy, IInv, ProcInv, RequestInv, StageInv
    <3>4. DbInv' /\ MoveInv'
      BY DEF StepsTo, Policy, IInv, ProcInv, DbInv, MoveInv
    <3>5. HoldInv'
      BY DEF StepsTo, Policy, IInv, ProcInv, HoldInv
    <3> QED BY <3>1, <3>2, <3>3, <3>4, <3>5 DEF IInv
<1>2. CASE /\ ReleasesHold(disk, proc.enable) /\ disk' = ReleaseHold(disk)
           /\ hist' = [hist EXCEPT !.released = TRUE] /\ Goto("register")
  <2> USE <1>0, <1>2
  <2>1. /\ disk' \in Disk /\ disk'.db = disk.db /\ disk'.legacy = disk.legacy
        /\ disk'.aside = disk.aside /\ disk'.snap = disk.snap /\ disk'.staging = disk.staging
        /\ disk'.intent = disk.intent /\ disk'.marker = disk.marker /\ disk'.hold = FALSE
    BY Zenon DEF ReleaseHold, Disk
  <2>2. /\ hist' \in [released: BOOLEAN, torn: BOOLEAN, indexed: BOOLEAN, stamp: Nat]
        /\ hist'.torn = hist.torn /\ hist'.stamp = hist.stamp /\ hist'.released
        /\ hist'.indexed = hist.indexed
    BY Zenon
  <2>3. DiskInv' /\ StepsTo("register")
    BY <2>1, <2>2, FlagsDisk, GotoSteps DEF Policy
  <2> QED
    <3> USE <1>2, <2>1, <2>2, <2>3
    <3>1. ProcInv'
      BY DEF StepsTo, ReleasesHold, Policy, IInv, ProcInv
    <3>2. ServiceInv' /\ PlanInv'
      BY DEF StepsTo, ReleasesHold, Policy, IInv, ProcInv, ServiceInv, PlanInv
    <3>3. RequestInv' /\ StageInv'
      BY DEF StepsTo, ReleasesHold, Policy, IInv, ProcInv, RequestInv, StageInv
    <3>4. DbInv' /\ MoveInv'
      BY DEF StepsTo, ReleasesHold, Policy, IInv, ProcInv, DbInv, MoveInv
    <3>5. HoldInv'
      BY DEF StepsTo, ReleasesHold, Policy, IInv, ProcInv, HoldInv
    <3> QED BY <3>1, <3>2, <3>3, <3>4, <3>5 DEF IInv
<1>3. CASE ~disk.marker /\ Goto("register") /\ UNCHANGED <<disk, hist>>
  <2>1. DiskInv' /\ StepsTo("register")
    BY <1>3, DiskUnchanged, GotoSteps DEF Policy
  <2> QED
    <3> USE <1>3, <2>1
    <3>1. ProcInv'
      BY DEF StepsTo, Policy, IInv, ProcInv
    <3>2. ServiceInv' /\ PlanInv'
      BY DEF StepsTo, Policy, IInv, ProcInv, ServiceInv, PlanInv
    <3>3. RequestInv' /\ StageInv'
      BY DEF StepsTo, Policy, IInv, ProcInv, RequestInv, StageInv
    <3>4. DbInv' /\ MoveInv'
      BY DEF StepsTo, Policy, IInv, ProcInv, DbInv, MoveInv
    <3>5. HoldInv'
      BY DEF StepsTo, Policy, IInv, ProcInv, HoldInv
    <3> QED BY <3>1, <3>2, <3>3, <3>4, <3>5 DEF IInv
<1> QED BY <1>1, <1>2, <1>3 DEF Policy

\* The hold is durable, the marker goes.
LEMMA PolicyHeldInv == Keeps(PolicyHeld)
<1> SUFFICES ASSUME IInv, PolicyHeld PROVE IInv'
  BY DEF Keeps
<1>0. disk \in Disk /\ hist \in [released: BOOLEAN, torn: BOOLEAN, indexed: BOOLEAN, stamp: Nat]
  BY Zenon DEF IInv, DiskInv
<1>1. /\ disk' \in Disk /\ disk'.db = disk.db /\ disk'.legacy = disk.legacy
      /\ disk'.aside = disk.aside /\ disk'.snap = disk.snap /\ disk'.staging = disk.staging
      /\ disk'.intent = disk.intent /\ disk'.marker = FALSE /\ disk'.hold = disk.hold
  BY <1>0, Zenon DEF PolicyHeld, ConsumeMarker, Disk
<1>2. DiskInv' /\ StepsTo("register")
  BY <1>0, <1>1, FlagsDisk, GotoSteps DEF PolicyHeld
<1>3. proc.pc = "hold" /\ disk.hold /\ UNCHANGED <<hist, events>>
  BY DEF PolicyHeld, IInv, ServiceInv
<1> QED
  <2> USE <1>1, <1>2, <1>3
  <2>1. ProcInv'
    BY DEF StepsTo, IInv, ProcInv
  <2>2. ServiceInv' /\ PlanInv'
    BY DEF StepsTo, IInv, ProcInv, ServiceInv, PlanInv
  <2>3. RequestInv' /\ StageInv'
    BY DEF StepsTo, IInv, ProcInv, RequestInv, StageInv
  <2>4. DbInv' /\ MoveInv'
    BY DEF StepsTo, IInv, ProcInv, DbInv, MoveInv
  <2>5. HoldInv'
    BY DEF StepsTo, IInv, ProcInv, HoldInv
  <2> QED BY <2>1, <2>2, <2>3, <2>4, <2>5 DEF IInv

\* The services that are registered: not the producer while the hold is there.
LEMMA RegisteredServices ==
    Registered \in Seq(Service \ (IF disk.hold THEN {"block_producer"} ELSE {}))
<1> DEFINE S == Service \ (IF disk.hold THEN {"block_producer"} ELSE {})
<1>1. ProducerService \in Seq(S)
  <2>1. ProducerEnabled => "block_producer" \in S
    BY DEF ProducerEnabled, Service
  <2> HIDE DEF S
  <2>2. <<>> \in Seq(S) /\ (ProducerEnabled => <<"block_producer">> \in Seq(S))
    BY <2>1
  <2> QED BY <2>2 DEF ProducerService
<1>2. <<"block_store", "chain">> \in Seq(S) /\ PublicServices \in Seq(S) /\ <<"backup_admin">> \in Seq(S)
  BY DEF PublicServices, Service
<1> USE <1>2
<1> HIDE DEF S
<1>3. <<"block_store", "chain">> \o ProducerService \in Seq(S)
  BY <1>1
<1>4. (<<"block_store", "chain">> \o ProducerService) \o PublicServices \in Seq(S)
  BY <1>3
<1>5. Registered \in Seq(S)
  BY <1>4 DEF Registered
<1> QED BY <1>5 DEF S

\* Registering the services.
LEMMA RegisterInv == Keeps(Register)
<1> SUFFICES ASSUME IInv, Register PROVE IInv'
  BY DEF Keeps
<1>1. DiskInv' /\ UNCHANGED <<disk, hist>>
  BY DiskUnchanged DEF Register
<1>2. /\ Fields \subseteq DOMAIN proc' /\ proc'.pc = "gate" /\ proc'.todo = Registered
      /\ proc'.mode = proc.mode /\ proc'.enable = proc.enable /\ proc'.disable = proc.disable
      /\ proc'.then = proc.then /\ proc'.open = proc.open /\ proc'.started = proc.started
      /\ proc'.path = proc.path /\ proc'.renamed = proc.renamed
      /\ proc'.requested = proc.requested /\ proc'.session = proc.session
      /\ proc'.conf = proc.conf /\ proc'.clean = proc.clean
  BY DEF IInv, ProcInv, Fields, Register
<1> QED
  <2> USE <1>1, <1>2
  <2>1. ProcInv'
    BY RegisteredServices DEF Register, IInv, ProcInv
  <2>2. ServiceInv' /\ PlanInv'
    BY RegisteredServices DEF Register, IInv, ProcInv, ServiceInv, PlanInv
  <2>3. RequestInv' /\ StageInv'
    BY RegisteredServices DEF Register, IInv, ProcInv, RequestInv, StageInv
  <2>4. DbInv' /\ MoveInv'
    BY RegisteredServices DEF Register, IInv, ProcInv, DbInv, MoveInv
  <2>5. HoldInv'
    BY RegisteredServices DEF Register, IInv, ProcInv, HoldInv
  <2> QED BY RegisteredServices, <2>1, <2>2, <2>3, <2>4, <2>5 DEF IInv

\* A service is started.
LEMMA StartNextInv == Keeps(StartNext)
<1> SUFFICES ASSUME IInv, StartNext PROVE IInv'
  BY DEF Keeps
<1> DEFINE S == Service \ (IF disk.hold THEN {"block_producer"} ELSE {})
           s == Head(proc.todo)
<1>1. DiskInv' /\ UNCHANGED <<disk, hist>>
  BY DiskUnchanged DEF StartNext
<1> USE <1>1
<1>2. proc.pc \in {"gate", "start"} /\ proc.todo \in Seq(S) /\ proc.todo # <<>>
  BY Zenon DEF StartNext, IInv, ServiceInv
<1> USE <1>2
<1>3. /\ Fields \subseteq DOMAIN proc' /\ proc'.pc = proc.pc /\ proc'.todo = Tail(proc.todo)
      /\ proc'.started = proc.started \cup {s}
      /\ proc'.mode = proc.mode /\ proc'.enable = proc.enable /\ proc'.disable = proc.disable
      /\ proc'.then = proc.then /\ proc'.open = proc.open
      /\ proc'.path = proc.path /\ proc'.renamed = proc.renamed
      /\ proc'.requested = proc.requested /\ proc'.session = proc.session
      /\ proc'.conf = proc.conf /\ proc'.clean = proc.clean
  BY Zenon DEF IInv, ProcInv, Fields, StartNext
<1> USE <1>3
<1>4. s \in Core \/ proc.pc = "start"
  BY DEF StartNext
<1> HIDE DEF S
<1>5. s \in S /\ Tail(proc.todo) \in Seq(S)
  OBVIOUS
<1>6. s \in Service /\ (disk.hold => s # "block_producer")
  BY <1>5 DEF S
<1>7. ServiceInv'
  <2>1. proc'.todo \in Seq(Service \ (IF disk'.hold THEN {"block_producer"} ELSE {}))
    BY <1>5 DEF S
  <2> HIDE DEF s
  <2> QED BY <1>4, <1>6, <2>1, Zenon DEF IInv, ServiceInv
<1> HIDE DEF s
<1>8. ProcInv'
  BY <1>6, Zenon DEF IInv, ProcInv
<1>9. RequestInv' /\ StageInv' /\ HoldInv' /\ PlanInv'
  BY Zenon DEF IInv, RequestInv, StageInv, HoldInv, PlanInv
<1>10. DbInv' /\ MoveInv'
  BY Zenon DEF IInv, DbInv, MoveInv
<1> QED BY <1>7, <1>8, <1>9, <1>10 DEF IInv

\* The chain service writes its chain state and the block store its blocks.
LEMMA WrittenDisk ==
    ASSUME IInv, disk' \in Disk, disk.db # NoDb, disk'.db # NoDb,
           disk.db.layout \in {"legacy", "unified"}, disk'.db.layout = disk.db.layout,
           disk'.db.backup = disk.db.backup, disk'.db.blocks >= disk.db.blocks,
           disk'.aside = disk.aside, disk'.snap = disk.snap, disk'.staging = disk.staging,
           disk'.intent = disk.intent,
           ~hist.torn => Fits(ServedChain(disk'.db, disk'.legacy), disk'.db),
           hist' \in [released: BOOLEAN, torn: BOOLEAN, indexed: BOOLEAN, stamp: Nat],
           hist'.torn = hist.torn, hist'.stamp = hist.stamp, UNCHANGED events
    PROVE  DiskInv'
<1>1. disk.db.blocks \in Nat /\ disk'.db.blocks \in Nat
  <2>1. disk.db \in Database /\ disk'.db \in Database
    BY Zenon DEF IInv, DiskInv, Disk
  <2> QED BY <2>1, Bounds DEF Database, Height
<1>2. ~hist.torn => BackupFits(disk.db)'
  <2> SUFFICES ASSUME ~hist.torn PROVE BackupFits(disk.db)'
    OBVIOUS
  <2>1. BackupFits(disk.db)
    BY Zenon DEF IInv, DiskInv
  <2> QED BY <1>1, <2>1 DEF BackupFits, Covers, Fits
<1>3. /\ disk.snap # NoDb /\ Restorable(disk.snap) => Restorable(disk.snap)'
      /\ disk.staging.db # NoDb /\ Restorable(disk.staging.db) => Restorable(disk.staging.db)'
  BY DEF Restorable, BackupFits, Fits
<1> QED BY <1>2, <1>3, Zenon DEF IInv, DiskInv

\* What WithServed leaves alone.
LEMMA ServedFacts ==
    ASSUME disk \in Disk, disk.db # NoDb, NEW n \in Height, NEW c \in Height,
           disk' = WithServed([disk EXCEPT !.db.blocks = n], c)
    PROVE  /\ disk' \in Disk /\ disk'.db # NoDb /\ disk'.db.layout = disk.db.layout
           /\ disk'.db.backup = disk.db.backup /\ disk'.db.blocks = n
           /\ disk'.db.origin = disk.db.origin /\ disk'.db.whole = disk.db.whole
           /\ disk'.aside = disk.aside /\ disk'.snap = disk.snap /\ disk'.staging = disk.staging
           /\ disk'.intent = disk.intent /\ disk'.marker = disk.marker /\ disk'.hold = disk.hold
           /\ disk'.preDb = disk.preDb /\ disk'.preChain = disk.preChain
           /\ ServedChain(disk'.db, disk'.legacy) = c
           /\ disk'.legacy \in {disk.legacy, c}
<1> DEFINE d == [disk EXCEPT !.db.blocks = n]
<1>1. disk.db \in Database /\ c \in Chain
  BY DEF Disk, Chain
<1> USE <1>1
<1>2. /\ d \in Disk /\ d.db = [disk.db EXCEPT !.blocks = n] /\ d.legacy = disk.legacy
      /\ d.aside = disk.aside /\ d.snap = disk.snap /\ d.staging = disk.staging
      /\ d.intent = disk.intent /\ d.marker = disk.marker /\ d.hold = disk.hold
      /\ d.preDb = disk.preDb /\ d.preChain = disk.preChain
  BY DEF Disk, Database
<1> USE <1>2
<1>3. /\ d.db \in Database /\ d.db.layout = disk.db.layout /\ d.db.backup = disk.db.backup
      /\ d.db.blocks = n /\ d.db.origin = disk.db.origin /\ d.db.whole = disk.db.whole
  BY DEF Database
<1> USE <1>3
<1> HIDE DEF d
<1>4. CASE d.db.layout = "unified"
  <2>1. disk' = [d EXCEPT !.db.chain = c]
    BY <1>4 DEF WithServed, d
  <2>2. /\ disk'.db = [d.db EXCEPT !.chain = c] /\ disk'.legacy = d.legacy
        /\ disk'.aside = d.aside /\ disk'.snap = d.snap /\ disk'.staging = d.staging
        /\ disk'.intent = d.intent /\ disk'.marker = d.marker /\ disk'.hold = d.hold
        /\ disk'.preDb = d.preDb /\ disk'.preChain = d.preChain
    BY <2>1 DEF Disk
  <2> USE <2>2
  <2>3. /\ disk'.db \in Database /\ disk'.db.layout = d.db.layout /\ disk'.db.backup = d.db.backup
        /\ disk'.db.blocks = n /\ disk'.db.origin = d.db.origin /\ disk'.db.whole = d.db.whole
        /\ disk'.db.chain = c
    BY Zenon DEF Database
  <2>4. disk' \in Disk
    BY <2>1, <2>3 DEF Disk
  <2> QED BY <1>4, <2>3, <2>4, NoDbIsNone DEF ServedChain
<1>5. CASE d.db.layout # "unified"
  <2>1. disk' = [d EXCEPT !.legacy = c]
    BY <1>5 DEF WithServed, d
  <2>2. /\ disk'.db = d.db /\ disk'.legacy = c
        /\ disk'.aside = d.aside /\ disk'.snap = d.snap /\ disk'.staging = d.staging
        /\ disk'.intent = d.intent /\ disk'.marker = d.marker /\ disk'.hold = d.hold
        /\ disk'.preDb = d.preDb /\ disk'.preChain = d.preChain /\ disk' \in Disk
    BY <2>1 DEF Disk
  <2> QED BY <1>5, <2>2, NoDbIsNone, ZenonT(40) DEF ServedChain
<1> QED BY <1>4, <1>5

\* A step that changes nothing.
LEMMA StutterInv ==
    ASSUME IInv, UNCHANGED vars
    PROVE  IInv'
<1>1. DiskInv' /\ disk' = disk /\ proc' = proc /\ hist' = hist
  BY DiskUnchanged DEF vars
<1>2. ProcInv'
  <2>1. StepsTo(proc.pc)
    BY <1>1, Zenon DEF IInv, ProcInv, StepsTo
  <2> QED BY <2>1, ZenonT(40) DEF IInv, ProcInv, StepsTo
<1>6. RequestInv' /\ HoldInv'
  BY <1>1, Zenon DEF IInv, RequestInv, HoldInv
<1>7. StageInv'
  BY <1>1, Zenon DEF IInv, StageInv, CanActivate
<1>5. ServiceInv' /\ PlanInv'
  BY <1>1, Zenon DEF IInv, ServiceInv, PlanInv
<1>3. DbInv'
  BY <1>1, Zenon DEF IInv, DbInv, Restorable, BackupFits, Fits
<1>4. MoveInv'
  BY <1>1, Zenon DEF IInv, MoveInv, Fits, Undone
<1> QED BY <1>1, <1>2, <1>3, <1>4, <1>5, <1>6, <1>7 DEF IInv

\* The recovery indexing gate.
LEMMA IndexInv == Keeps(Index)
<1> SUFFICES ASSUME IInv, Index PROVE IInv'
  BY DEF Keeps
<1>0. disk \in Disk /\ hist \in [released: BOOLEAN, torn: BOOLEAN, indexed: BOOLEAN, stamp: Nat]
  BY Zenon DEF IInv, DiskInv
<1> USE <1>0
<1>1. PICK c \in Height : /\ c = Served \/ (Served < c /\ c <= disk.db.blocks)
                          /\ disk' = WithServed(disk, c)
  BY DEF Index
<1>2. /\ proc.pc = "gate" /\ disk.db # NoDb /\ disk.db \in Database
      /\ disk.db.layout \in {"legacy", "unified"}
  BY DEF Index, IInv, ProcInv, DbInv, Disk
<1> USE <1>2
<1>3. disk.db.blocks \in Height /\ [disk EXCEPT !.db.blocks = disk.db.blocks] = disk
  BY DEF Disk, Database
<1> USE <1>3
<1>4. ~hist.torn => Fits(c, disk.db)
  <2> SUFFICES ASSUME ~hist.torn PROVE Fits(c, disk.db)
    OBVIOUS
  <2>1. Fits(Served, disk.db)
    BY Zenon DEF IInv, DiskInv, Served
  <2>2. disk.db.blocks \in Nat /\ c \in Nat
    BY Bounds DEF Height
  <2> QED BY <1>1, <2>1, <2>2 DEF Fits
<1>5. /\ disk' \in Disk /\ disk'.db # NoDb /\ disk'.db.layout = disk.db.layout
      /\ disk'.db.backup = disk.db.backup /\ disk'.db.blocks = disk.db.blocks
      /\ disk'.aside = disk.aside /\ disk'.snap = disk.snap /\ disk'.staging = disk.staging
      /\ disk'.intent = disk.intent /\ disk'.marker = disk.marker /\ disk'.hold = disk.hold
      /\ ServedChain(disk'.db, disk'.legacy) = c
  BY <1>1, ServedFacts
<1> USE <1>5
<1>6. /\ hist' \in [released: BOOLEAN, torn: BOOLEAN, indexed: BOOLEAN, stamp: Nat]
      /\ hist'.torn = hist.torn /\ hist'.stamp = hist.stamp /\ hist'.released = hist.released
      /\ hist'.indexed = TRUE
  BY Zenon DEF Index
<1>7. disk'.db.blocks >= disk.db.blocks
  BY Bounds DEF Height
<1>8. ~hist.torn => Fits(ServedChain(disk'.db, disk'.legacy), disk'.db)
  BY <1>4 DEF Fits
<1>9. DiskInv' /\ StepsTo("start")
  BY <1>6, <1>7, <1>8, WrittenDisk, GotoSteps DEF Index
<1> QED
  <2> USE <1>2, <1>5, <1>6, <1>9
  <2>1. ProcInv'
    BY DEF StepsTo, IInv, ProcInv
  <2>2. ServiceInv' /\ PlanInv'
    BY DEF StepsTo, IInv, ProcInv, ServiceInv, PlanInv
  <2>3. RequestInv' /\ StageInv'
    BY DEF StepsTo, IInv, ProcInv, RequestInv, StageInv
  <2>4. DbInv' /\ MoveInv'
    BY DEF StepsTo, IInv, ProcInv, DbInv, MoveInv
  <2>5. HoldInv'
    BY DEF StepsTo, IInv, ProcInv, HoldInv
  <2> QED BY <2>1, <2>2, <2>3, <2>4, <2>5 DEF IInv

\* All services are started.
LEMMA ReadyInv == Keeps(Ready)
<1> SUFFICES ASSUME IInv, Ready PROVE IInv'
  BY DEF Keeps
<1>1. DiskInv' /\ UNCHANGED <<disk, hist>> /\ StepsTo("ready")
  BY DiskUnchanged, GotoSteps DEF Ready
<1> QED
  <2> USE <1>1
  <2>1. ProcInv'
    BY DEF Ready, StepsTo, IInv, ProcInv
  <2>2. ServiceInv' /\ PlanInv'
    BY DEF Ready, StepsTo, IInv, ProcInv, ServiceInv, PlanInv
  <2>3. RequestInv' /\ StageInv'
    BY DEF Ready, StepsTo, IInv, ProcInv, RequestInv, StageInv
  <2>4. DbInv' /\ MoveInv'
    BY DEF Ready, StepsTo, IInv, ProcInv, DbInv, MoveInv
  <2>5. HoldInv'
    BY DEF Ready, StepsTo, IInv, ProcInv, HoldInv
  <2> QED BY <2>1, <2>2, <2>3, <2>4, <2>5 DEF IInv

\* stop_all begins.
LEMMA StoppingInv ==
    ASSUME IInv, DiskInv', UNCHANGED <<disk, hist>>,
           NEW then \in {"exit", "returned", "close"}, NEW asked \in BOOLEAN,
           proc.pc \in {"gate", "start", "ready", "returned"},
           proc' = [Stopping(then) EXCEPT !.requested = asked],
           asked \/ then = "close" => disk.intent
    PROVE  IInv'
<1>1. /\ Fields \subseteq DOMAIN proc' /\ proc'.pc = "stop" /\ proc'.then = then
      /\ proc'.requested = asked
      /\ proc'.mode = proc.mode /\ proc'.enable = proc.enable /\ proc'.disable = proc.disable
      /\ proc'.open = proc.open /\ proc'.started = proc.started
      /\ proc'.path = proc.path /\ proc'.renamed = proc.renamed /\ proc'.session = proc.session
      /\ proc'.conf = proc.conf /\ proc'.clean = proc.clean
  BY Zenon DEF IInv, ProcInv, Fields, Stopping
<1> USE <1>1
<1>2. ProcInv'
  BY Zenon DEF IInv, ProcInv
<1>3. ServiceInv' /\ RequestInv'
  BY Zenon DEF IInv, ServiceInv, RequestInv
<1>4. StageInv' /\ PlanInv'
  BY Zenon DEF IInv, StageInv, PlanInv
<1>5. DbInv' /\ MoveInv' /\ HoldInv'
  BY Zenon DEF IInv, ProcInv, DbInv, MoveInv, HoldInv
<1> QED BY <1>2, <1>3, <1>4, <1>5 DEF IInv

\* Stopping does not change whether the stop was requested.
LEMMA StoppingAsked ==
    ASSUME IInv, NEW then
    PROVE  /\ proc.requested \in BOOLEAN
           /\ Stopping(then) = [Stopping(then) EXCEPT !.requested = proc.requested]
<1>1. "requested" \in DOMAIN Stopping(then) /\ Stopping(then).requested = proc.requested
  BY Zenon DEF IInv, ProcInv, Fields, Stopping
<1> HIDE DEF Stopping
<1>2. Stopping(then) = [Stopping(then) EXCEPT !.requested = Stopping(then).requested]
  BY <1>1, Zenon DEF Stopping
<1> QED BY <1>1, <1>2, Zenon DEF IInv, ProcInv

\* A service does not start.
LEMMA StartFailsInv == Keeps(StartFails)
<1> SUFFICES ASSUME IInv, StartFails PROVE IInv'
  BY DEF Keeps
<1>1. DiskInv' /\ UNCHANGED <<disk, hist>> /\ proc' = Stopping("exit")
  BY EventDisk DEF StartFails
<1>2. proc.requested => disk.intent
  BY Zenon DEF IInv, RequestInv
<1> QED BY <1>1, <1>2, StoppingAsked, StoppingInv DEF StartFails

\* A signal.
LEMMA SignalInv == Keeps(Signal)
<1> SUFFICES ASSUME IInv, Signal PROVE IInv'
  BY DEF Keeps
<1>1. DiskInv' /\ UNCHANGED <<disk, hist>> /\ proc' = Stopping("returned")
  BY EventDisk DEF Signal
<1>2. proc.requested => disk.intent
  BY Zenon DEF IInv, RequestInv
<1> QED BY <1>1, <1>2, StoppingAsked, StoppingInv DEF Signal

\* The timer that looks for a request.
LEMMA TickInv == Keeps(Tick)
<1> SUFFICES ASSUME IInv, Tick PROVE IInv'
  BY DEF Keeps
<1>1. DiskInv' /\ UNCHANGED <<disk, hist, events>>
  BY DiskUnchanged DEF Tick
<1>2. CASE HasPending(disk)
  <2>1. proc' = [Stopping("returned") EXCEPT !.requested = TRUE] /\ proc.pc = "ready" /\ disk.intent
    BY <1>2 DEF Tick, HasPending
  <2> QED BY <1>1, <2>1, StoppingInv, Zenon
<1>3. CASE ~HasPending(disk)
  <2>1. UNCHANGED vars
    BY <1>1, <1>3 DEF Tick, vars
  <2> QED BY <2>1, StutterInv
<1> QED BY <1>2, <1>3

\* main_ioc.run has returned.
LEMMA ReturnedInv == Keeps(Returned)
<1> SUFFICES ASSUME IInv, Returned PROVE IInv'
  BY DEF Keeps
<1>1. CASE proc.requested \/ HasPending(disk)
  <2>1. /\ DiskInv' /\ UNCHANGED <<disk, hist>> /\ proc' = Stopping("close")
        /\ proc.pc = "returned" /\ disk.intent
    BY <1>1, DiskUnchanged DEF Returned, IInv, RequestInv, HasPending
  <2> QED BY <2>1, StoppingAsked, StoppingInv
<1>2. CASE ~(proc.requested \/ HasPending(disk))
  BY <1>2, ExitInv DEF Returned
<1> QED BY <1>1, <1>2

-----------------------------------------------------------------------------
(* A running node *)

\* A running node changes the disk and goes on.
LEMMA WorkedInv ==
    ASSUME IInv, DiskInv', proc.pc \in {"ready", "stop"}, UNCHANGED <<proc, hist>>, disk'.db # NoDb,
           proc.pc = "ready" => disk'.db.layout \in {"legacy", "unified"},
           disk'.staging = disk.staging, disk.intent => disk'.intent,
           disk'.marker = disk.marker, disk'.hold = disk.hold
    PROVE  IInv'
<1>1. StepsTo(proc.pc) /\ hist' = hist
  BY Zenon DEF StepsTo, IInv, ProcInv
<1> USE <1>1
<1>2. ProcInv'
  BY ZenonT(40) DEF StepsTo, IInv, ProcInv
<1>3. ServiceInv' /\ RequestInv'
  BY Zenon DEF StepsTo, IInv, ServiceInv, RequestInv
<1>4. StageInv' /\ PlanInv'
  BY Zenon DEF StepsTo, IInv, StageInv, PlanInv
<1>5. DbInv' /\ MoveInv'
  BY Zenon DEF StepsTo, IInv, DbInv, MoveInv
<1>6. HoldInv'
  BY Zenon DEF StepsTo, IInv, ProcInv, HoldInv
<1> QED BY <1>2, <1>3, <1>4, <1>5, <1>6 DEF IInv

\* A block is stored and the chain state follows.
LEMMA AdvanceInv == Keeps(Advance)
<1> SUFFICES ASSUME IInv, Advance PROVE IInv'
  BY DEF Keeps
<1>0. disk \in Disk /\ hist \in [released: BOOLEAN, torn: BOOLEAN, indexed: BOOLEAN, stamp: Nat]
  BY Zenon DEF IInv, DiskInv
<1> USE <1>0
<1>1. PICK c \in Height :
        /\ Served <= c /\ c <= disk.db.blocks + 1
        /\ disk' = WithServed([disk EXCEPT !.db.blocks = disk.db.blocks + 1], c)
  BY DEF Advance
<1>2. /\ proc.pc = "ready" /\ disk.db # NoDb /\ disk.db \in Database /\ UNCHANGED <<proc, hist, events>>
      /\ disk.db.layout \in {"legacy", "unified"} /\ disk.db.blocks < MaxHeight
  BY DEF Advance, Working, IInv, ProcInv, DbInv, Disk
<1> USE <1>2
<1>3. disk.db.blocks \in Nat /\ disk.db.blocks + 1 \in Height
  BY Bounds DEF Database, Height
<1>4. ~hist.torn => c \in 0 .. disk.db.blocks + 1
  <2> SUFFICES ASSUME ~hist.torn PROVE c \in 0 .. disk.db.blocks + 1
    OBVIOUS
  <2>1. c \in Nat
    BY Bounds DEF Height
  <2> QED BY <1>1, <1>3, <2>1
<1> DEFINE n == disk.db.blocks + 1
<1>5. n \in Height /\ n >= disk.db.blocks
  BY <1>3
<1> HIDE DEF n
<1>6. /\ disk' \in Disk /\ disk'.db # NoDb /\ disk'.db.layout = disk.db.layout
      /\ disk'.db.backup = disk.db.backup /\ disk'.db.blocks = n
      /\ disk'.aside = disk.aside /\ disk'.snap = disk.snap /\ disk'.staging = disk.staging
      /\ disk'.intent = disk.intent /\ disk'.marker = disk.marker /\ disk'.hold = disk.hold
      /\ ServedChain(disk'.db, disk'.legacy) = c
  BY <1>1, <1>5, ServedFacts DEF n
<1> USE <1>6
<1>7. ~hist.torn => Fits(ServedChain(disk'.db, disk'.legacy), disk'.db)
  BY <1>4 DEF Fits, n
<1>8. DiskInv'
  BY <1>5, <1>7, WrittenDisk
<1> QED BY <1>8, WorkedInv

\* A snapshot is taken of the open database.
LEMMA BackupInv == Keeps(Backup)
<1> SUFFICES ASSUME IInv, Backup PROVE IInv'
  BY DEF Keeps
<1>0. disk \in Disk
  BY Zenon DEF IInv, DiskInv
<1>1. proc.pc = "ready" /\ disk.db # NoDb /\ disk.db.layout = "unified" /\ UNCHANGED <<proc, hist, events>>
  BY DEF Backup, Working, IInv, ProcInv, DbInv
<1> USE <1>1
<1>2. /\ disk' \in Disk /\ disk'.db = disk.db /\ disk'.legacy = disk.legacy
      /\ disk'.aside = disk.aside /\ disk'.snap = disk.db /\ disk'.staging = disk.staging
      /\ disk'.intent = disk.intent /\ disk'.marker = disk.marker /\ disk'.hold = disk.hold
  BY <1>0 DEF Backup, Disk
<1>3. ~hist.torn => Restorable(disk.db)
  BY DEF IInv, DiskInv, Restorable, ServedChain
<1>4. DiskInv'
  BY <1>2, <1>3, Zenon DEF IInv, DiskInv, Restorable, BackupFits, Fits
<1> QED BY <1>2, <1>4, WorkedInv

\* All but the staged snapshot is as it was.
StagingOnly ==
    /\ disk' \in Disk /\ disk'.db = disk.db /\ disk'.legacy = disk.legacy
    /\ disk'.aside = disk.aside /\ disk'.snap = disk.snap
    /\ disk'.intent = disk.intent /\ disk'.marker = disk.marker /\ disk'.hold = disk.hold
    /\ disk'.preDb = disk.preDb /\ disk'.preChain = disk.preChain

\* Staging begins with a copy of a snapshot that may be put in place.
LEMMA StageBegunDisk ==
    ASSUME IInv, CanStage(disk), NEW far \in BOOLEAN, disk' = StageBegun(disk, far),
           UNCHANGED <<hist, events>>
    PROVE  DiskInv' /\ StagingOnly /\ disk'.staging.st = "partial"
<1> DEFINE db == [disk.snap EXCEPT !.origin = "restored", !.whole = FALSE]
<1>1. disk \in Disk /\ disk.snap # NoDb /\ disk.snap \in Database /\ disk.staging.st = "none"
  BY Zenon DEF IInv, DiskInv, Disk, CanStage
<1> USE <1>1
<1>2. /\ db \in Database /\ db.layout = disk.snap.layout /\ db.chain = disk.snap.chain
      /\ db.blocks = disk.snap.blocks /\ db.backup = disk.snap.backup
  BY Zenon DEF Database
<1>3. disk' = [disk EXCEPT !.staging = [st |-> "partial", far |-> far, db |-> db]]
  BY DEF StageBegun
<1> HIDE DEF db
<1>4. [st |-> "partial", far |-> far, db |-> db] \in Staging
  BY <1>2 DEF Staging
<1>5. StagingOnly /\ disk'.staging = [st |-> "partial", far |-> far, db |-> db]
  BY <1>3, <1>4 DEF StagingOnly, Disk
<1> USE <1>5
<1>6. disk'.staging.st = "partial" /\ disk'.staging.db = db
  OBVIOUS
<1>7. Restorable(disk.snap)
  BY Zenon DEF IInv, DiskInv
<1>8. DiskInv'
  BY <1>2, <1>6, <1>7, NoDbIsNone, ZenonT(40) DEF StagingOnly, IInv, DiskInv, Restorable, BackupFits, Covers, Fits
<1> QED BY <1>6, <1>8

\* Staging ends with the whole snapshot.
LEMMA StageDoneDisk ==
    ASSUME IInv, disk.staging.st = "partial", disk' = StageDone(disk), UNCHANGED events,
           hist' \in [released: BOOLEAN, torn: BOOLEAN, indexed: BOOLEAN, stamp: Nat],
           hist'.torn = hist.torn, hist'.stamp = hist.stamp
    PROVE  DiskInv' /\ StagingOnly /\ disk'.staging.st = "complete" /\ disk'.staging.db # NoDb
<1>1. disk \in Disk /\ disk.staging \in Staging /\ disk.staging.db \in Database
  BY Zenon DEF IInv, DiskInv, Disk, Staging
<1> DEFINE db == [disk.staging.db EXCEPT !.whole = TRUE]
           new == [disk.staging EXCEPT !.st = "complete", !.db = db]
<1>2. /\ db \in Database /\ db.layout = disk.staging.db.layout /\ db.chain = disk.staging.db.chain
      /\ db.blocks = disk.staging.db.blocks /\ db.backup = disk.staging.db.backup
  BY <1>1, Zenon DEF Database
<1>3. disk' = [disk EXCEPT !.staging = new]
  BY <1>1, Zenon DEF StageDone, Staging, Disk
<1> HIDE DEF db
<1>4. new \in Staging /\ new.st = "complete" /\ new.db = db
  BY <1>1, <1>2, Zenon DEF Staging
<1> HIDE DEF new
<1>5. StagingOnly /\ disk'.staging = new
  BY <1>1, <1>3, <1>4 DEF StagingOnly, Disk
<1>6. DiskInv'
  <2>1. Restorable(disk.staging.db)
    BY Zenon DEF IInv, DiskInv
  <2>2. db.layout = "unified" /\ Fits(db.chain, db) /\ Covers(db, disk.aside, hist.stamp)
    BY <1>2, <2>1 DEF Restorable, BackupFits, Covers, Fits
  <2>3. Restorable(disk.staging.db)'
    BY <1>4, <1>5, <2>2 DEF StagingOnly, Restorable, BackupFits
  <2> QED BY <1>4, <1>5, <2>3, ZenonT(40) DEF StagingOnly, IInv, DiskInv, Restorable, BackupFits
<1> QED BY <1>2, <1>4, <1>5, <1>6, NoDbIsNone

\* Staging fails, and nothing is left of it.
LEMMA StageAbortedDisk ==
    ASSUME IInv, disk.staging.st = "partial", disk' = StageAborted(disk), events' \in 0 .. MaxEvents,
           hist' \in [released: BOOLEAN, torn: BOOLEAN, indexed: BOOLEAN, stamp: Nat],
           hist'.torn = hist.torn, hist'.stamp = hist.stamp
    PROVE  DiskInv' /\ StagingOnly /\ disk'.staging.st = "none"
<1>1. disk \in Disk /\ NoStaging \in Staging /\ NoStaging.st = "none"
  BY Zenon DEF IInv, DiskInv, NoStaging, Staging
<1> USE <1>1
<1>2. StagingOnly /\ disk'.staging = NoStaging
  BY DEF StageAborted, StagingOnly, Disk
<1>3. DiskInv'
  BY <1>2, ZenonT(40) DEF StagingOnly, IInv, DiskInv, Restorable, BackupFits, Fits
<1> QED BY <1>2, <1>3

\* A session of the admin server goes on.
LEMMA SessionInv ==
    ASSUME IInv, DiskInv', StagingOnly, UNCHANGED hist, NEW b \in BOOLEAN,
           proc' = [proc EXCEPT !.session = b],
           proc.pc \in {"ready", "stop", "returned", "close", "activate"},
           b => disk'.staging.st = "partial"
    PROVE  IInv'
<1>1. /\ Fields \subseteq DOMAIN proc' /\ proc'.pc = proc.pc /\ proc'.session = b
      /\ proc'.mode = proc.mode /\ proc'.enable = proc.enable /\ proc'.disable = proc.disable
      /\ proc'.then = proc.then /\ proc'.open = proc.open /\ proc'.started = proc.started
      /\ proc'.todo = proc.todo /\ proc'.path = proc.path /\ proc'.renamed = proc.renamed
      /\ proc'.requested = proc.requested /\ proc'.conf = proc.conf /\ proc'.clean = proc.clean
  BY Zenon DEF IInv, ProcInv, Fields
<1> USE <1>1
<1>2. ProcInv'
  BY Zenon DEF IInv, ProcInv
<1>3. ServiceInv' /\ RequestInv'
  BY ZenonT(40) DEF StagingOnly, IInv, ServiceInv, RequestInv
<1>4. StageInv' /\ PlanInv'
  BY Zenon DEF StagingOnly, IInv, StageInv, PlanInv
<1>5. DbInv' /\ MoveInv'
  BY Zenon DEF StagingOnly, IInv, DbInv, MoveInv
<1>6. HoldInv'
  BY Zenon DEF StagingOnly, IInv, ProcInv, HoldInv
<1> QED BY <1>2, <1>3, <1>4, <1>5, <1>6 DEF IInv

\* A session begins to stage a snapshot.
LEMMA SessionStagesInv ==
    ASSUME NEW far \in BOOLEAN
    PROVE  Keeps(SessionStages(far))
<1> SUFFICES ASSUME IInv, SessionStages(far) PROVE IInv'
  BY DEF Keeps
<1>1. DiskInv' /\ StagingOnly /\ disk'.staging.st = "partial"
  BY StageBegunDisk DEF SessionStages
<1> QED BY <1>1, SessionInv, Zenon DEF SessionStages, Working

\* The session's snapshot is staged.
LEMMA SessionStagedInv == Keeps(SessionStaged)
<1> SUFFICES ASSUME IInv, SessionStaged PROVE IInv'
  BY DEF Keeps
<1>1. /\ disk.staging.st = "partial" /\ proc.pc \in {"ready", "stop", "returned", "close", "activate"}
      /\ hist' = hist /\ hist \in [released: BOOLEAN, torn: BOOLEAN, indexed: BOOLEAN, stamp: Nat]
  BY Zenon DEF SessionStaged, IInv, StageInv, DiskInv
<1>2. DiskInv' /\ StagingOnly
  BY <1>1, StageDoneDisk DEF SessionStaged
<1> QED BY <1>1, <1>2, SessionInv, Zenon DEF SessionStaged

\* An activation is asked for.
LEMMA RequestActivationInv == Keeps(RequestActivation)
<1> SUFFICES ASSUME IInv, RequestActivation PROVE IInv'
  BY DEF Keeps
<1>0. disk \in Disk /\ hist \in [released: BOOLEAN, torn: BOOLEAN, indexed: BOOLEAN, stamp: Nat]
  BY Zenon DEF IInv, DiskInv
<1>1. /\ disk' \in Disk /\ disk'.db = disk.db /\ disk'.legacy = disk.legacy
      /\ disk'.aside = disk.aside /\ disk'.snap = disk.snap /\ disk'.staging = disk.staging
      /\ disk'.intent = TRUE /\ disk'.marker = disk.marker /\ disk'.hold = disk.hold
  BY <1>0, Zenon DEF RequestActivation, WriteIntent, Disk
<1>2. /\ proc.pc \in {"ready", "stop"} /\ disk.db # NoDb
      /\ proc.pc = "ready" => disk.db.layout \in {"legacy", "unified"}
  BY Zenon DEF RequestActivation, IInv, ProcInv, DbInv
<1>3. DiskInv'
  BY <1>0, <1>1, FlagsDisk DEF RequestActivation, CanActivate
<1> QED BY <1>1, <1>2, <1>3, WorkedInv DEF RequestActivation

-----------------------------------------------------------------------------
(* Stopping *)

\* stop_all is done with a service, whether it stopped or threw.
LEMMA StopStepInv ==
    ASSUME IInv, DiskInv', UNCHANGED <<disk, hist>>, proc.pc = "stop", NEW S \in SUBSET proc.started, NEW q,
           \/ proc' = [proc EXCEPT !.started = S, !.todo = q]
           \/ proc' = [proc EXCEPT !.todo = q] /\ S = proc.started
    PROVE  IInv'
<1>1. /\ Fields \subseteq DOMAIN proc' /\ proc'.pc = "stop" /\ proc'.started = S
      /\ proc'.mode = proc.mode /\ proc'.enable = proc.enable /\ proc'.disable = proc.disable
      /\ proc'.then = proc.then /\ proc'.open = proc.open /\ proc'.session = proc.session
      /\ proc'.path = proc.path /\ proc'.renamed = proc.renamed
      /\ proc'.requested = proc.requested /\ proc'.conf = proc.conf /\ proc'.clean = proc.clean
  BY ZenonT(40) DEF IInv, ProcInv, Fields
<1> USE <1>1
<1>2. ProcInv'
  BY DEF IInv, ProcInv
<1>3. ServiceInv' /\ RequestInv'
  BY DEF IInv, ServiceInv, RequestInv
<1>4. StageInv' /\ PlanInv'
  BY DEF IInv, StageInv, PlanInv
<1>5. DbInv' /\ MoveInv' /\ HoldInv'
  BY DEF IInv, ProcInv, DbInv, MoveInv, HoldInv
<1> QED BY <1>2, <1>3, <1>4, <1>5 DEF IInv

\* A service stops.
LEMMA StopNextInv == Keeps(StopNext)
<1> SUFFICES ASSUME IInv, StopNext PROVE IInv'
  BY DEF Keeps
<1>1. DiskInv' /\ UNCHANGED <<disk, hist>>
  BY DiskUnchanged DEF StopNext
<1>2. proc' = [proc EXCEPT !.started = proc.started \ {Head(proc.todo)}, !.todo = Tail(proc.todo)]
  BY DEF StopNext
<1> QED BY <1>1, <1>2, StopStepInv, Zenon DEF StopNext

\* A service throws when it is stopped.
LEMMA StopFailsInv == Keeps(StopFails)
<1> SUFFICES ASSUME IInv, StopFails PROVE IInv'
  BY DEF Keeps
<1>1. DiskInv' /\ UNCHANGED <<disk, hist>>
  BY EventDisk DEF StopFails
<1>2. proc' = [proc EXCEPT !.todo = Tail(proc.todo)]
  BY DEF StopFails
<1> QED BY <1>1, <1>2, StopStepInv, Zenon DEF StopFails

\* All services have been stopped.
LEMMA StoppedAllInv == Keeps(StoppedAll)
<1> SUFFICES ASSUME IInv, StoppedAll PROVE IInv'
  BY DEF Keeps
<1>1. proc.pc = "stop" /\ UNCHANGED <<disk, events>>
  BY DEF StoppedAll
<1> USE <1>1
<1>2. \/ Exit
      \/ Goto("returned") /\ UNCHANGED hist
      \/ proc.then = "close" /\ Goto("close") /\ UNCHANGED hist
  <2>1. proc.then \in {"exit", "returned", "close"}
    BY DEF IInv, RequestInv
  <2> QED BY <2>1, Zenon DEF StoppedAll
<1>3. CASE Exit
  BY <1>3, ExitInv
<1>4. CASE Goto("returned") /\ UNCHANGED hist
  <2>1. DiskInv' /\ UNCHANGED <<disk, hist>> /\ StepsTo("returned")
    BY <1>4, DiskUnchanged, GotoSteps
  <2> QED
    <3> USE <1>1, <2>1
    <3>1. ProcInv'
      BY DEF StepsTo, IInv, ProcInv
    <3>2. ServiceInv' /\ PlanInv'
      BY DEF StepsTo, IInv, ProcInv, ServiceInv, PlanInv
    <3>3. RequestInv' /\ StageInv'
      BY DEF StepsTo, IInv, ProcInv, RequestInv, StageInv
    <3>4. DbInv' /\ MoveInv'
      BY DEF StepsTo, IInv, ProcInv, DbInv, MoveInv
    <3>5. HoldInv'
      BY DEF StepsTo, IInv, ProcInv, HoldInv
    <3> QED BY <3>1, <3>2, <3>3, <3>4, <3>5 DEF IInv
<1>5. CASE proc.then = "close" /\ Goto("close") /\ UNCHANGED hist
  <2>1. DiskInv' /\ UNCHANGED <<disk, hist>> /\ StepsTo("close")
    BY <1>5, DiskUnchanged, GotoSteps
  <2> QED
    <3> USE <1>1, <1>5, <2>1
    <3>1. ProcInv'
      BY DEF StepsTo, IInv, ProcInv
    <3>2. ServiceInv' /\ PlanInv'
      BY DEF StepsTo, IInv, ProcInv, ServiceInv, PlanInv
    <3>3. RequestInv' /\ StageInv'
      BY DEF StepsTo, IInv, ProcInv, RequestInv, StageInv
    <3>4. DbInv' /\ MoveInv'
      BY DEF StepsTo, IInv, ProcInv, DbInv, MoveInv
    <3>5. HoldInv'
      BY DEF StepsTo, IInv, ProcInv, HoldInv
    <3> QED BY <3>1, <3>2, <3>3, <3>4, <3>5 DEF IInv
<1> QED BY <1>2, <1>3, <1>4, <1>5

\* The database is closed before its directory is moved.
LEMMA CloseInv == Keeps(Close)
<1> SUFFICES ASSUME IInv, Close PROVE IInv'
  BY DEF Keeps
<1>1. DiskInv' /\ UNCHANGED <<disk, hist>> /\ disk.intent
  BY DiskUnchanged DEF Close, IInv, RequestInv
<1>2. /\ Fields \subseteq DOMAIN proc' /\ proc'.pc = "activate" /\ proc'.then = "exit"
      /\ proc'.open = FALSE /\ proc'.started = proc.started
      /\ proc'.mode = proc.mode /\ proc'.enable = proc.enable /\ proc'.disable = proc.disable
      /\ proc'.session = proc.session /\ proc'.path = proc.path /\ proc'.renamed = proc.renamed
      /\ proc'.requested = proc.requested /\ proc'.conf = proc.conf /\ proc'.clean = proc.clean
  BY DEF IInv, ProcInv, Fields, Close
<1> QED
  <2> USE <1>1, <1>2
  <2>1. ProcInv'
    BY DEF Close, IInv, ProcInv
  <2>2. ServiceInv' /\ PlanInv'
    BY DEF Close, IInv, ProcInv, ServiceInv, PlanInv
  <2>3. RequestInv' /\ StageInv'
    BY DEF Close, IInv, ProcInv, RequestInv, StageInv
  <2>4. DbInv' /\ MoveInv'
    BY DEF Close, IInv, ProcInv, DbInv, MoveInv
  <2>5. HoldInv'
    BY DEF Close, IInv, ProcInv, HoldInv
  <2> QED BY <2>1, <2>2, <2>3, <2>4, <2>5 DEF IInv

-----------------------------------------------------------------------------
(* Staging by command *)

\* A process ends of itself after its last write.
LEMMA WrittenExitInv ==
    ASSUME IInv, DiskInv', proc' = Off, hist'.released = hist.released, hist'.torn = hist.torn,
           disk'.db = disk.db \/ disk'.db # NoDb, disk'.marker = disk.marker,
           disk'.hold = disk.hold, disk'.intent = disk.intent,
           proc.pc \notin {"preserve chain", "move"} \cup Brought
    PROVE  IInv'
  BY EndedInv, Zenon DEF IInv, DbInv, HoldInv

\* Leaving main forgets only what the process itself had done.
LEMMA ExitHist ==
    ASSUME IInv, Exit
    PROVE  /\ hist' \in [released: BOOLEAN, torn: BOOLEAN, indexed: BOOLEAN, stamp: Nat]
           /\ hist'.released = hist.released /\ hist'.torn = hist.torn
           /\ hist'.stamp = hist.stamp /\ proc' = Off
  BY Zenon DEF Exit, IInv, DiskInv

\* A command begins to stage a snapshot.
LEMMA StageCommandInv ==
    ASSUME NEW far \in BOOLEAN
    PROVE  Keeps(StageCommand(far))
<1> SUFFICES ASSUME IInv, StageCommand(far) PROVE IInv'
  BY DEF Keeps
<1>1. CASE CanStage(disk)
  <2>1. DiskInv' /\ StagingOnly /\ disk'.staging.st = "partial" /\ hist' = hist
    BY <1>1, StageBegunDisk DEF StageCommand
  <2>2. StepsTo("staging")
    BY <1>1, GotoSteps DEF StageCommand
  <2> QED
    <3> USE <2>1, <2>2
    <3>1. ProcInv'
      BY DEF StageCommand, StagingOnly, StepsTo, IInv, ProcInv
    <3>2. ServiceInv' /\ PlanInv'
      BY DEF StageCommand, StagingOnly, StepsTo, IInv, ProcInv, ServiceInv, PlanInv
    <3>3. RequestInv' /\ StageInv'
      BY DEF StageCommand, StagingOnly, StepsTo, IInv, ProcInv, RequestInv, StageInv
    <3>4. DbInv' /\ MoveInv'
      BY DEF StageCommand, StagingOnly, StepsTo, IInv, ProcInv, DbInv, MoveInv
    <3>5. HoldInv'
      BY DEF StageCommand, StagingOnly, StepsTo, IInv, ProcInv, HoldInv
    <3> QED BY <3>1, <3>2, <3>3, <3>4, <3>5 DEF IInv
<1>2. CASE ~CanStage(disk)
  BY <1>2, ExitInv DEF StageCommand
<1> QED BY <1>1, <1>2

\* The command's snapshot is staged, and activated if that was asked for.
LEMMA StageEndsInv == Keeps(StageEnds)
<1> SUFFICES ASSUME IInv, StageEnds PROVE IInv'
  BY DEF Keeps
<1>1. disk.staging.st = "partial" /\ proc.pc = "staging" /\ disk' = StageDone(disk) /\ UNCHANGED events
  BY DEF StageEnds, IInv, StageInv
<1> USE <1>1
<1>2. CASE proc.mode = "restore"
  <2>1. hist' = hist /\ hist \in [released: BOOLEAN, torn: BOOLEAN, indexed: BOOLEAN, stamp: Nat]
    BY <1>2, Zenon DEF StageEnds, IInv, DiskInv
  <2>2. DiskInv' /\ StagingOnly /\ disk'.staging.st = "complete" /\ StepsTo("activate")
    BY <1>2, <2>1, StageDoneDisk, GotoSteps DEF StageEnds
  <2> QED
    <3> USE <1>1, <1>2, <2>1, <2>2
    <3>1. ProcInv'
      BY DEF StagingOnly, StepsTo, IInv, ProcInv
    <3>2. ServiceInv' /\ PlanInv'
      BY DEF StagingOnly, StepsTo, IInv, ProcInv, ServiceInv, PlanInv
    <3>3. RequestInv' /\ StageInv'
      BY DEF StagingOnly, StepsTo, IInv, ProcInv, RequestInv, StageInv
    <3>4. DbInv' /\ MoveInv'
      BY DEF StagingOnly, StepsTo, IInv, ProcInv, DbInv, MoveInv
    <3>5. HoldInv'
      BY DEF StagingOnly, StepsTo, IInv, ProcInv, HoldInv
    <3> QED BY <3>1, <3>2, <3>3, <3>4, <3>5 DEF IInv
<1>3. CASE proc.mode # "restore"
  <2>1. Exit
    BY <1>3 DEF StageEnds
  <2>2. DiskInv' /\ StagingOnly
    BY <2>1, ExitHist, StageDoneDisk
  <2> QED BY <2>1, <2>2, ExitHist, WrittenExitInv DEF StagingOnly
<1> QED BY <1>2, <1>3

\* A copy or a checksum fails.
LEMMA StageFailsInv == Keeps(StageFails)
<1> SUFFICES ASSUME IInv, StageFails PROVE IInv'
  BY DEF Keeps
<1>1. disk' = StageAborted(disk) /\ events' \in 0 .. MaxEvents
  BY EventBound DEF StageFails
<1>2. CASE proc.session /\ proc' = [proc EXCEPT !.session = FALSE] /\ UNCHANGED hist
  <2> USE <1>2
  <2>1. /\ disk.staging.st = "partial" /\ proc.pc \in {"ready", "stop", "returned", "close", "activate"}
        /\ hist \in [released: BOOLEAN, torn: BOOLEAN, indexed: BOOLEAN, stamp: Nat]
    BY Zenon DEF IInv, StageInv, DiskInv
  <2>2. DiskInv' /\ StagingOnly
    BY <1>1, <2>1, StageAbortedDisk
  <2> QED BY <2>1, <2>2, SessionInv, Zenon
<1>3. CASE proc.pc = "staging" /\ Exit
  <2> USE <1>3
  <2>1. disk.staging.st = "partial"
    BY DEF IInv, StageInv
  <2>2. DiskInv' /\ StagingOnly
    BY <1>1, <2>1, ExitHist, StageAbortedDisk
  <2> QED BY <2>2, ExitHist, WrittenExitInv DEF StagingOnly
<1> QED BY <1>2, <1>3 DEF StageFails

-----------------------------------------------------------------------------
(* Activation *)

\* The activation is begun where there is something to activate.
LEMMA ActivateInv == Keeps(Activate)
<1> SUFFICES ASSUME IInv, Activate PROVE IInv'
  BY DEF Keeps
<1>1. CASE CanActivate(disk)
  <2>1. DiskInv' /\ disk' = disk /\ hist' = hist /\ StepsTo("preserve db")
    BY <1>1, DiskUnchanged, GotoSteps, Zenon DEF Activate
  <2>2. ~proc.session
    BY <1>1, Zenon DEF CanActivate, IInv, StageInv
  <2> QED
    <3> USE <1>1, <2>1, <2>2
    <3>1. ProcInv'
      BY Zenon DEF Activate, StepsTo, IInv, ProcInv
    <3>2. ServiceInv' /\ PlanInv'
      BY Zenon DEF Activate, StepsTo, IInv, ProcInv, ServiceInv, PlanInv
    <3>3. RequestInv' /\ StageInv'
      BY Zenon DEF Activate, StepsTo, IInv, ProcInv, RequestInv, StageInv
    <3>4. DbInv' /\ MoveInv'
      BY Zenon DEF Activate, StepsTo, IInv, ProcInv, DbInv, MoveInv
    <3>5. HoldInv'
      BY Zenon DEF Activate, StepsTo, IInv, ProcInv, HoldInv
    <3> QED BY <3>1, <3>2, <3>3, <3>4, <3>5, Zenon DEF IInv
<1>2. CASE ~CanActivate(disk)
  BY <1>2, ExitInv DEF Activate
<1> QED BY <1>1, <1>2

\* What an activation puts in place may be put in place of anything.
LEMMA ActivationDisk ==
    ASSUME IInv, disk.staging.st = "complete", disk' \in Disk, disk'.aside = disk.aside,
           disk'.staging.st = "complete",
           disk'.staging.db = NoDb \/ Restorable(disk'.staging.db),
           disk'.db = NoDb \/ Restorable(disk'.db),
           hist' \in [released: BOOLEAN, torn: BOOLEAN, indexed: BOOLEAN, stamp: Nat],
           hist'.stamp = hist.stamp, UNCHANGED events
    PROVE  DiskInv'
<1>1. \A db : Restorable(db) => /\ db.layout = "unified" /\ Fits(db.chain, db)
                                /\ Covers(db, disk.aside, hist.stamp)
  BY DEF Restorable, BackupFits
<1>2. /\ disk'.staging.db # NoDb => Restorable(disk.staging.db)'
      /\ disk'.db # NoDb => Restorable(disk.db)'
  BY <1>1 DEF Restorable, BackupFits
<1>3. \A p \in BackupPaths(hist'.stamp) : disk'.aside[p] = NoChain
  BY Zenon DEF IInv, DiskInv
<1> QED BY <1>2, <1>3, Zenon DEF IInv, DiskInv, Restorable, ServedChain

\* The parts of the disk that an activation does not look at.
FlagsKept ==
    /\ disk'.intent = disk.intent /\ disk'.hold = disk.hold /\ disk'.aside = disk.aside
    /\ disk'.snap = disk.snap

\* What is known while an activation takes the staged snapshot.
LEMMA TakingFacts ==
    ASSUME IInv, proc.pc \in Taking
    PROVE  /\ disk \in Disk /\ disk.staging \in Staging /\ disk.staging.st = "complete"
           /\ disk.staging.db # NoDb /\ disk.staging.db \in Database
           /\ Restorable(disk.staging.db) /\ ~proc.session
           /\ hist \in [released: BOOLEAN, torn: BOOLEAN, indexed: BOOLEAN, stamp: Nat]
<1>1. disk \in Disk /\ disk.staging.st = "complete" /\ disk.staging.db # NoDb
  BY Zenon DEF IInv, DiskInv, StageInv, CanActivate
<1> QED BY <1>1, Zenon DEF IInv, DiskInv, StageInv, Disk, Staging

\* db/ is set aside.
LEMMA ActivateDbInv == Keeps(ActivateDb)
<1> SUFFICES ASSUME IInv, ActivateDb PROVE IInv'
  BY DEF Keeps
<1>1. /\ disk \in Disk /\ disk.staging.st = "complete" /\ disk.staging.db # NoDb
      /\ Restorable(disk.staging.db) /\ ~proc.session
      /\ hist \in [released: BOOLEAN, torn: BOOLEAN, indexed: BOOLEAN, stamp: Nat]
  BY TakingFacts, Zenon DEF ActivateDb
<1>2. /\ disk' \in Disk /\ disk'.db = NoDb /\ disk'.staging = disk.staging /\ FlagsKept
      /\ disk'.marker = disk.marker
  BY <1>1, Zenon DEF ActivateDb, PreserveDb, FlagsKept, Disk
<1>3. DiskInv'
  BY <1>1, <1>2, ActivationDisk, Zenon DEF ActivateDb, FlagsKept
<1>4. StepsTo("preserve chain") /\ hist' = hist /\ proc.pc = "preserve db"
  BY GotoSteps, Zenon DEF ActivateDb
<1> QED
  <2> USE <1>1, <1>2, <1>3, <1>4
  <2>1. ProcInv'
    BY Zenon DEF FlagsKept, StepsTo, CanActivate, IInv, ProcInv
  <2>2. ServiceInv' /\ PlanInv'
    BY Zenon DEF FlagsKept, StepsTo, CanActivate, IInv, ProcInv, ServiceInv, PlanInv
  <2>3. RequestInv' /\ StageInv'
    BY ZenonT(40) DEF FlagsKept, StepsTo, CanActivate, IInv, ProcInv, RequestInv, StageInv
  <2>4. DbInv' /\ MoveInv'
    BY ZenonT(40) DEF FlagsKept, StepsTo, CanActivate, IInv, ProcInv, RequestInv, DbInv, MoveInv
  <2>5. HoldInv'
    BY Zenon DEF FlagsKept, StepsTo, CanActivate, IInv, ProcInv, HoldInv
  <2> QED BY <2>1, <2>2, <2>3, <2>4, <2>5, Zenon DEF IInv

\* chain/blockchain is set aside.
LEMMA ActivateLegacyInv == Keeps(ActivateLegacy)
<1> SUFFICES ASSUME IInv, ActivateLegacy PROVE IInv'
  BY DEF Keeps
<1>1. /\ disk \in Disk /\ disk.staging.st = "complete" /\ disk.staging.db # NoDb
      /\ Restorable(disk.staging.db) /\ ~proc.session
      /\ hist \in [released: BOOLEAN, torn: BOOLEAN, indexed: BOOLEAN, stamp: Nat]
  BY TakingFacts, Zenon DEF ActivateLegacy
<1>2. disk.db = NoDb /\ NoChain \in Chain
  BY Zenon DEF ActivateLegacy, IInv, DbInv, Chain
<1>3. /\ disk' \in Disk /\ disk'.db = NoDb /\ disk'.staging = disk.staging /\ FlagsKept
      /\ disk'.marker = disk.marker
  BY <1>1, <1>2, Zenon DEF ActivateLegacy, PreserveLegacy, FlagsKept, Disk
<1>4. DiskInv'
  BY <1>1, <1>3, ActivationDisk, Zenon DEF ActivateLegacy, FlagsKept
<1>5. StepsTo("move") /\ hist' = hist
  BY GotoSteps, Zenon DEF ActivateLegacy
<1> QED
  <2> USE <1>1, <1>3, <1>4, <1>5
  <2>1. ProcInv'
    BY Zenon DEF ActivateLegacy, FlagsKept, StepsTo, CanActivate, IInv, ProcInv
  <2>2. ServiceInv' /\ PlanInv'
    BY ZenonT(40) DEF ActivateLegacy, FlagsKept, StepsTo, CanActivate, IInv, ProcInv, ServiceInv, PlanInv
  <2>3. RequestInv' /\ StageInv'
    BY ZenonT(40) DEF ActivateLegacy, FlagsKept, StepsTo, CanActivate, IInv, ProcInv, RequestInv, StageInv
  <2>4. DbInv' /\ MoveInv'
    BY ZenonT(40) DEF ActivateLegacy, FlagsKept, StepsTo, CanActivate, IInv, ProcInv, DbInv, MoveInv
  <2>5. HoldInv'
    BY Zenon DEF ActivateLegacy, FlagsKept, StepsTo, CanActivate, IInv, ProcInv, HoldInv
  <2> QED BY <2>1, <2>2, <2>3, <2>4, <2>5 DEF IInv

\* A copy of a restorable database is restorable, whole or not.
LEMMA CopyRestorable ==
    ASSUME NEW db \in Database, Restorable(db), NEW b \in BOOLEAN
    PROVE  LET c == [db EXCEPT !.whole = b]
           IN  c \in Database /\ c # NoDb /\ Restorable(c) /\ c.whole = b
<1> DEFINE c == [db EXCEPT !.whole = b]
<1>1. /\ c \in Database /\ c.layout = db.layout /\ c.chain = db.chain /\ c.blocks = db.blocks
      /\ c.backup = db.backup /\ c.whole = b
  BY DEF Database
<1> HIDE DEF c
<1>2. Restorable(c) /\ c # NoDb
  BY <1>1, NoDbIsNone DEF Restorable, BackupFits, Covers, Fits
<1> QED BY <1>1, <1>2 DEF c

\* The activation goes on with the snapshot in db/.
LEMMA BroughtInv ==
    ASSUME IInv, proc.pc \in Taking, DiskInv', FlagsKept, disk'.marker = disk.marker,
           disk'.db # NoDb, Restorable(disk'.db), disk'.staging.st = "complete",
           NEW pc \in Brought, StepsTo(pc), pc # "mark" => disk'.staging.db # NoDb,
           pc = "copy" => ~disk'.db.whole,
           hist'.stamp = hist.stamp, hist'.torn = hist.torn, hist'.indexed = hist.indexed
    PROVE  IInv'
<1>1. ~proc.session
  BY TakingFacts, Zenon
<1>2. Restorable(disk.db)'
  BY Zenon DEF FlagsKept, Restorable, BackupFits
<1>3. ProcInv'
  BY Zenon DEF StepsTo, IInv, ProcInv
<1>4. ServiceInv' /\ RequestInv'
  BY ZenonT(40) DEF FlagsKept, StepsTo, IInv, ServiceInv, RequestInv
<1>5. StageInv' /\ PlanInv'
  BY <1>1, Zenon DEF StepsTo, StageInv, PlanInv, CanActivate
<1>6. DbInv' /\ MoveInv'
  BY <1>2, Zenon DEF StepsTo, DbInv, MoveInv
<1>7. HoldInv'
  BY Zenon DEF FlagsKept, StepsTo, IInv, ProcInv, RequestInv, HoldInv
<1> QED BY <1>3, <1>4, <1>5, <1>6, <1>7, Zenon DEF IInv

\* The staged database is renamed, or its copy to another file system begins.
LEMMA ActivateMoveInv == Keeps(ActivateMove)
<1> SUFFICES ASSUME IInv, ActivateMove PROVE IInv'
  BY DEF Keeps
<1>0. proc.pc \in Taking
  BY DEF ActivateMove
<1> USE <1>0
<1>1. /\ disk \in Disk /\ disk.staging \in Staging /\ disk.staging.st = "complete"
      /\ disk.staging.db # NoDb /\ disk.staging.db \in Database /\ Restorable(disk.staging.db)
      /\ hist \in [released: BOOLEAN, torn: BOOLEAN, indexed: BOOLEAN, stamp: Nat]
  BY TakingFacts, Zenon
<1> USE <1>1
<1>2. /\ hist' \in [released: BOOLEAN, torn: BOOLEAN, indexed: BOOLEAN, stamp: Nat]
      /\ hist'.stamp = hist.stamp /\ hist'.torn = hist.torn /\ hist'.indexed = hist.indexed
      /\ UNCHANGED events
  BY Zenon DEF ActivateMove, Moved
<1> USE <1>2
<1>3. CASE disk.staging.far
  <2> DEFINE c == [disk.staging.db EXCEPT !.whole = FALSE]
  <2>1. c \in Database /\ c # NoDb /\ Restorable(c) /\ ~c.whole
    BY CopyRestorable, Zenon
  <2> USE <2>1
  <2>2. disk' = [disk EXCEPT !.db = c] /\ StepsTo("copy")
    BY <1>3, GotoSteps DEF ActivateMove, CopyStarted
  <2> HIDE DEF c
  <2>3. disk' \in Disk /\ disk'.db = c /\ disk'.staging = disk.staging /\ FlagsKept /\ disk'.marker = disk.marker
    BY <2>2, Zenon DEF Disk, FlagsKept
  <2>4. DiskInv'
    BY <2>3, ActivationDisk, Zenon DEF FlagsKept
  <2> QED BY <2>2, <2>3, <2>4, BroughtInv, Zenon
<1>4. CASE ~disk.staging.far
  <2> DEFINE s == [disk.staging EXCEPT !.db = NoDb]
  <2>1. s \in Staging /\ s.st = "complete" /\ s.db = NoDb
    BY Zenon DEF Staging
  <2> USE <2>1
  <2>2. disk' = [disk EXCEPT !.db = disk.staging.db, !.staging = s] /\ StepsTo("mark")
    BY <1>4, GotoSteps DEF ActivateMove, MoveRenamed
  <2> HIDE DEF s
  <2>3. disk' \in Disk /\ disk'.db = disk.staging.db /\ disk'.staging = s /\ FlagsKept /\ disk'.marker = disk.marker
    BY <2>2, Zenon DEF Disk, FlagsKept
  <2>4. DiskInv'
    BY <2>3, ActivationDisk, Zenon DEF FlagsKept
  <2> QED BY <2>2, <2>3, <2>4, BroughtInv, Zenon
<1> QED BY <1>3, <1>4, Zenon

\* The copy is complete.
LEMMA ActivateCopiedInv == Keeps(ActivateCopied)
<1> SUFFICES ASSUME IInv, ActivateCopied PROVE IInv'
  BY DEF Keeps
<1>0. proc.pc \in Taking /\ hist' = hist /\ UNCHANGED events
  BY DEF ActivateCopied
<1> USE <1>0
<1>1. /\ disk \in Disk /\ disk.staging \in Staging /\ disk.staging.st = "complete"
      /\ disk.staging.db # NoDb /\ disk.staging.db \in Database /\ Restorable(disk.staging.db)
      /\ hist \in [released: BOOLEAN, torn: BOOLEAN, indexed: BOOLEAN, stamp: Nat]
  BY TakingFacts, Zenon
<1> USE <1>1
<1>2. disk' = [disk EXCEPT !.db = disk.staging.db] /\ StepsTo("copied")
  BY GotoSteps DEF ActivateCopied, CopyFinished
<1>3. /\ disk' \in Disk /\ disk'.db = disk.staging.db /\ disk'.staging = disk.staging /\ FlagsKept
      /\ disk'.marker = disk.marker
  BY <1>2, Zenon DEF Disk, FlagsKept
<1>4. DiskInv'
  BY <1>3, ActivationDisk, Zenon DEF FlagsKept
<1> QED BY <1>2, <1>3, <1>4, BroughtInv, Zenon

\* remove_all has begun on the source of the copy.
LEMMA ActivateRemovingInv == Keeps(ActivateRemoving)
<1> SUFFICES ASSUME IInv, ActivateRemoving PROVE IInv'
  BY DEF Keeps
<1>0. proc.pc \in Taking /\ proc.pc = "copied" /\ hist' = hist /\ UNCHANGED events
  BY DEF ActivateRemoving
<1> USE <1>0
<1>1. /\ disk \in Disk /\ disk.staging \in Staging /\ disk.staging.st = "complete"
      /\ disk.staging.db # NoDb /\ disk.staging.db \in Database /\ Restorable(disk.staging.db)
      /\ hist \in [released: BOOLEAN, torn: BOOLEAN, indexed: BOOLEAN, stamp: Nat]
  BY TakingFacts
<1> USE <1>1
<1>2. disk.db # NoDb /\ Restorable(disk.db)
  BY DEF IInv, DbInv
<1> DEFINE c == [disk.staging.db EXCEPT !.whole = FALSE]
           s == [disk.staging EXCEPT !.db = c]
<1>3. c \in Database /\ c # NoDb /\ Restorable(c)
  BY CopyRestorable, Zenon
<1> USE <1>3
<1>4. disk' = [disk EXCEPT !.staging = s] /\ StepsTo("removing")
  BY GotoSteps DEF ActivateRemoving, SourceRemoving, Disk, Staging
<1> HIDE DEF c
<1>5. s \in Staging /\ s.st = "complete" /\ s.db = c
  BY DEF Staging
<1> USE <1>5
<1> HIDE DEF s
<1>6. disk' \in Disk /\ disk'.db = disk.db /\ disk'.staging = s /\ FlagsKept /\ disk'.marker = disk.marker
  BY <1>4 DEF Disk, FlagsKept
<1>7. DiskInv'
  BY <1>2, <1>6, ActivationDisk DEF FlagsKept
<1> QED BY <1>2, <1>4, <1>6, <1>7, BroughtInv

\* The source of the copy is gone.
LEMMA ActivateRemovedInv == Keeps(ActivateRemoved)
<1> SUFFICES ASSUME IInv, ActivateRemoved PROVE IInv'
  BY DEF Keeps
<1>0. proc.pc \in Taking /\ proc.pc = "removing" /\ hist' = hist /\ UNCHANGED events
  BY DEF ActivateRemoved
<1> USE <1>0
<1>1. /\ disk \in Disk /\ disk.staging \in Staging /\ disk.staging.st = "complete"
      /\ hist \in [released: BOOLEAN, torn: BOOLEAN, indexed: BOOLEAN, stamp: Nat]
  BY TakingFacts
<1> USE <1>1
<1>2. disk.db # NoDb /\ Restorable(disk.db)
  BY DEF IInv, DbInv
<1> DEFINE s == [disk.staging EXCEPT !.db = NoDb]
<1>3. s \in Staging /\ s.st = "complete" /\ s.db = NoDb
  BY DEF Staging
<1> USE <1>3
<1>4. disk' = [disk EXCEPT !.staging = s] /\ StepsTo("mark")
  BY GotoSteps DEF ActivateRemoved, SourceRemoved, Disk
<1> HIDE DEF s
<1>5. disk' \in Disk /\ disk'.db = disk.db /\ disk'.staging = s /\ FlagsKept /\ disk'.marker = disk.marker
  BY <1>4 DEF Disk, FlagsKept
<1>6. DiskInv'
  BY <1>2, <1>5, ActivationDisk DEF FlagsKept
<1> QED BY <1>2, <1>4, <1>5, <1>6, BroughtInv

\* The marker is written.
LEMMA ActivateMarkInv == Keeps(ActivateMark)
<1> SUFFICES ASSUME IInv, ActivateMark PROVE IInv'
  BY DEF Keeps
<1>1. /\ disk \in Disk /\ disk.staging.st = "complete" /\ proc.pc = "mark" /\ ~proc.session
      /\ disk.db # NoDb /\ disk.db \in Database /\ Restorable(disk.db) /\ UNCHANGED events
      /\ hist \in [released: BOOLEAN, torn: BOOLEAN, indexed: BOOLEAN, stamp: Nat]
      /\ disk.staging.db = NoDb \/ Restorable(disk.staging.db)
  BY Zenon DEF ActivateMark, IInv, DiskInv, StageInv, DbInv, Disk
<1> USE <1>1
<1>2. /\ disk' \in Disk /\ disk'.db = disk.db /\ disk'.staging = disk.staging /\ FlagsKept
      /\ disk'.marker = TRUE
  BY Zenon DEF ActivateMark, WriteMarker, FlagsKept, Disk
<1>3. disk.db.whole \in BOOLEAN
  BY DEF Database
<1>4. /\ hist' \in [released: BOOLEAN, torn: BOOLEAN, indexed: BOOLEAN, stamp: Nat]
      /\ hist'.stamp = hist.stamp /\ hist'.indexed = hist.indexed
  BY <1>3, Zenon DEF ActivateMark
<1>5. DiskInv'
  BY <1>2, <1>4, ActivationDisk DEF FlagsKept
<1>6. CASE proc.then = "cli"
  <2>1. proc' = Off
    BY <1>6 DEF ActivateMark
  <2> QED BY <1>2, <1>5, <2>1, EndedInv
<1>7. CASE proc.then # "cli"
  <2>1. StepsTo("intent")
    BY <1>7, GotoSteps DEF ActivateMark
  <2> QED
    <3> USE <1>1, <1>2, <1>4, <1>5, <2>1
    <3>1. ProcInv'
      BY DEF FlagsKept, StepsTo, IInv, ProcInv
    <3>2. ServiceInv' /\ PlanInv'
      BY DEF FlagsKept, StepsTo, IInv, ProcInv, ServiceInv, PlanInv
    <3>3. RequestInv' /\ StageInv'
      BY DEF FlagsKept, StepsTo, IInv, ProcInv, RequestInv, StageInv
    <3>4. DbInv' /\ MoveInv'
      BY DEF FlagsKept, StepsTo, IInv, ProcInv, DbInv, MoveInv
    <3>5. HoldInv'
      BY DEF FlagsKept, StepsTo, IInv, ProcInv, HoldInv
    <3> QED BY <3>1, <3>2, <3>3, <3>4, <3>5 DEF IInv
<1> QED BY <1>6, <1>7

\* The request is removed once it has been carried out.
LEMMA ActivateEndsInv == Keeps(ActivateEnds)
<1> SUFFICES ASSUME IInv, ActivateEnds PROVE IInv'
  BY DEF Keeps
<1>0. disk \in Disk /\ hist \in [released: BOOLEAN, torn: BOOLEAN, indexed: BOOLEAN, stamp: Nat]
  BY Zenon DEF IInv, DiskInv
<1>1. /\ disk' \in Disk /\ disk'.db = disk.db /\ disk'.legacy = disk.legacy
      /\ disk'.aside = disk.aside /\ disk'.snap = disk.snap /\ disk'.staging = disk.staging
      /\ disk'.intent = FALSE /\ disk'.marker = disk.marker /\ disk'.hold = disk.hold
  BY <1>0, Zenon DEF ActivateEnds, RemoveIntent, Disk
<1> USE <1>1
<1>2. /\ proc.pc = "intent" /\ disk.db # NoDb /\ UNCHANGED events
      /\ hist.released \/ hist.torn \/ disk.marker \/ disk.hold
  BY DEF ActivateEnds, IInv, DbInv, HoldInv
<1>3. CASE proc.then = "open"
  <2> USE <1>0, <1>2, <1>3
  <2>1. hist' = hist /\ StepsTo("open")
    BY GotoSteps DEF ActivateEnds
  <2>2. DiskInv'
    BY <2>1, FlagsDisk
  <2>3. ~proc.requested /\ ~proc.session
    BY DEF IInv, RequestInv, StageInv
  <2> QED
    <3> USE <1>1, <1>2, <1>3, <2>1, <2>2, <2>3
    <3>1. ProcInv'
      BY DEF StepsTo, IInv, ProcInv
    <3>2. ServiceInv' /\ PlanInv'
      BY DEF StepsTo, IInv, ProcInv, ServiceInv, PlanInv
    <3>3. RequestInv' /\ StageInv'
      BY DEF StepsTo, IInv, ProcInv, RequestInv, StageInv
    <3>4. DbInv' /\ MoveInv'
      BY DEF StepsTo, IInv, ProcInv, DbInv, MoveInv
    <3>5. HoldInv'
      BY DEF StepsTo, IInv, ProcInv, HoldInv
    <3> QED BY <3>1, <3>2, <3>3, <3>4, <3>5 DEF IInv
<1>4. CASE proc.then # "open"
  <2>1. Exit
    BY <1>4 DEF ActivateEnds
  <2>2. DiskInv'
    BY <1>2, <2>1, ExitHist, FlagsDisk
  <2> QED BY <1>2, <2>1, <2>2, ExitHist, EndedInv
<1> QED BY <1>3, <1>4

\* The process dies at any step.
LEMMA DiesInv == Keeps(Dies)
<1> SUFFICES ASSUME IInv, Dies PROVE IInv'
  BY DEF Keeps
<1>1. /\ disk' = disk /\ proc' = Off /\ events' \in 0 .. MaxEvents
      /\ hist \in [released: BOOLEAN, torn: BOOLEAN, indexed: BOOLEAN, stamp: Nat]
  BY EventBound, Zenon DEF Dies, IInv, DiskInv
<1> USE <1>1
<1>2. TornByEnd \in BOOLEAN
  BY DEF TornByEnd
<1>3. /\ hist' \in [released: BOOLEAN, torn: BOOLEAN, indexed: BOOLEAN, stamp: Nat]
      /\ hist'.released = hist.released /\ hist'.stamp = hist.stamp
      /\ hist'.torn = (hist.torn \/ TornByEnd)
  BY <1>2, Zenon DEF Dies
<1> USE <1>3
<1>4. TornByEnd => disk.staging.st = "complete"
  BY Zenon DEF TornByEnd, IInv, StageInv, CanActivate
<1>5. DiskInv'
  BY <1>4, Zenon DEF IInv, DiskInv, Restorable, BackupFits, Fits
<1>6. disk.db = NoDb /\ ~hist'.torn => disk.intent
  BY Zenon DEF IInv, DbInv, TornByEnd
<1>7. hist.released \/ hist'.torn \/ disk.marker \/ disk.hold \/ disk.intent
  BY Zenon DEF IInv, HoldInv, TornByEnd
<1> QED BY <1>5, <1>6, <1>7, EndedInv

-----------------------------------------------------------------------------
(* Moving the chain state *)

\* What was set aside for db is still there, has gone back, or is none of its own.
LEMMA CoversLater ==
    ASSUME NEW db \in Database, NEW a, NEW b, NEW s \in Nat, NEW t \in Nat, Covers(db, a, s), s <= t,
           NEW x, db.backup # x, \A p \in Paths \ {x} : b[p] \in {a[p], NoChain}
    PROVE  Covers(db, b, t)
<1>0. db.backup \in Paths \cup {NoPath}
  BY DEF Database
<1>4. Paths \cup {NoPath} \subseteq Nat
  BY Bounds DEF NoPath
<1>1. db.backup \in Nat
  BY <1>0, <1>4
<1>3. db.backup # NoPath => db.backup \in Paths \ {x}
  BY <1>0
<1>2. db.backup <= t
  BY <1>1 DEF Covers
<1> QED BY <1>1, <1>2, <1>3 DEF Covers

\* A write of a migration or of a rollback; x is the directory it may fill.
LEMMA MovedDisk ==
    ASSUME IInv, disk' \in Disk, disk.db # NoDb, disk'.db # NoDb, disk'.db.layout # "",
           disk'.snap = disk.snap, disk'.staging = disk.staging, disk'.intent = disk.intent,
           hist' \in [released: BOOLEAN, torn: BOOLEAN, indexed: BOOLEAN, stamp: Nat],
           hist'.torn = hist.torn, hist'.stamp >= hist.stamp, UNCHANGED events,
           NEW x, \A p \in Paths \ {x} : disk'.aside[p] \in {disk.aside[p], NoChain},
           disk.staging.st # "complete" /\ disk.snap # NoDb => disk.snap.backup # x,
           disk.staging.st # "none" /\ disk.staging.db # NoDb => disk.staging.db.backup # x,
           ~hist.torn =>
             /\ disk'.db.layout # "migration-in-progress"
                  => Fits(ServedChain(disk'.db, disk'.legacy), disk'.db)
             /\ Covers(disk'.db, disk'.aside, hist'.stamp),
           \A p \in BackupPaths(hist'.stamp) : disk'.aside[p] = NoChain
    PROVE  DiskInv'
<1>1. disk \in Disk /\ hist.stamp \in Nat /\ hist'.stamp \in Nat
  BY Zenon DEF IInv, DiskInv
<1> USE <1>1
<1>2. disk.staging.st # "complete" /\ disk.snap # NoDb => Restorable(disk.snap)'
  <2> SUFFICES ASSUME disk.staging.st # "complete", disk.snap # NoDb
               PROVE  Restorable(disk.snap)'
    BY Zenon
  <2>1. disk.snap \in Database /\ Restorable(disk.snap)
    BY Zenon DEF IInv, DiskInv, Disk
  <2>2. Covers(disk.snap, disk'.aside, hist'.stamp)
    BY <2>1, CoversLater, Zenon DEF Restorable, BackupFits
  <2> QED BY <2>1, <2>2, Zenon DEF Restorable, BackupFits
<1>3. disk.staging.st # "none" /\ disk.staging.db # NoDb => Restorable(disk.staging.db)'
  <2> SUFFICES ASSUME disk.staging.st # "none", disk.staging.db # NoDb
               PROVE  Restorable(disk.staging.db)'
    BY Zenon
  <2>1. disk.staging.db \in Database /\ Restorable(disk.staging.db)
    BY Zenon DEF IInv, DiskInv, Disk, Staging
  <2>2. Covers(disk.staging.db, disk'.aside, hist'.stamp)
    BY <2>1, CoversLater, Zenon DEF Restorable, BackupFits
  <2> QED BY <2>1, <2>2, Zenon DEF Restorable, BackupFits
<1> QED BY <1>2, <1>3, Zenon DEF IInv, DiskInv, BackupFits

\* A command that moves the chain state goes on; the other parts of the invariant are
\* about other processes.
LEMMA MovingInv ==
    ASSUME IInv, DiskInv', ProcInv', MoveInv',
           proc.pc \in {"migrate", "rollback"} \cup MigrateSteps \cup RollbackSteps,
           proc'.pc \in MigrateSteps \cup RollbackSteps \cup {"undo"},
           proc'.then = proc.then, proc'.started = proc.started, proc'.session = proc.session,
           proc'.requested = proc.requested,
           disk'.db # NoDb, disk'.intent = disk.intent, disk'.marker = disk.marker,
           disk'.hold = disk.hold, disk'.staging = disk.staging,
           hist'.released = hist.released, hist'.torn = hist.torn, hist'.indexed = hist.indexed
    PROVE  IInv'
<1>1. ServiceInv' /\ RequestInv'
  BY Zenon DEF IInv, ServiceInv, RequestInv
<1>2. StageInv' /\ PlanInv'
  BY Zenon DEF IInv, StageInv, PlanInv
<1>3. DbInv'
  BY Zenon DEF IInv, DbInv
<1>4. HoldInv'
  BY Zenon DEF IInv, ProcInv, HoldInv
<1> QED BY <1>1, <1>2, <1>3, <1>4, Zenon DEF IInv

\* The parts of the disk that no migration touches.
MoveKeeps ==
    /\ disk'.snap = disk.snap /\ disk'.staging = disk.staging /\ disk'.intent = disk.intent
    /\ disk'.marker = disk.marker /\ disk'.hold = disk.hold

\* What is known of the disk by a command that has opened it.
LEMMA MovingFacts ==
    ASSUME IInv, proc.open
    PROVE  /\ disk \in Disk /\ disk.db # NoDb /\ disk.db \in Database /\ disk.db.blocks \in Nat
           /\ disk.aside \in [Paths -> Chain] /\ disk.legacy \in Chain
           /\ hist \in [released: BOOLEAN, torn: BOOLEAN, indexed: BOOLEAN, stamp: Nat]
<1>1. /\ disk \in Disk /\ disk.db # NoDb /\ disk.db \in Database
      /\ hist \in [released: BOOLEAN, torn: BOOLEAN, indexed: BOOLEAN, stamp: Nat]
  BY Zenon DEF IInv, DiskInv, DbInv, Disk
<1>2. disk.db.blocks \in Nat
  BY <1>1, Bounds DEF Database, Height
<1> QED BY <1>1, <1>2 DEF Disk

\* A write to the storage metadata or to the chain families.
LEMMA DbWrites ==
    ASSUME disk \in Disk, NEW db \in Database, disk' = [disk EXCEPT !.db = db]
    PROVE  /\ disk' \in Disk /\ disk'.db = db /\ disk'.db # NoDb /\ disk'.legacy = disk.legacy
           /\ disk'.aside = disk.aside /\ disk'.preDb = disk.preDb
           /\ disk'.preChain = disk.preChain /\ MoveKeeps
<1>1. /\ disk' \in Disk /\ disk'.db = db /\ disk'.legacy = disk.legacy
      /\ disk'.aside = disk.aside /\ disk'.preDb = disk.preDb
      /\ disk'.preChain = disk.preChain /\ MoveKeeps
  BY DEF Disk, MoveKeeps
<1> QED BY <1>1, NoDbIsNone

\* The layout is one field of the metadata.
LEMMA LayoutWritten ==
    ASSUME NEW db \in Database, NEW layout \in Layouts
    PROVE  LET e == WriteLayout(db, layout)
           IN  /\ e \in Database /\ e.layout = layout /\ e.chain = db.chain /\ e.blocks = db.blocks
               /\ e.backup = db.backup /\ e.origin = db.origin /\ e.whole = db.whole
  BY DEF WriteLayout, Database

\* The chain state that a layout would name.
LEMMA WouldServe ==
    ASSUME NEW db \in Database, NEW legacy, NEW layout \in Layouts
    PROVE  ServedChain(WriteLayout(db, layout), legacy)
             = IF layout = "unified" THEN db.chain ELSE legacy
  BY LayoutWritten DEF ServedChain

\* A migration is begun: the directory that it names has never been used.
LEMMA MigrateInv == Keeps(Migrate)
<1> SUFFICES ASSUME IInv, Migrate PROVE IInv'
  BY DEF Keeps
<1> DEFINE db == WriteLayout(disk.db, "migration-in-progress")
<1>1. proc.pc = "migrate" /\ proc.open
  BY Zenon DEF Migrate, IInv, ProcInv
<1>2. CASE ~CanMigrate(disk.db, disk.legacy, disk.aside, hist.stamp)
  BY <1>1, <1>2, ExitInv DEF Migrate
<1>3. CASE CanMigrate(disk.db, disk.legacy, disk.aside, hist.stamp)
  <2>1. PICK p \in BackupPaths(hist.stamp) :
            /\ disk.aside[p] = NoChain /\ disk' = [disk EXCEPT !.db = db]
            /\ proc' = [proc EXCEPT !.pc = "m copy", !.path = p]
            /\ hist' = [hist EXCEPT !.stamp = p] /\ UNCHANGED events
    BY <1>3, Zenon DEF Migrate
  <2>2. /\ disk \in Disk /\ disk.db # NoDb /\ disk.db \in Database /\ disk.db.blocks \in Nat
        /\ disk.aside \in [Paths -> Chain] /\ disk.legacy \in Chain
        /\ hist \in [released: BOOLEAN, torn: BOOLEAN, indexed: BOOLEAN, stamp: Nat]
    BY <1>1, MovingFacts
  <2>3. /\ db \in Database /\ db.layout = "migration-in-progress" /\ db.chain = disk.db.chain
        /\ db.blocks = disk.db.blocks /\ db.backup = disk.db.backup
    BY <2>2, LayoutWritten, Zenon DEF Layouts
  <2>4. /\ disk' \in Disk /\ disk'.db = db /\ disk'.db # NoDb /\ disk'.legacy = disk.legacy
        /\ disk'.aside = disk.aside /\ MoveKeeps
    <3> HIDE DEF db
    <3> QED BY <2>1, <2>2, <2>3, DbWrites
  <2>5. p \in Paths /\ p \in Nat /\ p > hist.stamp /\ hist.stamp \in Nat /\ hist.stamp <= p
    <3>1. p \in Paths /\ p \in Nat /\ p > hist.stamp
      BY Bounds DEF BackupPaths
    <3> QED BY <2>2, <3>1
  <2>6. /\ hist' \in [released: BOOLEAN, torn: BOOLEAN, indexed: BOOLEAN, stamp: Nat]
        /\ hist'.released = hist.released /\ hist'.torn = hist.torn
        /\ hist'.indexed = hist.indexed /\ hist'.stamp = p
    BY <2>1, <2>2, <2>5
  <2>7. /\ ~hist.torn => Covers(disk.db, disk.aside, hist.stamp) /\ Fits(disk.legacy, disk.db)
        /\ disk.legacy # NoChain
    BY <1>3, <2>2 DEF IInv, DiskInv, CanMigrate, ServedChain, BackupFits
  <2>8. /\ ~hist.torn => disk.db.backup # p
        /\ disk.staging.st # "complete" /\ disk.snap # NoDb => disk.snap.backup # p
        /\ disk.staging.st # "none" /\ disk.staging.db # NoDb => disk.staging.db.backup # p
    <3>1. \A d \in Database : Covers(d, disk.aside, hist.stamp) => d.backup # p
      <4> SUFFICES ASSUME NEW d \in Database, Covers(d, disk.aside, hist.stamp)
                   PROVE  d.backup # p
        OBVIOUS
      <4>1. d.backup \in Paths \cup {0}
        BY DEF Database, NoPath
      <4> QED BY <2>2, <2>5, <4>1, Bounds DEF Covers
    <3>2. disk.staging.st # "complete" /\ disk.snap # NoDb
            => disk.snap \in Database /\ Covers(disk.snap, disk.aside, hist.stamp)
      BY <2>2, Zenon DEF IInv, DiskInv, Disk, Restorable, BackupFits
    <3>3. disk.staging.st # "none" /\ disk.staging.db # NoDb
            => disk.staging.db \in Database /\ Covers(disk.staging.db, disk.aside, hist.stamp)
      BY <2>2, Zenon DEF IInv, DiskInv, Disk, Staging, Restorable, BackupFits
    <3> QED BY <2>2, <2>7, <3>1, <3>2, <3>3
  <2>9. ~hist.torn => Covers(db, disk.aside, p)
    <3>1. \A q \in Paths \ {p} : disk.aside[q] \in {disk.aside[q], NoChain}
      OBVIOUS
    <3>2. ~hist.torn => Covers(disk.db, disk.aside, p)
      BY <2>2, <2>5, <2>7, <2>8, <3>1, CoversLater, Zenon
    <3> HIDE DEF db
    <3> QED BY <2>3, <3>2 DEF Covers, Fits
  <2>10. \A q \in BackupPaths(p) : disk.aside[q] = NoChain
    <3>1. \A q \in Paths : q > p => q > hist.stamp
      BY <2>5, Bounds
    <3>2. BackupPaths(p) \subseteq BackupPaths(hist.stamp)
      BY <3>1 DEF BackupPaths
    <3> QED BY <3>2, Zenon DEF IInv, DiskInv
  <2>11. DiskInv'
    <3>1. \A q \in Paths \ {p} : disk'.aside[q] \in {disk.aside[q], NoChain}
      BY <2>4
    <3>2. hist'.stamp >= hist.stamp
      BY <2>5, <2>6
    <3> HIDE DEF db
    <3>3. ~hist.torn => Covers(disk'.db, disk'.aside, hist'.stamp)
      BY <2>4, <2>6, <2>9
    <3>4. \A q \in BackupPaths(hist'.stamp) : disk'.aside[q] = NoChain
      BY <2>4, <2>6, <2>10
    <3>5. disk'.db.layout = "migration-in-progress"
      BY <2>3, <2>4
    <3>6. UNCHANGED events
      BY <2>1
    <3> QED BY <2>2, <2>4, <2>6, <2>8, <3>1, <3>2, <3>3, <3>4, <3>5, <3>6, MovedDisk DEF MoveKeeps
  <2>12. /\ Fields \subseteq DOMAIN proc' /\ proc'.pc = "m copy" /\ proc'.path = p
         /\ proc'.mode = proc.mode /\ proc'.enable = proc.enable /\ proc'.disable = proc.disable
         /\ proc'.then = proc.then /\ proc'.open = proc.open /\ proc'.started = proc.started
         /\ proc'.renamed = proc.renamed /\ proc'.requested = proc.requested
         /\ proc'.session = proc.session /\ proc'.conf = proc.conf /\ proc'.clean = proc.clean
    BY <2>1, Zenon DEF IInv, ProcInv, Fields
  <2>13. ProcInv'
    BY <1>1, <2>5, <2>12, Zenon DEF IInv, ProcInv
  <2>14. MoveInv'
    <3>1. Undone' = "legacy"
      BY <1>1, <2>12, Zenon DEF IInv, ProcInv, Undone, MigrationUndone
    <3>2. ServedChain(WriteLayout(db, "legacy"), disk.legacy) = disk.legacy
      BY <2>3, WouldServe, Zenon DEF Layouts
    <3>3. ~hist.torn => Fits(disk.legacy, db)
      BY <2>3, <2>7 DEF Fits
    <3> HIDE DEF db
    <3> QED BY <2>1, <2>3, <2>4, <2>5, <2>6, <2>7, <2>8, <2>12, <3>1, <3>2, <3>3 DEF MoveInv, MoveKeeps
  <2> QED BY <1>1, <2>4, <2>6, <2>11, <2>12, <2>13, <2>14, MovingInv, Zenon DEF MoveKeeps
<1> QED BY <1>2, <1>3

\* A write to the metadata or to the chain families sets nothing aside.
LEMMA DbWritten ==
    ASSUME IInv, disk.db # NoDb, NEW db \in Database, disk' = [disk EXCEPT !.db = db],
           db.layout # "", UNCHANGED events,
           hist' \in [released: BOOLEAN, torn: BOOLEAN, indexed: BOOLEAN, stamp: Nat],
           hist'.torn = hist.torn, hist'.stamp = hist.stamp,
           ~hist.torn =>
             /\ db.layout # "migration-in-progress" => Fits(ServedChain(db, disk.legacy), db)
             /\ Covers(db, disk.aside, hist.stamp)
    PROVE  DiskInv'
<1>1. /\ disk' \in Disk /\ disk'.db = db /\ disk'.db # NoDb /\ disk'.legacy = disk.legacy
      /\ disk'.aside = disk.aside /\ disk'.snap = disk.snap /\ disk'.staging = disk.staging
      /\ disk'.intent = disk.intent
  BY DbWrites, Zenon DEF IInv, DiskInv, MoveKeeps
<1> QED BY <1>1, ZenonT(40) DEF IInv, DiskInv, Restorable, BackupFits

\* What a step that fills the chain families needs and keeps.
LEMMA CopyFacts ==
    ASSUME IInv, proc.pc \in {"m copy", "m copied"}
    PROVE  /\ disk.db.layout = "migration-in-progress" /\ Undone = "legacy"
           /\ ~hist.torn => Covers(disk.db, disk.aside, hist.stamp) /\ Fits(disk.legacy, disk.db)
<1>1. disk.db # NoDb /\ disk.db \in Database
  BY MovingFacts, Zenon DEF IInv, ProcInv
<1>2. Undone = "legacy"
  BY Zenon DEF IInv, ProcInv, Undone, MigrationUndone
<1>3. ServedChain(WriteLayout(disk.db, "legacy"), disk.legacy) = disk.legacy
  BY <1>1, WouldServe, Zenon DEF Layouts
<1> QED BY <1>1, <1>2, <1>3, Zenon DEF IInv, DiskInv, MoveInv, BackupFits

\* Filling the chain families: c is what is in them.
LEMMA FillInv ==
    ASSUME IInv, NEW c \in Chain, NEW pc \in {"m copied", "m rename"}, Goto(pc),
           proc.pc \in {"m copy", "m copied"},
           disk' = [disk EXCEPT !.db = [disk.db EXCEPT !.chain = c]], UNCHANGED <<hist, events>>
    PROVE  IInv'
<1> DEFINE db == [disk.db EXCEPT !.chain = c]
<1>1. /\ disk \in Disk /\ disk.db # NoDb /\ disk.db \in Database
      /\ hist \in [released: BOOLEAN, torn: BOOLEAN, indexed: BOOLEAN, stamp: Nat]
  BY MovingFacts, Zenon DEF IInv, ProcInv
<1> USE <1>1
<1>2. /\ disk.db.layout = "migration-in-progress" /\ Undone = "legacy"
      /\ ~hist.torn => Covers(disk.db, disk.aside, hist.stamp) /\ Fits(disk.legacy, disk.db)
  BY CopyFacts, Zenon
<1> USE <1>2
<1>3. /\ db \in Database /\ db.layout = "migration-in-progress" /\ db.blocks = disk.db.blocks
      /\ db.backup = disk.db.backup
  BY Zenon DEF Database
<1> USE <1>3
<1>4. StepsTo(pc)
  BY GotoSteps, Zenon
<1> USE <1>4
<1>5. disk' = [disk EXCEPT !.db = db] /\ UNCHANGED <<hist, events>>
  BY Zenon
<1> USE <1>5
<1> HIDE DEF db
<1>6. /\ disk' \in Disk /\ disk'.db = db /\ disk'.db # NoDb /\ disk'.legacy = disk.legacy
      /\ disk'.aside = disk.aside /\ MoveKeeps
  BY DbWrites, Zenon
<1> USE <1>6
<1>7. ~hist.torn => Covers(db, disk.aside, hist.stamp) /\ Fits(disk.legacy, db)
  BY Zenon DEF Covers, Fits
<1>8. DiskInv'
  BY <1>7, DbWritten, Zenon
<1>9. ProcInv'
  BY ZenonT(40) DEF IInv, ProcInv, StepsTo
<1>10. MoveInv'
  <2>1. Undone' = "legacy"
    BY ZenonT(40) DEF Undone, StepsTo
  <2>2. ServedChain(WriteLayout(db, "legacy"), disk.legacy) = disk.legacy
    BY WouldServe, Zenon DEF Layouts
  <2>3. ~hist'.torn => Fits(ServedChain(WriteLayout(disk'.db, Undone'), disk'.legacy), disk'.db)
    BY <1>7, <2>1, <2>2, Zenon
  <2>4. /\ disk'.db.backup = disk.db.backup /\ disk'.db.layout = "migration-in-progress"
        /\ proc'.path = proc.path /\ proc'.pc \in {"m copied", "m rename"}
    BY Zenon DEF StepsTo
  <2> QED BY <2>3, <2>4, ZenonT(40) DEF IInv, MoveInv, MoveKeeps
<1> QED BY <1>8, <1>9, <1>10, MovingInv, Zenon DEF MoveKeeps, StepsTo

\* The copy is begun.
LEMMA MigrateCopyInv == Keeps(MigrateCopy)
<1> SUFFICES ASSUME IInv, MigrateCopy PROVE IInv'
  BY DEF Keeps
<1>1. Part \in Chain
  BY DEF Chain
<1>2. disk \in Disk /\ disk' = [disk EXCEPT !.db = [disk.db EXCEPT !.chain = Part]]
  BY Zenon DEF IInv, DiskInv, MigrateCopy, CopyBegun, Disk
<1> QED BY <1>1, <1>2, FillInv, Zenon DEF MigrateCopy

\* The copy is complete.
LEMMA MigrateCopiedInv == Keeps(MigrateCopied)
<1> SUFFICES ASSUME IInv, MigrateCopied PROVE IInv'
  BY DEF Keeps
<1>1. disk.legacy \in Chain
  BY Zenon DEF IInv, DiskInv, Disk
<1>2. disk \in Disk /\ disk' = [disk EXCEPT !.db = [disk.db EXCEPT !.chain = disk.legacy]]
  BY Zenon DEF IInv, DiskInv, MigrateCopied, Copied, Disk
<1> QED BY <1>1, <1>2, FillInv, Zenon DEF MigrateCopied

\* The legacy database is renamed: nothing that db or a snapshot of it names is lost, and
\* from here on the layout to write back is the unified one.
LEMMA MigrateRenameInv == Keeps(MigrateRename)
<1> SUFFICES ASSUME IInv, MigrateRename PROVE IInv'
  BY DEF Keeps
<1>1. proc.pc = "m rename" /\ proc.open /\ disk.db.chain = disk.legacy /\ UNCHANGED <<hist, events>>
  BY Zenon DEF MigrateRename, VerifyCopy, IInv, ProcInv
<1>2. /\ disk \in Disk /\ disk.db # NoDb /\ disk.db \in Database /\ disk.db.blocks \in Nat
      /\ disk.aside \in [Paths -> Chain] /\ disk.legacy \in Chain
      /\ hist \in [released: BOOLEAN, torn: BOOLEAN, indexed: BOOLEAN, stamp: Nat]
  BY <1>1, MovingFacts, Zenon
<1>3. /\ proc.path = hist.stamp /\ proc.path \in Paths /\ disk.db.layout = "migration-in-progress"
      /\ ~hist.torn => disk.db.backup # proc.path
      /\ disk.staging.st # "complete" /\ disk.snap # NoDb => disk.snap.backup # proc.path
      /\ disk.staging.st # "none" /\ disk.staging.db # NoDb => disk.staging.db.backup # proc.path
  BY <1>1, Zenon DEF IInv, MoveInv
<1>4. /\ disk' \in Disk /\ disk'.db = disk.db /\ disk'.legacy = NoChain
      /\ disk'.aside = [disk.aside EXCEPT ![proc.path] = disk.legacy] /\ MoveKeeps
  <2>1. disk' = [disk EXCEPT !.aside = [disk.aside EXCEPT ![proc.path] = disk.legacy],
                             !.legacy = NoChain]
    BY <1>2, Zenon DEF MigrateRename, Disk
  <2>2. [disk.aside EXCEPT ![proc.path] = disk.legacy] \in [Paths -> Chain] /\ NoChain \in Chain
    BY <1>2, <1>3 DEF Chain
  <2> QED BY <1>2, <2>1, <2>2, Zenon DEF Disk, MoveKeeps
<1>5. /\ \A p \in Paths \ {proc.path} : disk'.aside[p] \in {disk.aside[p], NoChain}
      /\ disk'.aside[proc.path] = disk.legacy
  BY <1>2, <1>3, <1>4
<1>6. ~hist.torn => Covers(disk.db, disk.aside, hist.stamp) /\ Fits(disk.legacy, disk.db)
  <2>1. Undone = "legacy"
    BY <1>1, Zenon DEF IInv, ProcInv, Undone, MigrationUndone
  <2>2. ServedChain(WriteLayout(disk.db, "legacy"), disk.legacy) = disk.legacy
    BY <1>2, WouldServe, Zenon DEF Layouts
  <2> QED BY <1>1, <1>2, <2>1, <2>2, Zenon DEF IInv, DiskInv, MoveInv, BackupFits
<1>7. ~hist.torn => Covers(disk'.db, disk'.aside, hist'.stamp)
  <2>1. hist.stamp \in Nat /\ hist.stamp <= hist.stamp
    BY <1>2
  <2>2. ~hist.torn => Covers(disk.db, disk'.aside, hist.stamp)
    BY <1>2, <1>3, <1>5, <1>6, <2>1, CoversLater, Zenon
  <2> QED BY <1>1, <1>4, <2>2, Zenon
<1>8. \A p \in BackupPaths(hist'.stamp) : disk'.aside[p] = NoChain
  <2>1. \A p \in Paths : p > hist.stamp => p # hist.stamp
    BY <1>2, Bounds
  <2>2. \A p \in BackupPaths(hist.stamp) : p \in Paths \ {proc.path}
    BY <1>3, <2>1 DEF BackupPaths
  <2> QED BY <1>1, <1>5, <2>2, Zenon DEF IInv, DiskInv
<1>9. DiskInv'
  <2>0. hist.stamp \in Nat /\ hist.stamp >= hist.stamp
    BY <1>2
  <2>1. hist'.stamp >= hist.stamp /\ hist'.torn = hist.torn /\ UNCHANGED events
    BY <1>1, <2>0, Zenon
  <2>2. hist' \in [released: BOOLEAN, torn: BOOLEAN, indexed: BOOLEAN, stamp: Nat]
    BY <1>1, <1>2, Zenon
  <2>3. disk'.db # NoDb /\ disk'.db.layout = "migration-in-progress"
    BY <1>2, <1>3, <1>4
  <2> QED BY <1>2, <1>3, <1>4, <1>5, <1>7, <1>8, <2>1, <2>2, <2>3, MovedDisk, Zenon DEF MoveKeeps
<1>10. /\ Fields \subseteq DOMAIN proc' /\ proc'.pc = "m unified" /\ proc'.path = proc.path
       /\ proc'.mode = proc.mode /\ proc'.enable = proc.enable /\ proc'.disable = proc.disable
       /\ proc'.then = proc.then /\ proc'.open = proc.open /\ proc'.started = proc.started
       /\ proc'.renamed = TRUE /\ proc'.requested = proc.requested
       /\ proc'.session = proc.session /\ proc'.conf = proc.conf /\ proc'.clean = proc.clean
  BY Zenon DEF MigrateRename, IInv, ProcInv, Fields
<1>11. ProcInv'
  BY <1>1, <1>10, Zenon DEF IInv, ProcInv
<1>12. MoveInv'
  <2>1. Undone' = "unified"
    BY <1>1, <1>10, Zenon DEF IInv, ProcInv, Undone, MigrationUndone
  <2>2. ServedChain(WriteLayout(disk.db, "unified"), NoChain) = disk.db.chain
    BY <1>2, WouldServe, Zenon DEF Layouts
  <2>3. ~hist'.torn =>
          /\ Fits(ServedChain(WriteLayout(disk'.db, Undone'), disk'.legacy), disk'.db)
          /\ Fits(disk'.aside[proc'.path], disk'.db)
    BY <1>1, <1>4, <1>5, <1>6, <1>10, <2>1, <2>2, ZenonT(40)
  <2>4. /\ proc'.path = hist'.stamp /\ proc'.path \in Paths /\ proc'.pc = "m unified"
        /\ disk'.db.layout = "migration-in-progress"
    BY <1>1, <1>3, <1>4, <1>10, Zenon
  <2> QED BY <2>3, <2>4, Zenon DEF MoveInv
<1> QED BY <1>1, <1>2, <1>4, <1>9, <1>10, <1>11, <1>12, MovingInv, Zenon DEF MoveKeeps

\* The layout becomes the unified one: the chain families hold what was verified.
LEMMA MigrateUnifiedInv == Keeps(MigrateUnified)
<1> SUFFICES ASSUME IInv, MigrateUnified PROVE IInv'
  BY DEF Keeps
<1> DEFINE db == WriteLayout(disk.db, "unified")
<1>1. proc.pc = "m unified" /\ proc.open /\ UNCHANGED <<hist, events>>
  BY Zenon DEF MigrateUnified, IInv, ProcInv
<1> USE <1>1
<1>2. /\ disk \in Disk /\ disk.db # NoDb /\ disk.db \in Database
      /\ hist \in [released: BOOLEAN, torn: BOOLEAN, indexed: BOOLEAN, stamp: Nat]
  BY MovingFacts, Zenon
<1> USE <1>2
<1>3. /\ db \in Database /\ db.layout = "unified" /\ db.chain = disk.db.chain
      /\ db.blocks = disk.db.blocks /\ db.backup = disk.db.backup
  BY LayoutWritten, Zenon DEF Layouts
<1> USE <1>3
<1>4. StepsTo("m path")
  BY GotoSteps, Zenon DEF MigrateUnified
<1> USE <1>4
<1>5. disk' = [disk EXCEPT !.db = db]
  BY Zenon DEF MigrateUnified, Disk
<1>6. Undone = "unified" /\ Undone' = "unified"
  BY ZenonT(40) DEF IInv, ProcInv, Undone, MigrationUndone, StepsTo
<1>7. ~hist.torn =>
        /\ Covers(disk.db, disk.aside, hist.stamp) /\ Fits(ServedChain(db, disk.legacy), disk.db)
        /\ Fits(disk.aside[proc.path], disk.db)
  BY <1>6, Zenon DEF IInv, DiskInv, MoveInv, BackupFits
<1>8. WriteLayout(db, "unified") = db
  <2>1. \A d \in Database : d.layout = "unified" => [d EXCEPT !.layout = "unified"] = d
    BY ZenonT(40) DEF Database
  <2> QED BY <2>1, Zenon DEF WriteLayout
<1> HIDE DEF db
<1>9. /\ disk' \in Disk /\ disk'.db = db /\ disk'.db # NoDb /\ disk'.legacy = disk.legacy
      /\ disk'.aside = disk.aside /\ MoveKeeps
  BY <1>5, DbWrites, Zenon
<1>10. ~hist.torn =>
        /\ Covers(db, disk.aside, hist.stamp) /\ Fits(ServedChain(db, disk.legacy), db)
        /\ Fits(disk.aside[proc.path], db)
  BY <1>7, Zenon DEF Covers, Fits
<1>11. DiskInv'
  BY <1>5, <1>10, DbWritten, Zenon
<1>12. ProcInv'
  BY Zenon DEF IInv, ProcInv, StepsTo
<1>13. MoveInv'
  <2>1. proc'.pc = "m path" /\ proc'.path = proc.path
    BY Zenon DEF StepsTo
  <2> QED BY <1>6, <1>8, <1>9, <1>10, <2>1, Zenon DEF IInv, MoveInv
<1> QED BY <1>9, <1>11, <1>12, <1>13, MovingInv, Zenon DEF MoveKeeps, StepsTo

\* The command ends with a write: what is on disk is what the next process finds.
LEMMA MoveEndsInv ==
    ASSUME IInv, NEW db \in Database, disk' = [disk EXCEPT !.db = db], Exit, UNCHANGED events,
           proc.open, db.layout # "", db.layout # "migration-in-progress",
           ~hist.torn => Fits(ServedChain(db, disk.legacy), db) /\ Covers(db, disk.aside, hist.stamp)
    PROVE  IInv'
<1>1. disk \in Disk /\ disk.db # NoDb
  BY MovingFacts, Zenon
<1>2. /\ hist' \in [released: BOOLEAN, torn: BOOLEAN, indexed: BOOLEAN, stamp: Nat]
      /\ hist'.released = hist.released /\ hist'.torn = hist.torn
      /\ hist'.stamp = hist.stamp /\ proc' = Off
  BY ExitHist, Zenon
<1>3. disk'.db # NoDb /\ MoveKeeps
  BY <1>1, DbWrites, Zenon
<1>4. DiskInv'
  BY <1>1, <1>2, DbWritten, Zenon
<1>5. proc.pc \notin {"preserve chain", "move"} \cup Brought
  BY Zenon DEF IInv, ProcInv
<1> QED BY <1>2, <1>3, <1>4, <1>5, WrittenExitInv, Zenon DEF MoveKeeps

\* The migration is complete.
LEMMA MigratePathInv == Keeps(MigratePath)
<1> SUFFICES ASSUME IInv, MigratePath PROVE IInv'
  BY DEF Keeps
<1> DEFINE db == WriteBackupPath(disk.db, proc.path)
<1>1. proc.pc = "m path" /\ proc.open /\ UNCHANGED events /\ Exit
  BY Zenon DEF MigratePath, IInv, ProcInv
<1>2. /\ disk \in Disk /\ disk.db # NoDb /\ disk.db \in Database
      /\ hist \in [released: BOOLEAN, torn: BOOLEAN, indexed: BOOLEAN, stamp: Nat]
  BY <1>1, MovingFacts, Zenon
<1>3. proc.path \in Paths /\ proc.path = hist.stamp
  BY <1>1, Zenon DEF IInv, MoveInv
<1>4. disk.db.layout = "unified"
  BY <1>1, Zenon DEF IInv, MoveInv
<1>5. /\ db \in Database /\ db.layout = "unified" /\ db.chain = disk.db.chain
      /\ db.blocks = disk.db.blocks /\ db.backup = proc.path
  BY <1>2, <1>3, <1>4 DEF WriteBackupPath, Database
<1>6. disk' = [disk EXCEPT !.db = db]
  BY <1>2, Zenon DEF MigratePath, Disk
<1> HIDE DEF db
<1>7. ~hist.torn => Fits(disk.db.chain, disk.db) /\ Fits(disk.aside[proc.path], disk.db)
  BY <1>1, <1>2, <1>4, Zenon DEF IInv, DiskInv, MoveInv, ServedChain
<1>8. ~hist.torn => Fits(ServedChain(db, disk.legacy), db) /\ Covers(db, disk.aside, hist.stamp)
  <2>1. hist.stamp <= hist.stamp
    BY <1>2
  <2> QED BY <1>3, <1>5, <1>7, <2>1 DEF ServedChain, Covers, Fits
<1> QED BY <1>1, <1>5, <1>6, <1>8, MoveEndsInv, Zenon

\* A rollback is begun only from the chain families, with the legacy database set aside.
LEMMA RollbackInv == Keeps(Rollback)
<1> SUFFICES ASSUME IInv, Rollback PROVE IInv'
  BY DEF Keeps
<1> DEFINE db == WriteLayout(disk.db, "migration-in-progress")
<1>1. proc.pc = "rollback" /\ proc.open
  BY Zenon DEF Rollback, IInv, ProcInv
<1> USE <1>1
<1>2. CASE ~CanRollback(disk.db, disk.legacy, disk.aside)
  BY <1>2, ExitInv DEF Rollback
<1>3. CASE CanRollback(disk.db, disk.legacy, disk.aside)
  <2>1. /\ disk \in Disk /\ disk.db # NoDb /\ disk.db \in Database
        /\ hist \in [released: BOOLEAN, torn: BOOLEAN, indexed: BOOLEAN, stamp: Nat]
    BY MovingFacts
  <2> USE <2>1
  <2>2. disk' = [disk EXCEPT !.db = db] /\ Goto("r rename") /\ UNCHANGED <<hist, events>>
    BY <1>3, Zenon DEF Rollback, Disk
  <2> USE <2>2
  <2>3. /\ db \in Database /\ db.layout = "migration-in-progress" /\ db.chain = disk.db.chain
        /\ db.blocks = disk.db.blocks /\ db.backup = disk.db.backup
    BY LayoutWritten, Zenon DEF Layouts
  <2> USE <2>3
  <2>4. StepsTo("r rename")
    BY GotoSteps, Zenon
  <2> USE <2>4
  <2>5. /\ disk.db.backup # NoPath /\ disk.aside[disk.db.backup] # NoChain
        /\ ~hist.torn => Covers(disk.db, disk.aside, hist.stamp) /\ Fits(disk.db.chain, disk.db)
    BY <1>3, Zenon DEF IInv, DiskInv, CanRollback, ServedChain, BackupFits
  <2> HIDE DEF db
  <2>6. ~hist.torn => Covers(db, disk.aside, hist.stamp) /\ Fits(db.chain, db)
    BY <2>5, Zenon DEF Covers, Fits
  <2>7. /\ disk' \in Disk /\ disk'.db = db /\ disk'.db # NoDb /\ disk'.legacy = disk.legacy
        /\ disk'.aside = disk.aside /\ MoveKeeps
    BY DbWrites, Zenon
  <2>8. DiskInv'
    BY <2>6, DbWritten, Zenon
  <2>9. ProcInv'
    BY Zenon DEF IInv, ProcInv, StepsTo
  <2>10. MoveInv'
    <3>1. Undone' = "unified"
      BY Zenon DEF IInv, ProcInv, Undone, RollbackUndone, StepsTo
    <3>2. ServedChain(WriteLayout(db, "unified"), disk.legacy) = db.chain
      BY WouldServe, Zenon DEF Layouts
    <3>3. proc'.pc = "r rename"
      BY Zenon DEF StepsTo
    <3> QED BY <2>5, <2>6, <2>7, <3>1, <3>2, <3>3, ZenonT(40) DEF MoveInv
  <2> QED BY <2>7, <2>8, <2>9, <2>10, MovingInv, Zenon DEF MoveKeeps, StepsTo
<1> QED BY <1>2, <1>3

\* The legacy database is renamed back.
LEMMA RollbackRenameInv == Keeps(RollbackRename)
<1> SUFFICES ASSUME IInv, RollbackRename PROVE IInv'
  BY DEF Keeps
<1> DEFINE q == disk.db.backup
<1>1. proc.pc = "r rename" /\ proc.open /\ UNCHANGED <<hist, events>>
  BY Zenon DEF RollbackRename, IInv, ProcInv
<1>2. /\ disk \in Disk /\ disk.db # NoDb /\ disk.db \in Database
      /\ disk.aside \in [Paths -> Chain]
      /\ hist \in [released: BOOLEAN, torn: BOOLEAN, indexed: BOOLEAN, stamp: Nat]
  BY <1>1, MovingFacts, Zenon
<1>3. /\ disk.db.layout = "migration-in-progress" /\ q # NoPath /\ disk.aside[q] # NoChain
  BY <1>1, Zenon DEF IInv, MoveInv
<1>4. q \in Paths
  BY <1>2, <1>3 DEF Database
<1>5. /\ disk' \in Disk /\ disk'.db = disk.db /\ disk'.legacy = disk.aside[q]
      /\ disk'.aside = [disk.aside EXCEPT ![q] = NoChain] /\ MoveKeeps
  <2>1. disk' = [disk EXCEPT !.legacy = disk.aside[q],
                             !.aside = [disk.aside EXCEPT ![q] = NoChain]]
    BY <1>2, Zenon DEF RollbackRename, Disk
  <2>2. [disk.aside EXCEPT ![q] = NoChain] \in [Paths -> Chain] /\ disk.aside[q] \in Chain
    BY <1>2, <1>4 DEF Chain
  <2> QED BY <1>2, <2>1, <2>2, Zenon DEF Disk, MoveKeeps
<1>6. \A p \in Paths : disk'.aside[p] \in {disk.aside[p], NoChain}
  BY <1>2, <1>4, <1>5
<1>7. ~hist.torn => Covers(disk.db, disk.aside, hist.stamp) /\ Fits(disk.aside[q], disk.db)
  BY <1>1, <1>2, <1>3, Zenon DEF IInv, DiskInv, BackupFits, Covers
<1>8. \A d \in Database : d.backup # NoChain
  <2>1. NoChain \notin Paths \cup {NoPath}
    BY Bounds DEF NoChain, NoPath
  <2> QED BY <2>1 DEF Database
<1>9. ~hist.torn => Covers(disk'.db, disk'.aside, hist'.stamp)
  <2>1. hist.stamp \in Nat /\ hist.stamp <= hist.stamp
    BY <1>2
  <2>2. ~hist.torn => Covers(disk.db, disk'.aside, hist.stamp)
    BY <1>2, <1>6, <1>7, <1>8, <2>1, CoversLater, Zenon
  <2> QED BY <1>1, <1>5, <2>2, Zenon
<1>10. \A p \in BackupPaths(hist'.stamp) : disk'.aside[p] = NoChain
  BY <1>1, <1>6, Zenon DEF IInv, DiskInv, BackupPaths
<1>11. DiskInv'
  <2>0. hist.stamp \in Nat /\ hist.stamp >= hist.stamp
    BY <1>2
  <2>1. hist'.stamp >= hist.stamp /\ hist'.torn = hist.torn /\ UNCHANGED events
    BY <1>1, <2>0, Zenon
  <2>2. hist' \in [released: BOOLEAN, torn: BOOLEAN, indexed: BOOLEAN, stamp: Nat]
    BY <1>1, <1>2, Zenon
  <2>3. disk'.db # NoDb /\ disk'.db.layout = "migration-in-progress"
    BY <1>2, <1>3, <1>5
  <2>4. /\ disk.staging.st # "complete" /\ disk.snap # NoDb => disk.snap.backup # NoChain
        /\ disk.staging.st # "none" /\ disk.staging.db # NoDb => disk.staging.db.backup # NoChain
    BY <1>2, <1>8 DEF Disk, Staging
  <2>5. \A p \in Paths \ {NoChain} : disk'.aside[p] \in {disk.aside[p], NoChain}
    BY <1>6
  <2> QED BY <1>2, <1>5, <1>9, <1>10, <2>1, <2>2, <2>3, <2>4, <2>5, MovedDisk, Zenon DEF MoveKeeps
<1>12. /\ Fields \subseteq DOMAIN proc' /\ proc'.pc = "r legacy" /\ proc'.path = proc.path
       /\ proc'.mode = proc.mode /\ proc'.enable = proc.enable /\ proc'.disable = proc.disable
       /\ proc'.then = proc.then /\ proc'.open = proc.open /\ proc'.started = proc.started
       /\ proc'.renamed = TRUE /\ proc'.requested = proc.requested
       /\ proc'.session = proc.session /\ proc'.conf = proc.conf /\ proc'.clean = proc.clean
  BY Zenon DEF RollbackRename, IInv, ProcInv, Fields
<1>13. ProcInv'
  BY <1>1, <1>12, Zenon DEF IInv, ProcInv
<1>14. MoveInv'
  <2>1. Undone' = "legacy"
    BY <1>1, <1>12, Zenon DEF IInv, ProcInv, Undone, RollbackUndone
  <2>2. ServedChain(WriteLayout(disk.db, "legacy"), disk.aside[q]) = disk.aside[q]
    BY <1>2, WouldServe, Zenon DEF Layouts
  <2> QED BY <1>1, <1>3, <1>5, <1>7, <1>12, <2>1, <2>2, ZenonT(40) DEF MoveInv
<1> QED BY <1>1, <1>2, <1>5, <1>11, <1>12, <1>13, <1>14, MovingInv, Zenon DEF MoveKeeps

\* The rollback is complete.
LEMMA RollbackLegacyInv == Keeps(RollbackLegacy)
<1> SUFFICES ASSUME IInv, RollbackLegacy PROVE IInv'
  BY DEF Keeps
<1> DEFINE db == WriteLayout(disk.db, "legacy")
<1>1. proc.pc = "r legacy" /\ proc.open /\ UNCHANGED events /\ Exit
  BY Zenon DEF RollbackLegacy, IInv, ProcInv
<1> USE <1>1
<1>2. disk \in Disk /\ disk.db # NoDb /\ disk.db \in Database
  BY MovingFacts, Zenon
<1> USE <1>2
<1>3. /\ db \in Database /\ db.layout = "legacy" /\ db.blocks = disk.db.blocks
      /\ db.backup = disk.db.backup
  BY LayoutWritten, Zenon DEF Layouts
<1>4. disk' = [disk EXCEPT !.db = db]
  BY Zenon DEF RollbackLegacy, Disk
<1>5. Undone = "legacy"
  BY Zenon DEF IInv, ProcInv, Undone, RollbackUndone
<1>6. ~hist.torn =>
        Fits(ServedChain(db, disk.legacy), disk.db) /\ Covers(disk.db, disk.aside, hist.stamp)
  BY <1>5, Zenon DEF IInv, DiskInv, MoveInv, BackupFits
<1> HIDE DEF db
<1>7. ~hist.torn => Fits(ServedChain(db, disk.legacy), db) /\ Covers(db, disk.aside, hist.stamp)
  BY <1>3, <1>6, Zenon DEF Covers, Fits
<1> QED BY <1>3, <1>4, <1>7, MoveEndsInv, Zenon

\* A call throws: the catch block finds what the step before left.
LEMMA MoveFailsInv == Keeps(MoveFails)
<1> SUFFICES ASSUME IInv, MoveFails PROVE IInv'
  BY DEF Keeps
<1>1. /\ proc.pc \in MigrateSteps \cup RollbackSteps /\ proc.open /\ Event /\ UNCHANGED <<disk, hist>>
      /\ disk.db # NoDb
  BY Zenon DEF MoveFails, IInv, ProcInv, DbInv
<1> USE <1>1
<1>2. DiskInv'
  BY EventDisk, Zenon
<1>3. StepsTo("undo")
  BY GotoSteps, Zenon DEF MoveFails
<1> USE <1>3
<1>4. ProcInv'
  BY Zenon DEF IInv, ProcInv, StepsTo
<1>5. MoveInv'
  <2>1. Undone' = Undone /\ proc'.pc = "undo"
    BY Zenon DEF Undone, StepsTo
  <2> QED BY <2>1, Zenon DEF IInv, MoveInv
<1> QED BY <1>2, <1>4, <1>5, MovingInv, Zenon DEF StepsTo

\* The catch block writes back the layout that matches where the legacy database is.
LEMMA MoveUndoneInv == Keeps(MoveUndone)
<1> SUFFICES ASSUME IInv, MoveUndone PROVE IInv'
  BY DEF Keeps
<1> DEFINE db == WriteLayout(disk.db, Undone)
<1>1. proc.pc = "undo" /\ proc.open /\ UNCHANGED events /\ Exit
  BY DEF MoveUndone, IInv, ProcInv
<1> USE <1>1
<1>2. disk \in Disk /\ disk.db # NoDb /\ disk.db \in Database
  BY MovingFacts
<1> USE <1>2
<1>3. Undone \in {"legacy", "unified"}
  BY DEF Undone, MigrationUndone, RollbackUndone
<1>4. /\ db \in Database /\ db.layout \in {"legacy", "unified"} /\ db.blocks = disk.db.blocks
      /\ db.backup = disk.db.backup
  <2>1. Undone \in Layouts
    BY <1>3, Zenon DEF Layouts
  <2> QED BY <1>3, <2>1, LayoutWritten, Zenon
<1>5. disk' = [disk EXCEPT !.db = db]
  BY DEF MoveUndone, Disk, Undone
<1>6. ~hist.torn =>
        Fits(ServedChain(db, disk.legacy), disk.db) /\ Covers(disk.db, disk.aside, hist.stamp)
  BY Zenon DEF IInv, DiskInv, MoveInv, BackupFits
<1> HIDE DEF db
<1>7. ~hist.torn => Fits(ServedChain(db, disk.legacy), db) /\ Covers(db, disk.aside, hist.stamp)
  BY <1>4, <1>6 DEF Covers, Fits
<1> QED BY <1>4, <1>5, <1>7, MoveEndsInv, Zenon

-----------------------------------------------------------------------------
(* The dry run, and the invariant *)

\* A step of the dry run: nothing is opened and nothing is written.
LEMMA PlanningInv ==
    ASSUME IInv, UNCHANGED <<disk, hist, events>>, proc.pc \in {"dry run", "try"},
           Fields \subseteq DOMAIN proc', proc'.pc \in {"try", "tried"},
           proc'.mode = proc.mode, proc'.enable = proc.enable, proc'.disable = proc.disable,
           proc'.then = proc.then, proc'.open = proc.open, proc'.started = proc.started,
           proc'.path = proc.path, proc'.renamed = proc.renamed,
           proc'.requested = proc.requested, proc'.session = proc.session,
           proc'.conf = proc.conf, proc'.clean \in BOOLEAN, PlanInv'
    PROVE  IInv'
<1>1. DiskInv'
  BY DiskUnchanged, Zenon
<1>2. ProcInv'
  BY Zenon DEF IInv, ProcInv
<1>3. ServiceInv' /\ RequestInv' /\ StageInv'
  BY Zenon DEF IInv, ServiceInv, RequestInv, StageInv
<1>4. DbInv' /\ MoveInv' /\ HoldInv'
  BY Zenon DEF IInv, ProcInv, DbInv, MoveInv, HoldInv
<1> QED BY <1>1, <1>2, <1>3, <1>4, Zenon DEF IInv

\* The dry run decides.
LEMMA DryRunInv == Keeps(DryRun)
<1> SUFFICES ASSUME IInv, DryRun PROVE IInv'
  BY DEF Keeps
<1>1. /\ Fields \subseteq DOMAIN proc' /\ proc'.pc = "try" /\ proc'.path = proc.path
      /\ proc'.mode = proc.mode /\ proc'.enable = proc.enable /\ proc'.disable = proc.disable
      /\ proc'.then = proc.then /\ proc'.open = proc.open /\ proc'.started = proc.started
      /\ proc'.renamed = proc.renamed /\ proc'.requested = proc.requested
      /\ proc'.session = proc.session /\ proc'.conf = proc.conf
      /\ proc'.clean = ~PlanErrors(proc.conf)
  BY Zenon DEF DryRun, IInv, ProcInv, Fields
<1>2. PlanErrors(proc.conf) \in BOOLEAN
  BY DEF PlanErrors
<1>3. PlanInv' /\ proc'.clean \in BOOLEAN
  BY <1>1, <1>2 DEF PlanInv
<1> QED BY <1>1, <1>3, PlanningInv, Zenon DEF DryRun

\* The commands are tried.
LEMMA TryTargetsInv == Keeps(TryTargets)
<1> SUFFICES ASSUME IInv, TryTargets PROVE IInv'
  BY DEF Keeps
<1>1. /\ Fields \subseteq DOMAIN proc' /\ proc'.pc = "tried" /\ proc'.path = proc.path
      /\ proc'.mode = proc.mode /\ proc'.enable = proc.enable /\ proc'.disable = proc.disable
      /\ proc'.then = proc.then /\ proc'.open = proc.open /\ proc'.started = proc.started
      /\ proc'.renamed = proc.renamed /\ proc'.requested = proc.requested
      /\ proc'.session = proc.session /\ proc'.conf = proc.conf /\ proc'.clean = proc.clean
      /\ proc'.refused = {t \in Targets(proc.conf) : Refused(proc.conf, t)}
  BY DEF TryTargets, IInv, ProcInv, Fields
<1>2. PlanInv' /\ proc'.clean \in BOOLEAN
  BY <1>1 DEF TryTargets, IInv, ProcInv, PlanInv
<1> QED BY <1>1, <1>2, PlanningInv DEF TryTargets

\* The node begins with nothing asked for and nothing set aside.
LEMMA InitInv == Init => IInv
<1> SUFFICES ASSUME Init PROVE IInv
  OBVIOUS
<1> DEFINE own(legacy) == [CreatedDb EXCEPT !.blocks = 1, !.chain = IF legacy = 1 THEN 0 ELSE 1,
                                            !.layout = IF legacy = 1 THEN "legacy" ELSE "unified"]
           snap == [CreatedDb EXCEPT !.layout = "unified"]
<1>1. PICK legacy \in {NoChain, 1} :
        disk = [db |-> own(legacy), legacy |-> legacy, aside |-> [p \in Paths |-> NoChain],
                snap |-> snap, staging |-> NoStaging,
                intent |-> FALSE, marker |-> FALSE, hold |-> FALSE, preDb |-> {}, preChain |-> {}]
  BY Zenon DEF Init
<1>2. 0 \in Height /\ 1 \in Height
  BY Bounds DEF Height
<1>3. /\ own(legacy) \in Database /\ own(legacy).blocks = 1 /\ own(legacy).backup = NoPath
      /\ own(legacy).layout = IF legacy = 1 THEN "legacy" ELSE "unified"
      /\ own(legacy).chain = IF legacy = 1 THEN 0 ELSE 1
  BY <1>2, CreatedIsDatabase, Zenon DEF CreatedDb, Database, Chain, Layouts
<1>4. /\ snap \in Database /\ snap.blocks = 0 /\ snap.backup = NoPath /\ snap.layout = "unified"
      /\ snap.chain = 0
  BY <1>2, CreatedIsDatabase, Zenon DEF CreatedDb, Database, Layouts
<1>5. legacy \in Chain /\ [p \in Paths |-> NoChain] \in [Paths -> Chain]
  BY <1>2 DEF Chain
<1>6. NoStaging \in Staging /\ NoStaging.st = "none"
  BY DEF NoStaging, Staging
<1>7. /\ proc = Off /\ events = 0
      /\ hist = [released |-> TRUE, torn |-> FALSE, indexed |-> FALSE, stamp |-> 0]
  BY DEF Init
<1> HIDE DEF own, snap
<1>8. disk \in Disk
  BY <1>1, <1>3, <1>4, <1>5, <1>6, Zenon DEF Disk
<1>9. Fits(ServedChain(disk.db, disk.legacy), disk.db) /\ disk.db # NoDb /\ disk.db.layout # ""
  <2>1. /\ disk.db \in Database /\ disk.db.blocks = 1 /\ disk.legacy = legacy
        /\ disk.db.layout = IF legacy = 1 THEN "legacy" ELSE "unified"
        /\ disk.db.chain = IF legacy = 1 THEN 0 ELSE 1
    BY <1>1, <1>3
  <2>2. ServedChain(disk.db, disk.legacy) = 1
    BY <2>1 DEF ServedChain
  <2> QED BY <2>1, <2>2, NoDbIsNone DEF Fits
<1>10. BackupFits(disk.db) /\ Restorable(disk.snap)
  <2>1. hist.stamp = 0 /\ disk.db.backup = 0 /\ disk.snap.backup = 0
    BY <1>1, <1>3, <1>4, <1>7 DEF NoPath
  <2>2. BackupFits(disk.db) /\ BackupFits(disk.snap)
    BY <2>1 DEF BackupFits, Covers, NoPath
  <2>3. disk.snap.layout = "unified" /\ disk.snap.chain = 0 /\ disk.snap.blocks = 0
    BY <1>1, <1>4
  <2> QED BY <2>2, <2>3 DEF Restorable, Fits
<1>11. DiskInv
  <2>1. 0 \in 0 .. MaxEvents
    BY ProcessAssumption
  <2>2. \A p \in BackupPaths(hist.stamp) : disk.aside[p] = NoChain
    BY <1>1 DEF BackupPaths
  <2> QED BY <1>1, <1>6, <1>7, <1>8, <1>9, <1>10, <2>1, <2>2, Zenon DEF DiskInv
<1>12. ProcInv
  BY <1>7, OffFacts, Zenon DEF ProcInv, Modes
<1>13. ServiceInv /\ RequestInv /\ StageInv
  BY <1>7, OffFacts DEF ServiceInv, RequestInv, StageInv
<1>14. DbInv /\ MoveInv /\ HoldInv /\ PlanInv
  BY <1>7, <1>9, OffFacts, Zenon DEF DbInv, MoveInv, HoldInv, PlanInv
<1> QED BY <1>11, <1>12, <1>13, <1>14 DEF IInv

\* Every step keeps the invariant.
LEMMA StepInv == IInv /\ [Next]_vars => IInv'
<1> SUFFICES ASSUME IInv, [Next]_vars PROVE IInv'
  OBVIOUS
<1>1. CASE Run \/ Plan \/ \E mode \in Modes : Command(mode)
  BY <1>1, RunInv, PlanStartInv, CommandInv DEF Keeps
<1>2. CASE Opening
  BY <1>2, BootInv, OpenInv, OpenFailsInv, PolicyInv, PolicyHeldInv, RegisterInv, StartNextInv,
     IndexInv, ReadyInv DEF Keeps, Opening
<1>3. CASE Closing
  BY <1>3, TickInv, StopNextInv, StoppedAllInv, ReturnedInv, CloseInv, SessionStagedInv
     DEF Keeps, Closing
<1>4. CASE Activating
  BY <1>4, StageEndsInv, ActivateInv, ActivateDbInv, ActivateLegacyInv, ActivateMoveInv,
     ActivateCopiedInv, ActivateRemovingInv, ActivateRemovedInv, ActivateMarkInv,
     ActivateEndsInv DEF Keeps, Activating
<1>5. CASE StagingByCommand
  BY <1>5, StageCommandInv DEF Keeps, StagingByCommand
<1>6. CASE Moving
  BY <1>6, MigrateInv, MigrateCopyInv, MigrateCopiedInv, MigrateRenameInv, MigrateUnifiedInv,
     MigratePathInv, RollbackInv, RollbackRenameInv, RollbackLegacyInv, MoveUndoneInv DEF Keeps, Moving
<1>7. CASE Planning
  <2>1. CASE Tried
    BY <2>1, ExitInv DEF Tried
  <2> QED BY <1>7, <2>1, DryRunInv, TryTargetsInv DEF Keeps, Planning
<1>8. CASE Operating
  BY <1>8, AdvanceInv, BackupInv, RequestActivationInv, SignalInv, SessionStagesInv DEF Keeps, Operating
<1>9. CASE Failing
  BY <1>9, StageFailsInv, StartFailsInv, StopFailsInv, MoveFailsInv, DiesInv DEF Keeps, Failing
<1>10. CASE UNCHANGED vars
  BY <1>10, StutterInv
<1> QED BY <1>1, <1>2, <1>3, <1>4, <1>5, <1>6, <1>7, <1>8, <1>9, <1>10 DEF Next

\* What the base directory is worth is known at every step of every process.
THEOREM Invariance == Spec => []IInv
  BY InitInv, StepInv, PTL DEF Spec

-----------------------------------------------------------------------------
(* The properties *)

\* The chain service runs on a complete chain state that is not ahead of the stored
\* blocks, and nothing that talks to the outside runs before the chain is indexed
\* (main.cpp, chain_migration.cpp, snapshot_repository.cpp).
THEOREM ChainServedWhole == Spec => []ServesWholeChain
<1>1. IInv => ServesWholeChain
  <2> SUFFICES ASSUME IInv PROVE ServesWholeChain
    OBVIOUS
  <2>1. TypeOK
    BY Zenon DEF IInv, DiskInv, ProcInv, TypeOK
  <2>2. Serving("chain") => proc.open /\ (hist.torn \/ Served \in 0 .. disk.db.blocks)
    <3> SUFFICES ASSUME Serving("chain")
                 PROVE  proc.open /\ (hist.torn \/ Served \in 0 .. disk.db.blocks)
      OBVIOUS
    <3>1. proc.open /\ disk.db # NoDb /\ disk.db.layout \in {"legacy", "unified"}
      BY Zenon DEF Serving, IInv, ProcInv, DbInv
    <3> QED BY <3>1, Zenon DEF IInv, DiskInv, Fits, Served
  <2>3. proc.started \ Core # {} => hist.indexed
    BY Zenon DEF IInv, ServiceInv
  <2> QED BY <2>1, <2>2, <2>3 DEF ServesWholeChain
<1> QED BY Invariance, <1>1, PTL

\* A restored node produces no block before the operator lets it
\* (apply_restore_startup_policy).
THEOREM RestoredIsHeld == Spec => []ObserverFirst
<1>1. IInv => ObserverFirst
  <2> SUFFICES ASSUME IInv, Serving("block_producer") PROVE hist.released \/ hist.torn
    BY DEF ObserverFirst
  <2>1. proc.open /\ ~disk.marker /\ ~disk.hold
    BY Zenon DEF Serving, IInv, ProcInv, ServiceInv
  <2> QED BY <2>1 DEF IInv, HoldInv
<1> QED BY Invariance, <1>1, PTL

\* What the dry run finds nothing wrong with, the commands accept.
LEMMA CleanPlan ==
    ASSUME NEW c \in Config, c.enabled, ~PlanErrors(c), NEW t \in Targets(c)
    PROVE  ~Refused(c, t)
<1>1. /\ c.nodeId /\ ~BadDirectory(c.workspace) /\ (c.local => ~BadDirectory(c.localDir))
      /\ ~RemoteErrors(c) /\ ~PublishErrors(c) /\ ~SshErrors(c)
  BY DEF PlanErrors
<1> USE <1>1
<1>2. c.local /\ c.workspace # "empty" /\ c.localDir # "empty"
  BY DEF Targets, BadDirectory
<1>3. c.remote => c.ssh /\ c.remoteDir = "absolute"
  BY DEF RemoteErrors, SshErrors
<1>4. c.publish => /\ c.remote /\ c.publishDir = "absolute" /\ c.publishUrl /\ c.publishNetwork
                   /\ c.observerConfig = "file"
  BY DEF PublishErrors, BadFile
<1>5. ~CreateRefused(c)
  BY <1>2, <1>3 DEF CreateRefused, LocalSnapshotRefused
<1>6. c.remote => ~UploadRefused(c) /\ ~RemoteRepositoryRefused(c)
  BY <1>2, <1>3 DEF UploadRefused, RemoteRepositoryRefused, LocalRepositoryRefused
<1>7. c.publish => ~PublicPublishRefused(c)
  BY <1>4, <1>6 DEF PublicPublishRefused
<1>8. CASE t = "create"
  BY <1>5, <1>8 DEF Refused
<1>9. CASE t = "upload"
  <2>1. c.remote
    BY <1>9 DEF Targets
  <2> QED BY <1>6, <1>9, <2>1 DEF Refused
<1>10. CASE t = "publish"
  <2>1. c.publish
    BY <1>10 DEF Targets
  <2> QED BY <1>7, <1>10, <2>1 DEF Refused
<1> QED BY <1>8, <1>9, <1>10 DEF Targets

\* A configuration the dry run finds no error in works, whatever is in it
\* (build_backup_dry_run_plan against the checks of the commands).
THEOREM PlanIsRight == Spec => []CleanPlanWorks
<1>1. IInv => CleanPlanWorks
  <2> SUFFICES ASSUME IInv, proc.pc = "tried", proc.clean, proc.conf.enabled
               PROVE  proc.refused = {}
    BY DEF CleanPlanWorks
  <2>1. /\ proc.conf \in Config /\ ~PlanErrors(proc.conf)
        /\ proc.refused = {t \in Targets(proc.conf) : Refused(proc.conf, t)}
    BY Zenon DEF IInv, ProcInv, PlanInv
  <2>2. \A t \in Targets(proc.conf) : ~Refused(proc.conf, t)
    BY <2>1, CleanPlan
  <2> QED BY <2>1, <2>2
<1> QED BY Invariance, <1>1, PTL

-----------------------------------------------------------------------------
(* What a node had is kept *)

\* The action of OldStateKept.
StateKept ==
    /\ disk.db # NoDb /\ disk.db.whole
         /\ (disk'.db = NoDb \/ disk'.db.origin # disk.db.origin
                             \/ disk'.db.blocks < disk.db.blocks)
       => ~proc.open /\ disk.db \in disk'.preDb
    /\ disk.legacy # NoChain /\ disk'.legacy = NoChain
       => disk.legacy \in disk'.preChain \cup {disk'.aside[p] : p \in Paths}
    /\ disk.preDb \subseteq disk'.preDb /\ disk.preChain \subseteq disk'.preChain
    /\ \A p \in Paths : disk.aside[p] \in {NoChain, disk'.aside[p], disk'.legacy}

\* A step that neither moves a directory nor goes back in the blocks.
LEMMA WritesKeep ==
    ASSUME IInv, disk'.preDb = disk.preDb, disk'.preChain = disk.preChain,
           disk'.aside = disk.aside, disk'.legacy = disk.legacy \/ disk'.legacy # NoChain,
           \/ disk'.db = disk.db
           \/ disk.db = NoDb
           \/ ~disk.db.whole
           \/ /\ disk'.db # NoDb /\ disk'.db.origin = disk.db.origin
              /\ ~(disk'.db.blocks < disk.db.blocks)
    PROVE  StateKept
<1>1. disk.db # NoDb => ~(disk.db.blocks < disk.db.blocks)
  <2> SUFFICES ASSUME disk.db # NoDb PROVE ~(disk.db.blocks < disk.db.blocks)
    OBVIOUS
  <2>1. disk.db \in Database
    BY Zenon DEF IInv, DiskInv, Disk
  <2>2. disk.db.blocks \in Nat
    BY <2>1, Bounds DEF Database, Height
  <2> QED BY <2>2
<1> QED BY <1>1 DEF StateKept

\* A step that writes nothing.
LEMMA NothingWritten ==
    ASSUME IInv, UNCHANGED disk
    PROVE  StateKept
  BY WritesKeep

\* A write to the metadata or the chain families of the open database.
LEMMA MetadataKeeps ==
    ASSUME IInv, NEW db \in Database, disk' = [disk EXCEPT !.db = db],
           disk.db = NoDb \/ (db.origin = disk.db.origin /\ db.blocks = disk.db.blocks)
    PROVE  StateKept
<1>1. disk \in Disk
  BY Zenon DEF IInv, DiskInv
<1>2. /\ disk'.db = db /\ disk'.db # NoDb /\ disk'.legacy = disk.legacy
      /\ disk'.aside = disk.aside /\ disk'.preDb = disk.preDb /\ disk'.preChain = disk.preChain
  BY <1>1, DbWrites
<1>3. disk.db # NoDb => ~(db.blocks < disk.db.blocks)
  <2> SUFFICES ASSUME disk.db # NoDb PROVE ~(db.blocks < disk.db.blocks)
    OBVIOUS
  <2>1. db.blocks \in Nat /\ db.blocks = disk.db.blocks
    BY Bounds DEF Database, Height
  <2> QED BY <2>1
<1> QED BY <1>2, <1>3, WritesKeep

\* Opening writes the layout at most.
LEMMA OpenKeeps ==
    ASSUME IInv, Open
    PROVE  StateKept
<1> DEFINE db == OpenedDb(disk.db)
           new == InitializeLayout(db, disk.legacy)
<1>1. CASE OpenRefused(db)
  BY <1>1, NothingWritten DEF Open
<1>2. CASE ~OpenRefused(db)
  <2>1. db \in Database /\ disk' = [disk EXCEPT !.db = new]
    BY <1>2, CreatedIsDatabase, Zenon DEF IInv, DiskInv, Disk, OpenedDb, Open
  <2>2. new \in Database /\ new.blocks = db.blocks /\ new.origin = db.origin
    BY <2>1, Zenon DEF InitializeLayout, Database, Layouts
  <2>3. disk.db = NoDb \/ (new.origin = disk.db.origin /\ new.blocks = disk.db.blocks)
    BY <2>2 DEF OpenedDb
  <2> HIDE DEF new
  <2> QED BY <2>1, <2>2, <2>3, MetadataKeeps
<1> QED BY <1>1, <1>2

\* The policy writes the hold and the marker.
LEMMA PolicyKeeps ==
    ASSUME IInv, Policy \/ PolicyHeld
    PROVE  StateKept
<1>1. disk \in Disk
  BY Zenon DEF IInv, DiskInv
<1>2. /\ disk'.db = disk.db /\ disk'.legacy = disk.legacy /\ disk'.aside = disk.aside
      /\ disk'.preDb = disk.preDb /\ disk'.preChain = disk.preChain
  BY <1>1 DEF Policy, PolicyHeld, WriteHold, ReleaseHold, ConsumeMarker, Disk
<1> QED BY <1>2, WritesKeep

\* The chain grows.
LEMMA ChainKeeps ==
    ASSUME IInv, Index \/ Advance
    PROVE  StateKept
<1>0. disk \in Disk /\ \A c \in Height : c # NoChain
  <2>1. \A c \in Height : c # NoChain
    BY Bounds DEF Height, NoChain
  <2> QED BY <2>1, Zenon DEF IInv, DiskInv
<1> USE <1>0
<1>1. disk.db # NoDb /\ disk.db \in Database
  BY Zenon DEF Index, Advance, Working, IInv, ProcInv, DbInv, Disk
<1> USE <1>1
<1>2. disk.db.blocks \in Nat /\ disk.db.blocks \in Height
  BY Bounds DEF Database, Height
<1> USE <1>2
<1>3. PICK n \in Height, c \in Height :
        n >= disk.db.blocks /\ disk' = WithServed([disk EXCEPT !.db.blocks = n], c)
  <2>1. CASE Index
    <3>1. [disk EXCEPT !.db.blocks = disk.db.blocks] = disk /\ disk.db.blocks >= disk.db.blocks
      BY DEF Disk, Database
    <3>2. PICK c \in Height : disk' = WithServed(disk, c)
      BY <2>1 DEF Index
    <3> QED BY <3>1, <3>2
  <2>2. CASE Advance
    <3>1. PICK c \in Height : disk' = WithServed([disk EXCEPT !.db.blocks = disk.db.blocks + 1], c)
      BY <2>2 DEF Advance
    <3>2. disk.db.blocks + 1 \in Height /\ disk.db.blocks + 1 >= disk.db.blocks
      BY <2>2, Bounds DEF Advance, Height
    <3> QED BY <3>1, <3>2
  <2> QED BY <2>1, <2>2, Zenon
<1>4. /\ disk'.db # NoDb /\ disk'.db.origin = disk.db.origin /\ disk'.db.blocks = n
      /\ disk'.aside = disk.aside /\ disk'.preDb = disk.preDb /\ disk'.preChain = disk.preChain
      /\ disk'.legacy \in {disk.legacy, c}
  BY <1>3, ServedFacts
<1> USE <1>4
<1>5. ~(disk'.db.blocks < disk.db.blocks)
  <2>1. n \in Nat
    BY Bounds DEF Height
  <2> QED BY <1>3, <2>1
<1>6. disk'.legacy = disk.legacy \/ disk'.legacy # NoChain
  OBVIOUS
<1> QED BY <1>5, <1>6, WritesKeep

\* Backups, staging and requests write beside the database.
LEMMA BesideKeeps ==
    ASSUME IInv,
           \/ disk' = [disk EXCEPT !.snap = disk.db]
           \/ \E far \in BOOLEAN : disk' = StageBegun(disk, far)
           \/ disk' \in {StageDone(disk), StageAborted(disk), WriteIntent(disk), RemoveIntent(disk),
                         SourceRemoving(disk), SourceRemoved(disk), WriteMarker(disk)}
    PROVE  StateKept
<1>1. disk \in Disk
  BY Zenon DEF IInv, DiskInv
<1>2. /\ disk'.db = disk.db /\ disk'.legacy = disk.legacy /\ disk'.aside = disk.aside
      /\ disk'.preDb = disk.preDb /\ disk'.preChain = disk.preChain
  BY <1>1, ZenonT(40) DEF StageBegun, StageDone, StageAborted, WriteIntent, RemoveIntent, SourceRemoving,
     SourceRemoved, WriteMarker, Disk
<1> QED BY <1>2, WritesKeep

\* An activation sets aside what is there before it puts anything in its place, and never
\* while the database is open.
LEMMA ActivationKeeps ==
    ASSUME IInv, ActivateDb \/ ActivateLegacy \/ ActivateMove \/ ActivateCopied
    PROVE  StateKept
<1>0. disk \in Disk
  BY Zenon DEF IInv, DiskInv
<1> USE <1>0
<1>1. CASE ActivateDb
  <2> USE <1>1
  <2>1. ~proc.open
    BY Zenon DEF ActivateDb, IInv, ProcInv
  <2>2. CASE disk.db = NoDb
    BY <2>2, NothingWritten, Zenon DEF ActivateDb, PreserveDb
  <2>3. CASE disk.db # NoDb
    <3>1. disk' = [disk EXCEPT !.db = NoDb, !.preDb = disk.preDb \cup {disk.db}]
      BY <2>3, Zenon DEF ActivateDb, PreserveDb, Disk
    <3>2. /\ disk'.db = NoDb /\ disk'.legacy = disk.legacy /\ disk'.aside = disk.aside
          /\ disk'.preDb = disk.preDb \cup {disk.db} /\ disk'.preChain = disk.preChain
      BY <3>1 DEF Disk
    <3> QED BY <2>1, <3>2 DEF StateKept
  <2> QED BY <2>2, <2>3
<1>2. CASE ActivateLegacy
  <2> USE <1>2
  <2>1. disk.db = NoDb
    BY Zenon DEF ActivateLegacy, IInv, DbInv
  <2>2. CASE disk.legacy = NoChain
    BY <2>2, NothingWritten, Zenon DEF ActivateLegacy, PreserveLegacy
  <2>3. CASE disk.legacy # NoChain
    <3>1. disk' = [disk EXCEPT !.legacy = NoChain, !.preChain = disk.preChain \cup {disk.legacy}]
      BY <2>3, Zenon DEF ActivateLegacy, PreserveLegacy, Disk
    <3>2. /\ disk'.db = disk.db /\ disk'.legacy = NoChain /\ disk'.aside = disk.aside
          /\ disk'.preDb = disk.preDb /\ disk'.preChain = disk.preChain \cup {disk.legacy}
      BY <3>1 DEF Disk
    <3> QED BY <2>1, <3>2 DEF StateKept
  <2> QED BY <2>2, <2>3
<1>3. CASE ActivateMove \/ ActivateCopied
  <2>1. disk.db = NoDb \/ ~disk.db.whole
    BY <1>3, Zenon DEF ActivateMove, ActivateCopied, IInv, DbInv
  <2>2. /\ disk'.legacy = disk.legacy /\ disk'.aside = disk.aside
        /\ disk'.preDb = disk.preDb /\ disk'.preChain = disk.preChain
    BY <1>3, ZenonT(40) DEF ActivateMove, ActivateCopied, CopyStarted, MoveRenamed, CopyFinished, Disk
  <2> QED BY <2>1, <2>2, WritesKeep
<1> QED BY <1>1, <1>2, <1>3

\* The writes of a migration and of a rollback to the open database.
LEMMA MovingKeeps ==
    ASSUME IInv,
           Migrate \/ MigrateCopy \/ MigrateCopied \/ MigrateUnified \/ MigratePath \/ Rollback
             \/ RollbackLegacy \/ MoveUndone
    PROVE  StateKept
<1>0. disk \in Disk /\ disk.db # NoDb /\ disk.db \in Database /\ disk.legacy \in Chain
  <2>1. proc.open
    BY Zenon DEF Migrate, MigrateCopy, MigrateCopied, MigrateUnified, MigratePath, Rollback,
       RollbackLegacy, MoveUndone, IInv, ProcInv
  <2> QED BY <2>1, MovingFacts
<1> USE <1>0
<1>1. \A layout \in Layouts : disk' = [disk EXCEPT !.db = WriteLayout(disk.db, layout)] => StateKept
  <2> SUFFICES ASSUME NEW layout \in Layouts,
                      disk' = [disk EXCEPT !.db = WriteLayout(disk.db, layout)]
               PROVE  StateKept
    OBVIOUS
  <2> DEFINE db == WriteLayout(disk.db, layout)
  <2>1. db \in Database /\ db.origin = disk.db.origin /\ db.blocks = disk.db.blocks
    BY LayoutWritten
  <2>2. disk' = [disk EXCEPT !.db = db]
    OBVIOUS
  <2> HIDE DEF db
  <2> QED BY <2>1, <2>2, MetadataKeeps
<1>2. \A c \in Chain : disk' = [disk EXCEPT !.db = [disk.db EXCEPT !.chain = c]] => StateKept
  <2> SUFFICES ASSUME NEW c \in Chain, disk' = [disk EXCEPT !.db = [disk.db EXCEPT !.chain = c]]
               PROVE  StateKept
    OBVIOUS
  <2> DEFINE db == [disk.db EXCEPT !.chain = c]
  <2>1. db \in Database /\ db.origin = disk.db.origin /\ db.blocks = disk.db.blocks
    BY DEF Database
  <2>2. disk' = [disk EXCEPT !.db = db]
    OBVIOUS
  <2> HIDE DEF db
  <2> QED BY <2>1, <2>2, MetadataKeeps
<1>3. CASE MigratePath
  <2> DEFINE db == WriteBackupPath(disk.db, proc.path)
  <2>1. proc.path \in Paths
    BY <1>3, Zenon DEF MigratePath, IInv, MoveInv
  <2>2. db \in Database /\ db.origin = disk.db.origin /\ db.blocks = disk.db.blocks
    BY <2>1 DEF WriteBackupPath, Database
  <2>3. disk' = [disk EXCEPT !.db = db]
    BY <1>3, Zenon DEF MigratePath, Disk
  <2> HIDE DEF db
  <2> QED BY <2>2, <2>3, MetadataKeeps
<1>4. CASE MigrateCopy \/ MigrateCopied
  <2>1. Part \in Chain
    BY DEF Chain
  <2>2. \/ disk' = [disk EXCEPT !.db = [disk.db EXCEPT !.chain = Part]]
        \/ disk' = [disk EXCEPT !.db = [disk.db EXCEPT !.chain = disk.legacy]]
    BY <1>4, Zenon DEF MigrateCopy, MigrateCopied, CopyBegun, Copied, Disk
  <2> QED BY <1>2, <2>1, <2>2
<1>5. CASE Migrate \/ MigrateUnified \/ Rollback \/ RollbackLegacy \/ MoveUndone
  <2>1. \/ disk' = disk
        \/ disk' = [disk EXCEPT !.db = WriteLayout(disk.db, "migration-in-progress")]
        \/ disk' = [disk EXCEPT !.db = WriteLayout(disk.db, "unified")]
        \/ disk' = [disk EXCEPT !.db = WriteLayout(disk.db, "legacy")]
    BY <1>5, Zenon DEF Migrate, MigrateUnified, Rollback, RollbackLegacy, MoveUndone,
       MigrationUndone, RollbackUndone, Disk
  <2> QED BY <1>1, <2>1, NothingWritten, Zenon DEF Layouts
<1> QED BY <1>3, <1>4, <1>5

\* A migration renames the legacy database to a name that nothing has; a rollback brings it back.
LEMMA RenamingKeeps ==
    ASSUME IInv, MigrateRename \/ RollbackRename
    PROVE  StateKept
<1>0. /\ disk \in Disk /\ disk.db # NoDb /\ disk.db \in Database /\ disk.db.blocks \in Nat
      /\ disk.aside \in [Paths -> Chain]
  <2>1. proc.open
    BY Zenon DEF MigrateRename, RollbackRename, IInv, ProcInv
  <2> QED BY <2>1, MovingFacts
<1> USE <1>0
<1>1. ~(disk.db.blocks < disk.db.blocks)
  OBVIOUS
<1>2. CASE MigrateRename
  <2>1. proc.path \in Paths /\ disk.aside[proc.path] = NoChain
    BY <1>2, Zenon DEF MigrateRename, IInv, MoveInv
  <2>2. disk' = [disk EXCEPT !.aside = [disk.aside EXCEPT ![proc.path] = disk.legacy],
                             !.legacy = NoChain]
    BY <1>2, Zenon DEF MigrateRename, Disk
  <2>3. /\ disk'.db = disk.db /\ disk'.preDb = disk.preDb /\ disk'.preChain = disk.preChain
        /\ disk'.aside = [disk.aside EXCEPT ![proc.path] = disk.legacy]
    BY <2>2 DEF Disk
  <2>4. /\ disk'.aside[proc.path] = disk.legacy
        /\ \A p \in Paths : p # proc.path => disk'.aside[p] = disk.aside[p]
    BY <2>1, <2>3
  <2> QED BY <1>1, <2>1, <2>3, <2>4 DEF StateKept
<1>3. CASE RollbackRename
  <2> USE <1>0
  <2> DEFINE q == disk.db.backup
  <2>1. q \in Paths /\ disk.aside[q] # NoChain
    BY <1>3, Zenon DEF RollbackRename, IInv, MoveInv, Database
  <2>2. disk' = [disk EXCEPT !.legacy = disk.aside[q],
                             !.aside = [disk.aside EXCEPT ![q] = NoChain]]
    BY <1>3, Zenon DEF RollbackRename, Disk
  <2>3. /\ disk'.db = disk.db /\ disk'.preDb = disk.preDb /\ disk'.preChain = disk.preChain
        /\ disk'.aside = [disk.aside EXCEPT ![q] = NoChain] /\ disk'.legacy = disk.aside[q]
    BY <2>2 DEF Disk
  <2> HIDE DEF q
  <2>4. \A p \in Paths : p # q => disk'.aside[p] = disk.aside[p]
    BY <2>1, <2>3
  <2> QED BY <1>1, <2>1, <2>3, <2>4 DEF StateKept
<1> QED BY <1>2, <1>3

\* Every step of every process keeps what the node had.
LEMMA StepKeeps == IInv /\ [Next]_vars => StateKept
<1> SUFFICES ASSUME IInv, [Next]_vars PROVE StateKept
  OBVIOUS
<1>1. CASE UNCHANGED disk
  BY <1>1, NothingWritten
<1> USE <1>1
<1>2. CASE Opening
  BY <1>2, OpenKeeps, PolicyKeeps, ChainKeeps DEF Opening, Boot, OpenFails, Register, StartNext, Ready
<1>3. CASE Closing \/ Operating \/ StagingByCommand
  BY <1>3, ChainKeeps, BesideKeeps, Zenon DEF Closing, Operating, StagingByCommand, Tick, StopNext, StoppedAll, Returned, Close,
         SessionStaged, Backup, RequestActivation, Signal, SessionStages, StageCommand
<1>4. CASE Activating
  BY <1>4, ActivationKeeps, BesideKeeps, Zenon DEF Activating, StageEnds, Activate, ActivateRemoving, ActivateRemoved, ActivateMark,
         ActivateEnds
<1>5. CASE Moving
  BY <1>5, MovingKeeps, RenamingKeeps DEF Moving
<1>6. CASE Failing
  BY <1>6, BesideKeeps, Zenon DEF Failing, StageFails, StartFails, StopFails, MoveFails, Dies
<1>7. CASE Run \/ Plan \/ (\E mode \in Modes : Command(mode)) \/ Planning
  BY <1>7, Zenon DEF Run, Plan, Command, Planning, DryRun, TryTargets, Tried
<1> QED BY <1>2, <1>3, <1>4, <1>5, <1>6, <1>7 DEF Next, vars

\* No restore, migration or rollback loses what the node had, wherever it is interrupted
\* (preserve_existing_path, migrate_legacy_chain_db_to_unified and its rollback).
THEOREM OldStateIsKept == Spec => OldStateKept
<1>1. IInv /\ [Next]_vars => [StateKept]_<<disk, proc>>
  BY StepKeeps
<1>2. Spec => [][StateKept]_<<disk, proc>>
  BY Invariance, <1>1, PTL DEF Spec
<1> QED BY <1>2, PTL DEF OldStateKept, StateKept
=============================================================================
