------------------------- MODULE BackupWorkerProofs -------------------------
(***************************************************************************)
(* The inductive invariant of BackupService and its repositories, and that *)
(* every step of the worker keeps it, for any number of objects, snapshots *)
(* and operations.                                                         *)
(*                                                                         *)
(* The worker is the only one that removes objects, and what it is about   *)
(* to remove, store or upload is in its todo set.  The inductive invariant *)
(* says what that set leaves alone at each of its steps.                   *)
(***************************************************************************)
EXTENDS BackupService, WellFoundedInduction, TLAPS

MaybeId == Id \cup {NoId}

PhaseNames == {"snapshot", "upload", "publish", "retain", "local delete", "remote delete",
               "fetch", "public fetch"}

\* What remains of an operation: its phases from the current one on, of which only the
\* first may make a snapshot.
Rests == {r \in Seq(PhaseNames) : \A k \in 2 .. Len(r) : r[k] # "snapshot"}

\* The threads outside of an operation's phases.
Resting == {"idle", "exit", "throw", "phase"}

\* Where todo or plan says something about the repositories.
Working == {"objects", "prune objects", "local objects", "remote files", "remote dir",
            "remote objects", "put", "rename", "latest put", "latest rm", "latest mv",
            "public verify"}

WorkerPc ==
    Resting \cup PhaseNames \cup Working \cup
    {"store", "store latest", "prune", "publish meta",
     "publish swap", "publish rename", "publish latest", "publish mv", "publish prune",
     "retain listing", "retain next", "remote latest rm", "remote latest mv", "fetch cache",
     "preflight", "download", "verify", "public object", "public cache"}

Operation ==
    [no: Nat, pc: WorkerPc, req: Request \cup {NoRequest}, rest: Rests, id: MaybeId,
     todo: SUBSET (Obj \cup Id), plan: SUBSET Obj, n: 1 .. MaxAttempts, kept: MaybeId,
     wasLatest: BOOLEAN, next: MaybeId]

Call ==
    [pc: {"none", "begin", "assign", "started", "thrown"}, req: Request \cup {NoRequest},
     join: Nat]

Listing ==
    [pc: {"idle", "latest", "entries", "cache", "public", "public cache", "done", "thrown"},
     todo: SUBSET Id, id: MaybeId, n: Nat]

Staging == [pc: {"idle", "copy"}, id: MaybeId, todo: SUBSET Obj, copied: SUBSET Obj]

-----------------------------------------------------------------------------
(* The bounds: no operation finds its number or its snapshot's id used up *)

StartsSnapshot(rest) == rest # <<>> /\ Head(rest) = "snapshot"

\* The callers that will take an operation number, and the ones, with the worker, that
\* will take a snapshot id.
Numbers(c) == IF call[c].pc = "begin" THEN 1 ELSE 0

Makes(c) ==
    IF call[c].pc \in {"begin", "assign"} /\ call[c].req.kind \in {"local", "configured"}
    THEN 1 ELSE 0

WorkerMakes ==
    IF w.pc \in {"snapshot", "store"} \/ (w.pc = "phase" /\ StartsSnapshot(w.rest))
    THEN 1 ELSE 0

Counted ==
    /\ bounds \in [ids: Nat, made: Nat, ops: Nat, events: Nat]
    /\ svc.no + Numbers("admin") + Numbers("scheduler") <= bounds.ops
    /\ bounds.ids + Makes("admin") + Makes("scheduler") + WorkerMakes <= bounds.made
    /\ bounds.ops <= MaxOps /\ bounds.made <= MaxId

Typed ==
    /\ TypeOK
    /\ w \in Operation /\ (w.pc \notin Resting => w.rest # <<>>)
    /\ call \in [Caller -> Call]
    /\ list \in [Lister -> Listing]
    /\ stage \in Staging /\ (stage.pc = "copy" => stage.id \in Id)

-----------------------------------------------------------------------------
(* What todo leaves alone *)

\* The snapshots that count as stored are complete.
OwnHeld == \A i \in own : local.dir[i] = "complete" /\ Files[i] \subseteq local.objs

\* store_checkpoint_snapshot, prune_local_snapshot_repository,
\* delete_local_backup_snapshot and fetch_public_metadata.
LocalWork ==
    /\ w.pc = "public verify" => w.id \in Id
    /\ w.pc = "objects" => w.id \in Id /\ Files[w.id] \subseteq local.objs \cup w.todo
    /\ w.pc \in {"prune objects", "local objects"} => \A i \in own : Files[i] \cap w.todo = {}

\* delete_remote_backup_snapshot and the upload.
RemoteWork ==
    /\ w.pc = "remote files" =>
        \A i \in Listed(remote) \ {w.id} : Files[i] \cap w.todo = {}
    /\ w.pc \in {"remote dir", "remote objects"} =>
        \A i \in Listed(remote) : Files[i] \cap w.todo = {}
    /\ w.pc \in {"put", "rename", "latest put", "latest rm", "latest mv"} => w.id \in Id
    /\ w.pc = "put" => \A o \in w.plan \ w.todo : remote.objs[o] = "full"
    /\ w.pc = "rename" => \A o \in w.plan : remote.objs[o] = "full"

\* stage_local_restore_snapshot.
StageWork ==
    /\ stage.pc = "copy" =>
        Files[stage.id] \subseteq stage.todo \cup stage.copied \cup {ConfigObj}
    /\ StagedIsWhole

IInv == Typed /\ Counted /\ OwnHeld /\ LocalWork /\ RemoteWork /\ StageWork

\* What a step must do to the invariant.
Keeps(A) == IInv /\ A => IInv'

-----------------------------------------------------------------------------
(* Sequences *)

\* What two sequences put together hold.
LEMMA Joined ==
    ASSUME NEW S, NEW s \in Seq(S), NEW t \in Seq(S)
    PROVE  /\ s \o t \in Seq(S) /\ Len(s \o t) = Len(s) + Len(t)
           /\ \A i \in 1 .. Len(s) + Len(t) :
                (s \o t)[i] = IF i <= Len(s) THEN s[i] ELSE t[i - Len(s)]
  OBVIOUS

-----------------------------------------------------------------------------
(* Least and greatest ids *)

\* Every set of numbers that is not empty has a least one.
LEMMA LeastNumber ==
    ASSUME NEW T \in SUBSET Nat, T # {}
    PROVE  \E x \in T : \A y \in T : x <= y
<1> DEFINE R == OpToRel(<, Nat)
<1>1. IsWellFoundedOn(R, Nat)
  BY NatLessThanWellFounded, Zenon
<1>2. \A x, y \in Nat : <<x, y>> \in R <=> x < y
  BY DEF OpToRel
<1> HIDE DEF R
<1>3. PICK x \in T : \A y \in T : ~(<<y, x>> \in R)
  BY Zenon, <1>1, WFMin
<1>4. \A y \in T : ~(y < x)
  BY <1>2, <1>3, Zenon
<1> QED BY <1>4

\* The first snapshot of a listing or of the ones to prune is one of them.
LEMMA EldestIsOne ==
    ASSUME NEW ids \in SUBSET Id, ids # {}
    PROVE  Eldest(ids) \in ids
<1>1. \E x \in ids : \A y \in ids : x <= y
  BY LeastNumber, RepositoryAssumption DEF Id
<1> QED BY <1>1 DEF Eldest, Sets!Min

\* newest_completed_backup_id is one of the ids, if there are any.
LEMMA NewestIsId ==
    ASSUME NEW ids \in SUBSET Id
    PROVE  Newest(ids) \in MaybeId
<1>1. CASE ids = {}
  BY <1>1 DEF Newest, MaybeId
<1>2. CASE ids # {}
  <2> DEFINE T == {MaxId - i : i \in ids}
  <2>1. \A i \in ids : i \in Nat /\ MaxId - i \in Nat
    BY RepositoryAssumption DEF Id
  <2>2. T \in SUBSET Nat /\ T # {}
    BY <1>2, <2>1
  <2>3. PICK x \in T : \A y \in T : x <= y
    BY <2>2, LeastNumber, Zenon
  <2>4. PICK i \in ids : x = MaxId - i
    OBVIOUS
  <2>5. \A j \in ids : MaxId - i <= MaxId - j
    BY <2>3, <2>4
  <2>6. \A j \in ids : i >= j
    BY <2>1, <2>5, RepositoryAssumption
  <2>7. Sets!Max(ids) \in ids
    BY <2>6 DEF Sets!Max
  <2> QED BY <1>2, <2>7 DEF Newest, MaybeId
<1> QED BY <1>1, <1>2

-----------------------------------------------------------------------------
(* The phases of an operation *)

\* Phases none of which makes a snapshot do not begin with one.
LEMMA QuietStart ==
    ASSUME NEW s \in Seq(PhaseNames), \A k \in 1 .. Len(s) : s[k] # "snapshot"
    PROVE  ~StartsSnapshot(s)
  BY DEF StartsSnapshot

\* A phase that has ended leaves the rest of the operation.
LEMMA RestAfterPhase ==
    ASSUME NEW r \in Rests, r # <<>>
    PROVE  Head(r) \in PhaseNames /\ Tail(r) \in Rests /\ ~StartsSnapshot(Tail(r))
<1>1. /\ r \in Seq(PhaseNames) /\ Len(r) \in Nat /\ Len(r) > 0
      /\ \A k \in 2 .. Len(r) : r[k] # "snapshot"
  BY DEF Rests
<1>2. /\ Tail(r) \in Seq(PhaseNames) /\ Len(Tail(r)) = Len(r) - 1
      /\ \A k \in 1 .. Len(r) - 1 : Tail(r)[k] = r[k + 1]
  BY <1>1
<1>3. \A k \in 1 .. Len(Tail(r)) : Tail(r)[k] # "snapshot"
  BY <1>1, <1>2
<1>4. Head(r) \in PhaseNames
  BY <1>1
<1> DEFINE t == Tail(r)
<1>5. t \in Seq(PhaseNames) /\ \A k \in 1 .. Len(t) : t[k] # "snapshot"
  BY <1>2, <1>3
<1>6. t \in Rests /\ ~StartsSnapshot(t)
  <2> HIDE DEF t
  <2>1. \A k \in 2 .. Len(t) : t[k] # "snapshot"
    BY <1>5
  <2> QED BY <1>5, <2>1, QuietStart DEF Rests
<1> QED BY <1>4, <1>6

\* Only an operation that asks for a snapshot begins with one.
LEMMA PhasesOfRequest ==
    ASSUME NEW req
    PROVE  /\ Phases(req) \in Rests
           /\ StartsSnapshot(Phases(req)) => req.kind \in {"local", "configured"}
<1> DEFINE Quiet(s) == s \in Seq(PhaseNames) /\ \A k \in 1 .. Len(s) : s[k] # "snapshot"
<1>1. Quiet(<<>>)
  OBVIOUS
<1>2. \A p \in PhaseNames \ {"snapshot"} : Quiet(<<p>>)
  OBVIOUS
<1>3. ASSUME NEW s, NEW t, Quiet(s), Quiet(t) PROVE Quiet(s \o t)
  <2>1. /\ s \o t \in Seq(PhaseNames) /\ Len(s \o t) = Len(s) + Len(t)
        /\ \A i \in 1 .. Len(s) + Len(t) :
            (s \o t)[i] = IF i <= Len(s) THEN s[i] ELSE t[i - Len(s)]
    BY <1>3, Joined
  <2>2. Len(s) \in Nat /\ Len(t) \in Nat
    BY <1>3
  <2>3. ASSUME NEW i \in 1 .. Len(s) + Len(t) PROVE (s \o t)[i] # "snapshot"
    <3>1. CASE i <= Len(s)
      BY <1>3, <2>1, <2>2, <3>1
    <3>2. CASE ~(i <= Len(s))
      <4>1. i - Len(s) \in 1 .. Len(t)
        BY <2>2, <3>2
      <4> QED BY <1>3, <2>1, <3>2, <4>1
    <3> QED BY <3>1, <3>2
  <2> QED BY <2>1, <2>3
<1>4. ASSUME NEW s, Quiet(s) PROVE s \in Rests /\ ~StartsSnapshot(s)
  BY <1>4, QuietStart DEF Rests
<1> HIDE DEF Quiet
<1>5. Quiet(AfterUpload) /\ Quiet(UploadPhases)
  <2>1. Quiet(AfterUpload)
    BY <1>1, <1>2, <1>3, Zenon DEF AfterUpload, PhaseNames
  <2> QED BY <1>2, <1>3, <2>1, Zenon DEF UploadPhases, PhaseNames
<1>6. Quiet(<<"local delete", "remote delete">>) /\ Quiet(<<"remote delete", "local delete">>)
  <2>1. ASSUME NEW p \in PhaseNames \ {"snapshot"}, NEW q \in PhaseNames \ {"snapshot"}
        PROVE  Quiet(<<p, q>>)
    <3>1. <<p, q>> \in Seq(PhaseNames) /\ Len(<<p, q>>) = 2
      OBVIOUS
    <3>2. \A k \in 1 .. 2 : <<p, q>>[k] # "snapshot"
      OBVIOUS
    <3> QED BY <3>1, <3>2 DEF Quiet
  <2> QED BY <2>1, Zenon DEF PhaseNames
<1>7. ASSUME NEW p \in PhaseNames PROVE <<p>> \in Rests
  BY DEF Rests
<1>8. ConfiguredPhases \in Rests
  <2> DEFINE s == <<"snapshot", "upload">>
  <2>1. s \in Seq(PhaseNames) /\ Len(s) = 2 /\ s[2] = "upload"
    BY DEF PhaseNames
  <2>2. AfterUpload \in Seq(PhaseNames) /\ \A k \in 1 .. Len(AfterUpload) : AfterUpload[k] # "snapshot"
    BY <1>5 DEF Quiet
  <2> HIDE DEF s
  <2>3. /\ s \o AfterUpload \in Seq(PhaseNames) /\ Len(s \o AfterUpload) = 2 + Len(AfterUpload)
        /\ \A i \in 1 .. 2 + Len(AfterUpload) :
            (s \o AfterUpload)[i] = IF i <= 2 THEN s[i] ELSE AfterUpload[i - 2]
    <3>1. /\ s \o AfterUpload \in Seq(PhaseNames)
          /\ Len(s \o AfterUpload) = Len(s) + Len(AfterUpload)
          /\ \A i \in 1 .. Len(s) + Len(AfterUpload) :
              (s \o AfterUpload)[i] = IF i <= Len(s) THEN s[i] ELSE AfterUpload[i - Len(s)]
      BY <2>1, <2>2, Joined
    <3> QED BY <2>1, <3>1
  <2>4. ASSUME NEW i \in 2 .. 2 + Len(AfterUpload) PROVE (s \o AfterUpload)[i] # "snapshot"
    <3>1. Len(AfterUpload) \in Nat
      BY <2>2
    <3>2. CASE i = 2
      BY <2>1, <2>3, <3>1, <3>2
    <3>3. CASE i # 2
      <4>1. i - 2 \in 1 .. Len(AfterUpload) /\ ~(i <= 2)
        BY <3>1, <3>3
      <4> QED BY <2>2, <2>3, <3>1, <4>1
    <3> QED BY <3>2, <3>3, Zenon
  <2>5. s \o AfterUpload \in Rests
    BY <2>3, <2>4, Zenon DEF Rests
  <2> QED BY <2>5 DEF ConfiguredPhases, s
<1> QED
  <2>1. CASE req.kind \in {"local", "configured"}
    BY <1>7, <1>8, <2>1, Zenon DEF Phases, PhaseNames
  <2>2. CASE req.kind \notin {"local", "configured"}
    <3>1. Quiet(DeletePhases(req))
      BY <1>2, <1>6, Zenon DEF DeletePhases, PhaseNames
    <3>2. Quiet(Phases(req))
      BY <1>2, <1>5, <2>2, <3>1, Zenon DEF Phases, PhaseNames
    <3> QED BY <1>4, <3>2
  <2> QED BY <2>1, <2>2
-----------------------------------------------------------------------------
(* What a step of the worker has to show *)

SvcOK ==
    /\ svc \in [running: BOOLEAN, active: BOOLEAN, cancel: BOOLEAN, handle: 0 .. MaxOps,
                state: {"idle", "running", "succeeded", "failed"}, no: 0 .. MaxOps]
    /\ svc.running <=> svc.state = "running"

\* Either nothing that is bounded happens, or one more failure.
BoundsMove == bounds' = bounds \/ bounds' = [bounds EXCEPT !.events = @ + 1]

\* A step of the worker concerns its operation and the repositories.
LEMMA WorkerInv ==
    ASSUME IInv, SvcOK', svc'.no = svc.no, call' = call, list' \in [Lister -> Listing],
           UNCHANGED <<stage, staged>>, BoundsMove,
           w' \in Operation, w'.pc \notin Resting => w'.rest # <<>>,
           WorkerMakes' <= WorkerMakes,
           local' \in Repositories, remote' \in Remotes, pub' \in Publics, own' \subseteq Id,
           OwnHeld', LocalWork', RemoteWork'
    PROVE  IInv'
<1>1. Typed'
  BY DEF IInv, Typed, TypeOK, SvcOK, Operation, MaybeId
<1>2. Counted'
  <2>1. /\ bounds' \in [ids: Nat, made: Nat, ops: Nat, events: Nat]
        /\ bounds'.ids = bounds.ids /\ bounds'.made = bounds.made /\ bounds'.ops = bounds.ops
    BY DEF IInv, Counted, BoundsMove
  <2>2. \A c \in Caller : Numbers(c)' = Numbers(c) /\ Makes(c)' = Makes(c)
    BY DEF Numbers, Makes
  <2>3. /\ {Numbers("admin"), Numbers("scheduler"), Makes("admin"), Makes("scheduler")} \subseteq Nat
        /\ WorkerMakes \in Nat /\ WorkerMakes' \in Nat
    BY DEF Numbers, Makes, WorkerMakes
  <2>4. /\ bounds \in [ids: Nat, made: Nat, ops: Nat, events: Nat]
        /\ bounds.ids + Makes("admin") + Makes("scheduler") + WorkerMakes <= bounds.made
        /\ svc.no + Numbers("admin") + Numbers("scheduler") <= bounds.ops
        /\ bounds.ops <= MaxOps /\ bounds.made <= MaxId
    BY DEF IInv, Counted
  <2>5. bounds.ids \in Nat /\ bounds.made \in Nat
    BY <2>4
  <2>6. bounds'.ids + Makes("admin")' + Makes("scheduler")' + WorkerMakes' <= bounds'.made
    <3>1. /\ Makes("admin")' = Makes("admin") /\ Makes("scheduler")' = Makes("scheduler")
          /\ bounds'.ids = bounds.ids /\ bounds'.made = bounds.made
      BY <2>1, <2>2, Zenon DEF Caller
    <3>2. /\ Makes("admin") \in Nat /\ Makes("scheduler") \in Nat
          /\ bounds.ids + Makes("admin") + Makes("scheduler") + WorkerMakes <= bounds.made
      BY <2>3, <2>4
    <3> QED BY <2>3, <2>5, <3>1, <3>2
  <2> QED BY <2>1, <2>2, <2>4, <2>6 DEF Counted, Caller
<1>3. StageWork'
  BY DEF IInv, StageWork, StagedIsWhole
<1> QED BY <1>1, <1>2, <1>3 DEF IInv
\* The local repository keeps what it has.
LocalGrows ==
    /\ local' \in Repositories /\ local.objs \subseteq local'.objs
    /\ \A i \in Id : local.dir[i] = "complete" => local'.dir[i] = "complete"

\* The worker goes where nothing is said about todo.
QuietMove ==
    /\ w' \in Operation /\ w'.pc \notin Working /\ (w'.pc \notin Resting => w'.rest # <<>>)
    /\ WorkerMakes' <= WorkerMakes

\* A step to such a place is safe when it removes nothing.
LEMMA QuietInv ==
    ASSUME IInv, UNCHANGED <<svc, call, sessions, own>>, BoundsMove, QuietMove,
           LocalGrows, remote' \in Remotes, pub' \in Publics
    PROVE  IInv'
<1> USE DEF QuietMove
<1>1. LocalWork' /\ RemoteWork'
  BY Zenon DEF LocalWork, RemoteWork, Working
<1>2. OwnHeld' /\ own' \subseteq Id
  BY DEF IInv, OwnHeld, LocalGrows, Typed, TypeOK
<1>3. SvcOK' /\ list' \in [Lister -> Listing]
  BY DEF IInv, Typed, TypeOK, SvcOK, sessions
<1> QED BY <1>1, <1>2, <1>3, WorkerInv DEF LocalGrows, sessions

\* A step that works on a repository.
LEMMA BusyInv ==
    ASSUME IInv, UNCHANGED <<svc, call, sessions>>, BoundsMove,
           w' \in Operation, w'.rest # <<>>, WorkerMakes' <= WorkerMakes,
           local' \in Repositories, remote' \in Remotes, pub' \in Publics, own' \subseteq own,
           OwnHeld', LocalWork', RemoteWork'
    PROVE  IInv'
<1>1. SvcOK' /\ list' \in [Lister -> Listing] /\ own' \subseteq Id
  BY DEF IInv, Typed, TypeOK, SvcOK, sessions
<1> QED BY <1>1, WorkerInv DEF sessions

\* The repositories stay as they are.
LEMMA StillRepos ==
    ASSUME IInv
    PROVE  /\ local \in Repositories /\ remote \in Remotes /\ pub \in Publics
           /\ UNCHANGED local => LocalGrows
           /\ UNCHANGED remote => remote' \in Remotes
           /\ UNCHANGED pub => pub' \in Publics
  BY DEF IInv, Typed, TypeOK, LocalGrows

\* The next phase, or the end of the operation, comes after the phase's last step.
LEMMA EndPhaseMove ==
    ASSUME IInv, w.pc \notin Resting, EndPhase
    PROVE  QuietMove
<1>1. w \in Operation /\ w.rest \in Rests /\ w.rest # <<>>
  BY DEF IInv, Typed, Operation
<1>2. Tail(w.rest) \in Rests /\ ~StartsSnapshot(Tail(w.rest))
  BY <1>1, RestAfterPhase
<1>3. w' \in Operation /\ w'.pc = "phase" /\ w'.rest = Tail(w.rest)
  BY <1>1, <1>2, Zenon DEF EndPhase, Operation, MaybeId, WorkerPc, Resting
<1>4. WorkerMakes' = 0 /\ WorkerMakes \in Nat
  BY <1>2, <1>3 DEF WorkerMakes
<1> QED BY <1>3, <1>4 DEF QuietMove, Working, Resting

\* A worker with nothing to do is one.
LEMMA IdleIsOperation == Idle \in Operation /\ Idle.pc = "idle"
<1>1. MaxAttempts \in Nat \ {0}
  BY ServiceAssumption
<1>2. 1 \in 1 .. MaxAttempts
  BY <1>1
<1>3. <<>> \in Rests
  BY DEF Rests
<1>4. NoId \in MaybeId /\ "idle" \in WorkerPc
  BY DEF MaybeId, WorkerPc, Resting
<1> QED BY <1>2, <1>3, <1>4 DEF Idle, Operation

\* An operation that ends keeps its number only.
LEMMA LeaveMove ==
    ASSUME IInv, NEW pc \in {"exit", "throw"}, Leave(pc)
    PROVE  QuietMove
<1>1. w.no \in Nat
  BY DEF IInv, Typed, Operation
<1>2. Idle \in Operation
  BY IdleIsOperation
<1>3. w' \in Operation /\ w'.pc = pc
  BY <1>1, <1>2, Zenon DEF Leave, Operation, WorkerPc, Resting
<1>4. WorkerMakes' = 0 /\ WorkerMakes \in Nat
  BY <1>3 DEF WorkerMakes
<1>5. w'.pc \notin Working /\ w'.pc \in Resting
  BY <1>3, Zenon DEF Working, Resting
<1>6. WorkerMakes' <= WorkerMakes
  BY <1>4
<1> QED BY <1>3, <1>5, <1>6 DEF QuietMove

\* Inside a phase the rest of the operation stays.
LEMMA PhaseMove ==
    ASSUME IInv, w.pc \notin Resting, w' \in Operation, w'.rest = w.rest,
           w'.pc \notin Working \cup Resting \cup {"snapshot", "store"}
    PROVE  QuietMove
<1>1. WorkerMakes' = 0 /\ WorkerMakes \in Nat
  BY DEF WorkerMakes, Resting
<1> QED BY <1>1 DEF QuietMove, IInv, Typed

\* A step into the repositories goes on inside a phase as well.
LEMMA WorkMove ==
    ASSUME IInv, w.pc \notin Resting, w' \in Operation, w'.rest = w.rest, w'.pc \in Working
    PROVE  /\ w'.rest # <<>>
           /\ WorkerMakes' <= WorkerMakes
<1>1. WorkerMakes' = 0 /\ WorkerMakes \in Nat
  BY Zenon DEF WorkerMakes, Working
<1> QED BY <1>1 DEF IInv, Typed

-----------------------------------------------------------------------------
(* The steps of the worker between its phases *)

\* A cancelled operation throws at its next check.
LEMMA CancelledInv == Keeps(Cancelled)
<1> SUFFICES ASSUME IInv, Cancelled PROVE IInv'
  BY DEF Keeps
<1>1. QuietMove
  BY LeaveMove DEF Cancelled, Throw
<1>2. UNCHANGED <<repos, svc, call, sessions, own, bounds>>
  BY DEF Cancelled, Worker
<1> QED BY <1>1, <1>2, StillRepos, QuietInv DEF repos, BoundsMove

\* The next phase starts; the count of the snapshots to make stays.
LEMMA NextPhaseInv == Keeps(NextPhase)
<1> SUFFICES ASSUME IInv, NextPhase PROVE IInv'
  BY DEF Keeps
<1>1. /\ w.pc = "phase" /\ w.rest # <<>> /\ w' = [w EXCEPT !.pc = Head(w.rest), !.n = 1]
      /\ UNCHANGED <<repos, svc, call, sessions, own, bounds>>
  BY DEF NextPhase, At, Worker
<1>2. w \in Operation /\ w.rest \in Rests
  BY DEF IInv, Typed, Operation
<1>3. Head(w.rest) \in PhaseNames
  BY <1>1, <1>2, RestAfterPhase
<1>4. w' \in Operation /\ w'.pc = Head(w.rest) /\ w'.rest = w.rest
  <2>1. ASSUME NEW p \in PhaseNames, w' = [w EXCEPT !.pc = p, !.n = 1]
        PROVE  w' \in Operation /\ w'.pc = p /\ w'.rest = w.rest
    <3>1. MaxAttempts \in Nat \ {0}
      BY ServiceAssumption
    <3>2. 1 \in 1 .. MaxAttempts
      BY <3>1
    <3>3. p \in WorkerPc
      BY Zenon DEF WorkerPc
    <3> QED BY <1>2, <2>1, <3>2, <3>3, Zenon DEF Operation
  <2> QED BY Zenon, <1>1, <1>3, <2>1
<1>5. w'.pc \notin Working
  BY <1>3, <1>4, Zenon DEF PhaseNames, Working
<1>6. WorkerMakes' <= WorkerMakes
  <2>1. CASE Head(w.rest) = "snapshot"
    <3>1. WorkerMakes = 1 /\ WorkerMakes' = 1
      BY <1>1, <1>4, <2>1 DEF WorkerMakes, StartsSnapshot
    <3> QED BY <3>1
  <2>2. CASE Head(w.rest) # "snapshot"
    <3>1. WorkerMakes = 0 /\ WorkerMakes' = 0
      BY <1>1, <1>3, <1>4, <2>2, Zenon DEF WorkerMakes, StartsSnapshot, PhaseNames
    <3> QED BY <3>1
  <2> QED BY <2>1, <2>2
<1>7. QuietMove
  BY <1>1, <1>4, <1>5, <1>6 DEF QuietMove
<1> QED BY <1>1, <1>7, StillRepos, QuietInv DEF repos, BoundsMove

\* finish_operation_success and finish_operation_failure
LEMMA FinishInv == Keeps(FinishSuccess \/ FinishFailure)
<1> SUFFICES ASSUME IInv, FinishSuccess \/ FinishFailure PROVE IInv'
  BY DEF Keeps
<1>1. /\ Leave("exit") /\ UNCHANGED <<repos, call, sessions, own, bounds>>
      /\ \/ svc' = [svc EXCEPT !.running = FALSE, !.cancel = FALSE, !.state = "succeeded"]
         \/ svc' = [svc EXCEPT !.running = FALSE, !.state = "failed"]
  BY DEF FinishSuccess, FinishFailure, Worker
<1>2. QuietMove
  BY <1>1, LeaveMove
<1>3. SvcOK' /\ svc'.no = svc.no
  BY <1>1, ZenonT(40) DEF SvcOK, IInv, Typed, TypeOK
<1>4. LocalWork' /\ RemoteWork'
  BY <1>2, Zenon DEF QuietMove, LocalWork, RemoteWork, Working
<1>5. /\ OwnHeld' /\ own' \subseteq Id /\ list' \in [Lister -> Listing]
      /\ local' \in Repositories /\ remote' \in Remotes /\ pub' \in Publics
  BY <1>1 DEF repos, sessions, IInv, OwnHeld, Typed, TypeOK
<1> QED BY <1>1, <1>2, <1>3, <1>4, <1>5, WorkerInv DEF QuietMove, BoundsMove, sessions
-----------------------------------------------------------------------------
(* create_local_snapshot_body *)

\* The checkpoint, before anything is written to the repository.
LEMMA CheckpointInv == Keeps(Checkpoint)
<1> SUFFICES ASSUME IInv, Checkpoint PROVE IInv'
  BY DEF Keeps
<1>1. /\ w.pc = "snapshot" /\ w' = [w EXCEPT !.pc = "store"]
      /\ UNCHANGED <<repos, svc, call, sessions, own, bounds>>
  BY DEF Checkpoint, At, Worker
<1>2. w \in Operation /\ w.rest # <<>>
  BY <1>1 DEF IInv, Typed, Resting
<1>3. w' \in Operation /\ w'.pc = "store" /\ w'.rest = w.rest
  BY <1>1, <1>2, Zenon DEF Operation, WorkerPc
<1>4. WorkerMakes' = 1 /\ WorkerMakes = 1
  BY <1>1, <1>3 DEF WorkerMakes
<1>5. QuietMove
  BY <1>2, <1>3, <1>4 DEF QuietMove, Working
<1> QED BY <1>1, <1>5, StillRepos, QuietInv DEF repos, BoundsMove

\* store_checkpoint_snapshot takes the next id, and there is one.
LEMMA StoreBeginInv == Keeps(StoreBegin)
<1> SUFFICES ASSUME IInv, StoreBegin PROVE IInv'
  BY DEF Keeps
<1> DEFINE i == bounds.ids + 1
<1>1. /\ w.pc = "store" /\ local' = [local EXCEPT !.partial = @ \cup {i}]
      /\ w' = [w EXCEPT !.pc = "objects", !.id = i, !.todo = Files[i]]
      /\ bounds' = [bounds EXCEPT !.ids = i]
      /\ UNCHANGED <<remote, pub, svc, call, sessions, own>>
  BY DEF StoreBegin, At, Worker
<1>2. WorkerMakes = 1
  BY <1>1 DEF WorkerMakes
<1>3. /\ bounds \in [ids: Nat, made: Nat, ops: Nat, events: Nat]
      /\ bounds.ids + Makes("admin") + Makes("scheduler") + WorkerMakes <= bounds.made
      /\ svc.no + Numbers("admin") + Numbers("scheduler") <= bounds.ops
      /\ bounds.ops <= MaxOps /\ bounds.made <= MaxId
  BY DEF IInv, Counted
<1>4. bounds.ids \in Nat /\ bounds.made \in Nat /\ Makes("admin") \in Nat /\ Makes("scheduler") \in Nat
  BY <1>3 DEF Makes
<1>5. i \in Id
  <2>1. MaxId \in Nat
    BY RepositoryAssumption
  <2>2. i <= MaxId
    BY <1>2, <1>3, <1>4, <2>1
  <2> QED BY <1>4, <2>1, <2>2 DEF Id
<1> HIDE DEF i
<1>6. /\ w' \in Operation /\ w'.pc = "objects" /\ w'.rest = w.rest /\ w'.id = i
      /\ w'.todo = Files[i] /\ w.rest # <<>>
  BY <1>1, <1>5, RepositoryAssumption, ZenonT(40) DEF IInv, Typed, Operation, WorkerPc, Working, MaybeId, Resting
<1>7. local' \in Repositories /\ local'.objs = local.objs /\ local'.dir = local.dir
  BY <1>1, <1>5 DEF IInv, Typed, TypeOK, Repositories
<1>8. Typed'
  BY <1>1, <1>6, <1>7, Zenon DEF IInv, Typed, TypeOK, Operation, MaybeId, sessions
<1>9. Counted'
  <2>1. /\ bounds' \in [ids: Nat, made: Nat, ops: Nat, events: Nat]
        /\ bounds'.ids = bounds.ids + 1 /\ bounds'.made = bounds.made /\ bounds'.ops = bounds.ops
    BY <1>1, <1>3, <1>4 DEF i
  <2>2. WorkerMakes' = 0
    BY <1>6 DEF WorkerMakes
  <2>3. \A c \in Caller : Numbers(c)' = Numbers(c) /\ Makes(c)' = Makes(c)
    BY <1>1 DEF Numbers, Makes
  <2>4. bounds'.ids + Makes("admin")' + Makes("scheduler")' + WorkerMakes' <= bounds'.made
    BY <1>2, <1>3, <1>4, <2>1, <2>2, <2>3 DEF Caller
  <2> QED BY <1>1, <1>3, <2>1, <2>3, <2>4 DEF Counted, Caller
<1>10. OwnHeld' /\ StageWork'
  BY <1>1, <1>7 DEF IInv, OwnHeld, StageWork, StagedIsWhole, sessions
<1>11. LocalWork' /\ RemoteWork'
  BY <1>5, <1>6 DEF LocalWork, RemoteWork
<1> QED BY <1>8, <1>9, <1>10, <1>11 DEF IInv

\* An object is stored, or found, under its name.
LEMMA StoreObjectInv ==
    ASSUME NEW o \in Obj
    PROVE  Keeps(StoreObject(o))
<1> SUFFICES ASSUME IInv, StoreObject(o) PROVE IInv'
  BY DEF Keeps
<1>1. /\ w.pc = "objects" /\ local' = [local EXCEPT !.objs = @ \cup {o}]
      /\ w' = [w EXCEPT !.todo = @ \ {o}]
      /\ UNCHANGED <<remote, pub, svc, call, sessions, own, bounds>>
  BY DEF StoreObject, At, Worker
<1>2. /\ w' \in Operation /\ w'.pc = w.pc /\ w'.rest = w.rest /\ w'.id = w.id
      /\ w'.todo = w.todo \ {o}
  BY <1>1 DEF IInv, Typed, Operation
<1>3. local' \in Repositories /\ local'.objs = local.objs \cup {o} /\ local'.dir = local.dir
  BY <1>1 DEF IInv, Typed, TypeOK, Repositories
<1>4. w'.rest # <<>> /\ WorkerMakes' <= WorkerMakes
  BY <1>1, <1>2, WorkMove, Zenon DEF Working, Resting
<1>5. OwnHeld' /\ LocalWork' /\ RemoteWork'
  BY <1>1, <1>2, <1>3, Zenon DEF IInv, OwnHeld, LocalWork, RemoteWork
<1> QED BY <1>1, <1>2, <1>3, <1>4, <1>5, StillRepos, BusyInv DEF BoundsMove
\* The rename of the .partial directory completes a snapshot that has its objects.
LEMMA StoreCommitInv == Keeps(StoreCommit)
<1> SUFFICES ASSUME IInv, StoreCommit PROVE IInv'
  BY DEF Keeps
<1>1. /\ w.pc = "objects" /\ w.todo = {}
      /\ local' = [local EXCEPT !.partial = @ \ {w.id}, !.dir[w.id] = "complete"]
      /\ own' = own \cup {w.id} /\ w' = [w EXCEPT !.pc = "store latest"]
      /\ UNCHANGED <<remote, pub, svc, call, sessions, bounds>>
  BY Zenon DEF StoreCommit, At, Worker
<1>2. w' \in Operation /\ w'.pc = "store latest" /\ w'.rest = w.rest
  BY <1>1, Zenon DEF IInv, Typed, Operation, WorkerPc
<1>3. QuietMove
  BY <1>1, <1>2, PhaseMove, Zenon DEF Working, Resting
<1>4. w.id \in Id /\ Files[w.id] \subseteq local.objs
  BY <1>1, Zenon DEF IInv, LocalWork
<1>5. /\ local' \in Repositories /\ local'.objs = local.objs
      /\ \A i \in Id : local'.dir[i] = IF i = w.id THEN "complete" ELSE local.dir[i]
  BY <1>1, <1>4, Zenon DEF IInv, Typed, TypeOK, Repositories, DirState
<1>6. own' \subseteq Id /\ own \subseteq Id
  BY <1>1, <1>4, Zenon DEF IInv, Typed, TypeOK
<1>7. OwnHeld'
  BY <1>1, <1>4, <1>5, <1>6, Zenon DEF IInv, OwnHeld
<1>8. LocalWork' /\ RemoteWork'
  BY <1>2, Zenon DEF LocalWork, RemoteWork
<1>9. SvcOK' /\ list' \in [Lister -> Listing]
  BY <1>1, Zenon DEF IInv, Typed, TypeOK, SvcOK, sessions
<1> QED BY <1>1, <1>3, <1>5, <1>6, <1>7, <1>8, <1>9, StillRepos, WorkerInv, Zenon
        DEF QuietMove, BoundsMove, sessions

\* latest.json, and the snapshots that exceed the retention count.
LEMMA StoreLatestInv == Keeps(StoreLatest)
<1> SUFFICES ASSUME IInv, StoreLatest PROVE IInv'
  BY DEF Keeps
<1> DEFINE old == Exceeding(Completed(local), LocalRetention)
<1>1. /\ w.pc = "store latest" /\ local' = [local EXCEPT !.latest = w.id]
      /\ EndPhase \/ w' = [w EXCEPT !.pc = "prune", !.todo = old]
      /\ UNCHANGED <<remote, pub, svc, call, sessions, own, bounds>>
  BY Zenon DEF StoreLatest, At, Worker
<1>2. old \subseteq Id
  BY DEF Exceeding, Oldest, Completed
<1> HIDE DEF old
<1>3. QuietMove
  <2>1. CASE EndPhase
    BY <1>1, <2>1, EndPhaseMove, Zenon DEF Resting
  <2>2. CASE w' = [w EXCEPT !.pc = "prune", !.todo = old]
    <3>1. w' \in Operation /\ w'.pc = "prune" /\ w'.rest = w.rest
      BY <1>2, <2>2, Zenon DEF IInv, Typed, Operation, WorkerPc
    <3> QED BY <1>1, <3>1, PhaseMove, Zenon DEF Working, Resting
  <2> QED BY <1>1, <2>1, <2>2, Zenon
<1>4. LocalGrows
  BY <1>1, Zenon DEF LocalGrows, IInv, Typed, TypeOK, Repositories
<1> QED BY <1>1, <1>3, <1>4, StillRepos, QuietInv, Zenon DEF BoundsMove

\* Bounds that count a failure only if there was one.
LEMMA MaybeFailed ==
    ASSUME IInv, NEW failed \in BOOLEAN,
           bounds' = [bounds EXCEPT !.events = IF failed THEN @ + 1 ELSE @]
    PROVE  BoundsMove
<1>1. bounds \in [ids: Nat, made: Nat, ops: Nat, events: Nat]
  BY DEF IInv, Counted
<1>2. CASE failed
  BY <1>1, <1>2 DEF BoundsMove
<1>3. CASE ~failed
  BY <1>1, <1>3 DEF BoundsMove
<1> QED BY <1>2, <1>3

\* A directory is removed, perhaps not to the end: the snapshot is not kept any more.
LEMMA PruneDirectoryInv ==
    ASSUME NEW i \in Id, NEW failed \in BOOLEAN
    PROVE  Keeps(PruneDirectory(i, failed))
<1> SUFFICES ASSUME IInv, PruneDirectory(i, failed) PROVE IInv'
  BY DEF Keeps
<1>1. /\ w.pc = "prune" /\ own' = own \ {i} /\ w' = [w EXCEPT !.todo = @ \ {i}]
      /\ \E left \in Remains(i, failed) : local' = [local EXCEPT !.dir[i] = left]
      /\ UNCHANGED <<remote, pub, svc, call, sessions>>
  BY DEF PruneDirectory, At, Worker
<1>2. w' \in Operation /\ w'.pc = "prune" /\ w'.rest = w.rest
  BY <1>1 DEF IInv, Typed, Operation
<1>3. QuietMove
  BY <1>1, <1>2, PhaseMove, Zenon DEF Working, Resting
<1>4. /\ local' \in Repositories /\ local'.objs = local.objs
      /\ \A j \in Id \ {i} : local'.dir[j] = local.dir[j]
  BY <1>1 DEF IInv, Typed, TypeOK, Repositories, Remains, DirState
<1>5. OwnHeld' /\ own' \subseteq own
  BY <1>1, <1>4 DEF IInv, OwnHeld, Typed, TypeOK
<1>6. LocalWork' /\ RemoteWork'
  BY <1>2 DEF LocalWork, RemoteWork
<1>7. BoundsMove
  BY MaybeFailed DEF PruneDirectory
<1>8. w'.rest # <<>>
  BY <1>2, <1>3 DEF QuietMove, Resting
<1> QED BY <1>1, <1>3, <1>4, <1>5, <1>6, <1>7, <1>8, StillRepos, BusyInv DEF QuietMove

\* The objects that no completed snapshot names belong to no snapshot that is kept.
LEMMA PruneCollectInv == Keeps(PruneCollect)
<1> SUFFICES ASSUME IInv, PruneCollect PROVE IInv'
  BY DEF Keeps
<1>1. /\ w.pc = "prune" /\ UNCHANGED <<repos, svc, call, sessions, own, bounds>>
      /\ w' = [w EXCEPT !.pc = "prune objects",
                        !.todo = local.objs \ Named(local, Completed(local))]
  BY DEF PruneCollect, At, Worker
<1>2. /\ w' \in Operation /\ w'.pc = "prune objects" /\ w'.rest = w.rest
      /\ w'.todo = local.objs \ Named(local, Completed(local))
  <2>1. local.objs \subseteq Obj
    BY DEF IInv, Typed, TypeOK, Repositories
  <2> QED BY <1>1, <2>1, Zenon DEF IInv, Typed, Operation, WorkerPc, Working
<1>3. w'.rest # <<>> /\ WorkerMakes' <= WorkerMakes
  BY <1>1, <1>2, WorkMove DEF Working, Resting
<1>4. \A i \in own : Files[i] \subseteq Named(local, Completed(local))
  BY DEF IInv, OwnHeld, Named, Completed, Typed, TypeOK
<1>5. OwnHeld' /\ LocalWork' /\ RemoteWork'
  BY <1>1, <1>2, <1>4 DEF repos, IInv, OwnHeld, LocalWork, RemoteWork
<1> QED BY <1>1, <1>2, <1>3, <1>5, StillRepos, BusyInv DEF repos, BoundsMove

\* An object that is removed is one of those.
LEMMA PruneObjectInv == Keeps(PruneObject)
<1> SUFFICES ASSUME IInv, PruneObject PROVE IInv'
  BY DEF Keeps
<1>1. /\ w.pc = "prune objects" /\ UNCHANGED <<remote, pub, svc, call, sessions, own, bounds>>
      /\ \/ EndPhase /\ UNCHANGED local
         \/ \E o \in w.todo : /\ local' = [local EXCEPT !.objs = @ \ {o}]
                              /\ w' = [w EXCEPT !.todo = @ \ {o}]
  BY Zenon DEF PruneObject, At, Worker, FirstOf
<1>2. CASE EndPhase /\ UNCHANGED local
  <2>1. QuietMove
    BY <1>1, <1>2, EndPhaseMove, Zenon DEF Resting
  <2> QED BY <1>1, <1>2, <2>1, StillRepos, QuietInv, Zenon DEF BoundsMove
<1>3. ASSUME NEW o \in w.todo, local' = [local EXCEPT !.objs = @ \ {o}],
             w' = [w EXCEPT !.todo = @ \ {o}]
      PROVE  IInv'
  <2>1. w' \in Operation /\ w'.pc = w.pc /\ w'.rest = w.rest /\ w'.todo = w.todo \ {o}
    BY <1>3 DEF IInv, Typed, Operation
  <2>2. w'.rest # <<>> /\ WorkerMakes' <= WorkerMakes
    BY <1>1, <2>1, WorkMove, Zenon DEF Working, Resting
  <2>3. local' \in Repositories /\ local'.objs = local.objs \ {o} /\ local'.dir = local.dir
    BY <1>3 DEF IInv, Typed, TypeOK, Repositories
  <2>4. \A i \in own : o \notin Files[i]
    BY <1>1, <1>3, Zenon DEF IInv, LocalWork
  <2>5. OwnHeld' /\ LocalWork' /\ RemoteWork'
    BY <1>1, <2>1, <2>3, <2>4, ZenonT(40) DEF IInv, OwnHeld, LocalWork, RemoteWork
  <2> QED BY <1>1, <2>1, <2>2, <2>3, <2>5, StillRepos, BusyInv, Zenon DEF BoundsMove
<1> QED BY <1>1, <1>2, <1>3, Zenon
-----------------------------------------------------------------------------
(* upload_latest_snapshot_with_managed_sftp *)

\* A change of the public or remote repository in a step that says nothing of todo.
LEMMA QuietRemoteInv ==
    ASSUME IInv, UNCHANGED <<local, svc, call, sessions, own, bounds>>, QuietMove,
           remote' \in Remotes, pub' \in Publics
    PROVE  IInv'
  BY StillRepos, QuietInv DEF BoundsMove

\* The plan of an upload: nothing has been sent yet.
LEMMA UploadPlanInv == Keeps(UploadPlan)
<1> SUFFICES ASSUME IInv, UploadPlan PROVE IInv'
  BY DEF Keeps
<1>1. /\ w.pc = "upload" /\ UNCHANGED <<repos, svc, call, sessions, own, bounds>>
      /\ \/ /\ local.latest # NoId
            /\ w' = [w EXCEPT !.pc = "put", !.id = local.latest,
                              !.plan = local.objs, !.todo = local.objs]
         \/ Throw
  BY DEF UploadPlan, At, Worker
<1>2. CASE Throw
  <2>1. QuietMove
    BY <1>2, LeaveMove DEF Throw
  <2> QED BY <1>1, <2>1, StillRepos, QuietRemoteInv DEF repos
<1>3. ASSUME local.latest # NoId,
             w' = [w EXCEPT !.pc = "put", !.id = local.latest,
                            !.plan = local.objs, !.todo = local.objs]
      PROVE  IInv'
  <2>1. local.objs \subseteq Obj /\ local.latest \in Id
    BY <1>3 DEF IInv, Typed, TypeOK, Repositories
  <2>2. /\ w' \in Operation /\ w'.pc = "put" /\ w'.rest = w.rest /\ w'.plan = w'.todo
        /\ w'.id \in Id
    BY <1>3, <2>1, Zenon DEF IInv, Typed, Operation, WorkerPc, Working, MaybeId
  <2>3. w'.rest # <<>> /\ WorkerMakes' <= WorkerMakes
    BY <1>1, <2>2, WorkMove DEF Working, Resting
  <2>4. OwnHeld' /\ LocalWork' /\ RemoteWork'
    BY <1>1, <2>2 DEF repos, IInv, OwnHeld, LocalWork, RemoteWork
  <2> QED BY <1>1, <2>2, <2>3, <2>4, StillRepos, BusyInv DEF repos, BoundsMove
<1> QED BY <1>1, <1>2, <1>3

\* An object is on the server when it leaves todo.
LEMMA UploadObjectInv ==
    ASSUME NEW o \in Obj
    PROVE  Keeps(UploadObject(o))
<1> SUFFICES ASSUME IInv, UploadObject(o) PROVE IInv'
  BY DEF Keeps
<1>1. /\ w.pc = "put" /\ remote' = PutObject(remote, o) /\ w' = [w EXCEPT !.todo = @ \ {o}]
      /\ UNCHANGED <<local, pub, svc, call, sessions, own, bounds>>
  BY DEF UploadObject, At, Worker
<1>2. /\ w' \in Operation /\ w'.pc = w.pc /\ w'.rest = w.rest /\ w'.plan = w.plan
      /\ w'.todo = w.todo \ {o} /\ w'.plan \subseteq Obj /\ w'.id = w.id
  BY <1>1 DEF IInv, Typed, Operation
<1>3. w'.rest # <<>> /\ WorkerMakes' <= WorkerMakes
  BY <1>1, <1>2, WorkMove, Zenon DEF Working, Resting
<1>4. remote' \in Remotes /\ \A p \in Obj : remote'.objs[p] = IF p = o THEN "full" ELSE remote.objs[p]
  BY <1>1, Zenon DEF PutObject, IInv, Typed, TypeOK, Remotes, RemoteObject
<1>5. OwnHeld' /\ LocalWork' /\ RemoteWork'
  BY <1>1, <1>2, <1>4, ZenonT(40) DEF IInv, OwnHeld, LocalWork, RemoteWork
<1> QED BY <1>1, <1>2, <1>3, <1>4, <1>5, StillRepos, BusyInv DEF BoundsMove

\* With the last object sent, the metadata goes to the .partial directory.
LEMMA UploadMetadataInv == Keeps(UploadMetadata)
<1> SUFFICES ASSUME IInv, UploadMetadata PROVE IInv'
  BY DEF Keeps
<1>1. /\ w.pc = "put" /\ w.todo = {} /\ remote' = PutPartial(remote, w.id)
      /\ w' = [w EXCEPT !.pc = "rename"]
      /\ UNCHANGED <<local, pub, svc, call, sessions, own, bounds>>
  BY DEF UploadMetadata, At, Worker
<1>2. /\ w' \in Operation /\ w'.pc = "rename" /\ w'.rest = w.rest /\ w'.plan = w.plan
      /\ w'.id = w.id /\ w.id \in Id
  BY <1>1, Zenon DEF IInv, Typed, Operation, WorkerPc, Working, RemoteWork
<1>3. w'.rest # <<>> /\ WorkerMakes' <= WorkerMakes
  BY <1>1, <1>2, WorkMove DEF Working, Resting
<1>4. remote' \in Remotes /\ remote'.objs = remote.objs
  BY <1>1, <1>2, Zenon DEF PutPartial, IInv, Typed, TypeOK, Remotes
<1>5. OwnHeld' /\ LocalWork' /\ RemoteWork'
  BY <1>1, <1>2, <1>4 DEF IInv, OwnHeld, LocalWork, RemoteWork
<1> QED BY <1>1, <1>2, <1>3, <1>4, <1>5, StillRepos, BusyInv DEF BoundsMove

\* run_native_sftp_commands_with_retries starts over with nothing sent, or gives up.
LEMMA UploadErrorInv ==
    ASSUME IInv, w.pc \in UploadPcs, UploadError, remote' \in Remotes, BoundsMove,
           UNCHANGED <<local, pub, svc, call, sessions, own>>
    PROVE  IInv'
<1>1. CASE Throw
  <2>1. QuietMove
    BY <1>1, LeaveMove DEF Throw
  <2> QED BY <2>1, StillRepos, QuietInv
<1>2. CASE w.n < MaxAttempts /\ w' = [w EXCEPT !.pc = "put", !.todo = w.plan, !.n = @ + 1]
  <2>1. w \in Operation /\ MaxAttempts \in Nat
    BY ServiceAssumption DEF IInv, Typed
  <2>2. w.n \in 1 .. MaxAttempts /\ w.n + 1 \in 1 .. MaxAttempts
    BY <1>2, <2>1 DEF Operation
  <2>3. /\ w' \in Operation /\ w'.pc = "put" /\ w'.rest = w.rest
        /\ w'.plan = w'.todo /\ w'.id = w.id
    BY <1>2, <2>1, <2>2, Zenon DEF Operation, WorkerPc, Working
  <2>4. w'.rest # <<>> /\ WorkerMakes' <= WorkerMakes
    BY <2>3, WorkMove, Zenon DEF Working, Resting, UploadPcs
  <2>5. OwnHeld' /\ LocalWork' /\ RemoteWork'
    BY <2>3, Zenon DEF IInv, OwnHeld, LocalWork, RemoteWork, UploadPcs
  <2> QED BY <2>3, <2>4, <2>5, StillRepos, BusyInv
<1> QED BY <1>1, <1>2 DEF UploadError

\* rename_path: refused, or the snapshot appears with every object of the plan.
LEMMA UploadRenameInv == Keeps(UploadRename)
<1> SUFFICES ASSUME IInv, UploadRename PROVE IInv'
  BY DEF Keeps
<1>1. /\ w.pc = "rename" /\ UNCHANGED <<local, pub, svc, call, sessions, own, bounds>>
      /\ \/ UploadError /\ UNCHANGED remote
         \/ /\ remote' = RenamePartial(remote, w.id)
            /\ w' = [w EXCEPT !.pc = "latest put", !.kept = w.id]
  BY DEF UploadRename, At, Worker
<1>2. CASE UploadError /\ UNCHANGED remote
  BY <1>1, <1>2, StillRepos, UploadErrorInv DEF BoundsMove, UploadPcs
<1>3. CASE /\ remote' = RenamePartial(remote, w.id)
           /\ w' = [w EXCEPT !.pc = "latest put", !.kept = w.id]
  <2>1. /\ w' \in Operation /\ w'.pc = "latest put" /\ w'.rest = w.rest
        /\ w'.id = w.id /\ w.id \in Id
    BY <1>1, <1>3, ZenonT(40) DEF IInv, Typed, Operation, WorkerPc, Working, RemoteWork, MaybeId
  <2>2. w'.rest # <<>> /\ WorkerMakes' <= WorkerMakes
    BY <1>1, <2>1, WorkMove, Zenon DEF Working, Resting
  <2>3. remote' \in Remotes
    BY <1>3, Zenon DEF RenamePartial, IInv, Typed, TypeOK, Remotes, RemoteDir
  <2>4. OwnHeld' /\ LocalWork' /\ RemoteWork'
    BY <1>1, <2>1, Zenon DEF IInv, OwnHeld, LocalWork, RemoteWork
  <2> QED BY <1>1, <2>1, <2>2, <2>3, <2>4, StillRepos, BusyInv, Zenon DEF BoundsMove
<1> QED BY <1>1, <1>2, <1>3

\* latest.json is replaced in three steps.
LEMMA UploadLatestInv == Keeps(UploadLatest)
<1> SUFFICES ASSUME IInv, UploadLatest PROVE IInv'
  BY DEF Keeps
<1>1. UNCHANGED <<local, pub, svc, call, sessions, own, bounds>>
  BY Zenon DEF UploadLatest, Worker
<1>2. local.latest \in MaybeId /\ remote \in Remotes /\ remote.latestPartial \in MaybeId
  BY DEF IInv, Typed, TypeOK, Repositories, Remotes, MaybeId
<1>3. remote' \in Remotes
  BY <1>2, Zenon DEF UploadLatest, PutLatest, RemoveLatest, RenameLatest, Remotes, MaybeId
<1>4. CASE w.pc = "latest mv" /\ EndPhase
  <2>1. QuietMove
    BY <1>4, EndPhaseMove, Zenon DEF Resting
  <2> QED BY <1>1, <1>3, <2>1, StillRepos, QuietRemoteInv
<1>5. ASSUME NEW pc \in {"latest rm", "latest mv"}, w.pc \in {"latest put", "latest rm"},
             w' = [w EXCEPT !.pc = pc]
      PROVE  IInv'
  <2>1. w' \in Operation /\ w'.pc = pc /\ w'.rest = w.rest /\ w'.id = w.id /\ w.id \in Id
    BY <1>5, Zenon DEF IInv, Typed, Operation, WorkerPc, Working, RemoteWork
  <2>2. w'.rest # <<>> /\ WorkerMakes' <= WorkerMakes
    BY <1>5, <2>1, WorkMove, Zenon DEF Working, Resting
  <2>3. OwnHeld' /\ LocalWork' /\ RemoteWork'
    BY <1>1, <2>1, Zenon DEF IInv, OwnHeld, LocalWork, RemoteWork
  <2> QED BY <1>1, <1>3, <2>1, <2>2, <2>3, StillRepos, BusyInv, Zenon DEF BoundsMove
<1> QED BY <1>4, <1>5, Zenon DEF UploadLatest, At

-----------------------------------------------------------------------------
(* publish_public_bootstrap_plan_with_sftp *)

\* A step from one place in a phase to another that says nothing of todo.
LEMMA GotoMove ==
    ASSUME IInv, w.pc \notin Resting, NEW i \in MaybeId,
           NEW pc \in WorkerPc \ (Working \cup Resting \cup {"snapshot", "store"}),
           w' = [w EXCEPT !.pc = pc] \/ w' = [w EXCEPT !.pc = pc, !.id = i]
    PROVE  QuietMove
<1>1. w' \in Operation /\ w'.pc = pc /\ w'.rest = w.rest
  BY ZenonT(40) DEF IInv, Typed, Operation
<1> QED BY <1>1, PhaseMove

\* The public directory is metadata only.
LEMMA PublishInv == Keeps(PublishPlan \/ PublishMetadata \/ PublishSwap \/ PublishPrune)
<1> SUFFICES ASSUME IInv, PublishPlan \/ PublishMetadata \/ PublishSwap \/ PublishPrune PROVE IInv'
  BY DEF Keeps
<1> USE DEF At
<1>1. UNCHANGED <<local, remote, svc, call, sessions, own, bounds>>
  BY Zenon DEF PublishPlan, PublishMetadata, PublishSwap, PublishPrune, Worker, repos
<1>2. pub \in Publics /\ w.id \in MaybeId /\ local.latest \in MaybeId
  BY DEF IInv, Typed, TypeOK, MaybeId, Repositories
<1>3. CASE PublishPlan
  <2>1. w.pc = "publish" /\ (Throw \/ w' = [w EXCEPT !.pc = "publish meta", !.id = local.latest])
    BY <1>3 DEF PublishPlan
  <2>2. QuietMove
    BY Zenon, <1>2, <2>1, LeaveMove, GotoMove DEF Throw, Resting, Working, WorkerPc
  <2> QED BY <1>1, <1>3, <2>2, StillRepos, QuietRemoteInv DEF PublishPlan, Worker, repos
<1>4. CASE PublishMetadata
  <2>1. QuietMove
    BY Zenon, <1>2, <1>4, GotoMove DEF PublishMetadata, Resting, Working, WorkerPc
  <2> QED BY <1>1, <1>4, <2>1, StillRepos, QuietRemoteInv, Zenon DEF PublishMetadata, Worker, repos
<1>5. CASE PublishSwap
  <2>1. QuietMove
    BY Zenon, <1>2, <1>5, GotoMove DEF PublishSwap, Resting, Working, WorkerPc
  <2>2. pub' \in Publics
    <3>1. ASSUME NEW d \in RemoteDir, NEW i, pub' = [pub EXCEPT !.dir[i] = d]
          PROVE  pub' \in Publics
      BY <1>2, <3>1 DEF Publics
    <3>2. ASSUME NEW i \in MaybeId, pub' = [pub EXCEPT !.latest = i]
          PROVE  pub' \in Publics
      BY <1>2, <3>2 DEF Publics, MaybeId
    <3> QED BY <1>2, <1>5, <3>1, <3>2, Zenon DEF PublishSwap, RemoteDir, MaybeId
  <2> QED BY <1>1, <2>1, <2>2, StillRepos, QuietRemoteInv
<1>6. CASE PublishPrune
  <2>1. pub' \in Publics
    <3>1. ASSUME NEW i, pub' = [pub EXCEPT !.dir[i] = "absent"] PROVE pub' \in Publics
      BY <1>2, <3>1 DEF Publics, RemoteDir
    <3> QED BY <1>2, <1>6, <3>1, Zenon DEF PublishPrune
  <2>2. w.pc = "publish prune" /\ (EndPhase \/ w' = w)
    BY <1>6, Zenon DEF PublishPrune
  <2>3. QuietMove
    BY <2>2, EndPhaseMove, PhaseMove, Zenon DEF Resting, Working, IInv, Typed
  <2> QED BY <1>1, <2>1, <2>3, StillRepos, QuietRemoteInv
<1> QED BY <1>3, <1>4, <1>5, <1>6
-----------------------------------------------------------------------------
(* Retention and deletion *)

\* prune_remote_retention_if_configured waits for a listing of its own.
LEMMA RetainInv == Keeps(Retain \/ RetainListed)
<1> SUFFICES ASSUME IInv, Retain \/ RetainListed PROVE IInv'
  BY DEF Keeps
<1> USE DEF At
<1>1. /\ w.pc \in {"retain", "retain listing"} /\ w.id \in MaybeId
      /\ UNCHANGED <<repos, svc, call, stage, staged, own, bounds>>
      /\ \/ EndPhase \/ Throw
         \/ \E pc \in {"retain listing", "retain next"} : w' = [w EXCEPT !.pc = pc]
  BY Zenon DEF Retain, RetainListed, Worker, IInv, Typed, TypeOK, MaybeId
<1>2. QuietMove
  BY Zenon, <1>1, EndPhaseMove, LeaveMove, GotoMove DEF Throw, Resting, Working, WorkerPc
<1>3. list' \in [Lister -> Listing]
  <2>1. list \in [Lister -> Listing]
    BY DEF IInv, Typed
  <2>2. NoList \in Listing
    BY DEF NoList, Listing, MaybeId
  <2>3. [list["worker"] EXCEPT !.pc = "latest"] \in Listing
    BY <2>1, Zenon DEF Listing, Lister
  <2> QED BY <2>1, <2>2, <2>3, Zenon DEF Retain, RetainListed
<1>4. LocalWork' /\ RemoteWork'
  BY <1>2, Zenon DEF QuietMove, LocalWork, RemoteWork, Working
<1>5. OwnHeld' /\ own' \subseteq Id /\ SvcOK'
  BY <1>1, Zenon DEF repos, IInv, OwnHeld, Typed, TypeOK, SvcOK
<1> QED BY <1>1, <1>2, <1>3, <1>4, <1>5, StillRepos, WorkerInv, Zenon DEF repos, QuietMove, BoundsMove

\* The oldest snapshot past the retention count is the next to go.
LEMMA RetainNextInv == Keeps(RetainNext)
<1> SUFFICES ASSUME IInv, RetainNext PROVE IInv'
  BY DEF Keeps
<1> DEFINE old == Expirable(remote, w.kept)
<1>1. /\ w.pc = "retain next" /\ UNCHANGED <<repos, svc, call, sessions, own, bounds>>
      /\ \/ EndPhase
         \/ old # {} /\ w' = [w EXCEPT !.pc = "remote delete", !.id = Eldest(old)]
  BY Zenon DEF RetainNext, At, Worker
<1>2. old \in SUBSET Id
  BY DEF Expirable, Exceeding, Oldest, Listed
<1> HIDE DEF old
<1>3. CASE EndPhase
  <2>1. QuietMove
    BY <1>1, <1>3, EndPhaseMove, Zenon DEF Resting
  <2> QED BY <1>1, <2>1, StillRepos, QuietRemoteInv, Zenon DEF repos
<1>4. CASE old # {} /\ w' = [w EXCEPT !.pc = "remote delete", !.id = Eldest(old)]
  <2>1. Eldest(old) \in MaybeId
    BY <1>2, <1>4, EldestIsOne DEF MaybeId
  <2>2. QuietMove
    BY Zenon, <1>1, <1>4, <2>1, GotoMove DEF Resting, Working, WorkerPc, PhaseNames
  <2> QED BY <1>1, <2>2, StillRepos, QuietRemoteInv, Zenon DEF repos
<1> QED BY <1>1, <1>3, <1>4, Zenon

\* After a deletion the phase ends, or retention goes on.
LEMMA DeletedMove ==
    ASSUME IInv, w.pc \notin Resting, Deleted
    PROVE  QuietMove
<1>1. w.id \in MaybeId
  BY DEF IInv, Typed, TypeOK, MaybeId
<1> QED BY Zenon, <1>1, EndPhaseMove, GotoMove DEF Deleted, Resting, Working, WorkerPc

\* delete_remote_backup_snapshot settles what no other listed snapshot names.
LEMMA RemoteDeleteInv == Keeps(RemoteDelete)
<1> SUFFICES ASSUME IInv, RemoteDelete PROVE IInv'
  BY DEF Keeps
<1> DEFINE to == [w EXCEPT !.pc = "remote files", !.todo = Reclaimable(remote, w.id),
                           !.wasLatest = (remote.latest = w.id),
                           !.next = Newest(Listed(remote) \ {w.id})]
<1>1. /\ w.pc = "remote delete" /\ UNCHANGED <<repos, svc, call, sessions, own, bounds>>
      /\ Throw \/ Deleted \/ (w.id \in Listed(remote) /\ w' = to)
  BY Zenon DEF RemoteDelete, At, Worker
<1>2. CASE Throw \/ Deleted
  <2>1. QuietMove
    BY <1>1, <1>2, LeaveMove, DeletedMove, Zenon DEF Throw, Resting
  <2> QED BY <1>1, <2>1, StillRepos, QuietRemoteInv, Zenon DEF repos
<1>3. CASE w.id \in Listed(remote) /\ w' = to
  <2>1. Newest(Listed(remote) \ {w.id}) \in MaybeId
    BY NewestIsId DEF Listed
  <2>2. Reclaimable(remote, w.id) \subseteq Obj
    BY <1>3, RepositoryAssumption DEF Reclaimable, Listed
  <2>3. /\ w' \in Operation /\ w'.pc = "remote files" /\ w'.rest = w.rest /\ w'.id = w.id
        /\ w'.todo = Reclaimable(remote, w.id)
    BY <1>3, <2>1, <2>2, ZenonT(40) DEF IInv, Typed, Operation, WorkerPc, Working
  <2>4. w'.rest # <<>> /\ WorkerMakes' <= WorkerMakes
    BY <1>1, <2>3, WorkMove, Zenon DEF Working, Resting
  <2>5. \A i \in Listed(remote) \ {w.id} : Files[i] \cap Reclaimable(remote, w.id) = {}
    BY DEF Reclaimable
  <2>6. OwnHeld' /\ LocalWork' /\ RemoteWork'
    BY <1>1, <2>3, <2>5, Zenon DEF repos, IInv, OwnHeld, LocalWork, RemoteWork
  <2> QED BY <1>1, <2>3, <2>4, <2>6, StillRepos, BusyInv, Zenon DEF repos, BoundsMove
<1> QED BY <1>1, <1>2, <1>3, Zenon

\* The snapshot leaves the listing before the first of its objects is removed.
LEMMA RemoteRemoveInv == Keeps(RemoteRemove)
<1> SUFFICES ASSUME IInv, RemoteRemove PROVE IInv'
  BY DEF Keeps
<1> USE DEF At
<1>1. /\ w.pc \in {"remote files", "remote dir", "remote objects"}
      /\ UNCHANGED <<local, pub, svc, call, sessions, own, bounds>>
  BY Zenon DEF RemoteRemove, Worker
<1>2. remote \in Remotes /\ w \in Operation
  BY DEF IInv, Typed, TypeOK
<1>3. CASE /\ w.pc = "remote files"
           /\ remote' = RemoveFiles(remote, w.id) /\ w' = [w EXCEPT !.pc = "remote dir"]
  <2>1. w' \in Operation /\ w'.pc = "remote dir" /\ w'.rest = w.rest /\ w'.todo = w.todo
    BY <1>2, <1>3, Zenon DEF Operation, WorkerPc, Working
  <2>2. w'.rest # <<>> /\ WorkerMakes' <= WorkerMakes
    BY <1>1, <2>1, WorkMove, Zenon DEF Working, Resting
  <2>3. remote' \in Remotes /\ Listed(remote') \subseteq Listed(remote) \ {w.id}
    BY <1>2, <1>3, Zenon DEF RemoveFiles, Remotes, RemoteDir, Listed
  <2>4. OwnHeld' /\ LocalWork' /\ RemoteWork'
    BY <1>1, <1>3, <2>1, <2>3, Zenon DEF IInv, OwnHeld, LocalWork, RemoteWork
  <2> QED BY <1>1, <2>1, <2>2, <2>3, <2>4, StillRepos, BusyInv, Zenon DEF BoundsMove
<1>4. CASE /\ w.pc = "remote dir"
           /\ remote' = RemoveDirectory(remote, w.id) /\ w' = [w EXCEPT !.pc = "remote objects"]
  <2>1. w' \in Operation /\ w'.pc = "remote objects" /\ w'.rest = w.rest /\ w'.todo = w.todo
    BY <1>2, <1>4, Zenon DEF Operation, WorkerPc, Working
  <2>2. w'.rest # <<>> /\ WorkerMakes' <= WorkerMakes
    BY <1>1, <2>1, WorkMove, Zenon DEF Working, Resting
  <2>3. remote' \in Remotes /\ Listed(remote') \subseteq Listed(remote)
    BY <1>2, <1>4, Zenon DEF RemoveDirectory, Remotes, RemoteDir, Listed
  <2>4. OwnHeld' /\ LocalWork' /\ RemoteWork'
    BY <1>1, <1>4, <2>1, <2>3, Zenon DEF IInv, OwnHeld, LocalWork, RemoteWork
  <2> QED BY <1>1, <2>1, <2>2, <2>3, <2>4, StillRepos, BusyInv, Zenon DEF BoundsMove
<1>5. ASSUME w.pc = "remote objects", NEW o \in FirstOf(w.todo),
             remote' = RemoveObject(remote, o), w' = [w EXCEPT !.todo = @ \ {o}]
      PROVE  IInv'
  <2>1. w' \in Operation /\ w'.pc = "remote objects" /\ w'.rest = w.rest /\ w'.todo \subseteq w.todo
    BY <1>2, <1>5, Zenon DEF Operation
  <2>2. w'.rest # <<>> /\ WorkerMakes' <= WorkerMakes
    BY <1>1, <2>1, WorkMove, Zenon DEF Working, Resting
  <2>3. remote' \in Remotes /\ Listed(remote') = Listed(remote)
    BY <1>2, <1>5, Zenon DEF RemoveObject, Remotes, RemoteObject, Listed
  <2>4. OwnHeld' /\ LocalWork' /\ RemoteWork'
    BY <1>1, <1>5, <2>1, <2>3, Zenon DEF IInv, OwnHeld, LocalWork, RemoteWork
  <2> QED BY <1>1, <2>1, <2>2, <2>3, <2>4, StillRepos, BusyInv, Zenon DEF BoundsMove
<1> QED BY <1>3, <1>4, <1>5, Zenon DEF RemoteRemove
\* latest.json follows the deletion of the snapshot it names.
LEMMA RemoteLatestInv == Keeps(RemoteLatest)
<1> SUFFICES ASSUME IInv, RemoteLatest PROVE IInv'
  BY DEF Keeps
<1> USE DEF At
<1>1. /\ w.pc \in {"remote objects", "remote latest rm", "remote latest mv"}
      /\ UNCHANGED <<local, pub, svc, call, sessions, own, bounds>>
      /\ \/ Deleted
         \/ \E pc \in {"remote latest rm", "remote latest mv"} : w' = [w EXCEPT !.pc = pc]
      /\ \/ remote' = remote \/ remote' = RemoveLatest(remote)
         \/ remote' = PutLatest(remote, w.next) \/ remote' = RenameLatest(remote)
  BY Zenon DEF RemoteLatest, Worker
<1>2. /\ remote \in Remotes /\ remote.latestPartial \in MaybeId
      /\ w.next \in MaybeId /\ w.id \in MaybeId
  BY DEF IInv, Typed, TypeOK, Operation, Remotes, MaybeId
<1>3. remote' \in Remotes
  BY <1>1, <1>2, Zenon DEF RemoveLatest, PutLatest, RenameLatest, Remotes, MaybeId
<1>4. QuietMove
  BY Zenon, <1>1, <1>2, DeletedMove, GotoMove DEF Resting, Working, WorkerPc
<1> QED BY <1>1, <1>3, <1>4, StillRepos, QuietRemoteInv, Zenon

\* delete_local_backup_snapshot: what the snapshot alone names is to be removed, and the
\* snapshot is not kept any more.
LEMMA LocalDeleteInv ==
    ASSUME NEW failed \in BOOLEAN
    PROVE  Keeps(LocalDelete(failed))
<1> SUFFICES ASSUME IInv, LocalDelete(failed) PROVE IInv'
  BY DEF Keeps
<1> DEFINE rest == Named(local, {w.id}) \ Named(local, Completed(local) \ {w.id})
           to == [w EXCEPT !.pc = "local objects", !.todo = rest,
                           !.wasLatest = (local.latest = w.id),
                           !.next = Newest(Completed(local) \ {w.id})]
<1>1. /\ w.pc = "local delete" /\ UNCHANGED <<remote, pub, svc, call, sessions>>
      /\ \/ (Throw \/ EndPhase) /\ UNCHANGED <<local, own, bounds>>
         \/ /\ w.id \in Completed(local) /\ own' = own \ {w.id}
            /\ \E left \in Remains(w.id, failed) : local' = [local EXCEPT !.dir[w.id] = left]
            /\ bounds' = [bounds EXCEPT !.events = IF failed THEN @ + 1 ELSE @]
            /\ Throw \/ w' = to
  BY Zenon DEF LocalDelete, At, Worker
<1>2. CASE (Throw \/ EndPhase) /\ UNCHANGED <<local, own, bounds>>
  <2>1. QuietMove
    BY <1>1, <1>2, LeaveMove, EndPhaseMove, Zenon DEF Throw, Resting
  <2> QED BY <1>1, <1>2, <2>1, StillRepos, QuietRemoteInv, Zenon
<1>3. ASSUME w.id \in Completed(local), own' = own \ {w.id},
             NEW left \in Remains(w.id, failed), local' = [local EXCEPT !.dir[w.id] = left],
             BoundsMove, Throw \/ w' = to
      PROVE  IInv'
  <2>1. w.id \in Id /\ local \in Repositories /\ left \in DirState
    BY <1>3 DEF Completed, IInv, Typed, TypeOK, Remains, DirState
  <2>2. /\ local' \in Repositories /\ local'.objs = local.objs
        /\ \A i \in Id \ {w.id} : local'.dir[i] = local.dir[i]
    BY <1>3, <2>1 DEF Repositories
  <2>3. OwnHeld' /\ own' \subseteq own /\ own' \subseteq Id
    BY <1>3, <2>2 DEF IInv, OwnHeld, Typed, TypeOK
  <2>4. CASE Throw
    <3>1. QuietMove
      BY <2>4, LeaveMove DEF Throw
    <3>2. LocalWork' /\ RemoteWork'
      BY <3>1, Zenon DEF QuietMove, LocalWork, RemoteWork, Working
    <3>3. SvcOK' /\ list' \in [Lister -> Listing]
      BY <1>1, Zenon DEF IInv, Typed, TypeOK, SvcOK, sessions
    <3> QED BY <1>1, <1>3, <2>2, <2>3, <3>1, <3>2, <3>3, StillRepos, WorkerInv, Zenon
            DEF QuietMove, sessions
  <2>5. CASE w' = to
    <3>1. Newest(Completed(local) \ {w.id}) \in MaybeId
      BY NewestIsId DEF Completed
    <3>2. rest \subseteq Obj
      BY <2>1, RepositoryAssumption DEF Named
    <3> HIDE DEF rest
    <3>3. w' \in Operation /\ w'.pc = "local objects" /\ w'.rest = w.rest /\ w'.todo = rest
      BY <2>5, <3>1, <3>2, ZenonT(40) DEF IInv, Typed, Operation, WorkerPc, Working
    <3>4. w'.rest # <<>> /\ WorkerMakes' <= WorkerMakes
      BY <1>1, <3>3, WorkMove, Zenon DEF Working, Resting
    <3>5. \A i \in own \ {w.id} : Files[i] \cap rest = {}
      <4>1. ASSUME NEW i \in own \ {w.id}
            PROVE  Files[i] \subseteq Named(local, Completed(local) \ {w.id})
        BY DEF IInv, OwnHeld, Named, Completed, Typed, TypeOK
      <4> QED BY <4>1 DEF rest
    <3>6. LocalWork' /\ RemoteWork'
      BY <1>3, <3>3, <3>5, Zenon DEF LocalWork, RemoteWork
    <3> QED BY <1>1, <1>3, <2>2, <2>3, <3>3, <3>4, <3>6, StillRepos, BusyInv, Zenon
  <2> QED BY <1>3, <2>4, <2>5
<1> QED BY <1>1, <1>2, <1>3, MaybeFailed, Zenon

\* The objects go one by one, then latest.json.
LEMMA LocalRemoveInv == Keeps(LocalRemove)
<1> SUFFICES ASSUME IInv, LocalRemove PROVE IInv'
  BY DEF Keeps
<1>1. /\ w.pc = "local objects" /\ UNCHANGED <<remote, pub, svc, call, sessions, own, bounds>>
      /\ \/ /\ local' = [local EXCEPT !.latest = IF w.wasLatest THEN w.next ELSE @]
            /\ EndPhase
         \/ \E o \in w.todo : /\ local' = [local EXCEPT !.objs = @ \ {o}]
                              /\ w' = [w EXCEPT !.todo = @ \ {o}]
  BY Zenon DEF LocalRemove, At, Worker, FirstOf
<1>2. CASE local' = [local EXCEPT !.latest = IF w.wasLatest THEN w.next ELSE @] /\ EndPhase
  <2>1. QuietMove
    BY <1>1, <1>2, EndPhaseMove, Zenon DEF Resting
  <2>2. LocalGrows
    BY <1>2 DEF LocalGrows, IInv, Typed, TypeOK, Repositories, Operation, MaybeId
  <2> QED BY <1>1, <2>1, <2>2, StillRepos, QuietInv, Zenon DEF BoundsMove
<1>3. ASSUME NEW o \in w.todo, local' = [local EXCEPT !.objs = @ \ {o}],
             w' = [w EXCEPT !.todo = @ \ {o}]
      PROVE  IInv'
  <2>1. w' \in Operation /\ w'.pc = w.pc /\ w'.rest = w.rest /\ w'.todo = w.todo \ {o}
    BY <1>3 DEF IInv, Typed, Operation
  <2>2. w'.rest # <<>> /\ WorkerMakes' <= WorkerMakes
    BY <1>1, <2>1, WorkMove, Zenon DEF Working, Resting
  <2>3. local' \in Repositories /\ local'.objs = local.objs \ {o} /\ local'.dir = local.dir
    BY <1>3 DEF IInv, Typed, TypeOK, Repositories
  <2>4. \A i \in own : o \notin Files[i]
    BY <1>1, <1>3, Zenon DEF IInv, LocalWork
  <2>5. OwnHeld' /\ LocalWork' /\ RemoteWork'
    BY <1>1, <2>1, <2>3, <2>4, ZenonT(40) DEF IInv, OwnHeld, LocalWork, RemoteWork
  <2> QED BY <1>1, <2>1, <2>2, <2>3, <2>5, StillRepos, BusyInv, Zenon DEF BoundsMove
<1> QED BY <1>1, <1>2, <1>3, Zenon

-----------------------------------------------------------------------------
(* Fetching a snapshot *)

\* cache_downloaded_snapshot_metadata adds a directory and removes nothing.
LEMMA CacheGrows ==
    ASSUME IInv, NEW i \in Id, local' = CacheBegin(i)
    PROVE  LocalGrows
  BY DEF CacheBegin, LocalGrows, IInv, Typed, TypeOK, Repositories

\* Its rename completes the directory; latest.json may follow.
LEMMA CachedGrows ==
    ASSUME IInv, NEW i, NEW latest \in MaybeId,
           local' = CacheEnd(i) \/ local' = [CacheEnd(i) EXCEPT !.latest = latest]
    PROVE  LocalGrows
<1> DEFINE r == CacheEnd(i)
<1>1. /\ r \in Repositories /\ r.objs = local.objs
      /\ \A j \in Id : local.dir[j] = "complete" => r.dir[j] = "complete"
  BY Zenon DEF CacheEnd, IInv, Typed, TypeOK, Repositories, DirState
<1> HIDE DEF r
<1>2. local' = r \/ local' = [r EXCEPT !.latest = latest]
  BY DEF r
<1> QED BY <1>1, <1>2 DEF LocalGrows, Repositories, MaybeId
\* A request names a snapshot or none.
LEMMA RequestNames ==
    ASSUME IInv
    PROVE  w.req.id \in MaybeId
<1>1. w.req \in Request \cup {NoRequest}
  BY DEF IInv, Typed, Operation
<1>2. \A req \in Request : req.id \in MaybeId
  BY Zenon DEF Request, MaybeId
<1>3. NoRequest.id \in MaybeId
  BY DEF NoRequest, MaybeId
<1> QED BY <1>1, <1>2, <1>3

\* fetch_public_metadata knows which snapshot it has downloaded.
LEMMA PublicMetadataInv == Keeps(PublicMetadata)
<1> SUFFICES ASSUME IInv, PublicMetadata PROVE IInv'
  BY DEF Keeps
<1> DEFINE i == IF w.req.id = NoId THEN pub.latest ELSE w.req.id
<1>1. /\ w.pc = "public fetch" /\ UNCHANGED <<repos, svc, call, sessions, own, bounds>>
      /\ Throw \/ (i # NoId /\ w' = [w EXCEPT !.pc = "public verify", !.id = i])
  BY Zenon DEF PublicMetadata, At, Worker
<1>2. i \in MaybeId
  <2>1. w.req.id \in MaybeId /\ pub.latest \in MaybeId
    BY RequestNames DEF IInv, Typed, TypeOK, Publics, MaybeId
  <2> QED BY <2>1
<1> HIDE DEF i
<1>3. CASE Throw
  <2>1. QuietMove
    BY <1>3, LeaveMove DEF Throw
  <2> QED BY <1>1, <2>1, StillRepos, QuietRemoteInv, Zenon DEF repos
<1>4. CASE i # NoId /\ w' = [w EXCEPT !.pc = "public verify", !.id = i]
  <2>1. w' \in Operation /\ w'.pc = "public verify" /\ w'.rest = w.rest /\ w'.id \in Id
    BY <1>2, <1>4, Zenon DEF IInv, Typed, Operation, WorkerPc, Working, MaybeId
  <2>2. w'.rest # <<>> /\ WorkerMakes' <= WorkerMakes
    BY <1>1, <2>1, WorkMove, Zenon DEF Working, Resting
  <2>3. OwnHeld' /\ LocalWork' /\ RemoteWork'
    BY <1>1, <2>1, Zenon DEF repos, IInv, OwnHeld, LocalWork, RemoteWork
  <2> QED BY <1>1, <2>1, <2>2, <2>3, StillRepos, BusyInv, Zenon DEF repos, BoundsMove
<1> QED BY <1>1, <1>3, <1>4, Zenon

\* A fetch only adds to the local repository.
LEMMA FetchInv == Keeps(FetchStep)
<1> SUFFICES ASSUME IInv, FetchStep PROVE IInv'
  BY DEF Keeps
<1> USE DEF At
<1>1. CASE PublicMetadata
  BY <1>1, PublicMetadataInv DEF Keeps
<1>2. SUFFICES ASSUME ~PublicMetadata PROVE QuietMove /\ LocalGrows
  <2>1. UNCHANGED <<remote, pub, svc, call, sessions, own, bounds>>
    <3>1. ASSUME NEW o \in Obj, FetchVerify(o) \/ PublicObject(o)
          PROVE  UNCHANGED <<remote, pub, svc, call, sessions, own, bounds>>
      BY <3>1, Zenon DEF FetchVerify, PublicObject, Worker
    <3>2. ASSUME NEW space \in BOOLEAN, FetchPreflight(space)
          PROVE  UNCHANGED <<remote, pub, svc, call, sessions, own, bounds>>
      BY <3>2 DEF FetchPreflight, Worker, repos
    <3>3. CASE FetchMetadata \/ FetchCached \/ PublicVerified \/ PublicCached
      BY <3>3, Zenon DEF FetchMetadata, FetchCached, PublicVerified, PublicCached, Worker
    <3>4. CASE FetchDownload \/ FetchDone \/ PublicMetadata
      BY <3>4, Zenon DEF FetchDownload, FetchDone, PublicMetadata, Worker, repos
    <3> QED BY <3>1, <3>2, <3>3, <3>4 DEF FetchStep
  <2> QED BY <1>1, <2>1, StillRepos, QuietInv DEF BoundsMove
<1>3. /\ w \in Operation /\ w.id \in MaybeId /\ w.req.id \in MaybeId
      /\ local \in Repositories /\ local.latest \in MaybeId /\ pub.latest \in MaybeId
  BY RequestNames DEF IInv, Typed, TypeOK, Operation, MaybeId, Repositories, Publics
<1>4. Throw => QuietMove
  BY LeaveMove DEF Throw
<1>5. ASSUME NEW pc \in {"fetch cache", "preflight", "verify", "public cache"},
             NEW i \in MaybeId, w.pc \notin Resting,
             w' = [w EXCEPT !.pc = pc] \/ w' = [w EXCEPT !.pc = pc, !.id = i]
      PROVE  QuietMove
  BY Zenon, <1>5, GotoMove DEF Resting, Working, WorkerPc
<1>6. ASSUME NEW o \in Obj, w.pc \in {"verify", "public object"}, w' = [w EXCEPT !.todo = @ \ {o}]
      PROVE  QuietMove
  <2>1. w' \in Operation /\ w'.pc = w.pc /\ w'.rest = w.rest
    BY <1>3, <1>6, Zenon DEF Operation
  <2> QED BY <1>6, <2>1, PhaseMove, Zenon DEF Resting, Working
<1>7. ASSUME NEW o \in Obj, local' = [local EXCEPT !.objs = @ \cup {o}]
      PROVE  LocalGrows
  BY <1>3, <1>7 DEF LocalGrows, Repositories
<1>8. CASE FetchMetadata
  <2> DEFINE i == IF w.req.id = NoId THEN remote.latest ELSE w.req.id
  <2>1. /\ w.pc = "fetch"
        /\ \/ Throw /\ UNCHANGED local
           \/ /\ i \in Listed(remote) /\ local' = CacheBegin(i)
              /\ w' = [w EXCEPT !.pc = "fetch cache", !.id = i]
    BY <1>8 DEF FetchMetadata
  <2>2. Listed(remote) \subseteq Id /\ Id \subseteq MaybeId
    BY DEF Listed, MaybeId
  <2> HIDE DEF i
  <2> QED BY Zenon, <1>4, <1>5, <2>1, <2>2, CacheGrows, StillRepos DEF Resting
<1>9. CASE FetchCached
  <2>1. PICK l \in MaybeId : local' = [CacheEnd(w.id) EXCEPT !.latest = l]
    <3>1. (CacheEnd(w.id)).latest = local.latest
      BY <1>3 DEF CacheEnd, Repositories
    <3> QED BY <1>3, <1>9, <3>1, Zenon DEF FetchCached
  <2>2. w.pc = "fetch cache" /\ w' = [w EXCEPT !.pc = "preflight"]
    BY <1>9, Zenon DEF FetchCached
  <2> QED BY Zenon, <1>3, <1>5, <2>1, <2>2, CachedGrows DEF Resting
<1>10. ASSUME NEW space \in BOOLEAN, FetchPreflight(space) PROVE QuietMove /\ LocalGrows
  <2> DEFINE i == Selected(local, w.req.id)
  <2>1. /\ w.pc = "preflight" /\ UNCHANGED local
        /\ \/ Throw \/ EndPhase
           \/ /\ i # NoId
              /\ \E pc \in {"download", "public object"} :
                    w' = [w EXCEPT !.pc = pc, !.id = i, !.todo = Missing(local, i)]
    BY <1>10, Zenon DEF FetchPreflight, Worker, repos
  <2>2. i \in MaybeId
    BY <1>3 DEF Selected
  <2> HIDE DEF i
  <2>3. ASSUME i # NoId, NEW pc \in {"download", "public object"},
               w' = [w EXCEPT !.pc = pc, !.id = i, !.todo = Missing(local, i)]
        PROVE  QuietMove
    <3>1. Missing(local, i) \subseteq Obj
      BY <2>2, <2>3, RepositoryAssumption, Zenon DEF Missing, MaybeId
    <3>2. w' \in Operation /\ w'.pc = pc /\ w'.rest = w.rest
      BY <1>3, <2>2, <2>3, <3>1, Zenon DEF Operation, WorkerPc
    <3> QED BY <2>1, <3>2, PhaseMove, Zenon DEF Resting, Working
  <2> QED BY <1>4, <2>1, <2>3, EndPhaseMove, StillRepos DEF Resting
<1>11. CASE FetchDownload
  BY Zenon, <1>3, <1>4, <1>5, <1>11, StillRepos DEF FetchDownload, Worker, repos, Resting
<1>12. ASSUME NEW o \in Obj, FetchVerify(o) \/ PublicObject(o) PROVE QuietMove /\ LocalGrows
  BY <1>4, <1>6, <1>7, <1>12, StillRepos, Zenon DEF FetchVerify, PublicObject
<1>13. CASE FetchDone
  BY <1>4, <1>13, EndPhaseMove, StillRepos, Zenon DEF FetchDone, Worker, repos, Resting
<1>14. CASE PublicVerified
  <2>1. /\ w.pc = "public verify"
        /\ \/ Throw /\ UNCHANGED local
           \/ local' = CacheBegin(w.id) /\ w' = [w EXCEPT !.pc = "public cache"]
        /\ w.id \in Id
    BY <1>14, Zenon DEF PublicVerified, IInv, LocalWork
  <2> QED BY Zenon, <1>3, <1>4, <1>5, <2>1, CacheGrows, StillRepos DEF Resting
<1>15. CASE PublicCached
  <2>1. PICK l \in MaybeId : local' = [CacheEnd(w.id) EXCEPT !.latest = l]
    <3>1. (CacheEnd(w.id)).latest = local.latest
      BY <1>3 DEF CacheEnd, Repositories
    <3> QED BY <1>3, <1>15, <3>1, Zenon DEF PublicCached
  <2>2. w.pc = "public cache" /\ w' = [w EXCEPT !.pc = "preflight"]
    BY <1>15, Zenon DEF PublicCached
  <2> QED BY Zenon, <1>3, <1>5, <2>1, <2>2, CachedGrows DEF Resting
<1> QED BY <1>2, <1>8, <1>9, <1>10, <1>11, <1>12, <1>13, <1>14, <1>15 DEF FetchStep
=============================================================================
