---------------------------- MODULE BackupProofs ----------------------------
(***************************************************************************)
(* Proofs about BackupService and its repositories, for any number of      *)
(* objects, snapshots, operations and failures: what fails, the calls that *)
(* start and end operations, the sessions and the scheduler keep the       *)
(* invariant of BackupWorkerProofs, and what follows from it.              *)
(***************************************************************************)
EXTENDS BackupWorkerProofs

-----------------------------------------------------------------------------
(* What can fail *)

\* A failed call ends the operation, or the upload starts over; the repositories keep
\* what they have, but for an object that is cut short or public metadata that is torn.
LEMMA FailureInv ==
    ASSUME IInv,
           \/ StoreFails \/ UploadFails \/ PublishFails \/ ConnectFails \/ TransferFails
           \/ DownloadFails \/ SignatureFails
    PROVE  IInv'
<1> USE DEF Failure, Worker
<1>1. BoundsMove /\ UNCHANGED <<svc, call, sessions, own>>
  BY Zenon DEF StoreFails, UploadFails, PublishFails, ConnectFails, TransferFails, DownloadFails,
         SignatureFails, BoundsMove
<1>2. Throw => QuietMove
  BY LeaveMove DEF Throw
<1>3. local \in Repositories /\ remote \in Remotes /\ pub \in Publics
  BY StillRepos
<1>4. CASE StoreFails
  <2>1. local' = [local EXCEPT !.partial = @ \ {w.id}] /\ Throw /\ UNCHANGED <<remote, pub>>
    BY <1>4 DEF StoreFails
  <2>2. LocalGrows
    BY <1>3, <2>1 DEF LocalGrows, Repositories
  <2> QED BY <1>1, <1>2, <2>1, <2>2, StillRepos, QuietInv
<1>5. CASE UploadFails
  <2>1. /\ w.pc \in UploadPcs /\ UploadError /\ UNCHANGED <<local, pub>>
        /\ UNCHANGED remote \/ \E o \in FirstOf(w.todo) : remote' = CutObject(remote, o)
    BY <1>5 DEF UploadFails
  <2>2. remote' \in Remotes
    BY <1>3, <2>1 DEF CutObject, Remotes, RemoteObject
  <2> QED BY <1>1, <2>1, <2>2, UploadErrorInv
<1>6. CASE PublishFails
  <2>1. /\ Throw /\ UNCHANGED <<local, remote>>
        /\ UNCHANGED pub \/ pub' = [pub EXCEPT !.dir[w.id] = "broken"]
    BY <1>6, Zenon DEF PublishFails
  <2>2. pub' \in Publics
    BY <1>3, <2>1 DEF Publics, RemoteDir
  <2> QED BY <1>1, <1>2, <2>1, <2>2, StillRepos, QuietInv
<1>7. CASE ConnectFails \/ TransferFails \/ DownloadFails \/ SignatureFails
  <2>1. Throw /\ UNCHANGED <<local, remote, pub>>
    BY <1>7, Zenon DEF ConnectFails, TransferFails, DownloadFails, SignatureFails, repos
  <2> QED BY <1>1, <1>2, <2>1, StillRepos, QuietInv
<1> QED BY <1>4, <1>5, <1>6, <1>7

\* The idle worker is an operation that has nothing to do.
LEMMA IdleMove ==
    ASSUME IInv, w' = Idle
    PROVE  QuietMove /\ WorkerMakes' = 0
<1>1. w' \in Operation /\ w'.pc = "idle"
  BY IdleIsOperation
<1>2. WorkerMakes' = 0 /\ WorkerMakes \in Nat
  BY <1>1 DEF WorkerMakes
<1> QED BY <1>1, <1>2 DEF QuietMove, Working, Resting

\* The process dies, or ends itself: memory is new, files stay.
LEMMA FreshInv ==
    ASSUME IInv, Fresh, UNCHANGED <<repos, staged, own>>, BoundsMove
    PROVE  IInv'
<1> USE DEF Fresh
<1>1. QuietMove /\ WorkerMakes' = 0
  BY IdleMove
<1>2. LocalWork' /\ RemoteWork'
  BY <1>1, Zenon DEF QuietMove, LocalWork, RemoteWork, Working
<1>3. OwnHeld' /\ StageWork'
  BY DEF repos, IInv, OwnHeld, StageWork, StagedIsWhole, NoStage
<1>4. SvcOK' /\ svc'.no = svc.no
  <2>1. svc \in [running: BOOLEAN, active: BOOLEAN, cancel: BOOLEAN, handle: 0 .. MaxOps,
                 state: {"idle", "running", "succeeded", "failed"}, no: 0 .. MaxOps]
    BY DEF IInv, Typed, TypeOK
  <2>2. MaxOps \in Nat
    BY ServiceAssumption
  <2>3. 0 \in 0 .. MaxOps
    BY <2>2
  <2> HIDE DEF Fresh
  <2>4. svc' = [svc EXCEPT !.running = FALSE, !.active = FALSE, !.cancel = FALSE,
                           !.state = "idle", !.handle = 0]
    BY DEF Fresh
  <2>5. /\ svc'.no = svc.no /\ svc'.running = FALSE /\ svc'.state = "idle"
        /\ svc' \in [running: BOOLEAN, active: BOOLEAN, cancel: BOOLEAN, handle: 0 .. MaxOps,
                     state: {"idle", "running", "succeeded", "failed"}, no: 0 .. MaxOps]
    BY <2>1, <2>3, <2>4, Zenon
  <2> QED BY <2>5 DEF SvcOK
<1>5. Typed'
  <2>1. call' \in [Caller -> Call] /\ list' \in [Lister -> Listing] /\ stage' \in Staging
    BY DEF Call, Listing, Staging, NoCall, NoList, NoStage, MaybeId
  <2>2. stage'.pc # "copy"
    BY DEF NoStage
  <2>3. TypeOK'
    BY <1>1, <1>4 DEF IInv, Typed, TypeOK, SvcOK, repos, QuietMove, Operation, MaybeId
  <2> QED BY <1>1, <2>1, <2>2, <2>3 DEF Typed, QuietMove
<1>6. Counted'
  <2>1. \A c \in Caller : Numbers(c)' = 0 /\ Makes(c)' = 0
    BY DEF Numbers, Makes, NoCall
  <2>2. /\ bounds \in [ids: Nat, made: Nat, ops: Nat, events: Nat]
        /\ bounds.ids + Makes("admin") + Makes("scheduler") + WorkerMakes <= bounds.made
        /\ svc.no + Numbers("admin") + Numbers("scheduler") <= bounds.ops
        /\ bounds.ops <= MaxOps /\ bounds.made <= MaxId
    BY DEF IInv, Counted
  <2>3. /\ bounds' \in [ids: Nat, made: Nat, ops: Nat, events: Nat]
        /\ bounds'.ids = bounds.ids /\ bounds'.made = bounds.made /\ bounds'.ops = bounds.ops
    BY <2>2 DEF BoundsMove
  <2>4. /\ {Numbers("admin"), Numbers("scheduler"), Makes("admin"), Makes("scheduler")} \subseteq Nat
        /\ WorkerMakes \in Nat
    BY DEF Numbers, Makes, WorkerMakes
  <2>5. svc.no \in Nat /\ bounds.ids \in Nat /\ bounds.made \in Nat /\ bounds.ops \in Nat
    BY <2>2, ServiceAssumption DEF IInv, Typed, TypeOK
  <2>6. svc'.no <= bounds'.ops /\ bounds'.ids <= bounds'.made
    BY <1>4, <2>2, <2>3, <2>4, <2>5
  <2>7. /\ svc'.no + Numbers("admin")' + Numbers("scheduler")' <= bounds'.ops
        /\ bounds'.ids + Makes("admin")' + Makes("scheduler")' + WorkerMakes' <= bounds'.made
    BY <1>1, <1>4, <2>1, <2>3, <2>5, <2>6 DEF Caller
  <2> QED BY <2>2, <2>3, <2>7 DEF Counted
<1> QED BY <1>2, <1>3, <1>5, <1>6 DEF IInv
-----------------------------------------------------------------------------
(* The calls that start, cancel and end operations *)

\* A call that takes no more numbers and ids than it adds to the bounds stays within them.
LEMMA CallCounted ==
    ASSUME IInv, NEW c \in Caller, \A d \in Caller \ {c} : call'[d] = call[d],
           svc'.no \in Nat, bounds' \in [ids: Nat, made: Nat, ops: Nat, events: Nat],
           bounds'.ids = bounds.ids, bounds'.ops <= MaxOps, bounds'.made <= MaxId,
           svc'.no + Numbers(c)' + bounds.ops <= svc.no + Numbers(c) + bounds'.ops,
           Makes(c)' + WorkerMakes' + bounds.made <= Makes(c) + WorkerMakes + bounds'.made
    PROVE  Counted'
<1>1. \A d \in Caller \ {c} : Numbers(d)' = Numbers(d) /\ Makes(d)' = Makes(d)
  BY DEF Numbers, Makes
<1>2. \A d \in Caller : /\ Numbers(d) \in Nat /\ Numbers(d)' \in Nat
                        /\ Makes(d) \in Nat /\ Makes(d)' \in Nat
  BY DEF Numbers, Makes
<1>3. WorkerMakes \in Nat /\ WorkerMakes' \in Nat
  BY DEF WorkerMakes
<1>4. /\ bounds \in [ids: Nat, made: Nat, ops: Nat, events: Nat]
      /\ svc.no + Numbers("admin") + Numbers("scheduler") <= bounds.ops
      /\ bounds.ids + Makes("admin") + Makes("scheduler") + WorkerMakes <= bounds.made
  BY DEF IInv, Counted
<1>5. svc.no \in Nat
  BY ServiceAssumption DEF IInv, Typed, TypeOK
<1>6. /\ bounds.ids \in Nat /\ bounds.made \in Nat /\ bounds.ops \in Nat
      /\ bounds'.made \in Nat /\ bounds'.ops \in Nat
  BY <1>4
<1>7. svc'.no + Numbers("admin")' + Numbers("scheduler")' <= bounds'.ops
  <2>1. CASE c = "admin"
    BY <1>1, <1>2, <1>4, <1>5, <1>6, <2>1 DEF Caller
  <2>2. CASE c = "scheduler"
    BY <1>1, <1>2, <1>4, <1>5, <1>6, <2>2 DEF Caller
  <2> QED BY <2>1, <2>2 DEF Caller
<1>8. bounds'.ids + Makes("admin")' + Makes("scheduler")' + WorkerMakes' <= bounds'.made
  <2>1. CASE c = "admin"
    BY <1>1, <1>2, <1>3, <1>4, <1>6, <2>1 DEF Caller
  <2>2. CASE c = "scheduler"
    BY <1>1, <1>2, <1>3, <1>4, <1>6, <2>2 DEF Caller
  <2> QED BY <2>1, <2>2 DEF Caller
<1> QED BY <1>7, <1>8 DEF Counted

\* Such a call touches no repository and no session.
LEMMA CallInv ==
    ASSUME IInv, UNCHANGED <<repos, sessions, own>>, SvcOK', call' \in [Caller -> Call],
           Counted', UNCHANGED w \/ QuietMove \/ (w' \in Operation /\ w'.pc \in Resting)
    PROVE  IInv'
<1>1. w' \in Operation /\ (w'.pc \notin Resting => w'.rest # <<>>)
  BY DEF QuietMove, IInv, Typed
<1>2. LocalWork' /\ RemoteWork'
  <2>1. CASE UNCHANGED w
    BY <2>1, Zenon DEF repos, IInv, LocalWork, RemoteWork
  <2>2. CASE w'.pc \notin Working
    BY <2>2, Zenon DEF LocalWork, RemoteWork, Working
  <2> QED BY <2>1, <2>2, Zenon DEF QuietMove, Working, Resting
<1>3. OwnHeld' /\ StageWork'
  BY DEF repos, sessions, IInv, OwnHeld, StageWork, StagedIsWhole
<1>4. Typed'
  BY <1>1 DEF repos, sessions, IInv, Typed, TypeOK, SvcOK, Operation, MaybeId
<1> QED BY <1>2, <1>3, <1>4 DEF IInv

\* start_*_async reserves an operation number, and a snapshot id if it needs one.
LEMMA JoinFinishedInv ==
    ASSUME IInv, NEW c \in Caller, NEW req \in Request, JoinFinished(c, req),
           UNCHANGED <<repos, w, sessions, own>>
    PROVE  IInv'
<1> DEFINE k == IF req.kind \in {"local", "configured"} THEN 1 ELSE 0
           h == IF svc.handle # 0 /\ ~svc.active THEN svc.handle ELSE 0
           g == IF svc.handle # 0 /\ ~svc.active THEN 0 ELSE svc.handle
<1>1. /\ call[c].pc = "none" /\ bounds.ops < MaxOps /\ (k = 1 => bounds.made < MaxId)
      /\ call' = [call EXCEPT ![c] = [pc |-> "begin", req |-> req, join |-> h]]
      /\ svc' = [svc EXCEPT !.handle = g]
  BY DEF JoinFinished
<1>2. /\ bounds \in [ids: Nat, made: Nat, ops: Nat, events: Nat]
      /\ bounds.ids \in Nat /\ bounds.made \in Nat /\ bounds.ops \in Nat
      /\ bounds.made <= MaxId
  BY DEF IInv, Counted
<1>3. bounds' = [bounds EXCEPT !.ops = @ + 1, !.made = @ + k]
  <2>1. bounds' = [bounds EXCEPT !.ops = @ + 1,
            !.made = IF req.kind \in {"local", "configured"} THEN @ + 1 ELSE @]
    BY DEF JoinFinished
  <2>2. CASE req.kind \in {"local", "configured"}
    BY <2>1, <2>2
  <2>3. CASE req.kind \notin {"local", "configured"}
    <3>1. bounds.made + k = bounds.made
      BY <1>2, <2>3
    <3>2. bounds' = [bounds EXCEPT !.ops = @ + 1, !.made = @]
      BY <2>1, <2>3
    <3> QED BY <3>1, <3>2, Zenon
  <2> QED BY <2>2, <2>3
<1>4. k \in 0 .. 1
  OBVIOUS
<1>5. svc \in [running: BOOLEAN, active: BOOLEAN, cancel: BOOLEAN, handle: 0 .. MaxOps,
               state: {"idle", "running", "succeeded", "failed"}, no: 0 .. MaxOps]
  BY DEF IInv, Typed, TypeOK
<1>6. MaxOps \in Nat /\ MaxId \in Nat
  BY ServiceAssumption, RepositoryAssumption
<1>7. h \in Nat /\ g \in 0 .. MaxOps
  BY <1>5, <1>6
<1>8. Numbers(c) = 0 /\ Makes(c) = 0
  BY <1>1 DEF Numbers, Makes
<1>9. call \in [Caller -> Call]
  BY DEF IInv, Typed
<1>10. Numbers(c)' = 1 /\ Makes(c)' = k
  BY <1>1, <1>9 DEF Numbers, Makes
<1> HIDE DEF k, h, g
<1>11. /\ bounds' \in [ids: Nat, made: Nat, ops: Nat, events: Nat]
       /\ bounds'.ids = bounds.ids /\ bounds'.ops = bounds.ops + 1
       /\ bounds'.made = bounds.made + k
  <2>1. bounds.ops + 1 \in Nat /\ bounds.made + k \in Nat
    BY <1>2, <1>4
  <2>2. bounds' = [bounds EXCEPT !.ops = bounds.ops + 1, !.made = bounds.made + k]
    BY <1>3
  <2> QED BY <1>2, <2>1, <2>2, Zenon
<1>12. /\ call' \in [Caller -> Call] /\ \A d \in Caller \ {c} : call'[d] = call[d]
  <2> DEFINE x == [pc |-> "begin", req |-> req, join |-> h]
  <2>1. x \in Call
    BY <1>7 DEF Call
  <2> HIDE DEF x
  <2>2. call' = [call EXCEPT ![c] = x]
    BY <1>1 DEF x
  <2> QED BY <1>9, <2>1, <2>2
<1>13. SvcOK' /\ svc'.no = svc.no /\ svc.no \in Nat
  <2>1. svc.running <=> svc.state = "running"
    BY DEF IInv, Typed, TypeOK
  <2>2. /\ svc'.no = svc.no /\ svc'.running = svc.running /\ svc'.state = svc.state
        /\ svc' \in [running: BOOLEAN, active: BOOLEAN, cancel: BOOLEAN, handle: 0 .. MaxOps,
                     state: {"idle", "running", "succeeded", "failed"}, no: 0 .. MaxOps]
    BY <1>1, <1>5, <1>7
  <2>3. svc.no \in Nat
    BY <1>5, <1>6
  <2> QED BY <2>1, <2>2, <2>3 DEF SvcOK
<1>14. WorkerMakes' = WorkerMakes /\ WorkerMakes \in Nat
  BY DEF WorkerMakes
<1>15. bounds'.ops <= MaxOps /\ bounds'.made <= MaxId
  BY <1>1, <1>2, <1>4, <1>6, <1>11
<1>16. /\ svc'.no + Numbers(c)' + bounds.ops <= svc.no + Numbers(c) + bounds'.ops
       /\ Makes(c)' + WorkerMakes' + bounds.made <= Makes(c) + WorkerMakes + bounds'.made
  BY <1>2, <1>4, <1>8, <1>10, <1>11, <1>13, <1>14
<1>17. Counted'
  BY <1>11, <1>12, <1>13, <1>15, <1>16, CallCounted
<1> QED BY <1>12, <1>13, <1>17, CallInv
\* A start call that has returned waits for no number and no id.
LEMMA ReturnedCall ==
    ASSUME IInv, NEW c \in Caller, NEW how \in {"started", "thrown"}, call' = Returned(c, how)
    PROVE  /\ call' \in [Caller -> Call] /\ \A d \in Caller \ {c} : call'[d] = call[d]
           /\ Numbers(c)' = 0 /\ Makes(c)' = 0
<1> DEFINE x == [NoCall EXCEPT !.pc = IF c = "admin" THEN "none" ELSE how]
<1>1. x \in Call /\ x.pc \notin {"begin", "assign"}
  BY DEF NoCall, Call
<1>2. call' = [call EXCEPT ![c] = x]
  BY DEF Returned
<1> HIDE DEF x
<1>3. call \in [Caller -> Call]
  BY DEF IInv, Typed
<1>4. /\ call' \in [Caller -> Call] /\ call'[c] = x
      /\ \A d \in Caller \ {c} : call'[d] = call[d]
  BY <1>1, <1>2, <1>3
<1> QED BY <1>1, <1>4 DEF Numbers, Makes

\* What the service's record says of itself, by its fields.
LEMMA ServiceMove ==
    ASSUME IInv, NEW running \in BOOLEAN, NEW active \in BOOLEAN, NEW cancel \in BOOLEAN,
           NEW state \in {"idle", "running", "succeeded", "failed"},
           NEW handle \in 0 .. MaxOps, NEW no \in 0 .. MaxOps, running <=> state = "running",
           svc' = [svc EXCEPT !.running = running, !.active = active, !.cancel = cancel,
                              !.state = state, !.handle = handle, !.no = no]
    PROVE  SvcOK' /\ svc'.no = no
<1>1. svc \in [running: BOOLEAN, active: BOOLEAN, cancel: BOOLEAN, handle: 0 .. MaxOps,
               state: {"idle", "running", "succeeded", "failed"}, no: 0 .. MaxOps]
  BY DEF IInv, Typed, TypeOK
<1>2. /\ svc' \in [running: BOOLEAN, active: BOOLEAN, cancel: BOOLEAN, handle: 0 .. MaxOps,
                   state: {"idle", "running", "succeeded", "failed"}, no: 0 .. MaxOps]
      /\ svc'.running = running /\ svc'.state = state /\ svc'.no = no
  BY <1>1, ZenonT(40)
<1> QED BY <1>2 DEF SvcOK

\* begin_operation: the number the call has reserved becomes the operation's.
LEMMA BeginInv ==
    ASSUME NEW c \in Caller
    PROVE  Keeps(Begin(c))
<1> SUFFICES ASSUME IInv, Begin(c) PROVE IInv'
  BY DEF Keeps
<1>1. call[c].pc = "begin" /\ UNCHANGED <<repos, w, sessions, own, bounds>>
  BY DEF Begin
<1>2. /\ bounds \in [ids: Nat, made: Nat, ops: Nat, events: Nat]
      /\ bounds.ids \in Nat /\ bounds.made \in Nat /\ bounds.ops \in Nat
      /\ bounds.made <= MaxId /\ bounds.ops <= MaxOps
      /\ svc.no + Numbers("admin") + Numbers("scheduler") <= bounds.ops
  BY DEF IInv, Counted
<1>3. Numbers(c) = 1 /\ \A d \in Caller : Numbers(d) \in Nat /\ Makes(d) \in Nat
  BY <1>1 DEF Numbers, Makes
<1>4. WorkerMakes' = WorkerMakes /\ WorkerMakes \in Nat
  BY <1>1 DEF WorkerMakes
<1>5. /\ svc \in [running: BOOLEAN, active: BOOLEAN, cancel: BOOLEAN, handle: 0 .. MaxOps,
                  state: {"idle", "running", "succeeded", "failed"}, no: 0 .. MaxOps]
      /\ SvcOK /\ MaxOps \in Nat
  BY ServiceAssumption DEF IInv, Typed, TypeOK, SvcOK
<1>6. svc.no \in Nat
  BY <1>5
<1>7. CASE svc.running
  <2>1. call' = Returned(c, "thrown") /\ UNCHANGED svc
    BY <1>7 DEF Begin
  <2>2. /\ call' \in [Caller -> Call] /\ \A d \in Caller \ {c} : call'[d] = call[d]
        /\ Numbers(c)' = 0 /\ Makes(c)' = 0
    BY <2>1, ReturnedCall
  <2>3. SvcOK'
    BY <1>5, <2>1 DEF SvcOK
  <2>4. /\ svc'.no + Numbers(c)' + bounds.ops <= svc.no + Numbers(c) + bounds'.ops
        /\ Makes(c)' + WorkerMakes' + bounds.made <= Makes(c) + WorkerMakes + bounds'.made
    BY <1>1, <1>2, <1>3, <1>4, <1>6, <2>1, <2>2
  <2>5. Counted'
    BY <1>1, <1>2, <1>6, <2>1, <2>2, <2>4, CallCounted
  <2> QED BY <1>1, <2>2, <2>3, <2>5, CallInv
<1>8. CASE ~svc.running
  <2>1. /\ svc' = [svc EXCEPT !.running = TRUE, !.active = TRUE, !.cancel = FALSE,
                              !.state = "running", !.no = svc.no + 1]
        /\ call' = [call EXCEPT ![c].pc = "assign"]
    BY <1>8 DEF Begin
  <2>2. call \in [Caller -> Call]
    BY DEF IInv, Typed
  <2>3. /\ call' \in [Caller -> Call] /\ \A d \in Caller \ {c} : call'[d] = call[d]
        /\ call'[c].pc = "assign" /\ call'[c].req = call[c].req
    BY <2>1, <2>2 DEF Call
  <2>4. Numbers(c)' = 0 /\ Makes(c)' = Makes(c)
    BY <1>1, <2>3 DEF Numbers, Makes
  <2>5. svc.no + 1 \in 0 .. MaxOps
    <3>1. svc.no + 1 <= MaxOps
      BY <1>2, <1>3, <1>5, <1>6 DEF Caller
    <3> QED BY <1>5, <1>6, <3>1
  <2>6. svc' = [svc EXCEPT !.running = TRUE, !.active = TRUE, !.cancel = FALSE,
                           !.state = "running", !.handle = svc.handle, !.no = svc.no + 1]
    BY <1>5, <2>1, Zenon
  <2>7. SvcOK' /\ svc'.no = svc.no + 1
    BY ZenonT(40), <1>5, <2>5, <2>6, ServiceMove
  <2>8. /\ svc'.no + Numbers(c)' + bounds.ops <= svc.no + Numbers(c) + bounds'.ops
        /\ Makes(c)' + WorkerMakes' + bounds.made <= Makes(c) + WorkerMakes + bounds'.made
    BY <1>1, <1>2, <1>3, <1>4, <1>6, <2>4, <2>7
  <2>9. Counted'
    BY <1>1, <1>2, <1>6, <2>3, <2>7, <2>8, CallCounted
  <2> QED BY <1>1, <2>3, <2>7, <2>9, CallInv
<1> QED BY <1>7, <1>8
\* The worker takes over the id its caller has reserved.
LEMMA AssignInv ==
    ASSUME NEW c \in Caller
    PROVE  Keeps(Assign(c))
<1> SUFFICES ASSUME IInv, Assign(c) PROVE IInv'
  BY DEF Keeps
<1> DEFINE req == call[c].req
           rest == Phases(req)
<1>1. /\ call[c].pc = "assign" /\ svc' = [svc EXCEPT !.handle = svc.no]
      /\ w' = [Idle EXCEPT !.no = svc.no, !.pc = "phase", !.req = req, !.rest = rest,
                           !.id = req.id]
      /\ call' = Returned(c, "started") /\ UNCHANGED <<repos, sessions, own, bounds>>
  BY DEF Assign
<1>2. rest \in Rests /\ (StartsSnapshot(rest) => req.kind \in {"local", "configured"})
  BY PhasesOfRequest
<1>3. req \in Request \cup {NoRequest}
  BY DEF IInv, Typed, Call
<1>4. req.id \in MaybeId
  <2>1. \A q \in Request : q.id \in MaybeId
    BY Zenon DEF Request, MaybeId
  <2>2. NoRequest.id \in MaybeId
    BY DEF NoRequest, MaybeId
  <2> QED BY <1>3, <2>1, <2>2
<1>5. Makes(c) = IF req.kind \in {"local", "configured"} THEN 1 ELSE 0
  BY <1>1 DEF Makes
<1>6. Numbers(c) = 0
  BY <1>1 DEF Numbers
<1> HIDE DEF req, rest
<1>7. /\ svc \in [running: BOOLEAN, active: BOOLEAN, cancel: BOOLEAN, handle: 0 .. MaxOps,
                  state: {"idle", "running", "succeeded", "failed"}, no: 0 .. MaxOps]
      /\ SvcOK /\ MaxOps \in Nat
  BY ServiceAssumption DEF IInv, Typed, TypeOK, SvcOK
<1>8. svc.no \in Nat
  BY <1>7
<1>9. SvcOK' /\ svc'.no = svc.no
  BY <1>1, <1>7 DEF SvcOK
<1>10. w' \in Operation /\ w'.pc = "phase" /\ w'.rest = rest
  <2>1. "phase" \in WorkerPc
    BY DEF WorkerPc, Resting
  <2> QED BY <1>1, <1>2, <1>3, <1>4, <1>8, <2>1, IdleIsOperation, Zenon DEF Operation
<1>11. WorkerMakes' = IF StartsSnapshot(rest) THEN 1 ELSE 0
  BY <1>10 DEF WorkerMakes
<1>12. WorkerMakes' \in Nat /\ WorkerMakes' <= Makes(c) /\ Makes(c) \in Nat
  BY <1>2, <1>5, <1>11
<1>13. WorkerMakes \in Nat
  BY DEF WorkerMakes
<1>14. /\ bounds \in [ids: Nat, made: Nat, ops: Nat, events: Nat]
       /\ bounds.made \in Nat /\ bounds.ops \in Nat
       /\ bounds.made <= MaxId /\ bounds.ops <= MaxOps
  BY DEF IInv, Counted
<1>15. /\ call' \in [Caller -> Call] /\ \A d \in Caller \ {c} : call'[d] = call[d]
       /\ Numbers(c)' = 0 /\ Makes(c)' = 0
  BY <1>1, ReturnedCall
<1>16. bounds' = bounds
  BY <1>1
<1>17. /\ svc'.no + Numbers(c)' + bounds.ops <= svc.no + Numbers(c) + bounds'.ops
       /\ Makes(c)' + WorkerMakes' + bounds.made <= Makes(c) + WorkerMakes + bounds'.made
  BY <1>6, <1>8, <1>9, <1>12, <1>13, <1>14, <1>15, <1>16
<1>18. Counted'
  BY <1>8, <1>9, <1>14, <1>15, <1>16, <1>17, CallCounted
<1> QED BY <1>1, <1>9, <1>10, <1>15, <1>18, CallInv DEF Resting

\* No thread: the operation fails, its number stays used.
LEMMA AssignThrowsInv ==
    ASSUME NEW c \in Caller
    PROVE  Keeps(AssignThrows(c))
<1> SUFFICES ASSUME IInv, AssignThrows(c) PROVE IInv'
  BY DEF Keeps
<1>1. /\ call[c].pc = "assign" /\ BoundsMove
      /\ svc' = [svc EXCEPT !.running = FALSE, !.active = FALSE, !.state = "failed"]
      /\ call' = Returned(c, "thrown") /\ UNCHANGED <<repos, w, sessions, own>>
  BY DEF AssignThrows, BoundsMove
<1>2. /\ svc \in [running: BOOLEAN, active: BOOLEAN, cancel: BOOLEAN, handle: 0 .. MaxOps,
                  state: {"idle", "running", "succeeded", "failed"}, no: 0 .. MaxOps]
      /\ MaxOps \in Nat
  BY ServiceAssumption DEF IInv, Typed, TypeOK
<1>3. svc.no \in Nat
  BY <1>2
<1>4. SvcOK' /\ svc'.no = svc.no
  BY <1>1, <1>2, Zenon DEF SvcOK
<1>5. /\ call' \in [Caller -> Call] /\ \A d \in Caller \ {c} : call'[d] = call[d]
      /\ Numbers(c)' = 0 /\ Makes(c)' = 0
  BY <1>1, ReturnedCall
<1>6. /\ bounds \in [ids: Nat, made: Nat, ops: Nat, events: Nat]
      /\ bounds.made \in Nat /\ bounds.ops \in Nat
      /\ bounds.made <= MaxId /\ bounds.ops <= MaxOps
  BY DEF IInv, Counted
<1>7. /\ bounds' \in [ids: Nat, made: Nat, ops: Nat, events: Nat]
      /\ bounds'.ids = bounds.ids /\ bounds'.made = bounds.made /\ bounds'.ops = bounds.ops
  BY <1>1, <1>6 DEF BoundsMove
<1>8. /\ WorkerMakes' = WorkerMakes /\ WorkerMakes \in Nat
      /\ Makes(c) \in Nat /\ Numbers(c) \in Nat
  BY <1>1 DEF WorkerMakes, Makes, Numbers
<1>9. /\ svc'.no + Numbers(c)' + bounds.ops <= svc.no + Numbers(c) + bounds'.ops
      /\ Makes(c)' + WorkerMakes' + bounds.made <= Makes(c) + WorkerMakes + bounds'.made
  BY <1>3, <1>4, <1>5, <1>6, <1>7, <1>8
<1>10. Counted'
  BY <1>3, <1>4, <1>5, <1>6, <1>7, <1>9, CallCounted
<1> QED BY <1>1, <1>4, <1>5, <1>10, CallInv

\* A cancellation, the end of a thread and the scheduler's waiting change the service's
\* flags only.
LEMMA FlagsInv ==
    ASSUME IInv, UNCHANGED <<repos, sessions, own>>, BoundsMove, SvcOK', svc'.no = svc.no,
           UNCHANGED w \/ w' = Idle,
           \/ UNCHANGED call
           \/ /\ call["scheduler"].pc \in {"started", "thrown"}
              /\ call' = [call EXCEPT !["scheduler"].pc = "none"]
    PROVE  IInv'
<1> DEFINE c == "scheduler"
<1>1. call \in [Caller -> Call] /\ c \in Caller
  BY DEF IInv, Typed, Caller
<1>2. /\ call' \in [Caller -> Call] /\ \A d \in Caller \ {c} : call'[d] = call[d]
      /\ Numbers(c)' = Numbers(c) /\ Makes(c)' = Makes(c)
  <2>1. CASE UNCHANGED call
    BY <1>1, <2>1 DEF Numbers, Makes
  <2>2. CASE /\ call[c].pc \in {"started", "thrown"}
             /\ call' = [call EXCEPT ![c].pc = "none"]
    <3>1. /\ call' \in [Caller -> Call] /\ \A d \in Caller \ {c} : call'[d] = call[d]
          /\ call'[c].pc = "none"
      BY <1>1, <2>2 DEF Call
    <3> QED BY <2>2, <3>1 DEF Numbers, Makes
  <2> QED BY <2>1, <2>2
<1>3. WorkerMakes' <= WorkerMakes /\ WorkerMakes \in Nat /\ WorkerMakes' \in Nat
  <2>1. CASE UNCHANGED w
    BY <2>1 DEF WorkerMakes
  <2>2. CASE w' = Idle
    BY <2>2, IdleMove DEF QuietMove, WorkerMakes
  <2> QED BY <2>1, <2>2
<1>4. /\ bounds \in [ids: Nat, made: Nat, ops: Nat, events: Nat]
      /\ bounds.made \in Nat /\ bounds.ops \in Nat
      /\ bounds.made <= MaxId /\ bounds.ops <= MaxOps
  BY DEF IInv, Counted
<1>5. /\ bounds' \in [ids: Nat, made: Nat, ops: Nat, events: Nat]
      /\ bounds'.ids = bounds.ids /\ bounds'.made = bounds.made /\ bounds'.ops = bounds.ops
  BY <1>4 DEF BoundsMove
<1>6. svc.no \in Nat
  BY ServiceAssumption DEF IInv, Typed, TypeOK
<1>7. Makes(c) \in Nat /\ Numbers(c) \in Nat
  BY DEF Makes, Numbers
<1>8. /\ svc'.no + Numbers(c)' + bounds.ops <= svc.no + Numbers(c) + bounds'.ops
      /\ Makes(c)' + WorkerMakes' + bounds.made <= Makes(c) + WorkerMakes + bounds'.made
  BY <1>2, <1>3, <1>4, <1>5, <1>6, <1>7
<1>9. Counted'
  BY <1>1, <1>2, <1>4, <1>5, <1>6, <1>8, CallCounted
<1> QED BY <1>2, <1>9, IdleMove, CallInv
\* cancel_current_operation, the end of a thread, run_once after its call, stop.
LEMMA FlagStepsInv == Keeps(Cancel \/ ClearActive \/ RunStarted \/ RunFinished \/ SchedulerStop \/ RunLoopEnds)
<1> SUFFICES ASSUME IInv, Cancel \/ ClearActive \/ RunStarted \/ RunFinished \/ SchedulerStop \/ RunLoopEnds PROVE IInv'
  BY DEF Keeps
<1>1. /\ svc \in [running: BOOLEAN, active: BOOLEAN, cancel: BOOLEAN, handle: 0 .. MaxOps,
                  state: {"idle", "running", "succeeded", "failed"}, no: 0 .. MaxOps]
      /\ svc.running <=> svc.state = "running"
      /\ MaxOps \in Nat
  BY ServiceAssumption DEF IInv, Typed, TypeOK
<1>2. /\ UNCHANGED <<repos, sessions, own>> /\ BoundsMove
      /\ UNCHANGED w \/ w' = Idle
      /\ \/ UNCHANGED call
         \/ /\ call["scheduler"].pc \in {"started", "thrown"}
            /\ call' = [call EXCEPT !["scheduler"].pc = "none"]
  BY DEF Cancel, ClearActive, RunStarted, RunFinished, SchedulerStop, RunLoopEnds, BoundsMove
<1>3. \/ UNCHANGED svc \/ svc' = [svc EXCEPT !.cancel = TRUE]
      \/ svc' = [svc EXCEPT !.active = FALSE] \/ svc' = [svc EXCEPT !.handle = 0]
      \/ svc' = [svc EXCEPT !.cancel = svc.cancel \/ svc.running]
  BY DEF Cancel, ClearActive, RunStarted, RunFinished, SchedulerStop, RunLoopEnds
<1>4. SvcOK' /\ svc'.no = svc.no
  <2>1. 0 \in 0 .. MaxOps /\ (svc.cancel \/ svc.running) \in BOOLEAN
    BY <1>1
  <2>2. CASE UNCHANGED svc
    BY <1>1, <2>2 DEF SvcOK
  <2>3. CASE svc' = [svc EXCEPT !.cancel = TRUE] \/ svc' = [svc EXCEPT !.active = FALSE]
    BY <1>1, <2>3, Zenon DEF SvcOK
  <2>4. CASE svc' = [svc EXCEPT !.handle = 0]
    BY <1>1, <2>1, <2>4 DEF SvcOK
  <2>5. CASE svc' = [svc EXCEPT !.cancel = svc.cancel \/ svc.running]
    BY <1>1, <2>1, <2>5 DEF SvcOK
  <2> QED BY <1>3, <2>2, <2>3, <2>4, <2>5
<1> QED BY <1>2, <1>4, FlagsInv

-----------------------------------------------------------------------------
(* Sessions that list a repository or stage a restore *)

\* A listing adds to the local repository, beside whatever the worker does.
LEMMA ListInv ==
    ASSUME IInv, LocalGrows, list' \in [Lister -> Listing], BoundsMove, ListUnchanged
    PROVE  IInv'
<1> USE DEF ListUnchanged
<1>1. OwnHeld'
  BY Zenon DEF IInv, OwnHeld, LocalGrows, Typed, TypeOK
<1>2. LocalWork'
  BY Zenon DEF IInv, LocalWork, LocalGrows
<1>3. RemoteWork'
  BY Zenon DEF IInv, RemoteWork
<1>4. /\ SvcOK' /\ w' \in Operation /\ (w'.pc \notin Resting => w'.rest # <<>>)
      /\ local' \in Repositories /\ remote' \in Remotes /\ pub' \in Publics /\ own' \subseteq Id
  BY DEF IInv, Typed, TypeOK, SvcOK, LocalGrows
<1>5. WorkerMakes' = WorkerMakes /\ WorkerMakes \in Nat
  BY DEF WorkerMakes
<1>6. WorkerMakes' <= WorkerMakes
  BY <1>5
<1> QED BY Zenon, <1>1, <1>2, <1>3, <1>4, <1>6, WorkerInv

\* A listing that fails is tried again or given up.
LEMMA ListErrorType ==
    ASSUME IInv, NEW a \in Lister, ListError(a)
    PROVE  list' \in [Lister -> Listing]
<1>1. list \in [Lister -> Listing] /\ list[a].n \in Nat
  BY Zenon DEF IInv, Typed, Listing
<1> DEFINE x == IF list[a].n < MaxAttempts
                THEN [NoList EXCEPT !.pc = "latest", !.n = list[a].n + 1]
                ELSE [NoList EXCEPT !.pc = IF a = "worker" THEN "thrown" ELSE "idle"]
<1>2. x \in Listing
  <2>1. NoList \in Listing
    BY DEF NoList, Listing, MaybeId
  <2>2. [NoList EXCEPT !.pc = "latest", !.n = list[a].n + 1] \in Listing
    <3> DEFINE n == list[a].n + 1
    <3>1. n \in Nat
      BY <1>1
    <3> HIDE DEF n
    <3>2. [NoList EXCEPT !.pc = "latest", !.n = n] \in Listing
      BY <2>1, <3>1, Zenon DEF Listing
    <3> QED BY <3>2 DEF n
  <2>3. [NoList EXCEPT !.pc = IF a = "worker" THEN "thrown" ELSE "idle"] \in Listing
    BY <2>1, Zenon DEF Listing
  <2> QED BY <2>2, <2>3
<1>3. list' = [list EXCEPT ![a] = x]
  BY DEF ListError
<1> HIDE DEF x
<1> QED BY <1>1, <1>2, <1>3

\* list_remote_backup_snapshots: latest.json, then the directories one by one.
LEMMA ListStepInv ==
    ASSUME NEW a \in Lister
    PROVE  Keeps(ListStep(a))
<1> SUFFICES ASSUME IInv, ListStep(a) PROVE IInv'
  BY DEF Keeps
<1>1. ListUnchanged /\ UNCHANGED bounds
  BY DEF ListStep, ListLatest, ListEntry, ListCached, ListDone
<1>2. list \in [Lister -> Listing] /\ list[a].todo \in SUBSET Id /\ list[a].id \in MaybeId
  BY Zenon DEF IInv, Typed, Listing
<1>3. local \in Repositories /\ remote \in Remotes
  BY StillRepos
<1>4. CASE ListLatest(a)
  <2> DEFINE d == {i \in Id : remote.dir[i] # "absent"}
  <2>1. /\ local' = [local EXCEPT !.latest = IF remote.latest = NoId THEN @ ELSE remote.latest]
        /\ list' = [list EXCEPT ![a].pc = "entries", ![a].todo = d]
    BY <1>4 DEF ListLatest
  <2>2. LocalGrows
    BY <1>3, <2>1 DEF LocalGrows, Repositories, Remotes
  <2>3. d \in SUBSET Id
    OBVIOUS
  <2> HIDE DEF d
  <2>4. list' \in [Lister -> Listing]
    BY <1>2, <2>1, <2>3, ZenonT(40) DEF Listing
  <2> QED BY <1>1, <2>2, <2>4, ListInv DEF BoundsMove
<1>5. CASE ListEntry(a)
  <2> DEFINE i == Eldest(list[a].todo)
  <2>1. i \in list[a].todo
    BY <1>2, <1>5, EldestIsOne DEF ListEntry
  <2>2. i \in Id
    BY <1>2, <2>1
  <2>3. \/ list' = [list EXCEPT ![a].todo = @ \ {i}] /\ UNCHANGED local
        \/ ListError(a) /\ UNCHANGED local
        \/ /\ local' = CacheBegin(i)
           /\ list' = [list EXCEPT ![a].pc = "cache", ![a].id = i, ![a].todo = @ \ {i}]
    BY <1>5 DEF ListEntry
  <2> HIDE DEF i
  <2>4. LocalGrows
    BY <2>2, <2>3, StillRepos, CacheGrows
  <2>5. CASE list' = [list EXCEPT ![a].todo = @ \ {i}]
    <3>1. list' \in [Lister -> Listing]
      BY <1>2, <2>5, Zenon DEF Listing
    <3> QED BY <1>1, <2>4, <3>1, ListInv DEF BoundsMove
  <2>6. CASE ListError(a)
    BY <1>1, <2>4, <2>6, ListErrorType, ListInv DEF BoundsMove
  <2>7. CASE list' = [list EXCEPT ![a].pc = "cache", ![a].id = i, ![a].todo = @ \ {i}]
    <3> DEFINE x == [list[a] EXCEPT !.pc = "cache", !.id = i, !.todo = list[a].todo \ {i}]
    <3>1. x \in Listing
      BY <1>2, <2>2, Zenon DEF Listing, MaybeId
    <3>2. list' = [list EXCEPT ![a] = x]
      BY <1>2, <2>7, Zenon
    <3> HIDE DEF x
    <3>3. list' \in [Lister -> Listing]
      BY <1>2, <3>1, <3>2
    <3> QED BY <1>1, <2>4, <3>3, ListInv DEF BoundsMove
  <2> QED BY <2>3, <2>5, <2>6, <2>7
<1>6. CASE ListCached(a)
  <2>1. local' = CacheEnd(list[a].id) /\ list' = [list EXCEPT ![a].pc = "entries"]
    BY <1>6 DEF ListCached
  <2>2. LocalGrows
    BY <1>2, <2>1, CachedGrows, Zenon
  <2>3. list' \in [Lister -> Listing]
    BY <1>2, <2>1, Zenon DEF Listing
  <2> QED BY <1>1, <2>2, <2>3, ListInv DEF BoundsMove
<1>7. CASE ListDone(a)
  <2>1. UNCHANGED local
    BY <1>7 DEF ListDone
  <2>2. LocalGrows
    BY <2>1, StillRepos
  <2> DEFINE x == [NoList EXCEPT !.pc = IF a = "worker" THEN "done" ELSE "idle"]
  <2>3. x \in Listing
    BY Zenon DEF NoList, Listing, MaybeId
  <2>4. ListError(a) \/ list' = [list EXCEPT ![a] = x]
    BY <1>7 DEF ListDone
  <2> HIDE DEF x
  <2>5. list' \in [Lister -> Listing]
    BY <1>2, <2>3, <2>4, ListErrorType
  <2> QED BY <1>1, <2>2, <2>5, ListInv DEF BoundsMove
<1> QED BY <1>4, <1>5, <1>6, <1>7 DEF ListStep
\* A listing begins, loses its connection, or reads the public repository.
LEMMA ListOtherInv ==
    ASSUME IInv, \/ ListStart("latest") \/ ListStart("public") \/ ListPublic
                 \/ \E a \in Lister : ListBroken(a)
    PROVE  IInv'
<1>1. list \in [Lister -> Listing] /\ \A a \in Lister : list[a].id \in MaybeId
  BY Zenon DEF IInv, Typed, Listing
<1>2. "admin" \in Lister
  BY DEF Lister
<1>3. ASSUME NEW pc \in {"latest", "public"}, ListStart(pc) PROVE IInv'
  <2>1. /\ list' = [list EXCEPT !["admin"].pc = pc] /\ BoundsMove /\ ListUnchanged
        /\ UNCHANGED local
    BY <1>3 DEF ListStart, BoundsMove, ListUnchanged, repos
  <2>2. list' \in [Lister -> Listing]
    BY <1>1, <2>1, ZenonT(40) DEF Listing
  <2> QED BY <2>1, <2>2, StillRepos, ListInv
<1>4. ASSUME NEW a \in Lister, ListBroken(a) PROVE IInv'
  <2>1. /\ BoundsMove /\ ListUnchanged /\ UNCHANGED local
        /\ list' = [list EXCEPT ![a].pc = "thrown"] \/ ListError(a)
    BY <1>4 DEF ListBroken, BoundsMove
  <2>2. CASE list' = [list EXCEPT ![a].pc = "thrown"]
    <3>1. list' \in [Lister -> Listing]
      BY <1>1, <2>2, ZenonT(40) DEF Listing
    <3> QED BY <2>1, <3>1, StillRepos, ListInv
  <2>3. CASE ListError(a)
    BY <2>1, <2>3, StillRepos, ListErrorType, ListInv
  <2> QED BY <2>1, <2>2, <2>3
<1>5. CASE ListPublic
  <2>1. /\ ListUnchanged /\ UNCHANGED bounds
        /\ \/ list' = [list EXCEPT !["admin"] = NoList] /\ UNCHANGED local
           \/ /\ pub.latest # NoId /\ local' = CacheBegin(pub.latest)
              /\ list' = [list EXCEPT !["admin"].pc = "public cache",
                                      !["admin"].id = pub.latest]
           \/ /\ local' = [CacheEnd(list["admin"].id) EXCEPT !.latest = list["admin"].id]
              /\ list' = [list EXCEPT !["admin"] = NoList]
    BY <1>5, Zenon DEF ListPublic
  <2>2. pub.latest \in MaybeId
    BY StillRepos DEF Publics, MaybeId
  <2>3. pub.latest # NoId => pub.latest \in Id
    BY <2>2 DEF MaybeId
  <2>4. LocalGrows
    <3>1. CASE UNCHANGED local
      BY <3>1, StillRepos
    <3>2. CASE pub.latest # NoId /\ local' = CacheBegin(pub.latest)
      BY <2>3, <3>2, CacheGrows
    <3>3. CASE local' = [CacheEnd(list["admin"].id) EXCEPT !.latest = list["admin"].id]
      <4>1. list["admin"].id \in MaybeId
        BY <1>1, <1>2
      <4> QED BY <3>3, <4>1, CachedGrows
    <3> QED BY <2>1, <3>1, <3>2, <3>3, Zenon
  <2>5. NoList \in Listing
    BY DEF NoList, Listing, MaybeId
  <2>6. list' \in [Lister -> Listing]
    <3>1. CASE list' = [list EXCEPT !["admin"] = NoList]
      BY <1>1, <2>5, <3>1, Zenon
    <3>2. CASE list' = [list EXCEPT !["admin"].pc = "public cache", !["admin"].id = pub.latest]
      BY <1>1, <2>2, <3>2, ZenonT(40) DEF Listing
    <3> QED BY <2>1, <3>1, <3>2, Zenon
  <2> QED BY <2>1, <2>4, <2>6, ListInv, Zenon DEF BoundsMove
<1> QED BY <1>3, <1>4, <1>5

\* Staging touches the staging directory only.
LEMMA StageInv ==
    ASSUME IInv, UNCHANGED <<repos, svc, call, w, list, own>>, BoundsMove,
           stage' \in Staging, stage'.pc = "copy" => stage'.id \in Id,
           staged' \in [Id -> SUBSET (Obj \cup {"none", "partial"})], StageWork'
    PROVE  IInv'
<1>1. OwnHeld' /\ LocalWork' /\ RemoteWork'
  BY Zenon DEF repos, IInv, OwnHeld, LocalWork, RemoteWork
<1>2. Typed'
  BY DEF repos, IInv, Typed, TypeOK
<1>3. Counted'
  <2>1. /\ bounds' \in [ids: Nat, made: Nat, ops: Nat, events: Nat]
        /\ bounds'.ids = bounds.ids /\ bounds'.made = bounds.made /\ bounds'.ops = bounds.ops
    BY DEF IInv, Counted, BoundsMove
  <2>2. \A c \in Caller : Numbers(c)' = Numbers(c) /\ Makes(c)' = Makes(c)
    BY DEF Numbers, Makes
  <2>3. WorkerMakes' = WorkerMakes
    BY DEF WorkerMakes
  <2> QED BY <2>1, <2>2, <2>3 DEF IInv, Counted, Caller
<1> QED BY <1>1, <1>2, <1>3 DEF IInv

\* stage_local_restore_snapshot from its checks to the last rename.
LEMMA StageStepsInv ==
    ASSUME IInv, (\E i \in MaybeId : StageBegin(i)) \/ StageStep
    PROVE  IInv'
<1>1. /\ stage \in Staging /\ stage.todo \in SUBSET Obj /\ stage.copied \in SUBSET Obj
      /\ stage.pc = "copy" => stage.id \in Id
      /\ staged \in [Id -> SUBSET (Obj \cup {"none", "partial"})]
  BY DEF IInv, Typed, TypeOK, Staging
<1>2. /\ stage.pc = "copy" =>
          Files[stage.id] \subseteq stage.todo \cup stage.copied \cup {ConfigObj}
      /\ StagedIsWhole
  BY DEF IInv, StageWork
<1>3. NoStage \in Staging /\ NoStage.pc # "copy"
  BY DEF NoStage, Staging, MaybeId
<1>4. ASSUME NEW id \in MaybeId, StageBegin(id) PROVE IInv'
  <2> DEFINE i == Selected(local, id)
  <2>1. /\ i # NoId /\ stage' = [pc |-> "copy", id |-> i, todo |-> Files[i], copied |-> {}]
        /\ staged' = [staged EXCEPT ![i] = {"partial"}] /\ BoundsMove
        /\ UNCHANGED <<repos, svc, call, w, list, own>>
    BY <1>4 DEF StageBegin, BoundsMove
  <2>2. i \in Id
    BY <2>1, StillRepos DEF Selected, Repositories, MaybeId
  <2> HIDE DEF i
  <2>3. Files[i] \subseteq Obj
    BY <2>2, RepositoryAssumption
  <2>4. stage' \in Staging /\ stage'.id = i /\ stage'.todo = Files[i]
    BY <2>1, <2>2, <2>3 DEF Staging, MaybeId
  <2>5. staged' \in [Id -> SUBSET (Obj \cup {"none", "partial"})]
    BY <1>1, <2>1, <2>2
  <2>6. StagedIsWhole'
    BY <1>1, <1>2, <2>1, <2>2 DEF StagedIsWhole
  <2>7. StageWork'
    BY <2>4, <2>6 DEF StageWork
  <2> QED BY <2>1, <2>2, <2>4, <2>5, <2>7, StageInv
<1>5. ASSUME NEW o \in Obj, StageCopy(o) PROVE IInv'
  <2>1. stage.pc = "copy" /\ UNCHANGED <<repos, svc, call, w, list, own, bounds>>
    BY <1>5 DEF StageCopy
  <2>2. CASE o \in local.objs \/ o = ConfigObj
    <3>1. /\ UNCHANGED staged
          /\ stage' = [stage EXCEPT !.todo = @ \ {o}, !.copied = @ \cup ({o} \cap local.objs)]
      BY <1>5, <2>2 DEF StageCopy
    <3>2. /\ stage' \in Staging /\ stage'.pc = "copy" /\ stage'.id = stage.id
          /\ stage'.todo = stage.todo \ {o}
          /\ stage'.copied = stage.copied \cup ({o} \cap local.objs)
      BY <1>1, <2>1, <3>1, Zenon DEF Staging
    <3>3. StageWork'
      BY <1>2, <2>1, <2>2, <3>1, <3>2 DEF StageWork, StagedIsWhole
    <3> QED BY <1>1, <2>1, <3>1, <3>2, <3>3, StageInv DEF BoundsMove
  <2>3. CASE ~(o \in local.objs \/ o = ConfigObj)
    <3>1. stage' = NoStage /\ staged' = [staged EXCEPT ![stage.id] = NoStaged]
      BY <1>5, <2>3 DEF StageCopy
    <3>2. staged' \in [Id -> SUBSET (Obj \cup {"none", "partial"})]
      BY <1>1, <2>1, <3>1 DEF NoStaged
    <3>3. StagedIsWhole'
      BY <1>1, <1>2, <2>1, <3>1 DEF StagedIsWhole
    <3>4. StageWork'
      BY <1>3, <3>1, <3>3 DEF StageWork
    <3> QED BY <1>3, <2>1, <3>1, <3>2, <3>4, StageInv DEF BoundsMove
  <2> QED BY <2>2, <2>3
<1>6. CASE StageFinish
  <2>1. /\ stage.pc = "copy" /\ stage.todo = {} /\ stage' = NoStage
        /\ staged' = [staged EXCEPT ![stage.id] = stage.copied]
        /\ UNCHANGED <<repos, svc, call, w, list, own, bounds>>
    BY <1>6 DEF StageFinish
  <2>2. staged' \in [Id -> SUBSET (Obj \cup {"none", "partial"})]
    BY <1>1, <2>1
  <2>3. Files[stage.id] \ {ConfigObj} \subseteq stage.copied
    BY <1>2, <2>1
  <2>4. StagedIsWhole'
    BY <1>1, <1>2, <2>1, <2>3 DEF StagedIsWhole
  <2>5. StageWork'
    BY <1>3, <2>1, <2>4 DEF StageWork
  <2> QED BY <1>3, <2>1, <2>2, <2>5, StageInv DEF BoundsMove
<1> QED BY <1>4, <1>5, <1>6 DEF StageStep
-----------------------------------------------------------------------------
(* The invariant *)

\* A repository that holds the snapshots of earlier processes satisfies it.
LEMMA InitInv ==
    ASSUME Init
    PROVE  IInv
<1>1. /\ local = HeldRepository(Held) /\ remote = HeldRemote(Held) /\ pub = HeldPublic(Held)
      /\ own = 1 .. Held /\ bounds = [ids |-> Held, made |-> Held, ops |-> 0, events |-> 0]
      /\ svc = [running |-> FALSE, active |-> FALSE, cancel |-> FALSE, state |-> "idle",
                handle |-> 0, no |-> 0]
      /\ call = [c \in Caller |-> NoCall] /\ w = Idle /\ stage = NoStage
      /\ list = [a \in Lister |-> NoList] /\ staged = [i \in Id |-> NoStaged]
  BY DEF Init
<1>2. Held \in 0 .. MaxId /\ MaxId \in Nat /\ MaxOps \in Nat /\ MaxAttempts \in Nat \ {0}
  BY ServiceAssumption, RepositoryAssumption
<1>3. Held \in Nat /\ Held <= MaxId /\ 1 .. Held \subseteq Id /\ Held \in MaybeId
  BY <1>2 DEF Id, MaybeId, NoId
<1>4. \A i \in Id : Files[i] \subseteq Obj
  BY RepositoryAssumption
<1>5. local \in Repositories
  <2>1. UNION {Files[i] : i \in 1 .. Held} \in SUBSET Obj
    BY <1>3, <1>4
  <2> QED BY Zenon, <1>1, <1>3, <2>1 DEF HeldRepository, Repositories, DirState, MaybeId
<1>6. remote \in Remotes /\ pub \in Publics
  BY Zenon, <1>1, <1>3 DEF HeldRemote, HeldPublic, Remotes, Publics, RemoteObject, RemoteDir, MaybeId
<1>7. w \in Operation /\ w.pc = "idle"
  BY <1>1, IdleIsOperation
<1>8. /\ call \in [Caller -> Call] /\ list \in [Lister -> Listing] /\ stage \in Staging
      /\ stage.pc = "idle"
  BY Zenon, <1>1 DEF Call, Listing, Staging, NoCall, NoList, NoStage, MaybeId
<1>9. SvcOK
  <2>1. 0 \in 0 .. MaxOps
    BY <1>2
  <2> QED BY <1>1, <2>1 DEF SvcOK
<1>10. staged \in [Id -> SUBSET (Obj \cup {"none", "partial"})] /\ StagedIsWhole
  BY <1>1 DEF NoStaged, StagedIsWhole
<1>11. Typed
  BY Zenon, <1>1, <1>3, <1>5, <1>6, <1>7, <1>8, <1>9, <1>10
     DEF Typed, TypeOK, SvcOK, Resting, Operation, MaybeId
<1>12. Counted
  <2>1. /\ \A c \in Caller : Numbers(c) = 0 /\ Makes(c) = 0
        /\ WorkerMakes = 0
    BY <1>1, <1>7 DEF Numbers, Makes, NoCall, WorkerMakes
  <2>2. /\ bounds \in [ids: Nat, made: Nat, ops: Nat, events: Nat]
        /\ bounds.ids = Held /\ bounds.made = Held /\ bounds.ops = 0 /\ svc.no = 0
    BY <1>1, <1>3
  <2> QED BY <1>2, <1>3, <2>1, <2>2 DEF Counted, Caller
<1>13. OwnHeld
  BY <1>1, <1>3 DEF OwnHeld, HeldRepository, Id
<1>14. LocalWork /\ RemoteWork /\ StageWork
  BY <1>7, <1>8, <1>10 DEF LocalWork, RemoteWork, StageWork
<1> QED BY <1>11, <1>12, <1>13, <1>14 DEF IInv

\* The worker's steps keep it.
LEMMA WorkerStepInv == Keeps(WorkerStep)
<1> SUFFICES ASSUME IInv, WorkerStep PROVE IInv'
  BY DEF Keeps
<1>1. CASE NextPhase \/ Cancelled \/ FinishSuccess \/ FinishFailure
  BY <1>1, NextPhaseInv, CancelledInv, FinishInv DEF Keeps
<1>2. CASE SnapshotStep
  BY <1>2, CheckpointInv, StoreBeginInv, StoreCommitInv, StoreLatestInv, PruneCollectInv,
     PruneObjectInv, StoreObjectInv, PruneDirectoryInv, Zenon DEF Keeps, SnapshotStep
<1>3. CASE UploadStep
  BY <1>3, UploadPlanInv, UploadMetadataInv, UploadRenameInv, UploadLatestInv,
     UploadObjectInv, PublishInv DEF Keeps, UploadStep
<1>4. CASE DeleteStep
  BY <1>4, RetainInv, RetainNextInv, RemoteDeleteInv, RemoteRemoveInv, RemoteLatestInv,
     LocalDeleteInv, LocalRemoveInv, Zenon DEF Keeps, DeleteStep
<1>5. CASE FetchStep
  BY <1>5, FetchInv DEF Keeps
<1> QED BY <1>1, <1>2, <1>3, <1>4, <1>5 DEF WorkerStep

\* So does everything that may fail.
LEMMA FaultsInv == Keeps(Faults)
<1> SUFFICES ASSUME IInv, Faults PROVE IInv'
  BY DEF Keeps
<1>1. CASE \/ StoreFails \/ UploadFails \/ PublishFails \/ ConnectFails \/ TransferFails
           \/ DownloadFails \/ SignatureFails
  BY <1>1, FailureInv
<1>2. CASE Crash
  BY <1>2, FreshInv DEF Crash, BoundsMove
<1>3. CASE \E c \in Caller : AssignThrows(c)
  BY <1>3, AssignThrowsInv DEF Keeps
<1>4. CASE \E a \in Lister : ListBroken(a)
  BY <1>4, ListOtherInv
<1>5. CASE LocalDelete(TRUE) \/ \E i \in Id : PruneDirectory(i, TRUE)
  BY <1>5, LocalDeleteInv, PruneDirectoryInv, Zenon DEF Keeps
<1> QED BY <1>1, <1>2, <1>3, <1>4, <1>5, Zenon DEF Faults

\* And every other step.
LEMMA StepInv ==
    ASSUME IInv, [Next]_vars
    PROVE  IInv'
<1>1. CASE AdminStart
  <2>1. PICK req \in Requests : JoinFinished("admin", req)
    BY <1>1 DEF AdminStart
  <2>2. req \in Request /\ "admin" \in Caller /\ UNCHANGED <<repos, w, sessions, own>>
    BY <1>1, ServiceAssumption DEF AdminStart, Caller
  <2> QED BY <2>1, <2>2, JoinFinishedInv
<1>2. ASSUME NEW h \in Heights, RunOnce(h) PROVE IInv'
  <2>1. Scheduled \in Request /\ "scheduler" \in Caller
    BY DEF Scheduled, Request, Caller
  <2> QED BY <1>2, <2>1, JoinFinishedInv DEF RunOnce
<1>3. ASSUME NEW c \in Caller, CallStep(c) \/ AssignTerminates(c) PROVE IInv'
  BY <1>3, BeginInv, AssignInv, FreshInv DEF Keeps, CallStep, AssignTerminates, BoundsMove
<1>4. CASE Cancel \/ ClearActive \/ SchedulerStop \/ SchedulerStep
  BY <1>4, FlagStepsInv DEF Keeps, SchedulerStep
<1>5. CASE WorkerStep \/ Faults
  BY <1>5, WorkerStepInv, FaultsInv DEF Keeps
<1>6. CASE ListPublic \/ ListStart("latest") \/ ListStart("public")
  BY <1>6, ListOtherInv
<1>7. ASSUME NEW a \in Lister, ListStep(a) PROVE IInv'
  BY <1>7, ListStepInv DEF Keeps
<1>8. CASE StageStep \/ \E i \in Id \cup {NoId} : StageBegin(i)
  BY <1>8, StageStepsInv DEF MaybeId
<1>9. CASE UNCHANGED vars
  <2>1. UNCHANGED <<repos, svc, call, w, sessions, own>> /\ BoundsMove
    BY <1>9 DEF vars, BoundsMove
  <2> QED BY Zenon, <2>1, StageInv DEF sessions, IInv, Typed, TypeOK, StageWork, StagedIsWhole
<1> QED BY <1>1, <1>2, <1>3, <1>4, <1>5, <1>6, <1>7, <1>8, <1>9 DEF Next

\* The invariant holds throughout.
LEMMA Invariance == Spec => []IInv
  BY InitInv, StepInv, PTL DEF Spec
-----------------------------------------------------------------------------
(* What a step does to the remote repository *)

\* A step that puts objects, or changes directories but completes none.
RemoteGrows ==
    /\ remote'.dir = remote.dir
    /\ \A o \in Obj : remote.objs[o] = "full" => remote'.objs[o] = "full"

RemoteShrinks == remote'.objs = remote.objs /\ Listed(remote') \subseteq Listed(remote)

\* The rename at the end of an upload, and the removal of an object.
RemoteRenames == w.pc = "rename" /\ w.id \in Id /\ remote' = RenamePartial(remote, w.id)

RemoteFrees ==
    w.pc = "remote objects" /\ \E o \in FirstOf(w.todo) : remote' = RemoveObject(remote, o)

\* There are no others.
LEMMA RemoteMove ==
    ASSUME IInv, [Next]_vars
    PROVE  RemoteGrows \/ RemoteShrinks \/ RemoteRenames \/ RemoteFrees
<1> USE DEF At
<1>1. remote \in Remotes
  BY StillRepos
<1>2. CASE UNCHANGED remote
  BY <1>2 DEF RemoteGrows
<1>3. ASSUME NEW o \in Obj, UploadObject(o) PROVE RemoteGrows
  BY <1>1, <1>3 DEF UploadObject, PutObject, RemoteGrows, Remotes
<1>4. CASE UploadMetadata \/ UploadLatest \/ RemoteLatest
  <2>1. remote'.dir = remote.dir /\ remote'.objs = remote.objs
    BY <1>1, <1>4, Zenon DEF UploadMetadata, UploadLatest, RemoteLatest, PutPartial, PutLatest,
                      RemoveLatest, RenameLatest, Remotes
  <2> QED BY <2>1 DEF RemoteGrows
<1>5. CASE UploadRename
  <2>1. w.pc = "rename" /\ (remote' = RenamePartial(remote, w.id) \/ UNCHANGED remote)
    BY <1>5 DEF UploadRename
  <2>2. w.id \in Id
    BY <2>1 DEF IInv, RemoteWork
  <2> QED BY <1>2, <2>1, <2>2 DEF RemoteRenames
<1>6. CASE UploadFails
  <2>1. UNCHANGED remote \/ \E o \in FirstOf(w.todo) : remote' = CutObject(remote, o)
    BY <1>6 DEF UploadFails
  <2> QED BY <1>1, <1>2, <2>1 DEF CutObject, RemoteGrows, Remotes
<1>7. CASE RemoteRemove
  <2>1. \/ remote' = RemoveFiles(remote, w.id)
        \/ remote' = RemoveDirectory(remote, w.id)
        \/ RemoteFrees
    BY <1>7, Zenon DEF RemoteRemove, RemoteFrees
  <2>2. CASE remote' = RemoveFiles(remote, w.id) \/ remote' = RemoveDirectory(remote, w.id)
    BY <1>1, <2>2 DEF RemoveFiles, RemoveDirectory, RemoteShrinks, Listed, Remotes
  <2> QED BY <2>1, <2>2
<1> USE DEF Worker, repos
<1>8. CASE SnapshotStep
  BY <1>2, <1>8, Zenon DEF SnapshotStep, Checkpoint, StoreBegin, StoreCommit, StoreLatest,
     PruneCollect, PruneObject, StoreObject, PruneDirectory
<1>9. CASE UploadStep
  <2>1. CASE UploadPlan \/ PublishPlan \/ PublishMetadata \/ PublishSwap \/ PublishPrune
    BY <1>2, <2>1, Zenon DEF UploadPlan, PublishPlan, PublishMetadata, PublishSwap, PublishPrune
  <2> QED BY <1>3, <1>4, <1>5, <1>9, <2>1 DEF UploadStep
<1>10. CASE DeleteStep
  <2>1. CASE \/ Retain \/ RetainListed \/ RetainNext \/ RemoteDelete \/ LocalDelete(FALSE)
             \/ LocalRemove
    BY <1>2, <2>1, Zenon DEF Retain, RetainListed, RetainNext, RemoteDelete, LocalDelete, LocalRemove
  <2> QED BY <1>4, <1>7, <1>10, <2>1, Zenon DEF DeleteStep
<1>11. CASE FetchStep
  <2>1. CASE \/ FetchMetadata \/ FetchCached \/ FetchDownload \/ FetchDone \/ PublicMetadata
             \/ PublicVerified \/ PublicCached \/ \E space \in BOOLEAN : FetchPreflight(space)
    BY <1>2, <2>1, Zenon DEF FetchMetadata, FetchCached, FetchDownload, FetchDone, PublicMetadata,
       PublicVerified, PublicCached, FetchPreflight
  <2>2. CASE \E o \in Obj : FetchVerify(o) \/ PublicObject(o)
    BY <1>2, <2>2, Zenon DEF FetchVerify, PublicObject
  <2> QED BY <1>11, <2>1, <2>2 DEF FetchStep
<1>12. CASE WorkerStep
  <2>1. CASE NextPhase \/ Cancelled \/ FinishSuccess \/ FinishFailure
    BY <1>2, <2>1 DEF NextPhase, Cancelled, FinishSuccess, FinishFailure
  <2> QED BY <1>8, <1>9, <1>10, <1>11, <1>12, <2>1 DEF WorkerStep
<1>13. CASE Faults
  <2>1. CASE \/ StoreFails \/ PublishFails \/ ConnectFails \/ TransferFails \/ DownloadFails
             \/ SignatureFails \/ Crash \/ LocalDelete(TRUE)
    BY <1>2, <2>1, Zenon DEF StoreFails, PublishFails, ConnectFails, TransferFails, DownloadFails,
       SignatureFails, Crash, LocalDelete
  <2>2. CASE \/ \E c \in Caller : AssignThrows(c)
             \/ \E a \in Lister : ListBroken(a)
             \/ \E i \in Id : PruneDirectory(i, TRUE)
    BY <1>2, <2>2, Zenon DEF AssignThrows, ListBroken, PruneDirectory, ListUnchanged
  <2> QED BY <1>6, <1>13, <2>1, <2>2, Zenon DEF Faults
<1>14. CASE AdminStart \/ Cancel \/ ClearActive \/ SchedulerStop \/ SchedulerStep
            \/ \E h \in Heights : RunOnce(h)
  BY Zenon, <1>2, <1>14 DEF AdminStart, Cancel, ClearActive, SchedulerStop, SchedulerStep,
     RunStarted, RunFinished, RunLoopEnds, RunOnce
<1>15. CASE \/ ListPublic \/ ListStart("latest") \/ ListStart("public")
            \/ \E a \in Lister : ListStep(a)
  BY Zenon, <1>2, <1>15 DEF ListPublic, ListStart, ListStep, ListLatest, ListEntry, ListCached,
     ListDone, ListUnchanged
<1>16. CASE StageStep \/ \E i \in Id \cup {NoId} : StageBegin(i)
  BY Zenon, <1>2, <1>16 DEF StageStep, StageFinish, StageCopy, StageBegin
<1>17. CASE \E c \in Caller : CallStep(c) \/ AssignTerminates(c)
  BY <1>2, <1>17 DEF CallStep, Begin, Assign, AssignTerminates
<1>18. CASE UNCHANGED vars
  BY <1>2, <1>18 DEF vars
<1> QED BY <1>12, <1>13, <1>14, <1>15, <1>16, <1>17, <1>18 DEF Next

-----------------------------------------------------------------------------
(* The theorems *)

\* A snapshot that store_checkpoint_snapshot has stored keeps all its objects until its
\* own removal begins, whatever is pruned, deleted, fetched, listed or interrupted.
THEOREM StoredSnapshotsStayWhole == Spec => []OwnSnapshotsWhole
<1>1. IInv => OwnSnapshotsWhole
  BY DEF IInv, Typed, OwnHeld, OwnSnapshotsWhole, Missing
<1> QED BY <1>1, Invariance, PTL

\* A completed staging directory has every file but perhaps config.yml, although
\* stage_local_restore_snapshot looks for a running operation only once.
THEOREM CompletedStagingIsWhole == Spec => []StagedIsWhole
<1>1. IInv => StagedIsWhole
  BY DEF IInv, StageWork
<1> QED BY <1>1, Invariance, PTL

\* Neither retention, nor a deletion, nor an upload's retry takes an object away from a
\* remote snapshot that stays listed.
THEOREM RemoteSnapshotsKeepObjects == Spec => RemoteKeepsObjects
<1>1. ASSUME IInv, [Next]_vars
      PROVE  [\A i \in Listed(remote) \cap Listed(remote') : \A o \in Files[i] :
                  remote.objs[o] = "full" => remote'.objs[o] = "full"]_vars
  <2> SUFFICES ASSUME NEW i \in Listed(remote) \cap Listed(remote'), NEW o \in Files[i],
                      remote.objs[o] = "full"
               PROVE  remote'.objs[o] = "full"
    OBVIOUS
  <2>1. remote \in Remotes /\ i \in Id /\ o \in Obj
    BY <1>1, StillRepos, RepositoryAssumption DEF Listed
  <2>2. CASE RemoteGrows \/ RemoteShrinks \/ RemoteRenames
    BY <2>1, <2>2, Zenon DEF RemoteGrows, RemoteShrinks, RemoteRenames, RenamePartial, Remotes
  <2>3. CASE RemoteFrees
    <3>1. PICK p \in FirstOf(w.todo) : remote' = RemoveObject(remote, p)
      BY <2>3, Zenon DEF RemoteFrees
    <3>2. p \in w.todo
      BY <3>1 DEF FirstOf
    <3>3. o \notin w.todo
      BY Zenon, <1>1, <2>3 DEF RemoteFrees, IInv, RemoteWork
    <3> QED BY <2>1, <3>1, <3>2, <3>3 DEF RemoveObject, Remotes
  <2> QED BY <1>1, <2>2, <2>3, RemoteMove
<1> QED BY <1>1, Invariance, PTL DEF Spec, RemoteKeepsObjects

\* A remote snapshot becomes complete only by the rename at the end of an upload that has
\* put every object of its plan, however often it was broken off and begun again.
THEOREM UploadsCompleteWhole == Spec => UploadedIsWhole
<1>1. ASSUME IInv, [Next]_vars
      PROVE  [\A i \in Listed(remote') \ Listed(remote) : \A o \in Files[i] \cap w.plan :
                  remote'.objs[o] = "full"]_vars
  <2> SUFFICES ASSUME NEW i \in Listed(remote') \ Listed(remote), NEW o \in Files[i] \cap w.plan
               PROVE  remote'.objs[o] = "full"
    OBVIOUS
  <2>1. remote \in Remotes /\ i \in Id /\ remote'.dir[i] = "complete" /\ remote.dir[i] # "complete"
    BY <1>1, StillRepos DEF Listed
  <2>2. ~RemoteGrows /\ ~RemoteShrinks /\ ~RemoteFrees
    BY <2>1, Zenon DEF RemoteGrows, RemoteShrinks, RemoteFrees, RemoveObject, Listed, Remotes
  <2>3. RemoteRenames
    BY <1>1, <2>2, RemoteMove
  <2>4. remote'.objs = remote.objs
    BY <2>1, <2>3 DEF RemoteRenames, RenamePartial, Remotes
  <2> QED BY <1>1, <2>3, <2>4 DEF RemoteRenames, IInv, RemoteWork
<1> QED BY <1>1, Invariance, PTL DEF Spec, UploadedIsWhole
=============================================================================
