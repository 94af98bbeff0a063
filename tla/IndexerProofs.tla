--------------------------- MODULE IndexerProofs ---------------------------
(***************************************************************************)
(* The safety of Indexer for any number of workers, any target, any queue  *)
(* size and any batch sizes: blocks arrive at the controller in order and  *)
(* none left out, and the pipeline does what IndexJob promises.            *)
(*                                                                         *)
(* The argument: two tokens go round.  The request token is a posted or    *)
(* running prepare_index, send_requests or process_requests, or a response *)
(* that is being drained; the block token is a posted or running           *)
(* process_block.  There is at most one of each, although any worker may   *)
(* drain a response and any handler may fail, and each knows up to which   *)
(* height the blocks have been requested.                                  *)
(***************************************************************************)
EXTENDS Indexer, TLAPS

Least(a, b) == IF a < b THEN a ELSE b

\* s holds the heights right above k.
Above(s, k) == \A i \in 1..Len(s) : s[i] = k + i

-----------------------------------------------------------------------------
(* The tokens *)

RequestPosted == {h \in posted : h.kind \in {"prepare", "send"}}
Requesting == {w \in Worker : job[w].at \in {"prepare", "send", "process"}}

OneRequest ==
    /\ \A g, h \in RequestPosted : g = h
    /\ \A v, w \in Requesting : v = w
    /\ RequestPosted # {} => Requesting = {}
    /\ staged.active \/ processingComplete => RequestPosted = {} /\ Requesting = {}
    /\ ~(staged.active /\ processingComplete)

BlockPosted == {h \in posted : h.kind \in {"prepare", "check"}}

\* The worker that runs process_block, also while it holds a block the controller refused.
Processing ==
    {w \in Worker : \/ job[w].item # 0
                    \/ job[w].at \in {"prepare", "check", "pull", "drainThenApply", "apply",
                                      "applying", "finish", "finishing", "completing"}}

OneProcess ==
    /\ \A g, h \in BlockPosted : g = h
    /\ \A v, w \in Processing : v = w
    /\ BlockPosted # {} => Processing = {}
    /\ \A w \in Worker :
        job[w].item # 0 => job[w].at \in {"drainThenApply", "apply", "applying", "error"}

\* Who owns _completion_mutex, and what has been set under it.
Ended ==
    /\ \A w \in Worker : job[w].at \in {"applying", "finishing", "completing"} => completion = w
    /\ stopped => completion = NoWorker /\ promise # "unset"
    /\ ~stopped /\ promise # "unset" => BlockPosted = {} /\ Processing = {}

-----------------------------------------------------------------------------
(* The blocks on their way *)

Base == IF pending = 0 THEN head ELSE pending
Busy == {w \in Worker : job[w].item # 0}
Taken == IF Busy = {} THEN Base ELSE Base + 1

\* The height up to which blocks have been staged.
Reach == Taken + Len(blockQueue) + Len(staged.blocks)

InOrder ==
    /\ pending # 0 => pending = head + 1
    /\ \A w \in Busy : job[w].item = Base + 1
    /\ Above(blockQueue, Taken)
    /\ Above(staged.blocks, Taken + Len(blockQueue))
    /\ Reach > head => Reach <= Target
    /\ ~staged.active => staged.blocks = <<>>
    /\ verify => pending = 0

\* What a request for the blocks above a height may rely on.
Wants(height, batch) ==
    /\ ~requestsComplete /\ requestQueue = <<>>
    /\ batch > 0 /\ Reach = Least(height, Target)

Fresh ==
    /\ ~requestsComplete /\ requestQueue = <<>> /\ ~staged.active
    /\ Reach = head

Requested(height, batch) ==
    IF requestsComplete THEN requestQueue = <<>> /\ Reach = Target
    ELSE /\ height < Target /\ batch > 0 /\ Reach = height
         /\ requestQueue = <<[from |-> height + 1, to |-> height + Least(batch, Target - height)]>>

Progress ==
    /\ \A h \in posted : h.kind = "prepare" => Fresh
    /\ \A h \in posted : h.kind = "send" => Wants(h.height, h.batch)
    /\ \A w \in Worker : At(w, "prepare") => Fresh
    /\ \A w \in Worker : At(w, "send") => Wants(job[w].height, job[w].batch)
    /\ \A w \in Worker : At(w, "process") => Requested(job[w].height, job[w].batch)
    /\ staged.active => Wants(staged.height + staged.batch, staged.batch)
    /\ processingComplete => Reach = Target
    /\ \A w \in Worker :
        job[w].at \in {"finish", "finishing", "completing"} => processingComplete /\ blockQueue = <<>>
    /\ \A w \in Worker : At(w, "completing") => pending = 0

PipelineInv ==
    /\ TypeOK
    /\ \A h \in posted : h.kind # "process"
    /\ OneRequest
    /\ OneProcess
    /\ Ended
    /\ ~stopped => InOrder /\ Progress
    /\ ~staged.active => staged.blocks = <<>>
    /\ CheckedBySuccessor

\* What a step must do to the pipeline.
Keeps(A) == PipelineInv /\ A => PipelineInv'

\* A worker on its way to the controller has a block.
Carries ==
    ~stopped => \A w \in Worker :
        job[w].at \in {"drainThenApply", "apply", "applying"} => job[w].item # 0

IInv == PipelineInv /\ Carries

-----------------------------------------------------------------------------
(* Runs of heights *)

\* push_back on the block queue.
LEMMA AboveAppend ==
    ASSUME NEW s \in Seq(Nat), NEW k \in Nat, Above(s, k)
    PROVE  LET u == Append(s, k + Len(s) + 1)
           IN  u \in Seq(Nat) /\ Len(u) = Len(s) + 1 /\ Above(u, k)
  BY DEF Above

\* pull_front and pop_front.
LEMMA AboveTail ==
    ASSUME NEW s \in Seq(Nat), NEW k \in Nat, Above(s, k), s # <<>>
    PROVE  /\ Head(s) = k + 1 /\ Tail(s) \in Seq(Nat) /\ Len(Tail(s)) = Len(s) - 1
           /\ Above(Tail(s), k + 1)
<1>1. Len(s) \in Nat /\ Len(s) >= 1
  OBVIOUS
<1>2. Tail(s) \in Seq(Nat) /\ Len(Tail(s)) = Len(s) - 1 /\ \A i \in 1..Len(s) - 1 : Tail(s)[i] = s[i + 1]
  BY <1>1
<1> QED BY <1>1, <1>2 DEF Above

\* Two runs, the second right above the first, are one.
LEMMA AboveConcat ==
    ASSUME NEW s \in Seq(Nat), NEW u \in Seq(Nat), NEW k \in Nat,
           Above(s, k), Above(u, k + Len(s))
    PROVE  s \o u \in Seq(Nat) /\ Len(s \o u) = Len(s) + Len(u) /\ Above(s \o u, k)
<1>1. /\ s \o u \in Seq(Nat) /\ Len(s \o u) = Len(s) + Len(u)
      /\ \A i \in 1..Len(s) + Len(u) : (s \o u)[i] = IF i <= Len(s) THEN s[i] ELSE u[i - Len(s)]
  OBVIOUS
<1> QED BY <1>1 DEF Above

-----------------------------------------------------------------------------
(* How a worker moves *)

\* A worker goes on inside its handler.
LEMMA GotoJob ==
    ASSUME job \in [Worker -> Job], NEW w \in Worker, NEW label \in Label, Goto(w, label)
    PROVE  /\ job' \in [Worker -> Job] /\ \A v \in Worker \ {w} : job'[v] = job[v]
           /\ job'[w].at = label /\ job'[w].item = job[w].item
           /\ job'[w].height = job[w].height /\ job'[w].batch = job[w].batch
  BY DEF Goto, Job

\* A handler returns.
LEMMA FinishedJob ==
    ASSUME job \in [Worker -> Job], NEW w \in Worker, Finished(w)
    PROVE  /\ job' \in [Worker -> Job] /\ \A v \in Worker \ {w} : job'[v] = job[v]
           /\ job'[w].at = "idle" /\ job'[w].item = 0
  BY DEF Finished, Job, Idle, Label
-----------------------------------------------------------------------------
(* What a step leaves as it was *)

\* While no block moves, everything that is known of the blocks on their way stays.
LEMMA BlocksStill ==
    ASSUME UNCHANGED <<staged, blockQueue, pending, head, verify>>,
           \A v \in Worker : job'[v].item = job[v].item
    PROVE  /\ Base' = Base /\ Busy' = Busy /\ Taken' = Taken /\ Reach' = Reach
           /\ InOrder => InOrder'
<1>1. Base' = Base /\ Busy' = Busy
  BY DEF Base, Busy
<1>2. Taken' = Taken /\ Reach' = Reach
  BY <1>1 DEF Taken, Reach
<1>3. InOrder => InOrder'
  BY <1>1, <1>2 DEF InOrder, Above, Busy
<1> QED BY <1>1, <1>2, <1>3

\* A worker that takes no token leaves the others theirs.
LEMMA TokensStill ==
    ASSUME OneRequest, OneProcess, NEW w \in Worker,
           posted' = posted, \A v \in Worker \ {w} : job'[v] = job[v],
           staged'.active => staged.active, processingComplete' = processingComplete,
           job'[w].at \in {"prepare", "send", "process"} => w \in Requesting,
           w \in Processing' => w \in Processing,
           job'[w].item # 0 => job'[w].at \in {"drainThenApply", "apply", "applying", "error"}
    PROVE  OneRequest' /\ OneProcess'
<1>1. RequestPosted' = RequestPosted /\ BlockPosted' = BlockPosted
  BY DEF RequestPosted, BlockPosted
<1>2. Requesting' \subseteq Requesting
  BY DEF Requesting
<1>3. Processing' \subseteq Processing
  BY DEF Processing
<1>4. OneRequest'
  BY <1>1, <1>2 DEF OneRequest
<1>5. OneProcess'
  BY <1>1, <1>3 DEF OneProcess
<1> QED BY <1>4, <1>5

\* The requests know what they knew while none is sent, answered or drained.
LEMMA RequestsStill ==
    ASSUME Progress, NEW w \in Worker, Reach' = Reach,
           UNCHANGED <<posted, requestVars, staged, blockQueue, pending, head>>,
           \A v \in Worker \ {w} : job'[v] = job[v],
           job'[w].at \notin {"prepare", "send", "process"},
           job'[w].at \in {"finish", "finishing", "completing"}
               => processingComplete /\ blockQueue = <<>>,
           job'[w].at = "completing" => pending = 0
    PROVE  Progress'
<1> USE DEF requestVars
<1>1. Fresh => Fresh'
  BY DEF Fresh
<1>2. \A height, batch : /\ Wants(height, batch) => Wants(height, batch)'
                         /\ Requested(height, batch) => Requested(height, batch)'
  BY DEF Wants, Requested
<1>3. (/\ \A h \in posted : h.kind = "prepare" => Fresh
       /\ \A h \in posted : h.kind = "send" => Wants(h.height, h.batch))'
  BY <1>1, <1>2 DEF Progress
<1>4. (/\ \A v \in Worker : At(v, "prepare") => Fresh
       /\ \A v \in Worker : At(v, "send") => Wants(job[v].height, job[v].batch)
       /\ \A v \in Worker : At(v, "process") => Requested(job[v].height, job[v].batch))'
  BY <1>1, <1>2 DEF Progress, At
<1>5. (/\ staged.active => Wants(staged.height + staged.batch, staged.batch)
       /\ processingComplete => Reach = Target)'
  BY <1>2 DEF Progress
<1>6. (/\ \A v \in Worker : job[v].at \in {"finish", "finishing", "completing"}
                               => processingComplete /\ blockQueue = <<>>
       /\ \A v \in Worker : At(v, "completing") => pending = 0)'
  BY DEF Progress, At
<1> QED BY <1>3, <1>4, <1>5, <1>6 DEF Progress

\* A step that moves one worker, and neither blocks nor requests.
LEMMA WorkerMoves ==
    ASSUME PipelineInv, NEW w \in Worker,
           job' \in [Worker -> Job], \A v \in Worker \ {w} : job'[v] = job[v],
           UNCHANGED <<verify, posted, requestVars, staged, blockQueue, chainVars>>,
           drainer' \in Worker \cup {NoWorker}, completion' \in Worker \cup {NoWorker},
           stopped' \in BOOLEAN, promise' \in {"unset", "true", "false", "error"},
           stopped => stopped',
           job'[w].at \notin {"prepare", "send", "process"},
           w \in Processing' => w \in Processing,
           job'[w].item # 0 => job'[w].at \in {"drainThenApply", "apply", "applying", "error"},
           ~stopped' => job'[w].item = job[w].item,
           ~stopped' /\ job'[w].at \in {"finish", "finishing", "completing"}
               => processingComplete /\ blockQueue = <<>>,
           job'[w].at # "completing",
           Ended'
    PROVE  PipelineInv'
<1> USE DEF requestVars, chainVars
<1>1. TypeOK'
  BY DEF PipelineInv, TypeOK
<1>2. OneRequest' /\ OneProcess'
  BY TokensStill DEF PipelineInv
<1>3. ASSUME ~stopped' PROVE InOrder' /\ Progress'
  <2>1. InOrder /\ Progress
    BY <1>3 DEF PipelineInv
  <2>2. \A v \in Worker : job'[v].item = job[v].item
    BY <1>3
  <2>3. InOrder' /\ Reach' = Reach
    BY <2>1, <2>2, BlocksStill
  <2> QED BY <1>3, <2>1, <2>3, RequestsStill
<1> QED BY <1>1, <1>2, <1>3 DEF PipelineInv, CheckedBySuccessor
\* _completion_mutex and the promise are untouched.
LEMMA EndedStill ==
    ASSUME Ended, NEW w \in Worker, UNCHANGED <<posted, stopped, promise, completion>>,
           \A v \in Worker \ {w} : job'[v] = job[v],
           w \in Processing' => w \in Processing,
           job'[w].at \in {"applying", "finishing", "completing"} => completion = w
    PROVE  Ended'
<1>1. Processing' \subseteq Processing /\ BlockPosted' = BlockPosted
  BY DEF Processing, BlockPosted
<1> QED BY <1>1 DEF Ended

-----------------------------------------------------------------------------
(* Handlers that return, fail or wait *)

LEMMA ReturnStoppedStep ==
    ASSUME NEW w \in Worker
    PROVE  Keeps(ReturnStopped(w))
<1> SUFFICES ASSUME PipelineInv, ReturnStopped(w) PROVE PipelineInv'
  BY DEF Keeps
<1> USE DEF endVars, requestVars, responseVars, chainVars
<1>1. /\ job' \in [Worker -> Job] /\ \A v \in Worker \ {w} : job'[v] = job[v]
      /\ job'[w].at = "idle" /\ job'[w].item = 0
  BY FinishedJob DEF PipelineInv, TypeOK, ReturnStopped
<1>2. stopped /\ UNCHANGED <<verify, posted, endVars, requestVars, responseVars, chainVars>>
  BY DEF ReturnStopped
<1>3. w \notin Processing'
  BY <1>1 DEF Processing
<1>4. Ended'
  BY <1>1, <1>2, <1>3, EndedStill DEF PipelineInv
<1> QED BY <1>1, <1>2, <1>3, <1>4, WorkerMoves, Zenon DEF PipelineInv, TypeOK

\* A failed handler has given up its token, and holds no block.
LEMMA FailsStep ==
    ASSUME NEW w \in Worker
    PROVE  Keeps(Fails(w))
<1> SUFFICES ASSUME PipelineInv, Fails(w) PROVE PipelineInv'
  BY DEF Keeps
<1> USE DEF endVars, requestVars, responseVars, chainVars
<1>1. /\ job' \in [Worker -> Job] /\ \A v \in Worker \ {w} : job'[v] = job[v]
      /\ job'[w].at = "error" /\ job'[w].item = job[w].item
  BY GotoJob DEF PipelineInv, TypeOK, Fails, Label
<1>2. UNCHANGED <<verify, posted, endVars, requestVars, responseVars, chainVars>>
  BY DEF Fails
<1>3. w \notin Processing'
  BY <1>1 DEF Processing, Fails, PipelineInv, OneProcess
<1>4. Ended'
  BY <1>1, <1>2, <1>3, EndedStill DEF PipelineInv
<1> QED BY <1>1, <1>2, <1>3, <1>4, WorkerMoves, Zenon DEF PipelineInv, TypeOK

\* process_block begins.
LEMMA CheckStep ==
    ASSUME NEW w \in Worker
    PROVE  Keeps(Check(w))
<1> SUFFICES ASSUME PipelineInv, Check(w) PROVE PipelineInv'
  BY DEF Keeps
<1> USE DEF endVars, requestVars, responseVars, chainVars
<1> DEFINE label == IF processingComplete /\ blockQueue = <<>> THEN "finish" ELSE "pull"
<1>1. label \in Label /\ Goto(w, label) /\ job \in [Worker -> Job]
  BY DEF Label, Check, PipelineInv, TypeOK
<1>2. /\ job' \in [Worker -> Job] /\ \A v \in Worker \ {w} : job'[v] = job[v]
      /\ job'[w].at = label /\ job'[w].item = job[w].item
  <2> HIDE DEF label
  <2> QED BY <1>1, GotoJob
<1>3. /\ job[w].at = "check" /\ ~stopped
      /\ UNCHANGED <<verify, posted, endVars, requestVars, responseVars, chainVars>>
  BY DEF Check, At
<1>4. w \in Processing /\ job[w].item = 0
  BY <1>3 DEF Processing, PipelineInv, OneProcess
<1>5. Ended'
  BY <1>2, <1>3, <1>4, EndedStill DEF PipelineInv
<1> QED BY <1>2, <1>3, <1>4, <1>5, WorkerMoves, Zenon DEF PipelineInv, TypeOK

\* Nothing more can be drained: the worker goes on to its block, or returns.
LEMMA LeaveBlocksStep ==
    ASSUME NEW w \in Worker
    PROVE  Keeps(LeaveBlocks(w))
<1> SUFFICES ASSUME PipelineInv, LeaveBlocks(w) PROVE PipelineInv'
  BY DEF Keeps
<1> USE DEF endVars, requestVars, responseVars, chainVars
<1>1. /\ job[w].at \in {"drain", "drainThenApply"} /\ drainer' = NoWorker
      /\ UNCHANGED <<verify, posted, endVars, requestVars, staged, blockQueue, chainVars>>
  BY DEF LeaveBlocks, Draining
<1>2. /\ job' \in [Worker -> Job] /\ \A v \in Worker \ {w} : job'[v] = job[v]
      /\ job'[w].at = (IF job[w].at = "drain" THEN "idle" ELSE "apply")
      /\ job'[w].item = IF job[w].at = "drain" THEN 0 ELSE job[w].item
  <2>1. job \in [Worker -> Job] /\ "apply" \in Label
    BY DEF PipelineInv, TypeOK, Label
  <2>2. CASE job[w].at = "drain"
    BY <2>1, <2>2, FinishedJob DEF LeaveBlocks, Drained, At
  <2>3. CASE job[w].at = "drainThenApply"
    BY <2>1, <2>3, GotoJob DEF LeaveBlocks, Drained, At
  <2> QED BY <1>1, <2>2, <2>3
<1>3. /\ job[w].at = "drain" => job[w].item = 0
      /\ w \in Processing' => w \in Processing
  BY <1>1, <1>2 DEF Processing, PipelineInv, OneProcess
<1>4. Ended'
  BY <1>1, <1>2, <1>3, EndedStill DEF PipelineInv
<1>5. /\ job'[w].item = job[w].item /\ job'[w].at \in {"idle", "apply"}
      /\ job'[w].item # 0 => job'[w].at = "apply"
  BY <1>1, <1>2, <1>3
<1> QED BY <1>1, <1>2, <1>3, <1>4, <1>5, WorkerMoves, Zenon DEF PipelineInv, TypeOK

-----------------------------------------------------------------------------
(* _completion_mutex *)

\* Only one worker at a time is past the second look at cancellation.
LEMMA LockStep ==
    ASSUME NEW w \in Worker
    PROVE  Keeps(Lock(w))
<1> SUFFICES ASSUME PipelineInv, Lock(w) PROVE PipelineInv'
  BY DEF Keeps
<1> USE DEF requestVars, responseVars, chainVars
<1>1. /\ job[w].at \in {"apply", "finish"} /\ completion = NoWorker /\ job \in [Worker -> Job]
      /\ UNCHANGED <<verify, posted, stopped, promise, requestVars, responseVars, chainVars>>
  BY DEF Lock, PipelineInv, TypeOK
<1>2. w \in Processing /\ (job[w].at = "finish" => job[w].item = 0)
  BY <1>1 DEF Processing, PipelineInv, OneProcess
<1>3. CASE stopped
  <2>1. /\ job' \in [Worker -> Job] /\ \A v \in Worker \ {w} : job'[v] = job[v]
        /\ job'[w].at = "idle" /\ job'[w].item = 0 /\ completion' = completion
    BY <1>1, <1>3, FinishedJob DEF Lock
  <2>2. Ended'
    BY <1>1, <1>2, <2>1, EndedStill DEF PipelineInv
  <2> QED BY <1>1, <1>2, <1>3, <2>1, <2>2, WorkerMoves, Zenon DEF PipelineInv, TypeOK
<1>4. CASE ~stopped
  <2> DEFINE label == IF job[w].at = "apply" THEN "applying" ELSE "finishing"
  <2>1. label \in Label /\ Goto(w, label) /\ completion' = w
    BY <1>4 DEF Label, Lock, At
  <2>2. /\ job' \in [Worker -> Job] /\ \A v \in Worker \ {w} : job'[v] = job[v]
        /\ job'[w].at = label /\ job'[w].item = job[w].item
    <3> HIDE DEF label
    <3> QED BY <1>1, <2>1, GotoJob
  <2>3. Ended'
    <3>1. \A v \in Worker : job[v].at \notin {"applying", "finishing", "completing"}
      BY <1>1, WorkerAssumption DEF PipelineInv, Ended
    <3>2. promise = "unset"
      BY <1>2, <1>4 DEF PipelineInv, Ended
    <3> QED BY <1>1, <1>4, <2>1, <2>2, <3>1, <3>2 DEF Ended
  <2>4. job[w].at = "finish" => processingComplete /\ blockQueue = <<>>
    BY <1>4 DEF PipelineInv, Progress
  <2> QED BY <1>1, <1>2, <1>4, <2>1, <2>2, <2>3, <2>4, WorkerMoves, Zenon DEF PipelineInv, TypeOK
<1> QED BY <1>3, <1>4, Zenon DEF PipelineInv, TypeOK

\* The controller threw: the block stays with the worker, and process_block is not posted again.
LEMMA ApplyFailsStep ==
    ASSUME NEW w \in Worker
    PROVE  Keeps(ApplyFails(w))
<1> SUFFICES ASSUME PipelineInv, ApplyFails(w) PROVE PipelineInv'
  BY DEF Keeps
<1> USE DEF requestVars, responseVars, chainVars
<1>1. /\ job[w].at \in {"applying", "finishing"} /\ completion' = NoWorker
      /\ UNCHANGED <<verify, posted, stopped, promise, requestVars, responseVars, chainVars>>
  BY DEF ApplyFails, At
<1>2. /\ job' \in [Worker -> Job] /\ \A v \in Worker \ {w} : job'[v] = job[v]
      /\ job'[w].at = "error" /\ job'[w].item = job[w].item
  BY GotoJob DEF PipelineInv, TypeOK, ApplyFails, Label
<1>3. w \in Processing
  BY <1>1 DEF Processing
<1>4. Ended'
  <2>1. \A v \in Worker \ {w} : job[v].at \notin {"applying", "finishing", "completing"}
    BY <1>1 DEF PipelineInv, Ended
  <2>2. promise = "unset" /\ ~stopped
    BY <1>1, <1>3, WorkerAssumption DEF PipelineInv, Ended
  <2> QED BY <1>1, <1>2, <2>1, <2>2 DEF Ended
<1> QED BY <1>1, <1>2, <1>3, <1>4, WorkerMoves, Zenon DEF PipelineInv, TypeOK

\* The promise is kept under the lock; nothing is left to apply.
LEMMA CompleteStep ==
    ASSUME NEW w \in Worker
    PROVE  Keeps(Complete(w))
<1> SUFFICES ASSUME PipelineInv, Complete(w) PROVE PipelineInv'
  BY DEF Keeps
<1> USE DEF requestVars, responseVars, chainVars
<1>1. /\ job[w].at = "completing" /\ completion' = NoWorker
      /\ promise' = IF promise = "unset" THEN "true" ELSE promise
      /\ UNCHANGED <<verify, posted, stopped, requestVars, responseVars, chainVars>>
  BY DEF Complete, At
<1>2. /\ job' \in [Worker -> Job] /\ \A v \in Worker \ {w} : job'[v] = job[v]
      /\ job'[w].at = "idle" /\ job'[w].item = 0
  BY FinishedJob DEF PipelineInv, TypeOK, Complete
<1>3. w \in Processing /\ w \notin Processing' /\ job[w].item = 0
  BY <1>1, <1>2 DEF Processing, PipelineInv, OneProcess
<1>4. promise' \in {"unset", "true", "false", "error"}
  BY <1>1 DEF PipelineInv, TypeOK
<1>5. Ended'
  <2>1. \A v \in Worker \ {w} : job[v].at \notin {"applying", "finishing", "completing"}
    BY <1>1 DEF PipelineInv, Ended
  <2>2. ~stopped
    BY <1>1, WorkerAssumption DEF PipelineInv, Ended
  <2>3. BlockPosted = {} /\ BlockPosted' = BlockPosted /\ Processing' = {}
    BY <1>1, <1>2, <1>3 DEF PipelineInv, OneProcess, Processing, BlockPosted
  <2> QED BY <1>1, <1>2, <2>1, <2>2, <2>3 DEF Ended
<1> QED BY <1>1, <1>2, <1>3, <1>4, <1>5, WorkerMoves, Zenon DEF PipelineInv, TypeOK

\* handle_error waits for the lock, and wins over whatever comes later.
LEMMA HandleErrorStep ==
    ASSUME NEW w \in Worker
    PROVE  Keeps(HandleError(w))
<1> SUFFICES ASSUME PipelineInv, HandleError(w) PROVE PipelineInv'
  BY DEF Keeps
<1> USE DEF requestVars, responseVars, chainVars
<1>1. /\ completion = NoWorker /\ completion' = completion /\ stopped'
      /\ promise' = IF ~stopped /\ promise = "unset" THEN "error" ELSE promise
      /\ UNCHANGED <<verify, posted, requestVars, responseVars, chainVars>>
  BY DEF HandleError, End
<1>2. /\ job' \in [Worker -> Job] /\ \A v \in Worker \ {w} : job'[v] = job[v]
      /\ job'[w].at = "idle" /\ job'[w].item = 0
  BY FinishedJob DEF PipelineInv, TypeOK, HandleError
<1>3. w \notin Processing'
  BY <1>2 DEF Processing
<1>4. promise' \in {"unset", "true", "false", "error"} /\ stopped' \in BOOLEAN
  BY <1>1 DEF PipelineInv, TypeOK, HandleError, End
<1>5. Ended'
  BY <1>1, <1>2 DEF PipelineInv, Ended
<1> QED BY <1>1, <1>2, <1>3, <1>4, <1>5, WorkerMoves, Zenon DEF PipelineInv, TypeOK

\* So does a signal.
LEMMA StopStep == Keeps(Stop)
<1> SUFFICES ASSUME PipelineInv, Stop PROVE PipelineInv'
  BY DEF Keeps
<1> USE DEF requestVars, responseVars, chainVars
<1>1. /\ completion = NoWorker /\ completion' = completion /\ stopped' = TRUE
      /\ promise' = IF ~stopped /\ promise = "unset" THEN "false" ELSE promise
      /\ UNCHANGED <<verify, posted, job, requestVars, responseVars, chainVars>>
  BY DEF Stop, End
<1>2. TypeOK'
  BY <1>1 DEF PipelineInv, TypeOK
<1>3. Ended'
  BY <1>1 DEF PipelineInv, Ended
<1>4. OneRequest' /\ OneProcess'
  BY <1>1 DEF PipelineInv, OneRequest, RequestPosted, Requesting, OneProcess, BlockPosted, Processing
<1> QED BY <1>1, <1>2, <1>3, <1>4 DEF PipelineInv, CheckedBySuccessor
-----------------------------------------------------------------------------
(* The io_context and the requests *)

\* A posted handler takes its token with it.
LEMMA RunStep ==
    ASSUME NEW w \in Worker
    PROVE  Keeps(Run(w))
<1> SUFFICES ASSUME PipelineInv, Run(w) PROVE PipelineInv'
  BY DEF Keeps
<1> USE DEF endVars, requestVars, responseVars, chainVars
<1>1. PICK h \in posted :
         /\ posted' = posted \ {h}
         /\ job' = [job EXCEPT ![w] = [Idle EXCEPT !.at = h.kind, !.height = h.height,
                                                   !.batch = h.batch]]
  BY Zenon DEF Run
<1>2. /\ job[w].at = "idle" /\ job[w].item = 0 /\ job \in [Worker -> Job] /\ h \in Handler
      /\ h.kind \in {"prepare", "send", "check"}
      /\ UNCHANGED <<verify, endVars, requestVars, responseVars, chainVars>>
  BY Zenon DEF Run, At, PipelineInv, TypeOK, OneProcess, Handler
<1>3. /\ job' \in [Worker -> Job] /\ \A v \in Worker \ {w} : job'[v] = job[v]
      /\ job'[w].at = h.kind /\ job'[w].item = 0
      /\ job'[w].height = h.height /\ job'[w].batch = h.batch
  BY <1>1, <1>2, Zenon DEF Handler, Job, Idle, Label
<1>4. TypeOK'
  BY <1>1, <1>2, <1>3 DEF PipelineInv, TypeOK
<1>5. OneRequest'
  <2>1. RequestPosted' = RequestPosted \ {h}
    BY <1>1 DEF RequestPosted
  <2>2. CASE h.kind = "check"
    <3>1. Requesting' = Requesting /\ RequestPosted' = RequestPosted
      BY <1>1, <1>2, <1>3, <2>2 DEF Requesting, RequestPosted
    <3> QED BY <1>2, <3>1 DEF PipelineInv, OneRequest
  <2>3. CASE h.kind # "check"
    <3>1. h \in RequestPosted
      BY <1>2, <2>3 DEF RequestPosted
    <3>2. RequestPosted' = {} /\ Requesting = {}
      BY <2>1, <3>1 DEF PipelineInv, OneRequest
    <3>3. Requesting' = {w}
      BY <1>2, <1>3, <2>3, <3>2 DEF Requesting
    <3> QED BY <1>2, <3>1, <3>2, <3>3 DEF PipelineInv, OneRequest
  <2> QED BY <2>2, <2>3
<1>6. OneProcess'
  <2>1. BlockPosted' = BlockPosted \ {h}
    BY <1>1 DEF BlockPosted
  <2>2. CASE h.kind = "send"
    <3>1. Processing' = Processing /\ BlockPosted' = BlockPosted
      BY <1>1, <1>2, <1>3, <2>2 DEF Processing, BlockPosted
    <3> QED BY <1>2, <1>3, <3>1 DEF PipelineInv, OneProcess
  <2>3. CASE h.kind # "send"
    <3>1. h \in BlockPosted
      BY <1>2, <2>3 DEF BlockPosted
    <3>2. BlockPosted' = {} /\ Processing = {}
      BY <2>1, <3>1 DEF PipelineInv, OneProcess
    <3>3. Processing' = {w}
      BY <1>2, <1>3, <2>3, <3>2 DEF Processing
    <3> QED BY <1>2, <1>3, <3>2, <3>3 DEF PipelineInv, OneProcess
  <2> QED BY <2>2, <2>3
<1>7. Ended'
  <2>1. BlockPosted = {} /\ Processing = {} => BlockPosted' = {} /\ Processing' = {}
    BY <1>1, <1>2, <1>3 DEF BlockPosted, Processing
  <2> QED BY <1>2, <1>3, <2>1 DEF PipelineInv, Ended
<1>8. ASSUME ~stopped' PROVE InOrder' /\ Progress'
  <2>1. InOrder /\ Progress
    BY <1>2, <1>8 DEF PipelineInv
  <2>2. InOrder' /\ Reach' = Reach
    BY <1>2, <1>3, <2>1, BlocksStill
  <2>3. Fresh <=> Fresh'
    BY <1>2, <2>2 DEF Fresh
  <2>4. \A height, batch : /\ Wants(height, batch) <=> Wants(height, batch)'
                           /\ Requested(height, batch) <=> Requested(height, batch)'
    BY <1>2, <2>2 DEF Wants, Requested
  <2>5. Progress'
    BY <1>1, <1>2, <1>3, <2>1, <2>2, <2>3, <2>4 DEF Progress, At
  <2> QED BY <2>2, <2>5
<1> QED BY <1>1, <1>2, <1>4, <1>5, <1>6, <1>7, <1>8 DEF PipelineInv, CheckedBySuccessor

\* prepare_index posts one request and one process_block, or ends the job.
LEMMA PrepareStep ==
    ASSUME NEW w \in Worker
    PROVE  Keeps(Prepare(w))
<1> SUFFICES ASSUME PipelineInv, Prepare(w) PROVE PipelineInv'
  BY DEF Keeps
<1> USE DEF requestVars, responseVars, chainVars
<1>1. /\ job[w].at = "prepare" /\ ~stopped
      /\ UNCHANGED <<verify, stopped, completion, requestVars, responseVars, chainVars>>
  BY DEF Prepare, At
<1>2. /\ job' \in [Worker -> Job] /\ \A v \in Worker \ {w} : job'[v] = job[v]
      /\ job'[w].at = "idle" /\ job'[w].item = 0
  BY FinishedJob DEF PipelineInv, TypeOK, Prepare
<1>3. InOrder /\ Progress /\ Fresh /\ job[w].item = 0
  BY <1>1 DEF PipelineInv, Progress, At, OneProcess
<1>4. /\ RequestPosted = {} /\ Requesting = {w} /\ BlockPosted = {} /\ Processing = {w}
      /\ ~processingComplete /\ ~staged.active /\ promise = "unset"
  <2>1. w \in Requesting /\ w \in Processing
    BY <1>1 DEF Requesting, Processing
  <2> QED BY <1>1, <2>1 DEF PipelineInv, OneRequest, OneProcess, Ended
<1>5. Requesting' = {} /\ Processing' = {}
  BY <1>2, <1>4 DEF Requesting, Processing
<1>6. InOrder' /\ Reach' = Reach
  BY <1>1, <1>2, <1>3, BlocksStill
<1>7. \A v \in Worker : job'[v].at \notin {"prepare", "send", "process", "applying", "finish",
                                          "finishing", "completing"}
  BY <1>5 DEF Requesting, Processing
<1>8. CASE head < Target /\ Post({Handle("send", head, FirstBatch), ProcessBlock}) /\ UNCHANGED promise
  <2>1. posted' = posted \cup {Handle("send", head, FirstBatch), ProcessBlock}
    BY <1>8 DEF Post
  <2>2. TypeOK'
    <3>1. {Handle("send", head, FirstBatch), ProcessBlock} \subseteq Handler
      BY IndexerAssumption DEF PipelineInv, TypeOK, Handle, ProcessBlock, Handler
    <3> QED BY <1>1, <1>2, <1>8, <2>1, <3>1, Zenon DEF PipelineInv, TypeOK
  <2>3. RequestPosted' = {Handle("send", head, FirstBatch)} /\ BlockPosted' = {ProcessBlock}
    BY <1>4, <2>1 DEF RequestPosted, BlockPosted, Handle, ProcessBlock
  <2>4. OneRequest' /\ OneProcess'
    BY <1>1, <1>2, <1>4, <1>5, <2>3 DEF PipelineInv, OneRequest, OneProcess
  <2>5. Ended'
    BY <1>1, <1>2, <1>4, <1>7, <1>8 DEF Ended
  <2>6. Wants(head, FirstBatch)'
    BY <1>1, <1>3, <1>6, <1>8, IndexerAssumption DEF Fresh, Wants, Least
  <2>7. \A h \in posted' : h.kind = "prepare" \/ h.kind = "send" => h = Handle("send", head, FirstBatch)
    BY <2>3 DEF RequestPosted
  <2>8. Progress'
    BY <1>1, <1>2, <1>4, <1>7, <2>6, <2>7 DEF Progress, At, Handle
  <2>9. \A h \in posted' : h.kind # "process"
    BY <2>1 DEF PipelineInv, Handle, ProcessBlock
  <2> QED BY <1>1, <1>6, <2>2, <2>4, <2>5, <2>8, <2>9 DEF PipelineInv, CheckedBySuccessor
<1>9. CASE promise' = (IF promise = "unset" THEN "true" ELSE promise) /\ UNCHANGED posted
  <2>1. TypeOK'
    BY <1>1, <1>2, <1>9 DEF PipelineInv, TypeOK
  <2>2. RequestPosted' = {} /\ BlockPosted' = {}
    BY <1>4, <1>9 DEF RequestPosted, BlockPosted
  <2>3. OneRequest' /\ OneProcess'
    BY <1>1, <1>2, <1>4, <1>5, <2>2 DEF PipelineInv, OneRequest, OneProcess
  <2>4. Ended'
    BY <1>1, <1>2, <1>5, <1>7, <2>2 DEF Ended
  <2>5. \A h \in posted' : h.kind # "prepare" /\ h.kind # "send"
    BY <2>2 DEF RequestPosted
  <2>6. Progress'
    BY <1>1, <1>2, <1>4, <1>7, <2>5 DEF Progress, At
  <2> QED BY <1>1, <1>6, <1>9, <2>1, <2>3, <2>4, <2>6 DEF PipelineInv, CheckedBySuccessor
<1> QED BY <1>8, <1>9 DEF Prepare
\* send_requests queues the run of heights right above what has been staged.
LEMMA SendStep ==
    ASSUME NEW w \in Worker
    PROVE  Keeps(Send(w))
<1> SUFFICES ASSUME PipelineInv, Send(w) PROVE PipelineInv'
  BY DEF Keeps
<1> USE DEF endVars, responseVars, chainVars
<1> DEFINE last == job[w].height
           batch == job[w].batch
<1>1. /\ job[w].at = "send" /\ ~stopped
      /\ UNCHANGED <<verify, posted, endVars, processingComplete, responseVars, chainVars>>
  BY DEF Send, At
<1>2. /\ job' \in [Worker -> Job] /\ \A v \in Worker \ {w} : job'[v] = job[v]
      /\ job'[w].at = "process" /\ job'[w].item = job[w].item
      /\ job'[w].height = last /\ job'[w].batch = batch
  BY GotoJob DEF PipelineInv, TypeOK, Send, Label
<1>3. InOrder /\ Progress /\ Wants(last, batch) /\ job[w].item = 0 /\ last \in Nat /\ batch \in Nat
  BY <1>1, Zenon DEF PipelineInv, Progress, At, OneProcess, TypeOK, Job
<1>4. /\ RequestPosted = {} /\ Requesting = {w} /\ ~staged.active /\ ~processingComplete
  <2>1. w \in Requesting
    BY <1>1 DEF Requesting
  <2> QED BY <2>1 DEF PipelineInv, OneRequest
<1>5. /\ requestsComplete' \in BOOLEAN /\ requestQueue' \in Seq([from : Nat, to : Nat])
      /\ IF requestsComplete' THEN last >= Target /\ requestQueue' = <<>>
         ELSE /\ last < Target
              /\ requestQueue' = <<[from |-> last + 1, to |-> last + Least(batch, Target - last)]>>
  <2>1. requestsComplete = FALSE /\ requestQueue = <<>>
    BY <1>3 DEF Wants, PipelineInv, TypeOK
  <2>2. CASE last < Target
    <3>1. Target - last \in Nat /\ Least(batch, Target - last) \in Nat
      BY <1>3, <2>2, IndexerAssumption DEF Least
    <3>2. /\ requestQueue' = Append(<<>>, [from |-> last + 1, to |-> last + Least(batch, Target - last)])
          /\ requestsComplete' = requestsComplete
      BY <2>1, <2>2 DEF Send, Least
    <3> DEFINE q == [from |-> last + 1, to |-> last + Least(batch, Target - last)]
    <3>3. q \in [from : Nat, to : Nat]
      BY <1>3, <3>1
    <3>4. Append(<<>>, q) = <<q>> /\ <<q>> \in Seq([from : Nat, to : Nat])
      <4> HIDE DEF q
      <4> QED BY <3>3
    <3>5. requestQueue' = <<q>>
      BY <3>2, <3>4
    <3> QED BY <2>1, <2>2, <3>2, <3>4, <3>5, Zenon
  <2>3. CASE ~(last < Target)
    BY <1>3, <2>1, <2>3, IndexerAssumption DEF Send
  <2> QED BY <2>2, <2>3
<1>6. TypeOK'
  BY <1>1, <1>2, <1>5 DEF PipelineInv, TypeOK
<1>7. w \notin Processing' /\ OneRequest' /\ OneProcess'
  <2>1. w \notin Processing' /\ w \in Requesting
    BY <1>2, <1>3, <1>4 DEF Processing
  <2> QED BY <1>1, <1>2, <1>3, <2>1, TokensStill DEF PipelineInv
<1>8. Ended'
  BY <1>1, <1>2, <1>7, EndedStill DEF PipelineInv
<1>9. InOrder' /\ Reach' = Reach
  BY <1>1, <1>2, <1>3, BlocksStill
<1>10. Requested(job[w].height, job[w].batch)'
  BY <1>2, <1>3, <1>5, <1>9, IndexerAssumption DEF Wants, Requested, Least
<1>11. /\ \A v \in Worker \ {w} : job[v].at \notin {"prepare", "send", "process"}
       /\ \A h \in posted : h.kind # "prepare" /\ h.kind # "send"
  BY <1>4 DEF Requesting, RequestPosted
<1>12. Progress'
  BY <1>1, <1>2, <1>3, <1>4, <1>10, <1>11 DEF Progress, At
<1> QED BY <1>1, <1>6, <1>7, <1>8, <1>9, <1>12 DEF PipelineInv, CheckedBySuccessor

\* When the last request has been answered, everything up to the target has been staged.
LEMMA RequestsDoneStep ==
    ASSUME NEW w \in Worker
    PROVE  Keeps(RequestsDone(w))
<1> SUFFICES ASSUME PipelineInv, RequestsDone(w) PROVE PipelineInv'
  BY DEF Keeps
<1> USE DEF endVars, responseVars, chainVars
<1>1. /\ job[w].at = "process" /\ ~stopped /\ requestsComplete /\ processingComplete' = TRUE
      /\ UNCHANGED <<verify, posted, endVars, requestQueue, requestsComplete, responseVars, chainVars>>
  BY DEF RequestsDone, At
<1>2. /\ job' \in [Worker -> Job] /\ \A v \in Worker \ {w} : job'[v] = job[v]
      /\ job'[w].at = "idle" /\ job'[w].item = 0
  BY FinishedJob DEF PipelineInv, TypeOK, RequestsDone
<1>3. InOrder /\ Progress /\ Reach = Target /\ job[w].item = 0
  BY <1>1 DEF PipelineInv, Progress, At, OneProcess, Requested
<1>4. /\ RequestPosted = {} /\ Requesting = {w} /\ ~staged.active
  <2>1. w \in Requesting
    BY <1>1 DEF Requesting
  <2> QED BY <2>1 DEF PipelineInv, OneRequest
<1>5. TypeOK'
  BY <1>1, <1>2 DEF PipelineInv, TypeOK
<1>6. OneRequest'
  <2>1. RequestPosted' = {} /\ Requesting' = {}
    BY <1>1, <1>2, <1>4 DEF RequestPosted, Requesting
  <2> QED BY <1>1, <1>4, <2>1 DEF OneRequest
<1>7. OneProcess'
  <2>1. BlockPosted' = BlockPosted /\ Processing' \subseteq Processing
    BY <1>1, <1>2 DEF BlockPosted, Processing
  <2> QED BY <1>2, <2>1 DEF PipelineInv, OneProcess
<1>8. Ended'
  <2>1. w \notin Processing'
    BY <1>2 DEF Processing
  <2> QED BY <1>1, <1>2, <2>1, EndedStill DEF PipelineInv
<1>9. InOrder' /\ Reach' = Reach
  BY <1>1, <1>2, <1>3, BlocksStill
<1>10. /\ \A v \in Worker : job'[v].at \notin {"prepare", "send", "process"}
       /\ \A h \in posted : h.kind # "prepare" /\ h.kind # "send"
  BY <1>2, <1>4 DEF Requesting, RequestPosted
<1>11. Progress'
  BY <1>1, <1>2, <1>3, <1>4, <1>9, <1>10 DEF Progress, At
<1> QED BY <1>1, <1>5, <1>6, <1>7, <1>8, <1>9, <1>11, ZenonT(30) DEF PipelineInv, CheckedBySuccessor

\* process_requests finds the staging area empty and stages the run it asked for.
LEMMA ProcessStep ==
    ASSUME NEW w \in Worker
    PROVE  Keeps(Process(w))
<1> SUFFICES ASSUME PipelineInv, Process(w) PROVE PipelineInv'
  BY DEF Keeps
<1> USE DEF endVars, chainVars
<1> DEFINE h == job[w].height
           b == job[w].batch
           count == Least(b, Target - h)
           r == Head(requestQueue)
           blocks == [i \in 1..(r.to - r.from + 1) |-> r.from + i - 1]
<1>1. /\ job[w].at = "process" /\ ~stopped /\ requestQueue # <<>> /\ requestQueue' = Tail(requestQueue)
      /\ UNCHANGED <<verify, posted, endVars, requestsComplete, processingComplete, drainer,
                     blockQueue, chainVars>>
  BY DEF Process, At
<1>2. /\ RequestPosted = {} /\ Requesting = {w} /\ ~staged.active /\ ~processingComplete
      /\ staged.blocks = <<>>
  <2>1. w \in Requesting
    BY <1>1 DEF Requesting
  <2> QED BY <1>1, <2>1 DEF PipelineInv, OneRequest
<1>3. /\ InOrder /\ Progress /\ job[w].item = 0 /\ h \in Nat /\ b \in Nat \ {0} /\ h < Target
      /\ ~requestsComplete /\ Reach = h
      /\ requestQueue = <<[from |-> h + 1, to |-> h + count]>>
  <2>1. InOrder /\ Progress /\ job[w].item = 0 /\ Requested(h, b)
    BY <1>1 DEF PipelineInv, Progress, At, OneProcess
  <2>2. h \in Nat /\ b \in Nat
    BY Zenon DEF PipelineInv, TypeOK, Job
  <2> QED BY <1>1, <2>1, <2>2 DEF Requested
<1>4. count \in Nat /\ count > 0 /\ h + count = Least(h + b, Target) /\ h + count <= Target
  <2> HIDE DEF h, b
  <2> QED BY <1>3, IndexerAssumption DEF Least
<1>5. r.from = h + 1 /\ r.to = h + count /\ requestQueue' = <<>>
  <2> HIDE DEF h, count
  <2> QED BY <1>1, <1>3, <1>4
<1>6. blocks = [i \in 1..count |-> h + i]
  <2>1. r.to - r.from + 1 = count /\ \A i \in 1..count : r.from + i - 1 = h + i
    <3> HIDE DEF h, count, r
    <3> QED BY <1>3, <1>4, <1>5
  <2> HIDE DEF h, count, r
  <2> QED BY <2>1
<1>7. blocks \in Seq(Nat) /\ Len(blocks) = count /\ Above(blocks, h)
  <2> HIDE DEF h, count, blocks, b
  <2> QED BY <1>3, <1>4, <1>6 DEF Above
<1>8. staged' = [blocks |-> blocks, active |-> TRUE, height |-> h, batch |-> b] /\ Goto(w, "drain")
  BY <1>2 DEF Process
<1>9. /\ job' \in [Worker -> Job] /\ \A v \in Worker \ {w} : job'[v] = job[v]
      /\ job'[w].at = "drain" /\ job'[w].item = job[w].item
  BY <1>8, GotoJob, Zenon DEF PipelineInv, TypeOK, Label
<1> HIDE DEF h, b, count, r, blocks
<1>10. TypeOK'
  <2>1. staged' \in [blocks : Seq(Nat), active : BOOLEAN, height : Nat, batch : Nat]
    BY <1>3, <1>7, <1>8
  <2>2. requestQueue' \in Seq([from : Nat, to : Nat])
    BY <1>5
  <2> QED BY <1>1, <1>9, <2>1, <2>2, Zenon DEF PipelineInv, TypeOK
<1>11. OneRequest'
  <2>1. RequestPosted' = {} /\ Requesting' = {}
    BY <1>1, <1>2, <1>9 DEF RequestPosted, Requesting
  <2> QED BY <1>1, <1>2, <2>1 DEF OneRequest
<1>12. OneProcess'
  <2>1. BlockPosted' = BlockPosted /\ Processing' \subseteq Processing
    BY <1>1, <1>9 DEF BlockPosted, Processing
  <2> QED BY <1>3, <1>9, <2>1 DEF PipelineInv, OneProcess
<1>13. Ended'
  <2>1. w \notin Processing'
    BY <1>3, <1>9 DEF Processing
  <2> QED BY <1>1, <1>9, <2>1, EndedStill DEF PipelineInv
<1>14. /\ Base' = Base /\ Busy' = Busy /\ Taken' = Taken
       /\ \A v \in Worker : job'[v].item = job[v].item
  <2>1. \A v \in Worker : job'[v].item = job[v].item
    BY <1>9
  <2>2. Base' = Base /\ Busy' = Busy
    BY <1>1, <2>1 DEF Base, Busy
  <2> QED BY <2>1, <2>2 DEF Taken
<1>15. Taken + Len(blockQueue) = h /\ Reach' = h + count
  <2>1. Len(staged.blocks) = 0
    BY <1>2
  <2>2. Taken \in Nat /\ Len(blockQueue) \in Nat
    BY DEF PipelineInv, TypeOK, Taken, Base
  <2>3. Taken + Len(blockQueue) = h
    BY <1>3, <2>1, <2>2 DEF Reach
  <2> QED BY <1>1, <1>7, <1>8, <1>14, <2>3 DEF Reach
<1>16. InOrder'
  BY <1>1, <1>3, <1>4, <1>7, <1>8, <1>14, <1>15, Zenon DEF InOrder, Above, Busy
<1>17. Wants(staged.height + staged.batch, staged.batch)'
  <2>1. staged'.height = h /\ staged'.batch = b
    BY <1>8
  <2>2. ~requestsComplete' /\ requestQueue' = <<>> /\ b > 0 /\ Reach' = Least(h + b, Target)
    BY <1>1, <1>3, <1>4, <1>5, <1>15
  <2> QED BY <2>1, <2>2 DEF Wants
<1>18. /\ \A v \in Worker : job'[v].at \notin {"prepare", "send", "process"}
       /\ \A x \in posted : x.kind # "prepare" /\ x.kind # "send"
  BY <1>2, <1>9 DEF Requesting, RequestPosted
<1>19. Progress'
  BY <1>1, <1>2, <1>3, <1>8, <1>9, <1>17, <1>18 DEF Progress, At
<1> QED BY <1>1, <1>8, <1>10, <1>11, <1>12, <1>13, <1>16, <1>19 DEF PipelineInv, CheckedBySuccessor
-----------------------------------------------------------------------------
(* drain_response_blocks *)

\* A block goes from the front of the staging area to the back of the queue.
LEMMA MoveBlockStep ==
    ASSUME NEW w \in Worker
    PROVE  Keeps(MoveBlock(w))
<1> SUFFICES ASSUME PipelineInv, MoveBlock(w) PROVE PipelineInv'
  BY DEF Keeps
<1> USE DEF endVars, requestVars, chainVars
<1>1. /\ staged.active /\ staged.blocks # <<>> /\ ~stopped /\ Len(blockQueue) < QueueSize
      /\ blockQueue' = Append(blockQueue, Head(staged.blocks))
      /\ staged' = [staged EXCEPT !.blocks = Tail(@)] /\ drainer' = w
      /\ UNCHANGED <<verify, posted, job, endVars, requestVars, chainVars>>
  BY DEF MoveBlock
<1>2. /\ InOrder /\ Progress /\ staged.blocks \in Seq(Nat) /\ blockQueue \in Seq(Nat)
      /\ Taken \in Nat /\ Len(blockQueue) \in Nat
  <2>1. InOrder /\ Progress
    BY <1>1 DEF PipelineInv
  <2>2. staged.blocks \in Seq(Nat) /\ blockQueue \in Seq(Nat) /\ pending \in Nat /\ head \in Nat
    BY DEF PipelineInv, TypeOK
  <2> QED BY <2>1, <2>2 DEF Taken, Base
<1>3. /\ Head(staged.blocks) = Taken + Len(blockQueue) + 1
      /\ Len(Tail(staged.blocks)) = Len(staged.blocks) - 1 /\ Tail(staged.blocks) \in Seq(Nat)
      /\ Above(Tail(staged.blocks), Taken + Len(blockQueue) + 1)
  <2> DEFINE k == Taken + Len(blockQueue)
  <2>1. k \in Nat /\ Above(staged.blocks, k)
    BY <1>2 DEF InOrder
  <2> HIDE DEF k
  <2>2. /\ Head(staged.blocks) = k + 1
        /\ Len(Tail(staged.blocks)) = Len(staged.blocks) - 1 /\ Tail(staged.blocks) \in Seq(Nat)
        /\ Above(Tail(staged.blocks), k + 1)
    BY <1>1, <1>2, <2>1, AboveTail, Zenon
  <2> QED BY <2>2 DEF k
<1>4. /\ staged'.active /\ staged'.height = staged.height /\ staged'.batch = staged.batch
      /\ staged'.blocks = Tail(staged.blocks)
      /\ staged' \in [blocks : Seq(Nat), active : BOOLEAN, height : Nat, batch : Nat]
  BY <1>1, <1>3, Zenon DEF PipelineInv, TypeOK
<1>5. blockQueue' \in Seq(Nat) /\ Len(blockQueue') = Len(blockQueue) + 1 /\ Above(blockQueue', Taken)
  BY <1>1, <1>2, <1>3, AboveAppend DEF InOrder
<1>6. TypeOK'
  <2>1. Len(blockQueue') <= QueueSize
    BY <1>1, <1>2, <1>5, IndexerAssumption
  <2> QED BY <1>1, <1>4, <1>5, <2>1, Zenon DEF PipelineInv, TypeOK
<1>7. OneRequest' /\ OneProcess'
  BY <1>1, <1>4 DEF PipelineInv, OneRequest, RequestPosted, Requesting, OneProcess, BlockPosted, Processing
<1>8. Ended'
  <2>1. BlockPosted' = BlockPosted /\ Processing' = Processing
    BY <1>1 DEF BlockPosted, Processing
  <2> QED BY <1>1, <2>1 DEF PipelineInv, Ended
<1>9. Base' = Base /\ Busy' = Busy /\ Taken' = Taken
  BY <1>1 DEF Base, Busy, Taken
<1>10. Reach' = Reach
  <2>1. Len(staged.blocks) \in Nat
    BY <1>2
  <2>2. Reach' = Taken + (Len(blockQueue) + 1) + (Len(staged.blocks) - 1)
    BY <1>3, <1>4, <1>5, <1>9 DEF Reach
  <2>3. \A a, b, c \in Nat : a + (b + 1) + (c - 1) = a + b + c
    OBVIOUS
  <2>4. Reach = Taken + Len(blockQueue) + Len(staged.blocks)
    BY DEF Reach
  <2> QED BY <1>2, <2>1, <2>2, <2>3, <2>4, Zenon
<1>11. InOrder'
  <2>1. Above(staged.blocks, Taken + Len(blockQueue))' /\ Above(blockQueue, Taken)'
    BY <1>2, <1>3, <1>4, <1>5, <1>9 DEF Above
  <2> QED BY <1>1, <1>2, <1>4, <1>9, <1>10, <2>1 DEF InOrder, Busy
<1>12. Progress'
  <2>1. ~processingComplete /\ Wants(staged.height + staged.batch, staged.batch)
    BY <1>1, <1>2 DEF PipelineInv, OneRequest, Progress
  <2>2. Wants(staged.height + staged.batch, staged.batch)'
    BY <1>1, <1>4, <1>10, <2>1 DEF Wants
  <2>3. RequestPosted = {} /\ Requesting = {}
    BY <1>1 DEF PipelineInv, OneRequest
  <2>4. /\ \A v \in Worker : job[v].at \notin {"prepare", "send", "process"}
        /\ \A h \in posted : h.kind # "prepare" /\ h.kind # "send"
    BY <2>3 DEF Requesting, RequestPosted
  <2> QED BY <1>1, <1>2, <2>1, <2>2, <2>4 DEF Progress, At
<1> QED BY <1>1, <1>4, <1>6, <1>7, <1>8, <1>11, <1>12 DEF PipelineInv, CheckedBySuccessor

\* Whoever moves the last block of a response posts the one request that follows it.
LEMMA ResponseDrainedStep ==
    ASSUME NEW w \in Worker
    PROVE  Keeps(ResponseDrained(w))
<1> SUFFICES ASSUME PipelineInv, ResponseDrained(w) PROVE PipelineInv'
  BY DEF Keeps
<1> USE DEF endVars, requestVars, chainVars
<1> DEFINE next == IF staged.batch * 2 < MaxBatch THEN staged.batch * 2 ELSE MaxBatch
           n == [kind |-> "send", height |-> staged.height + staged.batch, batch |-> next]
<1>1. /\ job[w].at \in {"drain", "drainThenApply"}
      /\ staged.active /\ staged.blocks = <<>> /\ staged' = [staged EXCEPT !.active = FALSE]
      /\ drainer' = NoWorker /\ posted' = posted \cup (IF stopped THEN {} ELSE {n})
      /\ UNCHANGED <<verify, endVars, requestVars, blockQueue, chainVars>>
  BY DEF ResponseDrained, Draining, Post, NextRequest, Handle
<1>2. /\ job' \in [Worker -> Job] /\ \A v \in Worker \ {w} : job'[v] = job[v]
      /\ job'[w].at = (IF job[w].at = "drain" THEN "idle" ELSE "apply")
      /\ job'[w].item = job[w].item
  <2>1. job \in [Worker -> Job] /\ "apply" \in Label
    BY DEF PipelineInv, TypeOK, Label
  <2>2. CASE job[w].at = "drain"
    <3>1. job[w].item = 0
      BY <2>2 DEF PipelineInv, OneProcess
    <3> QED BY <2>1, <2>2, <3>1, FinishedJob DEF ResponseDrained, Drained, At
  <2>3. CASE job[w].at = "drainThenApply"
    BY <2>1, <2>3, GotoJob DEF ResponseDrained, Drained, At
  <2> QED BY <1>1, <2>2, <2>3
<1>3. /\ staged'.active = FALSE /\ staged'.blocks = staged.blocks
      /\ staged' \in [blocks : Seq(Nat), active : BOOLEAN, height : Nat, batch : Nat]
  BY <1>1, Zenon DEF PipelineInv, TypeOK
<1>4. (next \in Nat \ {0} /\ n \in Handler) \/ stopped
  <2>1. stopped \/ Wants(staged.height + staged.batch, staged.batch)
    BY <1>1 DEF PipelineInv, Progress
  <2>2. staged.batch \in Nat /\ staged.height \in Nat
    BY DEF PipelineInv, TypeOK
  <2>3. stopped \/ next \in Nat \ {0}
    BY <2>1, <2>2, IndexerAssumption DEF Wants
  <2> HIDE DEF next
  <2> QED BY <2>2, <2>3 DEF Handler
<1>5. TypeOK'
  <2>1. posted' \subseteq Handler
    BY <1>1, <1>4 DEF PipelineInv, TypeOK
  <2> QED BY <1>1, <1>2, <1>3, <2>1 DEF PipelineInv, TypeOK
<1>6. /\ RequestPosted = {} /\ Requesting = {} /\ ~processingComplete
      /\ Requesting' = {} /\ RequestPosted' = IF stopped THEN {} ELSE {n}
  <2>1. RequestPosted = {} /\ Requesting = {} /\ ~processingComplete
    BY <1>1 DEF PipelineInv, OneRequest
  <2>2. Requesting' = {}
    BY <1>2, <2>1 DEF Requesting
  <2>3. n.kind = "send"
    OBVIOUS
  <2> HIDE DEF n
  <2> QED BY <1>1, <2>1, <2>2, <2>3 DEF RequestPosted
<1>7. OneRequest'
  BY <1>1, <1>3, <1>6 DEF OneRequest
<1>8. BlockPosted' = BlockPosted /\ Processing' \subseteq Processing
  <2>1. n.kind = "send"
    OBVIOUS
  <2> HIDE DEF n
  <2>2. BlockPosted' = BlockPosted
    BY <1>1, <2>1 DEF BlockPosted
  <2>3. Processing' \subseteq Processing
    BY <1>1, <1>2 DEF Processing
  <2> QED BY <2>2, <2>3
<1>9. OneProcess'
  BY <1>1, <1>2, <1>8 DEF PipelineInv, OneProcess
<1>10. Ended'
  BY <1>1, <1>2, <1>8 DEF PipelineInv, Ended
<1>11. ASSUME ~stopped PROVE InOrder' /\ Progress'
  <2>1. InOrder /\ Progress /\ Wants(staged.height + staged.batch, staged.batch)
    BY <1>1, <1>11 DEF PipelineInv, Progress
  <2>2. Base' = Base /\ Busy' = Busy /\ Taken' = Taken /\ Reach' = Reach
    <3>1. Base' = Base /\ Busy' = Busy
      BY <1>1, <1>2 DEF Base, Busy
    <3>2. Taken' = Taken
      BY <3>1 DEF Taken
    <3> QED BY <1>1, <1>3, <3>1, <3>2 DEF Reach
  <2>3. InOrder'
    BY <1>1, <1>2, <1>3, <2>1, <2>2 DEF InOrder, Above, Busy
  <2>4. /\ \A v \in Worker : job'[v].at \notin {"prepare", "send", "process"}
        /\ \A h \in posted' : h.kind # "prepare" /\ (h.kind = "send" => h = n)
    <3> HIDE DEF n
    <3>1. \A h \in posted' : h.kind \in {"prepare", "send"} => h = n
      BY <1>6, <1>11 DEF RequestPosted
    <3>2. n.kind = "send"
      BY DEF n
    <3> QED BY <1>6, <3>1, <3>2 DEF Requesting
  <2>5. ASSUME NEW h \in posted', h.kind = "send" PROVE Wants(h.height, h.batch)'
    <3>1. h.height = staged.height + staged.batch /\ h.batch = next /\ next > 0
      BY <1>4, <1>11, <2>4, <2>5
    <3> HIDE DEF next
    <3> QED BY <1>1, <2>1, <2>2, <3>1 DEF Wants
  <2>6. Progress'
    <3> HIDE DEF n, next
    <3> QED BY <1>1, <1>2, <1>3, <1>6, <2>1, <2>2, <2>4, <2>5 DEF Progress, At
  <2> QED BY <2>3, <2>6
<1>12. \A h \in posted' : h.kind # "process"
  BY <1>1 DEF PipelineInv
<1> QED BY <1>1, <1>3, <1>5, <1>7, <1>9, <1>10, <1>11, <1>12 DEF PipelineInv, CheckedBySuccessor
-----------------------------------------------------------------------------
(* process_block *)

\* The block that process_block takes is the one right above what came before it.
LEMMA PullStep ==
    ASSUME NEW w \in Worker
    PROVE  Keeps(Pull(w))
<1> SUFFICES ASSUME PipelineInv, Pull(w) PROVE PipelineInv'
  BY DEF Keeps
<1> USE DEF endVars, requestVars, chainVars
<1> DEFINE item == Head(blockQueue)
<1>1. /\ job[w].at = "pull" /\ blockQueue # <<>> /\ blockQueue' = Tail(blockQueue)
      /\ job' = [job EXCEPT ![w].at = "drainThenApply", ![w].item = item]
      /\ UNCHANGED <<verify, posted, endVars, requestVars, staged, drainer, chainVars>>
  BY DEF Pull, At
<1>2. /\ job \in [Worker -> Job] /\ blockQueue \in Seq(Nat) /\ item \in Nat
      /\ Tail(blockQueue) \in Seq(Nat) /\ Len(Tail(blockQueue)) = Len(blockQueue) - 1
      /\ Len(blockQueue) \in Nat /\ Len(blockQueue) <= QueueSize
  <2>1. job \in [Worker -> Job] /\ blockQueue \in Seq(Nat) /\ Len(blockQueue) <= QueueSize
    BY Zenon DEF PipelineInv, TypeOK
  <2> QED BY <1>1, <2>1
<1>3. /\ job' \in [Worker -> Job] /\ \A v \in Worker \ {w} : job'[v] = job[v]
      /\ job'[w].at = "drainThenApply" /\ job'[w].item = item
  BY <1>1, <1>2, ZenonT(40) DEF Job, Label
<1>4. w \in Processing /\ Busy = {} /\ job[w].item = 0
  <2>1. w \in Processing /\ job[w].item = 0
    BY <1>1 DEF Processing, PipelineInv, OneProcess
  <2>2. Busy \subseteq Processing
    BY DEF Busy, Processing
  <2> QED BY <2>1, <2>2 DEF PipelineInv, OneProcess, Busy
<1>5. TypeOK'
  <2>1. Len(blockQueue') <= QueueSize /\ blockQueue' \in Seq(Nat)
    BY <1>1, <1>2, IndexerAssumption
  <2> QED BY <1>1, <1>3, <2>1, Zenon DEF PipelineInv, TypeOK
<1>6. OneRequest' /\ OneProcess'
  <2> HIDE DEF item
  <2> QED BY <1>1, <1>3, <1>4, TokensStill DEF PipelineInv
<1>7. Ended'
  BY <1>1, <1>3, <1>4, EndedStill DEF PipelineInv
<1>8. ASSUME ~stopped' PROVE InOrder' /\ Progress'
  <2>1. InOrder /\ Progress
    BY <1>1, <1>8 DEF PipelineInv
  <2>2. Base' = Base /\ Base \in Nat /\ Taken = Base
    BY <1>1, <1>4 DEF Base, PipelineInv, TypeOK, Taken
  <2>3. item = Base + 1 /\ Above(Tail(blockQueue), Base + 1)
    BY <1>1, <1>2, <2>1, <2>2, AboveTail DEF InOrder
  <2> HIDE DEF item
  <2>4. Busy' = {w} /\ Taken' = Base + 1
    <3>1. Busy' = {w}
      BY <1>3, <1>4, <2>2, <2>3 DEF Busy
    <3> QED BY <2>2, <3>1 DEF Taken
  <2>5. /\ Taken' + Len(blockQueue') = Taken + Len(blockQueue) /\ Reach' = Reach
    <3>1. Taken' + Len(blockQueue') = Taken + Len(blockQueue)
      BY <1>1, <1>2, <2>2, <2>4
    <3> QED BY <1>1, <3>1 DEF Reach
  <2>6. InOrder'
    <3>1. \A v \in Busy' : job'[v].item = Base' + 1
      BY <1>3, <2>2, <2>3, <2>4
    <3>2. Above(blockQueue, Taken)' /\ Above(staged.blocks, Taken + Len(blockQueue))'
      BY <1>1, <2>1, <2>3, <2>4, <2>5 DEF InOrder, Above
    <3> QED BY <1>1, <2>1, <2>5, <3>1, <3>2, Zenon DEF InOrder
  <2>7. Progress'
    <3>1. Fresh => Fresh'
      BY <1>1, <2>5 DEF Fresh
    <3>2. \A height, batch : /\ Wants(height, batch) => Wants(height, batch)'
                             /\ Requested(height, batch) => Requested(height, batch)'
      BY <1>1, <2>5 DEF Wants, Requested
    <3>3. (/\ \A h \in posted : h.kind = "prepare" => Fresh
           /\ \A h \in posted : h.kind = "send" => Wants(h.height, h.batch)
           /\ staged.active => Wants(staged.height + staged.batch, staged.batch)
           /\ processingComplete => Reach = Target)'
      BY <1>1, <2>1, <2>5, <3>1, <3>2 DEF Progress
    <3>4. (/\ \A v \in Worker : At(v, "prepare") => Fresh
           /\ \A v \in Worker : At(v, "send") => Wants(job[v].height, job[v].batch)
           /\ \A v \in Worker : At(v, "process") => Requested(job[v].height, job[v].batch))'
      BY <1>3, <2>1, <3>1, <3>2 DEF Progress, At
    <3>5. \A v \in Worker : job'[v].at \notin {"finish", "finishing", "completing"}
      BY <1>1, <1>3, <2>1 DEF Progress
    <3> QED BY <3>3, <3>4, <3>5 DEF Progress, At
  <2> QED BY <2>6, <2>7
<1> QED BY <1>1, <1>5, <1>6, <1>7, <1>8 DEF PipelineInv, CheckedBySuccessor

\* A process_block that is posted again takes the token back to the io_context.
LEMMA PostProcessBlock ==
    ASSUME OneRequest, OneProcess, NEW w \in Worker, w \in Processing, w \notin Requesting,
           posted' = posted \cup {ProcessBlock}, UNCHANGED <<staged, processingComplete>>,
           \A v \in Worker \ {w} : job'[v] = job[v], job'[w].at = "idle", job'[w].item = 0
    PROVE  /\ OneRequest' /\ OneProcess'
           /\ RequestPosted' = RequestPosted /\ Processing' = {} /\ Processing = {w}
<1>1. BlockPosted = {} /\ Processing = {w}
  BY DEF OneProcess
<1>2. ProcessBlock.kind = "check"
  BY DEF ProcessBlock, Handle
<1>3. BlockPosted' = {ProcessBlock} /\ RequestPosted' = RequestPosted
  BY <1>1, <1>2 DEF BlockPosted, RequestPosted
<1>4. Processing' = {} /\ Requesting' = Requesting
  BY <1>1 DEF Processing, Requesting
<1>5. OneRequest'
  BY <1>3, <1>4 DEF OneRequest
<1>6. OneProcess'
  BY <1>3, <1>4 DEF OneProcess
<1> QED BY <1>1, <1>3, <1>4, <1>5, <1>6

\* What process_block posts tells the requests nothing, and neither does the block it has
\* applied.
LEMMA PostKeepsProgress ==
    ASSUME Progress, NEW w \in Worker, Reach' = Reach, ProcessBlock.kind = "check",
           posted' = posted \cup {ProcessBlock}, UNCHANGED <<requestVars, staged, blockQueue>>,
           \A v \in Worker \ {w} : job'[v] = job[v], job'[w].at = "idle",
           head' = head \/ ((\A h \in posted : h.kind # "prepare") /\ (\A v \in Worker : ~At(v, "prepare"))),
           pending' = pending \/ \A v \in Worker : ~At(v, "completing")
    PROVE  Progress'
<1> USE DEF requestVars
<1>1. \A height, batch : /\ Wants(height, batch) => Wants(height, batch)'
                         /\ Requested(height, batch) => Requested(height, batch)'
  BY DEF Wants, Requested
<1>2. (/\ \A h \in posted : h.kind = "prepare" => Fresh
       /\ \A v \in Worker : At(v, "prepare") => Fresh)'
  <2>1. CASE head' = head
    <3>1. Fresh => Fresh'
      BY <2>1 DEF Fresh
    <3> QED BY <3>1, Zenon DEF Progress, At
  <2>2. CASE (\A h \in posted : h.kind # "prepare") /\ (\A v \in Worker : ~At(v, "prepare"))
    BY <2>2 DEF At
  <2> QED BY <2>1, <2>2
<1>3. (/\ \A h \in posted : h.kind = "send" => Wants(h.height, h.batch)
       /\ staged.active => Wants(staged.height + staged.batch, staged.batch)
       /\ processingComplete => Reach = Target)'
  BY <1>1 DEF Progress
<1>4. (/\ \A v \in Worker : At(v, "send") => Wants(job[v].height, job[v].batch)
       /\ \A v \in Worker : At(v, "process") => Requested(job[v].height, job[v].batch))'
  BY <1>1 DEF Progress, At
<1>5. (/\ \A v \in Worker :
            job[v].at \in {"finish", "finishing", "completing"} => processingComplete /\ blockQueue = <<>>
       /\ \A v \in Worker : At(v, "completing") => pending = 0)'
  BY DEF Progress, At
<1> QED BY <1>2, <1>3, <1>4, <1>5, ZenonT(30) DEF Progress

\* The queue is empty for now.
LEMMA PullEmptyStep ==
    ASSUME NEW w \in Worker
    PROVE  Keeps(PullEmpty(w))
<1> SUFFICES ASSUME PipelineInv, PullEmpty(w) PROVE PipelineInv'
  BY DEF Keeps
<1> USE DEF endVars, requestVars, responseVars, chainVars
<1>1. /\ job[w].at = "pull" /\ posted' = posted \cup (IF stopped THEN {} ELSE {ProcessBlock})
      /\ UNCHANGED <<verify, endVars, requestVars, responseVars, chainVars>>
  BY DEF PullEmpty, At, Post
<1>2. /\ job' \in [Worker -> Job] /\ \A v \in Worker \ {w} : job'[v] = job[v]
      /\ job'[w].at = "idle" /\ job'[w].item = 0
  BY FinishedJob DEF PipelineInv, TypeOK, PullEmpty
<1>3. w \in Processing /\ job[w].item = 0 /\ w \notin Requesting /\ w \notin Processing'
  BY <1>1, <1>2 DEF Processing, Requesting, PipelineInv, OneProcess
<1>4. CASE stopped
  <2>1. posted' = posted
    BY <1>1, <1>4
  <2>2. Ended'
    BY <1>1, <1>2, <1>3, <2>1, EndedStill DEF PipelineInv
  <2> QED BY <1>1, <1>2, <1>3, <1>4, <2>1, <2>2, WorkerMoves, Zenon DEF PipelineInv, TypeOK
<1>5. CASE ~stopped
  <2>1. posted' = posted \cup {ProcessBlock}
    BY <1>1, <1>5
  <2>2. ProcessBlock \in Handler /\ ProcessBlock.kind = "check"
    BY DEF ProcessBlock, Handle, Handler
  <2>3. TypeOK'
    BY <1>1, <1>2, <2>1, <2>2 DEF PipelineInv, TypeOK
  <2>4. OneRequest' /\ OneProcess' /\ Processing' = {}
    BY <1>1, <1>2, <1>3, <2>1, PostProcessBlock DEF PipelineInv
  <2>5. Ended'
    BY <1>1, <1>2, <1>3, <1>5 DEF PipelineInv, Ended
  <2>6. InOrder /\ Progress /\ InOrder' /\ Reach' = Reach
    BY <1>1, <1>2, <1>3, <1>5, BlocksStill DEF PipelineInv
  <2>7. Progress'
    BY <1>1, <1>2, <2>1, <2>2, <2>6, PostKeepsProgress
  <2> QED BY <1>1, <2>1, <2>2, <2>3, <2>4, <2>5, <2>6, <2>7 DEF PipelineInv, CheckedBySuccessor
<1> QED BY <1>4, <1>5
\* What has been staged reaches at least what has been taken.
LEMMA ReachAbove ==
    ASSUME TypeOK
    PROVE  Taken \in Nat /\ Reach \in Nat /\ Reach >= Taken
<1>1. Taken \in Nat /\ Len(blockQueue) \in Nat /\ Len(staged.blocks) \in Nat
  BY DEF TypeOK, Taken, Base
<1>2. \A a, b, c \in Nat : a + b + c \in Nat /\ a + b + c >= a
  OBVIOUS
<1> QED BY <1>1, <1>2, Zenon DEF Reach

\* The block that is being applied is the next one, and nobody has ended the job.
LEMMA ApplyNext ==
    ASSUME IInv, NEW w \in Worker, At(w, "applying")
    PROVE  /\ InOrder /\ Progress /\ ~stopped /\ promise = "unset"
           /\ Processing = {w} /\ BlockPosted = {} /\ Busy = {w}
           /\ Base \in Nat /\ head \in Nat /\ pending \in Nat
           /\ job[w].item = Base + 1 /\ Taken = Base + 1 /\ Base < Target
           /\ Base = head \/ (pending # 0 /\ Base = head + 1)
<1>1. w \in Processing /\ completion = w
  BY DEF At, Processing, IInv, PipelineInv, Ended
<1>2. ~stopped
  BY <1>1, WorkerAssumption DEF IInv, PipelineInv, Ended
<1>3. promise = "unset" /\ Processing = {w} /\ BlockPosted = {}
  BY <1>1, <1>2 DEF IInv, PipelineInv, Ended, OneProcess
<1>4. InOrder /\ Progress /\ job[w].item # 0
  BY <1>2 DEF IInv, PipelineInv, Carries, At
<1>5. Busy = {w}
  BY <1>3, <1>4 DEF Busy, Processing
<1>6. /\ head \in Nat /\ pending \in Nat /\ Base \in Nat
      /\ Base = head \/ (pending # 0 /\ Base = head + 1)
  BY <1>4 DEF IInv, PipelineInv, TypeOK, Base, InOrder
<1>7. job[w].item = Base + 1 /\ Taken = Base + 1
  BY <1>4, <1>5 DEF InOrder, Taken
<1>8. Base < Target
  <2>1. Reach >= Base + 1 /\ Reach \in Nat
    BY <1>7, ReachAbove DEF IInv, PipelineInv
  <2>2. Reach <= Target
    BY <1>4, <1>6, <2>1 DEF InOrder
  <2> QED BY <1>6, <2>1, <2>2, IndexerAssumption
<1> QED BY <1>2, <1>3, <1>4, <1>5, <1>6, <1>7, <1>8

\* Applying a block, or the one before it in fast replay, moves the head by one and leaves
\* the rest of the pipeline as it is.
LEMMA ApplyStep ==
    ASSUME IInv, NEW w \in Worker, Apply(w)
    PROVE  PipelineInv'
<1> USE DEF requestVars, responseVars
<1>1. /\ At(w, "applying") /\ completion' = NoWorker /\ posted' = posted \cup {ProcessBlock}
      /\ UNCHANGED <<verify, stopped, promise, requestVars, responseVars>>
  BY DEF Apply, Post
<1>2. /\ InOrder /\ Progress /\ ~stopped /\ promise = "unset"
      /\ Processing = {w} /\ BlockPosted = {} /\ Busy = {w}
      /\ Base \in Nat /\ head \in Nat /\ pending \in Nat
      /\ job[w].item = Base + 1 /\ Taken = Base + 1 /\ Base < Target
      /\ Base = head \/ (pending # 0 /\ Base = head + 1)
  BY <1>1, ApplyNext
<1>3. /\ job' \in [Worker -> Job] /\ \A v \in Worker \ {w} : job'[v] = job[v]
      /\ job'[w].at = "idle" /\ job'[w].item = 0
  BY FinishedJob DEF IInv, PipelineInv, TypeOK, Apply
<1>4. /\ head' \in Nat /\ pending' \in Nat /\ unchecked' = unchecked
      /\ Base' = Base + 1 /\ head' >= head
      /\ pending' # 0 => pending' = head' + 1
      /\ verify => pending' = 0
  <2>1. CASE verify
    <3>1. pending = 0 /\ pending' = pending /\ head' = Base + 1 /\ unchecked' = unchecked
      BY <1>2, <2>1 DEF Apply, InOrder
    <3> QED BY <1>2, <2>1, <3>1 DEF Base
  <2>2. CASE ~verify
    <3>1. pending' = Base + 1 /\ head' = Base
      BY <1>2, <2>2 DEF Apply, Replay, Base
    <3>2. unchecked' = unchecked
      BY <1>2, <2>2 DEF Apply, Replay, Base
    <3> QED BY <1>2, <2>2, <3>1, <3>2 DEF Base
  <2> QED BY <2>1, <2>2
<1>5. ProcessBlock \in Handler /\ ProcessBlock.kind = "check"
  BY DEF ProcessBlock, Handle, Handler
<1>6. TypeOK'
  BY <1>1, <1>3, <1>4, <1>5 DEF IInv, PipelineInv, TypeOK
<1>7. OneRequest' /\ OneProcess' /\ Processing' = {}
  <2>1. w \notin Requesting /\ w \in Processing
    BY <1>1, <1>2 DEF Requesting, At
  <2> QED BY <1>1, <1>3, <2>1, PostProcessBlock DEF IInv, PipelineInv
<1>8. Ended'
  <2>1. \A v \in Worker : job'[v].at \notin {"applying", "finishing", "completing"}
    BY <1>7 DEF Processing
  <2> QED BY <1>1, <1>2, <2>1 DEF Ended
<1>9. Busy' = {} /\ Taken' = Taken /\ Reach' = Reach
  <2>1. Busy' = {}
    BY <1>2, <1>3 DEF Busy
  <2>2. Taken' = Taken
    BY <1>2, <1>4, <2>1 DEF Taken
  <2> QED BY <1>1, <2>1, <2>2 DEF Reach
<1>10. InOrder'
  <2>1. Reach > head /\ Reach \in Nat
    <3>1. Reach \in Nat /\ Reach >= Base + 1
      BY <1>2, ReachAbove DEF IInv, PipelineInv
    <3> QED BY <1>2, <3>1
  <2> QED BY <1>1, <1>2, <1>4, <1>9, <2>1, Zenon DEF InOrder, Above
<1>11. Progress'
  <2>1. /\ \A h \in posted : h.kind # "prepare"
        /\ \A v \in Worker : ~At(v, "prepare") /\ ~At(v, "completing")
    BY <1>1, <1>2 DEF BlockPosted, Processing, At
  <2> QED BY <1>1, <1>2, <1>3, <1>5, <1>9, <2>1, PostKeepsProgress
<1> QED BY <1>1, <1>4, <1>5, <1>6, <1>7, <1>8, <1>10, <1>11 DEF IInv, PipelineInv, CheckedBySuccessor

\* When the last process_block runs, the pipeline is empty: what fast replay still holds is
\* the target.
LEMMA FinishFacts ==
    ASSUME PipelineInv, NEW w \in Worker, job[w].at \in {"finishing", "completing"}
    PROVE  /\ InOrder /\ Progress /\ ~stopped /\ promise = "unset" /\ completion = w
           /\ Processing = {w} /\ BlockPosted = {} /\ Busy = {} /\ Base = Target
           /\ head \in Nat /\ pending \in Nat /\ (pending # 0 => pending = Target /\ head + 1 = Target)
<1>1. w \in Processing /\ completion = w /\ job[w].item = 0
  BY DEF Processing, PipelineInv, Ended, OneProcess
<1>2. ~stopped
  BY <1>1, WorkerAssumption DEF PipelineInv, Ended
<1>3. promise = "unset" /\ Processing = {w} /\ BlockPosted = {}
  BY <1>1, <1>2 DEF PipelineInv, Ended, OneProcess
<1>4. InOrder /\ Progress
  BY <1>2 DEF PipelineInv
<1>5. Busy = {}
  BY <1>1, <1>3 DEF Busy, Processing
<1>6. processingComplete /\ blockQueue = <<>> /\ staged.blocks = <<>> /\ Reach = Target
  BY <1>4 DEF PipelineInv, OneRequest, Progress
<1>7. head \in Nat /\ pending \in Nat /\ Base \in Nat
  BY DEF PipelineInv, TypeOK, Base
<1>8. Base = Target
  <2>1. Len(blockQueue) = 0 /\ Len(staged.blocks) = 0 /\ Taken = Base
    BY <1>5, <1>6 DEF Taken
  <2> QED BY <1>6, <1>7, <2>1 DEF Reach
<1>9. pending # 0 => pending = Target /\ head + 1 = Target
  BY <1>4, <1>8 DEF InOrder, Base
<1> QED BY <1>1, <1>2, <1>3, <1>4, <1>5, <1>7, <1>8, <1>9

\* The only block that fast replay applies without its successor's root is the target.
LEMMA ApplyLastStep ==
    ASSUME NEW w \in Worker
    PROVE  Keeps(ApplyLast(w))
<1> SUFFICES ASSUME PipelineInv, ApplyLast(w) PROVE PipelineInv'
  BY DEF Keeps
<1> USE DEF endVars, requestVars, responseVars, chainVars
<1>1. /\ job[w].at = "finishing"
      /\ UNCHANGED <<verify, posted, endVars, requestVars, responseVars>>
  BY DEF ApplyLast, At
<1>2. /\ InOrder /\ Progress /\ ~stopped /\ promise = "unset" /\ completion = w
      /\ Processing = {w} /\ BlockPosted = {} /\ Busy = {} /\ Base = Target
      /\ head \in Nat /\ pending \in Nat /\ (pending # 0 => pending = Target /\ head + 1 = Target)
  BY <1>1, FinishFacts
<1>3. /\ job' \in [Worker -> Job] /\ \A v \in Worker \ {w} : job'[v] = job[v]
      /\ job'[w].at = "completing" /\ job'[w].item = job[w].item
  BY GotoJob DEF PipelineInv, TypeOK, ApplyLast, Label
<1>4. /\ pending' = 0 /\ head' = Base /\ head' \in Nat /\ head' >= head
      /\ unchecked' \subseteq unchecked \cup {Target}
  <2>1. CASE pending = 0
    BY <1>2, <2>1 DEF ApplyLast, Base
  <2>2. CASE pending # 0
    BY <1>2, <2>2 DEF ApplyLast, Base
  <2> QED BY <2>1, <2>2
<1>5. TypeOK'
  BY <1>1, <1>3, <1>4, IndexerAssumption DEF PipelineInv, TypeOK
<1>6. job[w].item = 0 /\ w \in Processing
  BY <1>2 DEF Busy
<1>7. OneRequest' /\ OneProcess'
  BY <1>1, <1>3, <1>6, TokensStill DEF PipelineInv
<1>8. Ended'
  BY <1>1, <1>2, <1>3, <1>6, EndedStill DEF PipelineInv
<1>9. Base' = Base /\ Busy' = Busy /\ Taken' = Taken /\ Reach' = Reach
  <2>1. Base' = Base /\ Busy' = Busy
    BY <1>3, <1>4, <1>6 DEF Base, Busy
  <2>2. Taken' = Taken
    BY <2>1 DEF Taken
  <2> QED BY <1>1, <2>1, <2>2 DEF Reach
<1>10. InOrder'
  <2>1. processingComplete /\ blockQueue = <<>>
    BY <1>1, <1>2, Zenon DEF Progress
  <2>2. Reach = Target
    BY <1>2, <2>1, Zenon DEF Progress
  <2>3. Reach' <= Target
    BY <1>9, <2>2, IndexerAssumption
  <2>4. Above(blockQueue, Taken)' /\ Above(staged.blocks, Taken + Len(blockQueue))'
    BY <1>1, <1>2, <1>9 DEF InOrder, Above
  <2>5. /\ pending' # 0 => pending' = head' + 1
        /\ verify' => pending' = 0
        /\ \A v \in Busy' : job'[v].item = Base' + 1
    BY <1>2, <1>4, <1>9
  <2>6. ~staged'.active => staged'.blocks = <<>>
    BY <1>1, <1>2 DEF InOrder
  <2> QED BY <2>3, <2>4, <2>5, <2>6, Zenon DEF InOrder
<1>11. Progress'
  <2>1. /\ \A h \in posted : h.kind # "prepare"
        /\ \A v \in Worker : ~At(v, "prepare")
    BY <1>1, <1>2 DEF BlockPosted, Processing, At
  <2>2. \A height, batch : /\ Wants(height, batch) => Wants(height, batch)'
                           /\ Requested(height, batch) => Requested(height, batch)'
    BY <1>1, <1>9 DEF Wants, Requested
  <2>3. (/\ \A h \in posted : h.kind = "prepare" => Fresh
         /\ \A h \in posted : h.kind = "send" => Wants(h.height, h.batch)
         /\ staged.active => Wants(staged.height + staged.batch, staged.batch)
         /\ processingComplete => Reach = Target)'
    BY <1>1, <1>2, <1>9, <2>1, <2>2 DEF Progress
  <2>4. (/\ \A v \in Worker : At(v, "prepare") => Fresh
         /\ \A v \in Worker : At(v, "send") => Wants(job[v].height, job[v].batch)
         /\ \A v \in Worker : At(v, "process") => Requested(job[v].height, job[v].batch))'
    BY <1>2, <1>3, <2>1, <2>2, Zenon DEF Progress, At
  <2>5. (/\ \A v \in Worker :
              job[v].at \in {"finish", "finishing", "completing"} => processingComplete /\ blockQueue = <<>>
         /\ \A v \in Worker : At(v, "completing") => pending = 0)'
    BY <1>1, <1>2, <1>3, <1>4, Zenon DEF Progress, At
  <2> QED BY <2>3, <2>4, <2>5 DEF Progress
<1> QED BY <1>1, <1>4, <1>5, <1>7, <1>8, <1>10, <1>11 DEF PipelineInv, CheckedBySuccessor
-----------------------------------------------------------------------------
(* The inductive invariant *)

\* index() starts with one posted handler, which is both tokens.
LEMMA InitInv == Init => IInv
<1> SUFFICES ASSUME Init PROVE IInv
  OBVIOUS
<1> DEFINE first == Handle("prepare", 0, 0)
<1>1. first \in Handler /\ first.kind = "prepare" /\ posted = {first}
  BY DEF Handle, Handler, Init
<1> HIDE DEF first
<1>2. job \in [Worker -> Job] /\ \A w \in Worker : job[w].at \in {"idle", "absent"} /\ job[w].item = 0
  <2>1. PICK present \in SUBSET Worker :
           job = [w \in Worker |-> IF w \in present THEN Idle ELSE [Idle EXCEPT !.at = "absent"]]
    BY Zenon DEF Init
  <2> QED BY <2>1 DEF Idle, Job, Label
<1>3. /\ staged.blocks = <<>> /\ ~staged.active /\ blockQueue = <<>> /\ pending = 0 /\ head \in Nat
      /\ ~stopped /\ promise = "unset" /\ completion = NoWorker
      /\ requestQueue = <<>> /\ ~requestsComplete /\ ~processingComplete /\ unchecked = {}
      /\ staged \in [blocks : Seq(Nat), active : BOOLEAN, height : Nat, batch : Nat]
  BY IndexerAssumption DEF Init
<1>4. TypeOK
  <2>1. /\ verify \in BOOLEAN /\ stopped \in BOOLEAN /\ drainer = NoWorker
        /\ requestsComplete \in BOOLEAN /\ processingComplete \in BOOLEAN
    BY Zenon DEF Init
  <2>2. Len(blockQueue) <= QueueSize
    BY <1>3, IndexerAssumption
  <2> QED BY <1>1, <1>2, <1>3, <2>1, <2>2 DEF TypeOK
<1>5. Requesting = {} /\ Processing = {} /\ RequestPosted = {first} /\ BlockPosted = {first}
  BY <1>1, <1>2 DEF Requesting, Processing, RequestPosted, BlockPosted
<1>6. OneRequest /\ OneProcess /\ Ended
  BY <1>2, <1>3, <1>5 DEF OneRequest, OneProcess, Ended
<1>7. Busy = {} /\ Base = head /\ Taken = head /\ Reach = head
  <2>1. Busy = {} /\ Base = head
    BY <1>2, <1>3 DEF Busy, Base
  <2>2. Taken = head /\ Len(blockQueue) = 0 /\ Len(staged.blocks) = 0
    BY <1>3, <2>1 DEF Taken
  <2> QED BY <1>3, <2>1, <2>2 DEF Reach
<1>8. InOrder
  BY <1>3, <1>7 DEF InOrder, Above
<1>9. Progress
  BY <1>1, <1>2, <1>3, <1>7 DEF Progress, Fresh, At
<1> QED BY <1>1, <1>2, <1>3, <1>4, <1>6, <1>8, <1>9 DEF IInv, PipelineInv, Carries, CheckedBySuccessor

\* A worker gets to the controller only with the block it pulled.
LEMMA CarriesStep ==
    ASSUME IInv, Next
    PROVE  Carries'
<1> SUFFICES ASSUME ~stopped', NEW v \in Worker,
                    job'[v].at \in {"drainThenApply", "apply", "applying"}
             PROVE  job'[v].item # 0
  BY DEF Carries
<1>1. job \in [Worker -> Job] /\ \A h \in posted : h.kind \in {"prepare", "send", "process", "check"}
  BY DEF IInv, PipelineInv, TypeOK, Handler
<1>2. ~stopped => (job[v].at \in {"drainThenApply", "apply", "applying"} => job[v].item # 0)
  BY DEF IInv, Carries
<1>3. ASSUME NEW w \in Worker, Step(w) PROVE job'[v].item # 0
  <2>1. CASE Run(w)
    <3>1. PICK h \in posted :
             job' = [job EXCEPT ![w] = [Idle EXCEPT !.at = h.kind, !.height = h.height,
                                                    !.batch = h.batch]]
      BY <2>1, Zenon DEF Run
    <3>2. v # w
      BY <1>1, <3>1 DEF Idle
    <3> QED BY <1>1, <1>2, <2>1, <3>1, <3>2 DEF Run, endVars
  <2>2. ASSUME Finished(w), stopped' = stopped PROVE job'[v].item # 0
    <3>1. v # w
      BY <1>1, <2>2, FinishedJob
    <3> QED BY <1>1, <1>2, <2>2, <3>1, FinishedJob
  <2>3. ASSUME NEW label \in Label \ {"drainThenApply", "apply", "applying"}, Goto(w, label), stopped' = stopped
        PROVE  job'[v].item # 0
    <3>1. v # w
      BY <1>1, <2>3, GotoJob
    <3> QED BY <1>1, <1>2, <2>3, <3>1, GotoJob
  <2>4. ASSUME NEW label \in Label, Goto(w, label), job[w].at \in {"drainThenApply", "apply"}, stopped' = stopped
        PROVE  job'[v].item # 0
    BY <1>1, <1>2, <2>4, GotoJob
  <2> USE DEF endVars
  <2>5. CASE Fails(w) \/ Process(w) \/ ApplyLast(w) \/ ApplyFails(w) \/ Send(w)
    <3>1. "error" \in Label \ {"drainThenApply", "apply", "applying"}
          /\ "drain" \in Label \ {"drainThenApply", "apply", "applying"}
          /\ "completing" \in Label \ {"drainThenApply", "apply", "applying"}
          /\ "process" \in Label \ {"drainThenApply", "apply", "applying"}
      BY DEF Label
    <3> QED BY <2>3, <2>5, <3>1 DEF Fails, Process, ApplyLast, ApplyFails, Send
  <2>6. CASE ReturnStopped(w) \/ Prepare(w) \/ RequestsDone(w) \/ PullEmpty(w) \/ Apply(w) \/ Complete(w)
    BY <2>2, <2>6, Zenon DEF ReturnStopped, Prepare, RequestsDone, PullEmpty, Apply, Complete
  <2>7. CASE LeaveBlocks(w) \/ ResponseDrained(w)
    <3>1. "apply" \in Label /\ stopped' = stopped
      BY <2>7 DEF Label, LeaveBlocks, ResponseDrained
    <3>2. CASE At(w, "drain")
      BY <2>2, <2>7, <3>1, <3>2 DEF LeaveBlocks, ResponseDrained, Drained
    <3>3. CASE ~At(w, "drain")
      BY <2>4, <2>7, <3>1, <3>3 DEF LeaveBlocks, ResponseDrained, Drained, Draining, At
    <3> QED BY <3>2, <3>3
  <2>8. CASE MoveBlock(w)
    BY <1>2, <2>8 DEF MoveBlock
  <2>9. CASE Check(w)
    <3>1. "finish" \in Label \ {"drainThenApply", "apply", "applying"}
          /\ "pull" \in Label \ {"drainThenApply", "apply", "applying"}
      BY DEF Label
    <3> QED BY <2>3, <2>9, <3>1 DEF Check
  <2>10. CASE Pull(w)
    <3>1. v # w => job'[v] = job[v] /\ stopped' = stopped
      BY <1>1, <2>10 DEF Pull
    <3>2. job'[w].item = Head(blockQueue)
      BY <1>1, <2>10 DEF Pull, Job
    <3>3. Head(blockQueue) # 0
      <4>1. ~stopped /\ blockQueue # <<>>
        BY <2>10 DEF Pull
      <4>2. Above(blockQueue, Taken) /\ Taken \in Nat /\ blockQueue \in Seq(Nat)
        BY <4>1, ReachAbove DEF IInv, PipelineInv, InOrder, TypeOK
      <4> QED BY <4>1, <4>2, AboveTail
    <3> QED BY <1>2, <2>10, <3>1, <3>2, <3>3, Zenon DEF Pull
  <2>11. CASE Lock(w)
    <3>1. stopped' = stopped /\ ~stopped
      BY <2>11 DEF Lock
    <3>2. "applying" \in Label /\ "finishing" \in Label \ {"drainThenApply", "apply", "applying"}
      BY DEF Label
    <3>3. CASE At(w, "apply")
      BY <2>4, <2>11, <3>1, <3>2, <3>3 DEF Lock, At
    <3>4. CASE ~At(w, "apply")
      BY <2>3, <2>11, <3>1, <3>2, <3>4 DEF Lock
    <3> QED BY <3>3, <3>4, ZenonT(30)
  <2>12. CASE HandleError(w)
    BY <2>12 DEF HandleError, End
  <2> QED BY <1>3, <2>1, <2>5, <2>6, <2>7, <2>8, <2>9, <2>10, <2>11, <2>12, Zenon DEF Step
<1>4. CASE Stop
  BY <1>4 DEF Stop, End
<1>5. CASE Quiet
  BY <1>2, <1>5 DEF Quiet, vars
<1> QED BY <1>3, <1>4, <1>5 DEF Next

\* Every handler keeps the invariant, whichever worker runs it.
LEMMA StepInv == IInv /\ [Next]_vars => IInv'
<1> SUFFICES ASSUME IInv, [Next]_vars PROVE IInv'
  OBVIOUS
<1>1. PipelineInv
  BY DEF IInv
<1>2. ASSUME NEW w \in Worker, Step(w) PROVE PipelineInv'
  BY <1>1, <1>2, RunStep, ReturnStoppedStep, FailsStep, PrepareStep, SendStep, RequestsDoneStep,
     ProcessStep, MoveBlockStep, LeaveBlocksStep, ResponseDrainedStep, CheckStep, PullStep,
     PullEmptyStep, LockStep, ApplyStep, ApplyLastStep, ApplyFailsStep, CompleteStep,
     HandleErrorStep DEF Keeps, Step
<1>3. CASE Stop
  BY <1>1, <1>3, StopStep, CarriesStep DEF Keeps, IInv, Next
<1>4. CASE UNCHANGED vars
  <2>1. /\ Base' = Base /\ Busy' = Busy /\ Taken' = Taken /\ Reach' = Reach
        /\ RequestPosted' = RequestPosted /\ Requesting' = Requesting
        /\ BlockPosted' = BlockPosted /\ Processing' = Processing
    BY <1>4 DEF vars, Base, Busy, Taken, Reach, RequestPosted, Requesting, BlockPosted, Processing
  <2>2. TypeOK' /\ OneRequest' /\ OneProcess' /\ Ended' /\ Carries' /\ CheckedBySuccessor'
    BY <1>1, <1>4, <2>1, ZenonT(40) DEF vars, IInv, PipelineInv, TypeOK, OneRequest, OneProcess, Ended, Carries,
                            CheckedBySuccessor
  <2>3. (InOrder => InOrder') /\ (Progress => Progress')
    BY <1>4, <2>1, Zenon DEF vars, InOrder, Above, Progress, Fresh, Wants, Requested, At
  <2> QED BY <1>1, <1>4, <2>2, <2>3, Zenon DEF vars, IInv, PipelineInv
<1>5. CASE Quiet
  BY <1>4, <1>5 DEF Quiet
<1> QED BY <1>2, <1>3, <1>4, <1>5, CarriesStep DEF IInv, Next

\* The invariant holds throughout.
LEMMA Invariance == Spec => []IInv
  BY InitInv, StepInv, PTL DEF Spec
-----------------------------------------------------------------------------
(* The properties *)

\* What is between the responses and the controller is the run of heights right above the
\* head, and a response is only staged when the one before has been drained.
THEOREM NothingIsLost == Spec => []NothingLost
<1>1. IInv => NothingLost
  <2> SUFFICES ASSUME IInv PROVE NothingLost
    OBVIOUS
  <2>1. TypeOK
    BY DEF IInv, PipelineInv
  <2>2. ASSUME ~stopped PROVE \A i \in 1..Len(InFlight) : InFlight[i] = head + i
    <3>1. InOrder
      BY <2>2 DEF IInv, PipelineInv
    <3> DEFINE p == IF pending = 0 THEN <<>> ELSE <<pending>>
    <3>2. p \in Seq(Nat) /\ Above(p, head) /\ head + Len(p) = Base /\ head \in Nat /\ Base \in Nat
      <4>1. head \in Nat /\ pending \in Nat
        BY <2>1 DEF TypeOK
      <4>2. CASE pending = 0
        BY <4>1, <4>2 DEF Above, Base
      <4>3. CASE pending # 0
        BY <3>1, <4>1, <4>3 DEF Above, Base, InOrder
      <4> QED BY <4>2, <4>3
    <3>3. Items \in Seq(Nat) /\ Above(Items, Base) /\ Base + Len(Items) = Taken
      <4>1. Items = IF Busy = {} THEN <<>> ELSE <<job[CHOOSE w \in Busy : TRUE].item>>
        BY DEF Items, Busy
      <4>2. CASE Busy = {}
        BY <3>2, <4>1, <4>2 DEF Above, Taken
      <4>3. CASE Busy # {}
        <5>1. PICK w : w = CHOOSE x \in Busy : TRUE
          OBVIOUS
        <5>2. w \in Busy
          BY <4>3, <5>1
        <5>3. job[w].item = Base + 1
          BY <3>1, <5>2 DEF InOrder
        <5>4. Items = <<Base + 1>> /\ Taken = Base + 1
          BY <4>1, <4>3, <5>1, <5>3 DEF Taken
        <5> QED BY <3>2, <5>4 DEF Above
      <4> QED BY <4>2, <4>3
    <3> HIDE DEF p
    <3>4. blockQueue \in Seq(Nat) /\ Above(blockQueue, Taken) /\ Taken \in Nat
      BY <2>1, <3>1, ReachAbove DEF TypeOK, InOrder
    <3>5. staged.blocks \in Seq(Nat) /\ Above(staged.blocks, Taken + Len(blockQueue))
      BY <2>1, <3>1 DEF TypeOK, InOrder
    <3> DEFINE q == p \o Items
               r == q \o blockQueue
    <3>6. q \in Seq(Nat) /\ Above(q, head) /\ head + Len(q) = Taken
      <4>1. q \in Seq(Nat) /\ Len(q) = Len(p) + Len(Items) /\ Above(q, head)
        BY <3>2, <3>3, AboveConcat
      <4>2. Len(p) \in Nat /\ Len(Items) \in Nat
        BY <3>2, <3>3
      <4>3. /\ head \in Nat /\ head + Len(p) = Base /\ Base + Len(Items) = Taken
            /\ Len(q) = Len(p) + Len(Items)
        BY <3>2, <3>3, <4>1
      <4> HIDE DEF q
      <4>4. head + Len(q) = Taken
        BY <4>2, <4>3
      <4> QED BY <4>1, <4>4
    <3> HIDE DEF q
    <3>7. r \in Seq(Nat) /\ Above(r, head) /\ head + Len(r) = Taken + Len(blockQueue)
      <4>1. r \in Seq(Nat) /\ Len(r) = Len(q) + Len(blockQueue) /\ Above(r, head)
        BY <3>2, <3>4, <3>6, AboveConcat
      <4>2. Len(q) \in Nat /\ Len(blockQueue) \in Nat
        BY <3>4, <3>6
      <4>3. head \in Nat /\ head + Len(q) = Taken /\ Len(r) = Len(q) + Len(blockQueue)
        BY <3>2, <3>6, <4>1
      <4> HIDE DEF r
      <4>4. head + Len(r) = Taken + Len(blockQueue)
        BY <4>2, <4>3
      <4> QED BY <4>1, <4>4
    <3> HIDE DEF r
    <3>8. Above(r \o staged.blocks, head)
      BY <3>2, <3>5, <3>7, AboveConcat
    <3>9. InFlight = r \o staged.blocks
      BY DEF InFlight, r, q, p
    <3> QED BY <3>8, <3>9 DEF Above
  <2>3. ASSUME NEW w \in Worker, At(w, "process")
        PROVE  ~staged.active /\ staged.blocks = <<>>
    <3>1. w \in Requesting
      BY <2>3 DEF Requesting, At
    <3> QED BY <3>1 DEF IInv, PipelineInv, OneRequest
  <2> QED BY <2>1, <2>2, <2>3 DEF NothingLost
<1> QED BY <1>1, Invariance, PTL

\* Fast replay applies every block but the target against the root its successor's header gives.
THEOREM SuccessorChecks == Spec => []CheckedBySuccessor
<1>1. IInv => CheckedBySuccessor
  BY DEF IInv, PipelineInv
<1> QED BY <1>1, Invariance, PTL

-----------------------------------------------------------------------------
(* The pipeline implements IndexJob, but for its liveness *)

\* A step of the pipeline is a step of the job or none: the head moves by one, towards the
\* target and before an outcome, and there is one outcome, true only at the target.
LEMMA JobStep ==
    ASSUME IInv, [Next]_vars
    PROVE  [Promised!Next]_(Promised!jobVars)
<1> USE DEF Promised!Next, Promised!jobVars, Promised!Advance, Promised!Succeed, Promised!Cancel
<1>0. head \in Nat /\ Target \in Nat
  BY IndexerAssumption DEF IInv, PipelineInv, TypeOK
<1>1. ASSUME UNCHANGED <<head, promise>> PROVE [Promised!Next]_(Promised!jobVars)
  BY <1>1
<1>2. ASSUME NEW w \in Worker, Prepare(w) PROVE [Promised!Next]_(Promised!jobVars)
  <2>1. head' = head
    BY <1>2 DEF Prepare, chainVars
  <2> QED BY <1>0, <1>2, <2>1 DEF Prepare
<1>3. ASSUME NEW w \in Worker, Apply(w) PROVE [Promised!Next]_(Promised!jobVars)
  <2>1. /\ promise = "unset" /\ promise' = promise /\ InOrder
        /\ Base \in Nat /\ pending \in Nat /\ job[w].item = Base + 1 /\ Base < Target
        /\ Base = head \/ (pending # 0 /\ Base = head + 1)
    BY <1>3, ApplyNext DEF Apply
  <2>2. CASE verify
    <3>1. Base = head /\ head' = Base + 1
      BY <1>3, <2>1, <2>2 DEF Apply, InOrder
    <3> QED BY <1>0, <2>1, <3>1
  <2>3. CASE ~verify
    <3>1. head' = Base
      BY <1>3, <2>3 DEF Apply, Replay, Base
    <3> QED BY <1>0, <2>1, <3>1
  <2> QED BY <2>2, <2>3
<1>4. ASSUME NEW w \in Worker, ApplyLast(w) PROVE [Promised!Next]_(Promised!jobVars)
  <2>1. /\ promise = "unset" /\ promise' = promise
        /\ pending # 0 => pending = Target /\ head + 1 = Target
    BY <1>4, FinishFacts DEF ApplyLast, At, IInv, endVars
  <2>2. head' = IF pending = 0 THEN head ELSE pending
    BY <1>4 DEF ApplyLast, chainVars
  <2>3. CASE pending = 0
    BY <2>1, <2>2, <2>3
  <2>4. CASE pending # 0
    <3>1. head < Target /\ head' = head + 1
      BY <1>0, <2>1, <2>2, <2>4
    <3> QED BY <2>1, <3>1
  <2> QED BY <2>3, <2>4
<1>5. ASSUME NEW w \in Worker, Complete(w) PROVE [Promised!Next]_(Promised!jobVars)
  <2>1. promise = "unset" /\ Base = Target /\ pending = 0
    BY <1>5, FinishFacts, Zenon DEF Complete, At, IInv, PipelineInv, Progress
  <2>2. head = Target /\ promise' = "true" /\ head' = head
    BY <1>5, <2>1 DEF Complete, Base, chainVars
  <2> QED BY <1>0, <2>1, <2>2
<1>6. ASSUME NEW w \in Worker, HandleError(w) PROVE [Promised!Next]_(Promised!jobVars)
  BY <1>6 DEF HandleError, End, chainVars
<1>7. CASE Stop
  BY <1>7 DEF Stop, End, chainVars
<1>8. ASSUME NEW w \in Worker, Step(w), ~Prepare(w), ~Apply(w), ~ApplyLast(w), ~Complete(w), ~HandleError(w)
      PROVE  UNCHANGED <<head, promise>>
  BY <1>8, Zenon DEF Step, Run, ReturnStopped, Fails, Send, RequestsDone, Process, MoveBlock, LeaveBlocks,
              ResponseDrained, Check, Pull, PullEmpty, Lock, ApplyFails, endVars, chainVars
<1>9. CASE UNCHANGED vars
  BY <1>1, <1>9 DEF vars
<1>10. CASE Quiet
  BY <1>9, <1>10 DEF Quiet
<1> QED BY <1>1, <1>2, <1>3, <1>4, <1>5, <1>6, <1>7, <1>8, <1>9, <1>10 DEF Next

\* The pipeline applies the blocks one after the other, sets one outcome, true only once the
\* target is reached, and applies nothing after it, for any number of workers.
THEOREM ImplementsJobSafety == Spec => Promised!Safety
<1>1. Init => Promised!Init
  BY IndexerAssumption DEF Init, Promised!Init
<1>2. IInv /\ [Next]_vars => [Promised!Next]_(Promised!jobVars)
  BY JobStep
<1> QED BY <1>1, <1>2, Invariance, PTL DEF Spec, Promised!Safety
=============================================================================
