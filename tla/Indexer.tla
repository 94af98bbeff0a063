------------------------------ MODULE Indexer ------------------------------
(***************************************************************************)
(* indexer (chain/indexer.cpp): at startup the blocks that the block store *)
(* holds above the chain's head are requested in growing batches, staged,  *)
(* moved into a bounded queue, and applied.  Handlers are posted to an     *)
(* io_context and run by its workers, one or several; a signal may stop    *)
(* the indexer at any point, and any call may fail.                        *)
(*                                                                         *)
(* A block is its height.  The block store is external: it returns the     *)
(* blocks asked for, or fails.  The controller applies a block or throws.  *)
(***************************************************************************)
EXTENDS Integers, Sequences

CONSTANTS
    Worker,      \* threads that may run the io_context
    Target,      \* height of the block store's highest block
    QueueSize,   \* block_queue_size
    FirstBatch,  \* batch size of the first request
    MaxBatch     \* limit of the batch size

ASSUME IndexerAssumption ==
    Target \in Nat /\ {QueueSize, FirstBatch, MaxBatch} \subseteq Nat \ {0}

VARIABLES
    verify,        \* _verify_blocks
    posted,        \* handlers that are posted and not yet running
    job,           \* of each worker: the handler it runs and where it is
    stopped,       \* _stopped; the queues are closed with it
    promise,       \* _complete
    completion,    \* the worker that owns _completion_mutex
    requestQueue,  \* _request_queue: the heights of each request
    requestsComplete, processingComplete,
    staged,        \* _response_blocks, _response_active, _height and _batch_size
    drainer,       \* the worker that owns _response_mutex while it drains
    blockQueue,    \* _block_queue
    pending,       \* _pending_item, 0 for none
    head,          \* height of the controller's head block
    unchecked      \* heights applied without their successor's state root

vars == <<verify, posted, job, stopped, promise, completion, requestQueue,
          requestsComplete, processingComplete, staged, drainer, blockQueue,
          pending, head, unchecked>>

NoWorker == "none"

ASSUME WorkerAssumption == NoWorker \notin Worker

Label == {"absent", "idle", "prepare", "send", "process", "drain", "check", "pull",
          "drainThenApply", "apply", "applying", "finish", "finishing", "completing",
          "error"}

Handler == [kind : {"prepare", "send", "process", "check"}, height : Nat, batch : Nat]
Job == [at : Label, height : Nat, batch : Nat, item : Nat]

Handle(kind, height, batch) == [kind |-> kind, height |-> height, batch |-> batch]
ProcessBlock == Handle("check", 0, 0)
Idle == [at |-> "idle", height |-> 0, batch |-> 0, item |-> 0]

At(w, label) == job[w].at = label
Goto(w, label) == job' = [job EXCEPT ![w].at = label]
Finished(w) == job' = [job EXCEPT ![w] = Idle]
Post(handlers) == posted' = posted \cup handlers

requestVars == <<requestQueue, requestsComplete, processingComplete>>
responseVars == <<staged, drainer, blockQueue>>
chainVars == <<pending, head, unchecked>>
endVars == <<stopped, promise, completion>>

-----------------------------------------------------------------------------

\* index() has posted prepare_index; an io_context has at least one worker.
Init ==
    /\ verify \in BOOLEAN
    /\ posted = {Handle("prepare", 0, 0)}
    /\ \E present \in SUBSET Worker \ {{}} :
        job = [w \in Worker |-> IF w \in present THEN Idle ELSE [Idle EXCEPT !.at = "absent"]]
    /\ stopped = FALSE /\ promise = "unset" /\ completion = NoWorker
    /\ requestQueue = <<>> /\ requestsComplete = FALSE /\ processingComplete = FALSE
    /\ staged = [blocks |-> <<>>, active |-> FALSE, height |-> 0, batch |-> 0]
    /\ drainer = NoWorker /\ blockQueue = <<>>
    /\ pending = 0 /\ head \in 0..(Target + 1) /\ unchecked = {}

\* The io_context hands a posted handler to an idle worker.
Run(w) ==
    /\ At(w, "idle")
    /\ \E h \in posted :
        /\ posted' = posted \ {h}
        /\ job' = [job EXCEPT ![w] = [Idle EXCEPT !.at = h.kind, !.height = h.height,
                                                  !.batch = h.batch]]
    /\ UNCHANGED <<verify, endVars, requestVars, responseVars, chainVars>>

\* The handlers that return at once when the indexer is stopped.
ReturnStopped(w) ==
    /\ stopped
    /\ job[w].at \in {"prepare", "send", "process", "check"}
    /\ Finished(w)
    /\ UNCHANGED <<verify, posted, endVars, requestVars, responseVars, chainVars>>

\* A call of the handler threw, or a response was an error.
Fails(w) ==
    /\ ~stopped
    /\ job[w].at \in {"prepare", "send", "process"}
    /\ Goto(w, "error")
    /\ UNCHANGED <<verify, posted, endVars, requestVars, responseVars, chainVars>>

\* prepare_index
Prepare(w) ==
    /\ At(w, "prepare") /\ ~stopped
    /\ \/ /\ head < Target
          /\ Post({Handle("send", head, FirstBatch), ProcessBlock})
          /\ UNCHANGED promise
       \/ /\ head >= Target /\ completion = NoWorker
          /\ promise' = IF promise = "unset" THEN "true" ELSE promise
          /\ UNCHANGED posted
    /\ Finished(w)
    /\ UNCHANGED <<verify, stopped, completion, requestVars, responseVars, chainVars>>

\* send_requests; process_requests is dispatched and runs on the same worker.
Send(w) ==
    LET last == job[w].height IN
    /\ At(w, "send") /\ ~stopped
    /\ IF last < Target
       THEN /\ requestQueue' =
                 Append(requestQueue, [from |-> last + 1,
                                       to   |-> last + (IF job[w].batch < Target - last
                                                        THEN job[w].batch ELSE Target - last)])
            /\ UNCHANGED requestsComplete
       ELSE requestsComplete' = TRUE /\ UNCHANGED requestQueue
    /\ Goto(w, "process")
    /\ UNCHANGED <<verify, posted, endVars, processingComplete, responseVars, chainVars>>

\* process_requests, when every request has been answered.
RequestsDone(w) ==
    /\ At(w, "process") /\ ~stopped
    /\ requestsComplete /\ requestQueue = <<>>
    /\ processingComplete' = TRUE
    /\ Finished(w)
    /\ UNCHANGED <<verify, posted, endVars, requestQueue, requestsComplete, responseVars,
                   chainVars>>

\* process_requests: the next response is staged.
Process(w) ==
    LET r == Head(requestQueue) IN
    /\ At(w, "process") /\ ~stopped
    /\ requestQueue # <<>>
    /\ drainer = NoWorker
    /\ requestQueue' = Tail(requestQueue)
    /\ IF staged.active \/ staged.blocks # <<>>
       THEN Goto(w, "error") /\ UNCHANGED staged
       ELSE /\ staged' = [blocks |-> [i \in 1..(r.to - r.from + 1) |-> r.from + i - 1],
                          active |-> TRUE, height |-> job[w].height, batch |-> job[w].batch]
            /\ Goto(w, "drain")
    /\ UNCHANGED <<verify, posted, endVars, requestsComplete, processingComplete, drainer,
                   blockQueue, chainVars>>

-----------------------------------------------------------------------------
(* drain_response_blocks, at the end of process_requests or in process_block *)

Draining(w) == job[w].at \in {"drain", "drainThenApply"} /\ drainer \in {NoWorker, w}

Drained(w) == IF At(w, "drain") THEN Finished(w) ELSE Goto(w, "apply")

\* One turn of the loop.
MoveBlock(w) ==
    /\ Draining(w) /\ staged.active /\ staged.blocks # <<>> /\ ~stopped
    /\ Len(blockQueue) < QueueSize
    /\ blockQueue' = Append(blockQueue, Head(staged.blocks))
    /\ staged' = [staged EXCEPT !.blocks = Tail(@)]
    /\ drainer' = w
    /\ UNCHANGED <<verify, posted, job, endVars, requestVars, chainVars>>

\* There is nothing to drain, or the queue is full or closed.
LeaveBlocks(w) ==
    /\ Draining(w)
    /\ \/ ~staged.active
       \/ staged.blocks # <<>> /\ (stopped \/ Len(blockQueue) >= QueueSize)
    /\ drainer' = NoWorker
    /\ Drained(w)
    /\ UNCHANGED <<verify, posted, endVars, requestVars, staged, blockQueue, chainVars>>

NextRequest ==
    Handle("send", staged.height + staged.batch,
           IF staged.batch * 2 < MaxBatch THEN staged.batch * 2 ELSE MaxBatch)

\* Mutant: the next request does not wait for the response to be drained in full.
ResponseDrainedEarly(w) ==
    /\ Draining(w) /\ staged.active
    /\ staged.blocks = <<>> \/ Len(blockQueue) >= QueueSize
    /\ staged' = [staged EXCEPT !.active = FALSE]
    /\ drainer' = NoWorker
    /\ Post(IF stopped THEN {} ELSE {NextRequest})
    /\ Drained(w)
    /\ UNCHANGED <<verify, endVars, requestVars, blockQueue, chainVars>>

\* The response has been moved in full: the next request is posted.
ResponseDrained(w) ==
    /\ Draining(w) /\ staged.active /\ staged.blocks = <<>>
    /\ staged' = [staged EXCEPT !.active = FALSE]
    /\ drainer' = NoWorker
    /\ Post(IF stopped THEN {} ELSE {NextRequest})
    /\ Drained(w)
    /\ UNCHANGED <<verify, endVars, requestVars, blockQueue, chainVars>>

-----------------------------------------------------------------------------
(* process_block *)

Check(w) ==
    /\ At(w, "check") /\ ~stopped
    /\ Goto(w, IF processingComplete /\ blockQueue = <<>> THEN "finish" ELSE "pull")
    /\ UNCHANGED <<verify, posted, endVars, requestVars, responseVars, chainVars>>

Pull(w) ==
    /\ At(w, "pull")
    /\ blockQueue # <<>>
    /\ job' = [job EXCEPT ![w].at = "drainThenApply", ![w].item = Head(blockQueue)]
    /\ blockQueue' = Tail(blockQueue)
    /\ UNCHANGED <<verify, posted, endVars, requestVars, staged, drainer, chainVars>>

\* The queue is empty: process_block runs again after the retry timer, unless the
\* queue is closed.
PullEmpty(w) ==
    /\ At(w, "pull")
    /\ blockQueue = <<>>
    /\ Post(IF stopped THEN {} ELSE {ProcessBlock})
    /\ Finished(w)
    /\ UNCHANGED <<verify, endVars, requestVars, responseVars, chainVars>>

\* Mutant: cancellation is not looked at again.
LockRegardless(w) ==
    /\ job[w].at \in {"apply", "finish"}
    /\ completion = NoWorker
    /\ completion' = w /\ Goto(w, IF At(w, "apply") THEN "applying" ELSE "finishing")
    /\ UNCHANGED <<verify, posted, stopped, promise, requestVars, responseVars, chainVars>>

\* _completion_mutex is taken, and cancellation looked at again under it.
Lock(w) ==
    /\ job[w].at \in {"apply", "finish"}
    /\ completion = NoWorker
    /\ IF stopped THEN Finished(w) /\ UNCHANGED completion
       ELSE completion' = w /\ Goto(w, IF At(w, "apply") THEN "applying" ELSE "finishing")
    /\ UNCHANGED <<verify, posted, stopped, promise, requestVars, responseVars, chainVars>>

\* Mutant: each block is applied when it arrives.
ReplayAtOnce(item) ==
    /\ pending' = 0
    /\ head' = item
    /\ unchecked' = unchecked \cup {item}

\* Fast replay applies the block before, against the root that this one's header
\* gives for it, and keeps this one.
Replay(item) ==
    /\ pending' = item
    /\ head' = IF pending = 0 THEN head ELSE pending
    /\ unchecked' = IF pending = 0 \/ item = pending + 1 THEN unchecked
                    ELSE unchecked \cup {pending}

Apply(w) ==
    /\ At(w, "applying")
    /\ IF verify THEN head' = job[w].item /\ UNCHANGED <<pending, unchecked>>
       ELSE Replay(job[w].item)
    /\ completion' = NoWorker
    /\ Post({ProcessBlock})
    /\ Finished(w)
    /\ UNCHANGED <<verify, stopped, promise, requestVars, responseVars>>

\* The last block has no successor: it is applied without an expected root.
ApplyLast(w) ==
    /\ At(w, "finishing")
    /\ IF pending = 0 THEN UNCHANGED chainVars
       ELSE pending' = 0 /\ head' = pending /\ unchecked' = unchecked \cup {pending}
    /\ Goto(w, "completing")
    /\ UNCHANGED <<verify, posted, endVars, requestVars, responseVars>>

\* The controller threw: the lock is released on the way to the catch clause.
ApplyFails(w) ==
    /\ At(w, "applying") \/ (At(w, "finishing") /\ pending # 0)
    /\ completion' = NoWorker
    /\ Goto(w, "error")
    /\ UNCHANGED <<verify, posted, stopped, promise, requestVars, responseVars, chainVars>>

Complete(w) ==
    /\ At(w, "completing")
    /\ promise' = IF promise = "unset" THEN "true" ELSE promise
    /\ completion' = NoWorker
    /\ Finished(w)
    /\ UNCHANGED <<verify, posted, stopped, requestVars, responseVars, chainVars>>

-----------------------------------------------------------------------------
(* stop and handle_error *)

End(outcome) ==
    /\ stopped' = TRUE
    /\ promise' = IF ~stopped /\ promise = "unset" THEN outcome ELSE promise
    /\ UNCHANGED completion

HandleError(w) ==
    /\ At(w, "error")
    /\ completion = NoWorker
    /\ End("error")
    /\ Finished(w)
    /\ UNCHANGED <<verify, posted, requestVars, responseVars, chainVars>>

\* A signal arrives.
Stop ==
    /\ ~stopped
    /\ completion = NoWorker
    /\ End("false")
    /\ UNCHANGED <<verify, posted, job, requestVars, responseVars, chainVars>>

\* Nothing is left to run.
Quiet ==
    /\ promise # "unset" /\ stopped /\ posted = {}
    /\ \A w \in Worker : job[w].at \in {"idle", "absent"}
    /\ UNCHANGED vars

Step(w) ==
    \/ Run(w) \/ ReturnStopped(w) \/ Fails(w)
    \/ Prepare(w) \/ Send(w) \/ RequestsDone(w) \/ Process(w)
    \/ MoveBlock(w) \/ LeaveBlocks(w) \/ ResponseDrained(w)
    \/ Check(w) \/ Pull(w) \/ PullEmpty(w) \/ Lock(w)
    \/ Apply(w) \/ ApplyLast(w) \/ ApplyFails(w) \/ Complete(w)
    \/ HandleError(w)

Next == (\E w \in Worker : Step(w)) \/ Stop \/ Quiet

\* Each worker keeps running; among the posted handlers each gets its turn (the
\* io_context runs them in the order they were posted, and the timer fires).
Fairness ==
    /\ \A w \in Worker : WF_vars(Step(w))
    /\ \A kind \in {"send", "check"} :
        SF_vars(\E w \in Worker : Run(w) /\ job'[w].at = kind)

Spec == Init /\ [][Next]_vars /\ Fairness

-----------------------------------------------------------------------------
(* Properties *)

\* The variables have their types, and the block queue its bound.
TypeOK ==
    /\ verify \in BOOLEAN /\ stopped \in BOOLEAN
    /\ posted \subseteq Handler
    /\ job \in [Worker -> Job]
    /\ promise \in {"unset", "true", "false", "error"}
    /\ {completion, drainer} \subseteq Worker \cup {NoWorker}
    /\ requestsComplete \in BOOLEAN /\ processingComplete \in BOOLEAN
    /\ requestQueue \in Seq([from : Nat, to : Nat])
    /\ staged \in [blocks : Seq(Nat), active : BOOLEAN, height : Nat, batch : Nat]
    /\ blockQueue \in Seq(Nat) /\ Len(blockQueue) <= QueueSize
    /\ pending \in Nat /\ head \in Nat /\ unchecked \subseteq Nat

Promised == INSTANCE IndexJob

\* The whole pipeline does what IndexJob says: blocks in order and none left out, true
\* only at the target, one outcome, nothing applied after it ("no block starts after
\* cancellation wins"), and an outcome eventually, with a single worker too.
ImplementsJob == Promised!Spec

\* process_block: "In fast replay, H stays writable until H+1 supplies the signed
\* expectation": only the target is ever applied without one.
CheckedBySuccessor == unchecked \subseteq {Target}

Items == LET busy == {w \in Worker : job[w].item # 0}
         IN  IF busy = {} THEN <<>> ELSE <<job[CHOOSE w \in busy : TRUE].item>>

InFlight == (IF pending = 0 THEN <<>> ELSE <<pending>>)
                \o Items \o blockQueue \o staged.blocks

\* drain_response_blocks and process_block hand blocks over without losing, repeating
\* or swapping one: what is between the responses and the controller is always the run
\* of heights right above the head.  process_requests never raises "block response
\* staging invariant violated", although either side may finish draining a response and
\* post the next request.
NothingLost ==
    /\ TypeOK
    /\ ~stopped => \A i \in 1..Len(InFlight) : InFlight[i] = head + i
    /\ \A w \in Worker :
        At(w, "process") /\ requestQueue # <<>> => ~staged.active /\ staged.blocks = <<>>
=============================================================================
