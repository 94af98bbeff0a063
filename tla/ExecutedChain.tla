---------------------------- MODULE ExecutedChain ----------------------------
(***************************************************************************)
(* A node that executes a chain of blocks: the controller's calls on a     *)
(* storage given as a parameter.  The block store keeps the accepted       *)
(* blocks with the receipt whose delta entries replay them; it and the     *)
(* committed part of the storage survive a crash.                          *)
(*                                                                         *)
(* Calls come one at a time: Ask chooses one, its handler runs and leaves  *)
(* an answer, Done hands the answer over.                                  *)
(***************************************************************************)
EXTENDS Execution

LOCAL INSTANCE SequencesExt

CONSTANTS
    Fresh,                  \* the storage that holds the genesis state
    Commit(_, _, _), Reopen(_), Lost(_), Revision(_),
    DeltaEntries(_), MerkleRoot(_),
    Transactions,           \* the transactions that exist
    Bodies,                 \* the sequences of them that blocks carry
    Contracts,
    PendingNonces,          \* what the mempool may say of a payer's pending nonce: -1 that
                            \* there is none, -2 that it does not want the transaction
    ReadLimit,              \* _read_compute_bandwidth_limit
    Threshold,              \* default_irreversible_threshold
    MaxHeight,              \* bound: the height blocks are produced up to
    MaxSpent                \* bound: faults.  A call that leaves the chain alone spends
                            \* the rest: it changes the object cache at most, and any
                            \* fault would empty that

VARIABLES
    st,        \* the storage
    store,     \* the block store: at each height the block and its receipt
    call,      \* the call being handled, or its answer
    spent      \* faults counted against MaxSpent

vars == <<st, store, call, spent>>

Idle == [state |-> "idle"]

HeadNode == Newest(st)

Height == Revision(st) + HeadNode

\* The node has replayed what its block store holds.
Indexed == Height = Len(store)

Init ==
    /\ st = Fresh
    /\ store = <<>>
    /\ call = Idle
    /\ spent = 0

BlockRequests ==
    { [state |-> "asked", kind |-> intent, trxs |-> s] :
        intent \in {"block_application", "block_proposal"},
        s \in Bodies }

TransactionRequests ==
    { [state |-> "asked", kind |-> "transaction_application", trx |-> t, pending |-> n] :
        t \in Transactions, n \in PendingNonces }

ReadRequests ==
    { [state |-> "asked", kind |-> "read_only", contract |-> a] : a \in Contracts }

ReplayRequest == [state |-> "asked", kind |-> "replay"]

\* Blocks and transactions are accepted once the block store has been replayed.
Ask ==
    /\ call = Idle /\ ~Lost(st)
    /\ call' \in IF ~Indexed THEN {ReplayRequest}
                 ELSE (IF Height < MaxHeight THEN BlockRequests ELSE {})
                      \cup (IF spent < MaxSpent THEN TransactionRequests \cup ReadRequests
                            ELSE {})
    /\ UNCHANGED <<st, store, spent>>

Asked(kinds) == call.state = "asked" /\ call.kind \in kinds

Done ==
    /\ call.state = "answered"
    /\ call' = Idle
    /\ UNCHANGED <<st, store, spent>>

AnswerOf(c, ok) ==
    [state |-> "answered", kind |-> call.kind, ok |-> ok, exc |-> c.exc, val |-> c.val,
     receipts |-> c.receipts, failed |-> c.failed, events |-> c.events,
     skipped |-> c.skipped, table |-> c.table, meter |-> c.meter]

---------------------------------------------------------------------------
(* Blocks *)

\* The context of a block: on a new node above the head, after the head
\* information of the parent was read.
BlockContext(intent) ==
    LET parent == SystemCall(NewContext(st, HeadNode, HeadNode, "read_only"),
                             "get_head_info", <<>>)
    IN  NewContext(MakeChild(parent.st), HeadNode + 1, HeadNode, intent)

NewBlock(trxs) == [height |-> Height + 1, trxs |-> trxs]

Executed(trxs, intent) == SystemCall(BlockContext(intent), "apply_block", NewBlock(trxs))

\* What a block leaves to commit: the nodes that became irreversible.
Irreversible(s) == Newest(s) - Threshold

\* The end of apply_block and of apply_block_delta: the node is final, and what
\* became irreversible is committed.
Advance(s, ok) == IF Irreversible(s) > 0 THEN Commit(s, Irreversible(s), ok) ELSE s

\* A block that fails, and a proposal with failed transactions: nothing is kept.
Refuse(c) ==
    /\ st' = DropTo(c.st, HeadNode)
    /\ call' = AnswerOf(c, FALSE)
    /\ spent' = MaxSpent

\* submit_block and propose_block, up to the end of the execution.
SubmitBlock ==
    /\ Asked({"block_application", "block_proposal"})
    /\ \E c \in {Executed(call.trxs, call.kind)} :
          \/ /\ Ok(c) /\ c.failed = {}
             /\ st' = c.st
             /\ call' = [state |-> "executed", trxs |-> call.trxs, answer |-> AnswerOf(c, TRUE)]
             /\ UNCHANGED spent
          \/ (~Ok(c) \/ c.failed # {}) /\ Refuse(c)
    /\ UNCHANGED store

\* What the block store holds of a block: the receipt as it is before the node is
\* final, without the state's merkle root (the accepted receipt has it, but the
\* block store keeps the record it has).  root is the one the header of the next
\* block carries.
StoredBlock(trxs) ==
    [trxs |-> trxs, entries |-> DeltaEntries(st), root |-> MerkleRoot(st)]

\* How an executed block may end: done; the commit's write fails; the process
\* dies after the block store has the block and before the state does; or it
\* dies after the commit, before the block is announced.
Endings ==
    {"done", "dies", "dies_late"} \cup (IF Irreversible(st) > 0 THEN {"write_fails"} ELSE {})

\* The rest of submit_block: the block is stored, the node finalised, what
\* became irreversible is committed, and the block is announced as accepted.
AcceptBlock ==
    /\ call.state = "executed"
    /\ \E ending \in Endings :
          /\ ending = "done" \/ spent < MaxSpent
          /\ spent' = spent + (IF ending = "done" THEN 0 ELSE 1)
          /\ store' = Append(store, StoredBlock(call.trxs))
          /\ st' = CASE ending = "done"        -> Advance(st, TRUE)
                     [] ending = "write_fails" -> Advance(st, FALSE)
                     [] ending = "dies"        -> Reopen(st)
                     [] ending = "dies_late"   -> Reopen(Advance(st, TRUE))
          /\ call' = CASE ending = "done"        -> call.answer
                       [] ending = "write_fails" -> [call.answer EXCEPT !.ok = FALSE]
                       [] OTHER                  -> Idle

RECURSIVE ApplyPuts(_, _)

\* Mutant: the entries without a value are taken for empty ones and skipped.
ApplyPuts(s, entries) ==
    IF entries = <<>> THEN s
    ELSE LET e == Head(entries)
         IN  ApplyPuts(IF e.val = NoValue THEN s ELSE PutObject(s, Newest(s), e.key, e.val).st,
                       Tail(entries))

RECURSIVE ApplyEntries(_, _)

\* The entries of a receipt, written to the newest node of a storage.
ApplyEntries(s, entries) ==
    IF entries = <<>> THEN s
    ELSE LET e == Head(entries)
         IN  ApplyEntries(IF e.val = NoValue THEN RemoveObject(s, Newest(s), e.key, TRUE).st
                          ELSE PutObject(s, Newest(s), e.key, e.val).st,
                          Tail(entries))

\* The node of the block at the next height, rebuilt from its delta entries.
Replayed == ApplyEntries(MakeChild(st), store[Height + 1].entries)

\* A mismatch is repaired by executing the block, which must then give the root
\* that the header of the next block has.
Repair(c) ==
    LET agreed == Ok(c) /\ MerkleRoot(c.st) = store[Height + 1].root
    IN  /\ st' = IF agreed THEN Advance(c.st, TRUE) ELSE DropTo(c.st, HeadNode)
        /\ call' = AnswerOf(c, agreed)

\* apply_block_delta: the root is checked against the header of the next block,
\* when there is one (the receipts of the block store have no root to check).
ReplayBlock ==
    /\ Asked({"replay"})
    /\ \E s \in {Replayed} :
          IF Height + 1 < Len(store) /\ MerkleRoot(s) # store[Height + 1].root
          THEN \E c \in {Executed(store[Height + 1].trxs, "block_application")} : Repair(c)
          ELSE /\ st' = Advance(s, TRUE)
               /\ call' = AnswerOf(NewContext(s, HeadNode + 1, HeadNode, "block_application"),
                                   TRUE)
    /\ UNCHANGED <<store, spent>>

---------------------------------------------------------------------------
(* Transactions, reads, crashes *)

\* A query context, on an anonymous node above the head.
QueryContext(intent) == NewContext(MakeChild(st), HeadNode + 1, HeadNode, intent)

\* The end of a query: its node is thrown away.
Reply(c) ==
    /\ st' = DropTo(c.st, HeadNode)
    /\ call' = AnswerOf(c, Ok(c))
    /\ spent' = MaxSpent
    /\ UNCHANGED store

\* The mempool's answer on a transaction.
Wanted(c) == Require(c, call.pending # -2, "failure")

\* submit_transaction: the mempool is asked, then the transaction is applied on
\* an anonymous node that is thrown away, with the nonce that is pending.
SubmitTransaction ==
    /\ Asked({"transaction_application"})
    /\ LET q   == [QueryContext("transaction_application") EXCEPT !.mempoolNonce = call.pending]
           lim == SystemCall(Wanted(SystemCall(q, "get_account_rc", <<>>)),
                             "get_resource_limits", <<>>)
       IN  Reply(SystemCall([lim EXCEPT !.meter = SetLimits(@)], "apply_transaction", call.trx))

\* read_contract: a user frame, compute as the only resource.
ReadContract ==
    /\ Asked({"read_only"})
    /\ LET limit == [r \in Resources |-> IF r = "compute" THEN ReadLimit ELSE 0]
           q     == [QueryContext("read_only") EXCEPT
                        !.stack = <<[contract |-> "", priv |-> "user", entry |-> "none"]>>,
                        !.meter.limit = limit, !.meter.left = limit]
       IN  Reply(SystemCall(q, "call", [contract |-> call.contract, entry |-> "main"]))

\* The process ends and starts again on what the database and the block store
\* hold; after a failed commit nothing else is possible.
Restart ==
    /\ call = Idle
    /\ Lost(st) \/ spent < MaxSpent
    /\ st' = Reopen(st)
    /\ spent' = IF Lost(st) THEN spent ELSE spent + 1
    /\ UNCHANGED <<store, call>>

\* Nothing is left to do within the bounds.
Rest ==
    /\ call = Idle /\ ~Lost(st) /\ Indexed /\ Height = MaxHeight /\ spent = MaxSpent
    /\ UNCHANGED vars

Next ==
    \/ Ask \/ Done
    \/ SubmitBlock \/ AcceptBlock \/ ReplayBlock
    \/ SubmitTransaction \/ ReadContract
    \/ Restart \/ Rest

Spec == Init /\ [][Next]_vars
=============================================================================
