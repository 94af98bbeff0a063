---------------------------- MODULE NodeExecution ----------------------------
(***************************************************************************)
(* The executing node on its real storage: ExecutedChain over the deltas,  *)
(* merge iterators, object cache and write batches of StateDelta, and the  *)
(* statement that nobody can tell it from ExecutedChain over plain maps.   *)
(***************************************************************************)
EXTENDS StateDelta

LOCAL INSTANCE SequencesExt
LOCAL INSTANCE FiniteSetsExt

CONSTANTS
    GenesisDisk,
    Zone(_), BlockKey, ConfigKey, DispatchKey(_), CodeKey(_), MetaKey(_), NonceKey(_),
    Overridable, Script(_, _), Compute(_), Genesis, MaxRc, StackLimit,
    Limit, Price, Transactions, Bodies, Contracts, PendingNonces, ReadLimit,
    Threshold, MaxHeight, MaxSpent

VARIABLES st, store, call, spent

Fresh == NewStorage(GenesisDisk)

INSTANCE ExecutedChain

---------------------------------------------------------------------------

Plain == INSTANCE PlainStore

\* The storage as plain maps.
PlainOf(s) ==
    [durable  |-> s.db.disk.objects,
     revision |-> s.db.revision,
     nodes    |-> [n \in DOMAIN s.deltas |->
                      [map  |-> View(s, n),
                       put  |-> Stored(s.deltas[n].map),
                       gone |-> s.deltas[n].removed]],
     lost     |-> s.lost]

Ledger == INSTANCE ExecutedChain WITH
    st <- PlainOf(st), Fresh <- PlainOf(Fresh),
    GetObject <- Plain!GetObject, PutObject <- Plain!PutObject,
    RemoveObject <- Plain!RemoveObject,
    NextObject <- Plain!NextObject, PrevObject <- Plain!PrevObject,
    MakeChild <- Plain!MakeChild, DropTo <- Plain!DropTo, Squash <- Plain!Squash,
    Newest <- Plain!Newest, View <- Plain!View,
    Commit <- Plain!Commit, Reopen <- Plain!Reopen, Lost <- Plain!Lost,
    Revision <- Plain!Revision,
    DeltaEntries <- Plain!DeltaEntries, MerkleRoot <- Plain!DeltaEntries

---------------------------------------------------------------------------
(* Properties *)

\* What a call led to, once its handler ran.
Outcome(c) == IF c.state = "executed" THEN c.answer ELSE c

AnsweredBlock(kinds) == call.state = "answered" /\ call.kind \in kinds

\* The shape of the state, and what a receipt says is true: a transaction that
\* reverted left the block's node as its checks left it, in every object, and
\* shows no events; nobody pays more rc than the transaction offered.
AllOrNothing ==
    /\ DOMAIN st.db.disk.objects = Keys /\ st.lost \in BOOLEAN /\ spent \in 0 .. MaxSpent
    /\ Height \in 0 .. MaxHeight /\ (call = Idle => Height <= Len(store))
    /\ AnsweredBlock({"block_application", "block_proposal", "transaction_application"}) =>
           \A i \in DOMAIN call.receipts :
               LET r == call.receipts[i]
               IN  /\ r.reverted => r.whole /\ r.events = <<>>
                   /\ r.used \in 0 .. r.limit

\* Compute is accounted for: what a block took from its budget is what its
\* transactions' receipts show, plus what the producer is charged for, plus what
\* a proposal spent on transactions it gave no receipt.
ComputeAddsUp ==
    AnsweredBlock({"block_application", "block_proposal"}) /\ call.ok =>
        Used(call.meter, "compute")
            = call.meter.system["compute"] + call.skipped
              + FoldLeft(LAMBDA sum, r : sum + r.spent["compute"], 0, call.receipts)

\* What the dispatch entry of a call means in a map of objects.
Meaning(map, id) ==
    LET target == map[DispatchKey(id)]
    IN  IF target = NoValue \/ target[1] = "thunk" THEN ByThunk
        ELSE [kind |-> "contract", contract |-> target[2],
              code |-> map[CodeKey(target[2])][2], system |-> map[MetaKey(target[2])][3]]

\* A system call means the same thing in all of a block, whatever the block's
\* own transactions override or upload: what it meant at the end of the parent.
OverridesWait ==
    [][ call.state = "asked" =>
            \A id \in Overridable :
                Outcome(call').table[id] \in {Unresolved, Meaning(View(st, HeadNode), id)} ]_vars

NoDuplicates(entries) == IsInjective([i \in DOMAIN entries |-> entries[i].key])

\* A block means the same whichever way it is applied.  A proposal that is kept
\* and skipped nothing gives every node that applies the block the same objects
\* and receipts; replaying the entries of a stored block, when it succeeds,
\* gives the objects that executing it does, and it succeeds unless the entries
\* list a key twice.
ReplaysAgree ==
    [][ LET after   == View(st', Newest(st'))
            Again(trxs) == Executed(trxs, "block_application")
            Content(c)  == View(c.st, c.node)
        IN  /\ Asked({"block_proposal"}) /\ Outcome(call').ok /\ Outcome(call').skipped = 0
                => LET c == Again(call.trxs)
                   IN  Ok(c) /\ c.receipts = Outcome(call').receipts /\ Content(c) = after
            /\ Asked({"replay"})
                => LET entry == store[Height + 1]
                       c     == Again(entry.trxs)
                   IN  /\ NoDuplicates(entry.entries) => call'.ok
                       /\ call'.ok /\ Ok(c) => Content(c) = after ]_vars

\* Deltas, tombstones, merge iterators, the object cache and the write batch
\* are invisible: whatever calls arrive, and wherever the process dies, every
\* answer, receipt and stored block is the one that a node on plain maps gives.
LedgerSpec == Ledger!Spec

===========================================================================
