----------------------------- MODULE Controller -----------------------------
(***************************************************************************)
(* controller_impl (chain/controller.cpp): threads (gossip, sync, RPC, the *)
(* block producer) call apply_block at the same time on one state database *)
(* and one block store.                                                    *)
(*                                                                         *)
(* apply_block holds the database's lock shared while it looks up, creates *)
(* and executes a block, gives it up, takes it exclusively to finalize the *)
(* node, move the cached head and advance the last irreversible block, and *)
(* takes it shared again to announce the result.  Between two of those     *)
(* sections other threads run.  A section that runs under the exclusive    *)
(* lock is one action.                                                     *)
(***************************************************************************)
EXTENDS StateTree

CONSTANTS
    Thread,
    Previous,   \* header().previous() of each block
    Height,     \* header().height() of each block, 0 for Genesis
    Threshold   \* default_irreversible_threshold

Block == Node \ {Genesis}

ASSUME BlockAssumption ==
    Previous \in [Block -> Node] /\ Height \in [Node -> Nat] /\ Height[Genesis] = 0
ASSUME ThresholdAssumption == Threshold \in Nat

\* b and the blocks that previous() leads to from it.
Ancestors(b) ==
    {m \in Node :
        \A S \in SUBSET Node :
            b \in S /\ (\A x \in S \cap Block : Previous[x] \in S) => m \in S}

\* An id is the hash of a header that names the previous block: no block is an ancestor of
\* its own previous block.
ASSUME HashAssumption == \A b \in Block : b \notin Ancestors(Previous[b])

VARIABLES
    db,          \* _db
    store,       \* the blocks the block store holds durably
    cachedHead,  \* _cached_head_block, NoNode for the empty block of the constructor
    pc, block,   \* of each thread: where it is and the block it applies
    lib,         \* of each thread: get_last_irreversible_block of that block
    forkData,    \* of each thread: the root that get_fork_data saw
    heardLib,    \* the topology of the last koinos.block.irreversible broadcast
    heard        \* the blocks broadcast on koinos.block.accept

vars == <<db, store, cachedHead, pc, block, lib, forkData, heardLib, heard>>

Label == {"idle", "create", "execute", "finalize", "announce", "broadcast"}

\* Mutant: the lock is given up before the broadcasts.
ReadersUntilForkData == {t \in Thread : pc[t] \in {"create", "execute"}}

\* Mutant: the shared lock is not reset before the exclusive one is requested.
ReadersWhileFinalizing ==
    {t \in Thread : pc[t] \in {"create", "execute", "finalize", "broadcast"}}

\* The threads that own the database's lock shared.
Readers == {t \in Thread : pc[t] \in {"create", "execute", "broadcast"}}

Return(t) ==
    /\ pc' = [pc EXCEPT ![t] = "idle"]
    /\ block' = [block EXCEPT ![t] = NoNode]
    /\ lib' = [lib EXCEPT ![t] = 0]
    /\ forkData' = [forkData EXCEPT ![t] = NoNode]

Goto(t, label) == pc' = [pc EXCEPT ![t] = label]

-----------------------------------------------------------------------------

\* open: the node starts at what the backend holds.
Init ==
    /\ \E comp \in Algorithm : db = Open(comp, EmptyDisk)
    /\ store = {}
    /\ cachedHead = NoNode
    /\ pc = [t \in Thread |-> "idle"]
    /\ block = [t \in Thread |-> NoNode]
    /\ lib = [t \in Thread |-> 0]
    /\ forkData = [t \in Thread |-> NoNode]
    /\ heardLib = Genesis
    /\ heard = {}

\* apply_block returns an empty result at once for these blocks.
AnsweredAsApplied(b) == b \in db.index

\* Up to the creation of the node; every other block is refused here.
Lookup(t, b) ==
    /\ pc[t] = "idle"
    /\ ~AnsweredAsApplied(b)
    /\ Previous[b] \in db.finalized
    /\ Goto(t, "create")
    /\ block' = [block EXCEPT ![t] = b]
    /\ UNCHANGED <<db, store, cachedHead, lib, forkData, heardLib, heard>>

CreateNode(t) ==
    /\ pc[t] = "create"
    /\ CanCreate(db, Previous[block[t]], block[t])
    /\ db' = CreateWritableNode(db, Previous[block[t]], block[t])
    /\ Goto(t, "execute")
    /\ UNCHANGED <<store, cachedHead, block, lib, forkData, heardLib, heard>>

\* Mutant: this error is handled like the others and discards the block's node.
CreateFailsDiscards(t) ==
    /\ pc[t] = "create"
    /\ db' \in DiscardNode(db, block[t])
    /\ Return(t)
    /\ UNCHANGED <<store, cachedHead, heardLib, heard>>

\* create_writable_node gave a null pointer, because another thread has inserted the
\* block or because it timed out: block_state_error_exception, and nothing is discarded.
CreateFails(t) ==
    /\ pc[t] = "create"
    /\ Return(t)
    /\ UNCHANGED <<db, store, cachedHead, heardLib, heard>>

\* Mutant: one block late.
LastIrreversibleLate(n) ==
    IF db.revision[n] > Threshold THEN db.revision[n] - Threshold - 1 ELSE 0

\* get_last_irreversible_block on the block's own node.
LastIrreversible(n) ==
    IF db.revision[n] > Threshold THEN db.revision[n] - Threshold ELSE 0

\* Mutant: the block goes to the block store after it has been finalized.
ExecuteStoresLater(t) ==
    LET b == block[t] IN
    /\ pc[t] = "execute"
    /\ Height[b] = db.revision[Previous[b]] + 1
    /\ Timestamp[b] > Timestamp[Previous[b]]
    /\ lib' = [lib EXCEPT ![t] = LastIrreversible(b)]
    /\ Goto(t, "finalize")
    /\ UNCHANGED <<db, store, cachedHead, block, forkData, heardLib, heard>>

\* The block passes every check, executes, and is in the block store; lib is read and
\* the shared lock released.
Execute(t) ==
    LET b == block[t] IN
    /\ pc[t] = "execute"
    /\ Height[b] = db.revision[Previous[b]] + 1
    /\ Timestamp[b] > Timestamp[Previous[b]]
    /\ store' = store \cup {b}
    /\ lib' = [lib EXCEPT ![t] = LastIrreversible(b)]
    /\ Goto(t, "finalize")
    /\ UNCHANGED <<db, cachedHead, block, forkData, heardLib, heard>>

\* A check, the execution or the block store failed, before or after the block was
\* stored: the writable node is discarded under the shared lock.
ExecuteFails(t) ==
    /\ pc[t] = "execute"
    /\ db' \in DiscardNode(db, block[t])
    /\ store' \in {store, store \cup {block[t]}}
    /\ Return(t)
    /\ UNCHANGED <<cachedHead, heardLib, heard>>

\* Mutant: the irreversible node is looked up by its revision alone.
AdvanceLibAnyBranch(d, r, b) ==
    IF r > d.revision[d.root]
    THEN UNION {CommitNode(d, n) : n \in {m \in d.finalized : d.revision[m] = r}}
    ELSE {d}

\* if( lib > root.revision ) commit_node( get_node_at_revision( lib, block_id ) )
AdvanceLib(d, r, b) ==
    IF r > d.revision[d.root]
    THEN UNION {CommitNode(d, n) : n \in NodeAtRevision(d, r, b)}
    ELSE {d}

\* Mutant: every finalized block is cached, head or not.
FinalizeCachesAlways(t) ==
    /\ pc[t] = "finalize"
    /\ Readers = {}
    /\ block[t] \in db.index
    /\ cachedHead' = block[t]
    /\ \E d \in FinalizeNode(db, block[t]) : db' \in AdvanceLib(d, lib[t], block[t])
    /\ Goto(t, "announce")
    /\ UNCHANGED <<store, block, lib, forkData, heardLib, heard>>

\* The section under the exclusive lock; a torn commit throws out of it.
Finalize(t) ==
    /\ pc[t] = "finalize"
    /\ Readers = {}
    /\ block[t] \in db.index
    /\ \E d \in FinalizeNode(db, block[t]) :
        /\ cachedHead' = IF d.head = block[t] THEN block[t] ELSE cachedHead
        /\ db' \in AdvanceLib(d, lib[t], block[t])
    /\ IF db'.torn THEN Return(t)
       ELSE Goto(t, "announce") /\ UNCHANGED <<block, lib, forkData>>
    /\ UNCHANGED <<store, heardLib, heard>>

\* The node was discarded with its branch while no lock was held: finalize_node throws.
FinalizeFails(t) ==
    /\ pc[t] = "finalize"
    /\ Readers = {}
    /\ block[t] \notin db.index
    /\ Return(t)
    /\ UNCHANGED <<db, store, cachedHead, heardLib, heard>>

\* get_fork_data under the lock, taken shared again.
ReadForkData(t) ==
    /\ pc[t] = "announce"
    /\ forkData' = [forkData EXCEPT ![t] = db.root]
    /\ Goto(t, "broadcast")
    /\ UNCHANGED <<db, store, cachedHead, block, lib, heardLib, heard>>

Broadcast(t) ==
    /\ pc[t] = "broadcast"
    /\ heardLib' = forkData[t]
    /\ heard' = heard \cup {block[t]}
    /\ Return(t)
    /\ UNCHANGED <<db, store, cachedHead>>

\* The process ends at any point and starts again from the backend.
Restart ==
    /\ db' = Open(db.comp, db.disk)
    /\ cachedHead' = NoNode
    /\ pc' = [t \in Thread |-> "idle"]
    /\ block' = [t \in Thread |-> NoNode]
    /\ lib' = [t \in Thread |-> 0]
    /\ forkData' = [t \in Thread |-> NoNode]
    /\ heardLib' = db.disk.id
    /\ heard' = {}
    /\ UNCHANGED store

Step(t) ==
    \/ CreateNode(t) \/ CreateFails(t)
    \/ Execute(t) \/ ExecuteFails(t)
    \/ Finalize(t) \/ FinalizeFails(t)
    \/ ReadForkData(t) \/ Broadcast(t)

Next ==
    \/ \E t \in Thread, b \in Block : Lookup(t, b)
    \/ \E t \in Thread : Step(t)
    \/ Restart

\* A thread inside apply_block keeps running, and gets the lock once nobody holds it.
Fairness == \A t \in Thread : WF_vars(Step(t))

Spec == Init /\ [][Next]_vars /\ Fairness

-----------------------------------------------------------------------------
(* Properties *)

\* The variables of controller_impl and of its threads have their types; what is cached
\* as the head is always a block, never the genesis id.
TypeOK ==
    /\ db \in Database
    /\ store \subseteq Block
    /\ cachedHead \in Block \cup {NoNode}
    /\ pc \in [Thread -> Label]
    /\ block \in [Thread -> Block \cup {NoNode}]
    /\ lib \in [Thread -> Nat]
    /\ forkData \in [Thread -> Node \cup {NoNode}]
    /\ heardLib \in Node
    /\ heard \subseteq Block

\* get_last_irreversible_block and commit_node: no finalized block is further than the
\* threshold above the root, whichever thread finalized it and in whatever order.
LibKeepsUp == \A n \in db.finalized : db.revision[n] <= db.revision[db.root] + Threshold

\* apply_block's commit of the last irreversible block never throws half way: the node
\* it commits is always an ancestor of the head, although lib was read before the lock
\* was given up and other threads have moved head and root since.  On its error paths a
\* node that is in the index and not finalized belongs to exactly one thread, which will
\* finalize or discard it.  A node nobody owns would make apply_block answer "applied"
\* for ever for a block that is not.
NodesOwned ==
    /\ TypeOK
    /\ ~db.torn
    /\ \A n \in db.index \ db.finalized :
        \E t \in Thread :
            /\ block[t] = n /\ pc[t] \in {"execute", "finalize"}
            /\ \A u \in Thread \ {t} : block[u] = n => pc[u] = "create"

\* A thread that created a node finds it again after it gave up the lock, unless its
\* whole branch was discarded: a failed attempt at the same block by another thread
\* does not discard it.
OnlyPruningLosesNodes ==
    \A t \in Thread :
        pc[t] \in {"execute", "finalize"} /\ Previous[block[t]] \in db.index
            => block[t] \in db.index \ db.finalized

\* The comment in apply_block: _db.get_head() and _cached_head_block do not desync; and
\* state_db.hpp on get_fork_heads: "Fork heads are any finalized nodes that do not have
\* finalized children".  Both hold under fifo and block_time, once there is a head, as
\* the threads of apply_block use the database.
HeadsExact ==
    db.comp # "pob" =>
        /\ cachedHead \in {NoNode, db.head}
        /\ db.forkHeads = {n \in db.finalized : \A m \in db.finalized : db.parent[m] # n}

\* apply_block stores a block before it finalizes it: whatever the state database holds
\* above genesis, the block store holds too, also after a crash at any point.
StoreCoversState == db.finalized \ {Genesis} \subseteq store

\* The koinos.block.irreversible broadcasts of all threads never go back: each is made
\* under the shared lock that the root was read with.
LibNeverGoesBack ==
    [][heardLib' # heardLib => Height[heardLib'] > Height[heardLib]]_vars

\* When no further block comes in, every call of apply_block returns, and every
\* reversible block that was finalized has been broadcast: no thread waits for ever
\* for the exclusive lock.
CallsReturn ==
    <>[][~\E t \in Thread, b \in Block : Lookup(t, b) \/ Restart]_vars
        => <>[](/\ \A t \in Thread : pc[t] = "idle"
                /\ db.finalized \ {db.root} \subseteq heard)

-----------------------------------------------------------------------------
(* What comments in the source say that the code does not do *)

\* apply_block: "return {}; // Block has been applied".
AnsweredMeansApplied == \A b \in Block : AnsweredAsApplied(b) => b \in db.finalized

\* apply_block: "... as an atomic action or else we risk _db.get_head(),
\* _cached_head_block, and LIB desyncing from each other", for every algorithm.
NoHeadDesync == cachedHead \in {NoNode, db.head}

\* state_db.hpp: "Fork heads are any finalized nodes that do not have finalized children",
\* for every algorithm.
ForkHeadsDocumented ==
    db.forkHeads = {n \in db.finalized : \A m \in db.finalized : db.parent[m] # n}
=============================================================================
