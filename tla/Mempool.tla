------------------------------ MODULE Mempool ------------------------------
(***************************************************************************)
(* mempool_impl (mempool/mempool.cpp): the pending transactions, kept once *)
(* per fork in a state database of its own.  Each block the mempool has    *)
(* accepted is a finalized node with one writable child, its temporary     *)
(* node, that holds what is pending on top of the block.                   *)
(*                                                                         *)
(* What a node shows through its deltas is a value, its view: a finalized  *)
(* node never changes, so a child starts with a copy of its parent's view. *)
(* The lookups by transaction id are those of the records in the view.     *)
(* Every operation that changes state runs under the database's exclusive  *)
(* lock and is one action; a call that throws changes nothing.             *)
(***************************************************************************)
EXTENDS StateTree

Sets == INSTANCE FiniteSetsExt

CONSTANTS
    TmpId,       \* tmp_id of each block id: the hash of the hash
    Previous,    \* header().previous() of each block
    Tx,          \* transaction ids
    Payer,       \* header().payer() of each transaction
    Nonce,       \* create_account_nonce_key of each transaction
    Limit,       \* header().rc_limit() of each transaction
    Contents,    \* the transactions of each block
    Budget,      \* values of max_payer_rc
    Expiration,  \* transaction-expiration
    MaxTime,     \* bound on the clock
    MaxSeq,      \* bound on the sequence numbers
    Depth        \* how far behind its head the chain's irreversible block is

Block == DOMAIN Previous
Account == {Payer[t] : t \in Tx}

\* An accepted transaction has paid for itself, so its limit is not zero.
ASSUME MempoolAssumption ==
    /\ \A t \in Tx : Limit[t] \in Nat \ {0}
    /\ \A b \in Block : Contents[b] \subseteq Tx
    /\ Budget \subseteq Nat /\ {Expiration, MaxTime, MaxSeq, Depth} \subseteq Nat

\* tmp_id hashes the block id: two blocks never share one, and none is a block id.
ASSUME IdAssumption ==
    /\ Block \subseteq Node \ {Genesis}
    /\ TmpId \in [Block \cup {Genesis} -> Node \ (Block \cup {Genesis})]
    /\ \A a, b \in Block \cup {Genesis} : TmpId[a] = TmpId[b] => a = b

VARIABLES
    db,         \* _db
    view,       \* of each node: what it shows
    mutexes,    \* the keys of _relevant_node_mutexes
    clock,      \* system_clock::now()
    delivered   \* the blocks broadcast so far

vars == <<db, view, mutexes, clock, delivered>>

-----------------------------------------------------------------------------
(* What a node shows *)

NoRecord == [max |-> 0, current |-> 0]

\* pending_transaction and transaction_index; address_resources; account_nonce;
\* mempool_metadata.
EmptyView ==
    [pending |-> {}, rc |-> [a \in Account |-> NoRecord], nonces |-> {}, seqNum |-> 1]

\* check_pending_account_resources_on_node
ResourcesSuffice(v, t, maxRc) ==
    LET arr == v.rc[Payer[t]]
    IN  IF arr = NoRecord THEN Limit[t] <= maxRc
        ELSE arr.current + (maxRc - arr.max) - Limit[t] >= 0

IsPending(v, t) == \E r \in v.pending : r.tx = t

\* Mutant: the budget the account had before stays.
ReserveStaleMax(arr, t, maxRc) ==
    IF arr = NoRecord THEN [max |-> maxRc, current |-> maxRc - Limit[t]]
    ELSE [max |-> arr.max, current |-> arr.current + (maxRc - arr.max) - Limit[t]]

Reserve(arr, t, maxRc) ==
    IF arr = NoRecord THEN [max |-> maxRc, current |-> maxRc - Limit[t]]
    ELSE [max |-> maxRc, current |-> arr.current + (maxRc - arr.max) - Limit[t]]

\* add_pending_transaction_to_node, past its checks.
AddTo(v, t, maxRc, time) ==
    [pending |-> v.pending \cup {[seq |-> v.seqNum, tx |-> t, time |-> time]},
     rc      |-> [v.rc EXCEPT ![Payer[t]] = Reserve(@, t, maxRc)],
     nonces  |-> v.nonces \cup {Nonce[t]},
     seqNum  |-> v.seqNum + 1]

\* cleanup_account_resources_on_node
Release(arr, t) ==
    IF arr.current + Limit[t] >= arr.max THEN NoRecord
    ELSE [arr EXCEPT !.current = @ + Limit[t]]

RemoveRecord(r, v) ==
    [v EXCEPT !.pending = @ \ {r},
              !.rc[Payer[r.tx]] = Release(@, r.tx),
              !.nonces = @ \ {Nonce[r.tx]}]

RemoveRecords(v, records) == Sets!FoldSet(RemoveRecord, v, records)

\* remove_pending_transactions_on_node
RemoveTransactions(v, ids) == RemoveRecords(v, {r \in v.pending : r.tx \in ids})

\* The records that prune's loop reaches and removes: it takes them in the order of
\* their sequence numbers and ends at the first that is not old enough.
Expired(v) ==
    {r \in v.pending :
        \A s \in v.pending : s.seq <= r.seq => s.time + Expiration <= clock}

-----------------------------------------------------------------------------

Init ==
    /\ \E comp \in Algorithm :
        db = CreateWritableNode(Open(comp, EmptyDisk), Genesis, TmpId[Genesis])
    /\ view = [n \in Node |-> EmptyView]
    /\ mutexes = {TmpId[Genesis]}
    /\ clock = 0
    /\ delivered = {}

\* The node a block is cloned from.  While root and head are one node the mempool has
\* heard of no block above it and takes any block as its child.
CloneSource(b) == IF db.root # db.head THEN TmpId[Previous[b]] ELSE TmpId[db.root]

\* Mutant: the transactions of the block stay pending on top of it.
HandleBlockKeeps(b) ==
    /\ b \notin delivered
    /\ CanClone(db, CloneSource(b), b)
    /\ \E d \in FinalizeNode(CloneNode(db, CloneSource(b), b), b) :
        db' = CreateWritableNode(d, b, TmpId[b])
    /\ view' = [view EXCEPT ![b] = RemoveTransactions(view[CloneSource(b)], Contents[b]),
                            ![TmpId[b]] = view[CloneSource(b)]]
    /\ mutexes' = mutexes \cup {TmpId[b]}
    /\ delivered' = delivered \cup {b}
    /\ UNCHANGED clock

\* handle_block
HandleBlock(b) ==
    LET rest == RemoveTransactions(view[CloneSource(b)], Contents[b]) IN
    /\ b \notin delivered
    /\ CanClone(db, CloneSource(b), b)
    /\ \E d \in FinalizeNode(CloneNode(db, CloneSource(b), b), b) :
        db' = CreateWritableNode(d, b, TmpId[b])
    /\ view' = [view EXCEPT ![b] = rest, ![TmpId[b]] = rest]
    /\ mutexes' = mutexes \cup {TmpId[b]}
    /\ delivered' = delivered \cup {b}
    /\ UNCHANGED clock

\* handle_block returns false: the block before is unknown, and this one is dropped.
DropBlock(b) ==
    /\ b \notin delivered
    /\ CloneSource(b) \notin db.index
    /\ delivered' = delivered \cup {b}
    /\ UNCHANGED <<db, view, mutexes, clock>>

\* The blocks that the chain may announce as irreversible: the ones Depth below some
\* block.  They are announced before that block itself is.
Announced ==
    LET above[k \in 0 .. Depth] ==
            IF k = 0 THEN Block ELSE {Previous[b] : b \in above[k - 1] \cap Block}
    IN  above[Depth]

\* Mutant: the mutexes of discarded nodes stay.
HandleIrreversibilityLeaks(b) ==
    /\ b \in (Announced \cap db.index) \ {db.root}
    /\ db' \in CommitNode(db, b)
    /\ view' = [n \in Node |-> IF n \in db'.index THEN view[n] ELSE EmptyView]
    /\ UNCHANGED <<mutexes, clock, delivered>>

\* handle_irreversibility.  When the mempool's head is on another branch, because the
\* block that made the chain leave it has not been announced yet, commit_node throws
\* with the root already moved, and the mutexes stay.
HandleIrreversibility(b) ==
    /\ b \in (Announced \cap db.index) \ {db.root}
    /\ db' \in CommitNode(db, b)
    /\ view' = [n \in Node |-> IF n \in db'.index THEN view[n] ELSE EmptyView]
    /\ mutexes' = IF db.head \in Subtree(db, b) THEN mutexes \cap db'.index ELSE mutexes
    /\ UNCHANGED <<clock, delivered>>

Writable == db.index \ db.finalized

\* add_pending_transaction succeeds: it goes to every writable node where its nonce is
\* free, if there is one; a node that lacks resources or has it already refuses it for
\* all of them.
AddPending(t, maxRc) ==
    LET free == {n \in Writable : Nonce[t] \notin view[n].nonces} IN
    /\ \A n \in Writable : ResourcesSuffice(view[n], t, maxRc) /\ ~IsPending(view[n], t)
    /\ free # {} /\ \A n \in free : view[n].seqNum < MaxSeq
    /\ view' = [n \in Node |-> IF n \in free THEN AddTo(view[n], t, maxRc, clock) ELSE view[n]]
    /\ UNCHANGED <<db, mutexes, clock, delivered>>

\* remove_pending_transactions and prune visit the temporary nodes of the fork heads.
Tips == {TmpId[f] : f \in db.forkHeads}

RemovePending(ids) ==
    /\ view' = [n \in Node |-> IF n \in Tips THEN RemoveTransactions(view[n], ids) ELSE view[n]]
    /\ UNCHANGED <<db, mutexes, clock, delivered>>

Prune ==
    /\ view' = [n \in Node |-> IF n \in Tips THEN RemoveRecords(view[n], Expired(view[n]))
                               ELSE view[n]]
    /\ UNCHANGED <<db, mutexes, clock, delivered>>

Tick == clock < MaxTime /\ clock' = clock + 1 /\ UNCHANGED <<db, view, mutexes, delivered>>

Next ==
    \/ \E b \in Block : HandleBlock(b) \/ DropBlock(b) \/ HandleIrreversibility(b)
    \/ \E t \in Tx, maxRc \in Budget : AddPending(t, maxRc)
    \/ \E t \in Tx : RemovePending({t})
    \/ Prune \/ Tick

Spec == Init /\ [][Next]_vars

-----------------------------------------------------------------------------
(* Properties *)

Record == [seq : Nat, tx : Tx, time : 0..MaxTime]

\* The variables have their types, and what is not in the index shows nothing.  Once a
\* commit has thrown, nothing but the index is known of the tree: a head that falls back
\* from the root has no parent to fall back to.
TypeOK ==
    /\ db.index \subseteq Node /\ (~db.torn => db \in Database)
    /\ \A n \in Node :
        /\ view[n].pending \subseteq Record
        /\ view[n].rc \in [Account -> [max : Nat, current : Nat]]
        /\ n \notin db.index => view[n] = EmptyView
    /\ mutexes \subseteq Node
    /\ clock \in 0..MaxTime
    /\ delivered \subseteq Block

\* relevant_node, check_account_nonce and add_pending_transaction look mutexes up with
\* at(), which throws for a key that is missing: the writable nodes are exactly the
\* temporary nodes of the accepted blocks, and exactly the nodes that have a mutex,
\* whatever was accepted, dropped and committed in whichever order, unless a commit
\* has thrown.
RelevantNodes ==
    ~db.torn =>
        /\ mutexes = Writable
        /\ Writable = {TmpId[n] : n \in db.finalized}
        /\ \A n \in db.finalized : db.parent[TmpId[n]] = n

\* What the limits of some records come to.
LimitSum(records) == Sets!MapThenSumSet(LAMBDA r : Limit[r.tx], records)

\* address_resources: what an account has reserved (max_rc - current_rc, unsigned in
\* the code) is the sum of the limits of its pending transactions, although its budget
\* changes with every transaction and removal starts from the record as it is then;
\* with none pending there is no record.
ReservedIsPending(v) ==
    \A a \in Account :
        LET mine == {r \in v.pending : Payer[r.tx] = a}
        IN  /\ v.rc[a].max - v.rc[a].current = LimitSum(mine)
            /\ mine = {} => v.rc[a] = NoRecord

\* The indexes of a node agree: a nonce is taken exactly while one pending transaction
\* holds it, and no sequence number is given twice, across clones of a node too.
IndexesAgree(v) ==
    /\ v.nonces = {Nonce[r.tx] : r \in v.pending}
    /\ \A r, s \in v.pending : Nonce[r.tx] = Nonce[s.tx] \/ r.seq = s.seq => r = s
    /\ \A r \in v.pending : r.seq < v.seqNum

\* The spaces of every node describe one set of pending transactions, also after a
\* commit that threw: what add_pending_transaction_to_node reserves for an account and
\* takes of its nonces is what remove_pending_transactions_on_node gives back.
PoolsConsistent ==
    /\ TypeOK
    /\ \A n \in db.index : ReservedIsPending(view[n]) /\ IndexesAgree(view[n])

\* handle_block: when a block is accepted its transactions are pending on no node above
\* it, and everything else that was pending before it still is.
AcceptedLeavesRest ==
    [][\A b \in Block \cap (db'.index \ db.index) :
        {r.tx : r \in view'[TmpId[b]].pending}
            = {r.tx : r \in view[CloneSource(b)].pending} \ Contents[b]]_vars

-----------------------------------------------------------------------------
(* What a test states that the code does not do in general *)

\* get_reserved_account_rc
ReservedRc(a) == Sets!Max({view[n].rc[a].max - view[n].rc[a].current : n \in db.index})

AllExpired == \A n \in db.index : \A r \in view[n].pending : r.time + Expiration <= clock

\* test_pending_resources_and_expiration: after prune has removed expired transactions,
\* the account has nothing reserved.
PruneReleases ==
    [][Prune /\ AllExpired => \A a \in Account : ReservedRc(a)' = 0]_vars
=============================================================================
