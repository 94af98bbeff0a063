------------------------------ MODULE StateDb ------------------------------
(***************************************************************************)
(* database (state_db.cpp) used through its public interface by callers    *)
(* that respect the contract its header states: they finalize writable     *)
(* nodes only, and commit finalized nodes only.  Each call holds the index *)
(* mutex for its whole body, so each call is one action.                   *)
(***************************************************************************)
EXTENDS StateTree

CONSTANT MaxRevision  \* bound on the length of the chains that are explored

VARIABLE db

\* A database object before its first open.
Init == db = Closed("fifo", EmptyDisk)

Usable == IsOpen(db) /\ ~db.torn

OpenDb == ~IsOpen(db) /\ \E comp \in Algorithm : db' = Open(comp, db.disk)

\* close, or the end of the process: in memory nothing survives either.
CloseDb == IsOpen(db) /\ db' = Closed(db.comp, db.disk)

ResetDb == Usable /\ db' = Reset(db)

CreateNode ==
    /\ Usable
    /\ \E p, n \in Node :
        /\ CanCreate(db, p, n)
        /\ db.revision[p] < MaxRevision
        /\ db' = CreateWritableNode(db, p, n)

CloneWritable ==
    /\ Usable
    /\ \E n, m \in Node : CanClone(db, n, m) /\ db' = CloneNode(db, n, m)

Finalize ==
    /\ Usable
    /\ \E n \in db.index \ db.finalized : db' \in FinalizeNode(db, n)

Discard ==
    /\ Usable
    /\ \E n \in db.index \ {db.root} : db' \in DiscardNode(db, n)

Commit ==
    /\ Usable
    /\ \E n \in db.finalized \ {db.root} : db' \in CommitNode(db, n)

Next ==
    \/ OpenDb \/ CloseDb \/ ResetDb
    \/ CreateNode \/ CloneWritable
    \/ Finalize \/ Discard \/ Commit

Spec == Init /\ [][Next]_db

-----------------------------------------------------------------------------
(* Properties *)

\* The database is always a value of its type, and the nodes outside the index
\* leave nothing behind.
TypeOK ==
    /\ db \in Database
    /\ db.finalized \subseteq db.index
    /\ \A n \in Node \ db.index : db.parent[n] = NoNode /\ db.revision[n] = 0

\* state_db.hpp on get_root: every node in the index is a descendant of the root,
\* reached by edges that raise the revision by one and start at finalized nodes.
\* Discarding a branch or advancing the root never orphans a node.
RootedTree ==
    Usable =>
        /\ db.root \in db.finalized
        /\ db.index = Subtree(db, db.root)
        /\ \A n \in db.index \ {db.root} :
            /\ db.parent[n] \in db.finalized
            /\ db.revision[n] = db.revision[db.parent[n]] + 1

\* finalize_node, discard_node and commit_node together keep the head a finalized
\* node of the tree and a member of the fork heads, whichever comparator decides,
\* and after a refused discard too; under fifo and block_time no fork head has a
\* finalized child.
ForkHeadsSound ==
    Usable =>
        /\ db.head \in db.forkHeads
        /\ db.forkHeads \subseteq db.finalized
        /\ db.comp # "pob" => ForksAreTips(db)

\* state_db.hpp on get_head: "Head is determined by longest chain".  Under fifo and
\* block_time no finalized node is longer than the head, and under block_time the head
\* is the oldest of the longest chains' tips in whatever order they were finalized, so
\* that two databases with the same nodes agree on the head.
HeadChosen ==
    Usable =>
        /\ db.comp # "pob" => HeadIsLongest(db)
        /\ db.comp = "block_time" => HeadIsEarliest(db)

\* What is durable is the root: whatever is committed, a restart at that point opens
\* at the root that the running database had.
DiskIsRoot ==
    IsOpen(db) => db.disk = [id |-> db.root, revision |-> db.revision[db.root]]

\* commit_node and close: the irreversible node only ever moves to one of its
\* descendants, across restarts too; only reset takes it back.
RootOnlyAdvances ==
    [][\/ db'.disk = db.disk
       \/ db' = Reset(db)
       \/ db'.disk.id \in Subtree(db, db.root) /\ db'.disk.revision > db.disk.revision]_db

\* fifo_comparator ("Oldest chain wins in a tie of length"): while the database stays
\* open the head is only given up for a strictly longer chain.
OldestWins ==
    [][Usable /\ db.comp = "fifo" /\ IsOpen(db') /\ db'.head # db.head /\ ~(db' = Reset(db))
        => db'.revision[db'.head] > db.revision[db.head]]_db
=============================================================================
