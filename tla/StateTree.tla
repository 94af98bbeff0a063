----------------------------- MODULE StateTree -----------------------------
(***************************************************************************)
(* The fork tree that database_impl keeps in memory (state_db.cpp): the    *)
(* index of state nodes, the head, the root (the last irreversible node)   *)
(* and the fork heads.  The chain controller and the mempool each own one. *)
(*                                                                         *)
(* A database is a record d; an operation of the code is an operator on d. *)
(* An operation whose result depends on container order is the set of the  *)
(* databases it can leave behind.  What a node stores is not modelled      *)
(* here: only which nodes exist and how they hang together.                *)
(***************************************************************************)
EXTENDS Integers, FiniteSets

CONSTANTS
    Node,       \* node ids: multihashes, ordered like numbers
    Genesis,    \* the zero id an empty backend reports
    NoNode,     \* a null pointer, and the parent id of a root
    Timestamp,  \* block_header().timestamp() of each id
    Signer      \* block_header().signer() of each id

ASSUME NodeAssumption == Node \subseteq Nat /\ Genesis \in Node /\ NoNode \notin Node
ASSUME HeaderAssumption == Timestamp \in [Node -> Nat]

\* fork_resolution_algorithm
Algorithm == {"fifo", "block_time", "pob"}

\* disk is what the backend's metadata holds durably; torn marks a commit that
\* threw after it had moved the root (see CommitNode).
Database ==
    [index     : SUBSET Node,
     parent    : [Node -> Node \cup {NoNode}],
     revision  : [Node -> Nat],
     finalized : SUBSET Node,
     head      : Node \cup {NoNode},
     root      : Node \cup {NoNode},
     forkHeads : SUBSET Node,
     comp      : Algorithm,
     disk      : [id : Node, revision : Nat],
     torn      : BOOLEAN]

IsOpen(d) == d.root # NoNode /\ d.head # NoNode

\* An entry that is not in the index holds the default.
Forget(f, S, default) == [n \in Node |-> IF n \in S THEN default ELSE f[n]]

-----------------------------------------------------------------------------
(* The tree *)

ChildClosed(d, S) == \A m \in d.index : d.parent[m] \in S => m \in S

\* n and everything below it: the fixpoint that discard_node's remove_queue
\* computes over the by_parent index.
Subtree(d, n) ==
    {m \in d.index :
        \A S \in SUBSET d.index : n \in S /\ ChildClosed(d, S) => m \in S}

-----------------------------------------------------------------------------
(* open, close, reset *)

\* The database close_lockless leaves: only the backend remains.
Closed(comp, disk) ==
    [index     |-> {},
     parent    |-> [n \in Node |-> NoNode],
     revision  |-> [n \in Node |-> 0],
     finalized |-> {},
     head      |-> NoNode,
     root      |-> NoNode,
     forkHeads |-> {},
     comp      |-> comp,
     disk      |-> disk,
     torn      |-> FALSE]

\* open_lockless: the backend's id and revision become root, head and the
\* only fork head.
Open(comp, disk) ==
    [Closed(comp, disk) EXCEPT
        !.index     = {disk.id},
        !.revision  = [n \in Node |-> IF n = disk.id THEN disk.revision ELSE 0],
        !.finalized = {disk.id},
        !.head      = disk.id,
        !.root      = disk.id,
        !.forkHeads = {disk.id}]

EmptyDisk == [id |-> Genesis, revision |-> 0]

\* reset: wipe the backend, close and open again.
Reset(d) == Open(d.comp, EmptyDisk)

-----------------------------------------------------------------------------
(* Creating nodes *)

AddNode(d, n, p, r) ==
    [d EXCEPT !.index = @ \cup {n}, !.parent[n] = p, !.revision[n] = r]

\* create_writable_node returns a node, not a null pointer: the parent is in the
\* index and finalized, and the id is new.
CanCreate(d, p, n) == p \in d.index /\ p \in d.finalized /\ n \in Node \ d.index

CreateWritableNode(d, p, n) == AddNode(d, n, p, d.revision[p] + 1)

\* clone_node passes its assertions and returns a node.
CanClone(d, n, m) == n \in d.index \ d.finalized /\ m \in Node \ d.index

CloneNode(d, n, m) == AddNode(d, m, d.parent[n], d.revision[n])

-----------------------------------------------------------------------------
(* Fork choice: finalize_node and its comparators *)

\* priority_algorithm of pob_comparator: longer, then older, then smaller id.
Priority(d, a, b) ==
    \/ d.revision[a] > d.revision[b]
    \/ d.revision[a] = d.revision[b] /\ Timestamp[a] < Timestamp[b]
    \/ d.revision[a] = d.revision[b] /\ Timestamp[a] = Timestamp[b] /\ a < b

\* The first fork head after the sort.
FirstFork(d, forks) == {f \in forks : \A g \in forks \ {f} : Priority(d, f, g)}

\* Mutant: the youngest block wins.
BlockTimeYoungest(d, n) == IF Timestamp[n] > Timestamp[d.head] THEN n ELSE d.head

BlockTimeChoice(d, n) == IF Timestamp[n] < Timestamp[d.head] THEN n ELSE d.head

\* pob_comparator: a signer that produced both the head and its rival loses
\* both; NoNode is its null pointer, "fall back to the head's parent".
PobChoices(d, n) ==
    LET rest == d.forkHeads \ {d.head}
    IN  IF Signer[d.head] # Signer[n] THEN {BlockTimeChoice(d, n)}
        ELSE IF rest = {} THEN {NoNode}
        ELSE {IF Priority(d, d.parent[d.head], f) THEN NoNode ELSE f :
                f \in FirstFork(d, rest)}

\* Mutant: fifo hands back the node that was finalized last.
ChoicesLifo(d, n) ==
    CASE d.comp = "fifo"       -> {n}
      [] d.comp = "block_time" -> {BlockTimeChoice(d, n)}
      [] d.comp = "pob"        -> PobChoices(d, n)

\* _comp( forks, head, node )
Choices(d, n) ==
    CASE d.comp = "fifo"       -> {d.head}
      [] d.comp = "block_time" -> {BlockTimeChoice(d, n)}
      [] d.comp = "pob"        -> PobChoices(d, n)

\* The head moves back to its parent, which replaces it among the fork heads.
FallBack(d) ==
    [d EXCEPT !.head = d.parent[d.head],
              !.forkHeads = (@ \ {d.head}) \cup {d.parent[d.head]}]

\* Mutant: the comparator is asked about every node, longer or not.
ChooseHeadByComparator(d, n) ==
    {IF h = NoNode THEN FallBack(d) ELSE [d EXCEPT !.head = h] : h \in Choices(d, n)}

ChooseHead(d, n) ==
    IF d.revision[n] > d.revision[d.head] THEN {[d EXCEPT !.head = n]}
    ELSE IF d.revision[n] = d.revision[d.head]
    THEN {IF h = NoNode THEN FallBack(d) ELSE [d EXCEPT !.head = h] : h \in Choices(d, n)}
    ELSE {d}

\* Mutant: the head is not spared.
RecordForkHeadAlways(d, n) == [d EXCEPT !.forkHeads = (@ \ {d.parent[n]}) \cup {n}]

\* n takes its parent's place among the fork heads, unless that parent is the head.
RecordForkHead(d, n) ==
    IF d.parent[n] # d.head
    THEN [d EXCEPT !.forkHeads = (@ \ {d.parent[n]}) \cup {n}]
    ELSE d

FinalizeNode(d, n) ==
    {RecordForkHead(e, n) : e \in ChooseHead([d EXCEPT !.finalized = @ \cup {n}], n)}

-----------------------------------------------------------------------------
(* Removing nodes: discard_node and commit_node *)

\* The walk over doomed nodes is breadth first and throws when it meets the
\* head: by then it has dropped every doomed node above the head's level, and
\* those of that level that precede the head, from the fork heads.
CannotDiscard(d, doomed) ==
    LET above == {m \in doomed : d.revision[m] < d.revision[d.head]}
        level == {m \in doomed \ {d.head} : d.revision[m] = d.revision[d.head]}
    IN  {[d EXCEPT !.forkHeads = @ \ (above \cup before)] : before \in SUBSET level}

Erase(d, doomed) ==
    [d EXCEPT !.index     = @ \ doomed,
              !.parent    = Forget(@, doomed, NoNode),
              !.revision  = Forget(@, doomed, 0),
              !.finalized = @ \ doomed,
              !.forkHeads = @ \ doomed]

\* A parent left with no child in the index becomes a fork head again.
RestoreForkHead(d, p) ==
    IF \E m \in d.index : d.parent[m] = p THEN d
    ELSE [d EXCEPT !.forkHeads = @ \cup {p}]

\* Mutant: the children of the discarded node stay.
DiscardNodeOnly(d, n) ==
    IF n \notin d.index \/ n \in {d.root, d.head} THEN {d}
    ELSE {RestoreForkHead(Erase(d, {n}), d.parent[n])}

DiscardNode(d, n) ==
    IF n \notin d.index \/ n = d.root THEN {d}
    ELSE IF d.head \in Subtree(d, n) THEN CannotDiscard(d, Subtree(d, n))
    ELSE {RestoreForkHead(Erase(d, Subtree(d, n)), d.parent[n])}

\* Mutant: the delta is squashed into the root in memory and never written.
MoveRootInMemory(d, n) == [d EXCEPT !.root = n, !.parent[n] = NoNode]

\* Mutant: the metadata keeps the revision of the root before.
MoveRootStaleRevision(d, n) ==
    [d EXCEPT !.root = n, !.parent[n] = NoNode, !.disk.id = n]

\* state_delta::commit: n is written to the backend, with its id and revision in one
\* batch, and cut from its parent.
MoveRoot(d, n) ==
    [d EXCEPT !.root      = n,
              !.parent[n] = NoNode,
              !.disk      = [id |-> n, revision |-> d.revision[n]]]

\* commit_node: n becomes the root; then everything else below the old root is
\* discarded.  If the head is there, the discard throws with the root already moved:
\* the database is torn.  (The parent id of both roots is null, so no fork head is
\* restored.)
CommitNode(d, n) ==
    LET kept   == Subtree(d, n)
        doomed == Subtree(d, d.root) \ kept
        moved  == MoveRoot(d, n)
    IN  IF n = d.root THEN {d}
        ELSE IF d.head \in kept THEN {Erase(moved, doomed)}
        ELSE {[e EXCEPT !.torn = TRUE] : e \in CannotDiscard(moved, doomed)}

-----------------------------------------------------------------------------
(* Queries *)

\* get_node_at_revision: the node of revision r that child descends from.
NodeAtRevision(d, r, child) ==
    {m \in d.index : d.revision[m] = r /\ child \in Subtree(d, m)}

-----------------------------------------------------------------------------
(* What every operation preserves while the database is open and not torn *)

\* The nodes form a tree with finalized interior nodes, rooted at d.root.
Rooted(d) ==
    /\ d.root \in d.finalized
    /\ d.finalized \subseteq d.index
    /\ d.parent[d.root] = NoNode
    /\ d.index \subseteq Subtree(d, d.root)
    /\ \A n \in d.index \ {d.root} :
        /\ d.parent[n] \in d.finalized
        /\ d.revision[n] = d.revision[d.parent[n]] + 1
        /\ d.revision[n] > d.revision[d.root]

Sound(d) ==
    /\ d \in Database
    /\ \A n \in Node \ d.index : d.parent[n] = NoNode /\ d.revision[n] = 0
    /\ ~d.torn
    /\ Rooted(d)
    /\ d.head \in d.forkHeads
    /\ d.forkHeads \subseteq d.finalized
    /\ d.disk = [id |-> d.root, revision |-> d.revision[d.root]]

\* What the comparators keep as well, except pob: the head ends a longest chain, ...
HeadIsLongest(d) == \A n \in d.finalized : d.revision[n] <= d.revision[d.head]

\* ... under block_time the oldest of those, ...
HeadIsEarliest(d) ==
    \A n \in d.finalized :
        d.revision[n] = d.revision[d.head] => Timestamp[d.head] <= Timestamp[n]

\* ... and no fork head has a finalized child.
ForksAreTips(d) == \A n \in d.finalized : d.parent[n] \notin d.forkHeads

ForkChoice(d) ==
    /\ d.comp # "pob" => HeadIsLongest(d) /\ ForksAreTips(d)
    /\ d.comp = "block_time" => HeadIsEarliest(d)
=============================================================================
