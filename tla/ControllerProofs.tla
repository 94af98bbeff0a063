-------------------------- MODULE ControllerProofs --------------------------
(***************************************************************************)
(* The safety properties of Controller for any number of threads, any tree *)
(* of blocks, any threshold and every fork resolution algorithm.           *)
(*                                                                         *)
(* ChainInv is what every section of apply_block keeps of the database,    *)
(* IInv adds what a thread may assume of its block between two sections.   *)
(***************************************************************************)
EXTENDS Controller, StateTreeProofs

\* No ancestor of b is in the index: create_writable_node can never insert b again.
Dead(d, b) == Ancestors(b) \cap d.index = {}

ExactForks(d) ==
    d.comp # "pob" =>
        d.forkHeads = {n \in d.finalized : \A m \in d.finalized : d.parent[m] # n}

\* The tree of state nodes follows the headers, and nothing above its root is in it.
HeaderInv(d) ==
    /\ Sound(d)
    /\ \A n \in d.index \ {d.root} : n \in Block /\ d.parent[n] = Previous[n]
    /\ Ancestors(d.root) \cap d.index \subseteq {d.root}
    /\ \A n \in d.finalized : d.revision[n] = Height[n]
    /\ ExactForks(d)

ChainInv(d) ==
    /\ HeaderInv(d)
    /\ \A n \in d.finalized : d.revision[n] <= d.revision[d.root] + Threshold

\* get_last_irreversible_block of a block of height h.
Irreversible(h) == IF h > Threshold THEN h - Threshold ELSE 0

Applying(t) == pc[t] \in {"execute", "finalize"}

\* The node of thread t waits for finalize_node, or its branch was discarded.
Waiting(t) ==
    /\ block[t] \in store
    /\ lib[t] = Irreversible(Height[block[t]])
    /\ \/ /\ block[t] \in db.index \ db.finalized
          /\ db.revision[block[t]] = Height[block[t]]
       \/ Dead(db, block[t])

ThreadInv(t) ==
    /\ pc[t] = "idle" <=> block[t] = NoNode
    /\ pc[t] = "execute" => block[t] \in db.index \ db.finalized
    /\ pc[t] = "finalize" => Waiting(t)
    /\ pc[t] \in {"announce", "broadcast"} => block[t] \in db.finalized \/ Dead(db, block[t])
    /\ pc[t] = "broadcast" => forkData[t] = db.root
    /\ \A u \in Thread \ {t} : Applying(t) /\ Applying(u) => block[u] # block[t]

Owned == \A n \in db.index \ db.finalized : \E t \in Thread : block[t] = n /\ Applying(t)

IInv ==
    /\ TypeOK
    /\ ChainInv(db)
    /\ \A t \in Thread : ThreadInv(t)
    /\ Owned
    /\ db.comp # "pob" => cachedHead \in {NoNode, db.head}
    /\ StoreCoversState
    /\ heardLib = db.root \/ Height[heardLib] < Height[db.root]

-----------------------------------------------------------------------------
(* Ancestors is the least set that holds its block and is closed under previous() *)

\* A block is among its own ancestors.
LEMMA AncestorSelf ==
    ASSUME NEW b \in Node
    PROVE  b \in Ancestors(b)
  BY DEF Ancestors

\* previous() of an ancestor is an ancestor.
LEMMA AncestorPrevious ==
    ASSUME NEW b, NEW x \in Ancestors(b) \cap Block
    PROVE  Previous[x] \in Ancestors(b)
<1>1. Previous[x] \in Node
  BY BlockAssumption
<1> QED BY <1>1 DEF Ancestors

\* Following previous() leads to nothing else.
LEMMA AncestorLeast ==
    ASSUME NEW S \in SUBSET Node, NEW b \in S, \A x \in S \cap Block : Previous[x] \in S
    PROVE  Ancestors(b) \subseteq S
  BY DEF Ancestors

\* The previous block is an ancestor.
LEMMA PreviousIsAncestor ==
    ASSUME NEW b \in Block
    PROVE  Previous[b] \in Node /\ Previous[b] \in Ancestors(b)
  BY AncestorSelf, AncestorPrevious, BlockAssumption DEF Block

\* In the index the header chain and the tree of state nodes agree: a node hangs below
\* each of its ancestors that is still in the index.
LEMMA AncestorAbove ==
    ASSUME NEW d, HeaderInv(d), NEW b \in d.index, NEW x \in Ancestors(b) \cap d.index
    PROVE  b \in Subtree(d, x)
<1> DEFINE S == {y \in d.index : b \in Subtree(d, y)} \cup Ancestors(d.root)
<1>0. /\ d.index \subseteq Node /\ d.root \in d.index /\ d.finalized \subseteq d.index
      /\ d.index \subseteq Subtree(d, d.root)
  BY DEF HeaderInv, Sound, Rooted, Database
<1>1. S \in SUBSET Node
  BY <1>0 DEF Ancestors
<1>2. b \in S
  BY SubtreeSelf
<1>3. ASSUME NEW y \in S \cap Block PROVE Previous[y] \in S
  <2>1. CASE y \in Ancestors(d.root)
    BY <1>3, <2>1, AncestorPrevious
  <2>2. CASE y \in d.index /\ b \in Subtree(d, y) /\ y \notin Ancestors(d.root)
    <3>1. y # d.root
      BY <1>0, <2>2, AncestorSelf
    <3>2. d.parent[y] = Previous[y] /\ d.parent[y] \in d.index
      BY <1>0, <2>2, <3>1 DEF HeaderInv, Sound, Rooted
    <3>3. y \in Subtree(d, d.parent[y])
      BY <2>2, <3>2, SubtreeSelf, SubtreeClosed DEF ChildClosed
    <3>4. b \in Subtree(d, d.parent[y])
      BY <2>2, <3>3, SubtreeTransitive
    <3> QED BY <3>2, <3>4
  <2> QED BY <2>1, <2>2
<1>4. x \in S
  BY <1>1, <1>2, <1>3, AncestorLeast
<1> QED BY <1>0, <1>4 DEF HeaderInv

-----------------------------------------------------------------------------
(* The sections of apply_block on the database *)

\* open: a database with one node.
LEMMA OpenChain ==
    ASSUME NEW comp \in Algorithm, NEW id \in Node
    PROVE  LET d == Open(comp, [id |-> id, revision |-> Height[id]])
           IN  /\ ChainInv(d) /\ d.index = {id} /\ d.finalized = {id} /\ d.root = id
               /\ d.head = id /\ d.comp = comp
<1> DEFINE disk == [id |-> id, revision |-> Height[id]]
           d    == Open(comp, disk)
<1>0. disk \in [id : Node, revision : Nat] /\ Height[id] \in Nat
  BY BlockAssumption
<1>1. /\ d.index = {id} /\ d.finalized = {id} /\ d.root = id /\ d.comp = comp
      /\ d.head = id /\ d.forkHeads = {id} /\ d.revision[id] = Height[id]
      /\ d.parent[id] = NoNode
  BY DEF Open, Closed
<1>2. Sound(d)
  BY <1>0, OpenSound
<1> HIDE DEF d, disk
<1>3. ExactForks(d)
  BY <1>1, NodeAssumption DEF ExactForks
<1>4. d.revision[id] <= d.revision[id] + Threshold
  BY <1>0, <1>1, ThresholdAssumption
<1>5. ChainInv(d)
  BY <1>1, <1>2, <1>3, <1>4 DEF ChainInv, HeaderInv
<1> QED BY <1>1, <1>5 DEF d, disk

\* create_writable_node for a block whose previous block is finalized: what was dead
\* stays dead.
LEMMA CreateChain ==
    ASSUME NEW d, ChainInv(d), NEW n \in Block, CanCreate(d, Previous[n], n)
    PROVE  LET e == CreateWritableNode(d, Previous[n], n)
           IN  /\ ChainInv(e)
               /\ e.index = d.index \cup {n} /\ e.finalized = d.finalized
               /\ e.root = d.root /\ e.head = d.head /\ e.comp = d.comp
               /\ \A m \in d.index : e.revision[m] = d.revision[m]
               /\ \A b \in Node : Dead(d, b) => Dead(e, b)
<1> DEFINE p == Previous[n]
           e == CreateWritableNode(d, p, n)
<1>0. /\ d \in Database /\ d.index \subseteq Node /\ d.finalized \subseteq d.index
      /\ d.root \in d.index /\ d.revision \in [Node -> Nat]
      /\ d.parent \in [Node -> Node \cup {NoNode}]
      /\ p \in d.finalized /\ p \in d.index /\ n \in Node \ d.index
  BY DEF ChainInv, HeaderInv, Sound, Rooted, Database, CanCreate
<1>1. /\ e.index = d.index \cup {n} /\ e.finalized = d.finalized /\ e.forkHeads = d.forkHeads
      /\ e.root = d.root /\ e.head = d.head /\ e.comp = d.comp
      /\ e.parent = [d.parent EXCEPT ![n] = p]
      /\ e.revision = [d.revision EXCEPT ![n] = d.revision[p] + 1]
  BY <1>0 DEF CreateWritableNode, AddNode, Database
<1>2. Sound(e)
  BY CreateSound DEF ChainInv, HeaderInv
<1> HIDE DEF e
<1>3. \A m \in d.index : e.revision[m] = d.revision[m] /\ e.parent[m] = d.parent[m]
  BY <1>0, <1>1
<1>4. \A m \in e.index \ {e.root} : m \in Block /\ e.parent[m] = Previous[m]
  BY <1>0, <1>1, <1>3 DEF ChainInv, HeaderInv
<1>5. n \notin Ancestors(d.root)
  <2> SUFFICES ASSUME n \in Ancestors(d.root) PROVE FALSE
    OBVIOUS
  <2>1. p \in Ancestors(d.root)
    BY AncestorPrevious
  <2>2. p = d.root
    BY <1>0, <2>1 DEF ChainInv, HeaderInv
  <2> QED BY <2>2, HashAssumption
<1>6. Ancestors(e.root) \cap e.index \subseteq {e.root}
  BY <1>1, <1>5 DEF ChainInv, HeaderInv
<1>7. /\ \A m \in e.finalized : e.revision[m] = Height[m]
      /\ \A m \in e.finalized : e.revision[m] <= e.revision[e.root] + Threshold
  BY <1>0, <1>1, <1>3 DEF ChainInv, HeaderInv
<1>8. ExactForks(e)
  BY <1>0, <1>1, <1>3 DEF ChainInv, HeaderInv, ExactForks
<1>9. ASSUME NEW b \in Node, Dead(d, b) PROVE Dead(e, b)
  <2>1. n \notin Ancestors(b)
    BY <1>0, <1>9, AncestorPrevious DEF Dead
  <2> QED BY <1>1, <1>9, <2>1 DEF Dead
<1>10. ChainInv(e)
  BY <1>2, <1>4, <1>6, <1>7, <1>8 DEF ChainInv, HeaderInv
<1> QED BY <1>1, <1>3, <1>9, <1>10 DEF e

\* discard_node of the writable node of a block that failed.
LEMMA DiscardChain ==
    ASSUME NEW d, ChainInv(d), NEW n \in d.index \ d.finalized, NEW e \in DiscardNode(d, n)
    PROVE  /\ ChainInv(e)
           /\ e.index = d.index \ {n} /\ e.finalized = d.finalized
           /\ e.root = d.root /\ e.head = d.head /\ e.comp = d.comp
           /\ \A m \in e.index : e.revision[m] = d.revision[m]
<1>0. /\ d.index \subseteq Node /\ d.finalized \subseteq d.index \ {n}
      /\ d.root \in d.finalized /\ n \in Node
      /\ d.parent[n] \in d.finalized
  BY DEF ChainInv, HeaderInv, Sound, Rooted, Database
<1>1. Sound(d)
  BY DEF ChainInv, HeaderInv
<1>2. /\ e.index = d.index \ {n} /\ e.finalized = d.finalized
      /\ e.head = d.head /\ e.root = d.root /\ e.comp = d.comp
      /\ \A m \in Node \ {n} : /\ e.parent[m] = d.parent[m]
                               /\ e.revision[m] = d.revision[m]
      /\ \/ e.forkHeads = d.forkHeads
         \/ /\ e.forkHeads = d.forkHeads \cup {d.parent[n]}
            /\ \A m \in e.index : e.parent[m] # d.parent[n]
  BY <1>1, DiscardWritable
<1>3. Sound(e)
  BY <1>0, <1>1, DiscardSound
<1>4. \A m \in e.index \ {e.root} : m \in Block /\ e.parent[m] = Previous[m]
  BY <1>0, <1>2 DEF ChainInv, HeaderInv
<1>5. /\ Ancestors(e.root) \cap e.index \subseteq {e.root}
      /\ \A m \in e.finalized : e.revision[m] = Height[m]
      /\ \A m \in e.finalized : e.revision[m] <= e.revision[e.root] + Threshold
  BY <1>0, <1>2 DEF ChainInv, HeaderInv
<1>6. ExactForks(e)
  BY <1>0, <1>2 DEF ChainInv, HeaderInv, ExactForks
<1>7. ChainInv(e)
  BY <1>3, <1>4, <1>5, <1>6 DEF ChainInv, HeaderInv
<1> QED BY <1>0, <1>2, <1>7

\* finalize_node keeps tree and headers together.
LEMMA FinalizeHeader ==
    ASSUME NEW d, HeaderInv(d), NEW n \in d.index \ d.finalized, d.revision[n] = Height[n],
           NEW c \in FinalizeNode(d, n)
    PROVE  HeaderInv(c)
<1>0. /\ d \in Database /\ d.index \subseteq Node /\ d.finalized \subseteq d.index
      /\ d.forkHeads \subseteq d.finalized /\ n # d.root /\ NoNode \notin Node
      /\ d.parent[d.root] = NoNode
      /\ \A m \in d.index \ {d.root} : d.parent[m] \in d.finalized
  BY NodeAssumption DEF HeaderInv, Sound, Rooted, Database
<1>1. /\ c.index = d.index /\ c.parent = d.parent /\ c.revision = d.revision
      /\ c.root = d.root /\ c.comp = d.comp /\ c.finalized = d.finalized \cup {n}
  BY <1>0, FinalizeFrame
<1>2. Sound(c)
  BY FinalizeSound DEF HeaderInv
<1>3. ExactForks(c)
  <2> SUFFICES ASSUME c.comp # "pob"
               PROVE  c.forkHeads
                        = {x \in c.finalized : \A m \in c.finalized : c.parent[m] # x}
    BY DEF ExactForks
  <2>1. c.forkHeads = (d.forkHeads \ {d.parent[n]}) \cup {n}
    BY <1>1, FinalizeHeads DEF HeaderInv
  <2>2. d.forkHeads = {x \in d.finalized : \A m \in d.finalized : d.parent[m] # x}
    BY <1>1 DEF HeaderInv, ExactForks
  <2>3. \A m \in d.finalized \cup {n} : d.parent[m] # n
    BY <1>0
  <2> QED BY <1>1, <2>1, <2>2, <2>3
<1> QED BY <1>1, <1>2, <1>3 DEF HeaderInv

\* commit_node with the head below the new root: the blocks it drops are dead.
LEMMA CommitHeader ==
    ASSUME NEW c, HeaderInv(c), NEW m \in c.finalized, c.head \in Subtree(c, m),
           NEW e \in CommitNode(c, m)
    PROVE  /\ HeaderInv(e)
           /\ e.root = m /\ e.head = c.head /\ e.comp = c.comp
           /\ e.index \subseteq c.index /\ e.finalized = c.finalized \cap e.index
           /\ \A x \in e.index : e.revision[x] = c.revision[x]
           /\ \A b \in c.index \ e.index : Dead(e, b)
<1> DEFINE kept == Subtree(c, m)
<1>0. /\ c \in Database /\ c.index \subseteq Node /\ c.finalized \subseteq c.index
      /\ c.forkHeads \subseteq c.finalized /\ kept \subseteq c.index /\ m \in kept
      /\ NoNode \notin Node /\ c.root \in c.finalized /\ c.parent[c.root] = NoNode
      /\ c.revision \in [Node -> Nat]
  BY SubtreeSelf, NodeAssumption DEF HeaderInv, Sound, Rooted, Database, Subtree
<1>1. /\ ~e.torn /\ e.root = m /\ e.head = c.head /\ e.comp = c.comp
      /\ e.index = kept /\ e.finalized = c.finalized \cap kept
      /\ e.forkHeads = c.forkHeads \cap kept
      /\ \A x \in kept : e.revision[x] = c.revision[x]
      /\ \A x \in kept \ {m} : e.parent[x] = c.parent[x]
  BY CommitFrame DEF HeaderInv
<1>2. Sound(e)
  <2>1. ~e.torn => Sound(e)
    BY CommitSound DEF HeaderInv
  <2> QED BY <1>1, <2>1
<1>3. \A x \in kept \ {m} : x # c.root /\ c.revision[x] > c.revision[m]
  BY <1>0, SubtreeBelow DEF HeaderInv, Sound, Rooted
<1>4. ChildClosed(c, kept)
  BY SubtreeClosed
<1>5. ASSUME NEW b \in c.index \ kept PROVE Ancestors(b) \cap kept = {}
  <2> SUFFICES ASSUME NEW x \in Ancestors(b) \cap kept PROVE FALSE
    OBVIOUS
  <2>1. b \in Subtree(c, x)
    BY <1>0, AncestorAbove
  <2> QED BY <2>1, SubtreeTransitive
<1>6. ASSUME NEW x \in Ancestors(m) \cap kept PROVE x = m
  <2> SUFFICES ASSUME x # m PROVE FALSE
    OBVIOUS
  <2>1. m \in Subtree(c, x) /\ x \in c.index
    BY <1>0, AncestorAbove
  <2>2. c.revision[m] > c.revision[x]
    BY <2>1, SubtreeBelow DEF HeaderInv
  <2> QED BY <1>0, <1>3, <2>1, <2>2
<1>7. e.parent[m] = NoNode
  BY <1>1, <1>2 DEF Sound, Rooted
<1>8. c.parent[m] \notin kept
  BY <1>0, BranchBelow DEF HeaderInv
<1> HIDE DEF kept
<1>9. ExactForks(e)
  <2> SUFFICES ASSUME e.comp # "pob"
               PROVE  e.forkHeads
                        = {x \in e.finalized : \A y \in e.finalized : e.parent[y] # x}
    BY DEF ExactForks
  <2>1. c.forkHeads = {x \in c.finalized : \A y \in c.finalized : c.parent[y] # x}
    BY <1>1 DEF HeaderInv, ExactForks
  <2>2. ASSUME NEW x \in kept, NEW y \in c.finalized
        PROVE  c.parent[y] = x <=> y \in kept /\ e.parent[y] = x
    BY <1>0, <1>1, <1>4, <1>7, <1>8 DEF ChildClosed
  <2> QED BY <1>1, <2>1, <2>2
<1>10. \A x \in e.index \ {e.root} : x \in Block /\ e.parent[x] = Previous[x]
  BY <1>0, <1>1, <1>3 DEF HeaderInv
<1>11. \A x \in e.finalized : e.revision[x] = Height[x]
  BY <1>0, <1>1 DEF HeaderInv
<1>12. HeaderInv(e)
  BY <1>1, <1>2, <1>6, <1>9, <1>10, <1>11 DEF HeaderInv
<1> QED BY <1>0, <1>1, <1>5, <1>12 DEF Dead

\* The section under the exclusive lock: finalize_node, then commit_node of the last
\* irreversible block.  A block whose irreversible block is above the root is longer than
\* every finalized one, hence the head, so that the commit cannot throw.
LEMMA AdvanceChain ==
    ASSUME NEW d, ChainInv(d), NEW n \in d.index \ d.finalized, d.revision[n] = Height[n],
           NEW c \in FinalizeNode(d, n), NEW e \in AdvanceLib(c, Irreversible(Height[n]), n)
    PROVE  /\ ChainInv(e) /\ e.head = c.head /\ e.comp = d.comp
           /\ d.comp # "pob" => c.head \in {n, d.head}
           /\ e.root = d.root \/ Height[d.root] < Height[e.root]
           /\ e.index \subseteq d.index /\ e.finalized = (d.finalized \cup {n}) \cap e.index
           /\ \A x \in e.index : e.revision[x] = d.revision[x]
           /\ \A b \in d.index \ e.index : Dead(e, b)
<1> DEFINE r == Irreversible(Height[n])
<1>0. /\ d \in Database /\ d.index \subseteq Node /\ d.finalized \subseteq d.index
      /\ d.root \in d.finalized /\ d.head \in d.finalized /\ d.revision \in [Node -> Nat]
      /\ Threshold \in Nat /\ HeaderInv(d)
      /\ d.revision[n] \in Nat /\ d.revision[d.root] \in Nat /\ d.revision[d.head] \in Nat
  BY ThresholdAssumption DEF ChainInv, HeaderInv, Sound, Rooted, Database
<1>1. /\ c.index = d.index /\ c.revision = d.revision /\ c.root = d.root /\ c.comp = d.comp
      /\ c.finalized = d.finalized \cup {n}
  BY <1>0, FinalizeFrame
<1>2. HeaderInv(c)
  BY <1>0, FinalizeHeader
<1>3. d.comp # "pob" => c.head \in {n, d.head}
  BY <1>0, FinalizeHeads DEF HeaderInv
<1>4. r = IF d.revision[n] > Threshold THEN d.revision[n] - Threshold ELSE 0
  BY DEF Irreversible
<1>5. \A x \in d.finalized : d.revision[x] <= d.revision[d.root] + Threshold
  BY DEF ChainInv
<1>6. r \in Nat
  BY <1>0, <1>4
<1> HIDE DEF r
<1>7. CASE r > d.revision[d.root]
  <2>1. PICK m \in NodeAtRevision(c, r, n) : e \in CommitNode(c, m)
    BY <1>1, <1>7 DEF AdvanceLib, r
  <2>2. m \in d.index /\ d.revision[m] = r /\ n \in Subtree(c, m)
    BY <1>1, <2>1 DEF NodeAtRevision
  <2>3. d.revision[n] > d.revision[d.head] /\ d.revision[n] = r + Threshold
    BY <1>0, <1>4, <1>5, <1>7
  <2>4. c.head = n
    BY <1>0, <2>3, LongerIsHead
  <2>5. m \in c.finalized
    <3> SUFFICES ASSUME m \notin c.finalized PROVE FALSE
      OBVIOUS
    <3>1. Subtree(c, m) = {m}
      BY <1>1, <1>2, <2>2, WritableLeaf DEF HeaderInv
    <3> QED BY <1>1, <2>2, <3>1
  <2>6. /\ HeaderInv(e)
        /\ e.root = m /\ e.head = c.head /\ e.comp = c.comp
        /\ e.index \subseteq c.index /\ e.finalized = c.finalized \cap e.index
        /\ \A x \in e.index : e.revision[x] = c.revision[x]
        /\ \A b \in c.index \ e.index : Dead(e, b)
    BY <1>2, <2>1, <2>2, <2>4, <2>5, CommitHeader
  <2>7. e.root \in e.index /\ e.revision[e.root] = r
    BY <1>1, <2>2, <2>6 DEF HeaderInv, Sound, Rooted
  <2>8. ASSUME NEW x \in e.finalized PROVE e.revision[x] <= e.revision[e.root] + Threshold
    <3>1. e.revision[x] = d.revision[x] /\ x \in d.finalized \cup {n} /\ x \in Node
      BY <1>0, <1>1, <2>6
    <3>2. d.revision[x] <= r + Threshold
      BY <1>0, <1>5, <1>6, <1>7, <2>3, <3>1
    <3> QED BY <2>7, <3>1, <3>2
  <2>9. Height[d.root] < Height[e.root]
    <3>1. Height[d.root] = d.revision[d.root]
      BY <1>0 DEF HeaderInv
    <3>2. Height[e.root] = r
      BY <2>6, <2>7 DEF HeaderInv, Sound, Rooted
    <3> QED BY <1>0, <1>6, <1>7, <3>1, <3>2
  <2>10. ChainInv(e)
    BY <2>6, <2>8 DEF ChainInv
  <2> QED BY <1>1, <1>3, <2>6, <2>9, <2>10
<1>8. CASE ~(r > d.revision[d.root])
  <2>1. e = c
    BY <1>1, <1>8 DEF AdvanceLib, r
  <2>2. d.revision[n] <= d.revision[d.root] + Threshold
    BY <1>0, <1>4, <1>8
  <2>3. ChainInv(c)
    BY <1>1, <1>2, <1>5, <2>2 DEF ChainInv
  <2> QED BY <1>0, <1>1, <1>3, <2>1, <2>3
<1> QED BY <1>7, <1>8

-----------------------------------------------------------------------------
(* What a step of one thread means for the others *)

\* A thread outside the step keeps its invariant if the step took its node only with the
\* whole branch, and moved the root only while it was not between get_fork_data and its
\* broadcast.
LEMMA ThreadFrame ==
    ASSUME NEW u \in Thread, ThreadInv(u), store \subseteq store',
           pc'[u] = pc[u], block'[u] = block[u], lib'[u] = lib[u], forkData'[u] = forkData[u],
           pc[u] = "execute" => block[u] \in db'.index \ db'.finalized,
           pc[u] = "finalize" /\ block[u] \in db.index \ db.finalized
               => \/ /\ block[u] \in db'.index \ db'.finalized
                     /\ db'.revision[block[u]] = db.revision[block[u]]
                  \/ Dead(db', block[u]),
           pc[u] # "idle" /\ Dead(db, block[u]) => Dead(db', block[u]),
           pc[u] \in {"announce", "broadcast"} /\ block[u] \in db.finalized
               => block[u] \in db'.finalized \/ Dead(db', block[u]),
           pc[u] = "broadcast" => db'.root = db.root,
           \A v \in Thread \ {u} : Applying(u) /\ Applying(v)' => block'[v] # block[u]
    PROVE  ThreadInv(u)'
<1>1. (pc[u] = "idle" <=> block[u] = NoNode)'
  BY DEF ThreadInv
<1>2. (pc[u] = "execute" => block[u] \in db.index \ db.finalized)'
  OBVIOUS
<1>3. (pc[u] = "finalize" => Waiting(u))'
  <2> SUFFICES ASSUME pc[u] = "finalize" PROVE Waiting(u)'
    OBVIOUS
  <2>1. Waiting(u)
    BY DEF ThreadInv
  <2> QED BY <2>1 DEF Waiting
<1>4. (pc[u] \in {"announce", "broadcast"} => block[u] \in db.finalized \/ Dead(db, block[u]))'
  <2> SUFFICES ASSUME pc[u] \in {"announce", "broadcast"}
               PROVE  block[u] \in db'.finalized \/ Dead(db', block[u])
    OBVIOUS
  <2>1. block[u] \in db.finalized \/ Dead(db, block[u])
    BY DEF ThreadInv
  <2> QED BY <2>1
<1>5. (pc[u] = "broadcast" => forkData[u] = db.root)'
  BY DEF ThreadInv
<1>6. (\A v \in Thread \ {u} : Applying(u) /\ Applying(v) => block[v] # block[u])'
  BY DEF Applying
<1> QED BY <1>1, <1>2, <1>3, <1>4, <1>5, <1>6 DEF ThreadInv

\* A step of thread t that leaves the database alone, and with which t does not start to
\* apply a block, means nothing to the others.
LEMMA OtherThreads ==
    ASSUME \A u \in Thread : ThreadInv(u), db' = db, store \subseteq store', NEW t \in Thread,
           \A u \in Thread \ {t} : /\ pc'[u] = pc[u] /\ block'[u] = block[u]
                                   /\ lib'[u] = lib[u] /\ forkData'[u] = forkData[u],
           Applying(t)' => Applying(t) /\ block'[t] = block[t]
    PROVE  \A u \in Thread \ {t} : ThreadInv(u)'
<1> SUFFICES ASSUME NEW u \in Thread \ {t} PROVE ThreadInv(u)'
  OBVIOUS
<1>1. ThreadInv(u)
  OBVIOUS
<1>2. \A v \in Thread \ {u} : Applying(u) /\ Applying(v)' => block'[v] # block[u]
  BY <1>1 DEF ThreadInv, Applying
<1>3. pc[u] = "execute" => block[u] \in db.index \ db.finalized
  BY <1>1 DEF ThreadInv
<1> QED BY <1>1, <1>2, <1>3, ThreadFrame
-----------------------------------------------------------------------------
(* The sections of apply_block that leave the database alone *)

\* The lookup takes a block that has its parent and no node.
LEMMA LookupStep ==
    ASSUME IInv, NEW t \in Thread, NEW b \in Block, Lookup(t, b)
    PROVE  IInv'
<1>1. /\ pc \in [Thread -> Label] /\ block \in [Thread -> Block \cup {NoNode}]
      /\ b # NoNode
  BY NodeAssumption DEF IInv, TypeOK, Block
<1>2. /\ pc' = [pc EXCEPT ![t] = "create"] /\ block' = [block EXCEPT ![t] = b] /\ pc[t] = "idle"
      /\ UNCHANGED <<db, store, cachedHead, lib, forkData, heardLib, heard>>
  BY DEF Lookup, Goto
<1>3. TypeOK'
  BY <1>1, <1>2 DEF IInv, TypeOK, Label
<1>4. ~Applying(t) /\ ~Applying(t)'
  BY <1>1, <1>2 DEF Applying
<1>5. \A u \in Thread \ {t} : ThreadInv(u)'
  BY <1>1, <1>2, <1>4, OtherThreads DEF IInv
<1>6. ThreadInv(t)'
  BY <1>1, <1>2 DEF ThreadInv, Applying
<1>7. Owned'
  BY <1>1, <1>2, <1>4 DEF IInv, Owned, Applying
<1> QED BY <1>2, <1>3, <1>5, <1>6, <1>7 DEF IInv, StoreCoversState

\* A call that ends without a node of its own leaves no node behind.
LEMMA ReturnStep ==
    ASSUME IInv, NEW t \in Thread, Return(t),
           Applying(t) => block[t] \notin db.index,
           UNCHANGED <<db, store, cachedHead>>,
           heardLib' \in Node, heard' \subseteq Block,
           heardLib' \in {heardLib, db.root}
    PROVE  IInv'
<1>1. /\ pc \in [Thread -> Label] /\ block \in [Thread -> Block \cup {NoNode}]
      /\ lib \in [Thread -> Nat] /\ forkData \in [Thread -> Node \cup {NoNode}]
  BY DEF IInv, TypeOK
<1>2. /\ pc' = [pc EXCEPT ![t] = "idle"] /\ block' = [block EXCEPT ![t] = NoNode]
      /\ lib' = [lib EXCEPT ![t] = 0] /\ forkData' = [forkData EXCEPT ![t] = NoNode]
  BY DEF Return
<1>3. TypeOK'
  BY <1>1, <1>2 DEF IInv, TypeOK, Label
<1>4. ~Applying(t)'
  BY <1>1, <1>2 DEF Applying
<1>5. \A u \in Thread \ {t} : ThreadInv(u)'
  BY <1>1, <1>2, <1>4, OtherThreads DEF IInv
<1>6. ThreadInv(t)'
  BY <1>1, <1>2 DEF ThreadInv, Applying
<1>7. Owned'
  BY <1>1, <1>2, <1>4 DEF IInv, Owned, Applying
<1> QED BY <1>3, <1>5, <1>6, <1>7 DEF IInv, StoreCoversState

\* After the execution the node has the height of its block: the controller checked it
\* against the parent's revision, and create_writable_node counted from there.
LEMMA ExecuteStep ==
    ASSUME IInv, NEW t \in Thread, Execute(t)
    PROVE  IInv'
<1> DEFINE b == block[t]
<1>1. /\ pc \in [Thread -> Label] /\ block \in [Thread -> Block \cup {NoNode}]
      /\ lib \in [Thread -> Nat] /\ ThreadInv(t) /\ HeaderInv(db) /\ Sound(db)
  BY DEF IInv, TypeOK, ChainInv, HeaderInv
<1>2. /\ pc[t] = "execute" /\ pc' = [pc EXCEPT ![t] = "finalize"]
      /\ Height[b] = db.revision[Previous[b]] + 1
      /\ store' = store \cup {b} /\ lib' = [lib EXCEPT ![t] = LastIrreversible(b)]
      /\ UNCHANGED <<db, cachedHead, block, forkData, heardLib, heard>>
  BY DEF Execute, Goto
<1>3. b \in db.index \ db.finalized /\ b \in Block
  BY <1>1, <1>2 DEF ThreadInv
<1>4. db.revision[b] = Height[b] /\ Height[b] \in Nat
  <2>1. b # db.root
    BY <1>1, <1>3 DEF Sound, Rooted
  <2>2. db.parent[b] = Previous[b] /\ db.revision[b] = db.revision[db.parent[b]] + 1
    BY <1>1, <1>3, <2>1 DEF HeaderInv, Sound, Rooted
  <2> QED BY <1>2, <1>3, <2>2, BlockAssumption DEF Block
<1>5. LastIrreversible(b) = Irreversible(Height[b]) /\ Irreversible(Height[b]) \in Nat
  BY <1>4, ThresholdAssumption DEF LastIrreversible, Irreversible
<1>6. TypeOK'
  BY <1>1, <1>2, <1>3, <1>5 DEF IInv, TypeOK, Label
<1>7. Applying(t) /\ block'[t] = block[t]
  BY <1>2 DEF Applying
<1>8. \A u \in Thread \ {t} : ThreadInv(u)'
  BY <1>1, <1>2, <1>7, OtherThreads DEF IInv
<1>9. Waiting(t)'
  BY <1>1, <1>2, <1>3, <1>4, <1>5 DEF Waiting
<1>10. ThreadInv(t)'
  BY <1>1, <1>2, <1>7, <1>9 DEF ThreadInv, Applying
<1>11. Owned'
  BY <1>1, <1>2 DEF IInv, Owned, Applying
<1> QED BY <1>2, <1>6, <1>8, <1>10, <1>11 DEF IInv, StoreCoversState

\* What get_fork_data saw is the root for as long as the lock is held shared.
LEMMA ReadForkDataStep ==
    ASSUME IInv, NEW t \in Thread, ReadForkData(t)
    PROVE  IInv'
<1>1. /\ pc \in [Thread -> Label] /\ block \in [Thread -> Block \cup {NoNode}]
      /\ forkData \in [Thread -> Node \cup {NoNode}] /\ ThreadInv(t) /\ db \in Database
  BY DEF IInv, TypeOK
<1>2. /\ pc[t] = "announce" /\ pc' = [pc EXCEPT ![t] = "broadcast"]
      /\ forkData' = [forkData EXCEPT ![t] = db.root]
      /\ UNCHANGED <<db, store, cachedHead, block, lib, heardLib, heard>>
  BY DEF ReadForkData, Goto
<1>3. TypeOK'
  BY <1>1, <1>2 DEF IInv, TypeOK, Label, Database
<1>4. ~Applying(t) /\ ~Applying(t)'
  BY <1>1, <1>2 DEF Applying
<1>5. \A u \in Thread \ {t} : ThreadInv(u)'
  BY <1>1, <1>2, <1>4, OtherThreads DEF IInv
<1>6. ThreadInv(t)'
  BY <1>1, <1>2 DEF ThreadInv, Applying
<1>7. Owned'
  BY <1>1, <1>2, <1>4 DEF IInv, Owned, Applying
<1> QED BY <1>2, <1>3, <1>5, <1>6, <1>7 DEF IInv, StoreCoversState
-----------------------------------------------------------------------------
(* The sections that change the database *)

\* A created node belongs to the thread that created it alone: whoever else works on the
\* block has its node in the index, or a branch that create_writable_node refuses.
LEMMA CreateNodeStep ==
    ASSUME IInv, NEW t \in Thread, CreateNode(t)
    PROVE  IInv'
<1> DEFINE n == block[t]
<1>1. /\ pc \in [Thread -> Label] /\ block \in [Thread -> Block \cup {NoNode}]
      /\ ThreadInv(t) /\ ChainInv(db)
  BY DEF IInv, TypeOK
<1>2. /\ pc[t] = "create" /\ pc' = [pc EXCEPT ![t] = "execute"]
      /\ CanCreate(db, Previous[n], n) /\ db' = CreateWritableNode(db, Previous[n], n)
      /\ UNCHANGED <<store, cachedHead, block, lib, forkData, heardLib, heard>>
  BY DEF CreateNode, Goto
<1>3. n \in Block /\ n \notin db.index /\ Previous[n] \in db.index /\ db.finalized \subseteq db.index
  BY <1>1, <1>2 DEF ThreadInv, CanCreate, ChainInv, HeaderInv, Sound, Rooted
<1>4. /\ ChainInv(db') /\ db'.index = db.index \cup {n} /\ db'.finalized = db.finalized
      /\ db'.root = db.root /\ db'.head = db.head /\ db'.comp = db.comp
      /\ \A m \in db.index : db'.revision[m] = db.revision[m]
      /\ \A b \in Node : Dead(db, b) => Dead(db', b)
  BY <1>1, <1>2, <1>3, CreateChain
<1>5. TypeOK'
  BY <1>1, <1>2, <1>4 DEF IInv, TypeOK, Label, ChainInv, HeaderInv, Sound
<1>6. \A u \in Thread \ {t} : Applying(u) => block[u] # n
  <2> SUFFICES ASSUME NEW u \in Thread \ {t}, Applying(u), block[u] = n PROVE FALSE
    OBVIOUS
  <2>1. Dead(db, n)
    BY <1>3 DEF IInv, ThreadInv, Applying, Waiting
  <2> QED BY <2>1, <1>3, PreviousIsAncestor DEF Dead
<1>7. ThreadInv(t)'
  BY <1>1, <1>2, <1>3, <1>4, <1>6 DEF ThreadInv, Applying
<1>8. \A u \in Thread \ {t} : ThreadInv(u)'
  <2> SUFFICES ASSUME NEW u \in Thread \ {t} PROVE ThreadInv(u)'
    OBVIOUS
  <2>1. ThreadInv(u) /\ pc'[u] = pc[u] /\ block'[u] = block[u] /\ (pc[u] # "idle" => block[u] \in Node)
    BY <1>1, <1>2 DEF IInv, ThreadInv, Block
  <2>2. \A v \in Thread \ {u} : Applying(u) /\ Applying(v)' => block'[v] # block[u]
    BY <1>1, <1>2, <1>6, <2>1 DEF ThreadInv, Applying
  <2>3. pc[u] = "execute" => block[u] \in db'.index \ db'.finalized
    BY <1>4, <2>1 DEF ThreadInv
  <2>4. pc[u] = "finalize" /\ block[u] \in db.index \ db.finalized
           => /\ block[u] \in db'.index \ db'.finalized
              /\ db'.revision[block[u]] = db.revision[block[u]]
    BY <1>4
  <2> HIDE DEF n
  <2> QED BY <1>2, <1>4, <2>1, <2>2, <2>3, <2>4, ThreadFrame
<1>9. Owned'
  BY <1>1, <1>2, <1>4 DEF IInv, Owned, Applying
<1> QED BY <1>2, <1>4, <1>5, <1>7, <1>8, <1>9 DEF IInv, StoreCoversState

\* An error discards the thread's own node and no other.
LEMMA ExecuteFailsStep ==
    ASSUME IInv, NEW t \in Thread, ExecuteFails(t)
    PROVE  IInv'
<1> DEFINE n == block[t]
<1>1. /\ pc \in [Thread -> Label] /\ block \in [Thread -> Block \cup {NoNode}]
      /\ lib \in [Thread -> Nat] /\ forkData \in [Thread -> Node \cup {NoNode}]
      /\ ThreadInv(t) /\ ChainInv(db)
  BY DEF IInv, TypeOK
<1>2. /\ pc[t] = "execute" /\ db' \in DiscardNode(db, n) /\ store' \in {store, store \cup {n}}
      /\ pc' = [pc EXCEPT ![t] = "idle"] /\ block' = [block EXCEPT ![t] = NoNode]
      /\ lib' = [lib EXCEPT ![t] = 0] /\ forkData' = [forkData EXCEPT ![t] = NoNode]
      /\ UNCHANGED <<cachedHead, heardLib, heard>>
  BY DEF ExecuteFails, Return
<1>3. n \in db.index \ db.finalized /\ n \in Block
  BY <1>1, <1>2 DEF ThreadInv
<1>4. /\ ChainInv(db') /\ db'.index = db.index \ {n} /\ db'.finalized = db.finalized
      /\ db'.root = db.root /\ db'.head = db.head /\ db'.comp = db.comp
      /\ \A m \in db'.index : db'.revision[m] = db.revision[m]
  BY <1>1, <1>2, <1>3, DiscardChain
<1>5. TypeOK'
  BY <1>1, <1>2, <1>3, <1>4 DEF IInv, TypeOK, Label, ChainInv, HeaderInv, Sound
<1>6. ThreadInv(t)'
  BY <1>1, <1>2 DEF ThreadInv, Applying
<1>7. \A u \in Thread \ {t} : Applying(u) => block[u] # n
  BY <1>1, <1>2 DEF ThreadInv, Applying
<1>8. \A u \in Thread \ {t} : ThreadInv(u)'
  <2> SUFFICES ASSUME NEW u \in Thread \ {t} PROVE ThreadInv(u)'
    OBVIOUS
  <2>1. /\ ThreadInv(u) /\ pc'[u] = pc[u] /\ block'[u] = block[u]
        /\ lib'[u] = lib[u] /\ forkData'[u] = forkData[u]
    BY <1>1, <1>2 DEF IInv
  <2>2. \A v \in Thread \ {u} : Applying(u) /\ Applying(v)' => block'[v] # block[u]
    BY <1>1, <1>2, <2>1 DEF ThreadInv, Applying
  <2>3. pc[u] = "execute" => block[u] \in db'.index \ db'.finalized
    BY <1>4, <1>7, <2>1 DEF ThreadInv, Applying
  <2>4. pc[u] = "finalize" /\ block[u] \in db.index \ db.finalized
           => /\ block[u] \in db'.index \ db'.finalized
              /\ db'.revision[block[u]] = db.revision[block[u]]
    BY <1>4, <1>7 DEF Applying
  <2>5. Dead(db, block[u]) => Dead(db', block[u])
    BY <1>4 DEF Dead
  <2> HIDE DEF n
  <2> QED BY <1>2, <1>4, <2>1, <2>2, <2>3, <2>4, <2>5, ThreadFrame
<1>9. Owned'
  BY <1>1, <1>2, <1>4 DEF IInv, Owned, Applying
<1> QED BY <1>2, <1>4, <1>5, <1>6, <1>8, <1>9 DEF IInv, StoreCoversState
\* Finalizing a block and committing what it makes irreversible takes no node from
\* another thread but with its whole branch.
LEMMA FinalizeStep ==
    ASSUME IInv, NEW t \in Thread, Finalize(t)
    PROVE  IInv'
<1> DEFINE n == block[t]
<1>1. /\ pc \in [Thread -> Label] /\ block \in [Thread -> Block \cup {NoNode}]
      /\ ThreadInv(t) /\ ChainInv(db) /\ cachedHead \in Block \cup {NoNode} /\ heardLib \in Node
  BY DEF IInv, TypeOK
<1>2. PICK c \in FinalizeNode(db, n) :
         /\ cachedHead' = IF c.head = n THEN n ELSE cachedHead
         /\ db' \in AdvanceLib(c, lib[t], n)
  BY DEF Finalize
<1>3. /\ pc[t] = "finalize" /\ Readers = {} /\ n \in db.index
      /\ UNCHANGED <<store, heardLib, heard>>
  BY DEF Finalize
<1>4. /\ n \in Block /\ n \in store /\ lib[t] = Irreversible(Height[n])
      /\ n \in db.index \ db.finalized /\ db.revision[n] = Height[n]
  <2>1. n \in Block /\ Waiting(t)
    BY <1>1, <1>3 DEF ThreadInv
  <2>2. ~Dead(db, n)
    BY <2>1, <1>3, AncestorSelf DEF Dead, Block
  <2> QED BY <2>1, <2>2 DEF Waiting
<1>5. /\ ChainInv(db') /\ db'.head = c.head /\ db'.comp = db.comp
      /\ db.comp # "pob" => c.head \in {n, db.head}
      /\ db'.root = db.root \/ Height[db.root] < Height[db'.root]
      /\ db'.index \subseteq db.index /\ db'.finalized = (db.finalized \cup {n}) \cap db'.index
      /\ \A x \in db'.index : db'.revision[x] = db.revision[x]
      /\ \A b \in db.index \ db'.index : Dead(db', b)
  <2> HIDE DEF n
  <2> QED BY <1>1, <1>2, <1>4, AdvanceChain
<1>6. /\ db' \in Database /\ ~db'.torn /\ db.root \in Node /\ db'.root \in Node
      /\ db.finalized \subseteq db.index
  BY <1>1, <1>5 DEF ChainInv, HeaderInv, Sound, Rooted, Database
<1>7. pc' = [pc EXCEPT ![t] = "announce"] /\ UNCHANGED <<block, lib, forkData>>
  BY <1>6 DEF Finalize, Goto
<1>8. TypeOK'
  BY <1>1, <1>2, <1>3, <1>4, <1>6, <1>7 DEF IInv, TypeOK, Label
<1>9. ThreadInv(t)'
  <2>1. n \in db'.finalized \/ Dead(db', n)
    BY <1>4, <1>5
  <2> QED BY <1>1, <1>3, <1>7, <2>1 DEF ThreadInv, Applying
<1>10. \A u \in Thread \ {t} : ThreadInv(u)'
  <2> SUFFICES ASSUME NEW u \in Thread \ {t} PROVE ThreadInv(u)'
    OBVIOUS
  <2>1. /\ ThreadInv(u) /\ pc'[u] = pc[u] /\ block'[u] = block[u]
        /\ pc[u] \notin {"execute", "broadcast"}
    BY <1>1, <1>3, <1>7 DEF IInv, Readers
  <2>2. \A v \in Thread \ {u} : Applying(u) /\ Applying(v)' => block'[v] # block[u]
    BY <1>1, <1>7, <2>1 DEF ThreadInv, Applying
  <2>3. pc[u] = "finalize" /\ block[u] \in db.index \ db.finalized
           => \/ /\ block[u] \in db'.index \ db'.finalized
                 /\ db'.revision[block[u]] = db.revision[block[u]]
              \/ Dead(db', block[u])
    <3>1. pc[u] = "finalize" => block[u] # n
      BY <1>1, <1>3 DEF ThreadInv, Applying
    <3> QED BY <1>5, <3>1
  <2>4. Dead(db, block[u]) => Dead(db', block[u])
    BY <1>5 DEF Dead
  <2>5. block[u] \in db.finalized => block[u] \in db'.finalized \/ Dead(db', block[u])
    BY <1>5, <1>6
  <2> HIDE DEF n
  <2> QED BY <1>3, <1>7, <2>1, <2>2, <2>3, <2>4, <2>5, ThreadFrame
<1>11. Owned'
  <2> SUFFICES ASSUME NEW m \in db'.index \ db'.finalized
               PROVE  \E v \in Thread : block'[v] = m /\ Applying(v)'
    BY DEF Owned
  <2>1. m \in db.index \ db.finalized /\ m # n
    BY <1>5
  <2>2. PICK v \in Thread : block[v] = m /\ Applying(v)
    BY <2>1 DEF IInv, Owned
  <2> QED BY <1>1, <1>7, <2>1, <2>2 DEF Applying
<1>12. (db.comp # "pob" => cachedHead \in {NoNode, db.head})'
  BY <1>2, <1>5 DEF IInv
<1>13. StoreCoversState'
  BY <1>3, <1>4, <1>5 DEF IInv, StoreCoversState
<1>14. (heardLib = db.root \/ Height[heardLib] < Height[db.root])'
  <2>1. Height[heardLib] \in Nat /\ Height[db.root] \in Nat /\ Height[db'.root] \in Nat
    BY <1>1, <1>6, BlockAssumption
  <2> QED BY <1>3, <1>5, <2>1 DEF IInv
<1> QED BY <1>5, <1>8, <1>9, <1>10, <1>11, <1>12, <1>13, <1>14 DEF IInv

\* A restart opens the database at the root: every reversible block and every thread is gone.
LEMMA RestartStep ==
    ASSUME IInv, Restart
    PROVE  IInv'
<1> DEFINE r == db.root
<1>1. /\ Sound(db) /\ r \in Node /\ r \in db.finalized /\ db.comp \in Algorithm
      /\ db.disk = [id |-> r, revision |-> Height[r]]
  <2>1. Sound(db) /\ HeaderInv(db) /\ db \in Database
    BY DEF IInv, ChainInv, HeaderInv, TypeOK
  <2>2. r \in db.finalized /\ db.disk = [id |-> r, revision |-> db.revision[r]]
    BY <2>1 DEF Sound, Rooted
  <2> QED BY <2>1, <2>2 DEF HeaderInv, Database
<1>2. /\ db' = Open(db.comp, [id |-> r, revision |-> Height[r]]) /\ cachedHead' = NoNode
      /\ pc' = [t \in Thread |-> "idle"] /\ block' = [t \in Thread |-> NoNode]
      /\ lib' = [t \in Thread |-> 0] /\ forkData' = [t \in Thread |-> NoNode]
      /\ heardLib' = r /\ heard' = {} /\ store' = store
  BY <1>1 DEF Restart
<1>3. /\ ChainInv(db') /\ db'.index = {r} /\ db'.finalized = {r} /\ db'.root = r
      /\ db'.head = r /\ db'.comp = db.comp
  <2> HIDE DEF r
  <2> QED BY <1>1, <1>2, OpenChain
<1>4. TypeOK'
  BY <1>1, <1>2, <1>3 DEF IInv, TypeOK, Label, ChainInv, HeaderInv, Sound
<1>5. \A t \in Thread : ThreadInv(t)'
  BY <1>2 DEF ThreadInv, Applying
<1>6. Owned'
  BY <1>3 DEF Owned
<1>7. StoreCoversState'
  BY <1>1, <1>2, <1>3 DEF IInv, StoreCoversState
<1> QED BY <1>2, <1>3, <1>4, <1>5, <1>6, <1>7 DEF IInv
-----------------------------------------------------------------------------
(* The inductive invariant *)

\* open() establishes the invariant.
LEMMA InitInv == Init => IInv
<1> SUFFICES ASSUME Init PROVE IInv
  OBVIOUS
<1>1. Genesis \in Node /\ Height[Genesis] = 0
  BY NodeAssumption, BlockAssumption
<1>2. PICK comp \in Algorithm : db = Open(comp, [id |-> Genesis, revision |-> Height[Genesis]])
  BY <1>1 DEF Init, EmptyDisk
<1>3. /\ ChainInv(db) /\ db.index = {Genesis} /\ db.finalized = {Genesis} /\ db.root = Genesis
      /\ db.head = Genesis /\ db.comp = comp
  BY <1>1, <1>2, OpenChain
<1>4. TypeOK
  BY <1>1, <1>3 DEF Init, TypeOK, Label, ChainInv, HeaderInv, Sound
<1>5. \A t \in Thread : ThreadInv(t)
  BY DEF Init, ThreadInv, Applying
<1> QED BY <1>3, <1>4, <1>5 DEF Init, IInv, Owned, StoreCoversState

\* Every section of apply_block keeps it, whichever thread takes it, and so does a restart.
LEMMA StepInv == IInv /\ [Next]_vars => IInv'
<1> SUFFICES ASSUME IInv, [Next]_vars PROVE IInv'
  OBVIOUS
<1>1. ASSUME NEW t \in Thread, NEW b \in Block, Lookup(t, b) PROVE IInv'
  BY <1>1, LookupStep
<1>2. ASSUME NEW t \in Thread, CreateNode(t) PROVE IInv'
  BY <1>2, CreateNodeStep
<1>3. ASSUME NEW t \in Thread, CreateFails(t) PROVE IInv'
  <2>1. heardLib \in Node /\ heard \subseteq Block /\ ~Applying(t)
    BY <1>3 DEF IInv, TypeOK, CreateFails, Applying
  <2> QED BY <1>3, <2>1, ReturnStep DEF CreateFails
<1>4. ASSUME NEW t \in Thread, Execute(t) PROVE IInv'
  BY <1>4, ExecuteStep
<1>5. ASSUME NEW t \in Thread, ExecuteFails(t) PROVE IInv'
  BY <1>5, ExecuteFailsStep
<1>6. ASSUME NEW t \in Thread, Finalize(t) PROVE IInv'
  BY <1>6, FinalizeStep
<1>7. ASSUME NEW t \in Thread, FinalizeFails(t) PROVE IInv'
  <2>1. heardLib \in Node /\ heard \subseteq Block
    BY DEF IInv, TypeOK
  <2> QED BY <1>7, <2>1, ReturnStep DEF FinalizeFails
<1>8. ASSUME NEW t \in Thread, ReadForkData(t) PROVE IInv'
  BY <1>8, ReadForkDataStep
<1>9. ASSUME NEW t \in Thread, Broadcast(t) PROVE IInv'
  <2>1. /\ heardLib' = db.root /\ db.root \in Node /\ block[t] \in Block /\ heard \subseteq Block
        /\ ~Applying(t)
    <3>1. pc[t] = "broadcast" /\ heardLib' = forkData[t] /\ ThreadInv(t) /\ TypeOK
      BY <1>9 DEF IInv, Broadcast
    <3>2. block[t] \in Block /\ forkData[t] = db.root /\ heard \subseteq Block
      BY <3>1 DEF ThreadInv, TypeOK
    <3>3. db.root \in Node
      BY DEF IInv, ChainInv, HeaderInv, Sound, Rooted, Database
    <3> QED BY <3>1, <3>2, <3>3 DEF Applying
  <2> QED BY <1>9, <2>1, ReturnStep DEF Broadcast
<1>10. CASE Restart
  BY <1>10, RestartStep
<1>11. CASE UNCHANGED vars
  BY <1>11, ZenonT(40) DEF vars, IInv, TypeOK, ThreadInv, Waiting, Applying, Owned, StoreCoversState
<1> QED BY <1>1, <1>2, <1>3, <1>4, <1>5, <1>6, <1>7, <1>8, <1>9, <1>10, <1>11 DEF Next, Step

\* The invariant holds throughout.
LEMMA Invariance == Spec => []IInv
  BY InitInv, StepInv, PTL DEF Spec

-----------------------------------------------------------------------------
(* The properties *)

\* Every node that is in the index and not finalized belongs to exactly one call of
\* apply_block that will finalize or discard it, and commit_node never throws half way.
THEOREM NodesStayOwned == Spec => []NodesOwned
<1>1. IInv => NodesOwned
  <2> SUFFICES ASSUME IInv, NEW n \in db.index \ db.finalized
               PROVE  \E t \in Thread :
                         /\ block[t] = n /\ pc[t] \in {"execute", "finalize"}
                         /\ \A u \in Thread \ {t} : block[u] = n => pc[u] = "create"
    BY DEF IInv, NodesOwned, ChainInv, HeaderInv, Sound
  <2>1. PICK t \in Thread : block[t] = n /\ Applying(t)
    BY DEF IInv, Owned
  <2>2. n \in Node /\ n # NoNode
    BY NodeAssumption DEF IInv, ChainInv, HeaderInv, Sound, Database
  <2>3. ~Dead(db, n)
    BY <2>2, AncestorSelf DEF Dead
  <2>4. ASSUME NEW u \in Thread \ {t}, block[u] = n PROVE pc[u] = "create"
    <3>1. pc[u] \in Label /\ ThreadInv(u) /\ ThreadInv(t)
      BY DEF IInv, TypeOK
    <3>2. ~Applying(u)
      BY <2>1, <2>4, <3>1 DEF ThreadInv
    <3> QED BY <2>2, <2>3, <2>4, <3>1, <3>2 DEF ThreadInv, Applying, Label
  <2> QED BY <2>1, <2>4 DEF Applying
<1> QED BY <1>1, Invariance, PTL

\* No finalized block is ever more than the threshold above the root, although lib is
\* computed before the lock is given up.
THEOREM RootFollowsHead == Spec => []LibKeepsUp
<1>1. IInv => LibKeepsUp
  BY DEF IInv, ChainInv, LibKeepsUp
<1> QED BY <1>1, Invariance, PTL

\* A thread that comes back with the exclusive lock finds its node where it left it,
\* unless commit_node has discarded the branch it is on.
THEOREM NodesOnlyLostByPruning == Spec => []OnlyPruningLosesNodes
<1>1. IInv => OnlyPruningLosesNodes
  <2> SUFFICES ASSUME IInv, NEW t \in Thread, Applying(t), Previous[block[t]] \in db.index
               PROVE  block[t] \in db.index \ db.finalized
    BY DEF OnlyPruningLosesNodes, Applying
  <2>1. ThreadInv(t) /\ block[t] \in Block
    BY DEF IInv, TypeOK, ThreadInv, Applying
  <2>2. ~Dead(db, block[t])
    BY <2>1, PreviousIsAncestor DEF Dead
  <2> QED BY <2>1, <2>2 DEF ThreadInv, Applying, Waiting
<1> QED BY <1>1, Invariance, PTL

\* Under fifo and block_time the cached head is the database's head and the fork heads
\* are exactly the finalized nodes without finalized children.
THEOREM HeadsStayExact == Spec => []HeadsExact
<1>1. IInv => HeadsExact
  BY DEF IInv, ChainInv, HeaderInv, ExactForks, HeadsExact
<1> QED BY <1>1, Invariance, PTL

\* The block store holds every block whose state is finalized, at every point a crash can
\* come at.
THEOREM StoreAlwaysCovers == Spec => []StoreCoversState
<1>1. IInv => StoreCoversState
  BY DEF IInv
<1> QED BY <1>1, Invariance, PTL

\* The topology of the koinos.block.irreversible broadcasts only ever rises, whichever
\* thread sends them and across restarts.
THEOREM IrreversibleOnlyRises == Spec => LibNeverGoesBack
<1>1. IInv /\ [Next]_vars => [heardLib' # heardLib => Height[heardLib'] > Height[heardLib]]_vars
  <2> SUFFICES ASSUME IInv, Next, heardLib' # heardLib
               PROVE  Height[heardLib'] > Height[heardLib]
    BY DEF vars
  <2>1. heardLib \in Node /\ db.root \in Node /\ db.disk.id = db.root
    BY DEF IInv, TypeOK, ChainInv, HeaderInv, Sound, Database
  <2>2. heardLib' = db.root
    <3>1. ASSUME NEW t \in Thread, Broadcast(t) PROVE heardLib' = db.root
      BY <3>1 DEF IInv, ThreadInv, Broadcast
    <3>2. CASE Restart
      BY <2>1, <3>2 DEF Restart
    <3> QED BY <3>1, <3>2 DEF Next, Step, Lookup, CreateNode, CreateFails, Execute, ExecuteFails,
                              Finalize, FinalizeFails, ReadForkData
  <2>3. Height[heardLib] \in Nat /\ Height[db.root] \in Nat
    BY <2>1, BlockAssumption
  <2> QED BY <2>2, <2>3 DEF IInv
<1> QED BY <1>1, Invariance, PTL DEF Spec, LibNeverGoesBack
=============================================================================
