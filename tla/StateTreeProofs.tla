-------------------------- MODULE StateTreeProofs --------------------------
(***************************************************************************)
(* Every operation of StateTree turns a sound database into a sound one.   *)
(***************************************************************************)
EXTENDS StateTree, TLAPS

-----------------------------------------------------------------------------
(* Subtree is the least child-closed set that holds its top *)

\* A node is in the subtree that discard_node's walk starts at it.
LEMMA SubtreeSelf ==
    ASSUME NEW d, NEW n \in d.index
    PROVE  n \in Subtree(d, n)
  BY DEF Subtree

\* The walk over the by_parent index leaves no child behind.
LEMMA SubtreeClosed ==
    ASSUME NEW d, NEW n
    PROVE  ChildClosed(d, Subtree(d, n))
  BY DEF Subtree, ChildClosed

\* The walk visits nothing but what it must.
LEMMA SubtreeLeast ==
    ASSUME NEW d, NEW n, NEW S, S \subseteq d.index, n \in S, ChildClosed(d, S)
    PROVE  Subtree(d, n) \subseteq S
  BY DEF Subtree

\* Below the top of a subtree revisions are higher, and parents are in the subtree.
LEMMA SubtreeBelow ==
    ASSUME NEW d, Sound(d), NEW n \in d.index, NEW m \in Subtree(d, n), m # n
    PROVE  /\ m \in d.index
           /\ d.revision[m] > d.revision[n]
           /\ d.parent[m] \in Subtree(d, n)
<1> DEFINE H == {x \in d.index : x = n \/ d.revision[x] > d.revision[n]}
           P == {x \in Subtree(d, n) : x = n \/ d.parent[x] \in Subtree(d, n)}
<1>0. Subtree(d, n) \subseteq d.index
  BY DEF Subtree
<1>1. ChildClosed(d, H)
  <2> SUFFICES ASSUME NEW x \in d.index, d.parent[x] \in H
               PROVE  x \in H
    BY DEF ChildClosed
  <2>1. d.parent[x] # NoNode
    BY NodeAssumption DEF Sound, Database
  <2>2. x # d.root
    BY <2>1 DEF Sound, Rooted
  <2>3. d.revision[x] = d.revision[d.parent[x]] + 1
    BY <2>2 DEF Sound, Rooted
  <2>4. d.revision \in [Node -> Nat] /\ d.index \subseteq Node
    BY DEF Sound, Database
  <2> QED BY <2>3, <2>4
<1>2. Subtree(d, n) \subseteq H
  BY <1>1, SubtreeLeast
<1>3. ChildClosed(d, P)
  BY SubtreeClosed DEF ChildClosed
<1>4. Subtree(d, n) \subseteq P
  <2>1. n \in P
    BY SubtreeSelf
  <2> HIDE DEF P
  <2> QED BY <1>0, <1>3, <2>1, SubtreeLeast DEF P
<1> QED BY <1>0, <1>2, <1>4

-----------------------------------------------------------------------------
(* An update of one field keeps the type *)

\* Typing of the members of database_impl: index.
LEMMA SetIndex ==
    ASSUME NEW d \in Database, NEW x \in SUBSET Node
    PROVE  [d EXCEPT !.index = x] \in Database
  BY DEF Database

\* Typing: parent ids.
LEMMA SetParent ==
    ASSUME NEW d \in Database, NEW x \in [Node -> Node \cup {NoNode}]
    PROVE  [d EXCEPT !.parent = x] \in Database
  BY DEF Database

\* Typing: revisions.
LEMMA SetRevision ==
    ASSUME NEW d \in Database, NEW x \in [Node -> Nat]
    PROVE  [d EXCEPT !.revision = x] \in Database
  BY DEF Database

\* Typing: finalized nodes.
LEMMA SetFinalized ==
    ASSUME NEW d \in Database, NEW x \in SUBSET Node
    PROVE  [d EXCEPT !.finalized = x] \in Database
  BY DEF Database

\* Typing: the head.
LEMMA SetHead ==
    ASSUME NEW d \in Database, NEW x \in Node \cup {NoNode}
    PROVE  [d EXCEPT !.head = x] \in Database
  BY DEF Database

\* Typing: the root.
LEMMA SetRoot ==
    ASSUME NEW d \in Database, NEW x \in Node \cup {NoNode}
    PROVE  [d EXCEPT !.root = x] \in Database
  BY DEF Database

\* Typing: the fork heads.
LEMMA SetForkHeads ==
    ASSUME NEW d \in Database, NEW x \in SUBSET Node
    PROVE  [d EXCEPT !.forkHeads = x] \in Database
  BY DEF Database

\* Typing: the metadata on disk.
LEMMA SetDisk ==
    ASSUME NEW d \in Database, NEW x \in [id : Node, revision : Nat]
    PROVE  [d EXCEPT !.disk = x] \in Database
  BY DEF Database

\* Typing: the torn flag.
LEMMA SetTorn ==
    ASSUME NEW d \in Database, NEW x \in BOOLEAN
    PROVE  [d EXCEPT !.torn = x] \in Database
  BY DEF Database

\* Typing: a node added to the index.
LEMMA AddNodeTyped ==
    ASSUME NEW d \in Database, NEW n \in Node, NEW p \in Node, NEW r \in Nat
    PROVE  AddNode(d, n, p, r) \in Database
<1> DEFINE a == [d EXCEPT !.index = @ \cup {n}]
           b == [a EXCEPT !.parent = [@ EXCEPT ![n] = p]]
           c == [b EXCEPT !.revision = [@ EXCEPT ![n] = r]]
<1>1. a \in Database
  BY SetIndex DEF Database
<1>2. b \in Database
  <2> HIDE DEF a
  <2>1. [a.parent EXCEPT ![n] = p] \in [Node -> Node \cup {NoNode}]
    BY <1>1 DEF Database
  <2> QED BY <1>1, <2>1, SetParent
<1>3. c \in Database
  <2> HIDE DEF b
  <2>1. [b.revision EXCEPT ![n] = r] \in [Node -> Nat]
    BY <1>2 DEF Database
  <2> QED BY <1>2, <2>1, SetRevision
<1> QED BY <1>3, Zenon DEF AddNode

\* Typing: nodes erased from the index.
LEMMA EraseTyped ==
    ASSUME NEW d \in Database, NEW doomed
    PROVE  Erase(d, doomed) \in Database
<1> DEFINE a == [d EXCEPT !.index = @ \ doomed]
           b == [a EXCEPT !.parent = Forget(@, doomed, NoNode)]
           c == [b EXCEPT !.revision = Forget(@, doomed, 0)]
           f == [c EXCEPT !.finalized = @ \ doomed]
           g == [f EXCEPT !.forkHeads = @ \ doomed]
<1>1. a \in Database
  BY SetIndex DEF Database
<1>2. b \in Database
  <2> HIDE DEF a
  <2>1. Forget(a.parent, doomed, NoNode) \in [Node -> Node \cup {NoNode}]
    BY <1>1 DEF Database, Forget
  <2> QED BY <1>1, <2>1, SetParent
<1>3. c \in Database
  <2> HIDE DEF b
  <2>1. Forget(b.revision, doomed, 0) \in [Node -> Nat]
    BY <1>2 DEF Database, Forget
  <2> QED BY <1>2, <2>1, SetRevision
<1>4. f \in Database
  <2> HIDE DEF c
  <2>1. c.finalized \ doomed \in SUBSET Node
    BY <1>3 DEF Database
  <2> QED BY <1>3, <2>1, SetFinalized
<1>5. g \in Database
  <2> HIDE DEF f
  <2>1. f.forkHeads \ doomed \in SUBSET Node
    BY <1>4 DEF Database
  <2> QED BY <1>4, <2>1, SetForkHeads
<1> QED BY <1>5, Zenon DEF Erase

-----------------------------------------------------------------------------
(* Opening *)

\* open_lockless gives a sound database whatever the backend holds.
LEMMA OpenSound ==
    ASSUME NEW comp \in Algorithm, NEW disk \in [id : Node, revision : Nat]
    PROVE  Sound(Open(comp, disk))
<1> DEFINE d == Open(comp, disk)
<1>1. d \in Database
  BY DEF Open, Closed, Database
<1>2. /\ d.index = {disk.id} /\ d.finalized = {disk.id} /\ d.forkHeads = {disk.id}
      /\ d.root = disk.id /\ d.head = disk.id /\ d.torn = FALSE /\ d.disk = disk
      /\ d.parent = [n \in Node |-> NoNode]
      /\ d.revision = [n \in Node |-> IF n = disk.id THEN disk.revision ELSE 0]
  BY DEF Open, Closed
<1> HIDE DEF d
<1>3. Rooted(d)
  <2>1. d.index \subseteq Subtree(d, d.root)
    BY <1>2, SubtreeSelf
  <2> QED BY <1>2, <2>1 DEF Rooted
<1>4. d.disk = [id |-> d.root, revision |-> d.revision[d.root]]
  BY <1>2
<1> QED BY <1>1, <1>2, <1>3, <1>4 DEF Sound, d

-----------------------------------------------------------------------------
(* Creating nodes *)

\* create_writable_node and clone_node insert a leaf under a finalized node.
LEMMA AddNodeSound ==
    ASSUME NEW d, Sound(d), NEW n \in Node \ d.index, NEW p \in d.finalized,
           NEW r, r = d.revision[p] + 1
    PROVE  Sound(AddNode(d, n, p, r))
<1> DEFINE e == AddNode(d, n, p, r)
<1>0. /\ d.index \subseteq Node /\ d.finalized \subseteq d.index
      /\ d.revision \in [Node -> Nat] /\ d.parent \in [Node -> Node \cup {NoNode}]
      /\ d.root \in d.finalized /\ n # d.root /\ p # n
  BY DEF Sound, Rooted, Database
<1>1. e \in Database
  <2>1. d \in Database /\ n \in Node /\ p \in Node /\ r \in Nat
    BY <1>0 DEF Sound
  <2> QED BY <2>1, AddNodeTyped, Zenon
<1>2. /\ e.index = d.index \cup {n} /\ e.finalized = d.finalized /\ e.forkHeads = d.forkHeads
      /\ e.root = d.root /\ e.head = d.head /\ e.torn = d.torn /\ e.disk = d.disk
      /\ e.parent = [d.parent EXCEPT ![n] = p]
      /\ e.revision = [d.revision EXCEPT ![n] = r]
  BY DEF AddNode, Sound, Database
<1> HIDE DEF e
<1>3. ASSUME NEW m \in d.index
      PROVE  m # n /\ e.parent[m] = d.parent[m] /\ e.revision[m] = d.revision[m]
  BY <1>0, <1>2
<1>4. e.parent[n] = p /\ e.revision[n] = r
  BY <1>0, <1>2
<1>5. e.index \subseteq Subtree(e, e.root)
  <2> SUFFICES ASSUME NEW S \in SUBSET e.index, e.root \in S, ChildClosed(e, S)
               PROVE  e.index \subseteq S
    BY DEF Subtree
  <2>1. ChildClosed(d, S \cap d.index)
    BY <1>2, <1>3 DEF ChildClosed
  <2>2. d.index \subseteq S
    BY <1>0, <1>2, <2>1, SubtreeLeast DEF Sound, Rooted
  <2> QED BY <1>0, <1>2, <1>4, <2>2 DEF ChildClosed
<1>6. Rooted(e)
  <2>1. e.parent[e.root] = NoNode
    BY <1>0, <1>2, <1>3 DEF Sound, Rooted
  <2>2. ASSUME NEW m \in e.index \ {e.root}
        PROVE  /\ e.parent[m] \in e.finalized
               /\ e.revision[m] = e.revision[e.parent[m]] + 1
               /\ e.revision[m] > e.revision[e.root]
    <3>1. CASE m = n
      <4>1. d.revision[p] >= d.revision[d.root]
        BY <1>0 DEF Sound, Rooted
      <4> QED BY <1>0, <1>2, <1>3, <1>4, <3>1, <4>1
    <3>2. CASE m # n
      <4>1. m \in d.index \ {d.root}
        BY <1>2, <3>2
      <4>2. /\ d.parent[m] \in d.finalized
            /\ d.revision[m] = d.revision[d.parent[m]] + 1
            /\ d.revision[m] > d.revision[d.root]
        BY <4>1 DEF Sound, Rooted
      <4> QED BY <1>0, <1>2, <1>3, <4>1, <4>2
    <3> QED BY <3>1, <3>2
  <2> QED BY <1>0, <1>2, <1>5, <2>1, <2>2 DEF Rooted
<1>7. \A m \in Node \ e.index : e.parent[m] = NoNode /\ e.revision[m] = 0
  BY <1>0, <1>2 DEF Sound
<1>8. e.disk = [id |-> e.root, revision |-> e.revision[e.root]]
  BY <1>0, <1>2, <1>3 DEF Sound
<1> QED BY <1>1, <1>2, <1>6, <1>7, <1>8 DEF Sound, e

\* create_writable_node keeps the database sound.
LEMMA CreateSound ==
    ASSUME NEW d, Sound(d), NEW p, NEW n, CanCreate(d, p, n)
    PROVE  Sound(CreateWritableNode(d, p, n))
  BY AddNodeSound DEF CanCreate, CreateWritableNode

\* clone_node keeps the database sound: a writable node is never the root.
LEMMA CloneSound ==
    ASSUME NEW d, Sound(d), NEW n, NEW m, CanClone(d, n, m)
    PROVE  Sound(CloneNode(d, n, m))
<1>1. n \in d.index \ {d.root}
  BY DEF CanClone, Sound, Rooted
<1>2. d.parent[n] \in d.finalized /\ d.revision[n] = d.revision[d.parent[n]] + 1
  BY <1>1 DEF Sound, Rooted
<1> QED BY <1>2, AddNodeSound DEF CanClone, CloneNode

-----------------------------------------------------------------------------
(* finalize_node *)

\* The tree does not depend on the head, the fork heads or the metadata, and more
\* nodes of it may become finalized.
LEMMA SameTree ==
    ASSUME NEW d, NEW e, Rooted(d),
           e.index = d.index, e.parent = d.parent, e.revision = d.revision,
           e.root = d.root, d.finalized \subseteq e.finalized, e.finalized \subseteq e.index
    PROVE  Rooted(e)
<1>1. Subtree(e, e.root) = Subtree(d, d.root)
  BY DEF Subtree, ChildClosed
<1> QED BY <1>1 DEF Rooted

\* A comparator answers with the new node, a fork head or a null pointer; with a null
\* pointer only under pob.
LEMMA ChoicesKnown ==
    ASSUME NEW d, d.comp \in Algorithm, d.head \in d.forkHeads, NEW n,
           NEW h \in Choices(d, n)
    PROVE  /\ h = n \/ h \in d.forkHeads \/ h = NoNode
           /\ d.comp # "pob" => h = BlockTimeChoice(d, n) \/ h = d.head
           /\ d.comp = "block_time" => h = BlockTimeChoice(d, n)
           /\ d.comp = "fifo" => h = d.head
<1>1. CASE d.comp = "fifo"
  BY <1>1 DEF Choices
<1>2. CASE d.comp = "block_time"
  BY <1>2 DEF Choices, BlockTimeChoice
<1>3. CASE d.comp = "pob"
  <2>1. h \in PobChoices(d, n)
    BY <1>3 DEF Choices
  <2>2. CASE Signer[d.head] # Signer[n]
    BY <1>3, <2>1, <2>2 DEF PobChoices, BlockTimeChoice
  <2>3. CASE Signer[d.head] = Signer[n]
    <3>1. FirstFork(d, d.forkHeads \ {d.head}) \subseteq d.forkHeads
      BY DEF FirstFork
    <3> QED BY <1>3, <2>1, <2>3, <3>1 DEF PobChoices
  <2> QED BY <2>2, <2>3
<1> QED BY <1>1, <1>2, <1>3 DEF Algorithm

\* finalize_node changes the finalized nodes, the head and the fork heads only.
LEMMA FinalizeFrame ==
    ASSUME NEW d \in Database, NEW n, NEW e \in FinalizeNode(d, n)
    PROVE  /\ e.index = d.index /\ e.parent = d.parent /\ e.revision = d.revision
           /\ e.root = d.root /\ e.disk = d.disk /\ e.torn = d.torn /\ e.comp = d.comp
           /\ e.finalized = d.finalized \cup {n}
<1> DEFINE c == [d EXCEPT !.finalized = @ \cup {n}]
<1>1. /\ c.index = d.index /\ c.parent = d.parent /\ c.revision = d.revision
      /\ c.root = d.root /\ c.disk = d.disk /\ c.torn = d.torn /\ c.comp = d.comp
      /\ c.finalized = d.finalized \cup {n}
      /\ c = [x \in DOMAIN c |-> c[x]]
      /\ DOMAIN c = {"index", "parent", "revision", "finalized", "head", "root",
                     "forkHeads", "comp", "disk", "torn"}
  BY DEF Database
<1>2. PICK b \in ChooseHead(c, n) : e = RecordForkHead(b, n)
  BY DEF FinalizeNode
<1> HIDE DEF c
<1>3. /\ b.index = c.index /\ b.parent = c.parent /\ b.revision = c.revision
      /\ b.root = c.root /\ b.disk = c.disk /\ b.torn = c.torn /\ b.comp = c.comp
      /\ b.finalized = c.finalized
      /\ DOMAIN b = DOMAIN c
  BY <1>1, <1>2, ZenonT(40) DEF ChooseHead, FallBack
<1>4. /\ e.index = b.index /\ e.parent = b.parent /\ e.revision = b.revision
      /\ e.root = b.root /\ e.disk = b.disk /\ e.torn = b.torn /\ e.comp = b.comp
      /\ e.finalized = b.finalized
  BY <1>1, <1>2, <1>3 DEF RecordForkHead
<1> QED BY <1>1, <1>3, <1>4

\* Typing: a finalized node.
LEMMA FinalizeTyped ==
    ASSUME NEW d \in Database, d.head \in d.forkHeads, NEW n \in Node,
           NEW e \in FinalizeNode(d, n),
           d.revision[n] = d.revision[d.head] => d.parent[d.head] \in Node
    PROVE  e \in Database
<1> DEFINE c == [d EXCEPT !.finalized = @ \cup {n}]
<1>1. c \in Database
  BY SetFinalized DEF Database
<1>2. /\ c.head = d.head /\ c.forkHeads = d.forkHeads
      /\ c.revision = d.revision /\ c.parent = d.parent
  BY DEF Database
<1>3. PICK b \in ChooseHead(c, n) : e = RecordForkHead(b, n)
  BY DEF FinalizeNode
<1> HIDE DEF c
<1>4. c.parent[c.head] \in Node \cup {NoNode} /\ c.head \in Node /\ c.comp \in Algorithm
  BY <1>1, <1>2 DEF Database
<1>5. b \in Database
  <2>1. CASE b = [c EXCEPT !.head = n]
    BY <1>1, <2>1, SetHead
  <2>2. CASE b = c
    BY <1>1, <2>2
  <2>3. ASSUME NEW h \in Choices(c, n), h # NoNode, b = [c EXCEPT !.head = h]
        PROVE  b \in Database
    <3>1. h \in Node
      BY <1>1, <1>2, <1>4, <2>3, ChoicesKnown DEF Database
    <3> QED BY <1>1, <2>3, <3>1, SetHead
  <2>4. CASE b = FallBack(c) /\ c.parent[c.head] \in Node
    <3> DEFINE f == [c EXCEPT !.head = c.parent[c.head]]
               g == [f EXCEPT !.forkHeads = (@ \ {c.head}) \cup {c.parent[c.head]}]
    <3>1. f \in Database
      BY <1>1, <1>4, SetHead
    <3>2. g \in Database
      <4> HIDE DEF f
      <4>1. (f.forkHeads \ {c.head}) \cup {c.parent[c.head]} \in SUBSET Node
        BY <2>4, <3>1 DEF Database
      <4> QED BY <3>1, <4>1, SetForkHeads
    <3> QED BY <2>4, <3>2, Zenon DEF FallBack
  <2> QED BY <1>2, <1>3, <2>1, <2>2, <2>3, <2>4 DEF ChooseHead
<1>6. CASE e = b
  BY <1>5, <1>6
<1>7. CASE e = [b EXCEPT !.forkHeads = (@ \ {b.parent[n]}) \cup {n}]
  <2>1. (b.forkHeads \ {b.parent[n]}) \cup {n} \in SUBSET Node
    BY <1>5 DEF Database
  <2> QED BY <1>5, <1>7, <2>1, SetForkHeads
<1> QED BY <1>3, <1>6, <1>7 DEF RecordForkHead

\* finalize_node keeps the database sound, and leaves the head among the fork heads
\* whichever comparator chose it.
LEMMA FinalizeSound ==
    ASSUME NEW d, Sound(d), NEW n \in d.index \ d.finalized, NEW e \in FinalizeNode(d, n)
    PROVE  Sound(e)
<1> DEFINE c == [d EXCEPT !.finalized = @ \cup {n}]
<1>0. /\ d \in Database /\ d.index \subseteq Node /\ d.finalized \subseteq d.index
      /\ d.revision \in [Node -> Nat] /\ d.parent \in [Node -> Node \cup {NoNode}]
      /\ d.root \in d.finalized /\ d.forkHeads \subseteq d.finalized /\ d.head \in d.forkHeads
      /\ d.comp \in Algorithm /\ NoNode \notin Node
  BY NodeAssumption DEF Sound, Rooted, Database
<1>1. /\ d.revision[n] > d.revision[d.root]
      /\ d.parent[n] \in d.finalized /\ d.parent[n] # n
  BY <1>0 DEF Sound, Rooted
<1>2. d.revision[n] = d.revision[d.head] => d.parent[d.head] \in d.finalized
  BY <1>0, <1>1 DEF Sound, Rooted
<1>3. e \in Database
  BY <1>0, <1>2, FinalizeTyped
<1>4. /\ e.index = d.index /\ e.parent = d.parent /\ e.revision = d.revision
      /\ e.root = d.root /\ e.disk = d.disk /\ e.torn = d.torn /\ e.comp = d.comp
      /\ e.finalized = d.finalized \cup {n}
  BY <1>0, FinalizeFrame
<1>5. Rooted(e)
  BY <1>0, <1>4, SameTree DEF Sound
<1>6. /\ c \in Database
      /\ c.head = d.head /\ c.forkHeads = d.forkHeads /\ c.comp = d.comp
      /\ c.revision = d.revision /\ c.parent = d.parent
  BY <1>0, SetFinalized DEF Database
<1>7. PICK b \in ChooseHead(c, n) : e = RecordForkHead(b, n)
  BY DEF FinalizeNode
<1> HIDE DEF c
<1>8. /\ b.head \in b.forkHeads \cup {n}
      /\ b.forkHeads \subseteq d.finalized
      /\ b.parent = d.parent
      /\ b = [b EXCEPT !.forkHeads = @]
  <2>1. CASE b = [c EXCEPT !.head = n] \/ b = c
    BY <1>0, <1>6, <2>1 DEF Database
  <2>2. ASSUME NEW h \in Choices(c, n), h # NoNode, b = [c EXCEPT !.head = h]
        PROVE  <1>8!1 /\ <1>8!2 /\ <1>8!3 /\ <1>8!4
    <3>1. h = n \/ h \in d.forkHeads
      BY <1>0, <1>6, <2>2, ChoicesKnown
    <3> QED BY <1>0, <1>6, <2>2, <3>1 DEF Database
  <2>3. CASE b = FallBack(c) /\ d.revision[n] = d.revision[d.head]
    BY <1>0, <1>2, <1>6, <2>3, ZenonT(40) DEF Database, FallBack
  <2> QED BY <1>6, <1>7, <2>1, <2>2, <2>3 DEF ChooseHead
<1>9. e.head \in e.forkHeads /\ e.forkHeads \subseteq e.finalized
  <2>1. e.head = b.head
    BY <1>7, <1>8 DEF RecordForkHead
  <2>2. CASE b.parent[n] # b.head
    <3>1. e.forkHeads = (b.forkHeads \ {b.parent[n]}) \cup {n}
      BY <1>7, <1>8, <2>2 DEF RecordForkHead
    <3> QED BY <1>4, <1>8, <2>1, <2>2, <3>1
  <2>3. CASE b.parent[n] = b.head
    BY <1>1, <1>4, <1>7, <1>8, <2>1, <2>3 DEF RecordForkHead
  <2> QED BY <2>2, <2>3
<1> QED BY <1>3, <1>4, <1>5, <1>9 DEF Sound

-----------------------------------------------------------------------------
(* discard_node *)

\* What Erase leaves of each field: the erase loop of discard_node.
LEMMA EraseFrame ==
    ASSUME NEW d \in Database, NEW doomed
    PROVE  LET e == Erase(d, doomed)
           IN  /\ e.index = d.index \ doomed
               /\ e.finalized = d.finalized \ doomed
               /\ e.forkHeads = d.forkHeads \ doomed
               /\ e.head = d.head /\ e.root = d.root /\ e.disk = d.disk
               /\ e.torn = d.torn /\ e.comp = d.comp
               /\ \A m \in Node :
                   /\ e.parent[m] = IF m \in doomed THEN NoNode ELSE d.parent[m]
                   /\ e.revision[m] = IF m \in doomed THEN 0 ELSE d.revision[m]
  BY DEF Erase, Forget, Database

\* The walk that throws loses fork heads, and never the head.
LEMMA CannotDiscardFrame ==
    ASSUME NEW d \in Database, d.head \in Node, NEW doomed,
           NEW e \in CannotDiscard(d, doomed)
    PROVE  /\ e \in Database
           /\ e.index = d.index /\ e.parent = d.parent /\ e.revision = d.revision
           /\ e.finalized = d.finalized /\ e.root = d.root /\ e.head = d.head
           /\ e.disk = d.disk /\ e.torn = d.torn /\ e.comp = d.comp
           /\ e.forkHeads \subseteq d.forkHeads
           /\ d.head \in d.forkHeads => e.head \in e.forkHeads
<1> DEFINE above == {m \in doomed : d.revision[m] < d.revision[d.head]}
           level == {m \in doomed \ {d.head} : d.revision[m] = d.revision[d.head]}
<1>1. PICK before \in SUBSET level :
        e = [d EXCEPT !.forkHeads = @ \ (above \cup before)]
  BY DEF CannotDiscard
<1>2. d.head \notin above \cup before
  <2>1. d.revision[d.head] \in Nat
    BY DEF Database
  <2> QED BY <2>1
<1>3. d.forkHeads \ (above \cup before) \in SUBSET Node
  BY DEF Database
<1> HIDE DEF above, level
<1>4. e \in Database
  BY <1>1, <1>3, SetForkHeads
<1> QED BY <1>1, <1>2, <1>4 DEF Database

\* The branch that discard_node removes holds neither the root nor the parent it hangs on.
LEMMA BranchBelow ==
    ASSUME NEW d, Sound(d), NEW n \in d.index \ {d.root}
    PROVE  /\ Subtree(d, n) \subseteq d.index
           /\ d.root \notin Subtree(d, n)
           /\ d.parent[n] \in d.finalized \ Subtree(d, n)
<1>1. /\ d.parent[n] \in d.finalized
      /\ d.revision[n] = d.revision[d.parent[n]] + 1
      /\ d.revision[n] > d.revision[d.root]
      /\ d.finalized \subseteq Node /\ d.root \in Node /\ n \in Node
      /\ d.revision \in [Node -> Nat]
  BY DEF Sound, Rooted, Database
<1>2. d.root \notin Subtree(d, n)
  <2> SUFFICES ASSUME d.root \in Subtree(d, n) PROVE FALSE
    OBVIOUS
  <2>1. d.revision[d.root] > d.revision[n]
    BY SubtreeBelow
  <2> QED BY <1>1, <2>1
<1>3. d.parent[n] \notin Subtree(d, n)
  <2> SUFFICES ASSUME d.parent[n] \in Subtree(d, n) PROVE FALSE
    OBVIOUS
  <2>1. d.parent[n] # n
    BY <1>1
  <2>2. d.revision[d.parent[n]] > d.revision[n]
    BY <2>1, SubtreeBelow
  <2> QED BY <1>1, <2>2
<1> QED BY <1>1, <1>2, <1>3 DEF Subtree

\* Erasing a branch leaves a tree under the same root.
LEMMA EraseRooted ==
    ASSUME NEW d, Sound(d), NEW n \in d.index \ {d.root}
    PROVE  Rooted(Erase(d, Subtree(d, n)))
<1> DEFINE T == Subtree(d, n)
           e == Erase(d, T)
<1>0. /\ d \in Database /\ d.index \subseteq Node /\ d.finalized \subseteq d.index
      /\ d.root \in d.finalized /\ d.parent[d.root] = NoNode
  BY DEF Sound, Rooted, Database
<1>1. T \subseteq d.index /\ d.root \notin T
  BY BranchBelow
<1>2. ChildClosed(d, T)
  BY SubtreeClosed
<1>3. /\ e.index = d.index \ T /\ e.finalized = d.finalized \ T /\ e.root = d.root
      /\ \A m \in d.index \ T : e.parent[m] = d.parent[m] /\ e.revision[m] = d.revision[m]
  <2>1. /\ e.index = d.index \ T /\ e.finalized = d.finalized \ T /\ e.root = d.root
        /\ \A m \in Node : /\ e.parent[m] = IF m \in T THEN NoNode ELSE d.parent[m]
                          /\ e.revision[m] = IF m \in T THEN 0 ELSE d.revision[m]
    <3> HIDE DEF T
    <3> QED BY <1>0, EraseFrame
  <2> HIDE DEF T, e
  <2> QED BY <1>0, <2>1
<1> HIDE DEF T, e
<1>4. e.index \subseteq Subtree(e, e.root)
  <2> SUFFICES ASSUME NEW S \in SUBSET e.index, e.root \in S, ChildClosed(e, S)
               PROVE  e.index \subseteq S
    BY DEF Subtree
  <2>1. ChildClosed(d, S \cup T)
    BY <1>2, <1>3 DEF ChildClosed
  <2>2. S \cup T \subseteq d.index /\ d.root \in S \cup T
    BY <1>1, <1>3
  <2>3. d.index \subseteq S \cup T
    BY <2>1, <2>2, SubtreeLeast DEF Sound, Rooted
  <2> QED BY <1>3, <2>3
<1>5. ASSUME NEW m \in e.index \ {e.root}
      PROVE  /\ e.parent[m] \in e.finalized
             /\ e.revision[m] = e.revision[e.parent[m]] + 1
             /\ e.revision[m] > e.revision[e.root]
  <2>1. /\ d.parent[m] \in d.finalized
        /\ d.revision[m] = d.revision[d.parent[m]] + 1
        /\ d.revision[m] > d.revision[d.root]
    BY <1>3 DEF Sound, Rooted
  <2>2. d.parent[m] \notin T
    BY <1>2, <1>3 DEF ChildClosed
  <2> QED BY <1>0, <1>1, <1>3, <2>1, <2>2
<1> QED BY <1>0, <1>1, <1>3, <1>4, <1>5 DEF Rooted, e, T

\* discard_node keeps the database sound, whether it removes the branch or refuses to.
LEMMA DiscardSound ==
    ASSUME NEW d, Sound(d), NEW n \in Node, NEW e \in DiscardNode(d, n)
    PROVE  Sound(e)
<1>0. /\ d \in Database /\ d.index \subseteq Node /\ d.finalized \subseteq d.index
      /\ d.root \in d.finalized /\ d.forkHeads \subseteq d.finalized /\ d.head \in d.forkHeads
      /\ d.head \in Node
  BY DEF Sound, Rooted, Database
<1>1. CASE n \notin d.index \/ n = d.root
  BY <1>1 DEF DiscardNode
<1>2. CASE n \in d.index \ {d.root} /\ d.head \in Subtree(d, n)
  <2>1. e \in CannotDiscard(d, Subtree(d, n))
    BY <1>2 DEF DiscardNode
  <2>2. /\ e \in Database
        /\ e.index = d.index /\ e.parent = d.parent /\ e.revision = d.revision
        /\ e.finalized = d.finalized /\ e.root = d.root /\ e.disk = d.disk
        /\ e.torn = d.torn /\ e.forkHeads \subseteq d.forkHeads /\ e.head \in e.forkHeads
    BY <1>0, <2>1, CannotDiscardFrame
  <2>3. Rooted(e)
    BY <1>0, <2>2, SameTree DEF Sound
  <2> QED BY <1>0, <2>2, <2>3 DEF Sound
<1>3. CASE n \in d.index \ {d.root} /\ d.head \notin Subtree(d, n)
  <2> DEFINE T == Subtree(d, n)
             a == Erase(d, T)
  <2>1. e = RestoreForkHead(a, d.parent[n])
    BY <1>3 DEF DiscardNode
  <2>2. a \in Database /\ Rooted(a)
    BY <1>0, <1>3, EraseTyped, EraseRooted
  <2>3. T \subseteq d.index /\ d.root \notin T /\ d.parent[n] \in d.finalized \ T
    BY <1>3, BranchBelow
  <2>4. /\ a.index = d.index \ T /\ a.finalized = d.finalized \ T
        /\ a.forkHeads = d.forkHeads \ T /\ a.head = d.head /\ a.root = d.root
        /\ a.disk = d.disk /\ a.torn = d.torn
        /\ \A m \in Node : /\ a.parent[m] = IF m \in T THEN NoNode ELSE d.parent[m]
                           /\ a.revision[m] = IF m \in T THEN 0 ELSE d.revision[m]
    BY <1>0, EraseFrame
  <2>5. d.head \notin T
    BY <1>3
  <2> HIDE DEF a, T
  <2>6. CASE e = a
    <3>1. \A m \in Node \ a.index : a.parent[m] = NoNode /\ a.revision[m] = 0
      BY <1>0, <2>4 DEF Sound
    <3>2. a.disk = [id |-> a.root, revision |-> a.revision[a.root]]
      BY <1>0, <2>3, <2>4 DEF Sound
    <3>3. a.head \in a.forkHeads /\ a.forkHeads \subseteq a.finalized /\ ~a.torn
      BY <1>0, <2>4, <2>5 DEF Sound
    <3> QED BY <2>2, <2>6, <3>1, <3>2, <3>3 DEF Sound
  <2>7. CASE e = [a EXCEPT !.forkHeads = @ \cup {d.parent[n]}]
    <3>1. e \in Database
      <4>1. a.forkHeads \cup {d.parent[n]} \in SUBSET Node
        BY <1>0, <2>2, <2>3 DEF Database
      <4> QED BY <2>2, <2>7, <4>1, SetForkHeads
    <3>2. /\ e.index = a.index /\ e.parent = a.parent /\ e.revision = a.revision
          /\ e.finalized = a.finalized /\ e.root = a.root /\ e.disk = a.disk
          /\ e.torn = a.torn /\ e.head = a.head
          /\ e.forkHeads = a.forkHeads \cup {d.parent[n]}
      BY <2>2, <2>7 DEF Database
    <3>3. Rooted(e)
      BY <2>2, <3>2, SameTree DEF Rooted
    <3>4. \A m \in Node \ e.index : e.parent[m] = NoNode /\ e.revision[m] = 0
      BY <1>0, <2>4, <3>2 DEF Sound
    <3>5. e.disk = [id |-> e.root, revision |-> e.revision[e.root]]
      BY <1>0, <2>3, <2>4, <3>2 DEF Sound
    <3>6. e.head \in e.forkHeads /\ e.forkHeads \subseteq e.finalized /\ ~e.torn
      BY <1>0, <2>3, <2>4, <2>5, <3>2 DEF Sound
    <3> QED BY <3>1, <3>3, <3>4, <3>5, <3>6 DEF Sound
  <2> QED BY <2>1, <2>6, <2>7 DEF RestoreForkHead
<1> QED BY <1>1, <1>2, <1>3

-----------------------------------------------------------------------------
(* commit_node *)

\* Typing: the root, its parent and the metadata after the move in commit_node.
LEMMA MoveRootTyped ==
    ASSUME NEW d \in Database, NEW n \in Node
    PROVE  MoveRoot(d, n) \in Database
<1> DEFINE a == [d EXCEPT !.root = n]
           b == [a EXCEPT !.parent = [@ EXCEPT ![n] = NoNode]]
           c == [b EXCEPT !.disk = [id |-> n, revision |-> d.revision[n]]]
<1>1. a \in Database
  BY SetRoot
<1>2. b \in Database
  <2> HIDE DEF a
  <2>1. [a.parent EXCEPT ![n] = NoNode] \in [Node -> Node \cup {NoNode}]
    BY <1>1 DEF Database
  <2> QED BY <1>1, <2>1, SetParent
<1>3. c \in Database
  <2> HIDE DEF b
  <2>1. [id |-> n, revision |-> d.revision[n]] \in [id : Node, revision : Nat]
    BY DEF Database
  <2> QED BY <1>2, <2>1, SetDisk
<1> QED BY <1>3, Zenon DEF MoveRoot

\* The two ends of commit_node: everything below the new root is kept, and if the head
\* is there the database is sound; if not, the database is torn.
LEMMA CommitSound ==
    ASSUME NEW d, Sound(d), NEW n \in d.finalized, NEW e \in CommitNode(d, n)
    PROVE  /\ e \in Database
           /\ e.torn <=> d.head \notin Subtree(d, n) /\ n # d.root
           /\ ~e.torn => Sound(e)
           /\ e.disk = [id |-> n, revision |-> d.revision[n]]
           /\ e.comp = d.comp
           /\ ~e.torn => e.root = n /\ e.head = d.head /\ e.index = Subtree(d, n)
<1> DEFINE kept   == Subtree(d, n)
           doomed == Subtree(d, d.root) \ kept
           moved  == MoveRoot(d, n)
<1>0. /\ d \in Database /\ d.index \subseteq Node /\ d.finalized \subseteq d.index
      /\ d.root \in d.finalized /\ d.forkHeads \subseteq d.finalized /\ d.head \in d.forkHeads
      /\ d.head \in Node /\ n \in Node /\ n \in d.index /\ d.torn = FALSE
      /\ d.index = Subtree(d, d.root)
      /\ d.revision \in [Node -> Nat] /\ d.parent \in [Node -> Node \cup {NoNode}]
      /\ d.disk = [id |-> d.root, revision |-> d.revision[d.root]]
  BY DEF Sound, Rooted, Database, Subtree
<1>1. CASE n = d.root
  BY <1>0, <1>1 DEF CommitNode
<1>2. moved \in Database
  BY <1>0, MoveRootTyped
<1>3. /\ moved.index = d.index /\ moved.finalized = d.finalized
      /\ moved.forkHeads = d.forkHeads /\ moved.head = d.head /\ moved.root = n
      /\ moved.torn = FALSE /\ moved.comp = d.comp /\ moved.revision = d.revision
      /\ moved.parent = [d.parent EXCEPT ![n] = NoNode]
      /\ moved.disk = [id |-> n, revision |-> d.revision[n]]
  BY <1>0 DEF Database, MoveRoot
<1>4. CASE n # d.root /\ d.head \notin kept
  <2>1. PICK c \in CannotDiscard(moved, doomed) : e = [c EXCEPT !.torn = TRUE]
    BY <1>4 DEF CommitNode
  <2> HIDE DEF moved, doomed
  <2>2. c \in Database /\ c.disk = moved.disk /\ c.comp = moved.comp
    BY <1>0, <1>2, <1>3, <2>1, CannotDiscardFrame
  <2>3. e \in Database
    BY <2>1, <2>2, SetTorn
  <2>4. e.torn = TRUE /\ e.disk = c.disk /\ e.comp = c.comp
    BY <2>1, <2>2 DEF Database
  <2> QED BY <1>3, <1>4, <2>2, <2>3, <2>4
<1>5. CASE n # d.root /\ d.head \in kept
  <2>1. e = Erase(moved, doomed)
    BY <1>5 DEF CommitNode
  <2>2. kept \subseteq d.index /\ n \in kept /\ doomed = d.index \ kept
    BY <1>0, SubtreeSelf DEF Subtree
  <2>3. ChildClosed(d, kept)
    BY SubtreeClosed
  <2>4. \A m \in kept \ {n} : d.parent[m] \in kept /\ d.revision[m] > d.revision[n]
    BY <1>0, SubtreeBelow
  <2>5. d.parent[n] \notin kept
    BY <1>0, <1>5, BranchBelow
  <2>5a. ASSUME NEW S, S \subseteq d.index, n \in S, ChildClosed(d, S)
         PROVE  kept \subseteq S
    BY <2>5a, SubtreeLeast
  <2> HIDE DEF moved, doomed, kept
  <2>6. e \in Database
    BY <1>2, <2>1, EraseTyped
  <2>7. /\ e.index = kept /\ e.finalized = d.finalized \cap kept
        /\ e.forkHeads = d.forkHeads \cap kept /\ e.head = d.head /\ e.root = n
        /\ e.disk = [id |-> n, revision |-> d.revision[n]]
        /\ e.torn = FALSE /\ e.comp = d.comp
    <3>1. /\ e.index = d.index \ doomed /\ e.finalized = d.finalized \ doomed
          /\ e.forkHeads = d.forkHeads \ doomed /\ e.head = d.head /\ e.root = n
          /\ e.disk = [id |-> n, revision |-> d.revision[n]]
          /\ e.torn = FALSE /\ e.comp = d.comp
      BY <1>2, <1>3, <2>1, EraseFrame
    <3> QED BY <1>0, <2>2, <3>1
  <2>8. \A m \in Node :
          /\ e.parent[m] = IF m \in doomed THEN NoNode ELSE moved.parent[m]
          /\ e.revision[m] = IF m \in doomed THEN 0 ELSE moved.revision[m]
    BY <1>2, <2>1, EraseFrame
  <2>9. e.parent[n] = NoNode /\ \A m \in kept : e.revision[m] = d.revision[m]
    BY <1>0, <1>3, <2>2, <2>8
  <2>10. \A m \in kept \ {n} : e.parent[m] = d.parent[m]
    BY <1>0, <1>3, <2>2, <2>8
  <2>11. e.index \subseteq Subtree(e, e.root)
    <3> SUFFICES ASSUME NEW S \in SUBSET e.index, e.root \in S, ChildClosed(e, S)
                 PROVE  e.index \subseteq S
      BY DEF Subtree
    <3>1. ChildClosed(d, S)
      BY <2>3, <2>5, <2>7, <2>10 DEF ChildClosed
    <3> QED BY <2>2, <2>5a, <2>7, <3>1
  <2>12. Rooted(e)
    <3>1. ASSUME NEW m \in kept \ {n}
          PROVE  /\ e.parent[m] \in e.finalized
                 /\ e.revision[m] = e.revision[e.parent[m]] + 1
                 /\ e.revision[m] > e.revision[n]
      <4>1. m # d.root
        BY <1>0, <2>2, <2>4 DEF Sound, Rooted
      <4>2. /\ d.parent[m] \in d.finalized
            /\ d.revision[m] = d.revision[d.parent[m]] + 1
        BY <2>2, <4>1 DEF Sound, Rooted
      <4> QED BY <1>0, <2>2, <2>4, <2>7, <2>9, <2>10, <4>2
    <3> QED BY <1>0, <2>2, <2>7, <2>9, <2>11, <3>1 DEF Rooted
  <2>13. \A m \in Node \ e.index : e.parent[m] = NoNode /\ e.revision[m] = 0
    BY <1>0, <1>3, <2>2, <2>7, <2>8 DEF Sound
  <2>14. Sound(e)
    BY <1>0, <1>5, <2>2, <2>6, <2>7, <2>9, <2>12, <2>13 DEF Sound
  <2> QED BY <1>5, <2>6, <2>7, <2>14 DEF kept
<1> QED BY <1>1, <1>4, <1>5

-----------------------------------------------------------------------------
(* Fork choice under fifo and block_time *)

\* A database that was just opened has one node.
LEMMA OpenChoice ==
    ASSUME NEW comp \in Algorithm, NEW disk \in [id : Node, revision : Nat]
    PROVE  ForkChoice(Open(comp, disk))
<1> DEFINE d == Open(comp, disk)
<1>1. /\ d.finalized = {disk.id} /\ d.head = disk.id /\ d.forkHeads = {disk.id}
      /\ d.parent = [n \in Node |-> NoNode]
      /\ d.revision = [n \in Node |-> IF n = disk.id THEN disk.revision ELSE 0]
      /\ disk.id \in Node /\ disk.revision \in Nat
  BY DEF Open, Closed
<1> HIDE DEF d
<1>2. Timestamp[disk.id] \in Nat
  BY <1>1, HeaderAssumption
<1> QED BY <1>1, <1>2, NodeAssumption
        DEF ForkChoice, HeadIsLongest, HeadIsEarliest, ForksAreTips, d

\* create_writable_node and clone_node do not touch finalized nodes.
LEMMA AddNodeChoice ==
    ASSUME NEW d, Sound(d), ForkChoice(d), NEW n \in Node \ d.index, NEW p, NEW r
    PROVE  ForkChoice(AddNode(d, n, p, r))
<1> DEFINE e == AddNode(d, n, p, r)
<1>1. /\ e.finalized = d.finalized /\ e.forkHeads = d.forkHeads /\ e.head = d.head
      /\ e.comp = d.comp
      /\ e.parent = [d.parent EXCEPT ![n] = p]
      /\ e.revision = [d.revision EXCEPT ![n] = r]
  BY DEF AddNode, Sound, Database
<1>2. /\ d.finalized \subseteq Node \ {n} /\ d.head \in d.finalized
      /\ d.revision \in [Node -> Nat] /\ d.parent \in [Node -> Node \cup {NoNode}]
  BY DEF Sound, Rooted, Database
<1> HIDE DEF e
<1>3. \A m \in d.finalized : e.parent[m] = d.parent[m] /\ e.revision[m] = d.revision[m]
  BY <1>1, <1>2
<1> QED BY <1>1, <1>2, <1>3 DEF ForkChoice, HeadIsLongest, HeadIsEarliest, ForksAreTips, e

\* Removing nodes other than the head, and fork heads, keeps the fork choice; a fork head
\* may be added if it has no child.
LEMMA ShrinkChoice ==
    ASSUME NEW d, NEW e, ForkChoice(d), e.comp = d.comp, e.head = d.head,
           e.finalized \subseteq d.finalized, e.head \in e.finalized,
           \A m \in e.finalized : e.revision[m] = d.revision[m],
           \A m \in e.finalized : e.parent[m] \in e.forkHeads => d.parent[m] \in d.forkHeads
    PROVE  ForkChoice(e)
  BY DEF ForkChoice, HeadIsLongest, HeadIsEarliest, ForksAreTips

\* discard_node keeps the fork choice.
LEMMA DiscardChoice ==
    ASSUME NEW d, Sound(d), ForkChoice(d), NEW n \in Node, NEW e \in DiscardNode(d, n)
    PROVE  ForkChoice(e)
<1>0. /\ d \in Database /\ d.finalized \subseteq d.index /\ d.forkHeads \subseteq d.finalized
      /\ d.head \in d.forkHeads /\ d.head \in Node /\ d.index \subseteq Node
  BY DEF Sound, Rooted, Database
<1>1. CASE n \notin d.index \/ n = d.root
  BY <1>1 DEF DiscardNode
<1>2. CASE n \in d.index \ {d.root} /\ d.head \in Subtree(d, n)
  <2>1. e \in CannotDiscard(d, Subtree(d, n))
    BY <1>2 DEF DiscardNode
  <2>2. /\ e.parent = d.parent /\ e.revision = d.revision /\ e.finalized = d.finalized
        /\ e.head = d.head /\ e.comp = d.comp /\ e.forkHeads \subseteq d.forkHeads
    BY <1>0, <2>1, CannotDiscardFrame
  <2>3. /\ e.finalized \subseteq d.finalized /\ e.head \in e.finalized
        /\ \A m \in e.finalized : e.revision[m] = d.revision[m]
        /\ \A m \in e.finalized : e.parent[m] \in e.forkHeads => d.parent[m] \in d.forkHeads
    BY <1>0, <2>2
  <2> QED BY <2>2, <2>3, ShrinkChoice
<1>3. CASE n \in d.index \ {d.root} /\ d.head \notin Subtree(d, n)
  <2> DEFINE T == Subtree(d, n)
             a == Erase(d, T)
  <2>1. e = RestoreForkHead(a, d.parent[n])
    BY <1>3 DEF DiscardNode
  <2>2. a \in Database
    BY <1>0, EraseTyped
  <2>3. /\ a.index = d.index \ T /\ a.finalized = d.finalized \ T
        /\ a.forkHeads = d.forkHeads \ T /\ a.head = d.head /\ a.comp = d.comp
        /\ \A m \in Node \ T : a.parent[m] = d.parent[m] /\ a.revision[m] = d.revision[m]
    BY <1>0, EraseFrame
  <2>4. d.head \notin T
    BY <1>3
  <2> HIDE DEF a, T
  <2>5. ForkChoice(a)
    <3>1. /\ a.finalized \subseteq d.finalized /\ a.head \in a.finalized
          /\ \A m \in a.finalized : a.revision[m] = d.revision[m]
          /\ \A m \in a.finalized : a.parent[m] \in a.forkHeads => d.parent[m] \in d.forkHeads
      BY <1>0, <2>3, <2>4
    <3> QED BY <2>3, <3>1, ShrinkChoice
  <2>6. CASE /\ \A m \in a.index : a.parent[m] # d.parent[n]
             /\ e = [a EXCEPT !.forkHeads = @ \cup {d.parent[n]}]
    <3>1. /\ e.index = a.index /\ e.parent = a.parent /\ e.revision = a.revision
          /\ e.finalized = a.finalized /\ e.head = a.head /\ e.comp = a.comp
          /\ e.forkHeads = a.forkHeads \cup {d.parent[n]}
      BY <2>2, <2>6 DEF Database
    <3>2. a.finalized \subseteq a.index /\ a.head \in a.finalized
      BY <1>0, <2>3, <2>4
    <3>3. \A m \in e.finalized : e.parent[m] \in e.forkHeads => a.parent[m] \in a.forkHeads
      BY <2>6, <3>1, <3>2
    <3>4. /\ e.finalized \subseteq a.finalized /\ e.head \in e.finalized
          /\ \A m \in e.finalized : e.revision[m] = a.revision[m]
      BY <3>1, <3>2
    <3> QED BY <2>5, <3>1, <3>3, <3>4, ShrinkChoice
  <2> QED BY <2>1, <2>5, <2>6 DEF RestoreForkHead
<1> QED BY <1>1, <1>2, <1>3

\* commit_node keeps the fork choice unless it tears the database.
LEMMA CommitChoice ==
    ASSUME NEW d, Sound(d), ForkChoice(d), NEW n \in d.finalized, NEW e \in CommitNode(d, n),
           ~e.torn
    PROVE  ForkChoice(e)
<1> DEFINE kept   == Subtree(d, n)
           doomed == Subtree(d, d.root) \ kept
           moved  == MoveRoot(d, n)
<1>0. /\ d \in Database /\ d.index \subseteq Node /\ d.finalized \subseteq d.index
      /\ d.forkHeads \subseteq d.finalized /\ d.head \in d.forkHeads
      /\ n \in Node /\ NoNode \notin Node /\ d.parent \in [Node -> Node \cup {NoNode}]
  BY NodeAssumption DEF Sound, Rooted, Database
<1>1. CASE n = d.root
  BY <1>1 DEF CommitNode
<1>2. CASE n # d.root
  <2>1. d.head \in kept
    BY <1>2, CommitSound
  <2>2. e = Erase(moved, doomed)
    BY <1>2, <2>1 DEF CommitNode
  <2>3. moved \in Database
    BY <1>0, MoveRootTyped
  <2>4. /\ moved.finalized = d.finalized /\ moved.forkHeads = d.forkHeads
        /\ moved.head = d.head /\ moved.comp = d.comp /\ moved.revision = d.revision
        /\ moved.parent = [d.parent EXCEPT ![n] = NoNode]
    BY <1>0 DEF Database, MoveRoot
  <2>5. d.head \notin doomed
    BY <2>1
  <2> HIDE DEF moved, doomed, kept
  <2>6. /\ e.finalized = d.finalized \ doomed /\ e.forkHeads = d.forkHeads \ doomed
        /\ e.head = d.head /\ e.comp = d.comp
        /\ \A m \in Node \ doomed : /\ e.parent[m] = moved.parent[m]
                                    /\ e.revision[m] = d.revision[m]
    <3>1. /\ e.finalized = moved.finalized \ doomed /\ e.forkHeads = moved.forkHeads \ doomed
          /\ e.head = moved.head /\ e.comp = moved.comp
      BY <2>2, <2>3, EraseFrame
    <3>2. \A m \in Node : /\ e.parent[m] = IF m \in doomed THEN NoNode ELSE moved.parent[m]
                          /\ e.revision[m] = IF m \in doomed THEN 0 ELSE moved.revision[m]
      BY <2>2, <2>3, EraseFrame
    <3> QED BY <2>4, <3>1, <3>2
  <2>7. /\ e.finalized \subseteq d.finalized /\ e.head \in e.finalized
        /\ \A m \in e.finalized : e.revision[m] = d.revision[m]
    BY <1>0, <2>5, <2>6
  <2>8. \A m \in e.finalized : e.parent[m] \in e.forkHeads => d.parent[m] \in d.forkHeads
    BY <1>0, <2>4, <2>6
  <2> QED BY <2>6, <2>7, <2>8, ShrinkChoice
<1> QED BY <1>1, <1>2

\* finalize_node keeps the fork choice: under fifo and block_time the node that is
\* finalized has no finalized child yet, and takes its parent's place.
LEMMA FinalizeChoice ==
    ASSUME NEW d, Sound(d), ForkChoice(d), NEW n \in d.index \ d.finalized,
           NEW e \in FinalizeNode(d, n)
    PROVE  ForkChoice(e)
<1> DEFINE c == [d EXCEPT !.finalized = @ \cup {n}]
<1>0. /\ d \in Database /\ d.index \subseteq Node /\ d.finalized \subseteq d.index
      /\ d.revision \in [Node -> Nat] /\ d.parent \in [Node -> Node \cup {NoNode}]
      /\ d.root \in d.finalized /\ d.parent[d.root] = NoNode
      /\ d.forkHeads \subseteq d.finalized /\ d.head \in d.forkHeads
      /\ d.comp \in Algorithm /\ NoNode \notin Node /\ Timestamp \in [Node -> Nat]
  BY NodeAssumption, HeaderAssumption DEF Sound, Rooted, Database
<1>1. d.parent[n] # n /\ d.revision[n] = d.revision[d.parent[n]] + 1
  BY <1>0 DEF Sound, Rooted
<1>2. \A m \in d.index : d.parent[m] # n
  BY <1>0 DEF Sound, Rooted
<1>3. /\ e.parent = d.parent /\ e.revision = d.revision /\ e.comp = d.comp
      /\ e.finalized = d.finalized \cup {n}
  BY <1>0, FinalizeFrame
<1> SUFFICES ASSUME d.comp # "pob"
             PROVE  HeadIsLongest(e) /\ ForksAreTips(e)
                      /\ (d.comp = "block_time" => HeadIsEarliest(e))
  BY <1>3 DEF ForkChoice, Algorithm
<1>4. HeadIsLongest(d) /\ ForksAreTips(d) /\ (d.comp = "block_time" => HeadIsEarliest(d))
  BY DEF ForkChoice
<1>5. /\ c \in Database
      /\ c.head = d.head /\ c.forkHeads = d.forkHeads /\ c.comp = d.comp
      /\ c.revision = d.revision /\ c.parent = d.parent
  BY <1>0, SetFinalized DEF Database
<1>6. PICK b \in ChooseHead(c, n) : e = RecordForkHead(b, n)
  BY DEF FinalizeNode
<1> HIDE DEF c
<1>7. /\ b.forkHeads = d.forkHeads /\ b.parent = d.parent
      /\ b = [b EXCEPT !.forkHeads = @]
      /\ \/ d.revision[n] > d.revision[d.head] /\ b.head = n
         \/ d.revision[n] = d.revision[d.head] /\ b.head \in {n, d.head}
              /\ (d.comp = "block_time" => b.head = BlockTimeChoice(d, n))
         \/ d.revision[n] < d.revision[d.head] /\ b.head = d.head
  <2>1. CASE d.revision[n] > d.revision[d.head]
    <3>1. b = [c EXCEPT !.head = n]
      BY <1>5, <1>6, <2>1 DEF ChooseHead
    <3> QED BY <1>5, <2>1, <3>1 DEF Database
  <2>2. CASE d.revision[n] = d.revision[d.head]
    <3>1. PICK h \in Choices(c, n) :
            b = IF h = NoNode THEN FallBack(c) ELSE [c EXCEPT !.head = h]
      BY <1>0, <1>5, <1>6, <2>2 DEF ChooseHead
    <3>2. /\ h = BlockTimeChoice(c, n) \/ h = c.head
          /\ c.comp = "block_time" => h = BlockTimeChoice(c, n)
      BY <1>0, <1>5, ChoicesKnown
    <3>3. BlockTimeChoice(c, n) = BlockTimeChoice(d, n)
      BY <1>5 DEF BlockTimeChoice
    <3>4. h \in {n, d.head} /\ (d.comp = "block_time" => h = BlockTimeChoice(d, n))
      BY <1>5, <3>2, <3>3 DEF BlockTimeChoice
    <3>5. b = [c EXCEPT !.head = h]
      BY <1>0, <3>1, <3>4
    <3> QED BY <1>5, <2>2, <3>4, <3>5 DEF Database
  <2>3. CASE d.revision[n] < d.revision[d.head]
    <3>1. b = c
      BY <1>0, <1>5, <1>6, <2>3 DEF ChooseHead
    <3> QED BY <1>5, <2>3, <3>1 DEF Database
  <2> QED BY <1>0, <2>1, <2>2, <2>3
<1>8. d.parent[n] # b.head
  BY <1>0, <1>1, <1>7
<1>9. e.head = b.head /\ e.forkHeads = (d.forkHeads \ {d.parent[n]}) \cup {n}
  BY <1>6, <1>7, <1>8 DEF RecordForkHead
<1>10. HeadIsLongest(e)
  <2> SUFFICES ASSUME NEW m \in d.finalized \cup {n}
               PROVE  d.revision[m] <= d.revision[b.head]
    BY <1>3, <1>9 DEF HeadIsLongest
  <2> QED BY <1>0, <1>4, <1>7 DEF HeadIsLongest
<1>11. ForksAreTips(e)
  BY <1>0, <1>1, <1>2, <1>3, <1>4, <1>9 DEF ForksAreTips
<1>12. ASSUME d.comp = "block_time" PROVE HeadIsEarliest(e)
  <2> SUFFICES ASSUME NEW m \in d.finalized \cup {n}, d.revision[m] = d.revision[b.head]
               PROVE  Timestamp[b.head] <= Timestamp[m]
    BY <1>3, <1>9 DEF HeadIsEarliest
  <2>1. /\ \A x \in d.finalized : d.revision[x] <= d.revision[d.head]
        /\ \A x \in d.finalized : d.revision[x] = d.revision[d.head]
                                    => Timestamp[d.head] <= Timestamp[x]
    BY <1>4, <1>12 DEF HeadIsLongest, HeadIsEarliest
  <2> QED BY <1>0, <1>7, <1>12, <2>1 DEF BlockTimeChoice
<1> QED BY <1>10, <1>11, <1>12

\* What a commit that throws leaves: every node, the root moved, and the metadata with it.
LEMMA CommitTorn ==
    ASSUME NEW d, Sound(d), NEW n \in d.finalized, NEW e \in CommitNode(d, n), e.torn
    PROVE  /\ e.index = d.index /\ e.finalized = d.finalized
           /\ e.root = n /\ e.head = d.head /\ e.revision = d.revision
           /\ \A m \in Node \ d.index : e.parent[m] = NoNode
<1> DEFINE doomed == Subtree(d, d.root) \ Subtree(d, n)
           moved  == MoveRoot(d, n)
<1>0. /\ d \in Database /\ d.head \in Node /\ n \in d.index /\ d.index \subseteq Node
      /\ d.parent \in [Node -> Node \cup {NoNode}]
      /\ \A m \in Node \ d.index : d.parent[m] = NoNode
  BY DEF Sound, Rooted, Database
<1>1. n # d.root /\ d.head \notin Subtree(d, n)
  BY CommitSound, ZenonT(40)
<1>2. PICK c \in CannotDiscard(moved, doomed) : e = [c EXCEPT !.torn = TRUE]
  BY <1>1, Zenon DEF CommitNode
<1>3. moved \in Database
  BY <1>0, MoveRootTyped
<1>4. /\ moved.index = d.index /\ moved.finalized = d.finalized
      /\ moved.head = d.head /\ moved.root = n /\ moved.revision = d.revision
      /\ moved.parent = [d.parent EXCEPT ![n] = NoNode]
  BY <1>0 DEF Database, MoveRoot
<1> HIDE DEF moved, doomed
<1>5. /\ c \in Database
      /\ c.index = moved.index /\ c.parent = moved.parent /\ c.revision = moved.revision
      /\ c.finalized = moved.finalized /\ c.root = moved.root /\ c.head = moved.head
  BY <1>0, <1>2, <1>3, <1>4, CannotDiscardFrame
<1>6. /\ e.index = c.index /\ e.parent = c.parent /\ e.revision = c.revision
      /\ e.finalized = c.finalized /\ e.root = c.root /\ e.head = c.head
  BY <1>2, <1>5 DEF Database
<1> QED BY <1>0, <1>4, <1>5, <1>6

-----------------------------------------------------------------------------
(* What the operations leave alone *)

\* discard_node never moves the head, the root or the metadata.
LEMMA DiscardFrame ==
    ASSUME NEW d, Sound(d), NEW n \in Node, NEW e \in DiscardNode(d, n)
    PROVE  e.head = d.head /\ e.root = d.root /\ e.disk = d.disk /\ e.comp = d.comp
<1>0. d \in Database /\ d.head \in Node
  BY DEF Sound, Database
<1>1. CASE n \notin d.index \/ n = d.root
  BY <1>1 DEF DiscardNode
<1>2. CASE n \in d.index \ {d.root} /\ d.head \in Subtree(d, n)
  <2>1. e \in CannotDiscard(d, Subtree(d, n))
    BY <1>2 DEF DiscardNode
  <2> QED BY <1>0, <2>1, CannotDiscardFrame
<1>3. CASE n \in d.index \ {d.root} /\ d.head \notin Subtree(d, n)
  <2> DEFINE a == Erase(d, Subtree(d, n))
  <2>1. e = RestoreForkHead(a, d.parent[n])
    BY <1>3 DEF DiscardNode
  <2>2. a \in Database
    BY <1>0, EraseTyped
  <2>3. a.head = d.head /\ a.root = d.root /\ a.disk = d.disk /\ a.comp = d.comp
    BY <1>0, EraseFrame
  <2> HIDE DEF a
  <2>4. e.head = a.head /\ e.root = a.root /\ e.disk = a.disk /\ e.comp = a.comp
    BY <2>1, <2>2 DEF RestoreForkHead, Database
  <2> QED BY <2>3, <2>4
<1> QED BY <1>1, <1>2, <1>3

\* fifo_comparator: finalize_node gives up the head for a longer chain only.
LEMMA FifoKeepsHead ==
    ASSUME NEW d, Sound(d), d.comp = "fifo", NEW n \in d.index \ d.finalized,
           NEW e \in FinalizeNode(d, n), e.head # d.head
    PROVE  e.revision[e.head] > d.revision[d.head]
<1> DEFINE c == [d EXCEPT !.finalized = @ \cup {n}]
<1>0. d \in Database /\ d.head \in d.forkHeads /\ d.comp \in Algorithm /\ d.head # NoNode
  BY NodeAssumption DEF Sound, Rooted, Database
<1>1. /\ c \in Database /\ c.head = d.head /\ c.forkHeads = d.forkHeads
      /\ c.comp = d.comp /\ c.revision = d.revision
  BY <1>0, SetFinalized DEF Sound, Database
<1>2. PICK b \in ChooseHead(c, n) : e = RecordForkHead(b, n)
  BY DEF FinalizeNode
<1> HIDE DEF c
<1>3. CASE d.revision[n] > d.revision[d.head]
  <2>1. b = [c EXCEPT !.head = n]
    BY <1>1, <1>2, <1>3 DEF ChooseHead
  <2>2. b.head = n /\ b = [b EXCEPT !.forkHeads = @]
    BY <1>1, <2>1 DEF Database
  <2>3. e.head = n
    BY <1>2, <2>2 DEF RecordForkHead
  <2>4. e.revision = d.revision
    BY <1>0, FinalizeFrame
  <2> QED BY <1>3, <2>3, <2>4
<1>4. CASE ~(d.revision[n] > d.revision[d.head])
  <2>1. \A h \in Choices(c, n) : h = d.head
    BY <1>0, <1>1, ChoicesKnown
  <2>2. b.head = d.head /\ b = [b EXCEPT !.forkHeads = @]
    BY <1>0, <1>1, <1>2, <1>4, <2>1 DEF ChooseHead, Database
  <2>3. e.head = d.head
    BY <1>2, <2>2 DEF RecordForkHead
  <2> QED BY <2>3
<1> QED BY <1>3, <1>4

\* commit_node never moves the head, whether it throws or not.
LEMMA CommitKeepsHead ==
    ASSUME NEW d, Sound(d), NEW n \in d.finalized, NEW e \in CommitNode(d, n)
    PROVE  e.head = d.head
<1>1. CASE e.torn
  BY <1>1, CommitTorn
<1>2. ~e.torn => (e.root = n /\ e.head = d.head /\ e.index = Subtree(d, n))
  BY CommitSound
<1> QED BY <1>1, <1>2
-----------------------------------------------------------------------------
(* What the callers of the tree rely on *)

\* What hangs below a node of a branch hangs below the branch.
LEMMA SubtreeTransitive ==
    ASSUME NEW d, NEW n, NEW m \in Subtree(d, n)
    PROVE  Subtree(d, m) \subseteq Subtree(d, n)
<1>1. Subtree(d, n) \subseteq d.index
  BY DEF Subtree
<1> QED BY <1>1, SubtreeClosed, SubtreeLeast

\* create_writable_node asks for a finalized parent, so nothing hangs below a writable node.
LEMMA WritableLeaf ==
    ASSUME NEW d, Sound(d), NEW n \in d.index \ d.finalized
    PROVE  Subtree(d, n) = {n}
<1>1. ChildClosed(d, {n})
  <2> SUFFICES ASSUME NEW m \in d.index, d.parent[m] = n
               PROVE  FALSE
    BY DEF ChildClosed
  <2>1. n \in Node /\ n # NoNode
    BY NodeAssumption DEF Sound, Database
  <2>2. m # d.root
    BY <2>1 DEF Sound, Rooted
  <2> QED BY <2>2 DEF Sound, Rooted
<1> QED BY <1>1, SubtreeSelf, SubtreeLeast

\* discard_node on a writable node takes that node and nothing else.  Its parent may be
\* entered among the fork heads, if it has no other child.
LEMMA DiscardWritable ==
    ASSUME NEW d, Sound(d), NEW n \in d.index \ d.finalized, NEW e \in DiscardNode(d, n)
    PROVE  /\ e.index = d.index \ {n} /\ e.finalized = d.finalized
           /\ e.head = d.head /\ e.root = d.root /\ e.disk = d.disk /\ e.comp = d.comp
           /\ \A m \in Node \ {n} : /\ e.parent[m] = d.parent[m]
                                    /\ e.revision[m] = d.revision[m]
           /\ \/ e.forkHeads = d.forkHeads
              \/ /\ e.forkHeads = d.forkHeads \cup {d.parent[n]}
                 /\ \A m \in e.index : e.parent[m] # d.parent[n]
<1> DEFINE c == Erase(d, {n})
<1>0. /\ d \in Database /\ n \in Node /\ d.head \in d.finalized /\ n # d.root
      /\ d.forkHeads \subseteq d.finalized
  BY DEF Sound, Rooted, Database
<1>1. e = RestoreForkHead(c, d.parent[n])
  BY <1>0, WritableLeaf DEF DiscardNode
<1>2. c \in Database
  BY <1>0, EraseTyped
<1>3. /\ c.index = d.index \ {n} /\ c.finalized = d.finalized \ {n}
      /\ c.forkHeads = d.forkHeads \ {n} /\ c.head = d.head /\ c.root = d.root
      /\ c.disk = d.disk /\ c.comp = d.comp
      /\ \A m \in Node : /\ c.parent[m] = IF m \in {n} THEN NoNode ELSE d.parent[m]
                         /\ c.revision[m] = IF m \in {n} THEN 0 ELSE d.revision[m]
  BY <1>0, EraseFrame
<1> HIDE DEF c
<1>4. c.finalized = d.finalized /\ c.forkHeads = d.forkHeads
  BY <1>0, <1>3
<1>5. /\ e.index = c.index /\ e.finalized = c.finalized /\ e.head = c.head
      /\ e.root = c.root /\ e.disk = c.disk /\ e.comp = c.comp
      /\ e.parent = c.parent /\ e.revision = c.revision
      /\ \/ e.forkHeads = c.forkHeads
         \/ /\ e.forkHeads = c.forkHeads \cup {d.parent[n]}
            /\ \A m \in c.index : c.parent[m] # d.parent[n]
  <2>1. CASE \E m \in c.index : c.parent[m] = d.parent[n]
    BY <1>1, <2>1 DEF RestoreForkHead
  <2>2. CASE ~\E m \in c.index : c.parent[m] = d.parent[n]
    <3>1. e = [c EXCEPT !.forkHeads = @ \cup {d.parent[n]}]
      BY <1>1, <2>2 DEF RestoreForkHead
    <3> QED BY <1>2, <2>2, <3>1 DEF Database
  <2> QED BY <2>1, <2>2
<1>6. \A m \in Node \ {n} : c.parent[m] = d.parent[m] /\ c.revision[m] = d.revision[m]
  BY <1>3
<1>7. \A m \in Node \ {n} : e.parent[m] = d.parent[m] /\ e.revision[m] = d.revision[m]
  BY <1>5, <1>6
<1>8. \/ e.forkHeads = d.forkHeads
      \/ /\ e.forkHeads = d.forkHeads \cup {d.parent[n]}
         /\ \A m \in e.index : e.parent[m] # d.parent[n]
  BY <1>4, <1>5, Zenon
<1> QED BY <1>3, <1>4, <1>5, <1>7, <1>8, Zenon

\* commit_node when the head is below the new root: it keeps that branch as it was, cut
\* from its parent.
LEMMA CommitFrame ==
    ASSUME NEW d, Sound(d), NEW n \in d.finalized, d.head \in Subtree(d, n),
           NEW e \in CommitNode(d, n)
    PROVE  /\ ~e.torn /\ e.root = n /\ e.head = d.head /\ e.comp = d.comp
           /\ e.index = Subtree(d, n)
           /\ e.finalized = d.finalized \cap Subtree(d, n)
           /\ e.forkHeads = d.forkHeads \cap Subtree(d, n)
           /\ \A m \in Subtree(d, n) : e.revision[m] = d.revision[m]
           /\ \A m \in Subtree(d, n) \ {n} : e.parent[m] = d.parent[m]
<1> DEFINE kept   == Subtree(d, n)
           doomed == Subtree(d, d.root) \ kept
           moved  == MoveRoot(d, n)
<1>0. /\ d \in Database /\ d.index \subseteq Node /\ d.finalized \subseteq d.index
      /\ d.forkHeads \subseteq d.finalized /\ n \in Node /\ kept \subseteq d.index
      /\ d.index = Subtree(d, d.root) /\ d.torn = FALSE
      /\ d.parent \in [Node -> Node \cup {NoNode}]
  BY DEF Sound, Rooted, Database, Subtree
<1>1. CASE n = d.root
  BY <1>0, <1>1 DEF CommitNode
<1>2. CASE n # d.root
  <2>1. e = Erase(moved, doomed)
    BY <1>2 DEF CommitNode
  <2>2. moved \in Database
    BY <1>0, MoveRootTyped
  <2>3. /\ moved.index = d.index /\ moved.finalized = d.finalized
        /\ moved.forkHeads = d.forkHeads /\ moved.revision = d.revision
        /\ moved.parent = [d.parent EXCEPT ![n] = NoNode]
        /\ moved.root = n /\ moved.head = d.head /\ moved.comp = d.comp /\ moved.torn = FALSE
    BY <1>0 DEF Database, MoveRoot
  <2>4. doomed = d.index \ kept
    BY <1>0
  <2> HIDE DEF moved, doomed, kept
  <2>5. /\ e.index = moved.index \ doomed /\ e.root = moved.root /\ e.head = moved.head
        /\ e.comp = moved.comp /\ e.torn = moved.torn
        /\ e.finalized = moved.finalized \ doomed /\ e.forkHeads = moved.forkHeads \ doomed
        /\ \A m \in Node :
            /\ e.parent[m] = IF m \in doomed THEN NoNode ELSE moved.parent[m]
            /\ e.revision[m] = IF m \in doomed THEN 0 ELSE moved.revision[m]
    BY <2>1, <2>2, EraseFrame
  <2>6. e.index = kept /\ e.finalized = d.finalized \cap kept /\ e.forkHeads = d.forkHeads \cap kept
    BY <1>0, <2>3, <2>4, <2>5
  <2>7. \A m \in kept : e.revision[m] = d.revision[m]
    BY <1>0, <2>3, <2>4, <2>5
  <2>8. \A m \in kept \ {n} : e.parent[m] = d.parent[m]
    BY <1>0, <2>3, <2>4, <2>5
  <2> QED BY <2>3, <2>5, <2>6, <2>7, <2>8 DEF kept
<1> QED BY <1>1, <1>2

\* finalize_node: a node longer than the head becomes the head under every comparator.
LEMMA LongerIsHead ==
    ASSUME NEW d \in Database, NEW n, d.revision[n] > d.revision[d.head],
           NEW e \in FinalizeNode(d, n)
    PROVE  e.head = n
<1> DEFINE c == [d EXCEPT !.finalized = @ \cup {n}]
           b == [c EXCEPT !.head = n]
<1>1. c.revision = d.revision /\ c.head = d.head
  BY DEF Database
<1>2. e = RecordForkHead(b, n)
  BY <1>1 DEF FinalizeNode, ChooseHead
<1>3. b.head = n /\ [b EXCEPT !.forkHeads = (@ \ {b.parent[n]}) \cup {n}].head = n
  BY DEF Database
<1> QED BY <1>2, <1>3 DEF RecordForkHead

\* finalize_node under fifo and block_time: the head stays or becomes the new node, which
\* always takes its parent's place among the fork heads.
LEMMA FinalizeHeads ==
    ASSUME NEW d, Sound(d), d.comp # "pob", NEW n \in d.index \ d.finalized,
           NEW e \in FinalizeNode(d, n)
    PROVE  /\ e.head \in {n, d.head}
           /\ e.forkHeads = (d.forkHeads \ {d.parent[n]}) \cup {n}
<1> DEFINE c == [d EXCEPT !.finalized = @ \cup {n}]
<1>0. /\ d \in Database /\ d.head \in d.forkHeads /\ d.head \in Node /\ n \in Node
      /\ d.comp \in Algorithm /\ n # d.root /\ n # NoNode /\ d.head # NoNode
      /\ d.revision \in [Node -> Nat]
      /\ d.parent[n] \in d.finalized /\ d.revision[n] = d.revision[d.parent[n]] + 1
  BY NodeAssumption DEF Sound, Rooted, Database
<1>1. /\ c \in Database /\ c.head = d.head /\ c.forkHeads = d.forkHeads /\ c.comp = d.comp
      /\ c.revision = d.revision /\ c.parent = d.parent
  BY <1>0, SetFinalized DEF Database
<1>2. PICK b \in ChooseHead(c, n) : e = RecordForkHead(b, n)
  BY DEF FinalizeNode
<1> HIDE DEF c
<1>3. \E h \in {n, d.head} :
        b = [c EXCEPT !.head = h] /\ (d.revision[n] > d.revision[d.head] => h = n)
  <2>1. CASE d.revision[n] > d.revision[d.head]
    BY <1>1, <1>2, <2>1 DEF ChooseHead
  <2>2. CASE d.revision[n] = d.revision[d.head]
    <3>0. b \in {IF h = NoNode THEN FallBack(c) ELSE [c EXCEPT !.head = h] : h \in Choices(c, n)}
      BY <1>0, <1>1, <1>2, <2>2 DEF ChooseHead
    <3>1. PICK h \in Choices(c, n) :
            b = IF h = NoNode THEN FallBack(c) ELSE [c EXCEPT !.head = h]
      BY <3>0
    <3>2. h = BlockTimeChoice(c, n) \/ h = c.head
      BY <1>0, <1>1, ChoicesKnown
    <3>3. h \in {n, d.head}
      BY <1>1, <3>2 DEF BlockTimeChoice
    <3>4. ~(d.revision[n] > d.revision[d.head])
      BY <1>0, <2>2
    <3> QED BY <1>0, <3>1, <3>3, <3>4
  <2>3. CASE d.revision[n] < d.revision[d.head]
    <3>1. b = c
      BY <1>0, <1>1, <1>2, <2>3 DEF ChooseHead
    <3>2. c = [c EXCEPT !.head = d.head]
      BY <1>1 DEF Database
    <3>3. ~(d.revision[n] > d.revision[d.head])
      BY <1>0, <2>3
    <3> QED BY <3>1, <3>2, <3>3
  <2> QED BY <1>0, <2>1, <2>2, <2>3
<1>4. PICK h \in {n, d.head} :
        b = [c EXCEPT !.head = h] /\ (d.revision[n] > d.revision[d.head] => h = n)
  BY <1>3
<1>5. b.head = h /\ b.forkHeads = d.forkHeads /\ b.parent = d.parent /\ b \in Database
  <2>1. b \in Database
    BY <1>0, <1>1, <1>4, SetHead
  <2> QED BY <1>1, <1>4, <2>1 DEF Database
<1>6. d.parent[n] # h
  BY <1>0, <1>4 DEF Sound, Rooted
<1>7. e = [b EXCEPT !.forkHeads = (@ \ {d.parent[n]}) \cup {n}]
  BY <1>2, <1>5, <1>6 DEF RecordForkHead
<1> QED BY <1>4, <1>5, <1>7 DEF Database
=============================================================================
