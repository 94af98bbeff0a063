--------------------------- MODULE StateDbProofs ---------------------------
(***************************************************************************)
(* The properties of StateDb for any set of nodes, any headers and chains  *)
(* of any length.  The inductive invariant says that the database is       *)
(* closed, or open and sound, or torn by a commit that threw.              *)
(***************************************************************************)
EXTENDS StateDb, StateTreeProofs

\* What a commit that threw leaves until the process closes the database.
Torn(d) ==
    /\ d.torn
    /\ d.finalized \subseteq d.index
    /\ d.root \in Node /\ d.head \in Node
    /\ \A n \in Node \ d.index : d.parent[n] = NoNode /\ d.revision[n] = 0
    /\ d.disk = [id |-> d.root, revision |-> d.revision[d.root]]

IInv ==
    /\ db \in Database
    /\ \/ db = Closed(db.comp, db.disk)
       \/ Sound(db) /\ ForkChoice(db)
       \/ Torn(db)

\* A closed database is not open and is well typed.
LEMMA ClosedFacts ==
    ASSUME NEW comp \in Algorithm, NEW disk \in [id : Node, revision : Nat]
    PROVE  LET d == Closed(comp, disk)
           IN  /\ d \in Database /\ d.index = {} /\ d.finalized = {}
               /\ d.comp = comp /\ d.disk = disk /\ d.root = NoNode
               /\ \A n \in Node : d.parent[n] = NoNode /\ d.revision[n] = 0
  BY DEF Closed, Database

\* A usable database is sound.
LEMMA UsableSound ==
    ASSUME IInv, Usable
    PROVE  Sound(db) /\ ForkChoice(db)
<1>1. db.comp \in Algorithm /\ db.disk \in [id : Node, revision : Nat]
  BY DEF IInv, Database
<1>2. db # Closed(db.comp, db.disk)
  BY <1>1, ClosedFacts DEF Usable, IsOpen
<1> QED BY <1>2 DEF IInv, Usable, Torn

\* Every action of the database keeps the inductive invariant.
LEMMA StepInv ==
    ASSUME IInv, [Next]_db
    PROVE  IInv'
<1>0. db.comp \in Algorithm /\ db.disk \in [id : Node, revision : Nat]
  BY DEF IInv, Database
<1>1. ASSUME Sound(db') /\ ForkChoice(db') PROVE IInv'
  BY <1>1 DEF IInv, Sound
<1>2. CASE OpenDb
  <2>1. PICK comp \in Algorithm : db' = Open(comp, db.disk)
    BY <1>2 DEF OpenDb
  <2> QED BY <1>0, <1>1, <2>1, OpenSound, OpenChoice
<1>3. CASE CloseDb
  <2>1. db' = Closed(db.comp, db.disk)
    BY <1>3 DEF CloseDb
  <2>2. db' \in Database /\ db'.comp = db.comp /\ db'.disk = db.disk
    BY <1>0, <2>1, ClosedFacts
  <2>3. db' = Closed(db'.comp, db'.disk)
    BY <2>1, <2>2
  <2> QED BY <2>2, <2>3 DEF IInv
<1>4. CASE ResetDb
  <2>1. EmptyDisk \in [id : Node, revision : Nat]
    BY NodeAssumption DEF EmptyDisk
  <2> QED BY <1>0, <1>1, <1>4, <2>1, OpenSound, OpenChoice DEF ResetDb, Reset
<1>5. CASE CreateNode
  <2>1. PICK p \in Node, n \in Node :
          CanCreate(db, p, n) /\ db' = CreateWritableNode(db, p, n)
    BY <1>5 DEF CreateNode
  <2>2. Sound(db) /\ ForkChoice(db)
    BY <1>5, UsableSound DEF CreateNode
  <2>3. Sound(db')
    BY <2>1, <2>2, CreateSound
  <2>4. ForkChoice(db')
    BY <2>1, <2>2, AddNodeChoice DEF CreateWritableNode, CanCreate
  <2> QED BY <1>1, <2>3, <2>4
<1>6. CASE CloneWritable
  <2>1. PICK n \in Node, m \in Node : CanClone(db, n, m) /\ db' = CloneNode(db, n, m)
    BY <1>6 DEF CloneWritable
  <2>2. Sound(db) /\ ForkChoice(db)
    BY <1>6, UsableSound DEF CloneWritable
  <2>3. Sound(db')
    BY <2>1, <2>2, CloneSound
  <2>4. ForkChoice(db')
    BY <2>1, <2>2, AddNodeChoice DEF CloneNode, CanClone
  <2> QED BY <1>1, <2>3, <2>4
<1>7. CASE Finalize
  <2>1. PICK n \in db.index \ db.finalized : db' \in FinalizeNode(db, n)
    BY <1>7 DEF Finalize
  <2>2. Sound(db) /\ ForkChoice(db)
    BY <1>7, UsableSound DEF Finalize
  <2> QED BY <1>1, <2>1, <2>2, FinalizeSound, FinalizeChoice
<1>8. CASE Discard
  <2>1. PICK n \in db.index \ {db.root} : db' \in DiscardNode(db, n)
    BY <1>8 DEF Discard
  <2>2. Sound(db) /\ ForkChoice(db)
    BY <1>8, UsableSound DEF Discard
  <2>3. n \in Node
    BY DEF IInv, Database
  <2> QED BY <1>1, <2>1, <2>2, <2>3, DiscardSound, DiscardChoice
<1>9. CASE Commit
  <2>1. PICK n \in db.finalized \ {db.root} : db' \in CommitNode(db, n)
    BY <1>9 DEF Commit
  <2>2. Sound(db) /\ ForkChoice(db)
    BY <1>9, UsableSound DEF Commit
  <2>3. CASE ~db'.torn
    BY <1>1, <2>1, <2>2, <2>3, CommitSound, CommitChoice
  <2>4. CASE db'.torn
    <3>1. /\ db' \in Database
          /\ db'.disk = [id |-> n, revision |-> db.revision[n]]
      BY <2>1, <2>2, CommitSound
    <3>2. /\ db'.index = db.index /\ db'.finalized = db.finalized
          /\ db'.root = n /\ db'.head = db.head /\ db'.revision = db.revision
          /\ \A m \in Node \ db.index : db'.parent[m] = NoNode
      BY <2>1, <2>2, <2>4, CommitTorn
    <3>3. /\ db.finalized \subseteq db.index /\ n \in Node /\ db.head \in Node
          /\ \A m \in Node \ db.index : db.revision[m] = 0
      BY <2>2 DEF Sound, Rooted, Database
    <3>4. Torn(db')
      BY <2>4, <3>1, <3>2, <3>3 DEF Torn
    <3> QED BY <3>1, <3>4 DEF IInv
  <2> QED BY <2>3, <2>4
<1>10. CASE UNCHANGED db
  BY <1>10 DEF IInv
<1> QED BY <1>2, <1>3, <1>4, <1>5, <1>6, <1>7, <1>8, <1>9, <1>10 DEF Next

\* The database is closed, sound or torn in every reachable state.
LEMMA Invariance == Spec => []IInv
<1>1. Init => IInv
  <2> SUFFICES ASSUME Init PROVE IInv
    OBVIOUS
  <2>1. EmptyDisk \in [id : Node, revision : Nat] /\ "fifo" \in Algorithm
    BY NodeAssumption DEF EmptyDisk, Algorithm
  <2>2. db \in Database /\ db.comp = "fifo" /\ db.disk = EmptyDisk
    BY <2>1, ClosedFacts DEF Init
  <2> QED BY <2>2 DEF Init, IInv
<1>2. IInv /\ [Next]_db => IInv'
  BY StepInv
<1> QED BY <1>1, <1>2, PTL DEF Spec

-----------------------------------------------------------------------------
(* Theorems *)

\* The database keeps its type through every sequence of calls, restarts and torn commits.
THEOREM TypeCorrect == Spec => []TypeOK
<1>1. IInv => TypeOK
  <2> SUFFICES ASSUME IInv PROVE TypeOK
    OBVIOUS
  <2>1. CASE db = Closed(db.comp, db.disk)
    <3>1. db.comp \in Algorithm /\ db.disk \in [id : Node, revision : Nat]
      BY DEF IInv, Database
    <3>2. /\ db.finalized = {}
          /\ \A n \in Node : db.parent[n] = NoNode /\ db.revision[n] = 0
      BY <2>1, <3>1, ClosedFacts
    <3> QED BY <3>2 DEF TypeOK, IInv
  <2>2. CASE Sound(db)
    BY <2>2 DEF TypeOK, Sound, Rooted
  <2>3. CASE Torn(db)
    BY <2>3 DEF TypeOK, IInv, Torn
  <2> QED BY <2>1, <2>2, <2>3 DEF IInv
<1> QED BY <1>1, Invariance, PTL

\* get_root: every node descends from the root through finalized nodes, for trees of any
\* shape and size.
THEOREM TreeStaysRooted == Spec => []RootedTree
<1>1. IInv => RootedTree
  BY UsableSound DEF RootedTree, Sound, Rooted, Subtree
<1> QED BY <1>1, Invariance, PTL

\* finalize_node and discard_node: the head is a fork head under every comparator, and
\* under fifo and block_time no fork head has a finalized child.
THEOREM ForkHeadsStaySound == Spec => []ForkHeadsSound
<1>1. IInv => ForkHeadsSound
  BY UsableSound DEF ForkHeadsSound, Sound, ForkChoice
<1> QED BY <1>1, Invariance, PTL

\* get_head: under fifo and block_time the head ends a longest chain, under block_time
\* the oldest of the longest, in any order of arrival.
THEOREM HeadStaysChosen == Spec => []HeadChosen
<1>1. IInv => HeadChosen
  BY UsableSound DEF HeadChosen, ForkChoice
<1> QED BY <1>1, Invariance, PTL

\* commit_node: the metadata on disk names the root, even after a commit that threw.
THEOREM DiskStaysRoot == Spec => []DiskIsRoot
<1>1. IInv => DiskIsRoot
  <2> SUFFICES ASSUME IInv, IsOpen(db)
               PROVE  db.disk = [id |-> db.root, revision |-> db.revision[db.root]]
    BY DEF DiskIsRoot
  <2>1. CASE db.torn
    <3>1. db.comp \in Algorithm /\ db.disk \in [id : Node, revision : Nat]
      BY DEF IInv, Database
    <3>2. db # Closed(db.comp, db.disk)
      BY <3>1, ClosedFacts DEF IsOpen
    <3> QED BY <2>1, <3>2 DEF IInv, Sound, Torn
  <2>2. CASE ~db.torn
    BY <2>2, UsableSound DEF Usable, Sound
  <2> QED BY <2>1, <2>2
<1> QED BY <1>1, Invariance, PTL

\* commit_node and open: what is irreversible on disk only ever moves down the tree, across
\* restarts and torn commits; only reset takes it back.
THEOREM DiskOnlyAdvances == Spec => RootOnlyAdvances
<1> DEFINE A == \/ db'.disk = db.disk
                \/ db' = Reset(db)
                \/ db'.disk.id \in Subtree(db, db.root) /\ db'.disk.revision > db.disk.revision
<1>1. IInv /\ [Next]_db => [A]_db
  <2> SUFFICES ASSUME IInv, Next PROVE A
    OBVIOUS
  <2>0. db.comp \in Algorithm /\ db.disk \in [id : Node, revision : Nat] /\ db \in Database
    BY DEF IInv, Database
  <2>1. CASE OpenDb
    <3>1. \A comp : Open(comp, db.disk).disk = db.disk
      BY DEF Open, Closed
    <3> QED BY <2>1, <3>1 DEF OpenDb
  <2>2. CASE CloseDb
    BY <2>0, <2>2, ClosedFacts DEF CloseDb
  <2>3. CASE ResetDb
    BY <2>3 DEF ResetDb
  <2>4. CASE CreateNode \/ CloneWritable
    <3>1. \A n, p, r : AddNode(db, n, p, r).disk = db.disk
      BY <2>0 DEF AddNode, Database
    <3> QED BY <2>4, <3>1 DEF CreateNode, CloneWritable, CreateWritableNode, CloneNode
  <2>5. CASE Finalize
    BY <2>0, <2>5, FinalizeFrame DEF Finalize
  <2>6. CASE Discard
    BY <2>0, <2>6, UsableSound, DiscardFrame DEF Discard, Database
  <2>7. CASE Commit
    <3>1. PICK n \in db.finalized \ {db.root} : db' \in CommitNode(db, n)
      BY <2>7 DEF Commit
    <3>2. Sound(db)
      BY <2>7, UsableSound DEF Commit
    <3>3. db'.disk = [id |-> n, revision |-> db.revision[n]]
      BY <3>1, <3>2, CommitSound
    <3>4. /\ n \in Subtree(db, db.root) /\ db.revision[n] > db.revision[db.root]
          /\ db.disk = [id |-> db.root, revision |-> db.revision[db.root]]
      BY <3>2 DEF Sound, Rooted
    <3> QED BY <3>3, <3>4
  <2> QED BY <2>1, <2>2, <2>3, <2>4, <2>5, <2>6, <2>7 DEF Next
<1> QED BY <1>1, Invariance, PTL DEF Spec, RootOnlyAdvances

\* fifo_comparator: the head is only given up for a strictly longer chain.
THEOREM HeadStaysOldest == Spec => OldestWins
<1> DEFINE A == Usable /\ db.comp = "fifo" /\ IsOpen(db') /\ db'.head # db.head
                  /\ ~(db' = Reset(db)) => db'.revision[db'.head] > db.revision[db.head]
<1>1. IInv /\ [Next]_db => [A]_db
  <2> SUFFICES ASSUME IInv, Next, Usable, db.comp = "fifo", IsOpen(db'),
                      db'.head # db.head, ~(db' = Reset(db))
               PROVE  db'.revision[db'.head] > db.revision[db.head]
    OBVIOUS
  <2>0. Sound(db) /\ db \in Database /\ db.comp \in Algorithm
          /\ db.disk \in [id : Node, revision : Nat]
    BY UsableSound DEF IInv, Database
  <2>1. ~OpenDb /\ ~ResetDb
    BY DEF OpenDb, ResetDb, Usable
  <2>2. ~CloseDb
    BY <2>0, ClosedFacts DEF CloseDb, IsOpen
  <2>3. ~CreateNode /\ ~CloneWritable
    <3>1. \A n, p, r : AddNode(db, n, p, r).head = db.head
      BY <2>0 DEF AddNode, Database
    <3> QED BY <3>1 DEF CreateNode, CloneWritable, CreateWritableNode, CloneNode
  <2>4. ~Discard
    BY <2>0, DiscardFrame DEF Discard, Database
  <2>5. ~Commit
    <3> SUFFICES ASSUME NEW n \in db.finalized, db' \in CommitNode(db, n) PROVE FALSE
      BY DEF Commit
    <3> QED BY <2>0, CommitKeepsHead
  <2>6. CASE Finalize
    BY <2>0, <2>6, FifoKeepsHead DEF Finalize
  <2> QED BY <2>1, <2>2, <2>3, <2>4, <2>5, <2>6 DEF Next
<1> QED BY <1>1, Invariance, PTL DEF Spec, OldestWins
=============================================================================
