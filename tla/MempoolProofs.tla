--------------------------- MODULE MempoolProofs ---------------------------
(***************************************************************************)
(* Proofs about the mempool. Its tree of blocks and temporary nodes: the   *)
(* nodes whose mutexes the code looks up with at() are the writable ones.  *)
(* Its contents: on every node, what the accounts have reserved is what    *)
(* their pending transactions are limited to, and the indexes agree with   *)
(* each other. Both for any tree of blocks, any set of transactions and    *)
(* any order of deliveries, commits, submissions and prunings.             *)
(*                                                                         *)
(* The tree: as long as no commit has thrown, the database is Sound, its   *)
(* finalized nodes are block ids and its other nodes the temporary nodes   *)
(* of those. A commit keeps a subtree, and with every block of it the      *)
(* temporary node below the block, and drops the rest. A commit that       *)
(* throws leaves the database torn for good.                               *)
(*                                                                         *)
(* The contents: the view of every node is Consistent, and a node that is  *)
(* not in the tree has an empty view. What an account has reserved is a    *)
(* sum over its records, a fold in an order nobody knows, so the sum is    *)
(* first shown not to depend on the order: LimitSumRemove, by taking a     *)
(* least set of records for which it does. Taking a record away then       *)
(* subtracts exactly its limit, once for each record of a block or of a    *)
(* pruning (RemoveRecordsConsistent).                                      *)
(***************************************************************************)
EXTENDS Mempool, StateTreeProofs, FiniteSetTheorems, WellFoundedInduction

\* Block ids, and the zero id the mempool starts from.
Id == Block \cup {Genesis}

\* Every block of d has its temporary node, and d holds nothing else.
Paired(d) ==
    /\ d.finalized \subseteq Id
    /\ d.index \ d.finalized = {TmpId[n] : n \in d.finalized}
    /\ \A n \in d.finalized : d.parent[TmpId[n]] = n

\* What every step preserves.
IInv ==
    /\ "torn" \in DOMAIN db
    /\ ~db.torn => Sound(db) /\ Paired(db) /\ mutexes = Writable

-----------------------------------------------------------------------------
(* A torn database stays torn: only close and open make a new one *)

\* create_writable_node and clone_node leave torn alone.
LEMMA AddNodeMarked ==
    ASSUME NEW d, NEW n, NEW p, NEW r, "torn" \in DOMAIN d
    PROVE  LET e == AddNode(d, n, p, r) IN "torn" \in DOMAIN e /\ e.torn = d.torn
  BY DEF AddNode
\* finalize_node moves the head and the fork heads, and leaves torn alone.
LEMMA FinalizeMarked ==
    ASSUME NEW d, "torn" \in DOMAIN d, NEW n, NEW e \in FinalizeNode(d, n)
    PROVE  "torn" \in DOMAIN e /\ e.torn = d.torn
<1> DEFINE c == [d EXCEPT !.finalized = @ \cup {n}]
<1>1. "torn" \in DOMAIN c /\ c.torn = d.torn
  OBVIOUS
<1> HIDE DEF c
<1>2. PICK f \in ChooseHead(c, n) : e = RecordForkHead(f, n)
  BY DEF FinalizeNode, c
<1>3. "torn" \in DOMAIN f /\ f.torn = c.torn
  BY <1>1, Zenon DEF ChooseHead, FallBack
<1> QED BY <1>1, <1>2, <1>3 DEF RecordForkHead

\* commit_node sets torn when it throws and never clears it.
LEMMA CommitMarked ==
    ASSUME NEW d, "torn" \in DOMAIN d, NEW n, NEW e \in CommitNode(d, n)
    PROVE  "torn" \in DOMAIN e /\ (d.torn => e.torn)
<1> DEFINE moved == MoveRoot(d, n)
           doomed == Subtree(d, d.root) \ Subtree(d, n)
<1>1. "torn" \in DOMAIN moved /\ moved.torn = d.torn
  BY DEF MoveRoot
<1>2. \/ e = d \/ e = Erase(moved, doomed)
      \/ \E f \in CannotDiscard(moved, doomed) : e = [f EXCEPT !.torn = TRUE]
  BY DEF CommitNode
<1> HIDE DEF moved, doomed
<1>3. CASE e = d
  BY <1>3
<1>4. CASE e = Erase(moved, doomed)
  BY <1>1, <1>4 DEF Erase
<1>5. ASSUME NEW f \in CannotDiscard(moved, doomed), e = [f EXCEPT !.torn = TRUE]
      PROVE  "torn" \in DOMAIN e /\ (d.torn => e.torn)
  <2>1. "torn" \in DOMAIN f
    BY <1>1 DEF CannotDiscard
  <2> QED BY <1>5, <2>1
<1> QED BY <1>2, <1>3, <1>4, <1>5

-----------------------------------------------------------------------------
(* The steps of a database that is not torn *)

\* handle_block: the block becomes a finalized node below the block before it, with a
\* temporary node of its own.
LEMMA HandleBlockPairs ==
    ASSUME NEW d, Sound(d), Paired(d), NEW b \in Block, NEW source, CanClone(d, source, b),
           NEW e \in FinalizeNode(CloneNode(d, source, b), b)
    PROVE  LET f == CreateWritableNode(e, b, TmpId[b])
           IN  /\ Sound(f) /\ Paired(f)
               /\ f.index \ f.finalized = (d.index \ d.finalized) \cup {TmpId[b]}
<1> DEFINE c == CloneNode(d, source, b)
           f == CreateWritableNode(e, b, TmpId[b])
           t == TmpId[b]
<1>1. d \in Database /\ b \in Node \ d.index /\ t \in Node /\ b \in Id /\ t \notin Id
  BY IdAssumption DEF Sound, CanClone, Id
<1>2. Sound(c) /\ c \in Database
  BY CloneSound DEF Sound
<1>3. /\ c.index = d.index \cup {b} /\ c.finalized = d.finalized
      /\ \A m \in Node \ {b} : c.parent[m] = d.parent[m]
  BY <1>1 DEF CloneNode, AddNode, Database
<1>4. d.finalized \subseteq d.index /\ d.index \subseteq Node
  BY DEF Sound, Rooted, Database
<1> HIDE DEF c
<1>5. Sound(e) /\ e \in Database
  <2>1. b \in c.index \ c.finalized
    BY <1>1, <1>3, <1>4
  <2>2. e \in FinalizeNode(c, b)
    BY DEF c
  <2>3. Sound(e)
    BY <1>2, <2>1, <2>2, FinalizeSound
  <2> QED BY <2>3 DEF Sound
<1>6. e.index = c.index /\ e.parent = c.parent /\ e.finalized = c.finalized \cup {b}
  BY <1>2, FinalizeFrame DEF c
<1>7. t \notin d.index /\ t # b
  <2>1. ASSUME NEW n \in d.finalized, t = TmpId[n] PROVE FALSE
    BY <1>1, <1>4, <2>1, IdAssumption DEF Paired, Id
  <2> QED BY <1>1, <2>1 DEF Paired
<1>8. CanCreate(e, b, t)
  BY <1>1, <1>3, <1>6, <1>7 DEF CanCreate
<1>9. Sound(f)
  BY <1>5, <1>8, CreateSound
<1>10. /\ f.index = d.index \cup {b, t} /\ f.finalized = d.finalized \cup {b}
       /\ f.parent[t] = b /\ \A m \in Node \ {b, t} : f.parent[m] = d.parent[m]
  <2>1. /\ f.index = e.index \cup {t} /\ f.finalized = e.finalized
        /\ f.parent[t] = b /\ \A m \in Node \ {t} : f.parent[m] = e.parent[m]
    BY <1>1, <1>5 DEF CreateWritableNode, AddNode, Database
  <2> HIDE DEF f
  <2> QED BY <1>3, <1>6, <2>1
<1> HIDE DEF f
<1>11. f.index \ f.finalized = (d.index \ d.finalized) \cup {t}
  BY <1>1, <1>4, <1>7, <1>10 DEF Paired
<1>12. Paired(f)
  <2>1. f.finalized \subseteq Id
    BY <1>1, <1>10 DEF Paired
  <2>2. f.index \ f.finalized = {TmpId[n] : n \in f.finalized}
    BY <1>10, <1>11 DEF Paired
  <2>3. ASSUME NEW n \in f.finalized PROVE f.parent[TmpId[n]] = n
    <3>1. CASE n = b
      BY <1>10, <3>1
    <3>2. CASE n \in d.finalized
      <4>1. TmpId[n] \in d.index /\ TmpId[n] # b /\ TmpId[n] # t
        BY <1>1, <1>7, <3>2 DEF Paired
      <4> QED BY <1>4, <1>10, <3>2, <4>1 DEF Paired
    <3> QED BY <1>10, <3>1, <3>2
  <2> QED BY <2>1, <2>2, <2>3 DEF Paired
<1> QED BY <1>9, <1>11, <1>12 DEF f
\* handle_irreversibility, when commit_node does not throw: a temporary node is dropped
\* exactly when its block is.
LEMMA CommitPairs ==
    ASSUME NEW d, Sound(d), Paired(d), NEW n \in d.finalized, d.head \in Subtree(d, n),
           NEW e \in CommitNode(d, n)
    PROVE  /\ Sound(e) /\ Paired(e)
           /\ e.index \ e.finalized = (d.index \ d.finalized) \cap e.index
<1> DEFINE kept == Subtree(d, n)
<1>1. /\ ~e.torn /\ e.index = kept /\ e.finalized = d.finalized \cap kept
      /\ \A m \in kept \ {n} : e.parent[m] = d.parent[m]
  BY CommitFrame
<1>2. Sound(e)
  BY <1>1, CommitSound, Zenon
<1>3. kept \subseteq d.index /\ n \in d.index /\ d.finalized \subseteq d.index
  BY DEF Subtree, Sound, Rooted
<1>4. \A m \in d.finalized : /\ TmpId[m] \in d.index \ d.finalized
                             /\ TmpId[m] # n /\ d.parent[TmpId[m]] = m
  BY DEF Paired
<1>5. ASSUME NEW m \in d.finalized PROVE m \in kept <=> TmpId[m] \in kept
  <2>1. ASSUME m \in kept PROVE TmpId[m] \in kept
    BY <1>4, <2>1, SubtreeClosed DEF ChildClosed
  <2>2. ASSUME TmpId[m] \in kept PROVE m \in kept
    BY <1>3, <1>4, <2>2, SubtreeBelow
  <2> QED BY <2>1, <2>2
<1> HIDE DEF kept
<1>6. e.index \ e.finalized = (d.index \ d.finalized) \cap kept
  BY <1>1, <1>3
<1>7. Paired(e)
  <2>1. e.index \ e.finalized = {TmpId[m] : m \in e.finalized}
    BY <1>1, <1>5, <1>6 DEF Paired
  <2>2. ASSUME NEW m \in e.finalized PROVE e.parent[TmpId[m]] = m
    BY <1>1, <1>4, <1>5
  <2> QED BY <1>1, <2>1, <2>2 DEF Paired
<1> QED BY <1>1, <1>2, <1>6, <1>7

-----------------------------------------------------------------------------
(* The invariant *)

\* The constructor opens the database and creates the temporary node of the zero id.
LEMMA InitInv == Init => IInv
<1> SUFFICES ASSUME Init PROVE IInv
  OBVIOUS
<1>1. PICK comp \in Algorithm :
        db = CreateWritableNode(Open(comp, EmptyDisk), Genesis, TmpId[Genesis])
  BY DEF Init
<1> DEFINE d == Open(comp, EmptyDisk)
           t == TmpId[Genesis]
<1>2. t \in Node /\ Genesis \in Node /\ t # Genesis
  BY IdAssumption, NodeAssumption
<1>3. Sound(d) /\ d \in Database
  BY <1>2, OpenSound DEF EmptyDisk, Sound
<1>4. d.index = {Genesis} /\ d.finalized = {Genesis}
  BY DEF Open, Closed, EmptyDisk
<1> HIDE DEF d
<1>5. Sound(db)
  <2>1. CanCreate(d, Genesis, t)
    BY <1>2, <1>4 DEF CanCreate
  <2> QED BY <1>1, <1>3, <2>1, CreateSound DEF d
<1>6. db.index = {Genesis, t} /\ db.finalized = {Genesis} /\ db.parent[t] = Genesis
  <2>1. db = AddNode(d, t, Genesis, d.revision[Genesis] + 1)
    BY <1>1 DEF d, CreateWritableNode
  <2> QED BY <1>2, <1>3, <1>4, <2>1 DEF AddNode, Database
<1>7. Paired(db) /\ Writable = {t}
  BY <1>2, <1>6 DEF Paired, Id, Writable
<1>8. "torn" \in DOMAIN db
  BY <1>5 DEF Sound, Database
<1> QED BY <1>5, <1>7, <1>8 DEF IInv, Init

\* handle_block accepts a block.
LEMMA HandleBlockStep ==
    ASSUME IInv, NEW b \in Block, HandleBlock(b)
    PROVE  IInv'
<1> DEFINE source == CloneSource(b)
           c == CloneNode(db, source, b)
<1>1. /\ CanClone(db, source, b) /\ mutexes' = mutexes \cup {TmpId[b]}
      /\ \E e \in FinalizeNode(c, b) : db' = CreateWritableNode(e, b, TmpId[b])
  BY DEF HandleBlock
<1> HIDE DEF source
<1>2. PICK e \in FinalizeNode(c, b) : db' = CreateWritableNode(e, b, TmpId[b])
  BY <1>1
<1>3. "torn" \in DOMAIN db' /\ db'.torn = db.torn
  <2>1. "torn" \in DOMAIN c /\ c.torn = db.torn
    BY AddNodeMarked DEF IInv, CloneNode
  <2> HIDE DEF c
  <2>2. "torn" \in DOMAIN e /\ e.torn = db.torn
    BY <2>1, FinalizeMarked
  <2> QED BY <1>2, <2>2, AddNodeMarked DEF CreateWritableNode
<1>4. ASSUME ~db.torn
      PROVE  Sound(db') /\ Paired(db') /\ mutexes' = db'.index \ db'.finalized
  BY <1>1, <1>2, <1>4, HandleBlockPairs DEF IInv, Writable
<1> QED BY <1>3, <1>4 DEF IInv, Writable

\* handle_irreversibility commits a block, or throws on the way.
LEMMA HandleIrreversibilityStep ==
    ASSUME IInv, NEW b \in Block, HandleIrreversibility(b)
    PROVE  IInv'
<1>1. /\ b \in db.index \ {db.root} /\ db' \in CommitNode(db, b)
      /\ mutexes' = IF db.head \in Subtree(db, b) THEN mutexes \cap db'.index ELSE mutexes
  BY DEF HandleIrreversibility
<1>2. "torn" \in DOMAIN db' /\ (db.torn => db'.torn)
  BY <1>1, CommitMarked DEF IInv
<1>3. ASSUME ~db'.torn
      PROVE  Sound(db') /\ Paired(db') /\ mutexes' = db'.index \ db'.finalized
  <2>1. Sound(db) /\ Paired(db) /\ mutexes = db.index \ db.finalized
    BY <1>2, <1>3 DEF IInv, Writable
  <2>2. b \in db.finalized
    BY <1>1, <2>1, IdAssumption DEF Paired, Id
  <2>3. db.head \in Subtree(db, b)
    BY <1>1, <1>3, <2>1, <2>2, CommitSound, Zenon
  <2> QED BY <1>1, <2>1, <2>2, <2>3, CommitPairs
<1> QED BY <1>2, <1>3 DEF IInv, Writable

\* Every step preserves the invariant.
LEMMA StepInv == IInv /\ [Next]_vars => IInv'
<1> SUFFICES ASSUME IInv, [Next]_vars PROVE IInv'
  OBVIOUS
<1>1. ASSUME NEW b \in Block, HandleBlock(b) PROVE IInv'
  BY <1>1, HandleBlockStep
<1>2. ASSUME NEW b \in Block, HandleIrreversibility(b) PROVE IInv'
  BY <1>2, HandleIrreversibilityStep
<1>3. ASSUME UNCHANGED <<db, mutexes>> PROVE IInv'
  BY <1>3 DEF IInv, Writable
<1>4. CASE \E b \in Block : DropBlock(b)
  BY <1>3, <1>4 DEF DropBlock
<1>5. CASE \E t \in Tx, maxRc \in Budget : AddPending(t, maxRc)
  BY <1>3, <1>5 DEF AddPending
<1>6. CASE \E t \in Tx : RemovePending({t})
  BY <1>3, <1>6 DEF RemovePending
<1>7. CASE Prune
  BY <1>3, <1>7 DEF Prune
<1>8. CASE Tick
  BY <1>3, <1>8 DEF Tick
<1>9. CASE UNCHANGED vars
  BY <1>3, <1>9 DEF vars
<1> QED BY <1>1, <1>2, <1>4, <1>5, <1>6, <1>7, <1>8, <1>9, Zenon DEF Next

\* The invariant holds in every state.
LEMMA Invariance == Spec => []IInv
  BY InitInv, StepInv, PTL DEF Spec

\* relevant_node, check_account_nonce and add_pending_transaction find the mutex of
\* every node they look up with at(), and the writable nodes are the temporary nodes of
\* the accepted blocks, for any tree of blocks, any fork resolution algorithm and any
\* order of broadcasts, until a commit throws.
THEOREM MutexesAreFound == Spec => []RelevantNodes
<1>1. IInv => RelevantNodes
  BY DEF IInv, RelevantNodes, Paired, Writable
<1> QED BY <1>1, Invariance, PTL

-----------------------------------------------------------------------------
(* Folds over finite sets *)

\* Every set of numbers that is not empty has a least one.
LEMMA LeastNumber ==
    ASSUME NEW T \in SUBSET Nat, T # {}
    PROVE  \E x \in T : \A y \in T : x <= y
<1> DEFINE R == OpToRel(<, Nat)
<1>1. IsWellFoundedOn(R, Nat)
  BY NatLessThanWellFounded, Zenon
<1>2. \A x, y \in Nat : <<x, y>> \in R <=> x < y
  BY DEF OpToRel
<1> HIDE DEF R
<1>3. PICK x \in T : \A y \in T : ~(<<y, x>> \in R)
  BY Zenon, <1>1, WFMin
<1>4. \A y \in T : ~(y < x)
  BY <1>2, <1>3, Zenon
<1> QED BY <1>4

\* The element that a fold takes first.
Pick(s) == CHOOSE x \in s : TRUE

\* What is left to fold after it.
Rest(s) == s \ {Pick(s)}

\* A finite set loses one element at a time.
LEMMA RestSmaller ==
    ASSUME NEW S, IsFiniteSet(S), NEW s \in SUBSET S
    PROVE  /\ IsFiniteSet(s) /\ Cardinality(s) \in Nat
           /\ Cardinality(s) <= Cardinality(S)
           /\ Cardinality(s) = 0 <=> s = {}
           /\ s # {} => /\ Pick(s) \in s /\ Rest(s) \in SUBSET S
                        /\ Cardinality(Rest(s)) = Cardinality(s) - 1
<1>1. IsFiniteSet(s) /\ Cardinality(s) <= Cardinality(S)
  BY FS_Subset
<1>2. Cardinality(s) \in Nat
  BY <1>1, FS_CardinalityType
<1>3. Cardinality(s) = 0 <=> s = {}
  BY <1>1, FS_EmptySet
<1>4. ASSUME s # {} PROVE Pick(s) \in s
  BY <1>4 DEF Pick
<1>5. ASSUME s # {} PROVE Cardinality(Rest(s)) = Cardinality(s) - 1
  BY <1>1, <1>4, <1>5, FS_RemoveElement DEF Rest
<1> QED BY <1>1, <1>2, <1>3, <1>4, <1>5 DEF Rest

\* What holds of the empty set, and of a set when it holds of the rest of it, holds of
\* every subset of a finite set.
LEMMA SubsetInduction ==
    ASSUME NEW S, IsFiniteSet(S), NEW Good, {} \in Good,
           \A s \in SUBSET S : s # {} /\ Rest(s) \in Good => s \in Good
    PROVE  \A s \in SUBSET S : s \in Good
<1> SUFFICES ASSUME NEW t \in SUBSET S, t \notin Good PROVE FALSE
  OBVIOUS
<1> DEFINE N == {Cardinality(s) : s \in {u \in SUBSET S : u \notin Good}}
<1>1. N \in SUBSET Nat /\ N # {}
  BY RestSmaller
<1>2. PICK n \in N : \A m \in N : n <= m
  BY <1>1, LeastNumber, Zenon
<1>3. PICK s \in SUBSET S : s \notin Good /\ Cardinality(s) = n
  BY <1>2
<1>4. /\ s # {} /\ Rest(s) \in SUBSET S /\ Cardinality(s) \in Nat
      /\ Cardinality(Rest(s)) = Cardinality(s) - 1
  BY <1>3, RestSmaller, ZenonT(40)
<1>5. Rest(s) \notin Good
  BY <1>3, <1>4
<1>6. n <= n - 1
  BY <1>2, <1>3, <1>4, <1>5
<1> QED BY <1>3, <1>4, <1>6

\* f folds step over the sets of D, starting from base.
IsFold(f, D, base, step) ==
    f = [s \in D |-> IF s = {} THEN base ELSE step[<<Pick(s), f[Rest(s)]>>]]

\* A step that maps values to values can be folded over a finite set.
LEMMA FoldExists ==
    ASSUME NEW S, IsFiniteSet(S), NEW V, NEW base \in V, NEW step,
           \A x \in S, y \in V : step[<<x, y>>] \in V
    PROVE  \E f \in [SUBSET S -> V] : IsFold(f, SUBSET S, base, step)
<1> DEFINE Small(n) == {s \in SUBSET S : Cardinality(s) <= n}
           Has(n) == \E f \in [Small(n) -> V] : IsFold(f, Small(n), base, step)
           T == {n \in Nat : ~Has(n)}
<1>1. Has(0)
  <2> DEFINE f == [s \in Small(0) |-> base]
  <2>1. \A s \in Small(0) : s = {}
    BY RestSmaller
  <2>2. f = [s \in Small(0) |-> IF s = {} THEN base ELSE step[<<Pick(s), f[Rest(s)]>>]]
    BY <2>1
  <2>3. f \in [Small(0) -> V]
    OBVIOUS
  <2> QED BY <2>2, <2>3, Zenon DEF IsFold
<1>2. ASSUME NEW n \in Nat, Has(n) PROVE Has(n + 1)
  <2>1. PICK f \in [Small(n) -> V] : IsFold(f, Small(n), base, step)
    BY <1>2, Zenon
  <2> DEFINE g == [s \in Small(n + 1) |->
                    IF s = {} THEN base ELSE step[<<Pick(s), f[Rest(s)]>>]]
  <2>2. \A s \in Small(n + 1) : s # {} => Rest(s) \in Small(n) /\ Pick(s) \in S
    BY RestSmaller
  <2>3. Small(n) \subseteq Small(n + 1)
    BY RestSmaller
  <2>4. \A s \in Small(n) : g[s] = f[s]
    BY <2>1, <2>3, Zenon DEF IsFold
  <2>5. g \in [Small(n + 1) -> V]
    BY <2>1, <2>2
  <2> HIDE DEF Small
  <2>6. g = [s \in Small(n + 1) |->
                    IF s = {} THEN base ELSE step[<<Pick(s), g[Rest(s)]>>]]
    BY <2>2, <2>4, Zenon
  <2> HIDE DEF g
  <2> QED BY <2>5, <2>6, Zenon DEF IsFold
<1>3. T = {}
  <2> SUFFICES ASSUME T # {} PROVE FALSE
    BY Zenon
  <2> HIDE DEF Has
  <2>1. PICK n \in T : \A m \in T : n <= m
    BY LeastNumber, Zenon
  <2>2. n # 0 /\ n - 1 \in Nat
    BY <1>1, <2>1
  <2>3. n - 1 \notin T
    BY <2>1, <2>2
  <2> QED BY <1>2, <2>1, <2>2, <2>3
<1>4. Cardinality(S) \in Nat /\ Small(Cardinality(S)) = SUBSET S
  BY RestSmaller
<1>5. Has(Cardinality(S))
  BY <1>3, <1>4, Zenon
<1> QED BY <1>4, <1>5, Zenon

-----------------------------------------------------------------------------
(* What the limits of pending transactions come to *)

\* An accepted transaction has a limit.
LEMMA LimitOf ==
    ASSUME NEW r \in Record
    PROVE  r.tx \in Tx /\ Limit[r.tx] \in Nat /\ Limit[r.tx] > 0
  BY MempoolAssumption DEF Record

\* One step of the sum: the limit of a record on top of the rest.
AddLimit == [p \in Record \X Nat |-> Limit[p[1].tx] + p[2]]

\* LimitSum folds AddLimit over every subset of a set of records.
LEMMA LimitFold ==
    ASSUME NEW S \in SUBSET Record, IsFiniteSet(S)
    PROVE  \E f \in [SUBSET S -> Nat] :
              IsFold(f, SUBSET S, 0, AddLimit) /\ \A s \in SUBSET S : LimitSum(s) = f[s]
<1>1. \A x \in S, y \in Nat : AddLimit[<<x, y>>] = Limit[x.tx] + y
  BY DEF AddLimit
<1>2. \A x \in S, y \in Nat : AddLimit[<<x, y>>] \in Nat
  <2> TAKE x \in S, y \in Nat
  <2>1. Limit[x.tx] \in Nat
    BY LimitOf
  <2> QED BY <1>1, <2>1
<1>3. PICK f \in [SUBSET S -> Nat] : IsFold(f, SUBSET S, 0, AddLimit)
  BY <1>2, FoldExists, Zenon
<1>4. ASSUME NEW t \in SUBSET S PROVE LimitSum(t) = f[t]
  <2> DEFINE Sums(it) == it = [s \in SUBSET t |->
                IF s = {} THEN 0 ELSE Limit[Pick(s).tx] + it[Rest(s)]]
             g == CHOOSE it : Sums(it)
             h == [s \in SUBSET t |-> f[s]]
  <2>1. LimitSum(t) = g[t]
    BY DEF LimitSum, Sets!MapThenSumSet, Sets!MapThenFoldSet, Pick, Rest
  <2>2. \A s \in SUBSET t : s # {} => Pick(s) \in S /\ Rest(s) \in SUBSET t
    BY DEF Pick, Rest
  <2>3. Sums(h)
    <3>1. \A s \in SUBSET t : f[s] = IF s = {} THEN 0 ELSE Limit[Pick(s).tx] + f[Rest(s)]
      BY <1>1, <1>3, <2>2 DEF IsFold
    <3> QED BY <2>2, <3>1
  <2>4. Sums(g)
    BY <2>3, Zenon
  <2> HIDE DEF g
  <2> DEFINE Good == {s \in SUBSET t : g[s] = f[s]}
  <2>5. {} \in Good
    BY <1>3, <2>4 DEF IsFold
  <2>6. ASSUME NEW s \in SUBSET t, s # {}, Rest(s) \in Good PROVE s \in Good
    <3>1. g[s] = Limit[Pick(s).tx] + g[Rest(s)]
      BY <2>4, <2>6
    <3>2. f[s] = AddLimit[<<Pick(s), f[Rest(s)]>>]
      BY <1>3, <2>6 DEF IsFold
    <3> QED BY <1>1, <1>3, <2>2, <2>6, <3>1, <3>2
  <2>7. IsFiniteSet(t)
    BY FS_Subset
  <2> HIDE DEF Good
  <2>8. t \in Good
    BY <2>5, <2>6, <2>7, SubsetInduction
  <2> QED BY <2>1, <2>8 DEF Good
<1> QED BY <1>3, <1>4

\* The sum is a number, and starts with the limit of the first record.
LEMMA LimitSumFirst ==
    ASSUME NEW S \in SUBSET Record, IsFiniteSet(S)
    PROVE  /\ LimitSum(S) \in Nat
           /\ LimitSum({}) = 0
           /\ S # {} => LimitSum(S) = Limit[Pick(S).tx] + LimitSum(Rest(S))
<1>1. PICK f \in [SUBSET S -> Nat] :
        IsFold(f, SUBSET S, 0, AddLimit) /\ \A s \in SUBSET S : LimitSum(s) = f[s]
  BY LimitFold, Zenon
<1>2. LimitSum(S) = f[S] /\ LimitSum({}) = f[{}] /\ LimitSum(Rest(S)) = f[Rest(S)]
  BY <1>1 DEF Rest
<1>3. f[{}] = 0 /\ (S # {} => f[S] = AddLimit[<<Pick(S), f[Rest(S)]>>])
  BY <1>1, Zenon DEF IsFold
<1>4. S # {} => <<Pick(S), f[Rest(S)]>> \in Record \X Nat
  BY <1>1 DEF Pick, Rest
<1> QED BY <1>1, <1>2, <1>3, <1>4 DEF AddLimit

\* Any record may be counted first.
LEMMA LimitSumRemove ==
    ASSUME NEW S \in SUBSET Record, IsFiniteSet(S), NEW r \in S
    PROVE  LimitSum(S) = Limit[r.tx] + LimitSum(S \ {r})
<1> DEFINE Good == {s \in SUBSET S : \A x \in s : LimitSum(s) = Limit[x.tx] + LimitSum(s \ {x})}
           Wrong == {s \in SUBSET S : s \notin Good}
           N == {Cardinality(s) : s \in Wrong}
<1>0. \A s \in SUBSET S : IsFiniteSet(s) /\ s \in SUBSET Record
  BY FS_Subset
<1>1. SUFFICES ASSUME Wrong # {} PROVE FALSE
  OBVIOUS
<1>2. N \in SUBSET Nat /\ N # {}
  BY <1>1, RestSmaller
<1>3. PICK n \in N : \A m \in N : n <= m
  BY <1>2, LeastNumber, Zenon
<1>4. PICK s \in Wrong : Cardinality(s) = n
  BY <1>3
<1>5. PICK x \in s : LimitSum(s) # Limit[x.tx] + LimitSum(s \ {x})
  BY <1>4, Zenon
<1>6. ASSUME NEW t \in SUBSET S, Cardinality(t) < Cardinality(s), NEW y \in t
      PROVE  LimitSum(t) = Limit[y.tx] + LimitSum(t \ {y})
  <2>1. t \notin Wrong
    BY <1>3, <1>4, <1>6, RestSmaller
  <2> QED BY <1>6, <2>1
<1>a. s \in SUBSET S
  OBVIOUS
<1> HIDE DEF Wrong, Good, N
<1> DEFINE c == Pick(s)
<1>7. /\ s # {} /\ c \in s /\ LimitSum(s) = Limit[c.tx] + LimitSum(s \ {c})
  <2>1. s # {} /\ c \in s
    BY <1>5 DEF Pick
  <2>2. LimitSum(s) = Limit[c.tx] + LimitSum(Rest(s))
    BY <1>0, <1>a, <2>1, LimitSumFirst
  <2> QED BY <2>1, <2>2 DEF Rest
<1>8. c # x
  BY <1>5, <1>7
<1> HIDE DEF c
<1>9. ASSUME NEW y \in s
      PROVE  s \ {y} \in SUBSET S /\ Cardinality(s \ {y}) < Cardinality(s)
  <2>1. IsFiniteSet(s)
    BY <1>0, <1>a
  <2>2. Cardinality(s \ {y}) = Cardinality(s) - 1 /\ Cardinality(s) \in Nat
    BY <2>1, FS_RemoveElement, FS_CardinalityType
  <2> QED BY <1>a, <2>2
<1>10. LimitSum(s \ {c}) = Limit[x.tx] + LimitSum(s \ {c, x})
  <2>1. (s \ {c}) \ {x} = s \ {c, x} /\ x \in s \ {c}
    BY <1>8
  <2>2. LimitSum(s \ {c}) = Limit[x.tx] + LimitSum((s \ {c}) \ {x})
    BY <1>6, <1>7, <1>9, <2>1
  <2> QED BY <2>1, <2>2
<1>11. LimitSum(s \ {x}) = Limit[c.tx] + LimitSum(s \ {c, x})
  <2>1. (s \ {x}) \ {c} = s \ {c, x} /\ c \in s \ {x}
    BY <1>7, <1>8
  <2>2. LimitSum(s \ {x}) = Limit[c.tx] + LimitSum((s \ {x}) \ {c})
    BY <1>6, <1>9, <2>1
  <2> QED BY <2>1, <2>2
<1>12. LimitSum(s \ {c, x}) \in Nat
  <2>1. s \ {c, x} \in SUBSET S
    BY <1>a
  <2> QED BY <1>0, <2>1, LimitSumFirst
<1>13. Limit[x.tx] \in Nat /\ Limit[c.tx] \in Nat
  BY <1>a, <1>5, <1>7, LimitOf
<1> QED BY <1>5, <1>7, <1>10, <1>11, <1>12, <1>13

\* A pending transaction reserves something.
LEMMA LimitSumZero ==
    ASSUME NEW S \in SUBSET Record, IsFiniteSet(S)
    PROVE  LimitSum(S) \in Nat /\ (LimitSum(S) = 0 <=> S = {})
<1>1. LimitSum(S) \in Nat /\ LimitSum({}) = 0
  BY LimitSumFirst
<1>2. ASSUME NEW r \in S PROVE LimitSum(S) # 0
  <2>1. LimitSum(S) = Limit[r.tx] + LimitSum(S \ {r})
    BY LimitSumRemove
  <2>2. LimitSum(S \ {r}) \in Nat
    <3>1. IsFiniteSet(S \ {r}) /\ S \ {r} \in SUBSET Record
      BY FS_RemoveElement
    <3> QED BY <3>1, LimitSumFirst
  <2> QED BY <2>1, <2>2, LimitOf
<1> QED BY <1>1, <1>2

-----------------------------------------------------------------------------
(* Removing records *)

\* What an account has in all and what is left of it.
Resources == [max : Nat, current : Nat]

\* What a node's delta holds, for any number of submissions and any budget.
View ==
    [pending : SUBSET Record, rc : [Account -> Resources],
     nonces  : SUBSET {Nonce[t] : t \in Tx}, seqNum : Nat]

\* A view that describes one finite set of pending transactions.
Consistent(v) ==
    /\ v \in View /\ IsFiniteSet(v.pending)
    /\ ReservedIsPending(v) /\ IndexesAgree(v)

\* What the removal of a record leaves.
LEMMA RemoveRecordFields ==
    ASSUME NEW v \in View, NEW r \in Record
    PROVE  LET u == RemoveRecord(r, v)
           IN  /\ u \in View
               /\ u.pending = v.pending \ {r} /\ u.nonces = v.nonces \ {Nonce[r.tx]}
               /\ u.seqNum = v.seqNum
               /\ u.rc = [v.rc EXCEPT ![Payer[r.tx]] = Release(@, r.tx)]
<1> DEFINE u == RemoveRecord(r, v)
<1>1. /\ v.pending \in SUBSET Record /\ v.rc \in [Account -> Resources]
      /\ v.nonces \in SUBSET {Nonce[t] : t \in Tx} /\ v.seqNum \in Nat
  BY DEF View
<1>2. /\ u.pending = v.pending \ {r} /\ u.nonces = v.nonces \ {Nonce[r.tx]}
      /\ u.seqNum = v.seqNum
      /\ u.rc = [v.rc EXCEPT ![Payer[r.tx]] = Release(@, r.tx)]
  BY DEF View, RemoveRecord
<1>3. Payer[r.tx] \in Account /\ Limit[r.tx] \in Nat
  BY LimitOf DEF Account
<1>4. \A arr \in Resources : Release(arr, r.tx) \in Resources
  BY <1>3 DEF Release, Resources, NoRecord
<1>5. u.rc \in [Account -> Resources]
  BY <1>1, <1>2, <1>3, <1>4
<1>6. ASSUME NEW A \in SUBSET Record, NEW B \in [Account -> Resources],
             NEW C \in SUBSET {Nonce[t] : t \in Tx}
      PROVE  [v EXCEPT !.pending = A, !.rc = B, !.nonces = C] \in View
  BY Zenon DEF View
<1>7. u \in View
  <2>1. u = [v EXCEPT !.pending = v.pending \ {r},
                      !.rc = [v.rc EXCEPT ![Payer[r.tx]] = Release(@, r.tx)],
                      !.nonces = v.nonces \ {Nonce[r.tx]}]
    BY DEF View, RemoveRecord
  <2> DEFINE A == v.pending \ {r}
             B == [v.rc EXCEPT ![Payer[r.tx]] = Release(@, r.tx)]
             C == v.nonces \ {Nonce[r.tx]}
  <2>2. A \in SUBSET Record /\ B \in [Account -> Resources] /\ C \in SUBSET {Nonce[t] : t \in Tx}
    BY <1>1, <1>2, <1>5
  <2>3. u = [v EXCEPT !.pending = A, !.rc = B, !.nonces = C]
    BY <2>1
  <2> HIDE DEF u, A, B, C
  <2> QED BY <1>6, <2>2, <2>3, Zenon
<1> QED BY <1>2, <1>7

\* Removing one record from a consistent view leaves a consistent view: the account gets
\* back exactly what the transaction had reserved, and its nonce is free again.
LEMMA RemoveRecordConsistent ==
    ASSUME NEW v, Consistent(v), NEW r \in v.pending
    PROVE  Consistent(RemoveRecord(r, v))
<1> DEFINE u == RemoveRecord(r, v)
           mine(w, a) == {x \in w.pending : Payer[x.tx] = a}
           p == Payer[r.tx]
<1>1. v \in View /\ IsFiniteSet(v.pending) /\ ReservedIsPending(v) /\ IndexesAgree(v)
  BY DEF Consistent
<1>2. v.pending \in SUBSET Record /\ v.rc \in [Account -> Resources] /\ r \in Record
  BY <1>1 DEF View
<1>3. /\ u \in View
      /\ u.pending = v.pending \ {r} /\ u.nonces = v.nonces \ {Nonce[r.tx]}
      /\ u.seqNum = v.seqNum
      /\ u.rc = [v.rc EXCEPT ![p] = Release(@, r.tx)]
  BY <1>1, <1>2, RemoveRecordFields
<1> HIDE DEF u
<1>4. IsFiniteSet(u.pending)
  BY <1>1, <1>3, FS_RemoveElement
<1>5. IndexesAgree(u)
  BY <1>1, <1>3 DEF IndexesAgree
<1>6. ASSUME NEW a \in Account
      PROVE  /\ u.rc[a].max - u.rc[a].current = LimitSum(mine(u, a))
             /\ mine(u, a) = {} => u.rc[a] = NoRecord
  <2>1. /\ v.rc[a].max - v.rc[a].current = LimitSum(mine(v, a))
        /\ mine(v, a) = {} => v.rc[a] = NoRecord
    BY <1>1 DEF ReservedIsPending
  <2>2. CASE a # p
    <3>1. u.rc[a] = v.rc[a]
      BY <1>2, <1>3, <2>2
    <3>2. mine(u, a) = mine(v, a)
      BY <1>3, <2>2
    <3> QED BY <2>1, <3>1, <3>2, Zenon
  <2>3. CASE a = p
    <3>1. u.rc[a] = Release(v.rc[a], r.tx)
      BY <1>2, <1>3, <2>3
    <3>2. mine(u, a) = mine(v, a) \ {r} /\ r \in mine(v, a)
      BY <1>3, <2>3
    <3>3. mine(v, a) \in SUBSET Record /\ IsFiniteSet(mine(v, a))
      BY <1>1, <1>2, FS_Subset
    <3>4. mine(u, a) \in SUBSET Record /\ IsFiniteSet(mine(u, a))
      BY <3>2, <3>3, FS_RemoveElement
    <3>5. LimitSum(mine(v, a)) = Limit[r.tx] + LimitSum(mine(u, a))
      <4> HIDE DEF mine
      <4> QED BY <3>2, <3>3, LimitSumRemove
    <3>6. LimitSum(mine(u, a)) \in Nat /\ (LimitSum(mine(u, a)) = 0 <=> mine(u, a) = {})
      <4> HIDE DEF mine
      <4> QED BY <3>4, LimitSumZero
    <3>7. v.rc[a].max \in Nat /\ v.rc[a].current \in Nat /\ v.rc[a] \in Resources
      BY <1>2 DEF Resources
    <3>8. Limit[r.tx] \in Nat
      BY <1>2, LimitOf
    <3> HIDE DEF mine
    <3>9. CASE v.rc[a].current + Limit[r.tx] >= v.rc[a].max
      <4>1. u.rc[a] = NoRecord
        BY <3>1, <3>9 DEF Release
      <4>2. LimitSum(mine(u, a)) = 0
        BY <2>1, <3>5, <3>6, <3>7, <3>8, <3>9
      <4> QED BY <4>1, <4>2 DEF NoRecord
    <3>10. CASE ~(v.rc[a].current + Limit[r.tx] >= v.rc[a].max)
      <4>1. u.rc[a].max = v.rc[a].max /\ u.rc[a].current = v.rc[a].current + Limit[r.tx]
        BY <3>1, <3>7, <3>10 DEF Release, Resources
      <4>2. LimitSum(mine(u, a)) # 0
        BY <2>1, <3>5, <3>6, <3>7, <3>8, <3>10
      <4> QED BY <2>1, <3>5, <3>6, <3>7, <3>8, <4>1, <4>2
    <3> QED BY <3>9, <3>10
  <2> QED BY <2>2, <2>3
<1>7. ReservedIsPending(u)
  BY <1>6 DEF ReservedIsPending
<1> QED BY <1>3, <1>4, <1>5, <1>7 DEF Consistent, u

\* Removing several records removes exactly these, in whichever order the loop takes
\* them, and leaves a consistent view.
LEMMA RemoveRecordsConsistent ==
    ASSUME NEW v, Consistent(v), NEW R \in SUBSET v.pending
    PROVE  Consistent(RemoveRecords(v, R)) /\ RemoveRecords(v, R).pending = v.pending \ R
<1> DEFINE step == [p \in Record \X View |-> RemoveRecord(p[1], p[2])]
           Removes(it) == it = [s \in SUBSET R |->
                IF s = {} THEN v ELSE RemoveRecord(Pick(s), it[Rest(s)])]
           g == CHOOSE it : Removes(it)
<1>1. v \in View /\ R \in SUBSET Record /\ IsFiniteSet(R)
  BY FS_Subset DEF Consistent, View
<1>2. ASSUME NEW x \in R, NEW y \in View
      PROVE  step[<<x, y>>] = RemoveRecord(x, y) /\ step[<<x, y>>] \in View
  <2>1. <<x, y>> \in Record \X View
    BY <1>1
  <2>2. step[<<x, y>>] = RemoveRecord(x, y)
    BY <2>1
  <2>3. RemoveRecord(x, y) \in View
    BY <1>1, RemoveRecordFields, Zenon
  <2> QED BY <2>2, <2>3
<1> HIDE DEF step
<1>3. PICK f \in [SUBSET R -> View] : IsFold(f, SUBSET R, v, step)
  BY <1>1, <1>2, FoldExists, Zenon
<1>4. \A s \in SUBSET R : s # {} => Pick(s) \in R /\ Rest(s) \in SUBSET R
  BY DEF Pick, Rest
<1>5. Removes(f)
  <2>1. \A s \in SUBSET R : f[s] = IF s = {} THEN v ELSE RemoveRecord(Pick(s), f[Rest(s)])
    <3> TAKE s \in SUBSET R
    <3>1. CASE s = {}
      BY <1>3, <3>1 DEF IsFold
    <3>2. CASE s # {}
      <4>1. f[s] = step[<<Pick(s), f[Rest(s)]>>]
        BY <1>3, <3>2, Zenon DEF IsFold
      <4> QED BY <1>2, <1>3, <1>4, <3>2, <4>1
    <3> QED BY <3>1, <3>2
  <2> QED BY <1>3, <2>1
<1>6. RemoveRecords(v, R) = g[R]
  BY DEF RemoveRecords, Sets!FoldSet, Sets!MapThenFoldSet, Pick, Rest
<1>7. Removes(g)
  BY <1>5, Zenon
<1> HIDE DEF g
<1> DEFINE Good == {s \in SUBSET R : Consistent(g[s]) /\ g[s].pending = v.pending \ s}
<1>8. {} \in Good
  <2>1. g[{}] = v
    BY <1>7
  <2> QED BY <2>1
<1>9. ASSUME NEW s \in SUBSET R, s # {}, Rest(s) \in Good PROVE s \in Good
  <2> DEFINE u == g[Rest(s)]
             r == Pick(s)
  <2>1. g[s] = RemoveRecord(r, u)
    BY <1>7, <1>9
  <2>2. Consistent(u) /\ u.pending = v.pending \ Rest(s)
    BY <1>9
  <2>3. r \in s /\ r \in u.pending
    BY <1>9, <2>2 DEF Pick, Rest
  <2>4. Consistent(RemoveRecord(r, u))
    BY <2>2, <2>3, RemoveRecordConsistent
  <2>5. u \in View /\ r \in Record
    BY <1>1, <2>2, <2>3 DEF Consistent
  <2>6. RemoveRecord(r, u).pending = u.pending \ {r}
    BY <2>5, RemoveRecordFields, Zenon
  <2>7. u.pending \ {r} = v.pending \ s
    BY <2>2, <2>3 DEF Rest
  <2> QED BY <2>1, <2>4, <2>6, <2>7
<1> HIDE DEF Good
<1>10. R \in Good
  BY <1>1, <1>8, <1>9, SubsetInduction
<1> QED BY <1>6, <1>10 DEF Good

\* A transaction is added to a view whose account has the resources and whose nonce is
\* free: its limit is reserved on top of what the others have, under the new budget.
LEMMA AddToConsistent ==
    ASSUME NEW v, Consistent(v), NEW t \in Tx, NEW maxRc \in Nat, NEW time \in 0..MaxTime,
           ResourcesSuffice(v, t, maxRc), Nonce[t] \notin v.nonces
    PROVE  Consistent(AddTo(v, t, maxRc, time))
<1> DEFINE u == AddTo(v, t, maxRc, time)
           r == [seq |-> v.seqNum, tx |-> t, time |-> time]
           mine(w, a) == {x \in w.pending : Payer[x.tx] = a}
           p == Payer[t]
<1>1. v \in View /\ IsFiniteSet(v.pending) /\ ReservedIsPending(v) /\ IndexesAgree(v)
  BY DEF Consistent
<1>2. /\ v.pending \in SUBSET Record /\ v.rc \in [Account -> Resources]
      /\ v.nonces \in SUBSET {Nonce[x] : x \in Tx} /\ v.seqNum \in Nat
  BY <1>1 DEF View
<1>3. r \in Record /\ r.tx = t /\ r.seq = v.seqNum
  BY <1>2 DEF Record
<1>4. /\ u.pending = v.pending \cup {r} /\ u.nonces = v.nonces \cup {Nonce[t]}
      /\ u.seqNum = v.seqNum + 1
      /\ u.rc = [v.rc EXCEPT ![p] = Reserve(@, t, maxRc)]
      /\ u = [pending |-> u.pending, rc |-> u.rc, nonces |-> u.nonces, seqNum |-> u.seqNum]
  BY DEF AddTo
<1> HIDE DEF u, r
<1>5. p \in Account /\ Limit[t] \in Nat /\ Limit[t] > 0
  BY MempoolAssumption DEF Account
<1>6. r \notin v.pending
  BY <1>1, <1>2, <1>3 DEF IndexesAgree
<1>7. IsFiniteSet(u.pending)
  BY <1>1, <1>4, FS_AddElement
<1>8. /\ v.rc[p].max \in Nat /\ v.rc[p].current \in Nat /\ v.rc[p] \in Resources
  BY <1>2, <1>5 DEF Resources
<1>9. /\ Reserve(v.rc[p], t, maxRc) \in Resources
      /\ Reserve(v.rc[p], t, maxRc).max - Reserve(v.rc[p], t, maxRc).current
            = (v.rc[p].max - v.rc[p].current) + Limit[t]
  <2>1. CASE v.rc[p] = NoRecord
    <3>1. Limit[t] <= maxRc
      BY <2>1 DEF ResourcesSuffice
    <3>2. Reserve(v.rc[p], t, maxRc) = [max |-> maxRc, current |-> maxRc - Limit[t]]
      BY <2>1 DEF Reserve
    <3>3. v.rc[p].max = 0 /\ v.rc[p].current = 0
      BY <2>1 DEF NoRecord
    <3> QED BY <1>5, <3>1, <3>2, <3>3 DEF Resources
  <2>2. CASE v.rc[p] # NoRecord
    <3> DEFINE left == v.rc[p].current + (maxRc - v.rc[p].max) - Limit[t]
    <3>1. left >= 0
      BY <2>2 DEF ResourcesSuffice
    <3>2. Reserve(v.rc[p], t, maxRc) = [max |-> maxRc, current |-> left]
      BY <2>2 DEF Reserve
    <3>3. left \in Nat
      BY <1>5, <1>8, <3>1
    <3>4. maxRc - left = (v.rc[p].max - v.rc[p].current) + Limit[t]
      BY <1>5, <1>8
    <3> HIDE DEF left
    <3> QED BY <3>2, <3>3, <3>4 DEF Resources
  <2> QED BY <2>1, <2>2
<1>10. u \in View
  <2>1. u.rc \in [Account -> Resources]
    BY <1>2, <1>4, <1>5, <1>9
  <2> QED BY <1>2, <1>3, <1>4, <2>1 DEF View
<1>11. IndexesAgree(u)
  <2>1. u.nonces = {Nonce[x.tx] : x \in u.pending}
    BY <1>1, <1>3, <1>4 DEF IndexesAgree
  <2>2. \A x \in u.pending : x.seq < u.seqNum
    BY <1>1, <1>2, <1>3, <1>4 DEF IndexesAgree, Record
  <2>3. \A x \in v.pending : Nonce[x.tx] # Nonce[t] /\ x.seq # v.seqNum
    BY <1>1, <1>2 DEF IndexesAgree, Record
  <2>4. \A x, y \in u.pending : Nonce[x.tx] = Nonce[y.tx] \/ x.seq = y.seq => x = y
    BY <1>1, <1>3, <1>4, <2>3 DEF IndexesAgree
  <2> QED BY <2>1, <2>2, <2>4 DEF IndexesAgree
<1>12. ASSUME NEW a \in Account
       PROVE  /\ u.rc[a].max - u.rc[a].current = LimitSum(mine(u, a))
              /\ mine(u, a) = {} => u.rc[a] = NoRecord
  <2>1. /\ v.rc[a].max - v.rc[a].current = LimitSum(mine(v, a))
        /\ mine(v, a) = {} => v.rc[a] = NoRecord
    BY <1>1 DEF ReservedIsPending
  <2>2. CASE a # p
    <3>1. u.rc[a] = v.rc[a]
      BY <1>2, <1>4, <2>2
    <3>2. mine(u, a) = mine(v, a)
      BY <1>3, <1>4, <2>2
    <3> QED BY <2>1, <3>1, <3>2, Zenon
  <2>3. CASE a = p
    <3>1. u.rc[a] = Reserve(v.rc[p], t, maxRc)
      BY <1>2, <1>4, <2>3
    <3>2. r \in mine(u, a) /\ mine(u, a) \ {r} = mine(v, a)
      BY <1>3, <1>4, <1>6, <2>3
    <3>3. mine(u, a) \in SUBSET Record /\ IsFiniteSet(mine(u, a))
      BY <1>2, <1>3, <1>4, <1>7, FS_Subset
    <3>4. LimitSum(mine(u, a)) = Limit[t] + LimitSum(mine(v, a))
      <4> HIDE DEF mine
      <4> QED BY <1>3, <3>2, <3>3, LimitSumRemove
    <3>5. mine(v, a) \in SUBSET Record /\ IsFiniteSet(mine(v, a))
      BY <1>1, <1>2, FS_Subset
    <3>6. LimitSum(mine(v, a)) \in Nat
      <4> HIDE DEF mine
      <4> QED BY <3>5, LimitSumZero
    <3> HIDE DEF mine
    <3> QED BY <1>5, <1>8, <1>9, <2>1, <2>3, <3>1, <3>2, <3>4, <3>6
  <2> QED BY <2>2, <2>3
<1>13. ReservedIsPending(u)
  BY <1>12 DEF ReservedIsPending
<1> QED BY <1>7, <1>10, <1>11, <1>13 DEF Consistent, u

\* Nothing is pending in the view a node starts with, and there is nothing to remove.
LEMMA EmptyConsistent ==
    Consistent(EmptyView) /\ RemoveRecords(EmptyView, {}) = EmptyView
<1>1. EmptyView \in View
  BY DEF EmptyView, View, Resources, NoRecord
<1>2. /\ EmptyView.pending = {} /\ EmptyView.nonces = {}
      /\ \A a \in Account : EmptyView.rc[a] = NoRecord
  BY DEF EmptyView
<1>3. IsFiniteSet({}) /\ LimitSum({}) = 0
  BY FS_EmptySet, LimitSumZero
<1>4. ReservedIsPending(EmptyView)
  <2> SUFFICES ASSUME NEW a \in Account
               PROVE  LET mine == {r \in EmptyView.pending : Payer[r.tx] = a}
                      IN  /\ EmptyView.rc[a].max - EmptyView.rc[a].current = LimitSum(mine)
                          /\ mine = {} => EmptyView.rc[a] = NoRecord
    BY DEF ReservedIsPending
  <2>1. {r \in EmptyView.pending : Payer[r.tx] = a} = {}
    BY <1>2
  <2>2. EmptyView.rc[a].max - EmptyView.rc[a].current = 0
    BY <1>2 DEF NoRecord
  <2> QED BY <1>2, <1>3, <2>1, <2>2
<1>5. IndexesAgree(EmptyView)
  BY <1>2 DEF IndexesAgree
<1>6. RemoveRecords(EmptyView, {}) = EmptyView
  <2> DEFINE Removes(it) == it = [s \in SUBSET {} |->
                IF s = {} THEN EmptyView ELSE RemoveRecord(Pick(s), it[Rest(s)])]
             g == CHOOSE it : Removes(it)
  <2>1. RemoveRecords(EmptyView, {}) = g[{}]
    BY DEF RemoveRecords, Sets!FoldSet, Sets!MapThenFoldSet, Pick, Rest
  <2>2. Removes([s \in SUBSET {} |-> EmptyView])
    OBVIOUS
  <2>3. Removes(g)
    BY <2>2
  <2> HIDE DEF g
  <2> QED BY <2>1, <2>3
<1> QED BY <1>1, <1>2, <1>3, <1>4, <1>5, <1>6 DEF Consistent

-----------------------------------------------------------------------------
(* The index, whether the database is torn or not *)

\* create_writable_node and clone_node add one node.
LEMMA AddNodeIndex ==
    ASSUME NEW d, NEW n, NEW p, NEW r, "index" \in DOMAIN d
    PROVE  LET e == AddNode(d, n, p, r) IN "index" \in DOMAIN e /\ e.index = d.index \cup {n}
  BY DEF AddNode

\* finalize_node adds none and removes none.
LEMMA FinalizeIndex ==
    ASSUME NEW d, "index" \in DOMAIN d, NEW n, NEW e \in FinalizeNode(d, n)
    PROVE  "index" \in DOMAIN e /\ e.index = d.index
<1> DEFINE c == [d EXCEPT !.finalized = @ \cup {n}]
<1>1. "index" \in DOMAIN c /\ c.index = d.index
  OBVIOUS
<1> HIDE DEF c
<1>2. PICK f \in ChooseHead(c, n) : e = RecordForkHead(f, n)
  BY DEF FinalizeNode, c
<1>3. "index" \in DOMAIN f /\ f.index = c.index
  BY <1>1, Zenon DEF ChooseHead, FallBack
<1> QED BY <1>1, <1>2, <1>3 DEF RecordForkHead

\* commit_node adds none.
LEMMA CommitIndex ==
    ASSUME NEW d, "index" \in DOMAIN d, NEW n, NEW e \in CommitNode(d, n)
    PROVE  "index" \in DOMAIN e /\ e.index \subseteq d.index
<1> DEFINE moved == MoveRoot(d, n)
           doomed == Subtree(d, d.root) \ Subtree(d, n)
<1>1. "index" \in DOMAIN moved /\ moved.index = d.index
  BY DEF MoveRoot
<1>2. \/ e = d \/ e = Erase(moved, doomed)
      \/ \E f \in CannotDiscard(moved, doomed) : e = [f EXCEPT !.torn = TRUE]
  BY DEF CommitNode
<1> HIDE DEF moved, doomed
<1>3. CASE e = d
  BY <1>3
<1>4. CASE e = Erase(moved, doomed)
  BY <1>1, <1>4 DEF Erase
<1>5. ASSUME NEW f \in CannotDiscard(moved, doomed), e = [f EXCEPT !.torn = TRUE]
      PROVE  "index" \in DOMAIN e /\ e.index \subseteq d.index
  <2>1. "index" \in DOMAIN f /\ f.index = moved.index
    BY <1>1 DEF CannotDiscard
  <2> QED BY <1>1, <1>5, <2>1
<1> QED BY <1>2, <1>3, <1>4, <1>5

\* handle_block adds the block and its temporary node.
LEMMA HandleBlockIndex ==
    ASSUME "index" \in DOMAIN db, NEW b \in Block, HandleBlock(b)
    PROVE  "index" \in DOMAIN db' /\ db'.index = db.index \cup {b, TmpId[b]}
<1> DEFINE c == CloneNode(db, CloneSource(b), b)
<1>1. PICK e \in FinalizeNode(c, b) : db' = CreateWritableNode(e, b, TmpId[b])
  BY DEF HandleBlock
<1>2. "index" \in DOMAIN c /\ c.index = db.index \cup {b}
  BY AddNodeIndex DEF CloneNode
<1> HIDE DEF c
<1>3. "index" \in DOMAIN e /\ e.index = db.index \cup {b}
  BY <1>2, FinalizeIndex
<1>4. "index" \in DOMAIN db' /\ db'.index = e.index \cup {TmpId[b]}
  BY <1>1, <1>3, AddNodeIndex DEF CreateWritableNode
<1> QED BY <1>3, <1>4

-----------------------------------------------------------------------------
(* Every view stays consistent *)

\* What every step preserves: consistent views, empty ones outside the index.
PoolInv ==
    /\ "index" \in DOMAIN db /\ db.index \subseteq Node
    /\ view \in [Node -> View]
    /\ \A n \in Node : Consistent(view[n]) /\ (n \notin db.index => view[n] = EmptyView)
    /\ mutexes \subseteq Node /\ clock \in 0..MaxTime /\ delivered \subseteq Block

\* A view that remove_pending_transactions_on_node leaves is consistent, and one with
\* nothing pending is left alone.
LEMMA RemoveTransactionsConsistent ==
    ASSUME NEW v, Consistent(v), NEW ids
    PROVE  /\ Consistent(RemoveTransactions(v, ids))
           /\ RemoveTransactions(v, ids).pending = {r \in v.pending : r.tx \notin ids}
           /\ v = EmptyView => RemoveTransactions(v, ids) = EmptyView
<1> DEFINE R == {r \in v.pending : r.tx \in ids}
<1>1. R \in SUBSET v.pending
  OBVIOUS
<1>2. RemoveTransactions(v, ids) = RemoveRecords(v, R)
  BY DEF RemoveTransactions
<1>3. v.pending \ R = {r \in v.pending : r.tx \notin ids}
  OBVIOUS
<1>4. v = EmptyView => R = {}
  BY DEF EmptyView
<1> HIDE DEF R
<1>5. Consistent(RemoveRecords(v, R)) /\ RemoveRecords(v, R).pending = v.pending \ R
  BY <1>1, RemoveRecordsConsistent
<1>6. v = EmptyView => RemoveRecords(v, R) = EmptyView
  BY <1>4, EmptyConsistent
<1> QED BY <1>2, <1>3, <1>5, <1>6

\* The constructor leaves every view empty.
LEMMA PoolInit == Init => PoolInv
<1> SUFFICES ASSUME Init PROVE PoolInv
  OBVIOUS
<1>1. PICK comp \in Algorithm :
        db = CreateWritableNode(Open(comp, EmptyDisk), Genesis, TmpId[Genesis])
  BY DEF Init
<1>2. TmpId[Genesis] \in Node /\ Genesis \in Node
  BY IdAssumption, NodeAssumption
<1> DEFINE d == Open(comp, EmptyDisk)
<1>3. "index" \in DOMAIN d /\ d.index = {Genesis}
  BY DEF Open, Closed, EmptyDisk
<1> HIDE DEF d
<1>4. "index" \in DOMAIN db /\ db.index = {Genesis, TmpId[Genesis]}
  BY <1>1, <1>3, AddNodeIndex DEF d, CreateWritableNode
<1>5. view \in [Node -> View] /\ \A n \in Node : Consistent(view[n]) /\ view[n] = EmptyView
  BY EmptyConsistent DEF Init, Consistent
<1>6. mutexes \subseteq Node /\ clock \in 0..MaxTime /\ delivered \subseteq Block
  BY <1>2, MempoolAssumption DEF Init
<1> QED BY <1>2, <1>4, <1>5, <1>6 DEF PoolInv

\* Every step leaves every view consistent.
LEMMA PoolStep == PoolInv /\ [Next]_vars => PoolInv'
<1> SUFFICES ASSUME PoolInv, [Next]_vars PROVE PoolInv'
  OBVIOUS
<1>0. /\ "index" \in DOMAIN db /\ db.index \subseteq Node
      /\ view \in [Node -> View]
      /\ \A n \in Node : Consistent(view[n]) /\ (n \notin db.index => view[n] = EmptyView)
      /\ mutexes \subseteq Node /\ clock \in 0..MaxTime /\ delivered \subseteq Block
  BY DEF PoolInv
<1> DEFINE Fine(f, index) ==
        \A n \in Node : Consistent(f[n]) /\ (n \notin index => f[n] = EmptyView)
<1>1. ASSUME NEW b \in Block, HandleBlock(b) PROVE PoolInv'
  <2> DEFINE source == CloneSource(b)
             rest == RemoveTransactions(view[source], Contents[b])
  <2>1. /\ source \in db.index
        /\ view' = [view EXCEPT ![b] = rest, ![TmpId[b]] = rest]
        /\ mutexes' = mutexes \cup {TmpId[b]} /\ delivered' = delivered \cup {b}
        /\ clock' = clock
    BY <1>1 DEF HandleBlock, CanClone
  <2>2. b \in Node /\ TmpId[b] \in Node
    BY IdAssumption
  <2>3. "index" \in DOMAIN db' /\ db'.index = db.index \cup {b, TmpId[b]}
    BY <1>0, <1>1, HandleBlockIndex
  <2>4. Consistent(rest) /\ rest \in View
    BY <1>0, <2>1, RemoveTransactionsConsistent DEF Consistent
  <2> HIDE DEF rest, source
  <2>5. /\ view' \in [Node -> View]
        /\ \A n \in Node : view'[n] = IF n \in {b, TmpId[b]} THEN rest ELSE view[n]
    BY <1>0, <2>1, <2>2, <2>4
  <2>6. Fine(view', db'.index)
    BY <1>0, <2>3, <2>4, <2>5
  <2> QED BY <1>0, <2>1, <2>2, <2>3, <2>5, <2>6 DEF PoolInv
<1>2. ASSUME NEW b \in Block, HandleIrreversibility(b) PROVE PoolInv'
  <2>1. /\ db' \in CommitNode(db, b)
        /\ view' = [n \in Node |-> IF n \in db'.index THEN view[n] ELSE EmptyView]
        /\ mutexes' \subseteq mutexes /\ UNCHANGED <<clock, delivered>>
    BY <1>2 DEF HandleIrreversibility
  <2>2. "index" \in DOMAIN db' /\ db'.index \subseteq db.index
    BY <1>0, <2>1, CommitIndex
  <2>3. Consistent(EmptyView) /\ EmptyView \in View
    BY EmptyConsistent DEF Consistent
  <2>4. view' \in [Node -> View] /\ Fine(view', db'.index)
    BY <1>0, <2>1, <2>3
  <2> QED BY <1>0, <2>1, <2>2, <2>4 DEF PoolInv
<1>3. ASSUME NEW t \in Tx, NEW maxRc \in Budget, AddPending(t, maxRc) PROVE PoolInv'
  <2> DEFINE free == {n \in Writable : Nonce[t] \notin view[n].nonces}
             added(n) == AddTo(view[n], t, maxRc, clock)
  <2>1. /\ \A n \in free : ResourcesSuffice(view[n], t, maxRc)
        /\ view' = [n \in Node |-> IF n \in free THEN added(n) ELSE view[n]]
        /\ UNCHANGED <<db, mutexes, clock, delivered>>
    BY <1>3 DEF AddPending
  <2>2. free \subseteq db.index /\ \A n \in free : Nonce[t] \notin view[n].nonces
    BY DEF Writable
  <2>3. maxRc \in Nat
    BY MempoolAssumption
  <2>4. ASSUME NEW n \in free PROVE Consistent(added(n)) /\ added(n) \in View
    <3>1. Consistent(view[n]) /\ ResourcesSuffice(view[n], t, maxRc) /\ Nonce[t] \notin view[n].nonces
      BY <1>0, <2>1, <2>2
    <3>2. Consistent(added(n))
      BY <1>0, <2>3, <3>1, AddToConsistent
    <3> QED BY <3>2 DEF Consistent
  <2> HIDE DEF free, added
  <2>5. view' \in [Node -> View] /\ Fine(view', db.index)
    BY <1>0, <2>1, <2>2, <2>4
  <2> QED BY <1>0, <2>1, <2>5 DEF PoolInv
<1>4. ASSUME NEW t \in Tx, RemovePending({t}) PROVE PoolInv'
  <2> DEFINE left(n) == RemoveTransactions(view[n], {t})
  <2>1. /\ view' = [n \in Node |-> IF n \in Tips THEN left(n) ELSE view[n]]
        /\ UNCHANGED <<db, mutexes, clock, delivered>>
    BY <1>4 DEF RemovePending
  <2>2. ASSUME NEW n \in Node
        PROVE  /\ Consistent(left(n)) /\ left(n) \in View
               /\ n \notin db.index => left(n) = EmptyView
    BY <1>0, RemoveTransactionsConsistent DEF Consistent
  <2> HIDE DEF left
  <2>3. view' \in [Node -> View] /\ Fine(view', db.index)
    BY <1>0, <2>1, <2>2
  <2> QED BY <1>0, <2>1, <2>3 DEF PoolInv
<1>5. ASSUME Prune PROVE PoolInv'
  <2> DEFINE left(n) == RemoveRecords(view[n], Expired(view[n]))
  <2>1. /\ view' = [n \in Node |-> IF n \in Tips THEN left(n) ELSE view[n]]
        /\ UNCHANGED <<db, mutexes, clock, delivered>>
    BY <1>5 DEF Prune
  <2>2. ASSUME NEW n \in Node
        PROVE  /\ Consistent(left(n)) /\ left(n) \in View
               /\ n \notin db.index => left(n) = EmptyView
    <3>1. Expired(view[n]) \in SUBSET view[n].pending
      BY DEF Expired
    <3>2. Consistent(left(n))
      BY <1>0, <3>1, RemoveRecordsConsistent
    <3>3. view[n] = EmptyView => Expired(view[n]) = {}
      BY <3>1 DEF EmptyView
    <3> QED BY <1>0, <3>2, <3>3, EmptyConsistent DEF Consistent
  <2> HIDE DEF left
  <2>3. view' \in [Node -> View] /\ Fine(view', db.index)
    BY <1>0, <2>1, <2>2
  <2> QED BY <1>0, <2>1, <2>3 DEF PoolInv
<1>6. ASSUME NEW b \in Block, DropBlock(b) PROVE PoolInv'
  BY <1>0, <1>6 DEF DropBlock, PoolInv
<1>7. CASE Tick
  <2>1. clock' \in 0..MaxTime
    BY <1>0, <1>7, MempoolAssumption DEF Tick
  <2> QED BY <1>0, <1>7, <2>1 DEF Tick, PoolInv
<1>8. CASE UNCHANGED vars
  BY <1>0, <1>8 DEF vars, PoolInv
<1> QED BY <1>1, <1>2, <1>3, <1>4, <1>5, <1>6, <1>7, <1>8, Zenon DEF Next

\* The invariant of the views holds in every state.
LEMMA PoolInvariance == Spec => []PoolInv
  BY PoolInit, PoolStep, PTL DEF Spec

\* On every node, also after a commit that threw, what an account has reserved is the
\* sum of the limits of its pending transactions, a nonce is taken exactly while one
\* pending transaction holds it and no sequence number is given twice: for any set of
\* transactions, any tree of blocks, any budgets and any order of additions, removals,
\* expirations and blocks.
THEOREM PoolsStayConsistent == Spec => []PoolsConsistent
<1>1. IInv /\ PoolInv => PoolsConsistent
  <2> SUFFICES ASSUME IInv, PoolInv PROVE PoolsConsistent
    OBVIOUS
  <2>1. \A n \in Node : view[n] \in View /\ ReservedIsPending(view[n]) /\ IndexesAgree(view[n])
    BY DEF PoolInv, Consistent
  <2>2. \A n \in Node : /\ view[n].pending \subseteq Record
                        /\ view[n].rc \in [Account -> [max : Nat, current : Nat]]
    BY <2>1 DEF View, Resources
  <2>3. ~db.torn => db \in Database
    BY DEF IInv, Sound
  <2>4. TypeOK
    BY <2>2, <2>3 DEF TypeOK, PoolInv
  <2> QED BY <2>1, <2>4 DEF PoolsConsistent, PoolInv
<1> QED BY <1>1, Invariance, PoolInvariance, PTL

\* When handle_block accepts a block, its transactions are pending on no node above it
\* and everything else that was pending before it still is, for any block, any pending
\* transactions and any fork.
THEOREM AcceptedBlocksLeaveRest == Spec => AcceptedLeavesRest
<1> DEFINE Left(b) == {r.tx : r \in view'[TmpId[b]].pending}
                        = {r.tx : r \in view[CloneSource(b)].pending} \ Contents[b]
<1>1. PoolInv /\ [Next]_vars =>
        [\A b \in Block \cap (db'.index \ db.index) : Left(b)]_vars
  <2> SUFFICES ASSUME PoolInv, Next, NEW b \in Block, b \in db'.index, b \notin db.index
               PROVE  Left(b)
    OBVIOUS
  <2>0. "index" \in DOMAIN db /\ view \in [Node -> View] /\ db.index \subseteq Node
    BY DEF PoolInv
  <2>1. \E c \in Block : HandleBlock(c)
    <3>1. ASSUME NEW c \in Block, HandleIrreversibility(c) PROVE FALSE
      BY <2>0, <3>1, CommitIndex DEF HandleIrreversibility
    <3>2. db' # db
      OBVIOUS
    <3> QED BY <3>1, <3>2, Zenon DEF Next, DropBlock, AddPending, RemovePending, Prune, Tick
  <2>2. PICK c \in Block : HandleBlock(c)
    BY <2>1
  <2>3. b = c
    <3>1. db'.index = db.index \cup {c, TmpId[c]}
      BY <2>0, <2>2, HandleBlockIndex
    <3>2. TmpId[c] # b
      BY IdAssumption
    <3> QED BY <3>1, <3>2
  <2> DEFINE v == view[CloneSource(b)]
             rest == RemoveTransactions(v, Contents[b])
  <2>4. view' = [view EXCEPT ![b] = rest, ![TmpId[b]] = rest] /\ CloneSource(b) \in db.index
    BY <2>2, <2>3 DEF HandleBlock, CanClone
  <2>5. TmpId[b] \in Node
    BY IdAssumption
  <2>6. Consistent(v)
    BY <2>0, <2>4 DEF PoolInv
  <2> HIDE DEF v
  <2>7. rest.pending = {r \in v.pending : r.tx \notin Contents[b]}
    BY <2>6, RemoveTransactionsConsistent
  <2> HIDE DEF rest
  <2>8. view'[TmpId[b]] = rest
    BY <2>0, <2>4, <2>5
  <2> QED BY <2>7, <2>8 DEF v
<1> QED BY <1>1, PoolInvariance, PTL DEF Spec, AcceptedLeavesRest
=============================================================================
