----------------------------- MODULE StateDelta -----------------------------
(***************************************************************************)
(* The storage behind state nodes: the root delta on the RocksDB backend   *)
(* and above it one delta per node, each a map of what it wrote and a set  *)
(* of the keys it removed.  A storage is a record: db is the backend,      *)
(* deltas the chain of deltas from the root's child to the newest node,    *)
(* lost says that the root gave its backend away to a commit that failed.  *)
(* Node n is the n-th delta, node 0 the root.                              *)
(*                                                                         *)
(* The operators are the methods of state_node and state_delta; the        *)
(* answers are records with the storage after the call.                    *)
(***************************************************************************)
EXTENDS MergeIterator

LOCAL INSTANCE FiniteSetsExt
LOCAL INSTANCE SequencesExt

CONSTANT SpaceOf(_)    \* the object space of a key

EmptyDelta == [map |-> EmptyMap, removed |-> {}]

NewStorage(disk) == [db |-> Open(disk), deltas |-> <<>>, lost |-> FALSE]

Layers(st, n) ==
    <<[map |-> st.db.disk.objects, removed |-> {}]>> \o SubSeq(st.deltas, 1, n)

\* What the backend got for a reader of the storage.
FromBackend(st, got) == [st |-> [st EXCEPT !.db = got.db], val |-> got.val]

\* state_delta::find from node n: the newest delta that knows the key answers,
\* the backend when none does.
GetObject(st, n, k) ==
    LET known == { i \in 1 .. n : Modified(st.deltas[i], k) }
    IN  IF known # {} THEN [st |-> st, val |-> st.deltas[Max(known)].map[k]]
        ELSE FromBackend(st, Get(st.db, k))

\* A write over what a lookup found.
PutOver(old, n, k, v) ==
    [st    |-> [old.st EXCEPT !.deltas[n].map[k] = v],
     bytes |-> Size(v) + (IF old.val = NoValue THEN KeySize ELSE -Size(old.val))]

\* put_object on node n and the bytes it used.
PutObject(st, n, k, v) == PutOver(GetObject(st, n, k), n, k, v)

\* The key leaves the map and becomes a tombstone when the chain has it, or when
\* the caller (delta replay) asks for the tombstone anyway.
RemoveFound(old, n, k, tombstone) ==
    LET new == IF old.val # NoValue \/ tombstone
               THEN [old.st EXCEPT !.deltas[n].map[k] = NoValue,
                                   !.deltas[n].removed = @ \cup {k}]
               ELSE old.st
    IN  [st    |-> new,
         bytes |-> IF old.val = NoValue THEN 0 ELSE -(Size(old.val) + KeySize)]

\* remove_object on node n, and the bytes it gave back.
RemoveObject(st, n, k, tombstone) == RemoveFound(GetObject(st, n, k), n, k, tombstone)

\* The answer of an iterator that stands on a key of the space of k.
Answer(st, layers, it, found) ==
    [st  |-> [st EXCEPT !.db = it.db],
     key |-> IF found THEN HeadKey(it) ELSE 0,
     val |-> IF found THEN ValueAt(layers, it) ELSE NoValue]

\* The key an iterator stands on is one of the space of k.
InSpace(it, k) == HeadKey(it) # End /\ SpaceOf(HeadKey(it)) = SpaceOf(k)

AnswerInSpace(st, layers, it, k) == Answer(st, layers, it, InSpace(it, k))

\* The iterator of get_next_object, from the first key >= k.
After(layers, at, k) == IF HeadKey(at) = k THEN Increment(layers, at) ELSE at

\* get_next_object.
NextObject(st, n, k) ==
    LET layers == Layers(st, n)
    IN  AnswerInSpace(st, layers, After(layers, LowerBoundIterator(layers, st.db, k), k), k)

\* get_prev_object: at is the first key >= k and first is begin().
PrevAnswer(st, layers, at, first, k) ==
    LET here == [at EXCEPT !.db = first.db]
    IN  IF SameIterator(at, first) THEN Answer(st, layers, here, FALSE)
        ELSE AnswerInSpace(st, layers, Decrement(layers, here), k)

PrevFrom(st, layers, at, k) ==
    PrevAnswer(st, layers, at, LowerBoundIterator(layers, at.db, 1), k)

PrevObject(st, n, k) ==
    LET layers == Layers(st, n)
    IN  PrevFrom(st, layers, LowerBoundIterator(layers, st.db, k), k)

\* make_child and create_anonymous_node: an empty delta above the newest.
MakeChild(st) == [st EXCEPT !.deltas = Append(@, EmptyDelta)]

\* discard_node, and anonymous nodes that are destroyed: n nodes are left.
DropTo(st, n) == [st EXCEPT !.deltas = SubSeq(@, 1, n)]

\* The newest node.
Newest(st) == Len(st.deltas)

\* Mutant: what the child removed stays in the parent.
SquashKeepsRemoved(st) ==
    LET child  == Last(st.deltas)
        parent == st.deltas[Len(st.deltas) - 1]
        merged == [map     |-> [k \in Keys |-> IF child.map[k] # NoValue THEN child.map[k]
                                               ELSE parent.map[k]],
                   removed |-> (parent.removed \cup child.removed) \ Stored(child.map)]
    IN  [st EXCEPT !.deltas = Append(Front(Front(@)), merged)]

\* squash of the newest delta into its parent, which is never the root: its
\* removals, then its writes, each of which cancels the parent's tombstone.
Squash(st) ==
    LET child  == Last(st.deltas)
        parent == st.deltas[Len(st.deltas) - 1]
        merged == [map     |-> [k \in Keys |-> IF child.map[k] # NoValue THEN child.map[k]
                                               ELSE IF k \in child.removed THEN NoValue
                                               ELSE parent.map[k]],
                   removed |-> (parent.removed \cup child.removed) \ Stored(child.map)]
    IN  [st EXCEPT !.deltas = Append(Front(Front(@)), merged)]

\* The keys of a set, in order.
InKeyOrder(S) == SelectSeq([k \in Keys |-> k], LAMBDA k : k \in S)

\* What state_delta::commit writes for one delta: its tombstones, then its map.
WritesOf(delta) ==
    LET gone == InKeyOrder(delta.removed)
        put  == InKeyOrder(Stored(delta.map))
    IN  [i \in DOMAIN gone |-> [key |-> gone[i], val |-> NoValue]]
        \o [i \in DOMAIN put |-> [key |-> put[i], val |-> delta.map[put[i]]]]

RECURSIVE WriteAll(_, _)

\* The writes of a commit, one after the other.
WriteAll(db, writes) ==
    IF writes = <<>> THEN db
    ELSE WriteAll(Write(db, Head(writes).key, Head(writes).val), Tail(writes))

\* The batch is written with the new revision.  The root has handed its backend
\* over; when the write fails nothing gives it back.
WriteBatch(st, n, filled, ok) ==
    IF ok
    THEN [st EXCEPT !.db = EndWriteBatch(filled, st.db.revision + n),
                    !.deltas = SubSeq(@, n + 1, Len(@))]
    ELSE [st EXCEPT !.db = filled, !.lost = TRUE]

\* commit of node n: every delta up to it goes into one batch, oldest first.
Commit(st, n, ok) ==
    LET writes == FlattenSeq([i \in 1 .. n |-> WritesOf(st.deltas[i])])
    IN  WriteBatch(st, n, WriteAll(StartWriteBatch(st.db), writes), ok)

\* The entries of the newest delta (get_delta_entries), in key order.  A key
\* that is both written and removed is listed twice, with its value.
DeltaEntries(st) ==
    LET delta == Last(st.deltas)
        put   == Stored(delta.map)
        slots == [i \in 1 .. 2 * Max(Keys) |->
                     [key |-> (i + 1) \div 2, again |-> i % 2 = 0]]
        used  == SelectSeq(slots, LAMBDA e : IF e.again THEN e.key \in put \cap delta.removed
                                             ELSE e.key \in put \cup delta.removed)
    IN  [i \in DOMAIN used |-> [key |-> used[i].key, val |-> delta.map[used[i].key]]]

\* calculate_merkle_root: a hash of those entries, injective in the model.
MerkleRoot(st) == DeltaEntries(st)

\* The database opened again: deltas, cache and an unfinished batch are gone.
Reopen(st) == NewStorage(st.db.disk)

Lost(st) == st.lost

Revision(st) == st.db.revision

\* The node's storage as one map, read without touching the cache.
View(st, n) ==
    [k \in Keys |->
        LET known == { i \in 1 .. n : Modified(st.deltas[i], k) }
        IN  IF known # {} THEN st.deltas[Max(known)].map[k] ELSE st.db.disk.objects[k]]

===========================================================================
