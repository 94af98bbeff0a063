--------------------------- MODULE MergeIterator ---------------------------
(***************************************************************************)
(* merge_iterator: one ordered view of a stack of layers.  Layer 1 is the  *)
(* root (the database), the layers above it are deltas in the order of     *)
(* their revisions.  The iterator keeps one position per layer; its head   *)
(* is the least position, the newest layer first among equals.  A position *)
(* is dirty when a newer layer holds or removes its key.                   *)
(*                                                                         *)
(* An iterator also carries the backend, whose cache every position taken  *)
(* on the root layer touches.                                              *)
(***************************************************************************)
EXTENDS StateBackend

LOCAL INSTANCE FiniteSetsExt
LOCAL INSTANCE SequencesExt

\* state_delta::is_modified.
Modified(layer, k) == layer.map[k] # NoValue \/ k \in layer.removed

\* is_dirty: a newer layer than i has its own say on k.
Dirty(layers, i, k) == \E j \in i + 1 .. Len(layers) : Modified(layers[j], k)

\* begin() of the index by order and revision.
HeadOf(pos) ==
    CHOOSE i \in DOMAIN pos :
        \A j \in DOMAIN pos \ {i} : pos[i] < pos[j] \/ (pos[i] = pos[j] /\ i > j)

HeadKey(it) == it.pos[HeadOf(it.pos)]

RECURSIVE Visit(_, _)

\* The iterator of the root layer stands on the keys of path in turn.
Visit(db, path) ==
    IF path = <<>> THEN db ELSE Visit(IteratorAt(db, Head(path)), Tail(path))

\* The keys of the root layer strictly between two positions, upwards.
Between(layers, from, to) ==
    SelectSeq([k \in Keys |-> k], LAMBDA k : layers[1].map[k] # NoValue /\ from < k /\ k < to)

\* The iterators move forward to the positions pos, one key at a time.
Forward(layers, it, pos) ==
    [pos |-> pos,
     db  |-> IF pos[1] = it.pos[1] THEN it.db
             ELSE Visit(it.db, Append(Between(layers, it.pos[1], pos[1]), pos[1]))]

\* The iterators move backward to the positions pos, one key at a time.
Backward(layers, it, pos) ==
    [pos |-> pos,
     db  |-> Visit(it.db, Append(Reverse(Between(layers, pos[1], it.pos[1])), pos[1]))]

\* ++ of the iterator of layer i.
Step(layers, it, i) ==
    Forward(layers, it, [it.pos EXCEPT ![i] = LowerBound(layers[i].map, @ + 1)])

\* resolve_conflicts: the head moves on while it is dirty.
RECURSIVE Resolve(_, _)
Resolve(layers, it) ==
    LET h == HeadOf(it.pos)
    IN  IF it.pos[h] # End /\ Dirty(layers, h, it.pos[h])
        THEN Resolve(layers, Step(layers, it, h))
        ELSE it

\* The constructor: every layer at its first key >= k.  begin() is k = 1.
LowerBoundIterator(layers, db, k) ==
    LET pos == [i \in DOMAIN layers |-> LowerBound(layers[i].map, k)]
    IN  Resolve(layers, [pos |-> pos, db |-> IteratorAt(db, pos[1])])

\* operator==: both past the end, or the same key of the same layer.
SameIterator(a, b) ==
    \/ HeadKey(a) = End /\ HeadKey(b) = End
    \/ HeadKey(a) = HeadKey(b) /\ HeadOf(a.pos) = HeadOf(b.pos)

\* operator++.
Increment(layers, it) ==
    Resolve(layers, Step(layers, it, HeadOf(it.pos)))

\* Where -- leaves the iterator of layer i: the last clean key before the old
\* head, or the layer's first key if there is none.
Rewound(layers, i, head) ==
    LET map   == layers[i].map
        clean == { j \in Stored(map) : j < head /\ ~Dirty(layers, i, j) }
    IN  IF clean = {} THEN Min(Stored(map)) ELSE Max(clean)

\* Where every layer that has objects is rewound to, from its end if it stood
\* there.
RewoundAll(layers, it) ==
    [i \in DOMAIN layers |->
        IF Stored(layers[i].map) = {} THEN it.pos[i] ELSE Rewound(layers, i, HeadKey(it))]

\* The greatest clean position before the old head is the new head, and the
\* layers behind it move forward again.
Realigned(layers, head, rewound) ==
    LET back    == rewound.pos
        smaller == { i \in DOMAIN layers : back[i] < head /\ ~Dirty(layers, i, back[i]) }
        least   == Max({ back[i] : i \in smaller })
        ahead   == [i \in DOMAIN layers |->
                       IF back[i] < least THEN LowerBound(layers[i].map, least) ELSE back[i]]
    IN  IF Len(layers) = 1 THEN rewound
        ELSE Resolve(layers, Forward(layers, rewound, ahead))

\* operator--.
Decrement(layers, it) ==
    Realigned(layers, HeadKey(it), Backward(layers, it, RewoundAll(layers, it)))

\* operator*.
ValueAt(layers, it) ==
    LET h == HeadOf(it.pos) IN layers[h].map[it.pos[h]]

===========================================================================
