----------------------------- MODULE PlainStore -----------------------------
(***************************************************************************)
(* What the storage promises: every node is one map from keys to objects.  *)
(* A node starts as a copy of its parent's map and changes only itself;    *)
(* put and gone are the keys it wrote and removed, which its receipt       *)
(* lists.  Reads, neighbours and commits are those of plain maps: there    *)
(* are no layers, no tombstones, no cache and no batch.                    *)
(***************************************************************************)
EXTENDS Integers, Sequences

LOCAL INSTANCE FiniteSetsExt
LOCAL INSTANCE SequencesExt

CONSTANTS Keys, Size(_), SpaceOf(_)

NoValue == <<>>

MapOf(s, n) == IF n = 0 THEN s.durable ELSE s.nodes[n].map

GetObject(s, n, k) == [st |-> s, val |-> MapOf(s, n)[k]]

\* The neighbours of a key among the objects of its own space.
NextObject(s, n, k) ==
    LET after == { j \in Keys : j > k /\ MapOf(s, n)[j] # NoValue /\ SpaceOf(j) = SpaceOf(k) }
    IN  IF after = {} THEN [st |-> s, key |-> 0, val |-> NoValue]
        ELSE [st |-> s, key |-> Min(after), val |-> MapOf(s, n)[Min(after)]]

PrevObject(s, n, k) ==
    LET before == { j \in Keys : j < k /\ MapOf(s, n)[j] # NoValue /\ SpaceOf(j) = SpaceOf(k) }
    IN  IF before = {} THEN [st |-> s, key |-> 0, val |-> NoValue]
        ELSE [st |-> s, key |-> Max(before), val |-> MapOf(s, n)[Max(before)]]

PutObject(s, n, k, v) ==
    LET old == MapOf(s, n)[k]
    IN  [st    |-> [s EXCEPT !.nodes[n].map[k] = v, !.nodes[n].put = @ \cup {k}],
         bytes |-> Size(v) + (IF old = NoValue THEN 1 ELSE -Size(old))]

RemoveObject(s, n, k, tombstone) ==
    LET old == MapOf(s, n)[k]
    IN  [st    |-> IF old = NoValue /\ ~tombstone THEN s
                   ELSE [s EXCEPT !.nodes[n].map[k] = NoValue,
                                  !.nodes[n].put = @ \ {k},
                                  !.nodes[n].gone = @ \cup {k}],
         bytes |-> IF old = NoValue THEN 0 ELSE -(Size(old) + 1)]

MakeChild(s) ==
    [s EXCEPT !.nodes = Append(@, [map |-> MapOf(s, Len(s.nodes)), put |-> {}, gone |-> {}])]

DropTo(s, n) == [s EXCEPT !.nodes = SubSeq(@, 1, n)]

Newest(s) == Len(s.nodes)

\* The newest node replaces its parent.
Squash(s) ==
    LET child  == Last(s.nodes)
        parent == s.nodes[Len(s.nodes) - 1]
        merged == [map  |-> child.map,
                   put  |-> (parent.put \ child.gone) \cup child.put,
                   gone |-> (parent.gone \cup child.gone) \ child.put]
    IN  [s EXCEPT !.nodes = Append(Front(Front(@)), merged)]

\* The map of node n becomes the durable one, or nothing does.
Commit(s, n, ok) ==
    IF ok THEN [s EXCEPT !.durable = MapOf(s, n), !.revision = @ + n,
                         !.nodes = SubSeq(@, n + 1, Len(@))]
    ELSE [s EXCEPT !.lost = TRUE]

Reopen(s) == [s EXCEPT !.nodes = <<>>, !.lost = FALSE]

Lost(s) == s.lost

Revision(s) == s.revision

\* What the receipt lists: a key that was written and removed comes twice.
DeltaEntries(s) ==
    LET node  == Last(s.nodes)
        slots == [i \in 1 .. 2 * Max(Keys) |->
                     [key |-> (i + 1) \div 2, again |-> i % 2 = 0]]
        used  == SelectSeq(slots, LAMBDA e : IF e.again THEN e.key \in node.put \cap node.gone
                                             ELSE e.key \in node.put \cup node.gone)
    IN  [i \in DOMAIN used |-> [key |-> used[i].key, val |-> node.map[used[i].key]]]

View(s, n) == MapOf(s, n)

===========================================================================
