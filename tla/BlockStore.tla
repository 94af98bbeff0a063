----------------------------- MODULE BlockStore -----------------------------
(***************************************************************************)
(* The block store (block_store/block_store.cpp, skip_list.hpp): a record  *)
(* for each block with pointers to ancestors at power of two distances,    *)
(* and the topology of the highest block.  A store is a record             *)
(*     previous  the pointers of each stored block, nearest first          *)
(*     highest   the block that the metadata names, Genesis at first       *)
(* and an operation maps stores to stores.  Every operation runs under the *)
(* store's own mutex; the two writes of add_block are durable one by one.  *)
(***************************************************************************)
EXTENDS Naturals, Sequences, FiniteSets

LOCAL INSTANCE SequencesExt
LOCAL INSTANCE FiniteSetsExt

CONSTANTS
    Block,
    Genesis,          \* the zero multihash, the parent of the first block
    Previous,         \* header().previous() of each block
    Height,           \* header().height() of each block, 0 for Genesis
    MaxBlockRequest   \* max_block_request

ASSUME BlocksAssumption ==
    /\ Previous \in [Block -> Block \cup {Genesis}]
    /\ Height \in [Block \cup {Genesis} -> Nat]
    /\ Height[Genesis] = 0 /\ \A b \in Block : Height[b] = Height[Previous[b]] + 1

Node == Block \cup {Genesis}

\* What a lookup throws.
Failure == {"block_not_present", "unexpected_height", "invalid_argument"}

\* initialize on an empty database.
EmptyBlockStore == [previous |-> [b \in {} |-> <<>>], highest |-> Genesis]

Held(bs) == DOMAIN bs.previous

---------------------------------------------------------------------------
(* The skip list *)

\* std::countr_zero, of the height of each block.
CountrZero == [h \in {Height[b] : b \in Block} |-> Max({i \in 0 .. h : h % (2 ^ i) = 0})]

\* get_previous_heights.
GetPreviousHeights(h) ==
    IF h = 0 THEN <<>> ELSE [i \in 1 .. CountrZero[h] + 1 |-> h - 2 ^ (i - 1)]

\* Mutant: the last pointer is taken even when it jumps past the goal.
GetPreviousHeightIndexLast(goal, current) == CountrZero[current] + 1

\* get_previous_height_index: the longest jump that does not pass the goal.
GetPreviousHeightIndex(goal, current) ==
    Max({i \in 1 .. CountrZero[current] + 1 : current - 2 ^ (i - 1) >= goal})

\* get_ancestor_id_at_height: a block, Genesis, or what is thrown.
GetAncestorIdAtHeight(bs, id, target) ==
    LET walk[b \in Node] ==
        IF b \notin Held(bs) THEN "block_not_present"
        ELSE IF Height[b] = target THEN b
        ELSE IF Height[b] < target THEN "invalid_argument"
        ELSE LET i    == GetPreviousHeightIndex(target, Height[b])
                 h    == Height[b] - 2 ^ (i - 1)
                 next == bs.previous[b][i]
             IN  IF i > Len(bs.previous[b]) THEN "unexpected_height"
                 ELSE IF h = target THEN next
                 ELSE IF next \in Held(bs) /\ Height[next] # h THEN "unexpected_height"
                 ELSE walk[next]
    IN  walk[id]

\* The pointers that add_block builds for a block.
Pointers(bs, b) ==
    [i \in DOMAIN GetPreviousHeights(Height[b]) |->
        LET h == GetPreviousHeights(Height[b])[i]
        IN  IF h = Height[b] - 1 THEN Previous[b]
            ELSE GetAncestorIdAtHeight(bs, Previous[b], h)]

---------------------------------------------------------------------------
(* Writing *)

\* A block it has is left alone; one whose ancestors it does not have is dropped
\* without an error.
Ignored(bs, b) == b \in Held(bs) \/ Range(Pointers(bs, b)) \cap Failure # {}

\* The first write of add_block.
PutRecord(bs, b) ==
    IF Ignored(bs, b) THEN bs ELSE [bs EXCEPT !.previous = (b :> Pointers(bs, b)) @@ @]

\* add_block, with both of its writes.
AddBlock(bs, b) ==
    IF Ignored(bs, b) \/ Height[b] <= Height[bs.highest] THEN PutRecord(bs, b)
    ELSE [PutRecord(bs, b) EXCEPT !.highest = b]

\* What a process that dies inside add_block can leave.
AddBlockCut(bs, b) == {bs, PutRecord(bs, b), AddBlock(bs, b)}

---------------------------------------------------------------------------
(* Reading *)

\* fill_blocks: from a block down to its ancestors.
FillBlocks(bs, id, count) ==
    LET fill[b \in Node, n \in 0 .. count] ==
            IF n = 0 \/ b \notin Held(bs) THEN <<>>
            ELSE <<b>> \o fill[bs.previous[b][1], n - 1]
    IN  fill[id, count]

\* get_blocks_by_height: the blocks from a height upwards on the way to a block,
\* none when the way is not found.  A height above the block is an error, which
\* is thrown to the caller.
GetBlocksByHeight(bs, head, start, num) ==
    LET count == Min({num, MaxBlockRequest})
        first == GetAncestorIdAtHeight(bs, head, start)
        last  == GetAncestorIdAtHeight(bs, head, start + count - 1)
        items == IF count = 1 THEN FillBlocks(bs, first, 1)
                 ELSE Reverse(FillBlocks(bs, last, count))
        none  == [thrown |-> FALSE, items |-> <<>>]
    IN  IF start = 0 \/ count = 0 THEN none
        ELSE IF "invalid_argument" \in {first, last} THEN [none EXCEPT !.thrown = TRUE]
        ELSE IF {first, last} \cap Failure # {} THEN none
        ELSE [none EXCEPT !.items = items]

\* get_blocks_by_id, as far as the callers look: the blocks among ids it has.
GetBlocksById(bs, ids) == ids \cap Held(bs)

---------------------------------------------------------------------------
(* What the block store promises *)

\* The way from Genesis up to a block, by the headers alone.
Branch[b \in Node] == IF b = Genesis THEN <<b>> ELSE Append(Branch[Previous[b]], b)

\* The ancestor of a block at a height.
Ancestor(b, h) == Branch[b][h + 1]

\* The blocks above a height on the way to a block.
Path(b, h) == SubSeq(Branch[b], h + 2, Len(Branch[b]))

\* Every answer about a stored block is the one that its headers give, and a block
\* is stored with all of its ancestors.
ServesAncestors(bs) ==
    /\ bs.highest \in Held(bs) \cup {Genesis}
    /\ \A b \in Held(bs) :
          /\ Previous[b] \in Held(bs) \cup {Genesis}
          /\ \A h \in 0 .. Height[b] - 1 : GetAncestorIdAtHeight(bs, b, h) = Ancestor(b, h)
          /\ \A h \in 1 .. Height[b] : \A n \in 1 .. Height[b] - h + 1 :
                GetBlocksByHeight(bs, b, h, n).items
                    = SubSeq(Path(b, h - 1), 1, Min({n, MaxBlockRequest}))
=============================================================================
