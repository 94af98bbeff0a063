--------------------------- MODULE AcceptedIndexes ---------------------------
(***************************************************************************)
(* The stores that follow koinos.block.accept: the contract metadata store *)
(* (contract_meta_store.cpp), the transaction store (transaction_store.cpp)*)
(* and the account history (account_history.cpp).  Each is a column family *)
(* of one database; together they are a record                             *)
(*     abi       the ABI of each contract, NoAbi for none                  *)
(*     trx       the containing_blocks of each transaction                 *)
(*     next      the sequence number that "meta:" holds for each address   *)
(*     history   the records of each address, by sequence number           *)
(* A handler makes several writes, each durable by itself.                 *)
(***************************************************************************)
EXTENDS Naturals, Sequences, FiniteSets

LOCAL INSTANCE SequencesExt
LOCAL INSTANCE Functions
LOCAL INSTANCE TLC

CONSTANTS
    BlockSigner,    \* header().signer() of each block
    Transactions,   \* the ids of the transactions of each block, in order
    Trx,
    Involved,       \* of each transaction: payer, payee and the contracts it calls
    Upload,         \* the contracts that each transaction uploads
    Addresses,      \* every address, in the order of std::set
    NoAbi

Address == Range(Addresses)

EmptyIndexes ==
    [abi     |-> [a \in Address |-> NoAbi],
     trx     |-> [t \in Trx |-> <<>>],
     next    |-> [a \in Address |-> 0],
     history |-> [a \in Address |-> [n \in {} |-> NoAbi]]]

\* The addresses that the account history takes a block to impact.
Impacted(b) ==
    {BlockSigner[b]}
        \cup UNION {Involved[t] \cup Upload[t] : t \in Range(Transactions[b])}

---------------------------------------------------------------------------
(* One write each *)

\* handle_block_accepted of the contract metadata store, for one upload.  The
\* ABI is named after the transaction that carries it.
PutAbi(ix, t, c) == [ix EXCEPT !.abi[c] = t]

\* add_included_transaction.
AddIncludedTransaction(ix, t, b) ==
    IF b \in Range(ix.trx[t]) THEN ix ELSE [ix EXCEPT !.trx[t] = Append(@, b)]

\* next_sequence.
NextSequence(ix, a) == [ix EXCEPT !.next[a] = @ + 1]

\* Mutant: the record goes to the number that the next block will get.
StoreRecordLate(ix, a, b) == [ix EXCEPT !.history[a] = (ix.next[a] :> b) @@ @]

\* store_record, under the number that next_sequence has just given out.
StoreRecord(ix, a, b) == [ix EXCEPT !.history[a] = (ix.next[a] - 1 :> b) @@ @]

---------------------------------------------------------------------------

\* The writes that the three handlers make for each block, in the order in which
\* the event bus calls them.
IndexWrites ==
    LET uploads(t) == SelectSeq(Addresses, LAMBDA c : c \in Upload[t])
        abis(t)    == [i \in DOMAIN uploads(t) |-> <<"abi", t, uploads(t)[i]>>]
        rows(b)    == SelectSeq(Addresses, LAMBDA a : a \in Impacted(b))
    IN  [b \in DOMAIN Transactions |->
            FlattenSeq([i \in DOMAIN Transactions[b] |-> abis(Transactions[b][i])])
                \o [i \in DOMAIN Transactions[b] |-> <<"trx", Transactions[b][i]>>]
                \o FlattenSeq([i \in DOMAIN rows(b) |->
                        <<<<"next", rows(b)[i]>>, <<"record", rows(b)[i]>>>>])]

IndexWrite(ix, b, w) ==
    CASE w[1] = "abi"    -> PutAbi(ix, w[2], w[3])
      [] w[1] = "trx"    -> AddIncludedTransaction(ix, w[2], b)
      [] w[1] = "next"   -> NextSequence(ix, w[2])
      [] w[1] = "record" -> StoreRecord(ix, w[2], b)

\* The first n writes for a block.
Indexed(ix, b, n) ==
    LET after[k \in 0 .. n] ==
            IF k = 0 THEN ix ELSE IndexWrite(after[k - 1], b, IndexWrites[b][k])
    IN  after[n]

\* The block is accepted, and every handler returns.
IndexBlock(ix, b) == Indexed(ix, b, Len(IndexWrites[b]))

\* What a process that dies among the handlers can leave.
IndexCuts(ix, b) == {Indexed(ix, b, n) : n \in 0 .. Len(IndexWrites[b])}

---------------------------------------------------------------------------
(* Queries *)

\* get_account_history, ascending from a sequence number: the records it returns.
GetAccountHistory(ix, a, from, limit) ==
    LET rows == {n \in DOMAIN ix.history[a] : n >= from}
    IN  [n \in {r \in rows : Cardinality({m \in rows : m < r}) < limit} |-> ix.history[a][n]]

\* A block is where each query looks for it.
FindsBlock(ix, b) ==
    /\ \A t \in Range(Transactions[b]) :
          b \in Range(ix.trx[t]) /\ \A c \in Upload[t] : ix.abi[c] # NoAbi
    /\ \A a \in Impacted(b) : b \in Range(GetAccountHistory(ix, a, 0, ix.next[a]))
=============================================================================
