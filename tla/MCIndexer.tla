----------------------------- MODULE MCIndexer -----------------------------
(* Instance of Indexer for TLC: up to three workers, batches of 1, 2, 4 and a queue of 2. *)
EXTENDS Indexer
=============================================================================
