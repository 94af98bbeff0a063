----------------------------- MODULE MCMempool -----------------------------
(* Instance of Mempool for TLC: block 1 with its child 3, and a rival 2. *)
EXTENDS Mempool, TLC

MCTmpId == 0 :> 10 @@ 1 :> 11 @@ 2 :> 12 @@ 3 :> 13
MCPrevious == 1 :> 0 @@ 2 :> 0 @@ 3 :> 1
MCTimestamp == [n \in Node |-> IF n = 2 THEN 1 ELSE 2]
MCSigner == [n \in Node |-> IF n \in {1, 2} THEN "s" ELSE "t"]

\* a and c are rivals for one nonce of an account; b is its next transaction.
MCPayer == "a" :> "p" @@ "b" :> "p" @@ "c" :> "p"
MCNonce == "a" :> 1 @@ "b" :> 2 @@ "c" :> 1
MCLimit == "a" :> 1 @@ "b" :> 3 @@ "c" :> 1
MCContents == 1 :> {"a"} @@ 2 :> {"b", "c"} @@ 3 :> {"b"}
=============================================================================
