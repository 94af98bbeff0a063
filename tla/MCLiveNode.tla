------------------------------ MODULE MCLiveNode ------------------------------
(***************************************************************************)
(* A chain a1 - a2 - a3, a branch c1 - c2 beside it, and the blocks o2     *)
(* and, too large for the bounds, x2 that the node itself would make on    *)
(* a1.  The peer gets a1 and then the rest of either branch.               *)
(***************************************************************************)
EXTENDS LiveNode

LOCAL INSTANCE TLC

MCBlock == {"a1", "a2", "a3", "o2", "x2", "c1", "c2"}
MCPrevious == "a1" :> "g" @@ "a2" :> "a1" @@ "a3" :> "a2" @@ "o2" :> "a1" @@ "x2" :> "a1"
    @@ "c1" :> "g" @@ "c2" :> "c1"
MCHeight == "g" :> 0 @@ "a1" :> 1 @@ "a2" :> 2 @@ "a3" :> 3 @@ "o2" :> 2 @@ "x2" :> 2
    @@ "c1" :> 1 @@ "c2" :> 2

MCNextHeads ==
    [b \in MCBlock \cup {"g"} |->
        CASE b = "g" -> {"a1"} [] b = "a1" -> {"a3", "c2"} [] OTHER -> {}]

MCSignature == [b \in MCBlock |-> b]
MCBlockSigner == [b \in MCBlock |-> "alice"]
MCTransactions ==
    [b \in MCBlock |->
        CASE b = "a1" -> <<"u">> [] b = "x2" -> <<"t", "large">> [] OTHER -> <<"t">>]
MCTrx == {"t", "u", "large"}
MCInvolved == [t \in MCTrx |-> {}]
MCUpload == [t \in MCTrx |-> IF t = "u" THEN {"coin"} ELSE {}]
MCAddresses == <<"alice", "coin">>

\* The pending transactions: t, a large one, one that fails and one without a limit.
MCPending == {<<"free", "fails", "t", "large">>}
MCResourceLimit == [r \in {"disk", "compute"} |-> 10]
MCUsage ==
    [t \in {"t", "large", "fails", "free"} |->
        [r \in {"disk", "compute"} |-> IF t = "large" /\ r = "compute" THEN 8 ELSE 2]]
MCRcLimit == [t \in {"t", "large", "fails", "free"} |-> IF t = "free" THEN 0 ELSE 5]
=============================================================================
