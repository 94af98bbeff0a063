---------------------------- MODULE MCController ----------------------------
(* Instance of Controller for TLC: a main chain 1, 3, 5 and a rival branch 2, 4, 6. *)
EXTENDS Controller, TLC

\* 1 and 2 were produced by one signer for the same parent; 4 is older than 3.
MCPrevious == 1 :> 0 @@ 2 :> 0 @@ 3 :> 1 @@ 4 :> 2 @@ 5 :> 3 @@ 6 :> 4
MCHeight == 0 :> 0 @@ 1 :> 1 @@ 2 :> 1 @@ 3 :> 2 @@ 4 :> 2 @@ 5 :> 3 @@ 6 :> 3
MCTimestamp == 0 :> 0 @@ 1 :> 1 @@ 2 :> 2 @@ 3 :> 4 @@ 4 :> 3 @@ 5 :> 5 @@ 6 :> 5
MCSigner == 0 :> "none" @@ 1 :> "s" @@ 2 :> "s" @@ 3 :> "t" @@ 4 :> "u" @@ 5 :> "s" @@ 6 :> "s"
=============================================================================
