----------------------------- MODULE MCStateDb -----------------------------
(* Instance of StateDb for TLC: five ids hung together in every possible way. *)
EXTENDS StateDb, TLC

\* Ids 1 and 2 are rivals of one signer; 3 is older than 2, and 4 ties with 3.
MCTimestamp == 0 :> 0 @@ 1 :> 1 @@ 2 :> 3 @@ 3 :> 2 @@ 4 :> 2
MCSigner == 0 :> "none" @@ 1 :> "s" @@ 2 :> "s" @@ 3 :> "t" @@ 4 :> "s"
=============================================================================
