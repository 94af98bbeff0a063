------------------------------ MODULE IndexJob ------------------------------
(***************************************************************************)
(* What indexer::index promises the node: the blocks that the block store  *)
(* has and the chain has not are applied one after the other, and the      *)
(* future it returns gets one outcome: true once the target is reached,    *)
(* false if the node is stopped first, an exception if a block fails.      *)
(* After an outcome the indexer applies nothing.                           *)
(***************************************************************************)
EXTENDS Naturals

CONSTANT Target  \* height of the highest block of the block store

VARIABLES
    head,    \* height of the chain's head block
    promise  \* _complete: "unset", or the outcome that was set

jobVars == <<head, promise>>

Outcome == {"true", "false", "error"}

Init == head \in Nat /\ promise = "unset"

Advance ==
    /\ promise = "unset" /\ head < Target
    /\ head' = head + 1
    /\ UNCHANGED promise

Succeed == promise = "unset" /\ head >= Target /\ promise' = "true" /\ UNCHANGED head

Cancel == promise = "unset" /\ promise' \in {"false", "error"} /\ UNCHANGED head

Next == Advance \/ Succeed \/ Cancel

Safety == Init /\ [][Next]_jobVars

Spec == Safety /\ WF_jobVars(Advance \/ Succeed)
=============================================================================
