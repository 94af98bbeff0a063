---------------------------- MODULE BlockProducer ----------------------------
(***************************************************************************)
(* How the block producer fills and trims a block (block_producer.cpp):    *)
(* pending transactions are taken in the mempool's order until a lower     *)
(* bound of any resource is reached, and only those that stay within the   *)
(* upper bound of every resource.                                          *)
(***************************************************************************)
EXTENDS Naturals, Sequences, FiniteSets

LOCAL INSTANCE SequencesExt

CONSTANTS
    Resource,      \* disk storage, network bandwidth, compute bandwidth
    ResourceLimit, \* get_resource_limits, of each resource
    LowerBound,    \* resources_lower_bound, in percent
    UpperBound,    \* resources_upper_bound, in percent
    MaxInclusion,  \* max_inclusion_attempts
    Usage,         \* of each transaction: what it uses of each resource
    RcLimit        \* header().rc_limit() of each transaction

ASSUME BoundsAssumption ==
    LowerBound \in 0 .. 100 /\ UpperBound \in 0 .. 100 /\ LowerBound <= UpperBound

Share(r, percent) == (ResourceLimit[r] * percent) \div 100

\* What a sequence of transactions uses.
TotalUsage(trxs) ==
    [r \in Resource |-> FoldLeft(LAMBDA sum, t : sum + Usage[t][r], 0, trxs)]

WithinUpperBound(trxs) == \A r \in Resource : TotalUsage(trxs)[r] <= Share(r, UpperBound)

ReachesLowerBound(trxs) == \E r \in Resource : TotalUsage(trxs)[r] >= Share(r, LowerBound)

\* The pending transactions that the loop of fill_block looks at.
Attempted(pending) ==
    IF Len(pending) <= MaxInclusion THEN pending ELSE SubSeq(pending, 1, MaxInclusion)

\* Mutant: the bound is looked at after the transaction is in.
FillBlockUnbounded(pending) ==
    FoldLeft(LAMBDA trxs, t :
                IF ReachesLowerBound(trxs) \/ RcLimit[t] = 0 THEN trxs ELSE Append(trxs, t),
             <<>>, Attempted(pending))

\* fill_block.
FillBlock(pending) ==
    FoldLeft(LAMBDA trxs, t :
                IF \/ ReachesLowerBound(trxs)
                   \/ RcLimit[t] = 0
                   \/ ~WithinUpperBound(Append(trxs, t))
                THEN trxs ELSE Append(trxs, t),
             <<>>, Attempted(pending))

\* submit_block, when the chain answers with failed indices: they are cut out.
Trim(trxs, failed) == SelectSeq(trxs, LAMBDA t : t \notin failed)
=============================================================================
