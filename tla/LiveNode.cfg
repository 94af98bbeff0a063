CONSTANTS
    Block <- MCBlock
    Genesis = "g"
    Previous <- MCPrevious
    Height <- MCHeight
    MaxBlockRequest = 5
    NoBlock = "none"
    BlockSigner <- MCBlockSigner
    Transactions <- MCTransactions
    Trx <- MCTrx
    Involved <- MCInvolved
    Upload <- MCUpload
    Addresses <- MCAddresses
    NoAbi = "no_abi"
    Signature <- MCSignature
    DisconnectAt = 3
    ReconnectBelow = 2
    MaxForks = 3
    Threshold = 1
    Peer = {"p"}
    NextHeads <- MCNextHeads
    Checkpoint = "a1"
    BatchSize = 2
    Recent = {"a1", "a2", "a3", "o2", "x2"}
    Own = {"o2", "x2"}
    Pending <- MCPending
    Failing = {"fails"}
    Slots = {1, 2}
    Budget = 2
    Resource = {"disk", "compute"}
    ResourceLimit <- MCResourceLimit
    LowerBound = 75
    UpperBound = 90
    MaxInclusion = 4
    Usage <- MCUsage
    RcLimit <- MCRcLimit
SPECIFICATION Spec
INVARIANTS
    StoreFollowsChain
    
    
    

    
\* A node whose only peer is barred has nothing to do.
CHECK_DEADLOCK FALSE
