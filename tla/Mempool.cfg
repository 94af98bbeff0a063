SPECIFICATION Spec
CONSTANTS
    Node = {0, 1, 2, 3, 10, 11, 12, 13}
    Genesis = 0
    NoNode = NoNode
    Timestamp <- MCTimestamp
    Signer <- MCSigner
    TmpId <- MCTmpId
    Previous <- MCPrevious
    Tx = {"a", "b", "c"}
    Payer <- MCPayer
    Nonce <- MCNonce
    Limit <- MCLimit
    Contents <- MCContents
    Budget = {3, 4}
    Expiration = 1
    MaxTime = 1
    MaxSeq = 3
    Depth = 1
INVARIANTS
    RelevantNodes
    
PROPERTIES
    AcceptedLeavesRest
