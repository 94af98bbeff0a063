SPECIFICATION Spec
CONSTANTS
    Node = {0, 1, 2, 3, 4}
    Genesis = 0
    NoNode = NoNode
    Timestamp <- MCTimestamp
    Signer <- MCSigner
    MaxRevision = 3
INVARIANTS
    TypeOK
    RootedTree
    ForkHeadsSound
    HeadChosen
    
PROPERTIES
    RootOnlyAdvances
    OldestWins
