SPECIFICATION Spec
CONSTANTS
    Node = {0, 1, 2, 3, 4, 5, 6}
    Genesis = 0
    NoNode = NoNode
    Timestamp <- MCTimestamp
    Signer <- MCSigner
    Thread = {t1, t2, t3}
    Previous <- MCPrevious
    Height <- MCHeight
    Threshold = 1
INVARIANT
    NoHeadDesync
