CONSTANTS
    Keys <- MCKeys
    SpaceOf <- MCSpaceOf
    Zone <- MCZone
    DispatchKey <- MCDispatchKey
    CodeKey <- MCCodeKey
    MetaKey <- MCMetaKey
    NonceKey <- MCNonceKey
    Size <- MCSize
    GenesisDisk <- MCGenesisDisk
    Script <- MCScript
    Compute <- MCCompute
    Transactions <- MCTransactions
    Limit <- MCLimit
    Price <- MCPrice
    CacheSize = 6
    BlockKey = 1
    ConfigKey = 2
    Overridable = {"event", "consume_account_rc"}
    Genesis = "g"
    MaxRc = 100
    StackLimit = 12
    Bodies <- MCBodies
    Contracts = {"u", "s"}
    PendingNonces <- MCPendingNonces
    ReadLimit = 30
    Threshold = 1
    MaxHeight = 2
    MaxSpent = 2
SPECIFICATION Spec
PROPERTY LedgerSpec
INVARIANT AllOrNothing
INVARIANT ComputeAddsUp
PROPERTY OverridesWait
PROPERTY ReplaysAgree
