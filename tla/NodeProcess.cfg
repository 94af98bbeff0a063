SPECIFICATION Spec
CONSTANTS
    MaxHeight = 2
    Paths = {1, 2}
    ConfigProducer = TRUE
    Configs <- MCConfigs
    MaxEvents = 3
INVARIANTS
    ServesWholeChain
    ObserverFirst
    
PROPERTIES
    OldStateKept
    RequestServed
