SPECIFICATION Spec
CONSTANTS
    Worker = {w1, w2, w3}
    Target = 7
    QueueSize = 2
    FirstBatch = 1
    MaxBatch = 4
INVARIANTS
    CheckedBySuccessor
    NothingLost
PROPERTIES
    ImplementsJob
