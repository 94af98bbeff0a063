SPECIFICATION Spec
CONSTANTS
    Obj = {"a", "b", "c"}
    MaxId = 2
    Files <- MCFiles
    ConfigObj = "a"
    LocalRetention = 1
    RemoteRetention = 1
    PublicRetention = 1
    Requests <- MCRequests
    Publishing = TRUE
    MaxAttempts = 2
    MaxOps = 2
    MaxEvents = 1
    Held = 1
    Heights = {1}
    MinProgress = 1
INVARIANTS
    OwnSnapshotsWhole
    StagedIsWhole
PROPERTIES
    RemoteKeepsObjects
    UploadedIsWhole
    OperationsFinish
CHECK_DEADLOCK FALSE
