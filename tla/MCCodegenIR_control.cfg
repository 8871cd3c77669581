SPECIFICATION Spec
CONSTANTS
    Constructs <- ControlFlow
    FuncKinds <- AllKinds
    MaxTrail = 5
    MaxWarnings = 1
INVARIANTS
    TypeOK
    BreakLeavesInnermostLoop
    FinishedBlocksTerminated
    FinishedTargetsInserted
    LiveAgrees
PROPERTIES
    OneWarningPerFunction
    MissingReturnIsReported
    CleanupKeepsLiveCode
