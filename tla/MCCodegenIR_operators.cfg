SPECIFICATION Spec
CONSTANTS
    Constructs <- ShortCircuit
    FuncKinds <- WithResultOrMain
    MaxTrail = 4
    MaxWarnings = 0
INVARIANTS
    SkippedOperandReachesPhi
    FinishedBlocksTerminated
    FinishedTargetsInserted
    LiveAgrees
PROPERTY CleanupKeepsLiveCode
