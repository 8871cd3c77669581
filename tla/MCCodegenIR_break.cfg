SPECIFICATION Spec
CONSTANTS
    Constructs <- LoopWithBreak
    FuncKinds <- AllKinds
    MaxTrail = 4
    MaxWarnings = 1
INVARIANT VerifierAccepts
