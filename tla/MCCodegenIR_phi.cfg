SPECIFICATION Spec
CONSTANTS
    Constructs <- Logical
    FuncKinds <- AllKinds
    MaxTrail = 4
    MaxWarnings = 1
INVARIANT PhiNamesItsPredecessors
