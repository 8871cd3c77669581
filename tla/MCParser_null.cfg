SPECIFICATION Spec
CONSTANTS
    Contexts <- OnlyOperations
INVARIANT NoMissingOperand
CHECK_DEADLOCK FALSE
