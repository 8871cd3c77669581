SPECIFICATION Spec
CONSTANTS
    Contexts <- OnlyBreak
INVARIANT NothingDocumentedIsRejected
CHECK_DEADLOCK FALSE
