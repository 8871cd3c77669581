SPECIFICATION Spec
CONSTANTS
    Contexts <- All
INVARIANTS
    TypeOK
    LanguageIsRight
    ErrorsAreFinal
    NothingIsLost
    StructureIsRight
CHECK_DEADLOCK FALSE
