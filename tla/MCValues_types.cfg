SPECIFICATION ValuesSpec
CONSTANTS
    Globals <- MCGlobals
    Functions <- MCFunctions
    MaxNodes = 6
    MaxOperands = 2
INVARIANTS ValuesTypeOK VerdictIsRight CodeFitsTypes AccessesReachVariables
CHECK_DEADLOCK FALSE
