SPECIFICATION Spec
CONSTANTS
    Names <- TwoNames
    RtsNames <- RuntimeNames
    Families <- Both
    MaxGlobals = 2
    MaxTrail <- Lengths
INVARIANTS
    TypeOK
    AnnotationsAreLexical
    VerdictIsRight
    NothingLeaksBetweenFunctions
    StacksFollowVisits
    AcceptedHasOneMain
