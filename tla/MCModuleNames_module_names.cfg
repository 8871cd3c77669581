SPECIFICATION Spec
CONSTANTS
    Names <- MCNames
    MaxGlobals = 3
    MaxParams = 1
INVARIANTS TypeOK CallsRunTheirFunction WrapperRunsMain OnlyClashesFail
PROPERTIES LinkSpec
