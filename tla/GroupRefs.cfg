SPECIFICATION RefsSpec
CONSTANTS
    Texts <- MCTexts
    Groups = {0, 1, 12}
    MaxInt = 110
    NumberLimit = 10
INVARIANTS
    ScanAgreesWithExpand
CHECK_DEADLOCK FALSE
