SPECIFICATION Spec
CONSTANTS
    UAs <- MCUAs
    Headers <- MCHeaders
    Blocks <- MCBlocks
    Files <- NoRules
    Genuine <- MCGenuine
INVARIANT
    KeyDeterminesResult
CHECK_DEADLOCK FALSE
