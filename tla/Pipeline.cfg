SPECIFICATION Spec
CONSTANTS
    UAs <- MCUAs
    Headers <- MCHeaders
    Blocks <- MCBlocks
    Files <- MCFiles
    Genuine <- MCGenuine
INVARIANTS
    TypeOK
    MajorMatchesVersion
    BotAgreement
    CorrectionsTerminal
    GenuineNotSpoofed
    SameKeySameResult
    DeviceAgrees
CHECK_DEADLOCK FALSE
