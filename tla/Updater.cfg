SPECIFICATION FairSpec
CONSTANTS
    GoodRegex <- MCGood
    GoodCorrections <- MCGood
    FetchCorrections = TRUE
    MaxPublish = 3
    MaxPush = 1
    MaxPanics = 3
    MaxBackoff = 3
INVARIANTS
    NotModifiedIsSafe
    AtMostOneInstallAfterClose
    CrashOnlyAtStartup
PROPERTIES
    KeepLastGood
    StopsAfterClose
    NewestInstalled
CHECK_DEADLOCK FALSE
