SPECIFICATION FairSpec
CONSTANTS
    Requests = {r1, r2}
    Characters = {"/", "a", "b", "h", "p", " ", "{"}
    Settings <- MCSettings
INVARIANTS
    CutOnlyByTimeout
    EndpointsServed
PROPERTY
    SignalEndsServer
CHECK_DEADLOCK FALSE
