SPECIFICATION FairSpec
CONSTANTS
    Threads = {t1, t2}
    Nobody = nobody
    Addrs = {a1, a2}
    Configs = {c1, c2, badConfig}
    GoodConfigs = {c1, c2}
    Payloads = {p, badPayload}
    GoodPayloads = {p}
    Files = {f, badFile}
    GoodFiles = {f}
INVARIANTS
    InitializedStays
    ReadsOwnAnswer
    EachStringFreed
PROPERTIES
    FirstInitWins
    CallsReturn
\* A process that has crashed takes no step.
CHECK_DEADLOCK FALSE
