SPECIFICATION FairSpec
CONSTANTS
    Threads = {t1, t2}
    Pusher = pusher
    Nobody = nobody
    Addrs = {a1, a2}
    Payloads = {x, y}
    GoodFiles <- MCGoodFiles
    MaxFiles = 2
    MaxInits = 2
INVARIANTS
    AnswerIsOwn
    NothingLeaked
    AtMostOnePusher
PROPERTY
    NewestRulesReach
