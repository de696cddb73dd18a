SPECIFICATION FairSpec
CONSTANTS
    s1 = s1
    s2 = s2
    plain = plain
    Sources = {s1, s2, plain}
    NoSource = noSource
    NodeCalls = {c1, c2}
    NoCall = noCall
    NodeConfigs <- MCNodeConfigs
    PlainSources = {plain}
    Latest <- MCLatest
    BadFiles <- MCBadFiles
    Slots = {d1, d2}
    Objects = {o1, o2}
    PageCalls = {l1, l2}
    PageConfigs <- MCPageConfigs
    DefaultConfig <- MCDefaultConfig
    MaxRuntimes = 2
    MaxEngines = 2
INVARIANTS
    ServedByResolved
    OneInstanceUnlessOverlap
    OwnRules
    ServedAsConfigured
    CollectedAsAllowed
PROPERTIES
    NewestInTheEnd
CHECK_DEADLOCK FALSE
