SPECIFICATION FairSpec
CONSTANTS
    Parsers = {p1, p2}
    Hosts = {h1}
    Updater = upd
    Keys = {k1}
    Capacity = 0
    MaxRegex = 1
    MaxCorr = 2
    NTests = 2
    Breaks <- MCBreaks
INVARIANTS
    ActivePassedTests
PROPERTIES
    CallsReturn
