SPECIFICATION Spec
CONSTANTS
    Parsers = {p1, p2}
    Hosts = {h1}
    Updater = upd
    Keys = {k1, k2}
    Capacity = 1
    MaxRegex = 1
    MaxCorr = 2
    NTests = 0
    Breaks <- MCBreaks
SYMMETRY Symmetry
INVARIANTS
    FreshCache
    NoSupersededAnswer
    NoSupersededRules
