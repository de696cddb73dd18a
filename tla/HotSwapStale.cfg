SPECIFICATION Spec
CONSTANTS
    Parsers = {p1}
    Hosts = {h1}
    Updater = upd
    Keys = {k1}
    Capacity = 1
    MaxRegex = 1
    MaxCorr = 0
    NTests = 0
    Breaks <- MCBreaks
INVARIANT NoStaleAfterPurge
