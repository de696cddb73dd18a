SPECIFICATION Spec
CONSTANTS
    Files <- MCFiles
    Embedded <- MCEmbedded
    Paths <- MCPaths
    Hinted <- MCHinted
    SchemaVersion = 1
    MaxBytes = 1
    MaxRules = 3
    MaxVendorPrefixes = 1
    MaxRegex = 3
    MaxValue = 1
    MaxTestUALen = 3
    MaxTestsPerRule = 3
    MaxTotalTestBytes = 4
INVARIANTS
    AcceptsExactlyTheValid
    ActivePassesItsTests
    SelfTestWorkBounded
