SPECIFICATION SourcesSpec
CONSTANTS
    Workers = {w1, w2}
    Period = 3
    LastFile = 2
    Unavailable = {0}
    Content <- ThreeKinds
    Asked <- TwoImports
    GapLists <- ThreeGaps
    MaxRanges = 2
    MaxTasks = 3
    MaxBreaks = 1
    Symbols = {"btc", "eth", "sol"}
    Initial = {"btc"}
    MaxDelay = 4
    MaxCommands = 3
    MaxFailures = 3
INVARIANT NoDuplicateTicks
CHECK_DEADLOCK FALSE
