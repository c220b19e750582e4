\* What the trace text of an expired thesis says.
SPECIFICATION Spec
CONSTANTS
    Workers = {w1}
    Symbols = {btc}
    ThesisIds = {1, 2}
    RowIds = {1, 2}
    Bankroll = 1
    Costs = {1}
    Proceeds = {1}
    MaxOpenPositions = 1
    MaxTradesPerDay = 2
    PatchStatuses = {"cancelled"}
    PatchSwitches <- OneSwitchOff
    Expiring = {1, 2}
    MaxManualResets = 1
    MaxFailures = 1
PROPERTIES ExpiredNeverEntered
