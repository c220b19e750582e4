SPECIFICATION Spec
CONSTANTS
    Runs = {r1}
    Clicks = {c1, c2}
    Manual = {m1}
    LastAsset = 3
    SymbolOf <- TwoSymbols
    MaxSymbols = 2
    MaxTrades = 1
INVARIANTS RunsAreWhole TradesNearAllowance
PROPERTY RequestsEnd
CHECK_DEADLOCK FALSE
