\* What the schedules say.
SPECIFICATION FairSpec
CONSTANTS
    Schedules = {1, 2}
    Markets = {"btc"}
    MarketOf <- OneMarket
    Invalid = {}
    WithData = {1, 2}
    Manual = {2}
    Limited = {}
    Workers = {w1}
    Threads = {t1}
    RowIds = {1, 2}
    Bankroll = 1
    Costs = {1}
    Proceeds = {1}
    MaxOrders = 3
    MaxLosses = 0
PROPERTIES DueRuns
