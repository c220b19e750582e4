\* One worker and one thread of the API, two schedules of one market.
SPECIFICATION FairSpec
CONSTANTS
    Schedules = {1, 2}
    Markets = {"btc"}
    MarketOf <- OneMarket
    Invalid = {}
    WithData = {1}
    Manual = {2}
    Limited = {1}
    Workers = {w1}
    Threads = {t1}
    RowIds = {1, 2, 3}
    Bankroll = 2
    Costs = {1, 3}
    Proceeds = {1}
    MaxOrders = 3
    MaxLosses = 1
INVARIANTS TypeOK CashNeverNegative CashMatchesOrders RowsArePaid RowsPerProcess
PROPERTIES WaitsOrBlocked
