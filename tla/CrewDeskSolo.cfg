\* One worker process (README: `celery worker --pool=solo`) beside the API.
SPECIFICATION FairSpec
CONSTANTS
    Workers = {w1}
    Symbols = {btc}
    ThesisIds = {1, 2}
    RowIds = {1, 2, 3}
    Bankroll = 2
    Costs = {1, 2}
    Proceeds = {1, 3}
    MaxOpenPositions = 2
    MaxTradesPerDay = 3
    PatchStatuses = {"cancelled"}
    PatchSwitches <- OneSwitchOff
    Expiring = {1}
    MaxManualResets = 1
    MaxFailures = 1
INVARIANTS TypeOK RowsPerSymbol BookBalances OneLiveThesis EnteredHasPosition
PROPERTIES EndedStaysEnded OverdueRetires
