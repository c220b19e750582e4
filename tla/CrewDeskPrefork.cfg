\* Two worker processes (docker-compose: `celery worker`, prefork), two symbols.
SPECIFICATION Spec
CONSTANTS
    Workers = {w1, w2}
    Symbols = {btc, eth}
    ThesisIds = {1, 2}
    RowIds = {r1, r2, r3, r4}
    Bankroll = 2
    Costs = {1, 3}
    Proceeds = {1}
    MaxOpenPositions = 1
    MaxTradesPerDay = 2
    PatchStatuses = {}
    PatchSwitches = {}
    Expiring = {}
    MaxManualResets = 0
    MaxFailures = 0
SYMMETRY DeskSymmetry
INVARIANTS CashNeverNegative TradesWithinAllowance OpenWithinAllowance
