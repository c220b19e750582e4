\* What the tasks that store candles say of duplicates: one worker is enough.
SPECIFICATION Spec
CONSTANTS
    Markets = {1}
    Candles = {c1}
    Workers = {w1}
    Callers = {q1}
    MaxActive = 1
    BatchSize = 1
    ReadyRows = 1
    FullRows = 2
    MaxRepeats = 1
    MaxSent = 2
    MaxLosses = 0
INVARIANTS NoDuplicates
CHECK_DEADLOCK FALSE
