\* What the refusal of the queue says.
SPECIFICATION Spec
CONSTANTS
    Markets = {1, 2}
    Candles = {c1, c2}
    Workers = {w1, w2}
    Callers = {q1}
    MaxActive = 1
    BatchSize = 2
    ReadyRows = 1
    FullRows = 2
    MaxRepeats = 1
    MaxSent = 3
    MaxLosses = 0
INVARIANTS ThrottledByTasks
CHECK_DEADLOCK FALSE
