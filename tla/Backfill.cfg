\* Two workers, one caller of the queue, three tasks, one of them may be lost; the exchange
\* may return the candle twice in one download.
SPECIFICATION FairSpec
CONSTANTS
    Markets = {1, 2}
    Candles = {c1}
    Workers = {w1, w2}
    Callers = {q1}
    MaxActive = 2
    BatchSize = 2
    ReadyRows = 1
    FullRows = 2
    MaxRepeats = 2
    MaxSent = 3
    MaxLosses = 1
INVARIANTS TypeOK PendingHasTask CountsAreBacked CopiesPerWorker
PROPERTIES Decided
CHECK_DEADLOCK FALSE
