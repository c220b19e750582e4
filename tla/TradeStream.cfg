\* Four entries, a stream that keeps two, two deaths of the writer.
SPECIFICATION FairSpec
CONSTANTS
    Trades = {a, b}
    WithId = {a}
    MaxLen = 2
    BatchSize = 2
    MaxPublished = 4
    MaxCrashes = 2
INVARIANTS TypeOK StoredOnce AckedIsStored TicksMatchRows
PROPERTIES ImplementsIngest NothingSkipped CaughtUp
CHECK_DEADLOCK FALSE
