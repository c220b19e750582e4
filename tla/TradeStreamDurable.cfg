\* What the comment of the stream says.
SPECIFICATION TendedSpec
CONSTANTS
    Trades = {a, b}
    WithId = {a}
    MaxLen = 2
    BatchSize = 2
    MaxPublished = 4
    MaxCrashes = 2
PROPERTIES DeliveredIsStored
CHECK_DEADLOCK FALSE
