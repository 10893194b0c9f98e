SPECIFICATION FairDeliverySpec
CONSTANTS
    Capacity = 2
    IdBlock = 2
    MaxId = 3
    MaxEpoch = 1
    MaxAttempts = 2
    Lifetimes = {3}
    Contents = {c1}
    NoContent = none
    Checkpoint = 2
    ClockRange = 3
    MaxGap = 2
    AdmissionTimeout = 1
    Backoff <- MCBackoff
    Jitters = {0}
    HistoryLimit = 0
PROPERTIES QueuedEventEnds RadioReturns
