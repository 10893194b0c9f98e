SPECIFICATION DeliverySpec
CONSTANTS
    Capacity = 2
    IdBlock = 1
    MaxId = 4
    MaxEpoch = 1
    MaxAttempts = 2
    Lifetimes = {3}
    Contents = {c1}
    NoContent = none
    Checkpoint = 2
    ClockRange = 3
    MaxGap = 2
    AdmissionTimeout = 1
    Backoff <- MCBackoff
    Jitters = {0}
    HistoryLimit = 7
INVARIANTS TransmissionsAreCounted NeverExpiresEarly
PROPERTIES TransmitsOldest
