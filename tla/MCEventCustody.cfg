SPECIFICATION CustodySpec
CONSTANTS
    Capacity = 2
    OrdinalBlock = 1
    MaxOrdinal = 4
    Epochs = {1}
    Ids = {1, 2, 3, 4}
    Contents = {c1}
    NoContent = none
    NodeCapacity = 2
    IdBlock = 1
    MaxId = 4
    MaxEpoch = 1
    MaxAttempts = 2
    Lifetime = 1
    MaxFaults = 1
INVARIANTS
    EventIsSomewhere
    AdmittedOnceInOrder
CHECK_DEADLOCK FALSE
