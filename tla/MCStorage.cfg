SPECIFICATION MCSpec
CONSTANTS
    HalfRange = 4
    Values = {free, v1, v2}
    Initial = free
    NoValue = none
    Drafts <- MCDrafts
    Stored <- MCStored
    FirstGenerations = {1, 4, 7}
    MaxFaults = 2
    MaxRequests = 4
    MaxCuts = 2
INVARIANTS
    PowerCutIsSafe
    ViewIsFlash
PROPERTIES
    ImplementsAtomicCell
    ResetIsWhole
CHECK_DEADLOCK FALSE
