SPECIFICATION NodeLiveSpec
CONSTANTS
    SequenceRange = 2
    MaxRetries = 1
    Operations = {"PING"}
    Inbound <- MCInbound
    MaxFaults = 1
INVARIANTS
    OwnersAgree
PROPERTIES
    NothingIsDisplaced
    OperationExecuted
    ServicesComeRound
