SPECIFICATION HubLiveSpec
CONSTANTS
    SequenceRange = 2
    MaxRetries = 1
    Operations = {"PING"}
    Inbound <- MCInbound
    MaxFaults = 1
INVARIANTS
    OwnershipAgrees
PROPERTIES
    TrafficIsHarmless
    TransactionsEnd
    ReceivesAgain
