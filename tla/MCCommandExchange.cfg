SPECIFICATION Spec
CONSTANTS
    SequenceRange = 2
    MaxRetries = 1
    Operations = {"PING", "SET_INDICATOR"}
    Capacity = 2
    MaxCommands = 4
    MaxRestarts = 1
    MaxFaults = 1
INVARIANTS
    ExecutedOnce
    AnswerIsForTheOperation
    MistakenOnlyByWrap
CHECK_DEADLOCK FALSE
