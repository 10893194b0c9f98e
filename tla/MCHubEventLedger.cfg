SPECIFICATION Spec
CONSTANTS
    Capacity = 2
    OrdinalBlock = 2
    MaxOrdinal = 6
    Epochs = {1, 2}
    Ids = {1, 2}
    Contents = {c1, c2}
    NoContent = none
INVARIANT AdmittedSurvives
PROPERTIES NewestLast ReadmittedOnlyIfSuperseded
