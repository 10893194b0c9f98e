SPECIFICATION Spec
CONSTANTS
    Capacity = 2
    IdBlock = 2
    MaxId = 5
    MaxEpoch = 2
    MaxAttempts = 1
    Lifetimes = {2}
    Contents = {c1, c2}
    NoContent = none
INVARIANTS EnqueuedSurvives
PROPERTIES FormattedStaysServiceable IdentityNeverReused BudgetNeverRestored
