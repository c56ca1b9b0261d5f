SPECIFICATION Spec
CONSTANTS
    Scenarios <- MCScenarios
    MAX_MSG_ID = 5
    SEQNO_LIMIT = 10
    MaxInflight = 2
    MaxBuffered = 2
    MaxCrashes = 2
    MaxLosses = 1
    MaxInterrupts = 1
    MaxRefusals = 1
    MaxRetries = 1
CHECK_DEADLOCK FALSE
INVARIANTS
    LossIsBounded
    CompleteIsTrue
    ForgottenOnlyIfInterrupted
PROPERTIES
    ImplementsDelivery
    RestoredInOrder
