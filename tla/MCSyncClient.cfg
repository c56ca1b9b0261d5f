CONSTANTS
    MAX_MSG_ID = 3
    MaxInflight = 1
    Scenarios <- MCScenarios
SPECIFICATION Spec
CHECK_DEADLOCK FALSE
INVARIANTS
    AnswersMatch
    ConnectionIsReal
    AnswerNotLost
    CompletionIsTrue
PROPERTY
    CallsReturn
