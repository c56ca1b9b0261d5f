SPECIFICATION ClientSpec
CONSTANTS
    Filters = {a}
    NoTopic = NoTopic
    Fds = {1, 2}
    Immediate = TRUE
    MaxMsgId = 3
    MaxFaults = 2
    MaxPublish = 1
    MaxSubs = 2
INVARIANTS
    QueueDiscipline
    TokensUnique
    StaleSubackHarmless
    NeverGivesUp
