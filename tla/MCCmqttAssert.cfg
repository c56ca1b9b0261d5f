SPECIFICATION CmqttSpec
CONSTANTS
    t1 = t1
    t2 = t2
    Absent = Absent
    None = None
    NoTopic = NoTopic
    ctr_handle_tab <- MCTable
    Foreign <- MCForeign
    Configs <- MCConfigs
    Filters <- MCFilters
    Fds = {1, 2}
    Immediate = FALSE
    MaxMsgId = 4
    MaxFaults = 0
    MaxPublish = 0
    MaxMsgs = 0
    MaxSubs = 4
INVARIANT
    AssertionHolds
