SPECIFICATION CmqttFairSpec
CONSTANTS
    t1 = t1
    t2 = t2
    Absent = Absent
    None = None
    NoTopic = NoTopic
    ctr_handle_tab <- MCTable
    Foreign <- MCForeign
    Configs <- MCConfigs
    Filters <- MCFilters
    Fds = {1, 2}
    Immediate = FALSE
    MaxMsgId = 4
    MaxFaults = 2
    MaxPublish = 1
    MaxMsgs = 1
    MaxSubs = 4
PROPERTIES
    ImplementsClient
    ImplementsDispatch
    SubscribedUnlessFailure
    EveryMessageDecoded
    ConnectedForGood
