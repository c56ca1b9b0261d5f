SPECIFICATION DispatchSpec
CONSTANTS
    t1 = t1
    t2 = t2
    t3 = t3
    other = other
    Absent = Absent
    None = None
    ctr_handle_tab <- MCTable
    Foreign <- MCForeign
    Configs <- MCConfigs
    MaxMsgs = 3
INVARIANTS
    RightHandler
    LoadedInOrder
    StatsLag
