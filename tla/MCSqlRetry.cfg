SPECIFICATION SqlSpec
CONSTANTS
    MaxCalls = 3
    MaxFaults = 3
INVARIANTS
    AtMostOnce
    HealsItself
