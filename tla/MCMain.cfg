SPECIFICATION MainSpec
CONSTANTS
    p1 = p1
    p2 = p2
    q1 = q1
    cmqtt = cmqtt
    other = other
    Procs = {p1, p2, q1}
    Names = {cmqtt, other}
    NoProc = NoProc
    NameOf <- MCNameOf
    Self = p1
    k = k
    x = x
    Blank = Blank
    wanted = wanted
    unwanted = unwanted
    Title = wanted
    Titles <- MCTitles
    Key <- MCKey
    Lefts <- MCLefts
    MaxLines = 3
    Second = 10
    Period = 2
    Work = 2
    Late = 1
    Word = 65536
    Epoch = 100
    StepsBack = 1
    MaxTime = 32
    Intervals = {2}
    Default = 1
INVARIANTS
    OneInstance
    FindsTheKey
    NeverTwoSeconds
PROPERTY
    NoSecondSkipped
