CONSTANTS
    Links = {1, 3, 5, 7}
    Contents = {2, 4, 6}
    Sizes = {8}
    Values = {v1, v2}
    MaxFailures = 1
SPECIFICATION Spec
SYMMETRY MCSymmetry
INVARIANTS
    TreeIsRedBlack
    NothingLeaks
PROPERTY
    ImplementsSequence
