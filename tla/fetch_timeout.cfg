SPECIFICATION Spec
CONSTANTS
    BodyDefault = 2
    Limit = 2
    MaxPage = 3
    AllocFails = FALSE
INVARIANTS
    StopsAfterThreeTimeouts
