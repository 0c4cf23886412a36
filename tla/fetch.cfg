SPECIFICATION FairSpec
CONSTANTS
    BodyDefault = 2
    Limit = 2
    MaxPage = 9
    AllocFails = TRUE
INVARIANTS
    InsideBuffer
    SocketBalance
    
PROPERTIES
    JobSpec
    JobEnds
