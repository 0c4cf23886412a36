SPECIFICATION FairSpec
CONSTANTS
    t1 = t1
    t2 = t2
    a = a
    b = b
    c = c
    Threads = {t1, t2}
    Exit = Exit
    Urls = {a, b, c}
    Seed = a
    Pages <- NarrowPages
    VertexMax = 10
    AllocFails = {}
INVARIANTS
    Complete
PROPERTIES
    Termination
