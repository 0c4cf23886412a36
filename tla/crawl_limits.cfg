SPECIFICATION Spec
CONSTANTS
    t1 = t1
    t2 = t2
    a = a
    b = b
    c = c
    Threads = {t1, t2}
    Exit = Exit
    Urls = {a, b, c}
    Seed = a
    Pages <- WidePages
    VertexMax = 2
    AllocFails = {"main", "do_work", "queue_push", "insert_edge"}
SYMMETRY ThreadSymmetry
INVARIANTS
    TypeOK
    TokensMatchJobs
    NeverTopEmpty
    Accounting
    UrlTokens
    NoEarlyStop
    WorkerNotStranded
    PoolServes
    CrawledOnce
    Quiescent
PROPERTIES
    SiteSpec
CHECK_DEADLOCK FALSE
