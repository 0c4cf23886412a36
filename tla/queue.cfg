SPECIFICATION Spec
CONSTANTS
    p = p  q = q  c = c  d = d  k = k  r = r  x = x  y = y  n1 = n1  n2 = n2  n3 = n3
    Producers <- TwoProducers
    Consumers <- TwoConsumers
    Checkers <- OneChecker
    Readers <- OneReader
    Uses <- PoolOrWork
    Elements <- TwoElements
    Nodes <- ThreeNodes
    Meta = Meta  NULL = NULL
    MaxItems = 3
    AllocFails = TRUE
SYMMETRY Symmetry
INVARIANTS
    Linked
    LiveNodes
PROPERTIES
    FifoSpec
