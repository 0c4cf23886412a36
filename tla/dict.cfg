SPECIFICATION Spec
CONSTANTS
    k0 = k0  k1 = k1  k2 = k2  v1 = v1  v2 = v2  r1 = r1  r2 = r2
    n1 = n1  n2 = n2  n3 = n3  n4 = n4
    Keys <- ThreeKeys
    Values <- TwoValues
    Readers <- TwoReaders
    Size = 2
    hash_func <- Colliding
    Nodes <- FourNodes
    MaxSize = 4
    AllocFails = TRUE
    NULL = NULL  Absent = Absent  None = None  Free = Free  Raw = Raw
SYMMETRY Symmetry
INVARIANTS
    ChainsSound
    NoStrayRead
    NothingLost
PROPERTIES
    KeyValueSpec
