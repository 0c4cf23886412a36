SPECIFICATION Spec
CONSTANTS
    Urls = {a, b, c}
    Pages <- SmallPages
    MaxInserts = 3
    Scale = 1000
    Rate = 10
    Top = 2
CHECK_DEADLOCK FALSE
INVARIANTS
    GraphConsistent
    FilesAgree
    TopRanked
    RankMonotone
PROPERTIES
    InfoKept
    RankEnds
