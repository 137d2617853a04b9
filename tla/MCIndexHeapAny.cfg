\* Pools in a heap that is pushed to and reset as a map, in any order, with keys
\* that may be there twice.
SPECIFICATION FairAnySpec
CONSTANTS
    None = None
    Failed = Failed
    Keys = {1, 2, 3}
    Powers = {0, 1}
    Value <- Stakes
    Rank <- PoolRank
    Lists <- AnyLists
    Capacity = 4
INVARIANT IndexSound
PROPERTY OperationsReturn
