\* A heap that is reset with stakes in any order, as ValidatorPool::push does.
SPECIFICATION AnySpec
CONSTANTS
    None = None
    Failed = Failed
    Keys = {k1, k2, k3}
    Powers = {0, 1}
    Value <- Stakes
    Rank <- StakeRank
    Lists <- ShortLists
    Capacity = 2
INVARIANT FirstIsLeast
