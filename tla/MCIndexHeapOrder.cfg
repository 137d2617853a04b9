\* Stakes: three levels, ties, one key more than there is room for.
SPECIFICATION Spec
CONSTANTS
    None = None
    Failed = Failed
    Keys = {k1, k2, k3, k4, k5, k6, k7}
    Powers = {0, 1}
    Value <- Stakes
    Rank <- StakeRank
    Lists <- ShortLists
    Capacity = 6
SYMMETRY KeySymmetry
INVARIANTS TypeOK IndexExact HeapOrder FirstIsLeast
PROPERTY ImplementsQueue
