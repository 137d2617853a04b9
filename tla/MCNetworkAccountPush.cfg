\* A pool pushed with more stakes than a pool may have.
SPECIFICATION Spec
CONSTANTS
    None = None
    Failed = Failed
    Powers = {1}
    Rates = {5}
    Balances = {7}
    Epochs = {1}
    OwnStakes = {NoStake}
    Lists <- AllLists
    Operators = {1, 3}
    Owners = {2, 4}
    N = 2
    M = 1
    MaxParts = 1
    Focus = {1}
    MaxGap = 0
INVARIANT PushedStakesAreSet
CONSTRAINTS FewParts MostlyWhole
