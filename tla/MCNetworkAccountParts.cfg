\* Every part of the account, any two of them at a time.
SPECIFICATION Spec
CONSTANTS
    None = None
    Failed = Failed
    Powers = {1}
    Rates = {5}
    Balances = {7}
    Epochs = {1, 2}
    OwnStakes = {NoStake}
    Lists <- AllLists
    Operators = {3}
    Owners = {3}
    N = 1
    M = 1
    MaxParts = 2
    Focus = {0, 1, 2, 3, 4, 5}
    MaxGap = 2
INVARIANT TypeOK
PROPERTY ImplementsNetwork
CONSTRAINTS FewParts MostlyWhole
