\* One validator set of two operators, pushed and cleared and pushed again.
SPECIFICATION Spec
CONSTANTS
    None = None
    Failed = Failed
    Powers = {1}
    Rates = {5}
    Balances = {7}
    Epochs = {1, 2}
    OwnStakes = {NoStake}
    Lists <- AllLists
    Operators = {1, 3}
    Owners = {2}
    N = 2
    M = 1
    MaxParts = 1
    Focus = {1}
    MaxGap = 0
INVARIANT ListedAreFound
PROPERTY ImplementsNetwork
CONSTRAINTS FewParts MostlyWhole
