SPECIFICATION Spec
CONSTANTS
    None = None
    Nothing = Nothing
    Values = {v1, v2}
    Keys <- MCKeys
    Prefixes <- MCPrefixes
INVARIANTS TypeOK NoRowBothWays ReadsBecomeDurable
PROPERTY ImplementsStore
SYMMETRY MCSymmetry
