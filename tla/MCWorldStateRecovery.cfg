\* A storage that is applied in two halves, with a crash between them.
SPECIFICATION RecoverySpec
CONSTANTS
    None = None
    Nothing = Nothing
    Corrupt = Corrupt
    Empty = Empty
    MaxWaiting = 1
    Address = {10}
    Field = {}
    FieldValue <- ZeroOnly
    StorageKeys = {20}
    StorageValue = {1, 2}
    MaxRows = 7
    MaxRest = 4
PROPERTY ImplementsLedger
CONSTRAINTS ShortSession FewRest
