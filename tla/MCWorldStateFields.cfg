\* One account, a nonce that may be zero, one storage key; sessions closed twice.
SPECIFICATION Spec
CONSTANTS
    None = None
    Nothing = Nothing
    Corrupt = Corrupt
    Empty = Empty
    MaxWaiting = 2
    Address = {10}
    Field = {0}
    FieldValue <- ZeroOneOrEmpty
    StorageKeys = {20}
    StorageValue = {1}
    MaxRows = 9
INVARIANTS TypeOK StoragesOnRecord
PROPERTY ImplementsLedger
CONSTRAINT ShortSession
