\* Two accounts with a storage each: closed in any order, upgraded together.
SPECIFICATION Spec
CONSTANTS
    None = None
    Nothing = Nothing
    Corrupt = Corrupt
    Empty = Empty
    MaxWaiting = 1
    Address = {10, 11}
    Field = {}
    FieldValue <- ZeroOnly
    StorageKeys = {20}
    StorageValue = {1, Empty}
    MaxRows = 9
INVARIANTS DatabaseExact ChangesOneWay
PROPERTY ImplementsLedger
CONSTRAINT ShortSession
