\* One account with a code, whose storage trie branches and merges again.  The
\* code and the values in the storage may be empty.
SPECIFICATION Spec
CONSTANTS
    None = None
    Nothing = Nothing
    Corrupt = Corrupt
    Empty = Empty
    MaxWaiting = 1
    Address = {10}
    Field = {2}
    FieldValue <- ZeroOneOrEmpty
    StorageKeys = {20, 21}
    StorageValue = {1, Empty}
    MaxRows = 7
INVARIANTS DatabaseExact SessionReadable NeverHalfReadable AllMatchesGetters
CONSTRAINT ShortSession
