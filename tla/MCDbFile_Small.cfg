SPECIFICATION Spec
CONSTANTS
    SizeFields <- SmallSizes
    ReservedBytes = {0, 32, 33}
    CountFields = {0, 1, 2, 3}
    Lengths <- SmallLengths
    CountLimit = 400
    PendingByte = 158720
    None = None
    Bad = Bad
CHECK_DEADLOCK FALSE
INVARIANTS
    PagesInFile
    SnapshotViewAgrees
    RestoredReopens
    PtrMapsAsSqlite
