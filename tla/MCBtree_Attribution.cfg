SPECIFICATION FairSpec
CONSTANTS
    PageCount = 4
    Names = {1, 2}
    Schema = 3
    NoName = 4
    Files <- AllFiles
    LockByte = {4}
    PtrMap = {3}
CHECK_DEADLOCK FALSE
INVARIANTS
    AcceptsExactlySound
    AttributionExact
    SchemaReadRepeatsWalk
PROPERTIES
    AttributionEnds
