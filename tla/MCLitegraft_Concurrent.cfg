SPECIFICATION Spec
CONSTANTS
    p1 = p1
    p2 = p2
    main = main
    Pages = {p1, p2}
    States <- TwoStates
    Branches = {main}
    Main = main
    Procs = {k1, k2}
    Commands = {"init", "snap", "branch", "checkout", "gc"}
    None = None
    Blank = Blank
    Garbled = Garbled
    MayCrash = TRUE
    GcExclusive = TRUE
SYMMETRY ProcSymmetry
INVARIANTS
    TypeOK
    HistoryAcyclic
    NoDanglingIds
    SnapshotsComplete
PROPERTIES
    NoWorkLost
    GcReclaims
    GcDeletesOnlyUnreferenced
    ImplementsRepository
