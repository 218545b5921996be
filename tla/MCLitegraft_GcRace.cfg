SPECIFICATION Spec
CONSTANTS
    p1 = p1
    p2 = p2
    main = main
    Pages = {p1, p2}
    States <- TwoStates
    Branches = {main}
    Main = main
    Procs = {k1, k2}
    Commands = {"init", "snap", "gc"}
    None = None
    Blank = Blank
    Garbled = Garbled
    MayCrash = FALSE
    GcExclusive = FALSE
SYMMETRY ProcSymmetry
PROPERTIES
    GcDeletesOnlyUnreferenced
