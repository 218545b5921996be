SPECIFICATION Spec
CONSTANTS
    p1 = p1
    p2 = p2
    main = main
    Pages = {p1, p2}
    States <- TwoStates
    Branches = {main}
    Main = main
    Procs = {k1}
    Commands = {"init", "snap"}
    None = None
    Blank = Blank
    Garbled = Garbled
    MayCrash = TRUE
    GcExclusive = TRUE
INVARIANTS
    VerifySound
