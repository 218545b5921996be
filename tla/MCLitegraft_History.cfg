SPECIFICATION FairSpec
CONSTANTS
    p1 = p1
    p2 = p2
    main = main
    Pages = {p1, p2}
    States <- TwoStates
    Branches = {main, dev}
    Main = main
    Procs = {k1, k2}
    Commands = {"init", "snap", "branch", "gc", "log"}
    None = None
    Blank = Blank
    Garbled = Garbled
    MayCrash = FALSE
    GcExclusive = TRUE
PROPERTIES
    CommandsEnd
