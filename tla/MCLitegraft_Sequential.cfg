SPECIFICATION Spec
CONSTANTS
    p1 = p1
    p2 = p2
    main = main
    Pages = {p1, p2}
    States <- MCStates
    Branches = {main, dev}
    Main = main
    Procs = {k1}
    Commands = {"init", "snap", "branch", "checkout", "gc", "log"}
    None = None
    Blank = Blank
    Garbled = Garbled
    MayCrash = FALSE
    GcExclusive = TRUE
INVARIANTS
    VerifySound
PROPERTIES
    FirstCreationRecorded
    CheckoutLandsOnHead
