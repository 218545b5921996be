SPECIFICATION Spec
CONSTANTS
    a = a
    b = b
    Writers = {w1}
    Readers = {r1, r2}
    Inodes = {i1, i2, i3, i4}
    None = None
    Hole = Hole
    Text <- ObjectText
    SkipExisting = TRUE
    MayRemove = TRUE
    MayCrash = TRUE
INVARIANTS
    ReadsWhole
PROPERTIES
    ImplementsWholeFile
    OkMeansWhole
