SPECIFICATION Spec
CONSTANTS
    x = x
    y = y
    PageCount = 2
    Contents = {x, y}
    MaxFrames = 3
    None = None
    Fresh = Fresh
    WriterPauses = TRUE
SYMMETRY ContentSymmetry
INVARIANTS
    ReadsCommitted
    SparesCommits
    SqliteFindsCommitted
