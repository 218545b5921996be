SPECIFICATION Spec
CONSTANTS
    Typed <- MCTyped
    Ids <- MCIds
    HexDigits = {"0", "1"}
    MinPrefix = 1
    Main <- MCMain
INVARIANTS
    ListedResolves
    HeadNamesBranch
PROPERTIES
    NothingOverwritten
    NeverRetargets
