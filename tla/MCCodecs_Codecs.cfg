SPECIFICATION Spec
CONSTANTS
    BlockLen = 6
    LengthLen = 2
    Messages <- MCMessages
    Group = 4
    MaxBytes = 4
    Chars <- MCChars
    Replacement <- MCReplacement
    HexDigits = {"a", "b"}
    HashLen = 2
    Numbers <- MCNumbers
    Decimal <- MCDecimal
    Nobody = Nobody
    Calls <- MCCalls
    Pending = Pending
CHECK_DEADLOCK FALSE
INVARIANTS
    VarintRoundTrip
    RecordRoundTrip
    ManifestRoundTrip
    MixtureRejected
    DiffIsPatch
    RollupAddsUp
    StatusAgrees
    DigestOfWhole
