SPECIFICATION Spec
CONSTANTS
    Usable <- MCUsable
    Payloads <- MCPayloads
CHECK_DEADLOCK FALSE
INVARIANTS
    LocalFits
    ChainFits
