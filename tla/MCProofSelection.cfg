CONSTANTS
    Denominations = {1, 2, 4, 8}
    Keysets = {"k1", "k2"}
    Fees = {0, 400, 1000, 2500}
    MaxProofs = 3
    MaxAmount = 12
    MaxReserve = 3
SPECIFICATION Spec
CHECK_DEADLOCK FALSE
INVARIANTS
    RefusedOnlyIfShort
    ReceiverShortOnlyBySplit
    ChangeFitsBlanks
