CONSTANTS
    Quotes = {q1}
    Workers = {shell, sweep}
    Steady = {sweep}
    Keysets = {k1, k2}
    Width = 2
    MaxCounter = 3
    None = None
SPECIFICATION FairSpec
CHECK_DEADLOCK FALSE
INVARIANTS
    RowAndMintAgree
    OutputsAreReserved
PROPERTIES
    PaymentsStayRecorded
    PaymentsBecomeEcash
