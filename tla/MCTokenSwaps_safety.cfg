CONSTANTS
    Sends = {s1, s2}
    Foreign = {f1}
    Workers = {w1, w2}
    Storages = {"supabase", "inMemory"}
    NoSend = NoSend
    NoToken = NoToken
    NumSlots = 4
    InitialProofs = 1
    MaxSend = 2
    MaxChange = 1
    MaxReceive = 1
SYMMETRY Symmetry
SPECIFICATION Spec
CHECK_DEADLOCK FALSE
INVARIANTS
    NoPhantomBalance
    NoLostOutput
    OutputsAreOwn
    ReservationHasOwner
    TokenSetAside
    ReversalCanBeRecorded
    OutcomeIsTrue
PROPERTIES
    TerminalStatesAreFinal
    ImplementsLedger
