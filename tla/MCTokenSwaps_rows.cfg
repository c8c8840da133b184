CONSTANTS
    Sends = {s1}
    Foreign = {}
    Workers = {w1, w2}
    Storages = {"supabase"}
    NoSend = NoSend
    NoToken = NoToken
    NumSlots = 3
    InitialProofs = 1
    MaxSend = 1
    MaxChange = 1
    MaxReceive = 1
SYMMETRY Symmetry
SPECIFICATION Spec
CHECK_DEADLOCK FALSE
INVARIANTS
    InputsInHand
