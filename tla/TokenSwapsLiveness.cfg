CONSTANTS
    Sends = {s1, s2}
    Foreign = {}
    Workers = {w1, w2}
    Storages = {"supabase", "inMemory"}
    NoSend = NoSend
    NoToken = NoToken
    Steady = w1
    NumSlots = 4
    InitialProofs = 1
    MaxSend = 2
    MaxChange = 0
    MaxReceive = 1
SPECIFICATION LiveSpec
CHECK_DEADLOCK FALSE
PROPERTIES
    SwapsResolve
    ClaimsAreNoticed
