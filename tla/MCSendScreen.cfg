CONSTANTS
    Users = {u1, u2}
    None = None
    MaxTasks = 2
    MaxSignOuts = 2
    MaxRequests = 2
SPECIFICATION ScreenSpec
INVARIANTS
    SignOutIsClean
    ScreenIsOwn
    HomeIsServed
PROPERTIES
    TokenStaysShown
    HomeSettles
