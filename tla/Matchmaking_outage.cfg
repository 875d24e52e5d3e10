SPECIFICATION FairSpec
CONSTANTS
    x = x
    y = y
    z = z
    u = u
    v = v
    one = one
    two = two
    Sockets = {x, z}
    Users = {u, v}
    NoUser = NoUser
    UserOf <- TwoUsers
    PayloadUser <- ForgetfulZ
    Instances = {one}
    Home <- AllOnOne
    NumKeys = 2
    MaxTicks = 2
    MaxPending = 1
    MaxEvents = 3
    MaxOutages = 1
INVARIANTS
    MatchesPerJoin
    LeaversAreOut
PROPERTIES
    QueueDrains
