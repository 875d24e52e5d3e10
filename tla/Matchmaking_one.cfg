SPECIFICATION Spec
CONSTANTS
    x = x
    y = y
    z = z
    u = u
    v = v
    one = one
    two = two
    Sockets = {x, y, z}
    Users = {u, v}
    NoUser = NoUser
    UserOf <- TwoUsers
    PayloadUser <- ForgetfulZ
    Instances = {one}
    Home <- AllOnOne
    NumKeys = 1
    MaxTicks = 1
    MaxPending = 1
    MaxEvents = 4
    MaxOutages = 0
INVARIANTS
    TypeOK
    MatchesPerJoin
    LeaversAreOut
