SPECIFICATION Spec
CONSTANTS
    x = x
    y = y
    z = z
    u = u
    v = v
    one = one
    two = two
    Sockets = {x, y, z}
    Users = {u, v}
    NoUser = NoUser
    UserOf <- TwoUsers
    PayloadUser <- OwnUser
    Instances = {one}
    Home <- AllOnOne
    NumKeys = 2
    MaxTicks = 1
    MaxPending = 1
    MaxEvents = 2
    MaxOutages = 0
INVARIANTS
    TakenIsTold
