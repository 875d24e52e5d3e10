SPECIFICATION FairSpec
CONSTANTS
    x = x
    y = y
    u = u
    w = w
    roomU = roomU
    roomW = roomW
    match = match
    Sockets = {x, y}
    Users = {u, w}
    UserOf <- UserOfSocket
    UserRoom <- PrivateRoom
    MatchRooms = {match}
    OpenRooms = {}
    Named = {roomW, match}
    MaxPending = 1
    MaxOutages = 1
INVARIANTS
    TypeOK
    MirrorPaired
    RedisPaired
    LiveViewsAgree
    CleanedUpAfterClose
    PresenceAgrees
PROPERTIES
    PresenceEnds
CHECK_DEADLOCK FALSE
