SPECIFICATION FairSpec
CONSTANTS
    one = one
    two = two
    x = x
    u = u
    right = right
    wrong = wrong
    Instances = {one, two}
    Sockets = {x}
    Users = {u}
    Home <- OnTheFirst
    UserOf <- SameUser
    NumEvents = 2
    Requests = {right, wrong}
    Authorised = {right}
    Addressees <- ToThatUser
    Handlers <- AppModules
    Nobody = Nobody
    MaxCrashes = 1
    MaxRebalances = 1
INVARIANTS
    TypeOK
    SettledIsReceived
    NewsInOrder
    OnlyEarlyUnreachable
PROPERTIES
    EventsAreCommitted
CHECK_DEADLOCK FALSE
