SPECIFICATION Spec
CONSTANTS
    one = one
    two = two
    x = x
    u = u
    right = right
    wrong = wrong
    Instances = {one}
    Sockets = {x}
    Users = {u}
    Home <- OnTheFirst
    UserOf <- SameUser
    NumEvents = 1
    Requests = {right}
    Authorised = {right}
    Addressees <- ToThatUser
    Handlers <- AppModules
    Nobody = Nobody
    MaxCrashes = 0
    MaxRebalances = 0
INVARIANTS
    NotifiedOnce
CHECK_DEADLOCK FALSE
