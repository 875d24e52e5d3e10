SPECIFICATION FairSpec
CONSTANTS
    a = a
    b = b
    Sockets = {a, b}
    Restless = {b}
    Nameless = {a, b}
    Points = {1}
    NumQuestions = 1
    NumKeys = 2
    MaxTicks = 2
    MaxMatches = 2
    MaxPending = 1
    MaxEvents = 5
INVARIANTS
    TypeOK
    FoundBeforeUpdates
    ScreensAgree
    LeftoverKeysUntouched
CHECK_DEADLOCK FALSE
PROPERTIES
    EveryMatchIsAQuiz
    PairsAreTold
