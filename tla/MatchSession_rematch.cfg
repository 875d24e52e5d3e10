SPECIFICATION Spec
CONSTANTS
    a = a
    b = b
    Sockets = {a, b}
    Restless = {}
    Nameless = {}
    Points = {1}
    NumQuestions = 1
    NumKeys = 2
    MaxTicks = 1
    MaxMatches = 2
    MaxPending = 1
    MaxEvents = 5
INVARIANTS
    NoAnswerToOldMatch
CHECK_DEADLOCK FALSE
