SPECIFICATION Spec
CONSTANTS
    a = a
    b = b
    c = c
    SocketA = a
    SocketB = b
    Sockets = {a, b}
    NumQuestions = 2
    Window <- EagerWindow
    MaxOutages = 0
PROPERTIES
    ScoreNeverDrops
