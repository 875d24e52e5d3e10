SPECIFICATION FairSpec
CONSTANTS
    a = a
    b = b
    c = c
    SocketA = a
    SocketB = b
    Sockets = {a, b}
    NumQuestions = 2
    Window <- PatientWindow
    MaxOutages = 1
PROPERTIES
    ImplementsQuizMatch
    AdvanceAnnounced
