SPECIFICATION FairSpec
CONSTANTS
    a = a
    b = b
    c = c
    SocketA = a
    SocketB = b
    Sockets = {a, b}
    NumQuestions = 2
    Window <- EagerWindow
    MaxOutages = 1
INVARIANTS
    TypeOK
    ScoreWithinIndex
    QuietAgreement
    FinishAnnounced
PROPERTIES
    ProgressByOne
    UpdatesInOrder
