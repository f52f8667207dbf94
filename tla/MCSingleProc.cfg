SPECIFICATION Spec
CONSTANTS
    c1 = c1
    c2 = c2
    c3 = c3
    Conn <- MCConn
    Fd <- MCFd
    MaxClient = 2
    Line <- MCLine
    MayHangUp = TRUE
    MaxPipe = 2
SYMMETRY MCSymmetry
\* The server stops when pipe() fails; users stop at MaxPipe and when all have left.
CHECK_DEADLOCK FALSE
INVARIANTS
    TypeOK
    TablesAgree
    PipedToOne
    LeakOnlyOnLeaving
PROPERTIES
    ServerSurvives
    ExitHangsUp
