SPECIFICATION Spec
CONSTANTS
    c1 = c1
    c2 = c2
    c3 = c3
    Conn <- MCConn
    Fd <- MCFd
    MaxClient = 2
    Line <- MCHangUpLine
    MayHangUp = TRUE
    MaxPipe = 1
SYMMETRY MCSymmetry
\* The users stop at the bound MaxPipe and when all have left.
CHECK_DEADLOCK FALSE
PROPERTIES
    LogoutRemovesClient
