SPECIFICATION MCSpec
CONSTANTS
    c1 = c1
    c2 = c2
    c3 = c3
    Conn = {c1, c2, c3}
    MaxClient = 3
    Line <- MCLine
    MaxLine = 4
\* Users come once each and type a bounded number of lines.
CHECK_DEADLOCK FALSE
INVARIANTS
    TypeOK
    
    UnreadOffered

    
