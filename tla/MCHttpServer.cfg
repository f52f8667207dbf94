SPECIFICATION FairSpec
CONSTANTS
    c1 = c1
    c2 = c2
    Conn = {c1, c2}
    Want = {"page", "cgi", "absent"}
    Server = {1, 2}
\* Every browser has one request.
CHECK_DEADLOCK FALSE
INVARIANTS
    TypeOK
    AnsweredWhole
    UpUnlessMixed
PROPERTIES
    PageEnds
