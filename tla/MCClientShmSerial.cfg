SPECIFICATION Spec
CONSTANTS
    c1 = c1
    c2 = c2
    c3 = c3
    Conn = {c1, c2, c3}
    MaxClient = 2
    Command = {"yell", "tell", "exit", "eof"}
    SerialLogin = TRUE
    MaxSay = 1
SYMMETRY MCSymmetry
\* Users come once each and speak a bounded number of times.
CHECK_DEADLOCK FALSE
INVARIANTS
    ServingListed
PROPERTIES
    SignalsMeant
