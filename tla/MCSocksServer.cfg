SPECIFICATION FairSpec
CONSTANTS
    Request <- MCRequest
    Conf <- MCConf
    Size = 2
    Word = 4
    MaxAsk = 2
    MaxData = 2
    MaxGot = 4
\* The ends stop at MaxData, and when they have left.
CHECK_DEADLOCK FALSE
INVARIANTS
    TypeOK
    AnswersAsked
PROPERTIES
    ImplementsChannel
    Completes
