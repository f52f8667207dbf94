SPECIFICATION Spec
CONSTANTS
    Offset <- MCOffset
    MaxCmd = 6
\* The user stops typing at the bound MaxCmd.
CHECK_DEADLOCK FALSE
INVARIANTS
    TypeOK
    Delivery
