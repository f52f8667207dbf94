SPECIFICATION Spec
CONSTANTS
    Fd <- MCFd
    Command <- MCCommand
    MaxCmd = 6
\* The shell stops at exit, at a failed pipe() and at the bound MaxCmd.
CHECK_DEADLOCK FALSE
INVARIANTS
    TypeOK
    TableIntact
PROPERTIES
    CloseOnlyDue
    ImplementsPromise
