SPECIFICATION NpFairSpec
CONSTANTS
    Fd <- MCFd
    Command <- MCCommand
    Line <- MCLine
    MaxCmd = 4
    Cap = 4
    FileSize = 1
\* The shell stops at exit, at the end of its input and at the bound MaxCmd.
CHECK_DEADLOCK FALSE
INVARIANTS
    NpTypeOK
    WriterKeepsReader
    WaitsOnlyBackwards
    PromptAfterOutput
PROPERTIES
    NobodyHangs
    ZombiesReaped
