SPECIFICATION NpSpec
CONSTANTS
    Fd <- MCFd
    Command <- MCCommand
    Line <- MCFullLine
    MaxCmd = 4
    Cap = 1
    FileSize = 2
\* The shell stops at the end of its input, when stuck, and at the bound MaxCmd.
CHECK_DEADLOCK FALSE
INVARIANTS
    StuckOnlyByInheritance
