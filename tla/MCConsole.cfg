SPECIFICATION FairSpec
CONSTANTS
    h1 = h1
    h2 = h2
    Host = {h1, h2}
    Script <- MCScript
    Output <- MCOutput
    Size = 4
    Endpoint = 2
    MaxLine = 6
\* Sessions end, or wait for a prompt that was missed.
CHECK_DEADLOCK FALSE
INVARIANTS
    TypeOK
    Transcript
    WaitsOnlyUnprompted
PROPERTIES
    ScriptFinishes
