CONSTANTS
    c1 = c1
    Conns <- MCConns
    MaxHeight = 2
    MaxQueue = 1
    MaxStarts = 2
SPECIFICATION LCSpec
INVARIANTS
    FlushedAtExit
    AnswerNotAhead
PROPERTIES
    ShutdownEnds
CHECK_DEADLOCK FALSE
