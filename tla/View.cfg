CONSTANTS
    Rows = 2
    Cols = 3
    StartRows <- WideRows
    Texts = {"b", "W"}
    MaxDraws = 2
SPECIFICATION ViewSpec
INVARIANTS
    CommittedIsShown
    RecordExact
    ScreenExact
PROPERTIES
    BatchEndsExactly
\* The parts stop when their bounded input is used up.
CHECK_DEADLOCK FALSE
