CONSTANTS
    Sessions <- MCSessions
    Nfc <- MCNfc
    DayLength = 10
    Sub = 3
    Grid = 5
    Offset = 2
    Missing = Missing
    Absent = Absent
    Scope <- MCScope
    Work <- MCWork
SPECIFICATION Spec
CHECK_DEADLOCK FALSE
INVARIANT VerdictIsRecorded
