CONSTANTS
    p1 = p1
    p2 = p2
    p3 = p3
    Sessions = {1, 2}
    Payloads = {p1, p2, p3}
    Days = {1, 2}
    Prefixes = {"all", "fleet"}
    NoPrefix = "all"
    DayOf <- MCDayOf
    HashOf <- MCHashOf
    Scope <- MCScope
    Absent = Absent
    Empty = Empty
    Garbage = Garbage
    Requests = {r1, r2}
    MaxFinalize = 2
    MaxCommands = 3
SPECIFICATION Spec
INVARIANTS TypeOK ReadableAnchorsComplete MarkedRootIsSealed LocalReceiptWasAccepted SerialStoresAgree MarkedDayVerifies AuditDayNeedsHashOrder ImportedAnchorsVerify
PROPERTIES ImportKeepsLatest
SYMMETRY MCSymmetry
CHECK_DEADLOCK FALSE
