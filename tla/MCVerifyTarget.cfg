CONSTANTS
    s1 = s1
    s2 = s2
    s3 = s3
    Sessions = {s1, s2}
    Starts <- MCStarts
    Bodies = {"x"}
    Days = {"day1", "day2"}
    Prefixes = {"", "run"}
    DayOf <- MCDayOf
    Scope <- MCScope
    Closers = {"c1"}
    CloseProfiles = {"poc-batch-merkle-v1", "legacy-hash-sort-v0"}
    NoReceipt = NoReceipt
    Tamperable = {}
    MaxAnchors = 2
SPECIFICATION Spec
INVARIANT VerifyReadsLatest
