CONSTANTS
    s1 = s1
    s2 = s2
    s3 = s3
    Sessions = {s1, s2, s3}
    Starts <- MCStartsOneDay
    Bodies = {"x"}
    Days = {"day1"}
    Prefixes = {""}
    DayOf <- MCDayOfOneDay
    Scope <- MCScope
    Closers = {c1, c2}
    CloseProfiles = {"poc-batch-merkle-v1"}
    NoReceipt = NoReceipt
    Tamperable = {}
    MaxAnchors = 3
SPECIFICATION FairSpec
INVARIANTS AnchoredMeansStored SnapshotsBoundedByClosers
PROPERTIES CloseTerminates
