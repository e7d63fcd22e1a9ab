CONSTANTS
    Accounts = {"operator"}
    Operator = "operator"
    Prefixes = {all, run}
    Keys <- MCKeys
    Roots = {r1, r2}
    CountOf <- MCCountOf
    ZeroRoot = "zero"
    ZeroAddress = "none"
    NoEntry = NoEntry
    NoTx = NoTx
    NoCode = NoCode
    Addresses = {a1, a2}
    Publishers = {p1, p2}
    MaxRows = 2
    MaxChains = 1
SYMMETRY MCSymmetry
SPECIFICATION Spec
INVARIANTS TypeOK OnChainIsPersisted OneAnchoringTxPerKey RecordedAnchorVerifies
PROPERTIES GoodHashLostOnlyInRaces
