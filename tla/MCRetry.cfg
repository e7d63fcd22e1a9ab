CONSTANTS
    Accounts = {"operator", "other"}
    Operator = "operator"
    Prefixes = {"all"}
    Keys <- MCKeys
    Roots = {"r1"}
    CountOf <- MCCountOf
    ZeroRoot = "zero"
    ZeroAddress = "none"
    NoEntry = NoEntry
    NoTx = NoTx
    NoCode = NoCode
    Addresses = {"a1", "a2"}
    Publishers = {"p1"}
    MaxRows = 1
    MaxChains = 3
SPECIFICATION RetrySpec
PROPERTIES ClosedReachesChain
