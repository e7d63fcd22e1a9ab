CONSTANTS
    Accounts = {"operator"}
    Operator = "operator"
    Prefixes = {"all"}
    Keys <- MCKeys
    Roots = {"r1"}
    CountOf <- MCCountOf
    ZeroRoot = "zero"
    ZeroAddress = "none"
    NoEntry = NoEntry
    NoTx = NoTx
    NoCode = NoCode
    Addresses = {"a1"}
    Publishers = {"p1"}
    MaxRows = 1
    MaxChains = 1
SPECIFICATION RetrySpec
PROPERTIES PublishedIsRecorded
