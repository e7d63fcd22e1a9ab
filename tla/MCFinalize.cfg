CONSTANTS
    p1 = p1
    p2 = p2
    p3 = p3
    Sessions = {"s1"}
    Payloads = {p1, p2, p3}
    Requests = {r1, r2}
    SessionColumns = {"evse_id", "session_json"}
    ReceiptColumns = {"energy_kwh", "receipt_hash"}
    Values <- MCValues
    SessionRowOf <- MCSessionRowOf
    ReceiptRowOf <- MCReceiptRowOf
    NoRow = NoRow
SPECIFICATION FairSpec
INVARIANTS TypeOK ReceiptIsOneRequest
PROPERTIES ImplementsReceiptTable FinalizeTerminates SerialSessionsMatch
