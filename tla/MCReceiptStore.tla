--------------------------- MODULE MCReceiptStore ---------------------------
(***************************************************************************)
(* Model values for ReceiptStore: of three requests for one session, p1    *)
(* and p3 name the same charging station and p1 and p2 the same energy;    *)
(* the JSON column and the hash of all of them differ.                     *)
(***************************************************************************)
EXTENDS ReceiptStore, TLC

CONSTANTS p1, p2, p3

MCSessionRowOf == [p \in Payloads |-> [col \in SessionColumns |->
    IF col = "session_json" THEN ToString(p) ELSE IF p = p2 THEN "evse2" ELSE "evse1"]]
MCReceiptRowOf == [p \in Payloads |-> [col \in ReceiptColumns |->
    IF col = "receipt_hash" THEN ToString(p) ELSE IF p = p3 THEN "e2" ELSE "e1"]]
MCValues == {"evse1", "evse2", "e1", "e2"} \cup {ToString(p) : p \in Payloads}
=============================================================================
