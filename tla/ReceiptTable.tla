---------------------------- MODULE ReceiptTable ----------------------------
(***************************************************************************)
(* What finalizing sessions promises to everything that reads receipts     *)
(* (closing, verification, audits): the receipt of a session is replaced   *)
(* as a whole, by the receipt of one request.  The action Finalize of      *)
(* BatchAnchoring is this; ReceiptStore implements it.                     *)
(***************************************************************************)
CONSTANTS
    Sessions,       \* charging sessions
    Payloads,       \* bodies of finalization requests
    ReceiptRowOf,   \* receipts row that a request stores
    NoRow           \* there is no row

VARIABLE receipts

Init == receipts = [s \in Sessions |-> NoRow]

Replace(s, p) == receipts' = [receipts EXCEPT ![s] = ReceiptRowOf[p]]

Next == \E s \in Sessions, p \in Payloads : Replace(s, p)

Spec == Init /\ [][Next]_receipts
=============================================================================
