------------------------------- MODULE Ledger -------------------------------
(***************************************************************************)
(* What the database promises to whoever reads it, however many clients,   *)
(* sweeps, runs and tamper matrices use it: the rows of a session are      *)
(* replaced as a whole, by those of one accepted body, and change in no    *)
(* other way than that somebody tampers with the receipt; anchors are only *)
(* appended, each verifies by itself and lists the receipts of its day and *)
(* prefix as they are at that moment, and a day and prefix is closed once. *)
(*                                                                         *)
(* Experiment implements this specification (ExperimentProofs).            *)
(***************************************************************************)
EXTENDS Sequences, Naturals

CONSTANTS
    Sessions,           \* session ids
    NoRow,              \* the session is not stored
    Final(_, _),        \* Final(s, row): finalizing s stores row for some body
    Altered(_),         \* what tampering makes of a row
    Selects(_, _, _),   \* Selects(a, s, row): row is of the day and prefix of a
    Entry(_, _, _),     \* Entry(a, s, row): what a says of such a row
    Entries(_),         \* what an anchor says of its sessions
    Verifies(_),        \* an anchor verifies by itself
    SameBatch(_, _)     \* two anchors close one day and prefix

VARIABLES
    rows,    \* rows of the sessions
    table    \* anchors, in the order of their ids

Init ==
    /\ rows = [s \in Sessions |-> NoRow]
    /\ table = <<>>

Selected(a) == {s \in Sessions : rows[s] # NoRow /\ Selects(a, s, rows[s])}

Replace(s, row) ==
    /\ rows' = [rows EXCEPT ![s] = row]
    /\ Final(s, row)
    /\ UNCHANGED table

Tamper(s) ==
    /\ rows' = [rows EXCEPT ![s] = Altered(rows[s])]
    /\ rows[s] # NoRow /\ Final(s, rows[s])
    /\ UNCHANGED table

Close(a) ==
    /\ table' = Append(table, a)
    /\ Verifies(a)
    /\ Entries(a) = {Entry(a, s, rows[s]) : s \in Selected(a)}
    /\ \A entry \in Entries(a) : rows[entry.session] # NoRow
    /\ \A i \in DOMAIN table : ~SameBatch(table[i], a)
    /\ UNCHANGED rows

Next ==
    \/ \E s \in Sessions : rows'[s] # rows[s] /\ (Replace(s, rows'[s]) \/ Tamper(s))
    \/ \E i \in DOMAIN table' : Close(table'[i])

Spec == Init /\ [][Next]_<<rows, table>>
=============================================================================
