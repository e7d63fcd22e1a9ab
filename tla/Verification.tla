----------------------------- MODULE Verification -----------------------------
(***************************************************************************)
(* The tables with their real contents, and what closes, sweeps, tampers   *)
(* with and verifies them: src/batch_anchoring.py, tamper.py,              *)
(* verifier_batch.py and batch_service.py.                                 *)
(*                                                                         *)
(* Every operation here is one transaction that runs alone; BatchAnchoring *)
(* has the interleavings of two transactions, over abstract contents.      *)
(***************************************************************************)
EXTENDS ReceiptAlgorithms, SequencesExt

CONSTANTS
    Absent,      \* no row, no record
    Scope,       \* Scope[p]: the session ids that match LIKE '<p>-%', where a
                 \* '_' of the prefix matches any character
    Work         \* Work[w]: what clients and operators may do in a behaviour

ASSUME VerificationConstants ==
    /\ Absent \notin Nat
    /\ \A p \in DOMAIN Scope : Scope[p] \subseteq Sessions
    /\ \A s \in Sessions : Nfc[s] \in Sessions => Nfc[Nfc[s]] = Nfc[s]

VARIABLES
    workload,    \* of this behaviour
    stored,      \* charging_sessions, meter_values and receipts: rows of each session
    anchors,     \* batch_anchors, each with its batch_anchor_receipts; id = position
    sweep        \* the progress of anchor_all_days

\* Bounds: the bodies posted for each session, the days that are closed, the
\* prefixes that are swept, the sessions whose receipts are tampered with, the
\* tamper matrices that are started, and the experiment.
Allowed == Work[workload]

Rows == {s \in Sessions : stored[s] # Absent}

-----------------------------------------------------------------------------
(***************************************************************************)
(* Closing a day.                                                          *)
(***************************************************************************)
\* Fault: the window of a day lets go of its first instant.
EligibleAfter(day, p) ==
    {s \in Rows \cap Scope[p] : UtcDay(stored[s].start - 1) = day /\ UtcDay(stored[s].start) = day}

\* The receipts of the UTC window under a prefix.
Eligible(day, p) == {s \in Rows \cap Scope[p] : UtcDay(stored[s].start) = day}

Record(s) == [session |-> s, start |-> stored[s].start, hash |-> stored[s].hash]
Records(day, p) == {Record(s) : s \in Eligible(day, p)}

ProfiledRow(day, p, c) ==
    [day |-> day, prefix |-> p, profile |-> "v1", context |-> c.context,
     root |-> c.root, tree |-> c.tree, count |-> Len(c.leaves),
     members |-> [i \in DOMAIN c.records |->
                    [session |-> c.records[i].session, start |-> c.records[i].start,
                     hash |-> c.records[i].hash, leaf |-> c.leaves[i], index |-> i - 1]]]

\* build_batch_root sorts the hashes: its root stands for their set.
LegacyRoot(hashes) == <<hashes>>

\* Memberships of a legacy row have neither start nor leaf; the order of
\* the hashes plays no role below, so they are in the order of the sessions.
LegacyRow(day, p, records) ==
    LET ordered == Arranged(records, EarlierBySession)
    IN  [day |-> day, prefix |-> p, profile |-> "legacy", context |-> Absent,
         root |-> LegacyRoot({r.hash : r \in records}), tree |-> Absent,
         count |-> Cardinality(records),
         members |-> [i \in DOMAIN ordered |->
                        [session |-> ordered[i].session, start |-> Absent,
                         hash |-> ordered[i].hash, leaf |-> Absent, index |-> i - 1]]]

ProfiledIds(day, p) == {i \in DOMAIN anchors : /\ anchors[i].day = day
                                             /\ anchors[i].prefix = p
                                             /\ anchors[i].profile = "v1"}

\* Whether closing inserts a row: it raises without receipts, with sessions
\* of one normal form, for a closed day (unless nothing changed, which is
\* "closed") and when a normalized session has no receipt (foreign key).
Closing(day, p) ==
    LET records == Records(day, p)
        normal == Normalized(records)
    IN  CASE ~Buildable(records) -> "raises"
          [] Buildable(records) /\ ProfiledIds(day, p) # {} ->
               IF \A i \in ProfiledIds(day, p) :
                    anchors[i].root = Commitment(normal, Context(day)).root
               THEN "closed" ELSE "raises"
          [] Buildable(records) /\ ProfiledIds(day, p) = {} ->
               IF \A r \in normal : r.session \in Rows THEN "inserts" ELSE "raises"

Inserted(day, p) ==
    Append(anchors, ProfiledRow(day, p, Commitment(Normalized(Records(day, p)), Context(day))))

\* anchor_day_from_db with the V1 profile, where it changes the tables.
CloseDay(day, p) ==
    /\ <<day, p, "v1">> \in Allowed.closings
    /\ Closing(day, p) = "inserts"
    /\ anchors' = Inserted(day, p)
    /\ UNCHANGED <<workload, stored, sweep>>

\* With the legacy profile.  Bound: one legacy row (with the same root the
\* row is kept, with another one there are more).
CloseLegacyDay(day, p) ==
    LET records == Records(day, p)
    IN  /\ <<day, p, "legacy">> \in Allowed.closings
        /\ records # {}
        /\ \A i \in DOMAIN anchors : anchors[i].profile # "legacy"
        /\ anchors' = Append(anchors, LegacyRow(day, p, records))
        /\ UNCHANGED <<workload, stored, sweep>>

-----------------------------------------------------------------------------
(***************************************************************************)
(* anchor_all_days: the days are read once, from the texts of the starts,  *)
(* and closed in turn by UTC windows, each in a commit of its own.         *)
(***************************************************************************)
NoSweep == [state |-> "none", prefix |-> Absent, todo |-> {}, closed |-> {}, seen |-> {}]

\* "seen" is a history variable: the sessions listed and not finalized since.
StartSweep(p) ==
    /\ sweep = NoSweep                          \* bound: one sweep
    /\ sweep' = [state |-> "closing", prefix |-> p, closed |-> {},
                 todo |-> {TextDay(stored[s].receipt.start) : s \in Rows \cap Scope[p]},
                 seen |-> Rows \cap Scope[p]]
    /\ UNCHANGED <<workload, stored, anchors>>

SweepDay ==
    LET day == CHOOSE d \in sweep.todo : \A e \in sweep.todo : d <= e
    IN  /\ sweep.state = "closing" /\ sweep.todo # {}
        /\ IF Closing(day, sweep.prefix) = "raises"
           THEN sweep' = [sweep EXCEPT !.state = "failed"]
           ELSE sweep' = [sweep EXCEPT !.todo = @ \ {day}, !.closed = @ \cup {day}]
        /\ anchors' = IF Closing(day, sweep.prefix) = "inserts"
                      THEN Inserted(day, sweep.prefix) ELSE anchors
        /\ UNCHANGED <<workload, stored>>

-----------------------------------------------------------------------------
(***************************************************************************)
(* Finalizing through the API, and tamper.py.                              *)
(***************************************************************************)
Store(s, json) ==
    /\ stored' = [stored EXCEPT ![s] = RowsOf(s, json)]
    /\ sweep' = [sweep EXCEPT !.seen = @ \ {s}]

Finalize(s, body) ==
    /\ Accepted(Parsed(body))
    /\ Store(s, Parsed(body))
    /\ UNCHANGED <<workload, anchors>>

\* tamper_receipt_from_db: the energy of the stored receipt.  Bound: once
\* for each row.
Tampered(row) == row.receipt.energy # row.columns.energy

Tamper(s) ==
    /\ s \in Rows
    /\ ~Tampered(stored[s])
    /\ stored' = [stored EXCEPT ![s].receipt.energy = @ + 123]
    /\ UNCHANGED <<workload, anchors, sweep>>

-----------------------------------------------------------------------------
(***************************************************************************)
(* Verification of closed days; db is a sequence of anchor rows.           *)
(***************************************************************************)
MemberRecords(a) == {[session |-> m.session, start |-> m.start, hash |-> m.hash] :
                       m \in Range(a.members)}

\* commitment_from_anchor: from the memberships alone.
CommitmentFromAnchor(a) == Commitment(Normalized(MemberRecords(a)), a.context)

\* _verify_profiled_anchor.
ProfiledMatches(a) ==
    /\ Buildable(MemberRecords(a))
    /\ ValidContext(a.context)
    /\ Len(a.members) = a.count
    /\ LET c == CommitmentFromAnchor(a)
       IN  /\ \A i \in DOMAIN a.members :
                /\ a.members[i].index = i - 1
                /\ a.members[i].session = c.records[i].session
                /\ a.members[i].leaf = c.leaves[i]
           /\ c.tree = a.tree
           /\ c.root = a.root

LegacyMatches(a) == /\ LegacyRoot({m.hash : m \in Range(a.members)}) = a.root
                    /\ Len(a.members) = a.count

\* verify_anchor_from_db.
AnchorMatches(a) == IF a.profile = "v1" THEN ProfiledMatches(a) ELSE LegacyMatches(a)

\* _find_anchor_from_db: the id, 0 without a row; V1 rows come first, and
\* closing leaves at most one of them.
Newest(S) == IF S = {} THEN 0 ELSE CHOOSE i \in S : \A j \in S : j <= i

FindAnchor(db, day, p) ==
    LET rows == {i \in DOMAIN db : db[i].day = day /\ db[i].prefix = p}
        profiled == {i \in rows : db[i].profile = "v1"}
    IN  Newest(IF profiled # {} THEN profiled ELSE rows)

\* verify_day_from_db.
DayVerdict(db, day, p) ==
    LET id == FindAnchor(db, day, p)
    IN  CASE id = 0 -> "lookup_failure"
          [] id # 0 -> CASE db[id].members = <<>> -> "lookup_failure"
                         [] db[id].members # <<>> /\ AnchorMatches(db[id]) -> "pass"
                         [] db[id].members # <<>> /\ ~AnchorMatches(db[id]) -> "mismatch"

\* audit_batch_membership of a V1 row: the snapshot against today's rows.
Unchanged(m) == /\ stored[m.session].hash = m.hash
                /\ HashReceipt(stored[m.session].receipt) = m.hash
                /\ stored[m.session].start = m.start

MembershipAudit(a) ==
    /\ {m.session : m \in Range(a.members)} = Eligible(a.day, a.prefix)
    /\ \A m \in Range(a.members) : Unchanged(m)
=============================================================================
