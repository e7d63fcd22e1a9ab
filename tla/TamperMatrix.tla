----------------------------- MODULE TamperMatrix -----------------------------
(***************************************************************************)
(* The tamper matrix (src/tamper_scenarios.py): seven controlled changes   *)
(* of one session or of its anchor, each made in a savepoint, seen by five *)
(* verification layers, and rolled back.                                   *)
(*                                                                         *)
(* The matrix runs in one transaction.  Assumption NobodyCommits: while it *)
(* runs nobody else changes the tables (Idle guards the other actions).    *)
(***************************************************************************)
EXTENDS Verification

VARIABLE matrix    \* the state of run_tamper_matrix

NoMatrix == [phase |-> "none", ctx |-> Absent, next |-> 1, before |-> {}, after |-> {},
             saved |-> Absent, records |-> <<>>]

\* Bound: nothing happens after the matrix, which restored what it found.
Idle == matrix.phase = "none"

Layers == {"receipt", "meter", "audit", "batch", "chain"}

\* SCENARIOS: the layers that are expected to detect each, T1 to T7.
Expected == <<{"receipt", "audit"}, {"meter", "audit"}, {"meter", "audit"}, {"audit"},
              {"batch"}, {"batch", "chain"}, {"chain"}>>

\* _incorrect_root: no root is empty.
IncorrectRoot == <<>>

-----------------------------------------------------------------------------
\* _select_anchor: an explicit id, or the newest row of the day and prefix.
SelectAnchor(call) ==
    IF call.anchor # 0 THEN call.anchor
    ELSE Newest({i \in DOMAIN anchors : /\ anchors[i].day = call.day
                                        /\ anchors[i].prefix = call.prefix})

\* _assert_invariants.
Ready(call, id) ==
    /\ id \in DOMAIN anchors
    /\ call.session \in Rows
    /\ Cardinality(DOMAIN stored[call.session].meters) >= 3
    /\ \E m \in Range(anchors[id].members) : m.session = call.session
    /\ Len(anchors[id].members) = anchors[id].count
    /\ AnchorMatches(anchors[id])

\* The layers of _checks that do not pass, for a row, the anchors and the
\* root that the injected reader returns.
Failing(row, db, ctx, chainRoot) ==
    {l \in Layers :
       CASE l = "receipt" -> ~ReceiptCheck(row)
         [] l = "meter" -> ~MeterCheck(row)
         [] l = "audit" -> ~AuditCheck(row)
         [] l = "batch" -> DayVerdict(db, ctx.day, ctx.prefix) # "pass"
         [] l = "chain" -> \/ db[ctx.anchor].root # chainRoot
                           \/ db[ctx.anchor].count # ctx.count}

\* The middle row of the readings as they were posted, and what is left
\* without it.
Middle(meters) == Arranged(DOMAIN meters, LAMBDA i, j : i < j)[Cardinality(DOMAIN meters) \div 2 + 1]

MutatedRow(row, scenario) ==
    LET mid == Middle(row.meters)
    IN  CASE scenario = 1 -> [row EXCEPT !.receipt.energy = @ + 123]
          [] scenario = 2 -> [row EXCEPT !.meters[mid].import = Sub * (Rounded(@) + 111)]
          [] scenario = 3 -> [row EXCEPT !.meters = Restrict(@, DOMAIN @ \ {mid})]
          [] scenario = 4 -> [row EXCEPT !.columns.root = IncorrectRoot]
          [] scenario \notin 1..4 -> row

\* T5 removes the membership of the session, T6 replaces the stored root.
MutatedAnchor(a, session, scenario) ==
    CASE scenario = 5 -> [a EXCEPT !.members = RemoveFirstMatch(@, LAMBDA m : m.session = session)]
      [] scenario = 6 -> [a EXCEPT !.root = IncorrectRoot]
      [] scenario \notin 5..6 -> a

-----------------------------------------------------------------------------
StartMatrix(call) ==
    LET id == SelectAnchor(call)
    IN  /\ matrix = NoMatrix                    \* bound: one matrix
        /\ Ready(call, id)
        /\ matrix' = [NoMatrix EXCEPT
                        !.phase = "ready",
                        !.ctx = [day |-> call.day, prefix |-> call.prefix,
                                 session |-> call.session, anchor |-> id,
                                 root |-> anchors[id].root, count |-> anchors[id].count]]
        /\ UNCHANGED <<workload, stored, anchors, sweep>>

\* The baseline checks, the savepoint and _mutate.
Mutate ==
    LET ctx == matrix.ctx
        s == ctx.session
    IN  /\ matrix.phase = "ready" /\ matrix.next <= 7
        /\ stored' = [stored EXCEPT ![s] = MutatedRow(@, matrix.next)]
        /\ anchors' = [anchors EXCEPT ![ctx.anchor] = MutatedAnchor(@, s, matrix.next)]
        /\ matrix' = [matrix EXCEPT
                        !.phase = "mutated",
                        !.before = Failing(stored[s], anchors, ctx, ctx.root),
                        !.saved = [row |-> stored[s], anchor |-> anchors[ctx.anchor]]]
        /\ UNCHANGED <<workload, sweep>>

\* Fault: the rollback forgets the receipt row.
RolledBackAnchor == /\ stored' = stored
                    /\ anchors' = [anchors EXCEPT ![matrix.ctx.anchor] = matrix.saved.anchor]

RolledBack == /\ stored' = [stored EXCEPT ![matrix.ctx.session] = matrix.saved.row]
              /\ anchors' = [anchors EXCEPT ![matrix.ctx.anchor] = matrix.saved.anchor]

\* The checks of the mutated tables, and the rollback of the savepoint.
Judge ==
    LET ctx == matrix.ctx
    IN  /\ matrix.phase = "mutated"
        /\ RolledBack
        /\ matrix' = [matrix EXCEPT
                        !.phase = "restored", !.saved = Absent,
                        !.after = Failing(stored[ctx.session], anchors, ctx,
                                          IF matrix.next = 7 THEN IncorrectRoot ELSE ctx.root)]
        /\ UNCHANGED <<workload, sweep>>

\* The checks of what was restored, and the record: expected_behavior_met.
RecordScenario ==
    LET ctx == matrix.ctx
        With(restored) ==
          [met |-> matrix.before = {} /\ matrix.after = Expected[matrix.next] /\ restored = {},
           before |-> matrix.before, restored |-> restored]
    IN  /\ matrix.phase = "restored"
        /\ matrix' = [matrix EXCEPT
                        !.phase = IF matrix.next = 7 THEN "done" ELSE "ready",
                        !.next = @ + 1, !.before = {}, !.after = {},
                        !.records = Append(@, With(Failing(stored[ctx.session], anchors, ctx,
                                                           ctx.root)))]
        /\ UNCHANGED <<workload, stored, anchors, sweep>>

=============================================================================
