------------------------------ MODULE Experiment ------------------------------
(***************************************************************************)
(* An experiment (src/run_experiment.py): generate and finalize sessions,  *)
(* close their day, verify it, export it and reconcile the session ids of  *)
(* all stages (src/count_reconciliation.py), while clients use the same    *)
(* database; and what the whole laboratory promises.                       *)
(***************************************************************************)
EXTENDS TamperMatrix

VARIABLES
    run,            \* the state of run_experiment
    verifications   \* verifications: the anchor ids with a committed batch verdict

vars == <<workload, stored, anchors, sweep, matrix, run, verifications>>

\* Allowed.run is Absent, or has the run's prefix and day, its session ids
\* in order, and the sessions that the generator may make of each.
NoRun == [phase |-> "none", made |-> 0, outside |-> FALSE, anchor |-> 0, verdict |-> "none",
          verified |-> {}, exported |-> {}, touched |-> {}]

\* What generate_session makes: cumulative counters that start at zero, move
\* as the type says (no power is drawn only in a registry that says so) and
\* never fall, each reading rounded to whole steps and at least a second
\* after the other, with a component each way.
Generated(session) ==
    LET mvs == session.meters
        last == mvs[Len(mvs)]
    IN  /\ IsBody(session) /\ Accepted(session)
        /\ session.type \in SessionTypes
        /\ session.start = mvs[1].ts /\ session.end = last.ts
        /\ \A i \in DOMAIN mvs :
             /\ mvs[i].ts = UtcText(mvs[i].ts.clock)
             /\ \A x \in {mvs[i].import, mvs[i].export, mvs[i].energy} : x % Sub = 0
             /\ mvs[i].energy - (mvs[i].import - mvs[i].export) \in {-Sub, 0, Sub}
        /\ \A i, j \in DOMAIN mvs : i < j =>
             /\ mvs[i].ts.clock + 2 <= mvs[j].ts.clock
             /\ mvs[i].import <= mvs[j].import /\ mvs[i].export <= mvs[j].export
        /\ mvs[1].import = 0 /\ mvs[1].export = 0
        /\ last.import = 0 <=> session.type = "discharge_only"
        /\ last.export = 0 <=> session.type = "charge_only"
        /\ <<>> \notin {session.import_components, session.export_components}

\* What clients post are bodies, and a run posts what the generator makes.
ASSUME WorkAssumption ==
    \A w \in DOMAIN Work :
      /\ \A s \in Sessions : \A body \in Work[w].posts[s] : IsBody(body)
      /\ \A c \in Work[w].closings : c[1] \in Int
      /\ Work[w].run # Absent =>
           /\ Work[w].run.day \in Int /\ Work[w].run.ids \in Seq(Sessions)
           /\ \A s \in Range(Work[w].run.ids) : \A session \in Work[w].run.sessions[s] :
                Generated(session)

Plan == Allowed.run
Requested == Range(Plan.ids)

\* persist_result inside a transaction: the rows of a session that its
\* caller owns are the caller's to commit.
Persisted(id, owns) == IF owns THEN verifications \cup {id} ELSE verifications

-----------------------------------------------------------------------------
\* The directory of a run must not exist: a run id is used once, and a run
\* that stopped half way is not taken up again.
StartRun ==
    /\ Plan # Absent /\ run.phase = "none"
    /\ run' = [run EXCEPT !.phase = "persisting"]
    /\ UNCHANGED <<workload, stored, anchors, sweep, matrix, verifications>>

InsideDay(session) == UtcDay(Instant(session.start)) = Plan.day

\* One turn of the loop of _finalize_synthetic_sessions (that all sessions
\* are generated before cannot be told apart).
PersistNext ==
    LET s == Plan.ids[run.made + 1]
    IN  /\ run.phase = "persisting" /\ run.made < Len(Plan.ids)
        /\ \E session \in Plan.sessions[s] :
             /\ Store(s, session)
             /\ run' = [run EXCEPT !.made = @ + 1, !.outside = @ \/ ~InsideDay(session),
                                   !.touched = @ \ {s}]
        /\ UNCHANGED <<workload, anchors, matrix, verifications>>

\* Sessions outside the day end the run, which has stored them by then.
CheckDay ==
    /\ run.phase = "persisting" /\ run.made = Len(Plan.ids)
    /\ run' = [run EXCEPT !.phase = IF run.outside THEN "failed" ELSE "closing"]
    /\ UNCHANGED <<workload, stored, anchors, sweep, matrix, verifications>>

CloseRun ==
    LET closing == Closing(Plan.day, Plan.prefix)
    IN  /\ run.phase = "closing"
        /\ anchors' = IF closing = "inserts" THEN Inserted(Plan.day, Plan.prefix) ELSE anchors
        /\ run' = [run EXCEPT !.phase = IF closing = "raises" THEN "failed" ELSE "verifying"]
        /\ UNCHANGED <<workload, stored, sweep, matrix, verifications>>

\* verify_day opens the database session and closes it without a commit.
\* (There is a row with memberships: the one the run closed.)
VerifyRun ==
    LET id == FindAnchor(anchors, Plan.day, Plan.prefix)
    IN  /\ run.phase = "verifying"
        /\ run' = [run EXCEPT !.phase = "exporting", !.anchor = id,
                              !.verdict = DayVerdict(anchors, Plan.day, Plan.prefix),
                              !.verified = {m.session : m \in Range(anchors[id].members)}]
        /\ verifications' = Persisted(id, FALSE)
        /\ UNCHANGED <<workload, stored, anchors, sweep, matrix>>

\* _build_run_exports: a line of sessions.csv, receipts.csv and
\* verifications.csv for every session under the prefix, with its hashes,
\* its audit, and batch_verified for every member of a row of the prefix.
Line(s) ==
    [session |-> s, match |-> ReceiptCheck(stored[s]), audit |-> SessionAudit(stored[s]),
     batch |-> \E i \in DOMAIN anchors :
                 /\ anchors[i].prefix = Plan.prefix
                 /\ \E m \in Range(anchors[i].members) : m.session = s]

ExportRun ==
    /\ run.phase = "exporting"
    /\ run' = [run EXCEPT !.phase = "reconciling",
                          !.exported = {Line(s) : s \in Rows \cap Scope[Plan.prefix]}]
    /\ UNCHANGED <<workload, stored, anchors, sweep, matrix, verifications>>

\* reconcile_experiment_counts: the session ids of every stage.  (The
\* generated ids are the requested ones.)
Stages == {Rows \cap Scope[Plan.prefix],
           Eligible(Plan.day, Plan.prefix),
           {m.session : m \in Range(anchors[run.anchor].members)},
           run.verified,
           {line.session : line \in run.exported}}

Reconciled == /\ Stages = {Requested}
              /\ Len(anchors[run.anchor].members) = anchors[run.anchor].count

ReconcileRun ==
    /\ run.phase = "reconciling"
    /\ run' = [run EXCEPT !.phase = IF Reconciled THEN "done" ELSE "mismatch"]
    /\ UNCHANGED <<workload, stored, anchors, sweep, matrix, verifications>>

-----------------------------------------------------------------------------
\* "touched" is a history variable: the sessions under the prefix that a
\* client finalized, or somebody tampered with, since the run stored them.
Meanwhile ==
    /\ Idle
    /\ run' = [run EXCEPT !.touched =
                 @ \cup IF Plan = Absent THEN {}
                        ELSE {s \in Scope[Plan.prefix] : stored'[s] # stored[s]}]
    /\ UNCHANGED <<matrix, verifications>>

RunStep ==
    /\ Idle
    /\ \/ StartRun \/ PersistNext \/ CheckDay \/ CloseRun
       \/ VerifyRun \/ ExportRun \/ ReconcileRun

Init ==
    /\ workload \in DOMAIN Work
    /\ stored = [s \in Sessions |-> Absent]
    /\ anchors = <<>>
    /\ sweep = NoSweep
    /\ matrix = NoMatrix
    /\ run = NoRun
    /\ verifications = {}

Next ==
    \/ \E s \in Sessions : \E body \in Allowed.posts[s] : Finalize(s, body) /\ Meanwhile
    \/ \E s \in Allowed.tampering : Tamper(s) /\ Meanwhile
    \/ \E c \in Allowed.closings : CloseDay(c[1], c[2]) /\ Meanwhile
    \/ \E c \in Allowed.closings : CloseLegacyDay(c[1], c[2]) /\ Meanwhile
    \/ \E p \in Allowed.sweeps : StartSweep(p) /\ Meanwhile
    \/ SweepDay /\ Meanwhile
    \/ \E call \in Allowed.matrices : StartMatrix(call) /\ UNCHANGED <<run, verifications>>
    \/ Mutate /\ UNCHANGED <<run, verifications>>
    \/ Judge /\ UNCHANGED <<run, verifications>>
    \/ RecordScenario /\ UNCHANGED <<run, verifications>>
    \/ RunStep

Spec == Init /\ [][Next]_vars

-----------------------------------------------------------------------------
(***************************************************************************)
(* Properties.                                                             *)
(***************************************************************************)
Settled == matrix.phase # "mutated"

\* The variables have the shape the code gives them.
TypeOK ==
    /\ workload \in DOMAIN Work
    /\ \A s \in Rows : /\ stored[s].receipt.session = s
                       /\ stored[s].receipt.type \in SessionTypes
                       /\ stored[s].start \in Int
    /\ \A i \in DOMAIN anchors : /\ anchors[i].profile \in {"v1", "legacy"}
                                 /\ anchors[i].count \in 1..Cardinality(Sessions)
    /\ sweep.state \in {"none", "closing", "failed"}
    /\ matrix.phase \in {"none", "ready", "mutated", "restored", "done"} /\ matrix.next \in 1..8
    /\ run.phase \in {"none", "persisting", "closing", "verifying", "exporting",
                     "reconciling", "done", "mismatch", "failed"}
    /\ verifications \subseteq DOMAIN anchors

\* Nobody touched the rows of a session: its receipt verifies; its meter
\* stream verifies exactly if every reading came with the UTC text that
\* isoformat writes, at an instant of its own, none half a second after one
\* at a whole second (".500000Z" sorts before "Z"), and the rounding of both
\* counters commutes with their difference; and the audit agrees with the
\* meter stream.  (build_receipt hashes the posted texts in text order and
\* subtracts rounded readings, where verify_meter_stream_from_db formats the
\* instants in their order and rounds the difference.)
RoundingCommutes(json) ==
    LET mvs == InTextOrder(json.meters)
        first == mvs[1]
        last == mvs[Len(mvs)]
    IN  /\ Rounded(last.import) - Rounded(first.import) = Rounded(last.import - first.import)
        /\ Rounded(last.export) - Rounded(first.export) = Rounded(last.export - first.export)

UntouchedMeterPasses ==
    Settled => \A s \in Rows : ~Tampered(stored[s]) =>
      LET mvs == stored[s].json.meters
      IN  /\ ReceiptCheck(stored[s])
          /\ MeterCheck(stored[s]) <=>
               /\ \A i \in DOMAIN mvs : mvs[i].ts = UtcText(mvs[i].ts.clock)
               /\ \A i, j \in DOMAIN mvs : mvs[i].ts.clock = mvs[j].ts.clock => i = j
               /\ \A i, j \in DOMAIN mvs :
                    mvs[j].ts.clock = mvs[i].ts.clock + 1 => mvs[i].ts.clock % 2 = 1
               /\ RoundingCommutes(stored[s].json)
          /\ AuditCheck(stored[s]) <=> MeterCheck(stored[s])

\* Cutting a tariff interval in two at any instant changes no settlement
\* (_sum_weighted_cost rounds once).
Pieces(c, at) ==
    IF Instant(c.from) < at /\ at < Instant(c.to)
    THEN <<[c EXCEPT !.to = UtcText(at)], [c EXCEPT !.from = UtcText(at)]>>
    ELSE <<c>>

Cut(components, at) == FlattenSeq([i \in DOMAIN components |-> Pieces(components[i], at)])

SplitTariffSameCost ==
    \A s \in Rows :
      LET body == stored[s].json
          summary == stored[s].receipt.summary
          settlement == stored[s].receipt.settlement
      IN  \A at \in Instant(body.start)..Instant(body.end) :
            /\ WeightedCost(body, summary.import, Cut(ImportComponents(body), at)) = settlement.cost
            /\ WeightedCost(body, summary.export, Cut(ExportComponents(body), at)) = settlement.credit

\* A proof that claims another record, another position, and only the first
\* steps of a path.
Claim(proof, r, index, steps) ==
    [proof EXCEPT !.record = r, !.leaf = LeafHash(proof.context, r), !.index = index,
                  !.siblings = [n \in 1..steps |-> proof.siblings[n]]]

\* A membership proof made from the memberships of a row verifies on its
\* own, for every member; against the stored root it verifies exactly if
\* the row still commits to its memberships.  Of the members and what the
\* receipts say now (their ids normalized, as hash_leaf does), exactly the
\* members are proven by some claim along the paths of the row: no receipt
\* that was finalized again, or belongs to another batch, and no inner node
\* passes for a member.
ProofsMatchAnchor ==
    \A i \in DOMAIN anchors :
      (anchors[i].profile = "v1" /\ anchors[i].members # <<>>) =>
        LET c == CommitmentFromAnchor(anchors[i])
            members == MemberRecords(anchors[i])
        IN  /\ \A k \in DOMAIN c.leaves :
                 /\ ProofVerifies(Proof(c, k - 1), c.root)
                 /\ ProofVerifies(Proof(c, k - 1), anchors[i].root) <=> c.root = anchors[i].root
            /\ \A r \in members \cup Normalized({Record(s) : s \in Rows}) :
                 (\E k, position \in DOMAIN c.leaves, steps \in 0..Depth(c.leaves) :
                    ProofVerifies(Claim(Proof(c, k - 1), r, position - 1, steps), c.root))
                 <=> r \in members

\* A closed day commits to its contents: any other hash or start of one
\* receipt, one receipt less, and another day give another root.
Variants(records) ==
    {records \ {r} : r \in records}
      \cup {(records \ {r}) \cup {[r EXCEPT !.hash = <<>>]} : r \in records}
      \cup {(records \ {r}) \cup {[r EXCEPT !.start = @ + 1]} : r \in records}

RootsDistinguish ==
    \A i \in DOMAIN anchors :
      (anchors[i].profile = "v1" /\ anchors[i].members # <<>> /\ Settled) =>
        LET records == MemberRecords(anchors[i])
            Root(S, day) == Commitment(S, Context(day)).root
        IN  /\ \A S \in Variants(records) \ {{}} : Root(S, anchors[i].day) # anchors[i].root
            /\ Root(records, anchors[i].day + 1) # anchors[i].root

\* A controlled change is seen by the expected layers and by no other,
\* exactly if the baseline passed and, where the anchor is changed, the row
\* the matrix selected is the one verify_day reads; and every rollback
\* restores the baseline.
MatrixMeetsExpectations ==
    \A i \in DOMAIN matrix.records :
      /\ matrix.records[i].restored = matrix.records[i].before
      /\ matrix.records[i].met <=>
           /\ matrix.records[i].before = {}
           /\ i \in {5, 6} =>
                matrix.ctx.anchor = FindAnchor(anchors, matrix.ctx.day, matrix.ctx.prefix)

\* Tampering with a stored receipt is seen by the hash, by the audit and by
\* the membership audit of every row that holds it; the rows themselves go
\* on verifying.
TamperingIsSeen ==
    Settled => \A s \in Rows : Tampered(stored[s]) =>
      /\ ~ReceiptCheck(stored[s]) /\ ~AuditCheck(stored[s])
      /\ \A i \in DOMAIN anchors :
           /\ AnchorMatches(anchors[i])
           /\ (/\ anchors[i].profile = "v1"
               /\ \E m \in Range(anchors[i].members) : m.session = s) => ~MembershipAudit(anchors[i])

\* Every session that anchor_all_days saw, and that was not finalized again
\* since, is a member of the row of its UTC day, once that day is swept:
\* although the days come from the texts, and also if a later day failed.
SweepCoversUtcDays ==
    Settled => \A s \in sweep.seen : UtcDay(stored[s].start) \in sweep.closed =>
      \E i \in DOMAIN anchors :
        /\ anchors[i].day = UtcDay(stored[s].start) /\ anchors[i].prefix = sweep.prefix
        /\ \E m \in Range(anchors[i].members) : m.session = Nfc[s] /\ m.hash = stored[s].hash

\* A run that reconciled has verified its day; and unless somebody touched
\* its sessions, every session it made is valid and passes every check, and
\* so says every line it exported.  (Reconciliation compares ids only.)
RunVerifies ==
    (run.phase = "done" /\ Settled) =>
      /\ run.verdict = "pass"
      /\ run.touched = {} =>
           /\ MembershipAudit(anchors[run.anchor])
           /\ \A s \in Requested : /\ Valid(stored[s].json, stored[s].receipt)
                                    /\ AuditCheck(stored[s]) /\ MeterCheck(stored[s])
           /\ \A line \in run.exported : line.match /\ line.audit /\ line.batch

\* Ids of the run that its batch cannot hold: the pattern made of the run id
\* does not match them, or they are not in the normal form of the batch.
Unfit == {s \in Requested : s \notin Scope[Plan.prefix] \/ Nfc[s] # s}

\* A run ends early only if it has no sessions or ids that a batch cannot
\* hold, if a session starts outside its day, if somebody touched its
\* sessions, or if somebody else closed the day before the run did, with
\* other contents; the counts of a run that closed its day differ only for
\* touched sessions or such ids.
RunFailsOnlyWhenDisturbed ==
    Settled =>
      /\ run.phase = "failed" =>
           \/ Requested = {} \/ Unfit # {} \/ run.outside \/ run.touched # {}
           \/ \E i \in ProfiledIds(Plan.day, Plan.prefix) : ~MembershipAudit(anchors[i])
      /\ run.phase = "mismatch" => Unfit # {} \/ run.touched # {}

\* The tables as they are apart from a controlled change: while there is one,
\* what the savepoint will restore.
RowsBehind(st, m) ==
    IF m.phase = "mutated" THEN [st EXCEPT ![m.ctx.session] = m.saved.row] ELSE st
TableBehind(an, m) ==
    IF m.phase = "mutated" THEN [an EXCEPT ![m.ctx.anchor] = m.saved.anchor] ELSE an

\* What a session's rows and anchors are to Ledger.
Finalized(s, row) == IsBody(row.json) /\ Accepted(row.json) /\ row = RowsOf(s, row.json)
Changed(row) == [row EXCEPT !.receipt.energy = @ + 123]
Belongs(a, s, row) == s \in Scope[a.prefix] /\ UtcDay(row.start) = a.day
EntryOf(a, s, row) ==
    IF a.profile = "v1" THEN [session |-> Nfc[s], start |-> row.start, hash |-> row.hash]
    ELSE [session |-> s, start |-> Absent, hash |-> row.hash]
OwnContext(a) == a.profile = "v1" => a.context = Context(a.day)
Closes(a) == AnchorMatches(a) /\ OwnContext(a)
OneBatch(a, b) ==
    a.profile = "v1" /\ b.profile = "v1" /\ a.day = b.day /\ a.prefix = b.prefix

\* Whatever clients, sweeps, runs and matrices do in whatever order, the
\* tables change only as Ledger says; a scenario of the matrix changes
\* nothing that its rollback does not restore.
L == INSTANCE Ledger WITH
       rows <- RowsBehind(stored, matrix), table <- TableBehind(anchors, matrix),
       NoRow <- Absent, Final <- Finalized, Altered <- Changed, Selects <- Belongs,
       Entry <- EntryOf, Entries <- MemberRecords, Verifies <- Closes, SameBatch <- OneBatch

ImplementsLedger == L!Spec

\* README.md:625 says that batch verification "writes the result to
\* verifications".
VerdictIsRecorded ==
    run.phase \in {"exporting", "reconciling", "done", "mismatch"} => run.anchor \in verifications
=============================================================================
