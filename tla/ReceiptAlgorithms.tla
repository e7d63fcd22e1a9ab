-------------------------- MODULE ReceiptAlgorithms --------------------------
(***************************************************************************)
(* From a posted session to its receipt (src/receipt_builder.py, the       *)
(* checks of receipt_schema.py and the normal form of                      *)
(* receipt_canonicalization.py), the rows that store both, and what        *)
(* recomputes one from the other: src/meter_verifier.py, verifier.py,      *)
(* audit_service.py, session_validation.py and the audit of                *)
(* run_experiment.py; and the sessions that synthetic_sessions.py makes.   *)
(*                                                                         *)
(* Energies and amounts are integers: stored and printed values count      *)
(* steps of 0.001 (Wh, or mEUR), what a client posts counts Sub-ths of a   *)
(* step.  Sub is odd, so no value lies half way between two steps, where   *)
(* the rounding of floats and of decimals would differ.                    *)
(***************************************************************************)
EXTENDS BatchMerkle, Functions

CONSTANTS
    Sub,        \* parts of a step
    Grid,       \* steps in one kWh, and in one EUR per kWh: 1000
    Offset,     \* what a local clock is ahead of UTC, in half seconds
    Missing     \* JSON null

ASSUME ReceiptConstants ==
    /\ Sub \in Nat /\ Sub % 2 = 1
    /\ Grid \in Nat \ {0}
    /\ Offset \in Nat /\ Offset % 2 = 0 /\ DayLength % 2 = 0

RoundedRatio(a, b) == (2 * a + b) \div (2 * b)
Rounded(x) == RoundedRatio(x, Sub)

-----------------------------------------------------------------------------
(***************************************************************************)
(* Timestamps are texts: the clock they show, in half seconds; how they    *)
(* end; and whether the fraction of the second is written as isoformat     *)
(* writes it ("" or ".500000") or in another way (".000" or ".5").         *)
(***************************************************************************)
Zones == {"naive", "local", "utc"}    \* "", "+01:00" (or, without Offset, "+00:00"), "Z"
Timestamp == [clock : Nat, zone : Zones, plain : BOOLEAN]

\* _parse_ts of repository.py; a text without zone counts as UTC.
Instant(ts) == ts.clock - IF ts.zone = "local" THEN Offset ELSE 0

\* _canonical_ts: the text that isoformat writes, with its offset as "Z".
UtcText(instant) == [clock |-> instant, zone |-> "utc", plain |-> TRUE]

UtcDay(instant) == instant \div DayLength
TextDay(ts) == ts.clock \div DayLength      \* the first ten characters

\* What follows the seconds of a text, in the order of the characters: "+"
\* comes before ".", then the digits, then "Z".
EndingRank(ts) ==
    LET ranks == CASE ts.zone = "naive" -> <<0, 2, 7, 5>>
                   [] ts.zone = "local" -> <<1, 3, 8, 6>>
                   [] ts.zone = "utc" -> <<11, 4, 9, 10>>
             \* with the fraction          "", ".000", ".500000", ".5"
    IN  ranks[2 * (ts.clock % 2) + IF ts.plain THEN 1 ELSE 2]

Second(ts) == ts.clock \div 2

TextBefore(t, u) == \/ Second(t) < Second(u)
                    \/ Second(t) = Second(u) /\ EndingRank(t) < EndingRank(u)

-----------------------------------------------------------------------------
(***************************************************************************)
(* What a client may post: the request models of api_schemas.py let any    *)
(* type pass, and a counter of a reading may be null.                      *)
(***************************************************************************)
Readings == [ts : Timestamp, import : Int \cup {Missing}, export : Int \cup {Missing}, energy : Int]
Parts == [from : Timestamp, to : Timestamp, price : Int]

IsBody(body) ==
    body \in [type : {body.type}, start : Timestamp, end : Timestamp, meters : Seq(Readings),
              components : Seq(Parts), import_components : Seq(Parts), export_components : Seq(Parts)]

-----------------------------------------------------------------------------
(***************************************************************************)
(* build_receipt.                                                          *)
(***************************************************************************)
SessionTypes == {"charge_only", "discharge_only", "bidirectional"}

Coerced(mv) == [ts |-> mv.ts, import |-> Rounded(mv.import), export |-> Rounded(mv.export)]

\* sorted() by the text of the timestamps, which keeps the order of equals.
EarlierText(mvs, i, j) == \/ TextBefore(mvs[i].ts, mvs[j].ts)
                          \/ mvs[i].ts = mvs[j].ts /\ i < j

InTextOrder(mvs) ==
    LET order == Arranged(DOMAIN mvs, LAMBDA i, j : EarlierText(mvs, i, j))
    IN  Evaluated([i \in DOMAIN mvs |-> mvs[order[i]]])

\* _normalize_meter_values; the counters are compared after rounding.
MeterValues(body) ==
    LET mvs == InTextOrder(body.meters)
    IN  Evaluated([i \in DOMAIN mvs |-> Coerced(mvs[i])])

Monotone(mvs) == \A i, j \in DOMAIN mvs :
                   i <= j => mvs[i].import <= mvs[j].import /\ mvs[i].export <= mvs[j].export

MeterLeaf(mv) == <<mv.ts, mv.import, mv.export>>
MeterRoot(mvs) == TreeRoot(Evaluated([i \in DOMAIN mvs |-> MeterLeaf(mvs[i])]))

\* _pricing_components, _export_components: an empty list falls back.
ImportComponents(body) ==
    IF body.import_components # <<>> THEN body.import_components ELSE body.components
ExportComponents(body) ==
    IF body.export_components # <<>> THEN body.export_components ELSE body.components

Least(a, b) == IF a < b THEN a ELSE b
Greatest(a, b) == IF a < b THEN b ELSE a

\* Seconds of the session in a component's interval.
Overlap(body, c) ==
    Greatest(0, Least(Instant(body.end), Instant(c.to))
                - Greatest(Instant(body.start), Instant(c.from)))

\* What a list adds up to.
Total(s) ==
    LET sum[n \in 0..Len(s)] == IF n = 0 THEN 0 ELSE sum[n - 1] + s[n]
    IN  sum[Len(s)]

\* Fault: the share of every component is rounded to an amount of its own.
CostPerComponent(body, energy, components) ==
    LET seconds == Instant(body.end) - Instant(body.start)
    IN  IF seconds <= 0 THEN 0
        ELSE Total([i \in DOMAIN components |->
               RoundedRatio(energy * Overlap(body, components[i]) * components[i].price,
                            seconds * Grid * Sub)])

\* _sum_weighted_cost: the energy is spread evenly over the session, and the
\* sum is rounded.
Weights(body, components) ==
    [i \in DOMAIN components |-> Overlap(body, components[i]) * components[i].price]

WeightedCost(body, energy, components) ==
    LET seconds == Instant(body.end) - Instant(body.start)
    IN  IF seconds <= 0 THEN 0
        ELSE RoundedRatio(energy * Total(Weights(body, components)), seconds * Grid * Sub)

\* Fault: whatever type is posted is kept.
TypeAsPosted(type, import, export) == type

\* _derive_session_type.
SessionType(type, import, export) ==
    CASE type \in SessionTypes -> type
      [] type \notin SessionTypes /\ import > 0 /\ export > 0 -> "bidirectional"
      [] type \notin SessionTypes /\ import <= 0 /\ export > 0 -> "discharge_only"
      [] type \notin SessionTypes /\ export <= 0 -> "charge_only"

\* _profile_components: the price is printed with three decimals.
Profiled(components) ==
    [i \in DOMAIN components |-> [components[i] EXCEPT !.price = Rounded(@)]]

Summary(import, export) == [import |-> import, export |-> export, net |-> import - export]
Settlement(cost, credit) == [cost |-> cost, credit |-> credit, net |-> cost - credit]

Receipt(session, body) ==
    LET Built(mvs, sum) ==
          [session |-> session, type |-> SessionType(body.type, sum.import, sum.export),
           start |-> body.start, end |-> body.end, energy |-> sum.net, summary |-> sum,
           components |-> Profiled(body.components),
           import_components |-> Profiled(ImportComponents(body)),
           export_components |-> Profiled(ExportComponents(body)),
           settlement |-> Settlement(WeightedCost(body, sum.import, ImportComponents(body)),
                                     WeightedCost(body, sum.export, ExportComponents(body))),
           root |-> MeterRoot(mvs)]
        From(mvs) == Built(mvs, Summary(mvs[Len(mvs)].import - mvs[1].import,
                                        mvs[Len(mvs)].export - mvs[1].export))
    IN  From(MeterValues(body))

\* What makes build_receipt or hash_receipt raise, so that finalize_session
\* answers 400: a null counter, a falling counter, a single reading, and a
\* timestamp without zone anywhere but in the readings.
Components(body) ==
    {body.components[i] : i \in DOMAIN body.components}
      \cup {body.import_components[i] : i \in DOMAIN body.import_components}
      \cup {body.export_components[i] : i \in DOMAIN body.export_components}

Accepted(body) ==
    /\ Len(body.meters) >= 2
    /\ \A i \in DOMAIN body.meters : Missing \notin {body.meters[i].import, body.meters[i].export}
    /\ Monotone(MeterValues(body))
    /\ "naive" \notin {body.start.zone, body.end.zone}
    /\ \A c \in Components(body) : "naive" \notin {c.from.zone, c.to.zone}

\* hash_receipt: instants stand for timestamps, everything else is hashed as
\* it is printed.
Printed(components) ==
    [i \in DOMAIN components |->
       [components[i] EXCEPT !.from = Instant(@), !.to = Instant(@)]]

\* Fault: the hash leaves the energy out.
HashWithoutEnergy(r) ==
    [r EXCEPT !.energy = 0, !.start = Instant(@), !.end = Instant(@),
              !.components = Printed(@), !.import_components = Printed(@),
              !.export_components = Printed(@)]

HashReceipt(r) ==
    [r EXCEPT !.start = Instant(@), !.end = Instant(@),
              !.components = Printed(@), !.import_components = Printed(@),
              !.export_components = Printed(@)]

-----------------------------------------------------------------------------
(***************************************************************************)
(* The rows of a finalized session (persist_finalized_session): the        *)
(* session's JSON, the meter_values rows by sample_index, and the receipts *)
(* row with its columns.                                                   *)
(***************************************************************************)
\* The model FinalizeSessionRequest fills in a session type.
Parsed(body) == [body EXCEPT !.type = IF @ = Missing THEN "charge_only" ELSE @]

Columns(r) == [energy |-> r.energy, import |-> r.summary.import, export |-> r.summary.export,
               net |-> r.summary.net, root |-> r.root, type |-> r.type]

RowsOf(session, json) ==
    LET With(r) ==
          [json |-> json,
           meters |-> [i \in 0..(Len(json.meters) - 1) |->
                         [at |-> Instant(json.meters[i + 1].ts),
                          import |-> json.meters[i + 1].import,
                          export |-> json.meters[i + 1].export]],
           receipt |-> r, hash |-> HashReceipt(r), start |-> Instant(r.start),
           columns |-> Columns(r)]
    IN  With(Receipt(session, json))

-----------------------------------------------------------------------------
(***************************************************************************)
(* Verification of the rows.                                               *)
(***************************************************************************)
\* verify_session_from_db.
ReceiptCheck(row) == HashReceipt(row.receipt) = row.hash

\* The meter rows in the order of the query.
Samples(row) ==
    LET order == Arranged(DOMAIN row.meters,
                          LAMBDA i, j : \/ row.meters[i].at < row.meters[j].at
                                        \/ row.meters[i].at = row.meters[j].at /\ i < j)
    IN  Evaluated([k \in DOMAIN order |-> row.meters[order[k]]])

\* Fault: the differences are not taken from the stored readings but from
\* their rounded values.
EnergyOfRounded(samples) ==
    Summary(Rounded(samples[Len(samples)].import) - Rounded(samples[1].import),
            Rounded(samples[Len(samples)].export) - Rounded(samples[1].export))

\* _energy_summary: the difference of the readings as posted is rounded,
\* where build_receipt takes the difference of rounded readings.
EnergySummary(samples) ==
    Summary(Rounded(samples[Len(samples)].import - samples[1].import),
            Rounded(samples[Len(samples)].export - samples[1].export))

\* verify_meter_stream_from_db: leaves with the UTC text of the instants; the
\* number of rows must be the greatest index plus one; no two instants equal.
InUtc(sample) == [ts |-> UtcText(sample.at), import |-> sample.import, export |-> sample.export]

MeterCheck(row) ==
    LET SameRoot(samples) ==
          MeterRoot([k \in DOMAIN samples |-> Coerced(InUtc(samples[k]))]) = row.receipt.root
        SameEnergy(energy) == /\ energy = row.receipt.summary
                              /\ \A f \in DOMAIN energy : energy[f] = row.columns[f]
        Agrees(samples) == SameRoot(samples) /\ SameEnergy(EnergySummary(samples))
    IN  /\ \A i \in DOMAIN row.meters : i < Cardinality(DOMAIN row.meters)
        /\ \A i, j \in DOMAIN row.meters : row.meters[i].at = row.meters[j].at => i = j
        /\ Agrees(Samples(row))

\* audit_session: the receipt is built again from the session's JSON.
AuditCheck(row) ==
    LET Agrees(rebuilt) == rebuilt = row.receipt /\ HashReceipt(rebuilt) = row.hash
    IN  /\ Agrees(Receipt(row.receipt.session, row.json))
        /\ ReceiptCheck(row)
        /\ Columns(row.receipt) = row.columns
        /\ MeterCheck(row)

\* _session_audit of run_experiment.py, from the session's JSON alone: first
\* and last reading as posted, and a component list counts although it is
\* empty.  (A generated session has an energy_summary of its own: the same
\* differences.  Posted ones are taken to have none.)
SessionAudit(row) ==
    LET Agrees(sum) ==
          /\ row.receipt.summary = sum
          /\ row.receipt.settlement.net =
               WeightedCost(row.json, sum.import, row.json.import_components)
                 - WeightedCost(row.json, sum.export, row.json.export_components)
    IN  Agrees(EnergySummary(row.json.meters))

-----------------------------------------------------------------------------
(***************************************************************************)
(* Synthetic sessions, and validate_session_receipt.                       *)
(***************************************************************************)
\* generate_meter_values: a bidirectional session discharges in a window of
\* the intervals that never contains the last one.
DischargeIntervals(type, intervals) ==
    CASE type = "charge_only" -> {{}}
      [] type = "discharge_only" -> {1..intervals}
      [] type = "bidirectional" ->
           {from..(from + points - 1) : from \in 1..(intervals - 1), points \in 1..((intervals - 1) \div 2 + 1)}
             \cap SUBSET (1..(intervals - 1))

\* Readings of cumulative counters, each rounded: deltas holds the energy of
\* every interval.
GeneratedReadings(start, interval, deltas, discharge) ==
    LET Sum(S) == SumFunctionOnSet(deltas, S)
        import == [i \in 0..Len(deltas) |-> Sum(1..i \ discharge)]
        export == [i \in 0..Len(deltas) |-> Sum(1..i \cap discharge)]
    IN  Evaluated([k \in 1..(Len(deltas) + 1) |->
          [ts |-> UtcText(start + (k - 1) * interval),
           import |-> Sub * Rounded(import[k - 1]), export |-> Sub * Rounded(export[k - 1]),
           energy |-> Sub * Rounded(import[k - 1] - export[k - 1])]])

\* generate_session: one component over the whole session each way.
GeneratedSession(type, start, interval, deltas, discharge, price) ==
    LET mvs == GeneratedReadings(start, interval, deltas, discharge)
        component == [from |-> mvs[1].ts, to |-> mvs[Len(mvs)].ts, price |-> Sub * price]
    IN  [type |-> type, start |-> mvs[1].ts, end |-> mvs[Len(mvs)].ts, meters |-> mvs,
         components |-> <<>>, import_components |-> <<component>>,
         export_components |-> <<component>>]

\* Fault: the energy of a reading must be exactly the difference of its counters.
EnergyIsExact(mv) == mv.energy = mv.import - mv.export

\* _nearly_equal, with its tolerance of one and a half steps.
EnergyIsClose(mv) ==
    LET gap == Rounded(mv.import - mv.export) - Rounded(mv.energy)
    IN  gap \in {-1, 0, 1}

\* Whether the counters move the way the type says.
MovesAsTyped(session) ==
    LET Moves(sum) ==
          CASE session.type = "charge_only" -> sum.import > 0 /\ sum.export = 0
            [] session.type = "discharge_only" -> sum.import = 0 /\ sum.export > 0
            [] session.type = "bidirectional" -> sum.import > 0 /\ sum.export > 0
    IN  Moves(EnergySummary(session.meters))

\* validate_session_receipt finds nothing (texts are not empty, the receipt
\* has its fields and its hash).
Valid(session, r) ==
    LET mvs == session.meters
    IN  /\ Instant(session.start) < Instant(session.end)
        /\ \A i, j \in DOMAIN mvs : i <= j =>
             /\ Instant(mvs[i].ts) <= Instant(mvs[j].ts)
             /\ mvs[i].import <= mvs[j].import /\ mvs[i].export <= mvs[j].export
        /\ \A i \in DOMAIN mvs : mvs[i].import >= 0 /\ mvs[i].export >= 0 /\ EnergyIsClose(mvs[i])
        /\ MovesAsTyped(session)
        /\ MeterRoot([i \in DOMAIN mvs |-> Coerced(InTextOrder(mvs)[i])]) = r.root
=============================================================================
