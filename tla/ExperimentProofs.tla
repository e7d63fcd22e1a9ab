-------------------------- MODULE ExperimentProofs --------------------------
(***************************************************************************)
(* Proofs about Experiment: receipts, closed days, sweeps and the tamper   *)
(* matrix, for any sessions, bodies and work.                              *)
(***************************************************************************)
EXTENDS Experiment, MerkleProofs

-----------------------------------------------------------------------------
(***************************************************************************)
(* Receipts.                                                               *)
(***************************************************************************)
\* A body as a client posts it, which is accepted.
Good(json) == IsBody(json) /\ Accepted(json)

\* The fields of a posted body.
LEMMA BodyFields ==
  ASSUME NEW json, IsBody(json)
  PROVE  /\ json.start \in Timestamp /\ json.end \in Timestamp
         /\ json.meters \in Seq(Readings)
         /\ json.components \in Seq(Parts)
         /\ json.import_components \in Seq(Parts) /\ json.export_components \in Seq(Parts)
BY DEF IsBody

\* Filling in the session type leaves a body.
LEMMA ParsedBody ==
  ASSUME NEW json, IsBody(json)
  PROVE  IsBody(Parsed(json))
BY DEF IsBody, Parsed

\* The parts of a timestamp, its instant and its day.
LEMMA TimestampFields ==
  ASSUME NEW ts \in Timestamp
  PROVE  /\ ts.clock \in Nat /\ ts.zone \in Zones /\ Instant(ts) \in Int /\ TextDay(ts) \in Int
         /\ ts.plain \in BOOLEAN /\ ts = [clock |-> ts.clock, zone |-> ts.zone, plain |-> ts.plain]
BY ReceiptConstants, MerkleConstants DEF Timestamp, Instant, TextDay

\* The clock of a UTC text is its instant.
LEMMA UtcInstant ==
  ASSUME NEW ts \in Timestamp, ts.zone = "utc"
  PROVE  Instant(ts) = ts.clock /\ ts.clock \in Nat
<1>1. ts.clock \in Nat
  BY TimestampFields
<1> QED  BY <1>1 DEF Instant

\* The text of an instant.
LEMMA UtcTextFacts ==
  ASSUME NEW ts \in Timestamp, ts = UtcText(ts.clock)
  PROVE  ts.zone = "utc" /\ ts.plain = TRUE /\ Instant(ts) = ts.clock /\ ts.clock \in Nat
<1>1. ts.zone = "utc" /\ ts.plain = TRUE
  BY DEF UtcText
<1> QED  BY <1>1, UtcInstant

\* Where the endings stand in the order of the characters.
LEMMA EndingRanks ==
  ASSUME NEW ts \in Timestamp
  PROVE  /\ ts.clock % 2 \in {0, 1} /\ Second(ts) \in Int
         /\ ts.clock = 2 * Second(ts) + (ts.clock % 2)
         /\ EndingRank(ts) =
              IF ts.clock % 2 = 0
              THEN IF ts.plain
                   THEN IF ts.zone = "naive" THEN 0 ELSE IF ts.zone = "local" THEN 1 ELSE 11
                   ELSE IF ts.zone = "naive" THEN 2 ELSE IF ts.zone = "local" THEN 3 ELSE 4
              ELSE IF ts.plain
                   THEN IF ts.zone = "naive" THEN 7 ELSE IF ts.zone = "local" THEN 8 ELSE 9
                   ELSE IF ts.zone = "naive" THEN 5 ELSE IF ts.zone = "local" THEN 6 ELSE 10
<1>1. ts.clock \in Nat /\ ts.zone \in Zones /\ ts.plain \in BOOLEAN
  BY TimestampFields
<1>2. ts.clock % 2 \in {0, 1} /\ Second(ts) \in Int /\ ts.clock = 2 * Second(ts) + (ts.clock % 2)
  BY <1>1 DEF Second
<1>3. 2 * 0 + 1 = 1 /\ 2 * 0 + 2 = 2 /\ 2 * 1 + 1 = 3 /\ 2 * 1 + 2 = 4
  OBVIOUS
<1>4. CASE ts.zone = "naive"
  BY <1>2, <1>3, <1>4 DEF EndingRank
<1>5. CASE ts.zone = "local"
  BY <1>2, <1>3, <1>5 DEF EndingRank
<1>6. CASE ts.zone = "utc"
  BY <1>2, <1>3, <1>6 DEF EndingRank
<1> QED  BY <1>1, <1>2, <1>4, <1>5, <1>6 DEF Zones

\* A text is known by its seconds and its ending.
LEMMA EndingsDiffer ==
  ASSUME NEW t \in Timestamp, NEW u \in Timestamp,
         Second(t) = Second(u), EndingRank(t) = EndingRank(u)
  PROVE  t = u
<1>1. /\ t.zone \in Zones /\ t.plain \in BOOLEAN /\ u.zone \in Zones /\ u.plain \in BOOLEAN
      /\ t = [clock |-> t.clock, zone |-> t.zone, plain |-> t.plain]
      /\ u = [clock |-> u.clock, zone |-> u.zone, plain |-> u.plain]
  BY TimestampFields
<1>2. t.clock % 2 = u.clock % 2 /\ t.zone = u.zone /\ (t.plain <=> u.plain)
  BY <1>1, EndingRanks DEF Zones
<1>3. t.clock = u.clock
  BY <1>2, EndingRanks
<1>4. t.plain = u.plain
  BY <1>1, <1>2
<1> QED  BY <1>1, <1>2, <1>3, <1>4

\* UTC texts of different seconds come in the order of their instants; in a
\* second, the half comes before the whole.
LEMMA UtcOrder ==
  ASSUME NEW t \in Timestamp, t = UtcText(t.clock), NEW u \in Timestamp, u = UtcText(u.clock)
  PROVE  /\ TextBefore(t, u) => t.clock < u.clock \/ (t.clock = u.clock + 1 /\ u.clock % 2 = 0)
         /\ u.clock = t.clock + 1 /\ t.clock % 2 = 0 => ~TextBefore(t, u)
         /\ t.clock + 2 <= u.clock => TextBefore(t, u)
<1>1. /\ t.zone = "utc" /\ t.plain = TRUE /\ t.clock \in Nat
      /\ u.zone = "utc" /\ u.plain = TRUE /\ u.clock \in Nat
  BY UtcTextFacts
<1> DEFINE a == t.clock
           b == u.clock
           x == Second(t)
           y == Second(u)
           p == a % 2
           q == b % 2
<1>2. /\ EndingRank(t) = (IF p = 0 THEN 11 ELSE 9) /\ p \in {0, 1} /\ x \in Int /\ a = 2 * x + p
      /\ EndingRank(u) = (IF q = 0 THEN 11 ELSE 9) /\ q \in {0, 1} /\ y \in Int /\ b = 2 * y + q
  BY <1>1, EndingRanks
<1>3. TextBefore(t, u) <=> x < y \/ (x = y /\ EndingRank(t) < EndingRank(u))
  BY DEF TextBefore
<1>4. a \in Nat /\ b \in Nat
  BY <1>1
<1> HIDE DEF a, b, x, y, p, q
<1>5. TextBefore(t, u) <=> x < y \/ (x = y /\ p = 1 /\ q = 0)
  BY <1>2, <1>3
<1>6. /\ TextBefore(t, u) => a < b \/ (a = b + 1 /\ q = 0)
      /\ b = a + 1 /\ p = 0 => ~TextBefore(t, u)
      /\ a + 2 <= b => TextBefore(t, u)
  BY <1>2, <1>4, <1>5
<1> QED  BY <1>6 DEF a, b, p, q

\* The readings by their texts, equal ones in the order they came.
TextPairs(mvs) == {ij \in (DOMAIN mvs) \X (DOMAIN mvs) : EarlierText(mvs, ij[1], ij[2])}

\* The pairs are those of the order.
LEMMA TextPairsAre ==
  ASSUME NEW mvs, NEW i \in DOMAIN mvs, NEW j \in DOMAIN mvs
  PROVE  <<i, j>> \in TextPairs(mvs) <=> EarlierText(mvs, i, j)
<1> DEFINE D == DOMAIN mvs
           R == TextPairs(mvs)
<1>1. R = {ij \in D \X D : EarlierText(mvs, ij[1], ij[2])}
  BY DEF TextPairs
<1> HIDE DEF D, R
<1>2. \A x, y \in D : <<x, y>> \in R <=> EarlierText(mvs, x, y)
  BY <1>1
<1> QED  BY <1>2 DEF D, R

\* Texts and positions order the readings totally.
LEMMA TextTotal ==
  ASSUME NEW mvs \in Seq(Readings)
  PROVE  TotalOrder(DOMAIN mvs, TextPairs(mvs))
<1> DEFINE D == DOMAIN mvs
           R == TextPairs(mvs)
           B(i, j) == TextBefore(mvs[i].ts, mvs[j].ts)
           E(i, j) == mvs[i].ts = mvs[j].ts
<1>1. D \subseteq Nat /\ \A i \in D : mvs[i].ts \in Timestamp
  <2>1. mvs \in [1..Len(mvs) -> Readings] /\ D = 1..Len(mvs) /\ Len(mvs) \in Nat
    BY LenProperties
  <2>2. \A i \in D : mvs[i] \in Readings
    BY <2>1
  <2>3. \A mv \in Readings : mv.ts \in Timestamp
    BY DEF Readings
  <2> QED  BY <2>1, <2>2, <2>3
<1>2. \A i, j \in D : <<i, j>> \in R <=> (B(i, j) \/ (E(i, j) /\ i < j))
  <2>1. \A i, j \in D : <<i, j>> \in R <=> EarlierText(mvs, i, j)
    BY TextPairsAre
  <2> QED  BY <2>1 DEF EarlierText
<1>3. \A t, u, v \in Timestamp :
        /\ ~TextBefore(t, t)
        /\ TextBefore(t, u) /\ TextBefore(u, v) => TextBefore(t, v)
        /\ t = u \/ TextBefore(t, u) \/ TextBefore(u, t)
  <2>1. \A t \in Timestamp : Second(t) \in Int /\ EndingRank(t) \in Int
    BY EndingRanks
  <2>2. \A t, u \in Timestamp : Second(t) = Second(u) /\ EndingRank(t) = EndingRank(u) => t = u
    BY EndingsDiffer
  <2>3. ASSUME NEW t \in Timestamp, NEW u \in Timestamp, NEW v \in Timestamp
        PROVE  /\ ~TextBefore(t, t)
               /\ TextBefore(t, u) /\ TextBefore(u, v) => TextBefore(t, v)
               /\ t = u \/ TextBefore(t, u) \/ TextBefore(u, t)
    BY <2>1, <2>2 DEF TextBefore
  <2> QED  BY <2>3
<1> HIDE DEF D, R, B, E
<1>4. \A i \in D : ~(<<i, i>> \in R)
  BY <1>1, <1>2, <1>3 DEF B
<1>5. ASSUME NEW i \in D, NEW j \in D, NEW k \in D, <<i, j>> \in R, <<j, k>> \in R
      PROVE  <<i, k>> \in R
  <2>1. (B(i, j) \/ (E(i, j) /\ i < j)) /\ (B(j, k) \/ (E(j, k) /\ j < k))
    BY <1>2, <1>5
  <2>2. B(i, j) /\ B(j, k) => B(i, k)
    BY <1>1, <1>3 DEF B
  <2>3. /\ E(i, j) /\ B(j, k) => B(i, k)
        /\ B(i, j) /\ E(j, k) => B(i, k)
        /\ E(i, j) /\ E(j, k) => E(i, k)
    BY DEF B, E
  <2>4. i < j /\ j < k => i < k
    BY <1>1
  <2> QED  BY <1>2, <2>1, <2>2, <2>3, <2>4
<1>6. ASSUME NEW i \in D, NEW j \in D, i # j
      PROVE  <<i, j>> \in R \/ <<j, i>> \in R
  <2>1. E(i, j) \/ B(i, j) \/ B(j, i)
    BY <1>1, <1>3 DEF B, E
  <2>2. i < j \/ j < i
    BY <1>1, <1>6
  <2>3. E(i, j) => E(j, i)
    BY DEF E
  <2> QED  BY <1>2, <2>1, <2>2, <2>3
<1> QED  BY <1>4, <1>5, <1>6 DEF TotalOrder, D, R

\* Sorting by text is ranking by that order.
LEMMA TextArranged ==
  ASSUME NEW mvs \in Seq(Readings)
  PROVE  LET order == Ranked(1..Len(mvs), TextPairs(mvs))
         IN  /\ Len(mvs) \in Nat /\ Cardinality(1..Len(mvs)) = Len(mvs)
             /\ TotalOrder(1..Len(mvs), TextPairs(mvs))
             /\ order \in [1..Len(mvs) -> 1..Len(mvs)]
             /\ InTextOrder(mvs) = [i \in 1..Len(mvs) |-> mvs[order[i]]]
<1> DEFINE n == Len(mvs)
           D == DOMAIN mvs
           R == TextPairs(mvs)
           Before(i, j) == EarlierText(mvs, i, j)
           c(i) == CHOOSE x \in D : Cardinality({y \in D : Before(y, x)}) = i - 1
           d(i) == CHOOSE x \in D : Cardinality(Below(D, R, x)) = i - 1
           f == [i \in 1..Cardinality(D) |-> c(i)]
           g == [i \in D |-> mvs[Evaluated(f)[i]]]
<1>1. n \in Nat /\ D = 1..n
  BY LenProperties
<1>2. IsFiniteSet(D) /\ Cardinality(D) = n
  <2>1. 1 \in Int /\ n \in Int
    BY <1>1
  <2>2. IsFiniteSet(1..n) /\ Cardinality(1..n) = IF 1 > n THEN 0 ELSE n - 1 + 1
    BY <2>1, FS_Interval
  <2> QED  BY <1>1, <2>2
<1>3. TotalOrder(D, R)
  BY TextTotal
<1>4. \A x \in D : Below(D, R, x) = {y \in D : Before(y, x)}
  BY TextPairsAre DEF Below
<1>5. \A i \in 1..n : c(i) = d(i)
  BY <1>4
<1>6. InTextOrder(mvs) = Evaluated(g)
  BY DEF InTextOrder, Arranged
<1>7. Ranked(D, R) = [i \in 1..Cardinality(D) |-> d(i)]
  BY DEF Ranked
<1> HIDE DEF c, d, D, R, n
<1>8. f = Ranked(D, R)
  BY <1>2, <1>5, <1>7
<1>9. Ranked(D, R) \in [1..n -> D]
  BY <1>2, <1>3, RankedFacts
<1>10. f = [i \in 1..n |-> f[i]]
  BY <1>2
<1> HIDE DEF f
<1>11. Evaluated(f) = f /\ DOMAIN f = 1..n
  BY <1>1, <1>10, FunctionIsSequence
<1>12. g = [i \in 1..n |-> mvs[f[i]]]
  BY <1>1, <1>11
<1>13. g = [i \in 1..n |-> g[i]]
  BY <1>1
<1> HIDE DEF g
<1>14. Evaluated(g) = g
  BY <1>1, <1>13, FunctionIsSequence
<1> QED  BY <1>1, <1>2, <1>3, <1>6, <1>8, <1>9, <1>12, <1>14 DEF n, R


\* Rounded counters are whole numbers of steps.
LEMMA RoundedInt ==
  ASSUME NEW x \in Int
  PROVE  Rounded(x) \in Int
<1>1. 2 * Sub \in Nat \ {0} /\ 2 * x + Sub \in Int
  BY ReceiptConstants
<1> QED  BY <1>1 DEF Rounded, RoundedRatio

\* _derive_session_type answers one of the three types.
LEMMA TypeIsDerived ==
  ASSUME NEW type, NEW import \in Int, NEW export \in Int
  PROVE  SessionType(type, import, export) \in SessionTypes
<1>1. CASE type \in SessionTypes
  BY <1>1 DEF SessionType
<1>2. CASE type \notin SessionTypes /\ import > 0 /\ export > 0
  BY <1>2 DEF SessionType, SessionTypes
<1>3. CASE type \notin SessionTypes /\ import <= 0 /\ export > 0
  BY <1>3 DEF SessionType, SessionTypes
<1>4. CASE type \notin SessionTypes /\ export <= 0
  BY <1>4 DEF SessionType, SessionTypes
<1> QED  BY <1>1, <1>2, <1>3, <1>4

\* Sorted and rounded, the readings are as many, with integer counters.
LEMMA MeterValuesFacts ==
  ASSUME NEW json, Good(json)
  PROVE  LET mvs == MeterValues(json)
             texts == InTextOrder(json.meters)
         IN  /\ Len(json.meters) \in Nat /\ Len(json.meters) >= 2
             /\ IsASequence(texts) /\ Len(texts) = Len(json.meters)
             /\ IsASequence(mvs) /\ Len(mvs) = Len(json.meters)
             /\ \A i \in 1..Len(json.meters) :
                  /\ texts[i].ts \in Timestamp /\ texts[i].import \in Int /\ texts[i].export \in Int
                  /\ mvs[i] = Coerced(texts[i])
                  /\ mvs[i].import \in Int /\ mvs[i].export \in Int
<1> DEFINE n == Len(json.meters)
           order == Ranked(1..n, TextPairs(json.meters))
           texts == InTextOrder(json.meters)
           f == [i \in DOMAIN texts |-> Coerced(texts[i])]
<1>1. json.meters \in Seq(Readings) /\ n >= 2
  BY BodyFields DEF Good, Accepted
<1>2. /\ n \in Nat /\ json.meters \in [1..n -> Readings]
      /\ \A i \in 1..n : Missing \notin {json.meters[i].import, json.meters[i].export}
  BY <1>1, LenProperties DEF Good, Accepted
<1>3. order \in [1..n -> 1..n] /\ texts = [i \in 1..n |-> json.meters[order[i]]]
  BY <1>1, TextArranged
<1> HIDE DEF n, order, texts
<1>4. texts = [i \in 1..n |-> texts[i]]
  BY <1>3
<1>5. IsASequence(texts) /\ Len(texts) = n /\ DOMAIN texts = 1..n
  BY <1>2, <1>4, FunctionIsSequence
<1>6. ASSUME NEW i \in 1..n
      PROVE  texts[i].ts \in Timestamp /\ texts[i].import \in Int /\ texts[i].export \in Int
  <2>1. texts[i] = json.meters[order[i]] /\ order[i] \in 1..n
    BY <1>3
  <2>2. json.meters[order[i]] \in Readings
    BY <1>2, <2>1
  <2>3. Missing \notin {json.meters[order[i]].import, json.meters[order[i]].export}
    BY <1>2, <2>1
  <2> QED  BY <2>1, <2>2, <2>3 DEF Readings
<1>7. MeterValues(json) = Evaluated(f)
  BY DEF MeterValues, texts
<1>8. f = [i \in 1..n |-> f[i]] /\ \A i \in 1..n : f[i] = Coerced(texts[i])
  BY <1>5
<1> HIDE DEF f
<1>9. IsASequence(f) /\ Len(f) = n /\ Evaluated(f) = f
  BY <1>2, <1>8, FunctionIsSequence
<1>10. \A i \in 1..n : f[i].import \in Int /\ f[i].export \in Int
  BY <1>6, <1>8, RoundedInt DEF Coerced
<1> QED  BY <1>1, <1>2, <1>5, <1>6, <1>7, <1>8, <1>9, <1>10 DEF n, texts

\* What is stored of a session: its rows.
LEMMA RowsFacts ==
  ASSUME NEW s, NEW json, Good(json)
  PROVE  LET row == RowsOf(s, json)
             r == Receipt(s, json)
         IN  /\ DOMAIN row = {"json", "meters", "receipt", "hash", "start", "columns"}
             /\ row.json = json /\ row.receipt = r /\ row.hash = HashReceipt(r)
             /\ row.start = Instant(r.start) /\ row.columns = Columns(r)
BY DEF RowsOf

\* And of its receipt.
LEMMA ReceiptFacts ==
  ASSUME NEW s, NEW json, Good(json)
  PROVE  LET r == Receipt(s, json)
         IN  /\ DOMAIN r = {"session", "type", "start", "end", "energy", "summary", "components",
                            "import_components", "export_components", "settlement", "root"}
             /\ r.session = s /\ r.type \in SessionTypes
             /\ r.start = json.start /\ r.start \in Timestamp
             /\ r.energy \in Int /\ r.energy = r.summary.net
             /\ r.root = MeterRoot(MeterValues(json))
<1> DEFINE mvs == MeterValues(json)
           n == Len(mvs)
           import == mvs[n].import - mvs[1].import
           export == mvs[n].export - mvs[1].export
           r == Receipt(s, json)
<1>1. /\ n \in Nat /\ n >= 2 /\ \A i \in 1..n : mvs[i].import \in Int /\ mvs[i].export \in Int
  BY MeterValuesFacts
<1> HIDE DEF mvs, n
<1>2. 1 \in 1..n /\ n \in 1..n
  BY <1>1
<1>3. import \in Int /\ export \in Int
  BY <1>1, <1>2
<1>4. json.start \in Timestamp
  BY BodyFields DEF Good
<1>5. /\ DOMAIN r = {"session", "type", "start", "end", "energy", "summary", "components",
                     "import_components", "export_components", "settlement", "root"}
      /\ r.session = s /\ r.type = SessionType(json.type, import, export)
      /\ r.start = json.start
      /\ r.energy = import - export /\ r.energy = r.summary.net
      /\ r.root = MeterRoot(mvs)
  BY DEF Receipt, Summary, mvs, n
<1> HIDE DEF import, export
<1> QED  BY <1>3, <1>4, <1>5, TypeIsDerived DEF mvs


\* The hash keeps the energy and is never the empty text.
WithEnergy(r, e) == [r EXCEPT !.energy = e]

\* hash_receipt shows the energy of the receipt.
LEMMA HashFacts ==
  ASSUME NEW s, NEW json, Good(json)
  PROVE  LET r == Receipt(s, json)
         IN  /\ HashReceipt(r).energy = r.energy
             /\ HashReceipt(r) # <<>>
             /\ \A e : HashReceipt(WithEnergy(r, e)).energy = e
<1> DEFINE r == Receipt(s, json)
<1>1. "energy" \in DOMAIN r
  BY ReceiptFacts
<1> HIDE DEF r
<1>2. HashReceipt(r).energy = r.energy /\ DOMAIN HashReceipt(r) = DOMAIN r
  BY <1>1 DEF HashReceipt
<1>3. ASSUME NEW e
      PROVE  HashReceipt(WithEnergy(r, e)).energy = e
  <2> DEFINE q == [r EXCEPT !.energy = e]
  <2>1. "energy" \in DOMAIN q /\ q.energy = e
    BY <1>1
  <2> HIDE DEF q
  <2>2. HashReceipt(q).energy = e
    BY <2>1 DEF HashReceipt
  <2> QED  BY <2>2 DEF q, WithEnergy
<1>4. DOMAIN <<>> = {}
  OBVIOUS
<1>5. HashReceipt(r) # <<>>
  BY <1>1, <1>2, <1>4
<1> QED  BY <1>2, <1>3, <1>5 DEF r

\* A stored row is that of a body, or its receipt was tampered with.
RowOK(s, row) ==
    \E json : Good(json) /\ (row = RowsOf(s, json) \/ row = Changed(RowsOf(s, json)))

ReceiptFields == {"session", "type", "start", "end", "energy", "summary", "components",
                  "import_components", "export_components", "settlement", "root"}

\* What a stored row says of itself, and how tampering shows.
LEMMA RowFacts ==
  ASSUME NEW s, NEW row, RowOK(s, row)
  PROVE  /\ DOMAIN row = {"json", "meters", "receipt", "hash", "start", "columns"}
         /\ DOMAIN row.receipt = ReceiptFields
         /\ row.receipt.session = s /\ row.receipt.type \in SessionTypes
         /\ row.start \in Int /\ row.receipt.start \in Timestamp
         /\ row.hash # <<>>
         /\ Tampered(row) => HashReceipt(row.receipt) # row.hash
         /\ ~Tampered(row) => row = RowsOf(s, row.json)
         /\ Good(row.json)
<1>1. PICK json : Good(json) /\ (row = RowsOf(s, json) \/ row = Changed(RowsOf(s, json)))
  BY DEF RowOK
<1> DEFINE whole == RowsOf(s, json)
           r == Receipt(s, json)
<1>2. /\ DOMAIN whole = {"json", "meters", "receipt", "hash", "start", "columns"}
      /\ whole.json = json /\ whole.receipt = r /\ whole.hash = HashReceipt(r)
      /\ whole.start = Instant(r.start) /\ whole.columns = Columns(r)
  BY <1>1, RowsFacts
<1>3. /\ DOMAIN r = ReceiptFields
      /\ r.session = s /\ r.type \in SessionTypes
      /\ r.start \in Timestamp /\ r.energy \in Int
  BY <1>1, ReceiptFacts DEF ReceiptFields
<1>4. /\ HashReceipt(r).energy = r.energy
      /\ HashReceipt(r) # <<>>
      /\ \A e : HashReceipt(WithEnergy(r, e)).energy = e
  <2>1. HashReceipt(r).energy = r.energy /\ HashReceipt(r) # <<>>
    BY <1>1, HashFacts
  <2>2. ASSUME NEW e PROVE HashReceipt(WithEnergy(r, e)).energy = e
    BY <1>1, HashFacts
  <2> QED  BY <2>1, <2>2
<1>5. Columns(r).energy = r.energy
  BY DEF Columns
<1>6. whole.start \in Int
  BY <1>2, <1>3, TimestampFields
<1> HIDE DEF whole, r
<1>7. CASE row = whole
  <2>1. ~Tampered(row)
    BY <1>2, <1>5, <1>7 DEF Tampered
  <2> QED  BY <1>1, <1>2, <1>3, <1>4, <1>6, <1>7, <2>1 DEF whole
<1>8. CASE row = Changed(whole)
  <2> DEFINE q == [r EXCEPT !.energy = @ + 123]
  <2>1. /\ DOMAIN row = DOMAIN whole /\ row.json = json /\ row.receipt = q
        /\ row.hash = HashReceipt(r) /\ row.start = whole.start /\ row.columns = Columns(r)
    BY <1>2, <1>8 DEF Changed
  <2>2. /\ q.session = s /\ q.type = r.type /\ q.start = r.start /\ q.energy = r.energy + 123
        /\ DOMAIN q = ReceiptFields
    BY <1>3 DEF ReceiptFields
  <2>3. q = WithEnergy(r, r.energy + 123)
    BY DEF WithEnergy
  <2>4. HashReceipt(q).energy = r.energy + 123
    BY <1>4, <2>3
  <2> HIDE DEF q
  <2>5. Tampered(row)
    BY <1>3, <1>5, <2>1, <2>2 DEF Tampered
  <2>6. HashReceipt(row.receipt) # row.hash
    <3> DEFINE x == r.energy
    <3>1. HashReceipt(row.receipt).energy = x + 123 /\ row.hash.energy = x /\ x \in Int
      BY <1>3, <1>4, <2>1, <2>4
    <3> HIDE DEF x
    <3>2. x + 123 # x
      BY <3>1
    <3> QED  BY <3>1, <3>2
  <2> QED  BY <1>1, <1>2, <1>3, <1>4, <1>6, <2>1, <2>2, <2>5, <2>6
<1> QED  BY <1>1, <1>7, <1>8 DEF whole


-----------------------------------------------------------------------------
(***************************************************************************)
(* Closing a day: the rows of its sessions become records.                 *)
(***************************************************************************)
RowsOK(st) ==
    /\ IsFiniteSet({s \in Sessions : st[s] # Absent})
    /\ \A s \in Sessions : st[s] # Absent => RowOK(s, st[s])

\* The image of a finite set is finite.
LEMMA ImageIsFinite ==
  ASSUME NEW S, IsFiniteSet(S), NEW f, DOMAIN f = S, NEW T, T = {f[x] : x \in S}
  PROVE  IsFiniteSet(T)
BY CardinalityOfImage

\* The receipts of a day belong to stored sessions.
LEMMA EligibleFacts ==
  ASSUME RowsOK(stored), NEW day, NEW p
  PROVE  /\ IsFiniteSet(Eligible(day, p))
         /\ \A s \in Eligible(day, p) :
              /\ s \in Rows /\ s \in Sessions /\ s \in Nat /\ s \in Scope[p]
              /\ RowOK(s, stored[s]) /\ UtcDay(stored[s].start) = day
<1>1. Rows = {s \in Sessions : stored[s] # Absent}
  BY DEF Rows
<1>2. IsFiniteSet(Rows)
  BY <1>1 DEF RowsOK
<1>3. Eligible(day, p) \in SUBSET Rows
  BY DEF Eligible
<1>4. IsFiniteSet(Eligible(day, p))
  BY <1>2, <1>3, FS_Subset
<1>5. \A s \in Rows : s \in Sessions /\ s \in Nat /\ RowOK(s, stored[s])
  BY MerkleConstants DEF Rows, RowsOK
<1> QED  BY <1>3, <1>4, <1>5 DEF Eligible

\* Their records differ in their sessions, and their hashes are not empty.
LEMMA RecordFacts ==
  ASSUME RowsOK(stored), NEW day, NEW p
  PROVE  /\ RecordSet(Records(day, p))
         /\ \A r \in Records(day, p) : r.session \in Sessions /\ r.hash # <<>>
<1> DEFINE E == Eligible(day, p)
           f == [s \in E |-> Record(s)]
<1>1. IsFiniteSet(E)
  BY EligibleFacts
<1>2. ASSUME NEW s \in E
      PROVE  /\ IsRecord(Record(s)) /\ Record(s).session = s /\ s \in Sessions
             /\ Record(s).hash # <<>>
  <2>1. s \in Sessions /\ s \in Nat /\ RowOK(s, stored[s])
    BY EligibleFacts
  <2>2. stored[s].start \in Int /\ stored[s].hash # <<>>
    BY <2>1, RowFacts
  <2> QED  BY <2>1, <2>2 DEF Record, IsRecord
<1>3. Records(day, p) = {Record(s) : s \in E}
  BY DEF Records
<1> HIDE DEF E
<1>4. DOMAIN f = E /\ Records(day, p) = {f[s] : s \in E}
  BY <1>3
<1> HIDE DEF f
<1>5. IsFiniteSet(Records(day, p))
  BY <1>1, <1>4, ImageIsFinite
<1> QED  BY <1>2, <1>3, <1>5 DEF RecordSet

\* What a V1 row commits to: records of sessions in their normal form.
SnapshotSet(S) ==
    /\ RecordSet(S) /\ S # {}
    /\ \A r \in S : r.session \in Sessions /\ Nfc[r.session] = r.session /\ r.hash # <<>>

InNormalForm(r) == [r EXCEPT !.session = Nfc[r.session]]

\* Normal forms of records of different normal sessions are such records.
LEMMA NormalizedFacts ==
  ASSUME NEW S, RecordSet(S), Buildable(S), \A r \in S : r.session \in Sessions
  PROVE  /\ RecordSet(Normalized(S)) /\ Normalized(S) # {}
         /\ Normalized(S) = {InNormalForm(r) : r \in S}
         /\ \A r \in S : /\ InNormalForm(r).session = Nfc[r.session]
                         /\ InNormalForm(r).start = r.start
                         /\ InNormalForm(r).hash = r.hash
<1> DEFINE f == [r \in S |-> InNormalForm(r)]
<1>1. Normalized(S) = {InNormalForm(r) : r \in S}
  BY DEF Normalized, InNormalForm
<1>2. ASSUME NEW r \in S
      PROVE  /\ IsRecord(InNormalForm(r))
             /\ InNormalForm(r).session = Nfc[r.session]
             /\ InNormalForm(r).start = r.start
             /\ InNormalForm(r).hash = r.hash
  <2>1. r = [session |-> r.session, start |-> r.start, hash |-> r.hash] /\ r.start \in Int
    BY DEF RecordSet, IsRecord
  <2>2. Nfc[r.session] \in Nat
    BY MerkleConstants
  <2>3. InNormalForm(r) = [session |-> Nfc[r.session], start |-> r.start, hash |-> r.hash]
    BY <2>1 DEF InNormalForm
  <2> QED  BY <2>1, <2>2, <2>3 DEF IsRecord
<1>3. \A r, q \in S : InNormalForm(r).session = InNormalForm(q).session => r = q
  BY <1>2 DEF Buildable
<1>4. DOMAIN f = S /\ Normalized(S) = {f[r] : r \in S}
  BY <1>1
<1> HIDE DEF f
<1>5. IsFiniteSet(Normalized(S))
  BY <1>4, ImageIsFinite DEF RecordSet
<1>6. Normalized(S) # {}
  BY <1>1 DEF Buildable
<1> QED  BY <1>1, <1>2, <1>3, <1>5, <1>6 DEF RecordSet

\* What a day that can be closed commits to is in normal form.
LEMMA ClosedSetFacts ==
  ASSUME RowsOK(stored), NEW day, NEW p, Buildable(Records(day, p)),
         \A r \in Normalized(Records(day, p)) : r.session \in Rows
  PROVE  SnapshotSet(Normalized(Records(day, p)))
<1> DEFINE S == Records(day, p)
           T == Normalized(S)
<1>1. RecordSet(S) /\ \A r \in S : r.session \in Sessions /\ r.hash # <<>>
  BY RecordFacts
<1> HIDE DEF S
<1>2. /\ RecordSet(T) /\ T # {}
      /\ T = {InNormalForm(r) : r \in S}
      /\ \A r \in S : /\ InNormalForm(r).session = Nfc[r.session]
                      /\ InNormalForm(r).hash = r.hash
  BY <1>1, NormalizedFacts DEF S
<1>3. \A r \in T : r.session \in Sessions
  BY DEF Rows, S
<1> HIDE DEF T
<1>4. ASSUME NEW r \in T
      PROVE  Nfc[r.session] = r.session /\ r.hash # <<>>
  <2>1. PICK q \in S : r = InNormalForm(q)
    BY <1>2
  <2>2. r.session = Nfc[q.session] /\ q.session \in Sessions /\ r.session \in Sessions /\ r.hash = q.hash
    BY <1>1, <1>2, <1>3, <2>1
  <2>3. Nfc[Nfc[q.session]] = Nfc[q.session]
    BY <2>2, VerificationConstants
  <2> QED  BY <1>1, <2>2, <2>3
<1> QED  BY <1>2, <1>3, <1>4 DEF SnapshotSet, T, S


-----------------------------------------------------------------------------
(***************************************************************************)
(* The rows that closing inserts.                                          *)
(***************************************************************************)
\* A set of records in normal form is its own normal form.
LEMMA SnapshotIsNormal ==
  ASSUME NEW S, SnapshotSet(S)
  PROVE  Buildable(S) /\ Normalized(S) = S /\ RecordSet(S)
<1>1. RecordSet(S) /\ S # {} /\ \A r \in S : r.session \in Sessions /\ Nfc[r.session] = r.session
  BY DEF SnapshotSet
<1>2. \A r, q \in S : Nfc[r.session] = Nfc[q.session] => r = q
  BY <1>1 DEF RecordSet
<1>3. Buildable(S)
  BY <1>1, <1>2 DEF Buildable
<1>4. /\ Normalized(S) = {InNormalForm(r) : r \in S}
      /\ RecordSet(Normalized(S))
      /\ \A r \in S : /\ InNormalForm(r).session = Nfc[r.session]
                      /\ InNormalForm(r).start = r.start
                      /\ InNormalForm(r).hash = r.hash
  BY <1>1, <1>3, NormalizedFacts
<1>5. ASSUME NEW r \in S
      PROVE  InNormalForm(r) = r
  <2>1. IsRecord(InNormalForm(r)) /\ IsRecord(r)
    BY <1>1, <1>4 DEF RecordSet
  <2>2. /\ InNormalForm(r).session = r.session /\ InNormalForm(r).start = r.start
        /\ InNormalForm(r).hash = r.hash
    BY <1>1, <1>4
  <2> QED  BY <2>1, <2>2 DEF IsRecord
<1>6. Normalized(S) = S
  BY <1>4, <1>5
<1> QED  BY <1>1, <1>3, <1>6

\* The members of a row list the records of its commitment.
Lists(a, S) ==
    /\ IsASequence(a.members) /\ Len(a.members) = Cardinality(S) /\ a.count = Cardinality(S)
    /\ Cardinality(S) \in Nat /\ Cardinality(S) >= 1
    /\ \A i \in 1..Cardinality(S) : \E r \in S :
         a.members[i].session = r.session /\ a.members[i].hash = r.hash
    /\ \A r \in S : \E i \in 1..Cardinality(S) :
         a.members[i].session = r.session /\ a.members[i].hash = r.hash
    /\ \A i, j \in 1..Cardinality(S) : a.members[i].session = a.members[j].session => i = j

\* A V1 row of records S.
Holds(a, S) ==
    /\ SnapshotSet(S) /\ a.profile = "v1" /\ a.day \in Int
    /\ a = ProfiledRow(a.day, a.prefix, Commitment(S, Context(a.day)))

\* A finite set that is not empty has at least one element.
LEMMA NotEmpty ==
  ASSUME NEW S, IsFiniteSet(S), S # {}
  PROVE  Cardinality(S) \in Nat /\ Cardinality(S) >= 1
<1>1. Cardinality(S) \in Nat /\ Cardinality(S) # 0
  BY FS_CardinalityType, FS_EmptySet
<1> QED  BY <1>1

\* Arrangements place every element once.
LEMMA RankedOnce ==
  ASSUME NEW S, IsFiniteSet(S), NEW R, TotalOrder(S, R)
  PROVE  \A i, j \in 1..Cardinality(S) : Ranked(S, R)[i] = Ranked(S, R)[j] => i = j
<1>1. Cardinality(S) \in Nat
  BY FS_CardinalityType
<1>2. \A i \in 1..Cardinality(S) : Cardinality(Below(S, R, Ranked(S, R)[i])) = i - 1
  BY RankedFacts
<1>3. ASSUME NEW i \in 1..Cardinality(S), NEW j \in 1..Cardinality(S), Ranked(S, R)[i] = Ranked(S, R)[j]
      PROVE  i = j
  <2>1. i - 1 = j - 1
    BY <1>2, <1>3
  <2> QED  BY <1>1, <2>1
<1> QED  BY <1>3

\* The members of a closed row are the records of its commitment.
LEMMA HoldsFacts ==
  ASSUME NEW a, NEW S, Holds(a, S)
  PROVE  LET c == Commitment(S, Context(a.day))
         IN  /\ Lists(a, S) /\ MemberRecords(a) = S
             /\ a.context = Context(a.day) /\ a.root = c.root /\ a.tree = c.tree
             /\ CommitmentFromAnchor(a) = c
             /\ \A i \in 1..Cardinality(S) :
                  /\ a.members[i].index = i - 1 /\ a.members[i].session = c.records[i].session
                  /\ a.members[i].leaf = c.leaves[i]
<1> DEFINE n == Cardinality(S)
           c == Commitment(S, Context(a.day))
           Member(i) == [session |-> c.records[i].session, start |-> c.records[i].start,
                         hash |-> c.records[i].hash, leaf |-> c.leaves[i], index |-> i - 1]
           f == [i \in 1..n |-> Member(i)]
<1>1. RecordSet(S) /\ S # {} /\ a.day \in Int
  BY DEF Holds, SnapshotSet
<1>2. /\ n \in Nat
      /\ c.context = Context(a.day)
      /\ c.records = Ranked(S, EarlierPairs(S))
      /\ c.records \in [1..n -> S]
      /\ \A r \in S : \E i \in 1..n : c.records[i] = r
      /\ Len(c.leaves) = n
  BY <1>1, CommitmentFacts
<1>3. n >= 1
  BY <1>1, NotEmpty DEF RecordSet
<1>4. \A i, j \in 1..n : c.records[i] = c.records[j] => i = j
  BY <1>1, <1>2, EarlierTotal, RankedOnce DEF RecordSet
<1>5. DOMAIN c.records = 1..n
  BY <1>2
<1>6. /\ a.context = c.context /\ a.root = c.root /\ a.tree = c.tree /\ a.count = Len(c.leaves)
      /\ a.members = [i \in DOMAIN c.records |-> Member(i)]
  BY DEF Holds, ProfiledRow
<1> HIDE DEF c, n
<1>7. a.members = f
  BY <1>5, <1>6
<1>8. f = [i \in 1..n |-> f[i]] /\ \A i \in 1..n : f[i] = Member(i)
  OBVIOUS
<1> HIDE DEF f
<1>9. IsASequence(a.members) /\ Len(a.members) = n /\ DOMAIN a.members = 1..n
  BY <1>2, <1>7, <1>8, FunctionIsSequence
<1>10. ASSUME NEW i \in 1..n
       PROVE  /\ a.members[i].session = c.records[i].session
              /\ a.members[i].start = c.records[i].start
              /\ a.members[i].hash = c.records[i].hash
              /\ a.members[i].leaf = c.leaves[i]
              /\ a.members[i].index = i - 1
              /\ c.records[i] \in S /\ IsRecord(c.records[i])
  <2>1. a.members[i] = Member(i)
    BY <1>7, <1>8
  <2>2. c.records[i] \in S
    BY <1>2
  <2> QED  BY <1>1, <2>1, <2>2 DEF RecordSet
<1>11. Lists(a, S)
  <2>1. \A i, j \in 1..n : a.members[i].session = a.members[j].session => i = j
    BY <1>1, <1>4, <1>10 DEF RecordSet
  <2>2. ASSUME NEW r \in S
        PROVE  \E i \in 1..n : a.members[i].session = r.session /\ a.members[i].hash = r.hash
    <3>1. PICK i \in 1..n : c.records[i] = r
      BY <1>2
    <3>2. a.members[i].session = r.session /\ a.members[i].hash = r.hash
      BY <1>10, <3>1
    <3> QED  BY <3>2
  <2>3. \A i \in 1..n : \E r \in S : a.members[i].session = r.session /\ a.members[i].hash = r.hash
    BY <1>10
  <2> QED  BY <1>2, <1>3, <1>6, <1>9, <2>1, <2>2, <2>3 DEF Lists, n
<1>12. MemberRecords(a) = S
  <2> DEFINE Back(m) == [session |-> m.session, start |-> m.start, hash |-> m.hash]
  <2>1. \A i \in 1..n : Back(a.members[i]) = c.records[i]
    BY <1>10 DEF IsRecord
  <2>2. Range(a.members) = {a.members[i] : i \in 1..n}
    BY <1>9 DEF Range
  <2>3. MemberRecords(a) = {Back(m) : m \in Range(a.members)}
    BY DEF MemberRecords
  <2> HIDE DEF Back
  <2>4. \A r \in MemberRecords(a) : r \in S
    BY <2>1, <2>2, <2>3, <1>10
  <2>5. \A r \in S : r \in MemberRecords(a)
    BY <1>2, <2>1, <2>2, <2>3
  <2> QED  BY <2>4, <2>5
<1>13. Normalized(S) = S
  BY SnapshotIsNormal DEF Holds
<1>14. CommitmentFromAnchor(a) = c
  BY <1>2, <1>6, <1>12, <1>13 DEF CommitmentFromAnchor, c
<1> QED  BY <1>2, <1>6, <1>10, <1>11, <1>12, <1>14 DEF c, n

\* A V1 row verifies.
LEMMA ProfiledVerifies ==
  ASSUME NEW a, NEW S, Holds(a, S)
  PROVE  ProfiledMatches(a) /\ AnchorMatches(a)
<1>1. /\ Lists(a, S) /\ MemberRecords(a) = S
      /\ a.context = Context(a.day) /\ a.root = Commitment(S, Context(a.day)).root
      /\ a.tree = Commitment(S, Context(a.day)).tree
      /\ CommitmentFromAnchor(a) = Commitment(S, Context(a.day))
  BY HoldsFacts
<1> DEFINE c == Commitment(S, Context(a.day))
<1>2. \A i \in 1..Cardinality(S) :
        /\ a.members[i].index = i - 1 /\ a.members[i].session = c.records[i].session
        /\ a.members[i].leaf = c.leaves[i]
  BY HoldsFacts
<1>3. Buildable(MemberRecords(a))
  BY <1>1, SnapshotIsNormal DEF Holds
<1>4. ValidContext(a.context)
  BY <1>1 DEF ValidContext, Context
<1>5. DOMAIN a.members = 1..Cardinality(S) /\ Len(a.members) = a.count
  BY <1>1, SequenceIsFunction DEF Lists
<1> HIDE DEF c
<1>6. ProfiledMatches(a)
  BY <1>1, <1>2, <1>3, <1>4, <1>5 DEF ProfiledMatches, c
<1> QED  BY <1>6 DEF AnchorMatches, Holds


\* The legacy profile lists the records in the order of their sessions.
SessionPairs(S) == {rq \in S \X S : EarlierBySession(rq[1], rq[2])}

\* The records of a legacy row by their sessions.
LEMMA BySessionArranged ==
  ASSUME NEW S, RecordSet(S)
  PROVE  LET f == Arranged(S, EarlierBySession)
         IN  /\ Cardinality(S) \in Nat /\ IsASequence(f) /\ Len(f) = Cardinality(S)
             /\ f \in [1..Cardinality(S) -> S]
             /\ \A r \in S : \E i \in 1..Cardinality(S) : f[i] = r
             /\ \A i, j \in 1..Cardinality(S) : f[i] = f[j] => i = j
<1> DEFINE R == SessionPairs(S)
           n == Cardinality(S)
           c(i) == CHOOSE x \in S : Cardinality({y \in S : EarlierBySession(y, x)}) = i - 1
           d(i) == CHOOSE x \in S : Cardinality(Below(S, R, x)) = i - 1
           f == [i \in 1..n |-> c(i)]
<1>1. n \in Nat /\ IsFiniteSet(S)
  BY FS_CardinalityType DEF RecordSet
<1>2. \A r, q \in S : <<r, q>> \in R <=> EarlierBySession(r, q)
  BY DEF SessionPairs
<1>3. \A x \in S : Below(S, R, x) = {y \in S : EarlierBySession(y, x)}
  BY <1>2 DEF Below
<1>4. \A i \in 1..n : c(i) = d(i)
  BY <1>3
<1>5. Arranged(S, EarlierBySession) = Evaluated(f)
  BY DEF Arranged
<1>6. Ranked(S, R) = [i \in 1..n |-> d(i)]
  BY DEF Ranked
<1> HIDE DEF c, d, R, n
<1>7. f = Ranked(S, R)
  BY <1>4, <1>6
<1>8. f = [i \in 1..n |-> f[i]]
  OBVIOUS
<1> HIDE DEF f
<1>9. IsASequence(f) /\ Len(f) = n /\ Evaluated(f) = f
  BY <1>1, <1>8, FunctionIsSequence
<1>10. TotalOrder(S, R)
  <2>1. \A r \in S : r.session \in Int
    BY DEF RecordSet, IsRecord
  <2>2. \A r, q \in S : r.session = q.session => r = q
    BY DEF RecordSet
  <2>3. \A r, q \in S : <<r, q>> \in R <=> r.session < q.session
    BY <1>2 DEF EarlierBySession
  <2> QED  BY <2>1, <2>2, <2>3 DEF TotalOrder
<1>11. /\ f \in [1..n -> S] /\ \A r \in S : \E i \in 1..n : f[i] = r
  BY <1>1, <1>7, <1>10, RankedFacts DEF n
<1>12. \A i, j \in 1..n : f[i] = f[j] => i = j
  BY <1>1, <1>7, <1>10, RankedOnce DEF n
<1> QED  BY <1>1, <1>5, <1>9, <1>11, <1>12 DEF n

LegacySet(S) == RecordSet(S) /\ S # {} /\ \A r \in S : r.session \in Sessions /\ r.hash # <<>>

\* A legacy row of records S.
ListsHashes(a, S) ==
    /\ LegacySet(S) /\ a.profile = "legacy" /\ a = LegacyRow(a.day, a.prefix, S)

\* A legacy row lists the hashes that its root stands for.
LEMMA LegacyFacts ==
  ASSUME NEW a, NEW S, ListsHashes(a, S)
  PROVE  /\ Lists(a, S) /\ a.root = LegacyRoot({r.hash : r \in S})
         /\ LegacyMatches(a) /\ AnchorMatches(a)
<1> DEFINE n == Cardinality(S)
           ordered == Arranged(S, EarlierBySession)
           Member(i) == [session |-> ordered[i].session, start |-> Absent, hash |-> ordered[i].hash,
                         leaf |-> Absent, index |-> i - 1]
           f == [i \in 1..n |-> Member(i)]
<1>1. RecordSet(S) /\ S # {}
  BY DEF ListsHashes, LegacySet
<1>2. /\ n \in Nat /\ n >= 1 /\ ordered \in [1..n -> S]
      /\ \A r \in S : \E i \in 1..n : ordered[i] = r
      /\ \A i, j \in 1..n : ordered[i] = ordered[j] => i = j
  BY <1>1, BySessionArranged, NotEmpty DEF RecordSet
<1>3. /\ a.count = n /\ a.root = LegacyRoot({r.hash : r \in S})
      /\ a.members = [i \in DOMAIN ordered |-> Member(i)]
  BY DEF ListsHashes, LegacyRow
<1> HIDE DEF ordered, n
<1>4. a.members = f
  BY <1>2, <1>3
<1>5. f = [i \in 1..n |-> f[i]] /\ \A i \in 1..n : f[i] = Member(i)
  OBVIOUS
<1> HIDE DEF f
<1>6. IsASequence(a.members) /\ Len(a.members) = n /\ DOMAIN a.members = 1..n
  BY <1>2, <1>4, <1>5, FunctionIsSequence
<1>7. ASSUME NEW i \in 1..n
      PROVE  /\ ordered[i] \in S
             /\ a.members[i].session = ordered[i].session /\ a.members[i].hash = ordered[i].hash
  BY <1>2, <1>4, <1>5
<1>8. \A r, q \in S : r.session = q.session => r = q
  BY <1>1 DEF RecordSet
<1>9. \A i, j \in 1..n : a.members[i].session = a.members[j].session => i = j
  BY <1>2, <1>7, <1>8
<1>10. ASSUME NEW r \in S
       PROVE  \E i \in 1..n : a.members[i].session = r.session /\ a.members[i].hash = r.hash
  <2>1. PICK i \in 1..n : ordered[i] = r
    BY <1>2
  <2> QED  BY <1>7, <2>1
<1>11. \A i \in 1..n : \E r \in S : a.members[i].session = r.session /\ a.members[i].hash = r.hash
  BY <1>7
<1>12. Lists(a, S)
  BY <1>2, <1>3, <1>6, <1>9, <1>10, <1>11 DEF Lists, n
<1>13. {m.hash : m \in Range(a.members)} = {r.hash : r \in S}
  <2>1. Range(a.members) = {a.members[i] : i \in 1..n}
    BY <1>6 DEF Range
  <2> QED  BY <1>10, <1>11, <2>1
<1>14. LegacyMatches(a)
  BY <1>3, <1>6, <1>13 DEF LegacyMatches
<1>15. a.profile = "legacy"
  BY DEF ListsHashes
<1> QED  BY <1>3, <1>12, <1>14, <1>15 DEF AnchorMatches

-----------------------------------------------------------------------------
(***************************************************************************)
(* The table of closed days.                                               *)
(***************************************************************************)
RowOf(a, S) == Holds(a, S) \/ ListsHashes(a, S)
AnchorOK(a) == \E S : RowOf(a, S)

AnchorsOK(table) == IsASequence(table) /\ \A i \in DOMAIN table : AnchorOK(table[i])

\* Every row that closing made verifies.
LEMMA AnchorVerifies ==
  ASSUME NEW a, AnchorOK(a)
  PROVE  AnchorMatches(a)
BY ProfiledVerifies, LegacyFacts DEF AnchorOK, RowOf

\* A row that is appended comes after the others, which stay.
LEMMA AppendedRow ==
  ASSUME NEW table, IsASequence(table), NEW a
  PROVE  /\ IsASequence(Append(table, a)) /\ Len(Append(table, a)) = Len(table) + 1
         /\ Len(table) \in Nat
         /\ DOMAIN table = 1..Len(table) /\ DOMAIN Append(table, a) = 1..(Len(table) + 1)
         /\ \A i \in 1..Len(table) : Append(table, a)[i] = table[i]
         /\ Append(table, a)[Len(table) + 1] = a
<1> DEFINE S == {table[i] : i \in DOMAIN table} \cup {a}
           t == Append(table, a)
<1>1. table \in Seq(S)
  BY SeqMonotonic DEF IsASequence
<1>2. a \in S
  OBVIOUS
<1>3. Len(table) \in Nat /\ DOMAIN table = 1..Len(table)
  BY <1>1, LenProperties
<1> HIDE DEF S
<1>4. /\ t \in Seq(S) /\ Len(t) = Len(table) + 1
      /\ \A i \in 1..Len(table) : t[i] = table[i]
      /\ t[Len(table) + 1] = a
  BY <1>1, <1>2, AppendProperties
<1>5. DOMAIN t = 1..(Len(table) + 1) /\ t = [i \in 1..Len(t) |-> t[i]]
  BY <1>4, LenProperties
<1> HIDE DEF t
<1>6. IsASequence(t)
  BY <1>3, <1>4, <1>5, FunctionIsSequence
<1> QED  BY <1>3, <1>4, <1>5, <1>6 DEF t

\* Appending a row in order keeps the table in order.
LEMMA AppendedOK ==
  ASSUME NEW table, AnchorsOK(table), NEW a, AnchorOK(a)
  PROVE  AnchorsOK(Append(table, a))
<1>1. IsASequence(table) /\ \A i \in DOMAIN table : AnchorOK(table[i])
  BY DEF AnchorsOK
<1>2. /\ IsASequence(Append(table, a)) /\ Len(table) \in Nat
      /\ DOMAIN table = 1..Len(table) /\ DOMAIN Append(table, a) = 1..(Len(table) + 1)
      /\ \A i \in 1..Len(table) : Append(table, a)[i] = table[i]
      /\ Append(table, a)[Len(table) + 1] = a
  BY <1>1, AppendedRow
<1>3. ASSUME NEW i \in DOMAIN Append(table, a)
      PROVE  AnchorOK(Append(table, a)[i])
  <2>1. i \in 1..Len(table) \/ i = Len(table) + 1
    BY <1>2
  <2> QED  BY <1>1, <1>2, <2>1
<1> QED  BY <1>2, <1>3 DEF AnchorsOK

\* What closing inserts, and what the table says when it inserts nothing.
LEMMA ClosingFacts ==
  ASSUME RowsOK(stored), AnchorsOK(anchors), NEW day \in Int, NEW p
  PROVE  LET S == Normalized(Records(day, p))
             a == ProfiledRow(day, p, Commitment(S, Context(day)))
         IN  /\ Closing(day, p) \in {"raises", "closed", "inserts"}
             /\ Closing(day, p) = "inserts" => /\ Inserted(day, p) = Append(anchors, a)
                                               /\ Holds(a, S) /\ a.day = day /\ a.prefix = p
             /\ Closing(day, p) = "closed" =>
                  \E i \in DOMAIN anchors : /\ anchors[i].day = day /\ anchors[i].prefix = p
                                            /\ Holds(anchors[i], S)
             /\ Closing(day, p) # "raises" => Buildable(Records(day, p))
<1> DEFINE Q == Records(day, p)
           S == Normalized(Q)
           c == Commitment(S, Context(day))
           a == ProfiledRow(day, p, c)
           B == Buildable(Q)
           P == ProfiledIds(day, p)
           Same == \A i \in P : anchors[i].root = c.root
           Found == \A r \in S : r.session \in Rows
<1>1. Closing(day, p) = CASE ~B -> "raises"
                          [] B /\ P # {} -> IF Same THEN "closed" ELSE "raises"
                          [] B /\ P = {} -> IF Found THEN "inserts" ELSE "raises"
  BY DEF Closing
<1> HIDE DEF B, P, Same, Found
<1>2. /\ Closing(day, p) \in {"raises", "closed", "inserts"}
      /\ Closing(day, p) = "inserts" => B /\ Found
      /\ Closing(day, p) = "closed" => B /\ P # {} /\ Same
      /\ Closing(day, p) # "raises" => B
  BY <1>1
<1>3. Inserted(day, p) = Append(anchors, a)
  BY DEF Inserted
<1>4. a.day = day /\ a.prefix = p /\ a.profile = "v1"
  BY DEF ProfiledRow
<1>5. ASSUME B, Found
      PROVE  Holds(a, S)
  <2>1. SnapshotSet(S)
    BY <1>5, ClosedSetFacts DEF B, Found
  <2> QED  BY <1>4, <2>1 DEF Holds
<1>6. ASSUME B, P # {}, Same
      PROVE  \E i \in DOMAIN anchors : /\ anchors[i].day = day /\ anchors[i].prefix = p
                                       /\ Holds(anchors[i], S)
  <2>1. PICK i \in P : TRUE
    BY <1>6
  <2>2. /\ i \in DOMAIN anchors /\ anchors[i].day = day /\ anchors[i].prefix = p
        /\ anchors[i].profile = "v1"
    BY DEF P, ProfiledIds
  <2>3. anchors[i].root = c.root
    BY <1>6 DEF Same
  <2>4. PICK T : Holds(anchors[i], T)
    <3>1. PICK T : RowOf(anchors[i], T)
      BY <2>2 DEF AnchorsOK, AnchorOK
    <3>2. Holds(anchors[i], T)
      BY <2>2, <3>1 DEF RowOf, ListsHashes
    <3> QED  BY <3>2
  <2>5. anchors[i].root = Commitment(T, Context(day)).root
    BY <2>2, <2>4, HoldsFacts
  <2>6. RecordSet(T) /\ T # {}
    BY <2>4 DEF Holds, SnapshotSet
  <2>7. RecordSet(S)
    <3>1. RecordSet(Q) /\ \A r \in Q : r.session \in Sessions
      BY RecordFacts
    <3> QED  BY <1>6, <3>1, NormalizedFacts DEF B
  <2>8. T = S
    <3>1. Commitment(T, Context(day)).root = Commitment(S, Context(day)).root
      BY <2>3, <2>5
    <3> HIDE DEF S
    <3> QED  BY <2>6, <2>7, <3>1, CommitmentInjective
  <2> QED  BY <2>2, <2>4, <2>8
<1> HIDE DEF S, a
<1> QED  BY <1>2, <1>3, <1>4, <1>5, <1>6 DEF B, S, a


-----------------------------------------------------------------------------
(***************************************************************************)
(* The invariant.  While the matrix has changed something, the tables      *)
(* stand for what its savepoint will restore.                              *)
(***************************************************************************)
MatrixPhases == {"none", "ready", "mutated", "restored", "done"}

MatrixOK(st, an, m) ==
    /\ IsASequence(an)
    /\ m = [phase |-> m.phase, ctx |-> m.ctx, next |-> m.next, before |-> m.before,
            after |-> m.after, saved |-> m.saved, records |-> m.records]
    /\ m.phase \in MatrixPhases /\ m.next \in 1..8
    /\ m.phase \in {"mutated", "restored"} => m.next \in 1..7
    /\ m.phase # "none" => /\ m.ctx.session \in Sessions /\ m.ctx.anchor \in DOMAIN an
                           /\ RowsBehind(st, m)[m.ctx.session] # Absent
    /\ m.phase = "mutated" =>
         /\ st[m.ctx.session] = MutatedRow(m.saved.row, m.next)
         /\ an[m.ctx.anchor] = MutatedAnchor(m.saved.anchor, m.ctx.session, m.next)

SweepTyped(sw) ==
    /\ sw = [state |-> sw.state, prefix |-> sw.prefix, todo |-> sw.todo, closed |-> sw.closed,
             seen |-> sw.seen]
    /\ sw.state \in {"none", "closing", "failed"}
    /\ sw.todo \in SUBSET Int /\ IsFiniteSet(sw.todo)

RunPhases == {"none", "persisting", "closing", "verifying", "exporting",
              "reconciling", "done", "mismatch", "failed"}

RunTyped(r) ==
    /\ r = [phase |-> r.phase, made |-> r.made, outside |-> r.outside, anchor |-> r.anchor,
            verdict |-> r.verdict, verified |-> r.verified, exported |-> r.exported,
            touched |-> r.touched]
    /\ r.phase \in RunPhases /\ r.made \in Nat

CoreInv ==
    /\ workload \in DOMAIN Work
    /\ stored = [s \in Sessions |-> stored[s]]
    /\ RowsOK(RowsBehind(stored, matrix))
    /\ AnchorsOK(TableBehind(anchors, matrix))
    /\ MatrixOK(stored, anchors, matrix)
    /\ SweepTyped(sweep)
    /\ RunTyped(run) /\ (run.phase # "none" => Plan # Absent)
    /\ verifications = {}

-----------------------------------------------------------------------------
(***************************************************************************)
(* What the steps do to the tables.                                        *)
(***************************************************************************)
LEMMA StoredRows ==
  ASSUME NEW st, st = [t \in Sessions |-> st[t]], RowsOK(st), NEW s \in Sessions,
         NEW row, RowOK(s, row)
  PROVE  RowsOK([st EXCEPT ![s] = row])
<1> DEFINE st2 == [st EXCEPT ![s] = row]
           A == {t \in Sessions : st[t] # Absent}
           A2 == {t \in Sessions : st2[t] # Absent}
<1>1. \A t \in Sessions : st2[t] = IF t = s THEN row ELSE st[t]
  OBVIOUS
<1>2. A2 \in SUBSET (A \cup {s})
  BY <1>1
<1>3. IsFiniteSet(A \cup {s})
  BY FS_AddElement DEF RowsOK
<1>4. IsFiniteSet(A2)
  BY <1>2, <1>3, FS_Subset
<1>5. \A t \in Sessions : st2[t] # Absent => RowOK(t, st2[t])
  BY <1>1 DEF RowsOK
<1> QED  BY <1>4, <1>5 DEF RowsOK

\* Finalizing a session, and tampering with its receipt.
LEMMA StoreStep ==
  ASSUME NEW st, st = [t \in Sessions |-> st[t]], RowsOK(st), NEW s \in Sessions,
         NEW json, Good(json)
  PROVE  RowsOK([st EXCEPT ![s] = RowsOf(s, json)])
<1>1. RowOK(s, RowsOf(s, json))
  BY DEF RowOK
<1> QED  BY <1>1, StoredRows

\* Tampering with a receipt changes its energy and nothing else.
LEMMA TamperStep ==
  ASSUME NEW st, st = [t \in Sessions |-> st[t]], RowsOK(st), NEW s \in Sessions,
         st[s] # Absent, ~Tampered(st[s])
  PROVE  /\ RowsOK([st EXCEPT ![s].receipt.energy = @ + 123])
         /\ [st EXCEPT ![s].receipt.energy = @ + 123][s] = Changed(st[s])
         /\ Changed(st[s]).start = st[s].start /\ Changed(st[s]).hash = st[s].hash
         /\ "json" \in DOMAIN Changed(st[s])
<1> DEFINE row == st[s]
<1>1. RowOK(s, row)
  BY DEF RowsOK
<1>2. row = RowsOf(s, row.json) /\ Good(row.json)
  BY <1>1, RowFacts
<1>3. RowOK(s, Changed(row))
  BY <1>2 DEF RowOK
<1>4. [st EXCEPT ![s].receipt.energy = @ + 123] = [st EXCEPT ![s] = Changed(row)]
  BY DEF Changed
<1>5. RowsOK([st EXCEPT ![s] = Changed(row)])
  BY <1>3, StoredRows
<1>6. DOMAIN row = {"json", "meters", "receipt", "hash", "start", "columns"}
  BY <1>2, RowsFacts
<1>7. [st EXCEPT ![s] = Changed(row)][s] = Changed(row)
  OBVIOUS
<1> HIDE DEF row
<1>8. Changed(row).start = row.start /\ Changed(row).hash = row.hash /\ "json" \in DOMAIN Changed(row)
  BY <1>6 DEF Changed
<1> QED  BY <1>4, <1>5, <1>7, <1>8 DEF row

\* Closing with the V1 profile appends a row that commits to its day.
LEMMA CloseStep ==
  ASSUME RowsOK(stored), AnchorsOK(anchors), NEW day \in Int, NEW p, Closing(day, p) = "inserts"
  PROVE  AnchorsOK(Inserted(day, p))
<1> DEFINE S == Normalized(Records(day, p))
           a == ProfiledRow(day, p, Commitment(S, Context(day)))
<1>1. Inserted(day, p) = Append(anchors, a) /\ Holds(a, S)
  BY ClosingFacts
<1>2. AnchorOK(a)
  BY <1>1 DEF AnchorOK, RowOf
<1> QED  BY <1>1, <1>2, AppendedOK

\* And so does closing with the legacy profile.
LEMMA LegacyStep ==
  ASSUME RowsOK(stored), AnchorsOK(anchors), NEW day, NEW p, Records(day, p) # {}
  PROVE  AnchorsOK(Append(anchors, LegacyRow(day, p, Records(day, p))))
<1> DEFINE S == Records(day, p)
           a == LegacyRow(day, p, S)
<1>1. LegacySet(S)
  BY RecordFacts DEF LegacySet
<1>2. a.day = day /\ a.prefix = p /\ a.profile = "legacy"
  BY DEF LegacyRow
<1>3. ListsHashes(a, S)
  BY <1>1, <1>2 DEF ListsHashes
<1>4. AnchorOK(a)
  BY <1>3 DEF AnchorOK, RowOf
<1> QED  BY <1>4, AppendedOK

\* A finite set of integers has a least element: the next day of a sweep.
LEMMA LeastDay ==
  ASSUME NEW S \in SUBSET Int, IsFiniteSet(S), S # {}
  PROVE  (CHOOSE d \in S : \A e \in S : d <= e) \in S
<1> DEFINE R == {de \in S \X S : de[1] < de[2]}
<1>1. \A d, e \in S : <<d, e>> \in R <=> d < e
  OBVIOUS
<1> HIDE DEF R
<1>2. TotalOrder(S, R)
  BY <1>1 DEF TotalOrder
<1>3. Cardinality(S) \in Nat /\ Cardinality(S) >= 1
  BY NotEmpty
<1>4. 0 \in 0..(Cardinality(S) - 1)
  BY <1>3
<1>5. PICK d \in S : Cardinality(Below(S, R, d)) = 0
  BY <1>2, <1>4, RankTaken
<1>6. Below(S, R, d) = {}
  <2>1. Below(S, R, d) \in SUBSET S
    BY DEF Below
  <2>2. IsFiniteSet(Below(S, R, d))
    BY <2>1, FS_Subset
  <2> QED  BY <1>5, <2>2, FS_EmptySet
<1>7. ASSUME NEW e \in S
      PROVE  d <= e
  <2>1. ~(<<e, d>> \in R)
    BY <1>6 DEF Below
  <2>2. ~(e < d) /\ e \in Int /\ d \in Int
    BY <1>1, <2>1
  <2> QED  BY <2>2
<1> QED  BY <1>7


-----------------------------------------------------------------------------
(***************************************************************************)
(* The invariant holds at first, and every step keeps it.                  *)
(***************************************************************************)
LEMMA CoreInit == Init => CoreInv
<1> SUFFICES ASSUME Init PROVE CoreInv
  OBVIOUS
<1>1. matrix = NoMatrix /\ matrix.phase = "none" /\ NoMatrix.phase = "none"
  BY DEF Init, NoMatrix
<1>2. RowsBehind(stored, matrix) = stored /\ TableBehind(anchors, matrix) = anchors
  BY <1>1 DEF RowsBehind, TableBehind
<1>3. stored = [s \in Sessions |-> stored[s]] /\ \A s \in Sessions : stored[s] = Absent
  BY DEF Init
<1>4. RowsOK(stored)
  <2>1. {s \in Sessions : stored[s] # Absent} = {}
    BY <1>3
  <2> QED  BY <1>3, <2>1, FS_EmptySet DEF RowsOK
<1>5. AnchorsOK(anchors)
  <2>1. anchors = <<>>
    BY DEF Init
  <2> QED  BY <2>1 DEF AnchorsOK, IsASequence
<1>6. MatrixOK(stored, anchors, matrix)
  BY <1>1, <1>5 DEF MatrixOK, NoMatrix, MatrixPhases, AnchorsOK
<1>7. SweepTyped(sweep)
  BY FS_EmptySet DEF Init, NoSweep, SweepTyped
<1>8. RunTyped(run) /\ run.phase = "none"
  BY DEF Init, NoRun, RunTyped, RunPhases
<1> QED  BY <1>2, <1>3, <1>4, <1>5, <1>6, <1>7, <1>8 DEF Init, CoreInv

\* While there is no matrix, the tables are what they are.
LEMMA IdleFacts ==
  ASSUME CoreInv, Idle
  PROVE  /\ RowsBehind(stored, matrix) = stored /\ TableBehind(anchors, matrix) = anchors
         /\ RowsOK(stored) /\ AnchorsOK(anchors) /\ SweepTyped(sweep) /\ RunTyped(run)
         /\ stored = [s \in Sessions |-> stored[s]]
<1>1. matrix.phase = "none"
  BY DEF Idle
<1>2. RowsBehind(stored, matrix) = stored /\ TableBehind(anchors, matrix) = anchors
  BY <1>1 DEF RowsBehind, TableBehind
<1> QED  BY <1>2 DEF CoreInv

\* A step outside the matrix that keeps the tables in order keeps the invariant.
LEMMA IdleStep ==
  ASSUME CoreInv, Idle, UNCHANGED <<matrix, workload, verifications>>,
         stored' = [s \in Sessions |-> stored'[s]], RowsOK(stored'), AnchorsOK(anchors'),
         SweepTyped(sweep'), RunTyped(run'), run'.phase # "none" => Plan # Absent
  PROVE  CoreInv'
<1>1. matrix' = matrix /\ matrix'.phase = "none" /\ workload' = workload /\ verifications' = {}
  BY DEF Idle, CoreInv
<1>2. RowsBehind(stored', matrix') = stored' /\ TableBehind(anchors', matrix') = anchors'
  BY <1>1 DEF RowsBehind, TableBehind
<1>3. MatrixOK(stored', anchors', matrix')
  BY <1>1 DEF MatrixOK, CoreInv, AnchorsOK
<1>4. Plan' = Plan /\ workload' \in DOMAIN Work
  BY <1>1 DEF Plan, Allowed, CoreInv
<1> QED  BY <1>1, <1>2, <1>3, <1>4 DEF CoreInv

\* What happens beside the run leaves its progress alone.
LEMMA MeanwhileFacts ==
  ASSUME CoreInv, Meanwhile
  PROVE  /\ Idle /\ UNCHANGED <<matrix, verifications>>
         /\ RunTyped(run') /\ (run'.phase # "none" => Plan # Absent)
<1>1. Idle /\ UNCHANGED <<matrix, verifications>>
  BY DEF Meanwhile
<1>2. RunTyped(run) /\ (run.phase # "none" => Plan # Absent)
  BY DEF CoreInv
<1>3. PICK T : run' = [run EXCEPT !.touched = T]
  BY DEF Meanwhile, RunTyped
<1>4. RunTyped(run') /\ run'.phase = run.phase
  BY <1>2, <1>3 DEF RunTyped
<1> QED  BY <1>1, <1>2, <1>4


\* Finalizing stores the rows of an accepted body.
LEMMA FinalizeCore ==
  ASSUME CoreInv, NEW s \in Sessions, NEW body \in Allowed.posts[s], Finalize(s, body), Meanwhile
  PROVE  CoreInv'
<1>1. /\ Idle /\ UNCHANGED <<matrix, verifications>>
      /\ RunTyped(run') /\ (run'.phase # "none" => Plan # Absent)
  BY MeanwhileFacts
<1>2. /\ RowsOK(stored) /\ AnchorsOK(anchors) /\ SweepTyped(sweep)
      /\ stored = [t \in Sessions |-> stored[t]]
  BY <1>1, IdleFacts
<1>3. Good(Parsed(body))
  <2>1. IsBody(body)
    BY WorkAssumption DEF CoreInv, Allowed
  <2> QED  BY <2>1, ParsedBody DEF Finalize, Good
<1>4. /\ stored' = [stored EXCEPT ![s] = RowsOf(s, Parsed(body))]
      /\ sweep' = [sweep EXCEPT !.seen = @ \ {s}] /\ UNCHANGED <<workload, anchors>>
  BY DEF Finalize, Store
<1>5. RowsOK(stored')
  BY <1>2, <1>3, <1>4, StoreStep
<1>6. stored' = [t \in Sessions |-> stored'[t]]
  BY <1>2, <1>4
<1>7. SweepTyped(sweep')
  BY <1>2, <1>4 DEF SweepTyped
<1> QED  BY <1>1, <1>2, <1>4, <1>5, <1>6, <1>7, IdleStep

\* tamper_receipt_from_db changes a stored receipt.
LEMMA TamperCore ==
  ASSUME CoreInv, NEW s, Tamper(s), Meanwhile
  PROVE  CoreInv'
<1>1. /\ Idle /\ UNCHANGED <<matrix, verifications>>
      /\ RunTyped(run') /\ (run'.phase # "none" => Plan # Absent)
  BY MeanwhileFacts
<1>2. /\ RowsOK(stored) /\ AnchorsOK(anchors) /\ SweepTyped(sweep)
      /\ stored = [t \in Sessions |-> stored[t]]
  BY <1>1, IdleFacts
<1>3. s \in Sessions /\ stored[s] # Absent /\ ~Tampered(stored[s])
  BY DEF Tamper, Rows
<1>4. stored' = [stored EXCEPT ![s].receipt.energy = @ + 123] /\ UNCHANGED <<workload, anchors, sweep>>
  BY DEF Tamper
<1>5. RowsOK(stored')
  BY <1>2, <1>3, <1>4, TamperStep
<1>6. stored' = [t \in Sessions |-> stored'[t]]
  BY <1>2, <1>4
<1> QED  BY <1>1, <1>2, <1>4, <1>5, <1>6, IdleStep

\* Closing a day, with either profile.
LEMMA CloseDayCore ==
  ASSUME CoreInv, NEW c \in Allowed.closings,
         CloseDay(c[1], c[2]) \/ CloseLegacyDay(c[1], c[2]), Meanwhile
  PROVE  CoreInv'
<1>1. /\ Idle /\ UNCHANGED <<matrix, verifications>>
      /\ RunTyped(run') /\ (run'.phase # "none" => Plan # Absent)
  BY MeanwhileFacts
<1>2. /\ RowsOK(stored) /\ AnchorsOK(anchors) /\ SweepTyped(sweep)
      /\ stored = [t \in Sessions |-> stored[t]]
  BY <1>1, IdleFacts
<1>3. c[1] \in Int
  BY WorkAssumption DEF CoreInv, Allowed
<1>4. AnchorsOK(anchors') /\ UNCHANGED <<workload, stored, sweep>>
  <2>1. CASE CloseDay(c[1], c[2])
    BY <1>2, <1>3, <2>1, CloseStep DEF CloseDay
  <2>2. CASE CloseLegacyDay(c[1], c[2])
    BY <1>2, <2>2, LegacyStep DEF CloseLegacyDay
  <2> QED  BY <2>1, <2>2
<1> QED  BY <1>1, <1>2, <1>4, IdleStep

\* The days of a sweep are integers: they come from texts of timestamps.
LEMMA StartSweepCore ==
  ASSUME CoreInv, NEW p, StartSweep(p), Meanwhile
  PROVE  CoreInv'
<1>1. /\ Idle /\ UNCHANGED <<matrix, verifications>>
      /\ RunTyped(run') /\ (run'.phase # "none" => Plan # Absent)
  BY MeanwhileFacts
<1>2. /\ RowsOK(stored) /\ AnchorsOK(anchors) /\ SweepTyped(sweep)
      /\ stored = [t \in Sessions |-> stored[t]]
  BY <1>1, IdleFacts
<1> DEFINE R == Rows \cap Scope[p]
           T == {TextDay(stored[s].receipt.start) : s \in R}
           f == [s \in R |-> TextDay(stored[s].receipt.start)]
<1>3. sweep' = [state |-> "closing", prefix |-> p, closed |-> {}, todo |-> T, seen |-> R]
      /\ UNCHANGED <<workload, stored, anchors>>
  BY DEF StartSweep
<1>4. \A s \in R : s \in Sessions /\ RowOK(s, stored[s])
  BY <1>2 DEF Rows, RowsOK
<1>5. IsFiniteSet(R)
  <2>1. Rows = {s \in Sessions : stored[s] # Absent}
    BY DEF Rows
  <2>2. IsFiniteSet(Rows)
    BY <1>2, <2>1 DEF RowsOK
  <2> QED  BY <2>2, FS_Subset
<1>6. T \in SUBSET Int
  <2>1. \A s \in R : stored[s].receipt.start \in Timestamp
    BY <1>4, RowFacts
  <2> HIDE DEF R
  <2> QED  BY <2>1, TimestampFields
<1>7. DOMAIN f = R /\ T = {f[s] : s \in R}
  OBVIOUS
<1> HIDE DEF R, T, f
<1>8. IsFiniteSet(T)
  BY <1>5, <1>7, ImageIsFinite
<1>9. SweepTyped(sweep')
  BY <1>3, <1>6, <1>8 DEF SweepTyped
<1> QED  BY <1>1, <1>2, <1>3, <1>9, IdleStep

\* anchor_all_days closes its next day.
LEMMA SweepDayCore ==
  ASSUME CoreInv, SweepDay, Meanwhile
  PROVE  CoreInv'
<1>1. /\ Idle /\ UNCHANGED <<matrix, verifications>>
      /\ RunTyped(run') /\ (run'.phase # "none" => Plan # Absent)
  BY MeanwhileFacts
<1>2. /\ RowsOK(stored) /\ AnchorsOK(anchors) /\ SweepTyped(sweep)
      /\ stored = [t \in Sessions |-> stored[t]]
  BY <1>1, IdleFacts
<1> DEFINE day == CHOOSE d \in sweep.todo : \A e \in sweep.todo : d <= e
<1>3. /\ sweep.state = "closing" /\ sweep.todo # {}
      /\ sweep' = IF Closing(day, sweep.prefix) = "raises" THEN [sweep EXCEPT !.state = "failed"]
                  ELSE [sweep EXCEPT !.todo = @ \ {day}, !.closed = @ \cup {day}]
      /\ anchors' = IF Closing(day, sweep.prefix) = "inserts"
                    THEN Inserted(day, sweep.prefix) ELSE anchors
      /\ UNCHANGED <<workload, stored>>
  BY DEF SweepDay
<1>4. day \in sweep.todo /\ day \in Int
  BY <1>2, <1>3, LeastDay DEF SweepTyped
<1> HIDE DEF day
<1>5. AnchorsOK(anchors')
  BY <1>2, <1>3, <1>4, CloseStep
<1>6. SweepTyped(sweep')
  <2>1. sweep.todo \ {day} \in SUBSET Int /\ IsFiniteSet(sweep.todo \ {day})
    BY <1>2, FS_Subset DEF SweepTyped
  <2>2. CASE Closing(day, sweep.prefix) = "raises"
    <3>1. sweep' = [sweep EXCEPT !.state = "failed"]
      BY <1>3, <2>2
    <3> QED  BY <1>2, <3>1 DEF SweepTyped
  <2>3. CASE Closing(day, sweep.prefix) # "raises"
    <3>1. sweep' = [sweep EXCEPT !.todo = @ \ {day}, !.closed = @ \cup {day}]
      BY <1>3, <2>3
    <3> QED  BY <1>2, <2>1, <3>1 DEF SweepTyped
  <2> QED  BY <2>2, <2>3
<1> QED  BY <1>1, <1>2, <1>3, <1>5, <1>6, IdleStep

\* A run stores, closes, verifies, exports and reconciles.
LEMMA RunCore ==
  ASSUME CoreInv, RunStep
  PROVE  CoreInv'
<1>1. Idle /\ RunTyped(run) /\ (run.phase # "none" => Plan # Absent)
  BY DEF RunStep, CoreInv
<1>2. /\ RowsOK(stored) /\ AnchorsOK(anchors) /\ SweepTyped(sweep)
      /\ stored = [t \in Sessions |-> stored[t]]
  BY <1>1, IdleFacts
<1>3. CASE StartRun
  <2>1. RunTyped(run') /\ Plan # Absent
    BY <1>1, <1>3 DEF StartRun, RunTyped, RunPhases
  <2>2. UNCHANGED <<workload, stored, anchors, sweep, matrix, verifications>>
    BY <1>3 DEF StartRun
  <2> QED  BY <1>1, <1>2, <2>1, <2>2, IdleStep
<1>4. CASE PersistNext
  <2> DEFINE s == Plan.ids[run.made + 1]
  <2>1. /\ run.phase = "persisting" /\ run.made < Len(Plan.ids)
        /\ UNCHANGED <<workload, anchors, matrix, verifications>>
    BY <1>4 DEF PersistNext
  <2>2. PICK session \in Plan.sessions[s] :
          /\ Store(s, session)
          /\ run' = [run EXCEPT !.made = @ + 1, !.outside = @ \/ ~InsideDay(session),
                                !.touched = @ \ {s}]
    BY <1>4 DEF PersistNext
  <2>3. Plan # Absent /\ Plan.ids \in Seq(Sessions)
    BY <1>1, <2>1, WorkAssumption DEF CoreInv, Plan, Allowed
  <2>4. s \in Sessions /\ s \in Range(Plan.ids)
    <3>1. run.made + 1 \in 1..Len(Plan.ids)
      BY <1>1, <2>1, <2>3, LenProperties DEF RunTyped
    <3>2. Plan.ids \in [1..Len(Plan.ids) -> Sessions]
      BY <2>3, LenProperties
    <3> QED  BY <3>1, <3>2 DEF Range
  <2>5. Good(session)
    BY <2>2, <2>3, <2>4, WorkAssumption DEF CoreInv, Plan, Allowed, Good, Generated
  <2>6. RunTyped(run') /\ run'.phase = run.phase
    <3> DEFINE o == run.outside \/ ~InsideDay(session)
               q == run.touched \ {s}
    <3>1. run' = [run EXCEPT !.made = @ + 1, !.outside = o, !.touched = q]
      BY <2>2
    <3> HIDE DEF o, q
    <3>2. run' = [phase |-> run.phase, made |-> run.made + 1, outside |-> o, anchor |-> run.anchor,
                  verdict |-> run.verdict, verified |-> run.verified,
                  exported |-> run.exported, touched |-> q]
      BY <1>1, <3>1 DEF RunTyped
    <3>3. run'.made \in Nat /\ run'.phase \in RunPhases /\ run'.phase = run.phase
      BY <1>1, <3>2 DEF RunTyped
    <3>4. run'.outside = o
      BY <3>2
    <3> QED  BY <3>2, <3>3, <3>4 DEF RunTyped
  <2> HIDE DEF s
  <2>7. stored' = [stored EXCEPT ![s] = RowsOf(s, session)] /\ sweep' = [sweep EXCEPT !.seen = @ \ {s}]
    BY <2>2 DEF Store
  <2>8. RowsOK(stored')
    BY <1>2, <2>4, <2>5, <2>7, StoreStep
  <2>9. stored' = [t \in Sessions |-> stored'[t]]
    BY <1>2, <2>7
  <2>10. SweepTyped(sweep')
    BY <1>2, <2>7 DEF SweepTyped
  <2> QED  BY <1>1, <1>2, <2>1, <2>3, <2>6, <2>8, <2>9, <2>10, IdleStep
<1>5. CASE CheckDay
  <2>1. PICK phase \in {"failed", "closing"} : run' = [run EXCEPT !.phase = phase]
    BY <1>5 DEF CheckDay
  <2>2. RunTyped(run') /\ Plan # Absent
    BY <1>1, <1>5, <2>1 DEF CheckDay, RunTyped, RunPhases
  <2>3. UNCHANGED <<workload, stored, anchors, sweep, matrix, verifications>>
    BY <1>5 DEF CheckDay
  <2> QED  BY <1>1, <1>2, <2>2, <2>3, IdleStep
<1>6. CASE CloseRun
  <2>1. PICK phase \in {"failed", "verifying"} : run' = [run EXCEPT !.phase = phase]
    BY <1>6 DEF CloseRun
  <2>2. RunTyped(run') /\ Plan # Absent
    BY <1>1, <1>6, <2>1 DEF CloseRun, RunTyped, RunPhases
  <2>3. UNCHANGED <<workload, stored, sweep, matrix, verifications>>
    BY <1>6 DEF CloseRun
  <2>4. Plan.day \in Int
    BY <2>2, WorkAssumption DEF CoreInv, Plan, Allowed
  <2>5. AnchorsOK(anchors')
    BY <1>2, <1>6, <2>4, CloseStep DEF CloseRun
  <2> QED  BY <1>1, <1>2, <2>2, <2>3, <2>5, IdleStep
<1>7. CASE VerifyRun
  <2>1. PICK id, verdict, verified :
          run' = [run EXCEPT !.phase = "exporting", !.anchor = id, !.verdict = verdict,
                             !.verified = verified]
    BY <1>7 DEF VerifyRun
  <2>2. RunTyped(run') /\ Plan # Absent
    BY <1>1, <1>7, <2>1 DEF VerifyRun, RunTyped, RunPhases
  <2>3. UNCHANGED <<workload, stored, anchors, sweep, matrix, verifications>>
    BY <1>7 DEF VerifyRun, Persisted
  <2> QED  BY <1>1, <1>2, <2>2, <2>3, IdleStep
<1>8. CASE ExportRun
  <2>1. PICK lines : run' = [run EXCEPT !.phase = "reconciling", !.exported = lines]
    BY <1>8 DEF ExportRun
  <2>2. RunTyped(run') /\ Plan # Absent
    BY <1>1, <1>8, <2>1 DEF ExportRun, RunTyped, RunPhases
  <2>3. UNCHANGED <<workload, stored, anchors, sweep, matrix, verifications>>
    BY <1>8 DEF ExportRun
  <2> QED  BY <1>1, <1>2, <2>2, <2>3, IdleStep
<1>9. CASE ReconcileRun
  <2>1. PICK phase \in {"done", "mismatch"} : run' = [run EXCEPT !.phase = phase]
    BY <1>9 DEF ReconcileRun
  <2>2. RunTyped(run') /\ Plan # Absent
    BY <1>1, <1>9, <2>1 DEF ReconcileRun, RunTyped, RunPhases
  <2>3. UNCHANGED <<workload, stored, anchors, sweep, matrix, verifications>>
    BY <1>9 DEF ReconcileRun
  <2> QED  BY <1>1, <1>2, <2>2, <2>3, IdleStep
<1> QED  BY <1>3, <1>4, <1>5, <1>6, <1>7, <1>8, <1>9 DEF RunStep


\* The savepoint: what the matrix changed is put back.
MatrixStep ==
    \/ \E call \in Allowed.matrices : StartMatrix(call)
    \/ Mutate
    \/ Judge
    \/ RecordScenario

\* Every step of the matrix leaves what stands behind its savepoint as it was.
LEMMA MatrixViews ==
  ASSUME CoreInv, MatrixStep
  PROVE  /\ RowsBehind(stored', matrix') = RowsBehind(stored, matrix)
         /\ TableBehind(anchors', matrix') = TableBehind(anchors, matrix)
         /\ MatrixOK(stored', anchors', matrix')
         /\ stored' = [s \in Sessions |-> stored'[s]]
         /\ UNCHANGED <<workload, sweep>>
<1>1. MatrixOK(stored, anchors, matrix) /\ stored = [s \in Sessions |-> stored[s]]
  BY DEF CoreInv
<1>2. IsASequence(anchors) /\ anchors = [i \in DOMAIN anchors |-> anchors[i]]
  BY <1>1, SequenceIsFunction DEF MatrixOK
<1>3. CASE \E call \in Allowed.matrices : StartMatrix(call)
  <2>1. PICK call \in Allowed.matrices : StartMatrix(call)
    BY <1>3
  <2> DEFINE id == SelectAnchor(call)
             ctx == [day |-> call.day, prefix |-> call.prefix, session |-> call.session,
                     anchor |-> id, root |-> anchors[id].root, count |-> anchors[id].count]
  <2>2. /\ matrix = NoMatrix /\ Ready(call, id)
        /\ matrix' = [NoMatrix EXCEPT !.phase = "ready", !.ctx = ctx]
        /\ UNCHANGED <<workload, stored, anchors, sweep>>
    BY <2>1 DEF StartMatrix
  <2>3. id \in DOMAIN anchors /\ call.session \in Sessions /\ stored[call.session] # Absent
    BY <2>2 DEF Ready, Rows
  <2> HIDE DEF id
  <2>4. ctx.session = call.session /\ ctx.anchor = id
    OBVIOUS
  <2> HIDE DEF ctx
  <2>5. matrix.phase = "none" /\ matrix'.phase = "ready"
    BY <2>2 DEF NoMatrix
  <2>6. MatrixOK(stored', anchors', matrix')
    BY <1>1, <2>2, <2>3, <2>4 DEF MatrixOK, NoMatrix, MatrixPhases, RowsBehind
  <2> QED  BY <1>1, <2>2, <2>5, <2>6 DEF RowsBehind, TableBehind
<1>4. CASE Mutate
  <2> DEFINE s == matrix.ctx.session
             id == matrix.ctx.anchor
             row == stored[s]
             a == anchors[id]
             B == Failing(stored[s], anchors, matrix.ctx, matrix.ctx.root)
  <2>1. /\ matrix.phase = "ready" /\ matrix.next <= 7
        /\ stored' = [stored EXCEPT ![s] = MutatedRow(row, matrix.next)]
        /\ anchors' = [anchors EXCEPT ![id] = MutatedAnchor(a, s, matrix.next)]
        /\ matrix' = [matrix EXCEPT !.phase = "mutated", !.before = B,
                                    !.saved = [row |-> row, anchor |-> a]]
        /\ UNCHANGED <<workload, sweep>>
    BY <1>4 DEF Mutate
  <2>2. /\ s \in Sessions /\ id \in DOMAIN anchors /\ matrix.next \in 1..7
        /\ stored[s] # Absent
    BY <1>1, <2>1 DEF MatrixOK, RowsBehind
  <2> HIDE DEF B
  <2>3. /\ matrix' = [phase |-> "mutated", ctx |-> matrix.ctx, next |-> matrix.next, before |-> B,
                      after |-> matrix.after, saved |-> [row |-> row, anchor |-> a],
                      records |-> matrix.records]
        /\ matrix'.ctx.session = s /\ matrix'.ctx.anchor = id
        /\ matrix'.saved.row = row /\ matrix'.saved.anchor = a
    BY <1>1, <2>1 DEF MatrixOK
  <2> HIDE DEF s, id
  <2>4. stored'[s] = MutatedRow(row, matrix.next) /\ stored' = [t \in Sessions |-> stored'[t]]
    BY <1>1, <2>1, <2>2
  <2>5. /\ anchors'[id] = MutatedAnchor(a, s, matrix.next) /\ DOMAIN anchors' = DOMAIN anchors
        /\ anchors' = [i \in DOMAIN anchors |-> anchors'[i]]
    BY <1>2, <2>1, <2>2
  <2>6. IsASequence(anchors')
    <3>1. Len(anchors) \in Nat /\ DOMAIN anchors = 1..Len(anchors)
      BY <1>2, SequenceIsFunction
    <3> QED  BY <2>5, <3>1, FunctionIsSequence
  <2>7. [stored' EXCEPT ![s] = row] = stored
    BY <1>1, <2>1, <2>2
  <2>8. [anchors' EXCEPT ![id] = a] = anchors
    BY <1>2, <2>1, <2>2
  <2>9. MatrixOK(stored', anchors', matrix')
    BY <2>2, <2>3, <2>4, <2>5, <2>6, <2>7 DEF MatrixOK, MatrixPhases, RowsBehind
  <2> QED  BY <2>1, <2>3, <2>4, <2>7, <2>8, <2>9 DEF RowsBehind, TableBehind
<1>5. CASE Judge
  <2> DEFINE s == matrix.ctx.session
             id == matrix.ctx.anchor
             A == Failing(stored[s], anchors, matrix.ctx,
                          IF matrix.next = 7 THEN IncorrectRoot ELSE matrix.ctx.root)
  <2>1. /\ matrix.phase = "mutated"
        /\ stored' = [stored EXCEPT ![s] = matrix.saved.row]
        /\ anchors' = [anchors EXCEPT ![id] = matrix.saved.anchor]
        /\ matrix' = [matrix EXCEPT !.phase = "restored", !.saved = Absent, !.after = A]
        /\ UNCHANGED <<workload, sweep>>
    BY <1>5 DEF Judge, RolledBack
  <2>2. /\ s \in Sessions /\ id \in DOMAIN anchors /\ matrix.next \in 1..7
        /\ stored'[s] # Absent
    BY <1>1, <2>1 DEF MatrixOK, RowsBehind
  <2> HIDE DEF A
  <2>3. /\ matrix' = [phase |-> "restored", ctx |-> matrix.ctx, next |-> matrix.next,
                      before |-> matrix.before, after |-> A, saved |-> Absent,
                      records |-> matrix.records]
    BY <1>1, <2>1 DEF MatrixOK
  <2>4. stored' = [t \in Sessions |-> stored'[t]]
    BY <1>1, <2>1
  <2>5. DOMAIN anchors' = DOMAIN anchors /\ anchors' = [i \in DOMAIN anchors |-> anchors'[i]]
    BY <1>2, <2>1
  <2>6. IsASequence(anchors')
    <3>1. Len(anchors) \in Nat /\ DOMAIN anchors = 1..Len(anchors)
      BY <1>2, SequenceIsFunction
    <3> QED  BY <2>5, <3>1, FunctionIsSequence
  <2>7. MatrixOK(stored', anchors', matrix')
    BY <2>2, <2>3, <2>5, <2>6 DEF MatrixOK, MatrixPhases, RowsBehind
  <2> QED  BY <2>1, <2>3, <2>4, <2>7 DEF RowsBehind, TableBehind
<1>6. CASE RecordScenario
  <2>1. matrix.phase = "restored" /\ UNCHANGED <<workload, stored, anchors, sweep>>
    BY <1>6 DEF RecordScenario
  <2>2. PICK record : matrix' = [matrix EXCEPT
                        !.phase = IF matrix.next = 7 THEN "done" ELSE "ready",
                        !.next = @ + 1, !.before = {}, !.after = {},
                        !.records = Append(@, record)]
    BY <1>6 DEF RecordScenario
  <2>3. matrix.next \in 1..7
    BY <1>1, <2>1 DEF MatrixOK
  <2> DEFINE phase == IF matrix.next = 7 THEN "done" ELSE "ready"
  <2>4. phase \in {"ready", "done"}
    OBVIOUS
  <2> HIDE DEF phase
  <2>5. matrix' = [phase |-> phase, ctx |-> matrix.ctx, next |-> matrix.next + 1, before |-> {},
                   after |-> {}, saved |-> matrix.saved, records |-> Append(matrix.records, record)]
    BY <1>1, <2>2 DEF MatrixOK, phase
  <2>6. MatrixOK(stored', anchors', matrix')
    BY <1>1, <2>1, <2>3, <2>4, <2>5 DEF MatrixOK, MatrixPhases, RowsBehind
  <2> QED  BY <1>1, <2>1, <2>4, <2>5, <2>6 DEF RowsBehind, TableBehind
<1> QED  BY <1>3, <1>4, <1>5, <1>6 DEF MatrixStep

\* So the matrix keeps the invariant.
LEMMA MatrixCore ==
  ASSUME CoreInv, MatrixStep, UNCHANGED <<run, verifications>>
  PROVE  CoreInv'
<1>1. /\ RowsBehind(stored', matrix') = RowsBehind(stored, matrix)
      /\ TableBehind(anchors', matrix') = TableBehind(anchors, matrix)
      /\ MatrixOK(stored', anchors', matrix')
      /\ stored' = [s \in Sessions |-> stored'[s]]
      /\ UNCHANGED <<workload, sweep>>
  BY MatrixViews
<1>2. Plan' = Plan
  BY <1>1 DEF Plan, Allowed
<1> QED  BY <1>1, <1>2 DEF CoreInv

\* The core invariant of the laboratory: the tables hold receipts of bodies
\* and rows that commit to what they hold, whatever is finalized, tampered
\* with, closed and swept, and the savepoint of the matrix has them back.
THEOREM CoreInvariance == Spec => []CoreInv
<1>1. ASSUME CoreInv, [Next]_vars
      PROVE  CoreInv'
  <2>1. CASE \E s \in Sessions : \E body \in Allowed.posts[s] : Finalize(s, body) /\ Meanwhile
    BY <1>1, <2>1, FinalizeCore
  <2>2. CASE \E s \in Allowed.tampering : Tamper(s) /\ Meanwhile
    BY <1>1, <2>2, TamperCore
  <2>3. CASE \E c \in Allowed.closings : CloseDay(c[1], c[2]) /\ Meanwhile
    BY <1>1, <2>3, CloseDayCore
  <2>4. CASE \E c \in Allowed.closings : CloseLegacyDay(c[1], c[2]) /\ Meanwhile
    BY <1>1, <2>4, CloseDayCore
  <2>5. CASE \E p \in Allowed.sweeps : StartSweep(p) /\ Meanwhile
    BY <1>1, <2>5, StartSweepCore
  <2>6. CASE SweepDay /\ Meanwhile
    BY <1>1, <2>6, SweepDayCore
  <2>7. CASE MatrixStep /\ UNCHANGED <<run, verifications>>
    BY <1>1, <2>7, MatrixCore
  <2>8. CASE RunStep
    BY <1>1, <2>8, RunCore
  <2>9. CASE UNCHANGED vars
    BY <1>1, <2>9 DEF CoreInv, Plan, Allowed, vars
  <2> QED  BY <1>1, <2>1, <2>2, <2>3, <2>4, <2>5, <2>6, <2>7, <2>8, <2>9 DEF Next, MatrixStep
<1> QED  BY CoreInit, <1>1, PTL DEF Spec

-----------------------------------------------------------------------------
(***************************************************************************)
(* Tampering with receipts and with the contents of a closed day.          *)
(***************************************************************************)
LEMMA SettledFacts ==
  ASSUME CoreInv, Settled
  PROVE  RowsOK(stored) /\ AnchorsOK(anchors)
BY DEF CoreInv, Settled, RowsBehind, TableBehind

\* Whatever else happened: a tampered receipt fails the hash check and the
\* audit of its session and of every row that holds it, and the rows verify.
THEOREM TamperingDetected == Spec => []TamperingIsSeen
<1>1. ASSUME CoreInv
      PROVE  TamperingIsSeen
  <2>1. SUFFICES ASSUME Settled, NEW s \in Rows, Tampered(stored[s])
                 PROVE  /\ ~ReceiptCheck(stored[s]) /\ ~AuditCheck(stored[s])
                        /\ \A i \in DOMAIN anchors :
                             /\ AnchorMatches(anchors[i])
                             /\ (/\ anchors[i].profile = "v1"
                                 /\ \E m \in Range(anchors[i].members) : m.session = s)
                                   => ~MembershipAudit(anchors[i])
    BY DEF TamperingIsSeen
  <2>2. RowsOK(stored) /\ AnchorsOK(anchors)
    BY <1>1, <2>1, SettledFacts
  <2>3. RowOK(s, stored[s])
    BY <2>2 DEF Rows, RowsOK
  <2>4. HashReceipt(stored[s].receipt) # stored[s].hash
    BY <2>1, <2>3, RowFacts
  <2>5. ~ReceiptCheck(stored[s]) /\ ~AuditCheck(stored[s])
    BY <2>4 DEF ReceiptCheck, AuditCheck
  <2>6. ASSUME NEW i \in DOMAIN anchors
        PROVE  AnchorMatches(anchors[i])
    BY <2>2, AnchorVerifies DEF AnchorsOK
  <2>7. ASSUME NEW i \in DOMAIN anchors, NEW m \in Range(anchors[i].members), m.session = s
        PROVE  ~MembershipAudit(anchors[i])
    BY <2>4, <2>7 DEF MembershipAudit, Unchanged
  <2> QED  BY <2>5, <2>6, <2>7
<1> QED  BY <1>1, CoreInvariance, PTL

\* What one record less, another hash and another start make of a set.
LEMMA VariantFacts ==
  ASSUME NEW S, SnapshotSet(S), NEW T \in Variants(S)
  PROVE  RecordSet(T) /\ T # S
<1>1. /\ IsFiniteSet(S) /\ \A r \in S : IsRecord(r) /\ r.hash # <<>>
      /\ \A r, q \in S : r.session = q.session => r = q
  BY DEF SnapshotSet, RecordSet
<1>2. ASSUME NEW r \in S
      PROVE  RecordSet(S \ {r}) /\ S \ {r} # S
  <2>1. IsFiniteSet(S \ {r})
    BY <1>1, FS_Subset
  <2> QED  BY <1>1, <2>1 DEF RecordSet
<1>3. ASSUME NEW r \in S, NEW q, IsRecord(q), q.session = r.session, q # r
      PROVE  RecordSet((S \ {r}) \cup {q}) /\ (S \ {r}) \cup {q} # S
  <2>1. IsFiniteSet((S \ {r}) \cup {q})
    BY <1>2, FS_AddElement DEF RecordSet
  <2>2. \A x \in S \ {r} : x.session # q.session
    BY <1>1, <1>3
  <2>3. q \notin S
    BY <1>1, <1>3
  <2>4. RecordSet((S \ {r}) \cup {q})
    BY <1>1, <1>3, <2>1, <2>2 DEF RecordSet
  <2> QED  BY <2>3, <2>4
<1>4. ASSUME NEW r \in S
      PROVE  /\ IsRecord([r EXCEPT !.hash = <<>>]) /\ [r EXCEPT !.hash = <<>>].session = r.session
             /\ [r EXCEPT !.hash = <<>>] # r
             /\ IsRecord([r EXCEPT !.start = @ + 1]) /\ [r EXCEPT !.start = @ + 1].session = r.session
             /\ [r EXCEPT !.start = @ + 1] # r
  <2>1. /\ r = [session |-> r.session, start |-> r.start, hash |-> r.hash] /\ r.session \in Int
        /\ r.start \in Int /\ r.hash # <<>>
    BY <1>1 DEF IsRecord
  <2> DEFINE x == r.start
             q == [session |-> r.session, start |-> x + 1, hash |-> r.hash]
  <2>2. [r EXCEPT !.start = @ + 1] = q
    BY <2>1
  <2>3. x \in Int /\ q.start = x + 1 /\ r.start = x
    BY <2>1
  <2>4. IsRecord(q) /\ q.session = r.session
    BY <2>1 DEF IsRecord
  <2> HIDE DEF q, x
  <2>5. q # r
    BY <2>3
  <2>6. [r EXCEPT !.hash = <<>>] = [session |-> r.session, start |-> r.start, hash |-> <<>>]
    BY <2>1
  <2> QED  BY <2>1, <2>2, <2>4, <2>5, <2>6 DEF IsRecord
<1>5. \/ \E r \in S : T = S \ {r}
      \/ \E r \in S : T = (S \ {r}) \cup {[r EXCEPT !.hash = <<>>]}
      \/ \E r \in S : T = (S \ {r}) \cup {[r EXCEPT !.start = @ + 1]}
  BY DEF Variants
<1> QED  BY <1>2, <1>3, <1>4, <1>5

\* The root of a closed day is the root of nothing else: another hash or
\* start of a receipt, a receipt less, and another day give another root.
THEOREM RootsAreDistinct == Spec => []RootsDistinguish
<1>1. ASSUME CoreInv
      PROVE  RootsDistinguish
  <2>1. SUFFICES ASSUME Settled, NEW i \in DOMAIN anchors, anchors[i].profile = "v1"
                 PROVE  LET records == MemberRecords(anchors[i])
                            Root(S, day) == Commitment(S, Context(day)).root
                        IN  /\ \A S \in Variants(records) \ {{}} :
                                 Root(S, anchors[i].day) # anchors[i].root
                            /\ Root(records, anchors[i].day + 1) # anchors[i].root
    BY DEF RootsDistinguish
  <2> DEFINE a == anchors[i]
  <2>2. PICK S : Holds(a, S)
    <3>1. PICK S : RowOf(a, S)
      BY <1>1, <2>1, SettledFacts DEF AnchorsOK, AnchorOK
    <3> QED  BY <2>1, <3>1 DEF RowOf, ListsHashes
  <2>3. /\ SnapshotSet(S) /\ RecordSet(S) /\ S # {} /\ a.day \in Int
        /\ MemberRecords(a) = S /\ a.root = Commitment(S, Context(a.day)).root
    BY <2>2, HoldsFacts DEF Holds, SnapshotSet
  <2> HIDE DEF a
  <2>4. ASSUME NEW T \in Variants(S), T # {}
        PROVE  Commitment(T, Context(a.day)).root # a.root
    <3>1. RecordSet(T) /\ T # S
      BY <2>3, VariantFacts
    <3> QED  BY <2>3, <2>4, <3>1, CommitmentInjective
  <2>5. Commitment(S, Context(a.day + 1)).root # a.root
    <3>1. Context(a.day + 1) # Context(a.day)
      <4> DEFINE d == a.day
      <4>1. d \in Int /\ Context(d + 1).day = d + 1 /\ Context(d).day = d
        BY <2>3 DEF Context
      <4> HIDE DEF d
      <4>2. Context(d + 1) # Context(d)
        BY <4>1
      <4> QED  BY <4>2 DEF d
    <3> QED  BY <2>3, <3>1, CommitmentInjective
  <2> QED  BY <2>3, <2>4, <2>5 DEF a
<1> QED  BY <1>1, CoreInvariance, PTL

-----------------------------------------------------------------------------
(***************************************************************************)
(* Types.                                                                  *)
(***************************************************************************)
\* A row of six fields, one of which changes.
LEMMA RowWith ==
  ASSUME NEW row, DOMAIN row = {"json", "meters", "receipt", "hash", "start", "columns"}, NEW x
  PROVE  /\ LET m == [row EXCEPT !.receipt = x]
            IN  /\ m.receipt = x /\ m.json = row.json /\ m.meters = row.meters /\ m.hash = row.hash
                /\ m.start = row.start /\ m.columns = row.columns
         /\ LET m == [row EXCEPT !.meters = x]
            IN  /\ m.meters = x /\ m.json = row.json /\ m.receipt = row.receipt /\ m.hash = row.hash
                /\ m.start = row.start /\ m.columns = row.columns
         /\ LET m == [row EXCEPT !.columns = x]
            IN  /\ m.columns = x /\ m.json = row.json /\ m.receipt = row.receipt /\ m.hash = row.hash
                /\ m.start = row.start /\ m.meters = row.meters
OBVIOUS

\* What the matrix changes in the rows of a session, and what it leaves.
Shifted(meters) ==
    [meters EXCEPT ![Middle(meters)].import = Sub * (Rounded(@) + 111)]
WithoutRoot(columns) == [columns EXCEPT !.root = IncorrectRoot]

\* What each scenario makes of the rows of a session.
LEMMA MutatedRowFacts ==
  ASSUME NEW row, DOMAIN row = {"json", "meters", "receipt", "hash", "start", "columns"},
         NEW n \in 1..7
  PROVE  LET m == MutatedRow(row, n)
             mid == Middle(row.meters)
         IN  /\ m.json = row.json /\ m.hash = row.hash /\ m.start = row.start
             /\ n = 1 => m.receipt = WithEnergy(row.receipt, row.receipt.energy + 123)
             /\ n # 1 => m.receipt = row.receipt
             /\ n = 2 => m.meters = Shifted(row.meters)
             /\ n = 3 => m.meters = Restrict(row.meters, DOMAIN row.meters \ {mid})
             /\ n \notin {2, 3} => m.meters = row.meters
             /\ n = 4 => m.columns = WithoutRoot(row.columns)
             /\ n # 4 => m.columns = row.columns
             /\ n \in 5..7 => m = row
<1> DEFINE m == MutatedRow(row, n)
           mid == Middle(row.meters)
           energy == WithEnergy(row.receipt, row.receipt.energy + 123)
           shifted == Shifted(row.meters)
           fewer == Restrict(row.meters, DOMAIN row.meters \ {mid})
           columns == WithoutRoot(row.columns)
<1>1. CASE n = 1
  <2>1. m = [row EXCEPT !.receipt = energy]
    BY <1>1 DEF MutatedRow, WithEnergy
  <2> HIDE DEF m, mid, energy, shifted, fewer, columns
  <2> QED  BY <1>1, <2>1, RowWith DEF m, energy
<1>2. CASE n = 2
  <2>1. m = [row EXCEPT !.meters = shifted]
    BY <1>2 DEF MutatedRow, Shifted
  <2> HIDE DEF m, mid, energy, shifted, fewer, columns
  <2> QED  BY <1>2, <2>1, RowWith DEF m, shifted
<1>3. CASE n = 3
  <2>1. m = [row EXCEPT !.meters = fewer]
    BY <1>3 DEF MutatedRow
  <2> HIDE DEF m, mid, energy, shifted, fewer, columns
  <2> QED  BY <1>3, <2>1, RowWith DEF m, fewer, mid
<1>4. CASE n = 4
  <2>1. m = [row EXCEPT !.columns = columns]
    BY <1>4 DEF MutatedRow, WithoutRoot
  <2> HIDE DEF m, mid, energy, shifted, fewer, columns
  <2> QED  BY <1>4, <2>1, RowWith DEF m, columns
<1>5. CASE n \in 5..7
  <2>1. m = row
    BY <1>5 DEF MutatedRow
  <2> HIDE DEF m, mid, energy, shifted, fewer, columns
  <2> QED  BY <1>5, <2>1 DEF m
<1> QED  BY <1>1, <1>2, <1>3, <1>4, <1>5

\* And in its anchor.
WithoutMember(members, s) == RemoveFirstMatch(members, LAMBDA m : m.session = s)

\* What each scenario makes of a row of batch_anchors.
LEMMA MutatedAnchorFacts ==
  ASSUME NEW a, AnchorOK(a), NEW s, NEW n \in 1..7
  PROVE  LET m == MutatedAnchor(a, s, n)
         IN  /\ m.day = a.day /\ m.prefix = a.prefix /\ m.profile = a.profile
             /\ m.count = a.count /\ m.context = a.context /\ m.tree = a.tree
             /\ n = 5 => m.members = WithoutMember(a.members, s)
             /\ n # 5 => m.members = a.members
             /\ n = 6 => m.root = IncorrectRoot
             /\ n # 6 => m.root = a.root
             /\ n \notin {5, 6} => m = a
<1>1. {"day", "prefix", "profile", "context", "root", "tree", "count", "members"} = DOMAIN a
  <2>1. PICK S : RowOf(a, S)
    BY DEF AnchorOK
  <2> QED  BY <2>1 DEF RowOf, Holds, ListsHashes, ProfiledRow, LegacyRow
<1> DEFINE W == WithoutMember(a.members, s)
<1>2. CASE n = 5
  <2>1. MutatedAnchor(a, s, n) = [a EXCEPT !.members = W]
    BY <1>2 DEF MutatedAnchor, WithoutMember
  <2> HIDE DEF W
  <2> QED  BY <1>1, <1>2, <2>1 DEF W
<1>3. CASE n = 6
  <2>1. MutatedAnchor(a, s, n) = [a EXCEPT !.root = IncorrectRoot]
    BY <1>3 DEF MutatedAnchor
  <2> HIDE DEF W
  <2> QED  BY <1>1, <1>3, <2>1
<1>4. CASE n \notin {5, 6}
  BY <1>4 DEF MutatedAnchor
<1> QED  BY <1>2, <1>3, <1>4

\* The number of members of a row is at most that of the sessions.
LEMMA CountInRange ==
  ASSUME IsFiniteSet(Sessions), NEW a, AnchorOK(a)
  PROVE  a.profile \in {"v1", "legacy"} /\ a.count \in 1..Cardinality(Sessions)
<1>1. PICK S : RowOf(a, S)
  BY DEF AnchorOK
<1>2. /\ a.profile \in {"v1", "legacy"} /\ Lists(a, S) /\ RecordSet(S)
      /\ \A r \in S : r.session \in Sessions
  BY <1>1, HoldsFacts, LegacyFacts DEF RowOf, Holds, ListsHashes, SnapshotSet, LegacySet
<1> DEFINE f == [r \in S |-> r.session]
           T == {f[r] : r \in S}
<1>3. DOMAIN f = S /\ (\A r, q \in S : f[r] = f[q] => r = q) /\ T \in SUBSET Sessions
  BY <1>2 DEF RecordSet
<1> HIDE DEF f
<1>4. IsFiniteSet(T) /\ Cardinality(T) = Cardinality(S)
  BY <1>2, <1>3, CardinalityOfImage DEF RecordSet
<1>5. Cardinality(T) <= Cardinality(Sessions) /\ Cardinality(Sessions) \in Nat
  BY <1>3, <1>4, FS_Subset, FS_CardinalityType
<1> QED  BY <1>2, <1>4, <1>5 DEF Lists

\* What the rows say of themselves, also while the matrix has changed one.
LEMMA StoredReceipts ==
  ASSUME CoreInv, NEW s \in Rows
  PROVE  /\ stored[s].receipt.session = s /\ stored[s].receipt.type \in SessionTypes
         /\ stored[s].start \in Int
<1>1. /\ MatrixOK(stored, anchors, matrix) /\ RowsOK(RowsBehind(stored, matrix))
      /\ stored = [s1 \in Sessions |-> stored[s1]]
  BY DEF CoreInv
<1>2. s \in Sessions /\ stored[s] # Absent
  BY DEF Rows
<1>3. CASE matrix.phase = "mutated" /\ s = matrix.ctx.session
  <2> DEFINE row == matrix.saved.row
  <2>1. stored[s] = MutatedRow(row, matrix.next) /\ matrix.next \in 1..7
    BY <1>1, <1>3 DEF MatrixOK
  <2>2. RowsBehind(stored, matrix)[s] = row /\ row # Absent
    BY <1>1, <1>2, <1>3 DEF RowsBehind, MatrixOK
  <2>3. RowOK(s, row)
    BY <1>1, <1>2, <2>2 DEF RowsOK
  <2> HIDE DEF row
  <2>4. /\ DOMAIN row = {"json", "meters", "receipt", "hash", "start", "columns"}
        /\ DOMAIN row.receipt = ReceiptFields
        /\ row.receipt.session = s /\ row.receipt.type \in SessionTypes /\ row.start \in Int
    BY <2>3, RowFacts
  <2> DEFINE e == row.receipt.energy + 123
  <2>5. /\ stored[s].start = row.start
        /\ stored[s].receipt \in {row.receipt, WithEnergy(row.receipt, e)}
    <3> DEFINE n == matrix.next
    <3>1. n \in 1..7 /\ stored[s] = MutatedRow(row, n)
      BY <2>1
    <3> HIDE DEF n
    <3>2. /\ MutatedRow(row, n).start = row.start
          /\ n = 1 => MutatedRow(row, n).receipt = WithEnergy(row.receipt, e)
          /\ n # 1 => MutatedRow(row, n).receipt = row.receipt
      BY <2>4, <3>1, MutatedRowFacts
    <3> QED  BY <3>1, <3>2
  <2> HIDE DEF e
  <2>6. /\ WithEnergy(row.receipt, e).session = row.receipt.session
        /\ WithEnergy(row.receipt, e).type = row.receipt.type
    BY <2>4 DEF WithEnergy, ReceiptFields
  <2> QED  BY <2>4, <2>5, <2>6
<1>4. CASE ~(matrix.phase = "mutated" /\ s = matrix.ctx.session)
  <2>1. RowsBehind(stored, matrix)[s] = stored[s]
    BY <1>1, <1>2, <1>4 DEF RowsBehind
  <2>2. RowOK(s, stored[s])
    BY <1>1, <1>2, <2>1 DEF RowsOK
  <2> QED  BY <2>2, RowFacts
<1> QED  BY <1>3, <1>4

\* The types of the tables, while the matrix has changed them as well.  (A
\* program has finitely many sessions.)
THEOREM TypeCorrectness ==
  ASSUME IsFiniteSet(Sessions)
  PROVE  Spec => []TypeOK
<1>1. ASSUME CoreInv
      PROVE  TypeOK
  <2>1. /\ MatrixOK(stored, anchors, matrix) /\ RowsOK(RowsBehind(stored, matrix))
        /\ AnchorsOK(TableBehind(anchors, matrix)) /\ stored = [s \in Sessions |-> stored[s]]
    BY <1>1 DEF CoreInv
  <2>2. ASSUME NEW s \in Rows
        PROVE  /\ stored[s].receipt.session = s /\ stored[s].receipt.type \in SessionTypes
               /\ stored[s].start \in Int
    BY <1>1, StoredReceipts
  <2>3. ASSUME NEW i \in DOMAIN anchors
        PROVE  anchors[i].profile \in {"v1", "legacy"} /\ anchors[i].count \in 1..Cardinality(Sessions)
    <3> DEFINE t == TableBehind(anchors, matrix)
    <3>1. DOMAIN t = DOMAIN anchors
      BY DEF TableBehind
    <3>2. AnchorOK(t[i])
      BY <2>1, <3>1 DEF AnchorsOK
    <3>3. CASE matrix.phase = "mutated" /\ i = matrix.ctx.anchor
      <4>1. anchors[i] = MutatedAnchor(t[i], matrix.ctx.session, matrix.next) /\ matrix.next \in 1..7
        BY <2>1, <3>3 DEF MatrixOK, TableBehind
      <4> HIDE DEF t
      <4> QED  BY <3>2, <4>1, MutatedAnchorFacts, CountInRange
    <3>4. CASE ~(matrix.phase = "mutated" /\ i = matrix.ctx.anchor)
      <4>1. anchors[i] = t[i]
        BY <2>1, <3>4, SequenceIsFunction DEF MatrixOK, TableBehind
      <4> HIDE DEF t
      <4> QED  BY <3>2, <4>1, CountInRange
    <3> QED  BY <3>3, <3>4
  <2> QED  BY <1>1, <2>2, <2>3 DEF CoreInv, TypeOK, SweepTyped, MatrixOK, MatrixPhases, RunTyped, RunPhases
<1> QED  BY <1>1, CoreInvariance, PTL

-----------------------------------------------------------------------------
(***************************************************************************)
(* What a tariff costs.                                                    *)
(***************************************************************************)
\* The recursion of Total.
IsSum(f, s, n) == f = [k \in 0..n |-> IF k = 0 THEN 0 ELSE f[k - 1] + s[k]]

\* The partial sums of a list are a function on its positions.
LEMMA SumExists ==
  ASSUME NEW s, NEW n \in Nat
  PROVE  \E f : IsSum(f, s, n)
<1> DEFINE Bad == {k \in Nat : ~\E f : IsSum(f, s, k)}
<1> SUFFICES ASSUME Bad # {} PROVE FALSE
  OBVIOUS
<1>1. PICK d \in Bad : \A e \in Bad : d <= e
  BY LeastOf
<1>2. d # 0
  <2> SUFFICES ASSUME d = 0 PROVE FALSE
    OBVIOUS
  <2> DEFINE f == [k \in 0..0 |-> 0]
  <2>1. IsSum(f, s, 0)
    BY DEF IsSum
  <2> QED  BY <2>1
<1>3. d - 1 \in Nat /\ d - 1 \notin Bad
  BY <1>1, <1>2
<1>4. PICK f : IsSum(f, s, d - 1)
  BY <1>3
<1> DEFINE g == [k \in 0..d |-> IF k = d THEN f[d - 1] + s[d] ELSE f[k]]
<1>5. ASSUME NEW k \in 0..d
      PROVE  g[k] = IF k = 0 THEN 0 ELSE g[k - 1] + s[k]
  <2>1. CASE k = d
    <3>1. g[k - 1] = f[d - 1]
      BY <1>2, <2>1
    <3> QED  BY <1>2, <2>1, <3>1
  <2>2. CASE k # d
    <3>1. k \in 0..(d - 1) /\ g[k] = f[k] /\ (k # 0 => g[k - 1] = f[k - 1])
      BY <2>2
    <3>2. f[k] = IF k = 0 THEN 0 ELSE f[k - 1] + s[k]
      BY <1>4, <3>1 DEF IsSum
    <3> QED  BY <3>1, <3>2
  <2> QED  BY <2>1, <2>2
<1>6. IsSum(g, s, d)
  <2>1. g = [k \in 0..d |-> g[k]]
    OBVIOUS
  <2> HIDE DEF g
  <2> QED  BY <1>5, <2>1 DEF IsSum
<1> QED  BY <1>1, <1>6

\* The partial sums are determined, up to any position of both.
LEMMA SumUnique ==
  ASSUME NEW f, NEW g, NEW s, NEW t, NEW m \in Nat, NEW n \in Nat, m <= n,
         IsSum(f, s, m), IsSum(g, t, n), \A k \in 1..m : s[k] = t[k]
  PROVE  f[m] = g[m]
<1> DEFINE Bad == {k \in Nat : k <= m /\ f[k] # g[k]}
<1> SUFFICES ASSUME Bad # {} PROVE FALSE
  OBVIOUS
<1>1. PICK d \in Bad : \A e \in Bad : d <= e
  BY LeastOf
<1>2. f[d] = IF d = 0 THEN 0 ELSE f[d - 1] + s[d]
  BY <1>1 DEF IsSum
<1>3. g[d] = IF d = 0 THEN 0 ELSE g[d - 1] + t[d]
  BY <1>1 DEF IsSum
<1>4. d # 0
  BY <1>1, <1>2, <1>3
<1>5. d - 1 \in Nat /\ d - 1 <= m /\ f[d - 1] = g[d - 1] /\ s[d] = t[d]
  BY <1>1, <1>4
<1> QED  BY <1>1, <1>2, <1>3, <1>4, <1>5

\* The total is the last partial sum.
LEMMA TotalIs ==
  ASSUME NEW s, Len(s) \in Nat
  PROVE  \E f : IsSum(f, s, Len(s)) /\ Total(s) = f[Len(s)]
<1> DEFINE f == CHOOSE f : IsSum(f, s, Len(s))
<1>1. IsSum(f, s, Len(s))
  BY SumExists
<1>2. Total(s) = f[Len(s)]
  BY DEF Total, IsSum
<1> QED  BY <1>1, <1>2

\* A list with one number more.
LEMMA TotalAppend ==
  ASSUME NEW s \in Seq(Int), NEW x \in Int
  PROVE  Total(Append(s, x)) = Total(s) + x
<1> DEFINE t == Append(s, x)
           n == Len(s)
<1>1. n \in Nat /\ Len(t) = n + 1 /\ t[n + 1] = x /\ \A k \in 1..n : t[k] = s[k]
  OBVIOUS
<1> HIDE DEF t, n
<1>2. PICK f : IsSum(f, s, n) /\ Total(s) = f[n]
  BY <1>1, TotalIs DEF n
<1>3. PICK g : IsSum(g, t, n + 1) /\ Total(t) = g[n + 1]
  BY <1>1, TotalIs
<1>4. f[n] = g[n]
  <2>1. n + 1 \in Nat /\ n <= n + 1 /\ \A k \in 1..n : s[k] = t[k]
    BY <1>1
  <2> QED  BY <1>1, <1>2, <1>3, <2>1, SumUnique
<1>5. g[n + 1] = g[n] + x
  BY <1>1, <1>3 DEF IsSum
<1> QED  BY <1>2, <1>3, <1>4, <1>5 DEF t

\* A list of numbers adds up to a number.
LEMMA TotalType ==
  ASSUME NEW s \in Seq(Int)
  PROVE  Total(s) \in Int
<1> DEFINE n == Len(s)
<1>1. n \in Nat /\ \A k \in 1..n : s[k] \in Int
  OBVIOUS
<1>2. PICK f : IsSum(f, s, n) /\ Total(s) = f[n]
  BY <1>1, TotalIs
<1> HIDE DEF n
<1> DEFINE Bad == {k \in Nat : k <= n /\ f[k] \notin Int}
<1> SUFFICES ASSUME Bad # {} PROVE FALSE
  BY <1>1, <1>2
<1>3. PICK d \in Bad : \A e \in Bad : d <= e
  BY LeastOf
<1>4. f[d] = IF d = 0 THEN 0 ELSE f[d - 1] + s[d]
  BY <1>1, <1>2, <1>3 DEF IsSum
<1>5. d # 0 /\ d - 1 \in Nat /\ d - 1 <= n /\ f[d - 1] \in Int /\ s[d] \in Int
  BY <1>1, <1>3, <1>4
<1> QED  BY <1>3, <1>4, <1>5

\* The recursion of FlattenSeq.
IsFlattening(f, seqs, n) == f = [i \in 1..n |-> IF i = 1 THEN seqs[i] ELSE f[i - 1] \o seqs[i]]

\* The flattened beginnings of a list of lists are a function.
LEMMA FlatteningExists ==
  ASSUME NEW seqs, NEW n \in Nat, n # 0
  PROVE  \E f : IsFlattening(f, seqs, n)
<1> DEFINE Bad == {k \in Nat : k # 0 /\ ~\E f : IsFlattening(f, seqs, k)}
<1> SUFFICES ASSUME Bad # {} PROVE FALSE
  OBVIOUS
<1>1. PICK d \in Bad : \A e \in Bad : d <= e
  BY LeastOf
<1>2. d # 1
  <2> SUFFICES ASSUME d = 1 PROVE FALSE
    OBVIOUS
  <2> DEFINE f == [i \in 1..1 |-> seqs[i]]
  <2>1. IsFlattening(f, seqs, 1)
    BY DEF IsFlattening
  <2> QED  BY <2>1
<1>3. d - 1 \in Nat /\ d - 1 # 0 /\ d - 1 \notin Bad
  BY <1>1, <1>2
<1>4. PICK f : IsFlattening(f, seqs, d - 1)
  BY <1>3
<1> DEFINE g == [i \in 1..d |-> IF i = d THEN f[d - 1] \o seqs[d] ELSE f[i]]
<1>5. ASSUME NEW i \in 1..d
      PROVE  g[i] = IF i = 1 THEN seqs[i] ELSE g[i - 1] \o seqs[i]
  <2>1. CASE i = d
    <3>1. g[i - 1] = f[d - 1]
      BY <1>3, <2>1
    <3> QED  BY <1>2, <2>1, <3>1
  <2>2. CASE i # d
    <3>1. i \in 1..(d - 1) /\ g[i] = f[i] /\ (i # 1 => g[i - 1] = f[i - 1])
      BY <2>2
    <3>2. f[i] = IF i = 1 THEN seqs[i] ELSE f[i - 1] \o seqs[i]
      BY <1>4, <3>1 DEF IsFlattening
    <3> QED  BY <3>1, <3>2
  <2> QED  BY <2>1, <2>2
<1>6. IsFlattening(g, seqs, d)
  <2>1. g = [i \in 1..d |-> g[i]]
    OBVIOUS
  <2> HIDE DEF g
  <2> QED  BY <1>5, <2>1 DEF IsFlattening
<1> QED  BY <1>1, <1>6

\* A list that is not empty is flattened from the left.
LEMMA FlattenIs ==
  ASSUME NEW seqs, Len(seqs) \in Nat, Len(seqs) # 0
  PROVE  \E f : IsFlattening(f, seqs, Len(seqs)) /\ FlattenSeq(seqs) = f[Len(seqs)]
<1> DEFINE f == CHOOSE f : IsFlattening(f, seqs, Len(seqs))
<1>1. IsFlattening(f, seqs, Len(seqs))
  BY FlatteningExists
<1>2. FlattenSeq(seqs) = f[Len(seqs)]
  BY DEF FlattenSeq, IsFlattening
<1> QED  BY <1>1, <1>2

\* Parts of a tariff, and what cutting them makes: an instant may lie before
\* the first tick of the clock.
Slices == LET Text == [clock : Int, zone : Zones, plain : BOOLEAN] IN [from : Text, to : Text, price : Int]

\* What a slice adds to the weight of a session.
WeightOf(body, c) == Overlap(body, c) * c.price

\* Posted components are slices.
LEMMA PartsAreSlices ==
  ASSUME NEW cs \in Seq(Parts)
  PROVE  cs \in Seq(Slices)
<1>1. Nat \in SUBSET Int
  OBVIOUS
<1>2. Parts \in SUBSET Slices
  BY <1>1 DEF Parts, Slices, Timestamp
<1> QED  BY <1>2

\* The seconds of a session in a slice, and its weight, are numbers.
LEMMA SliceFacts ==
  ASSUME NEW body, IsBody(body), NEW c \in Slices
  PROVE  /\ Instant(c.from) \in Int /\ Instant(c.to) \in Int /\ c.price \in Int
         /\ Overlap(body, c) \in Int /\ WeightOf(body, c) \in Int
<1>1. /\ c.from.clock \in Int /\ c.to.clock \in Int /\ c.price \in Int
  BY DEF Slices
<1>2. Instant(c.from) \in Int /\ Instant(c.to) \in Int
  BY <1>1, ReceiptConstants DEF Instant
<1>3. Instant(body.start) \in Int /\ Instant(body.end) \in Int
  BY BodyFields, TimestampFields
<1>4. Overlap(body, c) \in Int
  BY <1>2, <1>3 DEF Overlap, Least, Greatest
<1>5. \A a, b \in Int : a * b \in Int
  OBVIOUS
<1> QED  BY <1>1, <1>2, <1>4, <1>5 DEF WeightOf

\* One slice more adds its weight.
LEMMA WeightsAppend ==
  ASSUME NEW body, IsBody(body), NEW cs \in Seq(Slices), NEW c \in Slices
  PROVE  /\ Weights(body, cs) \in Seq(Int) /\ Total(Weights(body, cs)) \in Int
         /\ Append(cs, c) \in Seq(Slices)
         /\ Total(Weights(body, Append(cs, c))) = Total(Weights(body, cs)) + WeightOf(body, c)
<1> DEFINE n == Len(cs)
           ds == Append(cs, c)
           w == Weights(body, cs)
           v == Weights(body, ds)
<1>1. /\ n \in Nat /\ DOMAIN cs = 1..n /\ ds \in Seq(Slices) /\ DOMAIN ds = 1..(n + 1)
      /\ ds[n + 1] = c /\ \A i \in 1..n : ds[i] = cs[i] /\ cs[i] \in Slices
  OBVIOUS
<1>2. w = [i \in 1..n |-> WeightOf(body, cs[i])] /\ v = [i \in 1..(n + 1) |-> WeightOf(body, ds[i])]
  BY <1>1 DEF Weights, WeightOf
<1>3. \A i \in 1..n : WeightOf(body, cs[i]) \in Int
  BY <1>1, SliceFacts
<1>4. WeightOf(body, c) \in Int
  BY SliceFacts
<1> HIDE DEF n, ds, w, v
<1>5. w \in Seq(Int) /\ Len(w) = n
  BY <1>1, <1>2, <1>3
<1>6. v = Append(w, WeightOf(body, c))
  BY <1>1, <1>2, <1>4, <1>5
<1> QED  BY <1>1, <1>4, <1>5, <1>6, TotalType, TotalAppend DEF ds, w, v

\* A cut inside a session leaves the seconds that the session has in a slice.
LEMMA OverlapIsCut ==
  ASSUME NEW a \in Int, NEW b \in Int, NEW f \in Int, NEW t \in Int, NEW at \in Int,
         a <= at, at <= b, f < at, at < t
  PROVE  Greatest(0, Least(b, t) - Greatest(a, f))
           = Greatest(0, Least(b, at) - Greatest(a, f)) + Greatest(0, Least(b, t) - Greatest(a, at))
BY DEF Greatest, Least

\* The pieces of a slice weigh as much as the slice.
LEMMA PiecesWeigh ==
  ASSUME NEW body, IsBody(body), NEW at \in Int, Instant(body.start) <= at, at <= Instant(body.end),
         NEW cs \in Seq(Slices), NEW c \in Slices
  PROVE  /\ cs \o Pieces(c, at) \in Seq(Slices)
         /\ Total(Weights(body, cs \o Pieces(c, at)))
              = Total(Weights(body, cs)) + WeightOf(body, c)
<1> DEFINE before == [c EXCEPT !.to = UtcText(at)]
           after == [c EXCEPT !.from = UtcText(at)]
<1>1. CASE ~(Instant(c.from) < at /\ at < Instant(c.to))
  <2>1. Pieces(c, at) = <<c>>
    BY <1>1 DEF Pieces
  <2>2. cs \o Pieces(c, at) = Append(cs, c)
    BY <2>1
  <2> QED  BY <2>2, WeightsAppend
<1>2. CASE Instant(c.from) < at /\ at < Instant(c.to)
  <2>1. UtcText(at) \in [clock : Int, zone : Zones, plain : BOOLEAN] /\ Instant(UtcText(at)) = at
    BY DEF UtcText, Instant, Zones
  <2>2. before \in Slices /\ after \in Slices
    BY <2>1 DEF Slices
  <2>3. /\ before.from = c.from /\ before.to = UtcText(at) /\ before.price = c.price
        /\ after.from = UtcText(at) /\ after.to = c.to /\ after.price = c.price
    BY DEF Slices
  <2>4. Pieces(c, at) = <<before, after>>
    BY <1>2 DEF Pieces
  <2> HIDE DEF before, after
  <2>5. Append(cs, before) \in Seq(Slices) /\ cs \o Pieces(c, at) = Append(Append(cs, before), after)
    BY <2>2, <2>4
  <2>6. /\ cs \o Pieces(c, at) \in Seq(Slices)
        /\ Total(Weights(body, cs \o Pieces(c, at)))
             = Total(Weights(body, cs)) + WeightOf(body, before) + WeightOf(body, after)
    <3> DEFINE half == Append(cs, before)
    <3>1. /\ half \in Seq(Slices)
          /\ Total(Weights(body, half)) = Total(Weights(body, cs)) + WeightOf(body, before)
      BY <2>2, WeightsAppend
    <3>2. cs \o Pieces(c, at) = Append(half, after)
      BY <2>5
    <3> HIDE DEF half
    <3>3. /\ Append(half, after) \in Seq(Slices)
          /\ Total(Weights(body, Append(half, after)))
               = Total(Weights(body, half)) + WeightOf(body, after)
      BY <2>2, <3>1, WeightsAppend
    <3> QED  BY <3>1, <3>2, <3>3
  <2>7. Overlap(body, c) = Overlap(body, before) + Overlap(body, after)
    <3>1. /\ Instant(body.start) \in Int /\ Instant(body.end) \in Int
          /\ Instant(c.from) \in Int /\ Instant(c.to) \in Int
      BY BodyFields, TimestampFields, SliceFacts
    <3> QED  BY <1>2, <2>1, <2>3, <3>1, OverlapIsCut DEF Overlap
  <2>8. WeightOf(body, c) = WeightOf(body, before) + WeightOf(body, after)
    <3>1. Overlap(body, before) \in Int /\ Overlap(body, after) \in Int /\ c.price \in Int
      BY <2>2, SliceFacts
    <3>2. \A x, y, p \in Int : (x + y) * p = x * p + y * p
      OBVIOUS
    <3> QED  BY <2>3, <2>7, <3>1, <3>2 DEF WeightOf
  <2>9. /\ Total(Weights(body, cs)) \in Int
        /\ WeightOf(body, before) \in Int /\ WeightOf(body, after) \in Int
    BY <2>2, SliceFacts, WeightsAppend
  <2> QED  BY <2>6, <2>8, <2>9
<1> QED  BY <1>1, <1>2

\* Neither does cutting every part of a tariff change its weight.
LEMMA CutWeighs ==
  ASSUME NEW body, IsBody(body), NEW at \in Int, Instant(body.start) <= at, at <= Instant(body.end),
         NEW cs \in Seq(Slices)
  PROVE  Total(Weights(body, Cut(cs, at))) = Total(Weights(body, cs))
<1> DEFINE n == Len(cs)
           seqs == [i \in DOMAIN cs |-> Pieces(cs[i], at)]
           w == Weights(body, cs)
<1>1. n \in Nat /\ DOMAIN cs = 1..n /\ \A i \in 1..n : cs[i] \in Slices
  OBVIOUS
<1>2. seqs = [i \in 1..n |-> Pieces(cs[i], at)] /\ w = [i \in 1..n |-> WeightOf(body, cs[i])]
  BY <1>1 DEF Weights, WeightOf
<1>3. Cut(cs, at) = FlattenSeq(seqs)
  BY DEF Cut
<1> HIDE DEF n, seqs, w
<1>4. Len(seqs) = n /\ Len(w) = n
  BY <1>1, <1>2, FunctionIsSequence
<1>5. CASE n = 0
  <2>1. cs = <<>>
    BY <1>1, <1>5 DEF n
  <2>2. seqs = <<>>
    BY <1>2, <1>5
  <2> QED  BY <1>3, <1>4, <1>5, <2>1, <2>2 DEF FlattenSeq
<1>6. CASE n # 0
  <2>1. PICK f : IsFlattening(f, seqs, n) /\ FlattenSeq(seqs) = f[n]
    BY <1>1, <1>4, <1>6, FlattenIs
  <2>2. PICK g : IsSum(g, w, n) /\ Total(w) = g[n]
    BY <1>1, <1>4, TotalIs
  <2> DEFINE Follows(i) == f[i] \in Seq(Slices) /\ Total(Weights(body, f[i])) = g[i]
             Bad == {i \in Nat : i # 0 /\ i <= n /\ ~Follows(i)}
  <2>3. Bad = {}
    <3> SUFFICES ASSUME Bad # {} PROVE FALSE
      OBVIOUS
    <3>1. PICK d \in Bad : \A e \in Bad : d <= e
      BY LeastOf
    <3>2. d \in 1..n /\ cs[d] \in Slices /\ w[d] = WeightOf(body, cs[d]) /\ seqs[d] = Pieces(cs[d], at)
      BY <1>1, <1>2, <3>1
    <3>3. f[d] = (IF d = 1 THEN seqs[d] ELSE f[d - 1] \o seqs[d]) /\ g[d] = g[d - 1] + w[d]
      <4>1. d \in 0..n /\ d # 0
        BY <1>1, <3>2
      <4>2. f[d] = IF d = 1 THEN seqs[d] ELSE f[d - 1] \o seqs[d]
        BY <2>1, <3>2 DEF IsFlattening
      <4>3. g[d] = g[d - 1] + w[d]
        BY <2>2, <4>1 DEF IsSum
      <4> QED  BY <4>2, <4>3
    <3> DEFINE done == IF d = 1 THEN <<>> ELSE f[d - 1]
    <3>4. done \in Seq(Slices) /\ Total(Weights(body, done)) = g[d - 1]
      <4>1. CASE d = 1
        <5>1. Weights(body, <<>>) = <<>>
          BY DEF Weights
        <5>2. <<>> \in Seq(Int) /\ Len(<<>>) = 0
          OBVIOUS
        <5>3. PICK h : IsSum(h, <<>>, 0) /\ Total(<<>>) = h[0]
          BY <5>2, TotalIs
        <5>4. h[0] = 0 /\ g[0] = 0
          BY <1>1, <2>2, <5>3 DEF IsSum
        <5> QED  BY <4>1, <5>1, <5>3, <5>4
      <4>2. CASE d # 1
        <5>1. d - 1 \in Nat /\ d - 1 # 0 /\ d - 1 <= n /\ d - 1 \notin Bad
          BY <1>1, <3>1, <3>2, <4>2
        <5> QED  BY <4>2, <5>1
      <4> QED  BY <4>1, <4>2
    <3>5. f[d] = done \o Pieces(cs[d], at)
      <4>1. <<>> \o Pieces(cs[d], at) = Pieces(cs[d], at)
        BY DEF Pieces
      <4> QED  BY <3>2, <3>3, <4>1
    <3> HIDE DEF done
    <3>6. /\ done \o Pieces(cs[d], at) \in Seq(Slices)
          /\ Total(Weights(body, done \o Pieces(cs[d], at)))
               = Total(Weights(body, done)) + WeightOf(body, cs[d])
      BY <3>2, <3>4, PiecesWeigh
    <3>7. Follows(d)
      BY <3>2, <3>3, <3>4, <3>5, <3>6
    <3> QED  BY <3>1, <3>7
  <2>4. Follows(n)
    BY <1>1, <1>6, <2>3
  <2> QED  BY <1>3, <2>1, <2>2, <2>4 DEF w
<1> QED  BY <1>5, <1>6

\* Cutting a tariff changes no cost.
LEMMA CutCostsTheSame ==
  ASSUME NEW body, IsBody(body), NEW cs \in Seq(Parts), NEW e,
         NEW at \in Instant(body.start)..Instant(body.end)
  PROVE  WeightedCost(body, e, Cut(cs, at)) = WeightedCost(body, e, cs)
<1>1. Instant(body.start) \in Int /\ Instant(body.end) \in Int
  BY BodyFields, TimestampFields
<1>2. at \in Int /\ Instant(body.start) <= at /\ at <= Instant(body.end)
  BY <1>1
<1>3. cs \in Seq(Slices)
  BY PartsAreSlices
<1>4. Total(Weights(body, Cut(cs, at))) = Total(Weights(body, cs))
  BY <1>2, <1>3, CutWeighs
<1> QED  BY <1>4 DEF WeightedCost

\* The settlement of a row is that of its body.
SettlesBody(row) ==
    /\ row.receipt.settlement.cost
         = WeightedCost(row.json, row.receipt.summary.import, ImportComponents(row.json))
    /\ row.receipt.settlement.credit
         = WeightedCost(row.json, row.receipt.summary.export, ExportComponents(row.json))

\* A tampered receipt keeps its summary and its settlement.
LEMMA EnergyKeepsSettlement ==
  ASSUME NEW r, DOMAIN r = ReceiptFields, NEW e
  PROVE  WithEnergy(r, e).summary = r.summary /\ WithEnergy(r, e).settlement = r.settlement
BY DEF WithEnergy, ReceiptFields

\* So it is with every stored row,
LEMMA RowSettles ==
  ASSUME NEW s, NEW row, RowOK(s, row)
  PROVE  SettlesBody(row)
<1>1. PICK json : Good(json) /\ (row = RowsOf(s, json) \/ row = Changed(RowsOf(s, json)))
  BY DEF RowOK
<1> DEFINE whole == RowsOf(s, json)
           r == Receipt(s, json)
           mvs == MeterValues(json)
           sum == Summary(mvs[Len(mvs)].import - mvs[1].import,
                          mvs[Len(mvs)].export - mvs[1].export)
           cost == WeightedCost(json, sum.import, ImportComponents(json))
           credit == WeightedCost(json, sum.export, ExportComponents(json))
<1>2. r.summary = sum /\ r.settlement = Settlement(cost, credit)
  BY DEF Receipt
<1>3. /\ DOMAIN whole = {"json", "meters", "receipt", "hash", "start", "columns"}
      /\ whole.json = json /\ whole.receipt = r
  BY <1>1, RowsFacts
<1>4. DOMAIN r = ReceiptFields
  BY <1>1, ReceiptFacts DEF ReceiptFields
<1> HIDE DEF sum
<1>5. Settlement(cost, credit).cost = cost /\ Settlement(cost, credit).credit = credit
  BY DEF Settlement
<1> HIDE DEF whole, r, cost, credit
<1>6. SettlesBody(whole)
  BY <1>2, <1>3, <1>5 DEF SettlesBody, cost, credit
<1>7. CASE row = Changed(whole)
  <2> DEFINE q == WithEnergy(r, r.energy + 123)
  <2>1. row.json = json /\ row.receipt = q
    BY <1>3, <1>7 DEF Changed, WithEnergy
  <2>2. q.summary = r.summary /\ q.settlement = r.settlement
    BY <1>4, EnergyKeepsSettlement
  <2> HIDE DEF q
  <2> QED  BY <1>3, <1>6, <2>1, <2>2 DEF SettlesBody
<1> QED  BY <1>1, <1>6, <1>7 DEF whole

\* also while the matrix has changed it.
LEMMA MutatedRowSettles ==
  ASSUME NEW s, NEW row, RowOK(s, row), NEW n \in 1..7
  PROVE  /\ MutatedRow(row, n).json = row.json
         /\ SettlesBody(MutatedRow(row, n))
<1> DEFINE m == MutatedRow(row, n)
           e == row.receipt.energy + 123
<1>1. /\ DOMAIN row = {"json", "meters", "receipt", "hash", "start", "columns"}
      /\ DOMAIN row.receipt = ReceiptFields
  BY RowFacts
<1>2. m.json = row.json /\ m.receipt \in {row.receipt, WithEnergy(row.receipt, e)}
  BY <1>1, MutatedRowFacts
<1> HIDE DEF e, m
<1>3. m.receipt.summary = row.receipt.summary /\ m.receipt.settlement = row.receipt.settlement
  BY <1>1, <1>2, EnergyKeepsSettlement
<1>4. SettlesBody(m)
  BY <1>2, <1>3, RowSettles DEF SettlesBody
<1> QED  BY <1>2, <1>4 DEF m

\* Cutting a tariff interval in two, at any instant of the session, changes
\* no settlement: the shares are summed before the sum is rounded.
THEOREM TariffsMayBeSplit == Spec => []SplitTariffSameCost
<1>1. ASSUME CoreInv
      PROVE  SplitTariffSameCost
  <2>1. /\ MatrixOK(stored, anchors, matrix) /\ RowsOK(RowsBehind(stored, matrix))
        /\ stored = [s \in Sessions |-> stored[s]]
    BY <1>1 DEF CoreInv
  <2>2. ASSUME NEW s \in Rows
        PROVE  Good(stored[s].json) /\ SettlesBody(stored[s])
    <3>1. s \in Sessions /\ stored[s] # Absent
      BY DEF Rows
    <3>2. CASE matrix.phase = "mutated" /\ s = matrix.ctx.session
      <4> DEFINE row == matrix.saved.row
      <4>1. stored[s] = MutatedRow(row, matrix.next) /\ matrix.next \in 1..7
        BY <2>1, <3>2 DEF MatrixOK
      <4>2. RowsBehind(stored, matrix)[s] = row /\ row # Absent
        BY <2>1, <3>1, <3>2 DEF RowsBehind, MatrixOK
      <4>3. RowOK(s, row)
        BY <2>1, <3>1, <4>2 DEF RowsOK
      <4> HIDE DEF row
      <4>4. Good(row.json)
        BY <4>3, RowFacts
      <4> QED  BY <4>1, <4>3, <4>4, MutatedRowSettles
    <3>3. CASE ~(matrix.phase = "mutated" /\ s = matrix.ctx.session)
      <4>1. RowsBehind(stored, matrix)[s] = stored[s]
        BY <2>1, <3>1, <3>3 DEF RowsBehind
      <4>2. RowOK(s, stored[s])
        BY <2>1, <3>1, <4>1 DEF RowsOK
      <4> QED  BY <4>2, RowFacts, RowSettles
    <3> QED  BY <3>2, <3>3
  <2>3. ASSUME NEW s \in Rows, NEW at \in Instant(stored[s].json.start)..Instant(stored[s].json.end)
        PROVE  LET body == stored[s].json
                   summary == stored[s].receipt.summary
                   settlement == stored[s].receipt.settlement
               IN  /\ WeightedCost(body, summary.import, Cut(ImportComponents(body), at))
                        = settlement.cost
                   /\ WeightedCost(body, summary.export, Cut(ExportComponents(body), at))
                        = settlement.credit
    <3> DEFINE body == stored[s].json
    <3>1. IsBody(body)
      BY <2>2 DEF Good
    <3> HIDE DEF body
    <3>2. ImportComponents(body) \in Seq(Parts) /\ ExportComponents(body) \in Seq(Parts)
      BY <3>1, BodyFields DEF ImportComponents, ExportComponents
    <3>3. at \in Instant(body.start)..Instant(body.end)
      BY <2>3 DEF body
    <3>4. /\ \A e : WeightedCost(body, e, Cut(ImportComponents(body), at))
                     = WeightedCost(body, e, ImportComponents(body))
          /\ \A e : WeightedCost(body, e, Cut(ExportComponents(body), at))
                     = WeightedCost(body, e, ExportComponents(body))
      BY <3>1, <3>2, <3>3, CutCostsTheSame
    <3> QED  BY <2>2, <3>4 DEF SettlesBody, body
  <2> QED  BY <2>3 DEF SplitTariffSameCost
<1> QED  BY <1>1, CoreInvariance, PTL

-----------------------------------------------------------------------------
(***************************************************************************)
(* Membership proofs.                                                      *)
(***************************************************************************)
\* Removing the membership of a session leaves the others.
LEMMA RemovedMember ==
  ASSUME NEW members, IsASequence(members), NEW s
  PROVE  LET w == WithoutMember(members, s)
         IN  /\ IsASequence(w)
             /\ (\E i \in 1..Len(members) : members[i].session = s) => Len(w) = Len(members) - 1
             /\ Range(w) \subseteq Range(members)
<1> DEFINE n == Len(members)
           w == WithoutMember(members, s)
           I == {i \in 1..n : members[i].session = s}
           Min1 == CHOOSE x \in I : \A y \in I : x =< y
           p == IF I # {} THEN Min1 ELSE 0
           S == {members[i] : i \in DOMAIN members}
           left == SubSeq(members, 1, p - 1)
           right == SubSeq(members, p + 1, n)
<1>1. n \in Nat /\ DOMAIN members = 1..n /\ members = [i \in 1..n |-> members[i]] /\ members \in Seq(S)
  BY SequenceIsFunction DEF IsASequence
<1>2. w = IF \E i \in 1..n : members[i].session = s THEN left \o right ELSE members
  BY DEF WithoutMember, RemoveFirstMatch, RemoveAt, SelectInSeq, Min
<1>3. S = Range(members)
  BY DEF Range
<1>4. CASE I = {}
  <2>1. w = members /\ ~(\E i \in 1..n : members[i].session = s)
    BY <1>2, <1>4
  <2> HIDE DEF w
  <2> QED  BY <2>1 DEF w
<1>5. CASE I # {}
  <2>1. p \in 1..n
    <3>1. I \in SUBSET Nat
      BY <1>1
    <3>2. \E d \in I : \A e \in I : d =< e
      BY <1>5, <3>1, LeastOf
    <3>3. Min1 \in I
      BY <3>2
    <3> HIDE DEF Min1
    <3>4. p = Min1
      BY <1>5
    <3> QED  BY <3>3, <3>4
  <2>2. w = left \o right
    BY <1>2, <1>5
  <2> HIDE DEF p, w, I, S
  <2>3. /\ left \in Seq(S) /\ Len(left) = p - 1
        /\ right \in Seq(S) /\ Len(right) = n - p
    <3>1. CASE p = 1
      BY <1>1, <2>1, <3>1, SubSeqProperties
    <3>2. CASE p # 1
      BY <1>1, <2>1, <3>2, SubSeqProperties
    <3> QED  BY <3>1, <3>2
  <2> HIDE DEF left, right
  <2>4. w \in Seq(S) /\ Len(w) = n - 1
    <3>1. w \in Seq(S) /\ Len(w) = Len(left) + Len(right)
      BY <2>2, <2>3, ConcatProperties
    <3>2. Len(w) = (p - 1) + (n - p)
      BY <2>3, <3>1
    <3> DEFINE m == n
    <3>3. m \in Nat /\ p \in 1..m /\ Len(w) = (p - 1) + (m - p)
      BY <1>1, <2>1, <3>2
    <3> HIDE DEF m
    <3>4. Len(w) = m - 1
      BY <3>3
    <3> QED  BY <3>1, <3>4 DEF m
  <2>5. Range(w) \subseteq S
    BY <2>4 DEF Range
  <2>6. IsASequence(w)
    BY <2>4, LenProperties, FunctionIsSequence
  <2> QED  BY <1>3, <2>4, <2>5, <2>6 DEF w
<1> QED  BY <1>4, <1>5

\* Membership proofs of a commitment to records verify.
LEMMA ProofsOfRecords ==
  ASSUME NEW S, RecordSet(S), NEW context, ValidContext(context), NEW root,
         NEW k \in DOMAIN Commitment(S, context).leaves
  PROVE  LET c == Commitment(S, context)
         IN  /\ ProofVerifies(Proof(c, k - 1), c.root)
             /\ ProofVerifies(Proof(c, k - 1), root) <=> c.root = root
<1> DEFINE c == Commitment(S, context)
           p == Proof(c, k - 1)
<1>1. ProofVerifies(p, c.root)
  BY MembersAreProven
<1> HIDE DEF p, c
<1>2. ProofVerifies(p, root) <=> c.root = root
  BY <1>1 DEF ProofVerifies
<1> QED  BY <1>1, <1>2 DEF p, c

\* Along the paths of a commitment exactly its records are proven.
LEMMA ClaimsOfRecords ==
  ASSUME NEW S, RecordSet(S), NEW context, ValidContext(context), NEW r, IsRecord(r)
  PROVE  LET c == Commitment(S, context)
         IN  (\E k, position \in DOMAIN c.leaves, steps \in 0..Depth(c.leaves) :
                ProofVerifies(Claim(Proof(c, k - 1), r, position - 1, steps), c.root))
             <=> r \in S
<1> DEFINE n == Cardinality(S)
           c == Commitment(S, context)
           D == Depth(c.leaves)
           root == c.root
           p(k, position, steps) == Claim(Proof(c, k - 1), r, position - 1, steps)
<1>1. /\ n \in Nat /\ c.context = context
      /\ \A q \in S : \E i \in 1..n : c.records[i] = q
      /\ IsASequence(c.leaves) /\ Len(c.leaves) = n /\ DOMAIN c.leaves = 1..n
      /\ \A i \in 1..n : c.leaves[i] = LeafHash(context, c.records[i])
  BY CommitmentFacts, SequenceIsFunction
<1>2. ASSUME NEW k \in DOMAIN c.leaves, NEW position \in DOMAIN c.leaves, NEW steps \in 0..D,
             ProofVerifies(p(k, position, steps), root)
      PROVE  r \in S
  <2>1. n >= 1
    BY <1>1, <1>2
  <2>2. S # {}
    BY <2>1, FS_EmptySet
  <2>3. D \in 0..n
    BY <1>1, <2>1, DepthFacts
  <2> DEFINE path == Proof(c, k - 1).siblings
             short == [j \in 1..steps |-> path[j]]
             claim == p(k, position, steps)
  <2>4. claim.record = r /\ claim.siblings = short
    BY DEF Claim, Proof
  <2>5. steps \in Nat
    BY <1>1, <2>3
  <2> HIDE DEF path, claim, D
  <2>6. Len(short) = steps
    <3>1. short = [j \in 1..steps |-> short[j]]
      OBVIOUS
    <3> HIDE DEF short
    <3> QED  BY <2>5, <3>1, FunctionIsSequence
  <2>7. Len(claim.siblings) \in Nat /\ IsRecord(claim.record)
    BY <2>4, <2>5, <2>6
  <2>8. ProofVerifies(claim, Commitment(S, context).root)
    BY <1>2 DEF claim
  <2>9. claim.record \in S
    BY <2>2, <2>7, <2>8, OnlyMembersAreProven
  <2> QED  BY <2>4, <2>9
<1>3. ASSUME r \in S
      PROVE  \E k, position \in DOMAIN c.leaves, steps \in 0..D :
               ProofVerifies(p(k, position, steps), root)
  <2>1. PICK i \in 1..n : c.records[i] = r
    BY <1>1, <1>3
  <2> DEFINE whole == Proof(c, i - 1)
  <2>2. n >= 1 /\ (i - 1) + 1 = i /\ i \in DOMAIN c.leaves
    BY <1>1
  <2>3. D \in 0..n
    BY <1>1, <2>2, DepthFacts
  <2>4. ProofVerifies(whole, root)
    BY <2>2, MembersAreProven
  <2>5. p(i, i, D) = whole
    <3> DEFINE path == whole.siblings
    <3>1. /\ whole.record = r /\ whole.leaf = LeafHash(whole.context, r) /\ whole.index = i - 1
          /\ DOMAIN whole = {"context", "count", "index", "record", "leaf", "siblings", "root"}
      BY <1>1, <2>1, <2>2 DEF Proof
    <3>2. path = [j \in 1..D |-> path[j]]
      BY DEF Proof
    <3>3. whole = [x \in DOMAIN whole |-> whole[x]]
      BY DEF Proof
    <3> HIDE DEF whole, D
    <3>4. Claim(whole, r, i - 1, D) = whole
      BY <3>1, <3>2, <3>3 DEF Claim
    <3> QED  BY <3>4 DEF whole, D
  <2>6. D \in 0..D
    BY <1>1, <2>3
  <2> QED  BY <2>2, <2>4, <2>5, <2>6
<1> QED  BY <1>2, <1>3

\* What the receipts say now are records, with normalized ids.
LEMMA CurrentRecords ==
  ASSUME CoreInv, NEW r \in Normalized({Record(s) : s \in Rows})
  PROVE  IsRecord(r)
<1>1. PICK s \in Rows : r = [Record(s) EXCEPT !.session = Nfc[Record(s).session]]
  BY DEF Normalized
<1>2. stored[s].start \in Int
  BY StoredReceipts
<1>3. s \in Sessions /\ Nfc[s] \in Int
  BY MerkleConstants DEF Rows
<1>4. r = [session |-> Nfc[s], start |-> stored[s].start, hash |-> stored[s].hash]
  BY <1>1 DEF Record
<1> QED  BY <1>2, <1>3, <1>4 DEF IsRecord

\* The members of a V1 row, also while one is removed, are records of its
\* snapshot.
LEMMA MembersOfSnapshot ==
  ASSUME CoreInv, NEW i \in DOMAIN anchors, anchors[i].profile = "v1"
  PROVE  /\ anchors[i].context = Context(anchors[i].day)
         /\ RecordSet(MemberRecords(anchors[i]))
         /\ Normalized(MemberRecords(anchors[i])) = MemberRecords(anchors[i])
<1> DEFINE b == anchors[i]
           t == TableBehind(anchors, matrix)
           a == t[i]
<1>1. AnchorsOK(t) /\ MatrixOK(stored, anchors, matrix)
  BY DEF CoreInv
<1>2. DOMAIN t = DOMAIN anchors
  BY DEF TableBehind
<1>3. AnchorOK(a)
  BY <1>1, <1>2 DEF AnchorsOK
<1>4. /\ b.day = a.day /\ b.profile = a.profile /\ b.context = a.context
      /\ b.members = a.members \/ \E s : b.members = WithoutMember(a.members, s)
  <2>1. CASE matrix.phase = "mutated" /\ i = matrix.ctx.anchor
    <3> DEFINE n == matrix.next
               s == matrix.ctx.session
    <3>1. b = MutatedAnchor(a, s, n) /\ n \in 1..7
      BY <1>1, <2>1 DEF MatrixOK, TableBehind
    <3> HIDE DEF a, b, n, s
    <3>2. /\ b.day = a.day /\ b.profile = a.profile /\ b.context = a.context
          /\ n = 5 => b.members = WithoutMember(a.members, s)
          /\ n # 5 => b.members = a.members
      BY <1>3, <3>1, MutatedAnchorFacts
    <3> QED  BY <3>2
  <2>2. CASE ~(matrix.phase = "mutated" /\ i = matrix.ctx.anchor)
    BY <1>1, <2>2, SequenceIsFunction DEF MatrixOK, TableBehind
  <2> QED  BY <2>1, <2>2
<1> HIDE DEF a, b, t
<1>5. PICK S : Holds(a, S)
  <2>1. PICK S : RowOf(a, S)
    BY <1>3 DEF AnchorOK
  <2> QED  BY <1>4, <2>1 DEF RowOf, ListsHashes, b
<1>6. /\ a.context = Context(a.day) /\ MemberRecords(a) = S /\ IsASequence(a.members)
      /\ SnapshotSet(S)
  BY <1>5, HoldsFacts DEF Lists, Holds
<1>7. MemberRecords(b) \subseteq S
  <2>1. Range(b.members) \subseteq Range(a.members)
    BY <1>4, <1>6, RemovedMember
  <2> QED  BY <1>6, <2>1 DEF MemberRecords
<1> DEFINE T == MemberRecords(b)
<1>8. RecordSet(T)
  BY <1>6, <1>7, FS_Subset DEF SnapshotSet, RecordSet
<1>9. Normalized(T) = T
  <2>1. CASE T = {}
    BY <2>1 DEF Normalized
  <2>2. CASE T # {}
    <3>1. SnapshotSet(T)
      BY <1>6, <1>7, <1>8, <2>2 DEF SnapshotSet
    <3> HIDE DEF T
    <3> QED  BY <3>1, SnapshotIsNormal
  <2> QED  BY <2>1, <2>2
<1> QED  BY <1>4, <1>6, <1>8, <1>9 DEF b

\* A membership proof made from the memberships of a row verifies on its
\* own; against the stored root exactly if the row commits to them, also
\* while the matrix has removed a membership or replaced the root; and along
\* the paths of the row nothing else is proven that the receipts say, however
\* long the path and whatever position is claimed.
THEOREM ProofsAreSound == Spec => []ProofsMatchAnchor
<1>1. ASSUME CoreInv
      PROVE  ProofsMatchAnchor
  <2> SUFFICES ASSUME NEW i \in DOMAIN anchors, anchors[i].profile = "v1"
               PROVE  LET c == CommitmentFromAnchor(anchors[i])
                          members == MemberRecords(anchors[i])
                      IN  /\ \A k \in DOMAIN c.leaves :
                               /\ ProofVerifies(Proof(c, k - 1), c.root)
                               /\ ProofVerifies(Proof(c, k - 1), anchors[i].root)
                                    <=> c.root = anchors[i].root
                          /\ \A r \in members \cup Normalized({Record(s) : s \in Rows}) :
                               (\E k, position \in DOMAIN c.leaves, steps \in 0..Depth(c.leaves) :
                                  ProofVerifies(Claim(Proof(c, k - 1), r, position - 1, steps), c.root))
                               <=> r \in members
    BY DEF ProofsMatchAnchor
  <2> DEFINE a == anchors[i]
             S == MemberRecords(a)
             x == a.root
             current == Normalized({Record(s) : s \in Rows})
             c == Commitment(S, a.context)
  <2>1. a.context = Context(a.day) /\ RecordSet(S) /\ Normalized(S) = S
    BY <1>1, MembersOfSnapshot
  <2>2. CommitmentFromAnchor(a) = c
    BY <2>1 DEF CommitmentFromAnchor
  <2>3. ValidContext(a.context)
    BY <2>1 DEF ValidContext, Context
  <2>4. \A r \in current : IsRecord(r)
    BY <1>1, CurrentRecords
  <2> HIDE DEF a, S, x, current
  <2>5. ASSUME NEW k \in DOMAIN c.leaves
        PROVE  /\ ProofVerifies(Proof(c, k - 1), c.root)
               /\ ProofVerifies(Proof(c, k - 1), x) <=> c.root = x
    BY <2>1, <2>3, ProofsOfRecords
  <2>6. ASSUME NEW r \in S \cup current
        PROVE  (\E k, position \in DOMAIN c.leaves, steps \in 0..Depth(c.leaves) :
                  ProofVerifies(Claim(Proof(c, k - 1), r, position - 1, steps), c.root))
               <=> r \in S
    <3>1. IsRecord(r)
      BY <2>1, <2>4 DEF RecordSet
    <3> QED  BY <2>1, <2>3, <3>1, ClaimsOfRecords
  <2> HIDE DEF c
  <2> QED  BY <2>2, <2>5, <2>6 DEF a, S, x, current
<1> QED  BY <1>1, CoreInvariance, PTL

-----------------------------------------------------------------------------
(***************************************************************************)
(* Meter streams.                                                          *)
(***************************************************************************)
\* The root of a stream names its leaves, and is not empty.
LEMMA MeterRootFacts ==
  ASSUME NEW n \in Nat, n >= 1, NEW a, IsASequence(a), Len(a) = n,
         NEW b, IsASequence(b), Len(b) = n
  PROVE  /\ MeterRoot(a) # <<>>
         /\ MeterRoot(a) = MeterRoot(b) => \A i \in 1..n : MeterLeaf(a[i]) = MeterLeaf(b[i])
<1> DEFINE Leaves(s) == [i \in 1..n |-> MeterLeaf(s[i])]
<1>1. ASSUME NEW s, IsASequence(s), Len(s) = n
      PROVE  /\ MeterRoot(s) = TreeRoot(Leaves(s)) /\ IsASequence(Leaves(s)) /\ Len(Leaves(s)) = n
             /\ Leaves(s) = Evaluated(Leaves(s))
  <2> DEFINE f == Leaves(s)
  <2>1. f = [i \in 1..n |-> f[i]] /\ DOMAIN s = 1..n
    BY <1>1, SequenceIsFunction
  <2>2. MeterRoot(s) = TreeRoot(Evaluated([i \in DOMAIN s |-> MeterLeaf(s[i])]))
    BY DEF MeterRoot
  <2>3. [i \in DOMAIN s |-> MeterLeaf(s[i])] = f
    BY <2>1
  <2> HIDE DEF f
  <2>4. IsASequence(f) /\ Len(f) = n /\ Evaluated(f) = f
    BY <2>1, FunctionIsSequence
  <2> QED  BY <2>2, <2>3, <2>4 DEF f
<1>2. MeterRoot(a) # <<>>
  <2>1. \A i \in 1..n : Leaves(a)[i] # <<>>
    BY TuplesAreNotEmpty DEF MeterLeaf
  <2>2. MeterRoot(a) = TreeRoot(Leaves(a)) /\ IsASequence(Leaves(a)) /\ Len(Leaves(a)) = n
    BY <1>1
  <2> HIDE DEF Leaves
  <2>3. NoneEmpty(Leaves(a))
    BY <2>1, <2>2 DEF NoneEmpty
  <2> QED  BY <2>2, <2>3, RootIsNotEmpty
<1>3. ASSUME MeterRoot(a) = MeterRoot(b), NEW i \in 1..n
      PROVE  MeterLeaf(a[i]) = MeterLeaf(b[i])
  <2>1. /\ MeterRoot(a) = TreeRoot(Leaves(a)) /\ IsASequence(Leaves(a)) /\ Len(Leaves(a)) = n
        /\ MeterRoot(b) = TreeRoot(Leaves(b)) /\ IsASequence(Leaves(b)) /\ Len(Leaves(b)) = n
    BY <1>1
  <2>2. Leaves(a)[i] = MeterLeaf(a[i]) /\ Leaves(b)[i] = MeterLeaf(b[i])
    OBVIOUS
  <2> HIDE DEF Leaves
  <2>3. Leaves(a) = Leaves(b)
    BY <1>3, <2>1, TreeInjective
  <2> QED  BY <2>2, <2>3
<1> QED  BY <1>2, <1>3

\* A multiple of Sub is a whole number of steps.
LEMMA RoundedMultiple ==
  ASSUME NEW z \in Int
  PROVE  Rounded(Sub * z) = z
<1> DEFINE b == 2 * Sub
           x == 2 * (Sub * z) + Sub
           q == x \div b
<1>1. Sub \in Nat /\ Sub >= 1
  BY ReceiptConstants
<1>2. b \in Nat /\ b >= 1 /\ x \in Int /\ q \in Int
  BY <1>1
<1>3. x = b * z + Sub /\ Sub < b
  BY <1>1
<1>4. b * q <= x /\ x < b * q + b
  <2> HIDE DEF x, b
  <2> QED  BY <1>2 DEF q
<1> HIDE DEF q, x, b
<1>5. ~(q < z)
  <2> SUFFICES ASSUME q < z PROVE FALSE
    OBVIOUS
  <2>1. q + 1 <= z
    BY <1>2
  <2>2. b * (q + 1) <= b * z
    BY <1>2, <2>1
  <2>3. b * (q + 1) = b * q + b
    BY <1>2
  <2>4. b * q \in Int /\ b * z \in Int
    BY <1>2
  <2> QED  BY <1>1, <1>2, <1>3, <1>4, <2>2, <2>3, <2>4
<1>6. ~(z < q)
  <2> SUFFICES ASSUME z < q PROVE FALSE
    OBVIOUS
  <2>1. z + 1 <= q
    BY <1>2
  <2>2. b * (z + 1) <= b * q
    BY <1>2, <2>1
  <2>3. b * (z + 1) = b * z + b
    BY <1>2
  <2>4. b * q \in Int /\ b * z \in Int
    BY <1>2
  <2> QED  BY <1>1, <1>2, <1>3, <1>4, <2>2, <2>3, <2>4
<1>7. q = z
  BY <1>2, <1>5, <1>6
<1> QED  BY <1>7 DEF Rounded, RoundedRatio, q, x, b

\* The rows of a stream by their instants, equal ones by their positions.
EarlierRow(meters, i, j) == \/ meters[i].at < meters[j].at
                            \/ meters[i].at = meters[j].at /\ i < j

InstantPairs(meters) == {ij \in (DOMAIN meters) \X (DOMAIN meters) : EarlierRow(meters, ij[1], ij[2])}

\* The pairs are those of the order.
LEMMA InstantPairsAre ==
  ASSUME NEW meters, NEW i \in DOMAIN meters, NEW j \in DOMAIN meters
  PROVE  <<i, j>> \in InstantPairs(meters) <=> EarlierRow(meters, i, j)
<1> DEFINE D == DOMAIN meters
           R == InstantPairs(meters)
<1>1. R = {ij \in D \X D : EarlierRow(meters, ij[1], ij[2])}
  BY DEF InstantPairs
<1> HIDE DEF D, R
<1>2. \A x, y \in D : <<x, y>> \in R <=> EarlierRow(meters, x, y)
  BY <1>1
<1> QED  BY <1>2 DEF D, R

\* There are n sample indices below n.
LEMMA PositionsAreFinite ==
  ASSUME NEW n \in Nat
  PROVE  IsFiniteSet(0..(n - 1)) /\ Cardinality(0..(n - 1)) = n
<1>1. 0 \in Int /\ n - 1 \in Int
  OBVIOUS
<1>2. IsFiniteSet(0..(n - 1)) /\ Cardinality(0..(n - 1)) = IF 0 > n - 1 THEN 0 ELSE n - 1 - 0 + 1
  BY <1>1, FS_Interval
<1> QED  BY <1>2

SampledBy(row, n, order) ==
    /\ order \in [1..n -> 0..(n - 1)]
    /\ \A i \in 0..(n - 1) : \E k \in 1..n : order[k] = i
    /\ IsASequence(Samples(row)) /\ Len(Samples(row)) = n
    /\ \A k \in 1..n : Samples(row)[k] = row.meters[order[k]]

\* The query sorts the meter rows by instant and sample index.
LEMMA SamplesArranged ==
  ASSUME NEW n \in Nat, NEW row, DOMAIN row.meters = 0..(n - 1),
         \A i \in 0..(n - 1) : row.meters[i].at \in Int
  PROVE  /\ TotalOrder(0..(n - 1), InstantPairs(row.meters))
         /\ SampledBy(row, n, Ranked(0..(n - 1), InstantPairs(row.meters)))
<1> DEFINE meters == row.meters
           D == DOMAIN meters
           R == InstantPairs(meters)
           Before(i, j) == \/ row.meters[i].at < row.meters[j].at
                           \/ row.meters[i].at = row.meters[j].at /\ i < j
           c(i) == CHOOSE x \in D : Cardinality({y \in D : Before(y, x)}) = i - 1
           d(i) == CHOOSE x \in D : Cardinality(Below(D, R, x)) = i - 1
           f == [i \in 1..Cardinality(D) |-> c(i)]
           order == Evaluated(f)
           g == [k \in DOMAIN order |-> row.meters[order[k]]]
<1>1. D = 0..(n - 1) /\ IsFiniteSet(D) /\ Cardinality(D) = n
  BY PositionsAreFinite
<1>2. \A i, j \in D : <<i, j>> \in R <=> Before(i, j)
  BY InstantPairsAre DEF EarlierRow
<1>3. TotalOrder(D, R)
  <2>1. D \subseteq Int /\ \A i \in D : row.meters[i].at \in Int
    BY <1>1
  <2> DEFINE A == [i \in D |-> row.meters[i].at]
  <2>2. \A i, j \in D : <<i, j>> \in R <=> (A[i] < A[j] \/ (A[i] = A[j] /\ i < j))
    BY <1>2
  <2>3. \A i \in D : A[i] \in Int /\ i \in Int
    BY <2>1
  <2> HIDE DEF D, R, A
  <2>4. \A i \in D : ~(<<i, i>> \in R)
    BY <2>2, <2>3
  <2>5. \A i, j, k \in D : <<i, j>> \in R /\ <<j, k>> \in R => <<i, k>> \in R
    BY <2>2, <2>3
  <2>6. ASSUME NEW i \in D, NEW j \in D, i # j
        PROVE  <<i, j>> \in R \/ <<j, i>> \in R
    <3>1. A[i] \in Int /\ A[j] \in Int /\ i \in Int /\ j \in Int
      BY <2>3
    <3>2. CASE A[i] = A[j]
      BY <2>2, <2>6, <3>1, <3>2
    <3>3. CASE A[i] < A[j]
      BY <2>2, <3>3
    <3>4. CASE A[j] < A[i]
      BY <2>2, <3>4
    <3> QED  BY <3>1, <3>2, <3>3, <3>4
  <2> QED  BY <2>4, <2>5, <2>6 DEF TotalOrder
<1>4. \A x \in D : Below(D, R, x) = {y \in D : Before(y, x)}
  BY <1>2 DEF Below
<1>5. \A i \in 1..n : c(i) = d(i)
  BY <1>4
<1>6. Samples(row) = Evaluated(g)
  BY DEF Samples, Arranged
<1>7. Ranked(D, R) = [i \in 1..Cardinality(D) |-> d(i)]
  BY DEF Ranked
<1> HIDE DEF c, d, D, R
<1>8. f = Ranked(D, R)
  BY <1>1, <1>5, <1>7
<1>9. Ranked(D, R) \in [1..n -> D] /\ \A x \in D : \E k \in 1..n : Ranked(D, R)[k] = x
  <2>1. /\ Ranked(D, R) \in [1..Cardinality(D) -> D]
        /\ \A x \in D : /\ Position(D, R, x) \in 1..Cardinality(D)
                        /\ Ranked(D, R)[Position(D, R, x)] = x
    BY <1>1, <1>3, RankedFacts
  <2> QED  BY <1>1, <2>1
<1>10. f = [i \in 1..n |-> f[i]]
  BY <1>1
<1> HIDE DEF f
<1>11. order = f /\ DOMAIN f = 1..n
  BY <1>10, FunctionIsSequence
<1> HIDE DEF order
<1>12. g = [k \in 1..n |-> row.meters[f[k]]]
  BY <1>11
<1>13. g = [k \in 1..n |-> g[k]]
  BY <1>11
<1> HIDE DEF g
<1>14. Evaluated(g) = g /\ IsASequence(g) /\ Len(g) = n
  BY <1>13, FunctionIsSequence
<1>15. \A k \in 1..n : g[k] = row.meters[f[k]]
  BY <1>12
<1> QED  BY <1>1, <1>3, <1>6, <1>8, <1>9, <1>14, <1>15 DEF R, SampledBy


\* The rows of a stream: instants and counters of the posted readings.
MeterRowsOf(meters, json, n) ==
    /\ n \in Nat /\ n >= 2 /\ DOMAIN meters = 0..(n - 1) /\ Cardinality(DOMAIN meters) = n
    /\ meters = [i \in 0..(n - 1) |-> meters[i]]
    /\ \A i \in 0..(n - 1) :
         /\ meters[i] = [at |-> meters[i].at, import |-> meters[i].import, export |-> meters[i].export]
         /\ meters[i].at = Instant(json.meters[i + 1].ts)
         /\ meters[i].import = json.meters[i + 1].import
         /\ meters[i].export = json.meters[i + 1].export
         /\ json.meters[i + 1].ts \in Timestamp
         /\ meters[i].at \in Int /\ meters[i].import \in Int /\ meters[i].export \in Int

\* persist_finalized_session stores a meter row for every reading.
LEMMA MeterRows ==
  ASSUME NEW s, NEW json, Good(json)
  PROVE  MeterRowsOf(RowsOf(s, json).meters, json, Len(json.meters))
<1> DEFINE n == Len(json.meters)
           Row(i) == [at |-> Instant(json.meters[i + 1].ts), import |-> json.meters[i + 1].import,
                      export |-> json.meters[i + 1].export]
           meters == RowsOf(s, json).meters
<1>1. json.meters \in Seq(Readings) /\ n >= 2
  BY BodyFields DEF Good, Accepted
<1>2. /\ n \in Nat /\ json.meters \in [1..n -> Readings]
      /\ \A i \in 1..n : Missing \notin {json.meters[i].import, json.meters[i].export}
  BY <1>1, LenProperties DEF Good, Accepted
<1>3. meters = [i \in 0..(n - 1) |-> Row(i)]
  BY DEF RowsOf
<1> HIDE DEF n, meters
<1>4. ASSUME NEW i \in 0..(n - 1)
      PROVE  /\ meters[i] = Row(i) /\ json.meters[i + 1].ts \in Timestamp
             /\ meters[i].at \in Int /\ meters[i].import \in Int /\ meters[i].export \in Int
  <2>1. i + 1 \in 1..n
    BY <1>2
  <2>2. /\ json.meters[i + 1].ts \in Timestamp
        /\ json.meters[i + 1].import \in Int /\ json.meters[i + 1].export \in Int
    <3>1. json.meters[i + 1] \in Readings
      BY <1>2, <2>1
    <3>2. Missing \notin {json.meters[i + 1].import, json.meters[i + 1].export}
      BY <1>2, <2>1
    <3> QED  BY <3>1, <3>2 DEF Readings
  <2>3. meters[i] = Row(i)
    BY <1>3
  <2> QED  BY <2>2, <2>3, TimestampFields
<1>7. ASSUME NEW i \in 0..(n - 1)
      PROVE  /\ meters[i] = [at |-> meters[i].at, import |-> meters[i].import, export |-> meters[i].export]
             /\ meters[i].at = Instant(json.meters[i + 1].ts)
             /\ meters[i].import = json.meters[i + 1].import
             /\ meters[i].export = json.meters[i + 1].export
  <2>1. meters[i] = Row(i)
    BY <1>4
  <2>2. /\ Row(i).at = Instant(json.meters[i + 1].ts)
        /\ Row(i).import = json.meters[i + 1].import /\ Row(i).export = json.meters[i + 1].export
        /\ Row(i) = [at |-> Row(i).at, import |-> Row(i).import, export |-> Row(i).export]
    OBVIOUS
  <2> HIDE DEF Row
  <2> QED  BY <2>1, <2>2
<1>5. DOMAIN meters = 0..(n - 1) /\ Cardinality(0..(n - 1)) = n
  BY <1>2, <1>3, PositionsAreFinite
<1>6. meters = [i \in 0..(n - 1) |-> meters[i]]
  BY <1>3
<1> HIDE DEF Row
<1>8. MeterRowsOf(meters, json, n)
  BY <1>1, <1>2, <1>4, <1>5, <1>6, <1>7 DEF MeterRowsOf, n
<1> QED  BY <1>8 DEF n, meters

\* The check of a stream reads its rows, the receipt's root and summary and
\* the columns of the summary.
SamplesOf(meters) ==
    LET order == Arranged(DOMAIN meters,
                          LAMBDA i, j : \/ meters[i].at < meters[j].at
                                        \/ meters[i].at = meters[j].at /\ i < j)
    IN  Evaluated([k \in DOMAIN order |-> meters[order[k]]])

Steps(samples) == [k \in DOMAIN samples |-> Coerced(InUtc(samples[k]))]

WellNumbered(meters) ==
    /\ \A i \in DOMAIN meters : i < Cardinality(DOMAIN meters)
    /\ \A i, j \in DOMAIN meters : meters[i].at = meters[j].at => i = j

\* The check of a stream, in terms of what it reads.
LEMMA MeterCheckIs ==
  ASSUME NEW row
  PROVE  /\ Samples(row) = SamplesOf(row.meters)
         /\ MeterCheck(row) <=>
              LET samples == SamplesOf(row.meters)
                  energy == EnergySummary(samples)
              IN  /\ WellNumbered(row.meters)
                  /\ MeterRoot(Steps(samples)) = row.receipt.root
                  /\ energy = row.receipt.summary
                  /\ \A f \in {"import", "export", "net"} : energy[f] = row.columns[f]
<1>1. Samples(row) = SamplesOf(row.meters)
  BY DEF Samples, SamplesOf
<1> DEFINE samples == SamplesOf(row.meters)
           energy == EnergySummary(samples)
<1>2. MeterCheck(row) <=>
        /\ WellNumbered(row.meters)
        /\ MeterRoot(Steps(Samples(row))) = row.receipt.root
        /\ EnergySummary(Samples(row)) = row.receipt.summary
        /\ \A f \in DOMAIN EnergySummary(Samples(row)) : EnergySummary(Samples(row))[f] = row.columns[f]
  BY DEF MeterCheck, WellNumbered, Steps
<1>3. DOMAIN energy = {"import", "export", "net"}
  BY DEF EnergySummary, Summary
<1> HIDE DEF samples, energy
<1>4. MeterCheck(row) <=>
        /\ WellNumbered(row.meters)
        /\ MeterRoot(Steps(samples)) = row.receipt.root
        /\ energy = row.receipt.summary
        /\ \A f \in {"import", "export", "net"} : energy[f] = row.columns[f]
  BY <1>1, <1>2, <1>3 DEF samples, energy
<1> QED  BY <1>1, <1>4 DEF samples, energy

\* The check does not read anything else of the rows.
LEMMA MeterCheckSame ==
  ASSUME NEW row, NEW other, other.meters = row.meters,
         other.receipt.root = row.receipt.root, other.receipt.summary = row.receipt.summary,
         \A f \in {"import", "export", "net"} : other.columns[f] = row.columns[f]
  PROVE  MeterCheck(other) <=> MeterCheck(row)
<1> DEFINE samples == SamplesOf(row.meters)
           energy == EnergySummary(samples)
<1>1. MeterCheck(row) <=>
        /\ WellNumbered(row.meters)
        /\ MeterRoot(Steps(samples)) = row.receipt.root
        /\ energy = row.receipt.summary
        /\ \A f \in {"import", "export", "net"} : energy[f] = row.columns[f]
  BY MeterCheckIs
<1>2. MeterCheck(other) <=>
        /\ WellNumbered(other.meters)
        /\ MeterRoot(Steps(SamplesOf(other.meters))) = other.receipt.root
        /\ EnergySummary(SamplesOf(other.meters)) = other.receipt.summary
        /\ \A f \in {"import", "export", "net"} :
             EnergySummary(SamplesOf(other.meters))[f] = other.columns[f]
  BY MeterCheckIs
<1> QED  BY <1>1, <1>2


-----------------------------------------------------------------------------
(***************************************************************************)
(* What the scenarios of the tamper matrix do to the checks of a row.      *)
(***************************************************************************)
\* The middle of three readings or more is not the last one.
LEMMA MiddleFacts ==
  ASSUME NEW n \in Nat, n >= 3, NEW meters, DOMAIN meters = 0..(n - 1)
  PROVE  Middle(meters) = n \div 2 /\ n \div 2 \in 0..(n - 2)
<1> DEFINE D == 0..(n - 1)
           Size(x) == Cardinality({y \in D : y < x})
           c(i) == CHOOSE x \in D : Size(x) = i - 1
           f == [i \in 1..n |-> c(i)]
           h == n \div 2
<1>1. h \in 0..(n - 2) /\ h + 1 \in 1..n
  OBVIOUS
<1>2. Cardinality(D) = n
  BY PositionsAreFinite
<1>3. \A x \in D : Size(x) = x
  <2>1. ASSUME NEW x \in D
        PROVE  Size(x) = x
    <3>1. {y \in D : y < x} = 0..(x - 1)
      OBVIOUS
    <3>2. x \in Nat
      OBVIOUS
    <3> QED  BY <3>1, <3>2, PositionsAreFinite
  <2> QED  BY <2>1
<1>4. Middle(meters) = Evaluated([i \in 1..Cardinality(D) |-> c(i)])[Cardinality(D) \div 2 + 1]
  BY DEF Middle, Arranged
<1> HIDE DEF Size, h
<1>5. c(h + 1) = h
  <2>1. (h + 1) - 1 = h /\ h \in D
    BY <1>1
  <2> QED  BY <1>3, <2>1
<1> HIDE DEF c
<1>6. f = [i \in 1..n |-> f[i]] /\ f[h + 1] = c(h + 1)
  BY <1>1
<1> HIDE DEF f
<1>7. Evaluated(f) = f
  BY <1>6, FunctionIsSequence
<1>8. Middle(meters) = Evaluated(f)[h + 1]
  BY <1>2, <1>4 DEF f, h
<1> QED  BY <1>1, <1>5, <1>6, <1>7, <1>8 DEF h

\* A reading that is moved by whole steps gives another root.
LEMMA ShiftedStream ==
  ASSUME NEW n \in Nat, n >= 3, NEW row, NEW other,
         DOMAIN row.meters = 0..(n - 1), row.meters = [i \in 0..(n - 1) |-> row.meters[i]],
         \A i \in 0..(n - 1) :
           /\ row.meters[i] = [at |-> row.meters[i].at, import |-> row.meters[i].import,
                               export |-> row.meters[i].export]
           /\ row.meters[i].at \in Int /\ row.meters[i].import \in Int,
         other.meters = Shifted(row.meters), other.receipt = row.receipt, MeterCheck(row)
  PROVE  ~MeterCheck(other)
<1> DEFINE D == 0..(n - 1)
           meters == row.meters
           mid == Middle(meters)
           y == Rounded(meters[mid].import)
           order == Ranked(D, InstantPairs(meters))
           changed == Shifted(meters)
<1>1. mid \in D
  BY MiddleFacts
<1>2. y \in Int
  BY <1>1, RoundedInt
<1>3. /\ DOMAIN changed = D
      /\ \A i \in D : changed[i].at = meters[i].at
      /\ changed[mid].import = Sub * (y + 111)
  <2> DEFINE x == Sub * (y + 111)
             q == meters[mid]
             p == [at |-> q.at, import |-> x, export |-> q.export]
  <2>1. changed = [meters EXCEPT ![mid] = [q EXCEPT !.import = x]]
    BY DEF Shifted
  <2>2. q = [at |-> q.at, import |-> q.import, export |-> q.export]
    BY <1>1
  <2>3. DOMAIN meters = D /\ meters = [i \in D |-> meters[i]] /\ meters[mid] = q
    OBVIOUS
  <2> HIDE DEF x, changed, meters, mid, q
  <2>4. [q EXCEPT !.import = x] = p
    BY <2>2
  <2>5. p.at = q.at /\ p.import = x
    OBVIOUS
  <2> HIDE DEF p
  <2>6. \A i \in D : changed[i] = IF i = mid THEN p ELSE meters[i]
    BY <2>1, <2>3, <2>4
  <2>7. DOMAIN changed = D
    BY <2>1, <2>3
  <2>8. \A i \in D : changed[i].at = meters[i].at
    BY <2>3, <2>5, <2>6
  <2>9. changed[mid].import = x
    BY <1>1, <2>5, <2>6
  <2> QED  BY <2>7, <2>8, <2>9 DEF x
<1>5. /\ order \in [1..n -> D]
      /\ \A i \in D : \E k \in 1..n : order[k] = i
      /\ DOMAIN Samples(row) = 1..n /\ \A k \in 1..n : Samples(row)[k] = meters[order[k]]
  <2>1. DOMAIN row.meters = 0..(n - 1) /\ \A i \in 0..(n - 1) : row.meters[i].at \in Int
    OBVIOUS
  <2>2. SampledBy(row, n, order)
    BY <2>1, SamplesArranged DEF meters
  <2> HIDE DEF order
  <2> QED  BY <2>2, SequenceIsFunction DEF SampledBy, meters
<1> HIDE DEF mid, changed, meters
<1>4. InstantPairs(changed) = InstantPairs(meters)
  <2>1. \A i, j \in D : EarlierRow(changed, i, j) <=> EarlierRow(meters, i, j)
    BY <1>3 DEF EarlierRow
  <2>2. InstantPairs(changed) = {ij \in D \X D : EarlierRow(changed, ij[1], ij[2])}
    BY <1>3 DEF InstantPairs
  <2>3. InstantPairs(meters) = {ij \in D \X D : EarlierRow(meters, ij[1], ij[2])}
    BY DEF InstantPairs, meters
  <2> QED  BY <2>1, <2>2, <2>3
<1>6. DOMAIN Samples(other) = 1..n /\ \A k \in 1..n : Samples(other)[k] = changed[order[k]]
  <2>1. other.meters = changed
    BY DEF changed, meters
  <2>2. /\ DOMAIN other.meters = 0..(n - 1)
        /\ \A i \in 0..(n - 1) : other.meters[i].at \in Int
    <3>1. \A i \in D : meters[i].at \in Int
      BY DEF meters
    <3> QED  BY <1>3, <2>1, <3>1
  <2>3. SampledBy(other, n, Ranked(0..(n - 1), InstantPairs(other.meters)))
    BY <2>2, SamplesArranged
  <2>4. SampledBy(other, n, order)
    BY <1>4, <2>1, <2>3
  <2> HIDE DEF order
  <2> QED  BY <2>1, <2>4, SequenceIsFunction DEF SampledBy
<1> HIDE DEF order
<1> DEFINE a == Steps(Samples(row))
           b == Steps(Samples(other))
<1>7. /\ a = [k \in 1..n |-> Coerced(InUtc(meters[order[k]]))]
      /\ b = [k \in 1..n |-> Coerced(InUtc(changed[order[k]]))]
  BY <1>5, <1>6 DEF Steps
<1> HIDE DEF a, b
<1>8. IsASequence(a) /\ Len(a) = n /\ IsASequence(b) /\ Len(b) = n
  <2>1. a = [k \in 1..n |-> a[k]] /\ b = [k \in 1..n |-> b[k]]
    BY <1>7
  <2> QED  BY <2>1, FunctionIsSequence
<1>9. PICK k \in 1..n : order[k] = mid
  BY <1>1, <1>5
<1>10. a[k].import = y /\ b[k].import = y + 111
  <2>1. a[k].import = Rounded(meters[mid].import) /\ b[k].import = Rounded(changed[mid].import)
    BY <1>7, <1>9 DEF Coerced, InUtc
  <2>2. Rounded(Sub * (y + 111)) = y + 111
    BY <1>2, RoundedMultiple
  <2> QED  BY <1>3, <2>1, <2>2
<1>11. MeterLeaf(a[k]) # MeterLeaf(b[k])
  <2>1. y # y + 111
    BY <1>2
  <2> HIDE DEF y
  <2> QED  BY <1>10, <2>1 DEF MeterLeaf
<1>12. MeterRoot(a) # MeterRoot(b)
  <2> SUFFICES ASSUME MeterRoot(a) = MeterRoot(b) PROVE FALSE
    OBVIOUS
  <2>1. n >= 1
    OBVIOUS
  <2>2. MeterLeaf(a[k]) = MeterLeaf(b[k])
    BY <1>8, <2>1, MeterRootFacts
  <2> QED  BY <1>11, <2>2
<1>13. MeterRoot(a) = row.receipt.root
  BY MeterCheckIs DEF a
<1>14. MeterCheck(other) => MeterRoot(b) = other.receipt.root
  BY MeterCheckIs DEF b
<1> QED  BY <1>12, <1>13, <1>14

\* A stream without its middle row is not numbered through.
LEMMA ShorterStream ==
  ASSUME NEW n \in Nat, n >= 3, NEW row, NEW meters, DOMAIN meters = 0..(n - 1),
         row.meters = Restrict(meters, DOMAIN meters \ {Middle(meters)})
  PROVE  ~MeterCheck(row)
<1> DEFINE D == 0..(n - 1)
           mid == Middle(meters)
           E == D \ {mid}
<1>1. mid \in D /\ mid # n - 1
  BY MiddleFacts
<1>2. Cardinality(E) = n - 1
  BY <1>1, PositionsAreFinite, FS_RemoveElement
<1>3. DOMAIN row.meters = E
  BY DEF Restrict
<1>4. n - 1 \in E /\ ~(n - 1 < Cardinality(E))
  BY <1>1, <1>2
<1> HIDE DEF E
<1>5. ~WellNumbered(row.meters)
  BY <1>3, <1>4 DEF WellNumbered
<1> QED  BY <1>5, MeterCheckIs


\* A row that passes is that of a body: the checks of what each scenario
\* makes of it.
LEMMA ScenarioRow ==
  ASSUME NEW s, NEW row, RowOK(s, row), ReceiptCheck(row), AuditCheck(row),
         Cardinality(DOMAIN row.meters) >= 3, NEW k \in 1..7
  PROVE  LET m == MutatedRow(row, k)
         IN  /\ ReceiptCheck(m) <=> k # 1
             /\ MeterCheck(m) <=> k \notin {2, 3}
             /\ AuditCheck(m) <=> k \notin 1..4
<1> DEFINE json == row.json
           n == Len(json.meters)
           m == MutatedRow(row, k)
<1>1. /\ DOMAIN row = {"json", "meters", "receipt", "hash", "start", "columns"}
      /\ DOMAIN row.receipt = ReceiptFields
      /\ Good(json) /\ row = RowsOf(s, json)
  BY RowFacts DEF ReceiptCheck
<1>2. /\ n \in Nat /\ n >= 3 /\ DOMAIN row.meters = 0..(n - 1)
      /\ row.meters = [i \in 0..(n - 1) |-> row.meters[i]]
      /\ \A i \in 0..(n - 1) :
           /\ row.meters[i] = [at |-> row.meters[i].at, import |-> row.meters[i].import,
                               export |-> row.meters[i].export]
           /\ row.meters[i].at \in Int /\ row.meters[i].import \in Int
  <2>1. MeterRowsOf(row.meters, json, n)
    BY <1>1, MeterRows
  <2> HIDE DEF n, json
  <2> QED  BY <2>1 DEF MeterRowsOf
<1>3. MeterCheck(row) /\ Columns(row.receipt) = row.columns
  BY DEF AuditCheck
<1>4. row.receipt.root # <<>>
  <2> DEFINE mvs == MeterValues(json)
  <2>1. row.receipt.root = MeterRoot(mvs)
    BY <1>1, RowsFacts, ReceiptFacts
  <2>2. Len(mvs) \in Nat /\ Len(mvs) >= 1 /\ IsASequence(mvs)
    <3>1. Len(mvs) = n /\ IsASequence(mvs)
      BY <1>1, MeterValuesFacts
    <3> HIDE DEF mvs, n
    <3> QED  BY <1>2, <3>1
  <2> HIDE DEF mvs
  <2> QED  BY <2>1, <2>2, MeterRootFacts
<1>5. /\ m.json = json /\ m.hash = row.hash /\ m.start = row.start
      /\ k = 1 => m.receipt = WithEnergy(row.receipt, row.receipt.energy + 123)
      /\ k # 1 => m.receipt = row.receipt
      /\ k = 2 => m.meters = Shifted(row.meters)
      /\ k = 3 => m.meters = Restrict(row.meters, DOMAIN row.meters \ {Middle(row.meters)})
      /\ k \notin {2, 3} => m.meters = row.meters
      /\ k = 4 => m.columns = WithoutRoot(row.columns)
      /\ k # 4 => m.columns = row.columns
      /\ k \in 5..7 => m = row
  BY <1>1, MutatedRowFacts
<1> HIDE DEF m, n
<1>6. AuditCheck(m) => ReceiptCheck(m) /\ MeterCheck(m) /\ Columns(m.receipt) = m.columns
  BY DEF AuditCheck
<1>7. CASE k = 1
  <2> DEFINE r == row.receipt
             e == r.energy
  <2>1. m.receipt = WithEnergy(r, e + 123)
    BY <1>5, <1>7
  <2>2. /\ WithEnergy(r, e + 123).root = r.root /\ WithEnergy(r, e + 123).summary = r.summary
    <3> HIDE DEF e
    <3>1. DOMAIN r = ReceiptFields
      BY <1>1
    <3> HIDE DEF r
    <3> QED  BY <3>1 DEF ReceiptFields, WithEnergy
  <2>3. HashReceipt(WithEnergy(r, e + 123)).energy = e + 123 /\ HashReceipt(r).energy = e /\ e \in Int
    <3>1. r = Receipt(s, json)
      BY <1>1, RowsFacts
    <3>2. e \in Int
      BY <1>1, <3>1, ReceiptFacts
    <3>3. HashReceipt(r).energy = e /\ \A x : HashReceipt(WithEnergy(r, x)).energy = x
      BY <1>1, <3>1, HashFacts
    <3> QED  BY <3>2, <3>3
  <2>4. ~ReceiptCheck(m)
    <3>1. HashReceipt(r) = row.hash
      BY DEF ReceiptCheck
    <3> HIDE DEF r, e
    <3>2. e + 123 # e
      BY <2>3
    <3> QED  BY <1>5, <2>1, <2>3, <3>1, <3>2 DEF ReceiptCheck
  <2>5. MeterCheck(m)
    <3>1. m.meters = row.meters /\ m.columns = row.columns
      BY <1>5, <1>7
    <3>2. m.receipt.root = row.receipt.root /\ m.receipt.summary = row.receipt.summary
      BY <2>1, <2>2
    <3> QED  BY <1>3, <3>1, <3>2, MeterCheckSame
  <2> QED  BY <1>6, <1>7, <2>4, <2>5 DEF m
<1>8. CASE k = 2
  <2>1. ~MeterCheck(m)
    <3>1. m.meters = Shifted(row.meters) /\ m.receipt = row.receipt
      BY <1>5, <1>8
    <3> QED  BY <1>2, <1>3, <3>1, ShiftedStream
  <2>2. ReceiptCheck(m)
    BY <1>5, <1>8 DEF ReceiptCheck
  <2> QED  BY <1>6, <1>8, <2>1, <2>2 DEF m
<1>9. CASE k = 3
  <2>1. ~MeterCheck(m)
    <3>1. m.meters = Restrict(row.meters, DOMAIN row.meters \ {Middle(row.meters)})
      BY <1>5, <1>9
    <3> QED  BY <1>2, <3>1, ShorterStream
  <2>2. ReceiptCheck(m)
    BY <1>5, <1>9 DEF ReceiptCheck
  <2> QED  BY <1>6, <1>9, <2>1, <2>2 DEF m
<1>10. CASE k = 4
  <2>1. ReceiptCheck(m)
    BY <1>5, <1>10 DEF ReceiptCheck
  <2>2. /\ DOMAIN row.columns = {"energy", "import", "export", "net", "root", "type"}
    BY <1>3 DEF Columns
  <2>3. m.columns = WithoutRoot(row.columns) /\ m.receipt = row.receipt /\ m.meters = row.meters
    BY <1>5, <1>10
  <2>4. /\ m.columns.root = <<>>
        /\ \A f \in {"import", "export", "net"} : m.columns[f] = row.columns[f]
    BY <2>2, <2>3 DEF WithoutRoot, IncorrectRoot
  <2>5. MeterCheck(m)
    BY <1>3, <2>3, <2>4, MeterCheckSame
  <2>6. Columns(m.receipt) # m.columns
    <3>1. Columns(m.receipt).root = row.receipt.root
      BY <2>3 DEF Columns
    <3> QED  BY <1>4, <2>4, <3>1
  <2> QED  BY <1>6, <1>10, <2>1, <2>5, <2>6 DEF m
<1>11. CASE k \in 5..7
  <2>1. m = row
    BY <1>5, <1>11
  <2> QED  BY <1>3, <1>11, <2>1 DEF m
<1> QED  BY <1>7, <1>8, <1>9, <1>10, <1>11


-----------------------------------------------------------------------------
(***************************************************************************)
(* What the scenarios do to the verification of the day.                   *)
(***************************************************************************)
LEMMA NewestFacts ==
  ASSUME NEW n \in Nat, NEW S \in SUBSET (1..n), S # {}
  PROVE  Newest(S) \in S
<1> DEFINE T == {n - i : i \in S}
<1>1. T \in SUBSET Nat /\ T # {}
  <2>1. \A i \in S : n - i \in Nat
    OBVIOUS
  <2> QED  BY <2>1
<1>2. PICK d \in T : \A e \in T : d <= e
  BY <1>1, LeastOf
<1>3. PICK i \in S : d = n - i
  BY <1>2
<1>4. \A j \in S : j <= i
  BY <1>2, <1>3
<1>5. Newest(S) = CHOOSE x \in S : \A j \in S : j <= x
  BY DEF Newest
<1> QED  BY <1>4, <1>5

\* A row that verify_day finds is in the table; and which row it finds
\* depends on the days, prefixes and profiles only.
LEMMA FoundRow ==
  ASSUME NEW db, IsASequence(db), NEW day, NEW p, FindAnchor(db, day, p) # 0
  PROVE  FindAnchor(db, day, p) \in DOMAIN db
<1> DEFINE rows == {i \in DOMAIN db : db[i].day = day /\ db[i].prefix = p}
           profiled == {i \in rows : db[i].profile = "v1"}
           S == IF profiled # {} THEN profiled ELSE rows
<1>1. FindAnchor(db, day, p) = Newest(S)
  BY DEF FindAnchor
<1>2. Len(db) \in Nat /\ DOMAIN db = 1..Len(db)
  BY SequenceIsFunction
<1>3. S \in SUBSET (DOMAIN db)
  OBVIOUS
<1> HIDE DEF S
<1>4. S # {}
  BY <1>1 DEF Newest
<1> QED  BY <1>1, <1>2, <1>3, <1>4, NewestFacts

SameHeads(db, other) ==
    /\ DOMAIN other = DOMAIN db
    /\ \A i \in DOMAIN db : /\ other[i].day = db[i].day /\ other[i].prefix = db[i].prefix
                            /\ other[i].profile = db[i].profile

\* Looking a day up reads only days, prefixes and profiles.
LEMMA SameRowFound ==
  ASSUME NEW db, NEW other, SameHeads(db, other), NEW day, NEW p
  PROVE  FindAnchor(other, day, p) = FindAnchor(db, day, p)
<1> DEFINE rows(x) == {i \in DOMAIN x : x[i].day = day /\ x[i].prefix = p}
           profiled(x) == {i \in rows(x) : x[i].profile = "v1"}
<1>1. \A x : FindAnchor(x, day, p) = Newest(IF profiled(x) # {} THEN profiled(x) ELSE rows(x))
  BY DEF FindAnchor
<1>2. rows(other) = rows(db)
  BY DEF SameHeads
<1>3. profiled(other) = profiled(db)
  BY <1>2 DEF SameHeads
<1> HIDE DEF rows, profiled
<1> QED  BY <1>1, <1>2, <1>3

\* The table with the row that a scenario makes of an anchor.
Mutation(db, id, s, k) == [db EXCEPT ![id] = MutatedAnchor(db[id], s, k)]

\* A scenario changes one row and nothing that is looked up.
LEMMA MutationFacts ==
  ASSUME NEW db, AnchorsOK(db), NEW id \in DOMAIN db, NEW s, NEW k \in 1..7
  PROVE  /\ Mutation(db, id, s, k)[id] = MutatedAnchor(db[id], s, k)
         /\ \A i \in DOMAIN db : i # id => Mutation(db, id, s, k)[i] = db[i]
         /\ SameHeads(db, Mutation(db, id, s, k))
         /\ k \notin {5, 6} => Mutation(db, id, s, k) = db
<1> DEFINE a == db[id]
           b == MutatedAnchor(a, s, k)
           other == [db EXCEPT ![id] = b]
<1>1. AnchorOK(a) /\ db = [i \in 1..Len(db) |-> db[i]] /\ DOMAIN db = 1..Len(db)
  BY SequenceIsFunction DEF AnchorsOK
<1>2. /\ b.day = a.day /\ b.prefix = a.prefix /\ b.profile = a.profile
      /\ k \notin {5, 6} => b = a
  BY <1>1, MutatedAnchorFacts
<1> HIDE DEF b
<1>3. DOMAIN other = DOMAIN db /\ other[id] = b /\ \A i \in DOMAIN db : i # id => other[i] = db[i]
  OBVIOUS
<1>4. k \notin {5, 6} => other = db
  BY <1>1, <1>2
<1>5. Mutation(db, id, s, k) = other
  BY DEF Mutation, b
<1> HIDE DEF other
<1>6. SameHeads(db, other)
  BY <1>2, <1>3 DEF SameHeads
<1> QED  BY <1>3, <1>4, <1>5, <1>6 DEF b

\* A day passes if the row that is found has members and verifies.
LEMMA VerdictIs ==
  ASSUME NEW db, NEW day, NEW p
  PROVE  LET id == FindAnchor(db, day, p)
         IN  DayVerdict(db, day, p) = "pass" <=>
               id # 0 /\ db[id].members # <<>> /\ AnchorMatches(db[id])
<1> DEFINE id == FindAnchor(db, day, p)
           none == db[id].members = <<>>
           match == AnchorMatches(db[id])
<1>1. DayVerdict(db, day, p) =
        CASE id = 0 -> "lookup_failure"
          [] id # 0 -> CASE none -> "lookup_failure"
                         [] ~none /\ match -> "pass"
                         [] ~none /\ ~match -> "mismatch"
  BY DEF DayVerdict
<1> HIDE DEF id, none, match
<1>2. DayVerdict(db, day, p) = "pass" <=> id # 0 /\ ~none /\ match
  <2>1. CASE id = 0
    BY <1>1, <2>1
  <2>2. CASE id # 0 /\ none
    BY <1>1, <2>2
  <2>3. CASE id # 0 /\ ~none /\ match
    BY <1>1, <2>3
  <2>4. CASE id # 0 /\ ~none /\ ~match
    BY <1>1, <2>4
  <2> QED  BY <2>1, <2>2, <2>3, <2>4
<1> QED  BY <1>2 DEF id, none, match

\* The root of a closed row is not empty, and it has its count of members.
LEMMA RootOfRow ==
  ASSUME NEW a, AnchorMatches(a)
  PROVE  a.root # <<>> /\ Len(a.members) = a.count
<1>1. CASE a.profile = "v1"
  <2>1. a.root = CommitmentFromAnchor(a).root /\ Len(a.members) = a.count
    BY <1>1 DEF AnchorMatches, ProfiledMatches
  <2>2. PICK x, y, z : CommitmentFromAnchor(a).root = <<x, y, z>>
    BY DEF CommitmentFromAnchor, Commitment, RootHash
  <2> QED  BY <2>1, <2>2, TuplesAreNotEmpty
<1>2. CASE a.profile # "v1"
  <2>1. LegacyRoot({m.hash : m \in Range(a.members)}) = a.root /\ Len(a.members) = a.count
    BY <1>2 DEF AnchorMatches, LegacyMatches
  <2>2. PICK x : a.root = <<x>>
    BY <2>1 DEF LegacyRoot
  <2> QED  BY <2>1, <2>2, TuplesAreNotEmpty
<1> QED  BY <1>1, <1>2

\* A row does not match once a membership is gone or its root is replaced.
LEMMA MutatedMismatch ==
  ASSUME NEW a, AnchorOK(a), NEW s, \E m \in Range(a.members) : m.session = s, NEW k \in {5, 6}
  PROVE  ~AnchorMatches(MutatedAnchor(a, s, k))
<1> DEFINE b == MutatedAnchor(a, s, k)
<1>1. /\ k = 5 => b.members = WithoutMember(a.members, s)
      /\ k = 6 => b.root = IncorrectRoot
      /\ b.count = a.count
  BY MutatedAnchorFacts
<1> HIDE DEF b
<1>2. IsASequence(a.members) /\ Len(a.members) = a.count /\ Len(a.members) \in Nat
  <2>1. PICK S : RowOf(a, S)
    BY DEF AnchorOK
  <2>2. Lists(a, S)
    BY <2>1, HoldsFacts, LegacyFacts DEF RowOf
  <2> QED  BY <2>2 DEF Lists
<1>3. \E i \in 1..Len(a.members) : a.members[i].session = s
  BY <1>2, SequenceIsFunction DEF Range
<1>4. SUFFICES ASSUME AnchorMatches(b) PROVE FALSE
  BY DEF b
<1>5. b.root # <<>> /\ Len(b.members) = b.count
  BY <1>4, RootOfRow
<1>6. CASE k = 5
  <2>1. Len(b.members) = Len(a.members) - 1
    BY <1>1, <1>2, <1>3, <1>6, RemovedMember
  <2> DEFINE n == Len(a.members)
  <2>2. n \in Nat /\ n - 1 = n
    BY <1>1, <1>2, <1>5, <2>1
  <2> HIDE DEF n
  <2> QED  BY <2>2
<1>7. CASE k = 6
  BY <1>1, <1>5, <1>7 DEF IncorrectRoot
<1> QED  BY <1>6, <1>7

\* A day that passes fails exactly if a scenario changed its row.
LEMMA ScenarioDay ==
  ASSUME NEW db, AnchorsOK(db), NEW id \in DOMAIN db, NEW s,
         \E m \in Range(db[id].members) : m.session = s,
         NEW day, NEW p, DayVerdict(db, day, p) = "pass", NEW k \in 1..7
  PROVE  /\ DayVerdict(Mutation(db, id, s, k), day, p) = "pass" <=>
              (k \in {5, 6} => FindAnchor(db, day, p) # id)
<1> DEFINE found == FindAnchor(db, day, p)
           other == Mutation(db, id, s, k)
<1>1. /\ other[id] = MutatedAnchor(db[id], s, k)
      /\ \A i \in DOMAIN db : i # id => other[i] = db[i]
      /\ SameHeads(db, other)
      /\ k \notin {5, 6} => other = db
  BY MutationFacts
<1> HIDE DEF other
<1>2. found # 0 /\ db[found].members # <<>> /\ AnchorMatches(db[found])
  BY VerdictIs
<1>3. found \in DOMAIN db
  BY <1>2, FoundRow DEF AnchorsOK
<1>4. FindAnchor(other, day, p) = found
  BY <1>1, SameRowFound
<1>5. DayVerdict(other, day, p) = "pass" <=> other[found].members # <<>> /\ AnchorMatches(other[found])
  BY <1>2, <1>4, VerdictIs
<1> HIDE DEF found
<1>6. CASE k \notin {5, 6}
  <2>1. DayVerdict(other, day, p) = "pass"
    BY <1>1, <1>6
  <2> QED  BY <1>6, <2>1 DEF other
<1>7. CASE k \in {5, 6} /\ found = id
  <2>1. ~AnchorMatches(other[found])
    BY <1>1, <1>7, MutatedMismatch DEF AnchorsOK
  <2>2. DayVerdict(other, day, p) # "pass"
    BY <1>5, <2>1
  <2> QED  BY <1>7, <2>2 DEF other, found
<1>8. CASE k \in {5, 6} /\ found # id
  <2>1. other[found] = db[found]
    BY <1>1, <1>3, <1>8
  <2>2. DayVerdict(other, day, p) = "pass"
    BY <1>2, <1>5, <2>1
  <2> QED  BY <1>8, <2>2 DEF other, found
<1> QED  BY <1>6, <1>7, <1>8


-----------------------------------------------------------------------------
(***************************************************************************)
(* The scenarios: what the layers see of them.                             *)
(***************************************************************************)
LEMMA FailingIs ==
  ASSUME NEW row, NEW db, NEW ctx, NEW root
  PROVE  LET F == Failing(row, db, ctx, root)
         IN  /\ F \subseteq {"receipt", "meter", "audit", "batch", "chain"}
             /\ "receipt" \in F <=> ~ReceiptCheck(row)
             /\ "meter" \in F <=> ~MeterCheck(row)
             /\ "audit" \in F <=> ~AuditCheck(row)
             /\ "batch" \in F <=> DayVerdict(db, ctx.day, ctx.prefix) # "pass"
             /\ "chain" \in F <=> (db[ctx.anchor].root # root \/ db[ctx.anchor].count # ctx.count)
<1> DEFINE a == ~ReceiptCheck(row)
           b == ~MeterCheck(row)
           c == ~AuditCheck(row)
           d == DayVerdict(db, ctx.day, ctx.prefix) # "pass"
           e == db[ctx.anchor].root # root \/ db[ctx.anchor].count # ctx.count
           fails(l) == CASE l = "receipt" -> a [] l = "meter" -> b [] l = "audit" -> c
                         [] l = "batch" -> d [] l = "chain" -> e
           F == Failing(row, db, ctx, root)
<1>1. F = {l \in Layers : fails(l)}
  BY DEF Failing
<1> HIDE DEF a, b, c, d, e, F
<1>2. /\ fails("receipt") <=> a
      /\ fails("meter") <=> b
      /\ fails("audit") <=> c
      /\ fails("batch") <=> d
      /\ fails("chain") <=> e
  OBVIOUS
<1> HIDE DEF fails
<1>3. /\ F \subseteq {"receipt", "meter", "audit", "batch", "chain"}
      /\ "receipt" \in F <=> a
      /\ "meter" \in F <=> b
      /\ "audit" \in F <=> c
      /\ "batch" \in F <=> d
      /\ "chain" \in F <=> e
  BY <1>1, <1>2 DEF Layers
<1> QED  BY <1>3 DEF a, b, c, d, e, F

\* What the matrix may assume of the session and the anchor that it takes.
TakenOK(row, db, ctx) ==
    /\ ctx.anchor \in DOMAIN db
    /\ ctx.root = db[ctx.anchor].root /\ ctx.count = db[ctx.anchor].count
    /\ Cardinality(DOMAIN row.meters) >= 3
    /\ \E m \in Range(db[ctx.anchor].members) : m.session = ctx.session

Judged(row, db, ctx, k) ==
    Failing(MutatedRow(row, k), Mutation(db, ctx.anchor, ctx.session, k), ctx,
            IF k = 7 THEN IncorrectRoot ELSE ctx.root)

Selected(db, ctx) == ctx.anchor = FindAnchor(db, ctx.day, ctx.prefix)

\* The layers that do not pass in each scenario.
LEMMA ScenarioLayers ==
  ASSUME NEW row, NEW db, AnchorsOK(db), NEW ctx, RowOK(ctx.session, row), TakenOK(row, db, ctx),
         Failing(row, db, ctx, ctx.root) = {}, NEW k \in 1..7
  PROVE  LET F == Judged(row, db, ctx, k)
         IN  /\ F \subseteq {"receipt", "meter", "audit", "batch", "chain"}
             /\ "receipt" \in F <=> k = 1
             /\ "meter" \in F <=> k \in {2, 3}
             /\ "audit" \in F <=> k \in 1..4
             /\ "batch" \in F <=> k \in {5, 6} /\ Selected(db, ctx)
             /\ "chain" \in F <=> k \in {6, 7}
<1> DEFINE s == ctx.session
           id == ctx.anchor
           m == MutatedRow(row, k)
           other == Mutation(db, id, s, k)
           root == IF k = 7 THEN IncorrectRoot ELSE ctx.root
           F == Failing(m, other, ctx, root)
<1>1. /\ id \in DOMAIN db /\ ctx.root = db[id].root /\ ctx.count = db[id].count
      /\ Cardinality(DOMAIN row.meters) >= 3
      /\ \E x \in Range(db[id].members) : x.session = s
  BY DEF TakenOK
<1>2. /\ ReceiptCheck(row) /\ AuditCheck(row) /\ DayVerdict(db, ctx.day, ctx.prefix) = "pass"
  BY FailingIs
<1>3. /\ ReceiptCheck(m) <=> k # 1
      /\ MeterCheck(m) <=> k \notin {2, 3}
      /\ AuditCheck(m) <=> k \notin 1..4
  BY <1>1, <1>2, ScenarioRow
<1>4. DayVerdict(other, ctx.day, ctx.prefix) = "pass" <=> (k \in {5, 6} => ~Selected(db, ctx))
  BY <1>1, <1>2, ScenarioDay DEF Selected
<1>5. (other[id].root # root \/ other[id].count # ctx.count) <=> k \in {6, 7}
  <2>1. AnchorOK(db[id])
    BY <1>1 DEF AnchorsOK
  <2>2. other[id] = MutatedAnchor(db[id], s, k)
    BY <1>1, MutationFacts
  <2>3. /\ other[id].count = db[id].count
        /\ k = 6 => other[id].root = IncorrectRoot
        /\ k # 6 => other[id].root = db[id].root
    BY <2>1, <2>2, MutatedAnchorFacts
  <2>4. db[id].root # IncorrectRoot
    BY <2>1, AnchorVerifies, RootOfRow DEF IncorrectRoot
  <2> HIDE DEF other, id
  <2> QED  BY <1>1, <2>3, <2>4
<1>6. /\ F \subseteq {"receipt", "meter", "audit", "batch", "chain"}
      /\ "receipt" \in F <=> ~ReceiptCheck(m)
      /\ "meter" \in F <=> ~MeterCheck(m)
      /\ "audit" \in F <=> ~AuditCheck(m)
      /\ "batch" \in F <=> DayVerdict(other, ctx.day, ctx.prefix) # "pass"
      /\ "chain" \in F <=> (other[id].root # root \/ other[id].count # ctx.count)
  BY FailingIs
<1>7. Judged(row, db, ctx, k) = F
  BY DEF Judged
<1> HIDE DEF F, m, other, root
<1>8. /\ "receipt" \in F <=> k = 1
      /\ "meter" \in F <=> k \in {2, 3}
      /\ "audit" \in F <=> k \in 1..4
      /\ "batch" \in F <=> k \in {5, 6} /\ Selected(db, ctx)
      /\ "chain" \in F <=> k \in {6, 7}
  BY <1>3, <1>4, <1>5, <1>6
<1> QED  BY <1>6, <1>7, <1>8

\* They are the expected ones, unless the changed row is not the one read.
LEMMA Detection ==
  ASSUME NEW row, NEW db, AnchorsOK(db), NEW ctx, RowOK(ctx.session, row), TakenOK(row, db, ctx),
         Failing(row, db, ctx, ctx.root) = {}, NEW k \in 1..7
  PROVE  Judged(row, db, ctx, k) = Expected[k] <=> (k \in {5, 6} => Selected(db, ctx))
<1> DEFINE F == Judged(row, db, ctx, k)
           sel == Selected(db, ctx)
<1>1. /\ F \subseteq {"receipt", "meter", "audit", "batch", "chain"}
      /\ "receipt" \in F <=> k = 1
      /\ "meter" \in F <=> k \in {2, 3}
      /\ "audit" \in F <=> k \in 1..4
      /\ "batch" \in F <=> k \in {5, 6} /\ sel
      /\ "chain" \in F <=> k \in {6, 7}
  BY ScenarioLayers
<1> HIDE DEF F, sel
<1>2. CASE k = 1
  <2>1. Expected[k] = {"receipt", "audit"}
    BY <1>2 DEF Expected
  <2>2. /\ "receipt" \in F /\ "audit" \in F
        /\ "meter" \notin F /\ "batch" \notin F /\ "chain" \notin F
    BY <1>1, <1>2
  <2>3. F = {"receipt", "audit"}
    BY <1>1, <2>2
  <2>4. F = Expected[k]
    BY <2>1, <2>3
  <2> QED  BY <1>2, <2>4 DEF F, sel
<1>3. CASE k \in {2, 3}
  <2>1. Expected[k] = {"meter", "audit"}
    BY <1>3 DEF Expected
  <2>2. /\ "meter" \in F /\ "audit" \in F
        /\ "receipt" \notin F /\ "batch" \notin F /\ "chain" \notin F
    BY <1>1, <1>3
  <2>3. F = {"meter", "audit"}
    BY <1>1, <2>2
  <2>4. F = Expected[k]
    BY <2>1, <2>3
  <2> QED  BY <1>3, <2>4 DEF F, sel
<1>4. CASE k = 4
  <2>1. Expected[k] = {"audit"}
    BY <1>4 DEF Expected
  <2>2. /\ "audit" \in F
        /\ "receipt" \notin F /\ "meter" \notin F /\ "batch" \notin F /\ "chain" \notin F
    BY <1>1, <1>4
  <2>3. F = {"audit"}
    BY <1>1, <2>2
  <2>4. F = Expected[k]
    BY <2>1, <2>3
  <2> QED  BY <1>4, <2>4 DEF F, sel
<1>5. CASE k = 5
  <2>1. Expected[k] = {"batch"}
    BY <1>5 DEF Expected
  <2>2. /\ "receipt" \notin F /\ "meter" \notin F /\ "audit" \notin F /\ "chain" \notin F
        /\ "batch" \in F <=> sel
    BY <1>1, <1>5
  <2>3. CASE sel
    <3>1. "batch" \in F
      BY <2>2, <2>3
    <3>2. F = {"batch"}
      BY <1>1, <2>2, <3>1
    <3> QED  BY <2>1, <2>3, <3>2 DEF F, sel
  <2>4. CASE ~sel
    <3>1. F # {"batch"}
      BY <2>2, <2>4
    <3> QED  BY <1>5, <2>1, <2>4, <3>1 DEF F, sel
  <2> QED  BY <2>3, <2>4
<1>6. CASE k = 6
  <2>1. Expected[k] = {"batch", "chain"}
    BY <1>6 DEF Expected
  <2>2. /\ "receipt" \notin F /\ "meter" \notin F /\ "audit" \notin F
        /\ "batch" \in F <=> sel
        /\ "chain" \in F
    BY <1>1, <1>6
  <2>3. CASE sel
    <3>1. "batch" \in F /\ "chain" \in F
      BY <2>2, <2>3
    <3>2. F = {"batch", "chain"}
      BY <1>1, <2>2, <3>1
    <3> QED  BY <2>1, <2>3, <3>2 DEF F, sel
  <2>4. CASE ~sel
    <3>1. F # {"batch", "chain"}
      BY <2>2, <2>4
    <3> QED  BY <1>6, <2>1, <2>4, <3>1 DEF F, sel
  <2> QED  BY <2>3, <2>4
<1>7. CASE k = 7
  <2>1. Expected[k] = {"chain"}
    BY <1>7 DEF Expected
  <2>2. /\ "chain" \in F
        /\ "receipt" \notin F /\ "meter" \notin F /\ "audit" \notin F /\ "batch" \notin F
    BY <1>1, <1>7
  <2>3. F = {"chain"}
    BY <1>1, <2>2
  <2>4. F = Expected[k]
    BY <2>1, <2>3
  <2> QED  BY <1>7, <2>4 DEF F, sel
<1> QED  BY <1>2, <1>3, <1>4, <1>5, <1>6, <1>7

-----------------------------------------------------------------------------
(***************************************************************************)
(* The records of the matrix.                                              *)
(***************************************************************************)
RecordOK(r, i, db, ctx) ==
    /\ r.restored = r.before
    /\ r.met <=> (r.before = {} /\ (i \in {5, 6} => Selected(db, ctx)))

ScenariosOK(st, an, m) ==
    /\ IsASequence(m.records) /\ Len(m.records) = m.next - 1
    /\ \A i \in DOMAIN m.records : RecordOK(m.records[i], i, an, m.ctx)
    /\ m.phase = "none" => m.records = <<>>
    /\ m.phase # "none" => TakenOK(st[m.ctx.session], an, m.ctx)
    /\ m.phase \in {"mutated", "restored"} =>
         m.before = Failing(st[m.ctx.session], an, m.ctx, m.ctx.root)
    /\ m.phase = "restored" => m.after = Judged(st[m.ctx.session], an, m.ctx, m.next)

\* What a record says of a baseline, of the verdicts on a change of it and
\* of what was restored.
LEMMA RecordIs ==
  ASSUME NEW row, NEW db, AnchorsOK(db), NEW ctx, RowOK(ctx.session, row), TakenOK(row, db, ctx),
         NEW k \in 1..7, NEW r,
         r = [met |-> /\ Failing(row, db, ctx, ctx.root) = {}
                      /\ Judged(row, db, ctx, k) = Expected[k]
                      /\ Failing(row, db, ctx, ctx.root) = {},
              before |-> Failing(row, db, ctx, ctx.root),
              restored |-> Failing(row, db, ctx, ctx.root)]
  PROVE  RecordOK(r, k, db, ctx)
<1> DEFINE B == Failing(row, db, ctx, ctx.root)
           A == Judged(row, db, ctx, k)
           sel == Selected(db, ctx)
           o == B = {} /\ A = Expected[k] /\ B = {}
<1>1. B = {} => (A = Expected[k] <=> (k \in {5, 6} => sel))
  BY Detection
<1>2. r = [met |-> o, before |-> B, restored |-> B]
  OBVIOUS
<1>3. o <=> (B = {} /\ (k \in {5, 6} => sel))
  <2> HIDE DEF A, B, sel
  <2> QED  BY <1>1
<1> HIDE DEF B, A, o
<1>4. (r.met <=> o) /\ r.before = B /\ r.restored = B
  BY <1>2
<1>5. r.met <=> (r.before = {} /\ (k \in {5, 6} => sel))
  <2> HIDE DEF sel
  <2> QED  BY <1>3, <1>4, Zenon
<1> QED  BY <1>4, <1>5 DEF RecordOK

\* A step of the matrix keeps what its records say.
LEMMA ScenarioStep ==
  ASSUME CoreInv, MatrixStep,
         ScenariosOK(RowsBehind(stored, matrix), TableBehind(anchors, matrix), matrix)
  PROVE  ScenariosOK(RowsBehind(stored, matrix), TableBehind(anchors, matrix), matrix')
<1> DEFINE st == RowsBehind(stored, matrix)
           an == TableBehind(anchors, matrix)
<1>1. /\ MatrixOK(stored, anchors, matrix) /\ stored = [s \in Sessions |-> stored[s]]
      /\ RowsOK(st) /\ AnchorsOK(an) /\ ScenariosOK(st, an, matrix)
  BY DEF CoreInv
<1>2. matrix.phase # "mutated" => st = stored /\ an = anchors
  BY DEF RowsBehind, TableBehind
<1>3. CASE \E call \in Allowed.matrices : StartMatrix(call)
  <2>1. PICK call \in Allowed.matrices : StartMatrix(call)
    BY <1>3
  <2> DEFINE id == SelectAnchor(call)
             ctx == [day |-> call.day, prefix |-> call.prefix, session |-> call.session,
                     anchor |-> id, root |-> anchors[id].root, count |-> anchors[id].count]
  <2>2. /\ matrix = NoMatrix /\ Ready(call, id)
        /\ matrix' = [NoMatrix EXCEPT !.phase = "ready", !.ctx = ctx]
    BY <2>1 DEF StartMatrix
  <2> HIDE DEF id
  <2>3. ctx.session = call.session /\ ctx.anchor = id /\ ctx.root = anchors[id].root
        /\ ctx.count = anchors[id].count
    OBVIOUS
  <2> HIDE DEF ctx
  <2>4. TakenOK(stored[ctx.session], anchors, ctx)
    BY <2>2, <2>3 DEF Ready, TakenOK
  <2>5. st = stored /\ an = anchors
    BY <1>2, <2>2 DEF NoMatrix
  <2>6. /\ matrix'.phase = "ready" /\ matrix'.ctx = ctx /\ matrix'.next = 1
        /\ matrix'.records = <<>>
    BY <2>2 DEF NoMatrix
  <2>7. IsASequence(<<>>) /\ Len(<<>>) = 0 /\ DOMAIN <<>> = {}
    BY DEF IsASequence
  <2> HIDE DEF st, an
  <2>8. ScenariosOK(st, an, matrix')
    BY <2>4, <2>5, <2>6, <2>7 DEF ScenariosOK
  <2> QED  BY <2>8 DEF st, an
<1>4. CASE Mutate
  <2> DEFINE ctx == matrix.ctx
             B == Failing(stored[ctx.session], anchors, ctx, ctx.root)
  <2>1. /\ matrix.phase = "ready"
        /\ matrix' = [matrix EXCEPT !.phase = "mutated", !.before = B,
                                    !.saved = [row |-> stored[ctx.session],
                                               anchor |-> anchors[ctx.anchor]]]
    BY <1>4 DEF Mutate
  <2>2. st = stored /\ an = anchors
    BY <1>2, <2>1
  <2>3. B = Failing(st[ctx.session], an, ctx, ctx.root)
    BY <2>2
  <2> HIDE DEF B
  <2>4. /\ matrix'.phase = "mutated" /\ matrix'.ctx = ctx /\ matrix'.next = matrix.next
        /\ matrix'.records = matrix.records /\ matrix'.before = B
    BY <1>1, <2>1 DEF MatrixOK
  <2> HIDE DEF st, an
  <2>5. ScenariosOK(st, an, matrix')
    BY <1>1, <2>1, <2>3, <2>4 DEF ScenariosOK
  <2> QED  BY <2>5 DEF st, an
<1>5. CASE Judge
  <2> DEFINE ctx == matrix.ctx
             s == ctx.session
             id == ctx.anchor
             k == matrix.next
             A == Failing(stored[s], anchors, ctx, IF k = 7 THEN IncorrectRoot ELSE ctx.root)
  <2>1. /\ matrix.phase = "mutated"
        /\ matrix' = [matrix EXCEPT !.phase = "restored", !.saved = Absent, !.after = A]
    BY <1>5 DEF Judge
  <2>2. /\ s \in Sessions /\ id \in DOMAIN anchors /\ k \in 1..7
        /\ stored[s] = MutatedRow(matrix.saved.row, k)
        /\ anchors[id] = MutatedAnchor(matrix.saved.anchor, s, k)
    BY <1>1, <2>1 DEF MatrixOK
  <2>3. /\ st = [stored EXCEPT ![s] = matrix.saved.row]
        /\ an = [anchors EXCEPT ![id] = matrix.saved.anchor]
    BY <2>1 DEF RowsBehind, TableBehind
  <2>4. anchors = [i \in DOMAIN anchors |-> anchors[i]]
    BY <1>1, SequenceIsFunction DEF MatrixOK
  <2> HIDE DEF st, an
  <2>5. st[s] = matrix.saved.row /\ an[id] = matrix.saved.anchor
    BY <1>1, <2>2, <2>3
  <2>6. anchors = [an EXCEPT ![id] = MutatedAnchor(an[id], s, k)]
    BY <2>2, <2>3, <2>4, <2>5
  <2>7. stored[s] = MutatedRow(st[s], k) /\ anchors = Mutation(an, id, s, k)
    BY <2>2, <2>5, <2>6 DEF Mutation
  <2>8. A = Judged(st[s], an, ctx, k)
    BY <2>7 DEF Judged
  <2> HIDE DEF A
  <2>9. /\ matrix'.phase = "restored" /\ matrix'.ctx = ctx /\ matrix'.next = k
        /\ matrix'.records = matrix.records /\ matrix'.before = matrix.before /\ matrix'.after = A
    BY <1>1, <2>1 DEF MatrixOK
  <2>10. ScenariosOK(st, an, matrix')
    BY <1>1, <2>1, <2>8, <2>9 DEF ScenariosOK
  <2> QED  BY <2>10 DEF st, an
<1>6. CASE RecordScenario
  <2> DEFINE ctx == matrix.ctx
             s == ctx.session
             k == matrix.next
             R == Failing(stored[s], anchors, ctx, ctx.root)
             r == [met |-> matrix.before = {} /\ matrix.after = Expected[k] /\ R = {},
                   before |-> matrix.before, restored |-> R]
             phase == IF k = 7 THEN "done" ELSE "ready"
  <2>1. /\ matrix.phase = "restored"
        /\ matrix' = [matrix EXCEPT !.phase = phase, !.next = @ + 1, !.before = {}, !.after = {},
                                    !.records = Append(@, r)]
    BY <1>6 DEF RecordScenario
  <2>2. st = stored /\ an = anchors
    BY <1>2, <2>1
  <2>3. /\ s \in Sessions /\ k \in 1..7 /\ st[s] # Absent
    BY <1>1, <2>1 DEF MatrixOK
  <2>4. /\ TakenOK(st[s], an, ctx) /\ matrix.before = Failing(st[s], an, ctx, ctx.root)
        /\ matrix.after = Judged(st[s], an, ctx, k) /\ R = Failing(st[s], an, ctx, ctx.root)
    BY <1>1, <2>1, <2>2 DEF ScenariosOK
  <2>5. RowOK(s, st[s])
    BY <1>1, <2>3 DEF RowsOK
  <2> HIDE DEF st, an
  <2>6. r = [met |-> /\ Failing(st[s], an, ctx, ctx.root) = {}
                     /\ Judged(st[s], an, ctx, k) = Expected[k]
                     /\ Failing(st[s], an, ctx, ctx.root) = {},
             before |-> Failing(st[s], an, ctx, ctx.root),
             restored |-> Failing(st[s], an, ctx, ctx.root)]
    <3> HIDE DEF R
    <3> QED  BY <2>4, Zenon
  <2> HIDE DEF r
  <2>7. RecordOK(r, k, an, ctx)
    BY <1>1, <2>3, <2>4, <2>5, <2>6, RecordIs
  <2>8. phase \in {"ready", "done"}
    OBVIOUS
  <2> HIDE DEF phase
  <2> DEFINE rs == Append(matrix.records, r)
  <2>9. /\ matrix'.phase = phase /\ matrix'.ctx = ctx /\ matrix'.next = k + 1
        /\ matrix'.records = rs
    BY <1>1, <2>1 DEF MatrixOK
  <2>10. IsASequence(matrix.records) /\ Len(matrix.records) = k - 1
    BY <1>1 DEF ScenariosOK
  <2> DEFINE n == Len(matrix.records)
  <2>11. /\ IsASequence(rs) /\ Len(rs) = n + 1 /\ DOMAIN rs = 1..(n + 1) /\ DOMAIN matrix.records = 1..n
         /\ \A i \in 1..n : rs[i] = matrix.records[i]
         /\ rs[n + 1] = r /\ n \in Nat
    BY <2>10, AppendedRow
  <2>12. n = k - 1 /\ n + 1 = k
    BY <2>3, <2>10
  <2> HIDE DEF n, rs
  <2>13. \A i \in DOMAIN rs : RecordOK(rs[i], i, an, ctx)
    <3>1. \A i \in 1..n : RecordOK(rs[i], i, an, ctx)
      BY <1>1, <2>11 DEF ScenariosOK
    <3>2. \A i \in DOMAIN rs : i \in 1..n \/ i = k
      BY <2>11, <2>12
    <3> QED  BY <2>7, <2>11, <2>12, <3>1, <3>2
  <2>14. ScenariosOK(st, an, matrix')
    <3>1. Len(rs) = (k + 1) - 1
      BY <2>3, <2>11, <2>12
    <3> HIDE DEF k, ctx, s
    <3>2. TakenOK(st[ctx.session], an, ctx)
      BY <2>4 DEF s
    <3> QED  BY <2>8, <2>9, <2>11, <2>13, <3>1, <3>2 DEF ScenariosOK
  <2> QED  BY <2>14 DEF st, an
<1> QED  BY <1>3, <1>4, <1>5, <1>6 DEF MatrixStep

MatrixInv == ScenariosOK(RowsBehind(stored, matrix), TableBehind(anchors, matrix), matrix)

\* Each controlled change is seen by the layers that are expected to see it
\* and by no other, exactly if the baseline passed and the changed row is
\* the one verify_day reads: the verdicts of run_tamper_matrix.
THEOREM ScenariosAreDetected == Spec => []MatrixMeetsExpectations
<1>1. Init => MatrixInv
  <2>1. IsASequence(<<>>) /\ Len(<<>>) = 0 /\ DOMAIN <<>> = {}
    BY DEF IsASequence
  <2> QED  BY <2>1 DEF Init, NoMatrix, MatrixInv, ScenariosOK
<1>2. ASSUME CoreInv, MatrixInv, [Next]_vars
      PROVE  MatrixInv'
  <2>1. CASE Next /\ matrix.phase = "none" /\ UNCHANGED matrix
    <3>1. matrix' = matrix /\ matrix.phase = "none" /\ matrix.records = <<>>
      BY <1>2, <2>1 DEF MatrixInv, ScenariosOK
    <3>2. DOMAIN <<>> = {}
      OBVIOUS
    <3>3. /\ IsASequence(matrix.records) /\ Len(matrix.records) = matrix.next - 1
      BY <1>2 DEF MatrixInv, ScenariosOK
    <3> QED  BY <3>1, <3>2, <3>3 DEF MatrixInv, ScenariosOK
  <2>2. CASE MatrixStep
    <3>1. /\ RowsBehind(stored', matrix') = RowsBehind(stored, matrix)
          /\ TableBehind(anchors', matrix') = TableBehind(anchors, matrix)
      BY <1>2, <2>2, MatrixViews
    <3>2. ScenariosOK(RowsBehind(stored, matrix), TableBehind(anchors, matrix), matrix')
      BY <1>2, <2>2, ScenarioStep DEF MatrixInv
    <3> QED  BY <3>1, <3>2 DEF MatrixInv
  <2>3. CASE UNCHANGED vars
    BY <1>2, <2>3 DEF MatrixInv, vars
  <2>4. Next => MatrixStep \/ (matrix.phase = "none" /\ UNCHANGED matrix)
    BY DEF Next, MatrixStep, Meanwhile, Idle, RunStep, StartRun, PersistNext, CheckDay, CloseRun,
           VerifyRun, ExportRun, ReconcileRun
  <2> QED  BY <1>2, <2>1, <2>2, <2>3, <2>4
<1>3. ASSUME CoreInv, MatrixInv
      PROVE  MatrixMeetsExpectations
  <2> DEFINE an == TableBehind(anchors, matrix)
             ctx == matrix.ctx
  <2>1. \A i \in DOMAIN matrix.records : RecordOK(matrix.records[i], i, an, ctx)
    BY <1>3 DEF MatrixInv, ScenariosOK
  <2>2. CASE matrix.records = <<>>
    <3>1. DOMAIN matrix.records = {}
      BY <2>2
    <3> QED  BY <3>1 DEF MatrixMeetsExpectations
  <2>3. CASE matrix.phase # "none"
    <3>1. FindAnchor(anchors, ctx.day, ctx.prefix) = FindAnchor(an, ctx.day, ctx.prefix)
      <4>1. CASE matrix.phase # "mutated"
        BY <4>1 DEF TableBehind
      <4>2. CASE matrix.phase = "mutated"
        <5> DEFINE id == ctx.anchor
                   k == matrix.next
                   s == ctx.session
        <5>1. /\ id \in DOMAIN anchors /\ k \in 1..7 /\ IsASequence(anchors)
              /\ anchors[id] = MutatedAnchor(matrix.saved.anchor, s, k)
              /\ an = [anchors EXCEPT ![id] = matrix.saved.anchor]
          BY <1>3, <2>3, <4>2 DEF CoreInv, MatrixOK, TableBehind
        <5>2. AnchorsOK(an)
          BY <1>3 DEF CoreInv
        <5> HIDE DEF an, id, k, s
        <5>3. anchors = [i \in DOMAIN anchors |-> anchors[i]]
          BY <5>1, SequenceIsFunction
        <5>4. an[id] = matrix.saved.anchor /\ id \in DOMAIN an
          BY <5>1
        <5>5. anchors = [an EXCEPT ![id] = MutatedAnchor(an[id], s, k)]
          BY <5>1, <5>3, <5>4
        <5>6. anchors = Mutation(an, id, s, k)
          BY <5>5 DEF Mutation
        <5>7. SameHeads(an, anchors)
          <6>1. SameHeads(an, Mutation(an, id, s, k))
            BY <5>1, <5>2, <5>4, MutationFacts
          <6> QED  BY <5>6, <6>1
        <5> HIDE DEF ctx
        <5> QED  BY <5>7, SameRowFound DEF an
      <4> QED  BY <4>1, <4>2
    <3> HIDE DEF an
    <3>2. ASSUME NEW i \in DOMAIN matrix.records
          PROVE  /\ matrix.records[i].restored = matrix.records[i].before
                 /\ matrix.records[i].met <=>
                      (/\ matrix.records[i].before = {}
                       /\ (i \in {5, 6} =>
                             ctx.anchor = FindAnchor(anchors, ctx.day, ctx.prefix)))
      <4>1. RecordOK(matrix.records[i], i, an, ctx)
        BY <2>1
      <4> QED  BY <3>1, <4>1, Zenon DEF RecordOK, Selected
    <3> QED  BY <3>2 DEF MatrixMeetsExpectations
  <2>4. matrix.phase = "none" => matrix.records = <<>>
    BY <1>3 DEF MatrixInv, ScenariosOK
  <2> QED  BY <2>2, <2>3, <2>4
<1> QED  BY <1>1, <1>2, <1>3, CoreInvariance, PTL DEF Spec

-----------------------------------------------------------------------------
(***************************************************************************)
(* The sweep: what it closed covers what it saw.                           *)
(***************************************************************************)
Covered(db, day, p, s, hash) ==
    \E i \in DOMAIN db : /\ db[i].day = day /\ db[i].prefix = p
                         /\ \E m \in Range(db[i].members) : m.session = Nfc[s] /\ m.hash = hash

SweptOK(st, db, sw) ==
    \A s \in sw.seen :
      /\ s \in Sessions /\ s \in Scope[sw.prefix] /\ st[s] # Absent
      /\ UtcDay(st[s].start) \in sw.closed =>
           Covered(db, UtcDay(st[s].start), sw.prefix, s, st[s].hash)

\* A row more covers what was covered.
LEMMA StillCovered ==
  ASSUME NEW st, NEW db, IsASequence(db), NEW sw, SweptOK(st, db, sw), NEW a
  PROVE  SweptOK(st, Append(db, a), sw)
<1>1. /\ DOMAIN db \subseteq DOMAIN Append(db, a)
      /\ \A i \in DOMAIN db : Append(db, a)[i] = db[i]
  BY AppendedRow
<1>2. ASSUME NEW day, NEW p, NEW s, NEW hash, Covered(db, day, p, s, hash)
      PROVE  Covered(Append(db, a), day, p, s, hash)
  BY <1>1, <1>2 DEF Covered
<1> QED  BY <1>2 DEF SweptOK

\* A row that holds the normal forms of the records of a day covers every
\* session of the day.
LEMMA DayIsCovered ==
  ASSUME RowsOK(stored), NEW day, NEW p, Buildable(Records(day, p)),
         NEW db, NEW i \in DOMAIN db, db[i].day = day, db[i].prefix = p,
         Holds(db[i], Normalized(Records(day, p))), NEW s \in Eligible(day, p)
  PROVE  Covered(db, day, p, s, stored[s].hash)
<1> DEFINE Q == Records(day, p)
           S == Normalized(Q)
           r == Record(s)
           q == InNormalForm(r)
<1>1. r \in Q /\ r.session = s /\ r.hash = stored[s].hash
  BY DEF Records, Record
<1>2. RecordSet(Q) /\ \A x \in Q : x.session \in Sessions
  BY RecordFacts
<1>3. q \in S /\ q.session = Nfc[s] /\ q.hash = stored[s].hash
  <2> HIDE DEF Q, r
  <2>1. /\ S = {InNormalForm(x) : x \in Q}
        /\ InNormalForm(r).session = Nfc[r.session] /\ InNormalForm(r).hash = r.hash
    BY <1>1, <1>2, NormalizedFacts DEF Q
  <2> QED  BY <1>1, <2>1
<1> HIDE DEF S, q
<1>4. Lists(db[i], S)
  BY HoldsFacts DEF S
<1>5. PICK k \in 1..Cardinality(S) :
        db[i].members[k].session = q.session /\ db[i].members[k].hash = q.hash
  BY <1>3, <1>4 DEF Lists
<1>6. k \in DOMAIN db[i].members
  BY <1>4, SequenceIsFunction DEF Lists
<1>7. db[i].members[k] \in Range(db[i].members)
  BY <1>6 DEF Range
<1> QED  BY <1>3, <1>5, <1>7 DEF Covered

\* Sessions that are finalized are no longer seen.
LEMMA SweptStore ==
  ASSUME NEW st, st = [t \in Sessions |-> st[t]], NEW db, NEW sw, SweepTyped(sw),
         SweptOK(st, db, sw), NEW s \in Sessions, NEW row
  PROVE  SweptOK([st EXCEPT ![s] = row], db, [sw EXCEPT !.seen = @ \ {s}])
<1> DEFINE sw2 == [sw EXCEPT !.seen = @ \ {s}]
           st2 == [st EXCEPT ![s] = row]
<1>1. sw2.seen = sw.seen \ {s} /\ sw2.prefix = sw.prefix /\ sw2.closed = sw.closed
  BY DEF SweepTyped
<1>2. \A t \in sw.seen \ {s} : st2[t] = st[t]
  BY DEF SweptOK
<1> HIDE DEF sw2, st2
<1>3. SweptOK(st2, db, sw2)
  BY <1>1, <1>2 DEF SweptOK
<1> QED  BY <1>3 DEF sw2, st2

\* Null is no row: what tampering makes of a row is still one.
LEMMA SweptTamper ==
  ASSUME "json" \notin DOMAIN Absent,
         NEW st, st = [t \in Sessions |-> st[t]], RowsOK(st), NEW db, NEW sw, SweptOK(st, db, sw),
         NEW s \in Sessions, st[s] # Absent, ~Tampered(st[s])
  PROVE  SweptOK([st EXCEPT ![s].receipt.energy = @ + 123], db, sw)
<1> DEFINE st2 == [st EXCEPT ![s].receipt.energy = @ + 123]
<1>1. /\ st2[s] = Changed(st[s]) /\ Changed(st[s]).start = st[s].start
      /\ Changed(st[s]).hash = st[s].hash /\ "json" \in DOMAIN Changed(st[s])
  BY TamperStep, ZenonT(40)
<1>2. \A t \in Sessions : t # s => st2[t] = st[t]
  OBVIOUS
<1> HIDE DEF st2
<1>3. st2[s] # Absent
  BY <1>1
<1>4. \A t \in sw.seen : st2[t] # Absent /\ st2[t].start = st[t].start /\ st2[t].hash = st[t].hash
  BY <1>1, <1>2, <1>3 DEF SweptOK
<1>5. SweptOK(st2, db, sw)
  BY <1>4 DEF SweptOK
<1> QED  BY <1>5 DEF st2

\* Listing the sessions, and closing the next day of the list.
LEMMA SweptStart ==
  ASSUME NEW p, StartSweep(p)
  PROVE  SweptOK(stored', anchors', sweep')
<1>1. /\ sweep'.closed = {} /\ sweep'.seen = Rows \cap Scope[p] /\ sweep'.prefix = p
      /\ UNCHANGED <<stored, anchors>>
  BY DEF StartSweep
<1>2. \A s \in Rows \cap Scope[p] : s \in Sessions /\ stored[s] # Absent /\ s \in Scope[p]
  BY DEF Rows
<1> QED  BY <1>1, <1>2 DEF SweptOK

\* Closing a day covers the sessions of the day that were listed.
LEMMA SweptDay ==
  ASSUME RowsOK(stored), AnchorsOK(anchors), SweepTyped(sweep), SweptOK(stored, anchors, sweep),
         SweepDay
  PROVE  SweptOK(stored', anchors', sweep')
<1> DEFINE day == CHOOSE d \in sweep.todo : \A e \in sweep.todo : d <= e
           p == sweep.prefix
<1>1. /\ sweep.state = "closing" /\ sweep.todo # {}
      /\ sweep' = IF Closing(day, p) = "raises" THEN [sweep EXCEPT !.state = "failed"]
                  ELSE [sweep EXCEPT !.todo = @ \ {day}, !.closed = @ \cup {day}]
      /\ anchors' = IF Closing(day, p) = "inserts" THEN Inserted(day, p) ELSE anchors
      /\ UNCHANGED <<workload, stored>>
  BY DEF SweepDay
<1>2. day \in Int
  BY <1>1, LeastDay DEF SweepTyped
<1> HIDE DEF day
<1> DEFINE S == Normalized(Records(day, p))
           a == ProfiledRow(day, p, Commitment(S, Context(day)))
<1>3. /\ Closing(day, p) \in {"raises", "closed", "inserts"}
      /\ Closing(day, p) = "inserts" => /\ Inserted(day, p) = Append(anchors, a)
                                        /\ Holds(a, S) /\ a.day = day /\ a.prefix = p
      /\ Closing(day, p) = "closed" =>
           \E i \in DOMAIN anchors : /\ anchors[i].day = day /\ anchors[i].prefix = p
                                     /\ Holds(anchors[i], S)
      /\ Closing(day, p) # "raises" => Buildable(Records(day, p))
  BY <1>2, ClosingFacts
<1> HIDE DEF a, S, p
<1>4. SweptOK(stored, anchors', sweep)
  <2>1. CASE Closing(day, p) = "inserts"
    <3>1. anchors' = Append(anchors, a)
      BY <1>1, <1>3, <2>1
    <3>2. SweptOK(stored, Append(anchors, a), sweep)
      BY StillCovered DEF AnchorsOK
    <3> QED  BY <3>1, <3>2
  <2>2. CASE Closing(day, p) # "inserts"
    BY <1>1, <2>2
  <2> QED  BY <2>1, <2>2
<1>5. CASE Closing(day, p) = "raises"
  <2>1. sweep' = [sweep EXCEPT !.state = "failed"]
    BY <1>1, <1>5
  <2>2. sweep'.seen = sweep.seen /\ sweep'.closed = sweep.closed /\ sweep'.prefix = sweep.prefix
    BY <2>1 DEF SweepTyped
  <2> QED  BY <1>1, <1>4, <2>2 DEF SweptOK
<1>6. CASE Closing(day, p) # "raises"
  <2>1. sweep' = [sweep EXCEPT !.todo = @ \ {day}, !.closed = @ \cup {day}]
    BY <1>1, <1>6
  <2>2. sweep'.seen = sweep.seen /\ sweep'.closed = sweep.closed \cup {day} /\ sweep'.prefix = p
    BY <2>1 DEF SweepTyped, p
  <2>3. \E i \in DOMAIN anchors' : /\ anchors'[i].day = day /\ anchors'[i].prefix = p
                                   /\ Holds(anchors'[i], S)
    <3>1. CASE Closing(day, p) = "inserts"
      <4>1. IsASequence(anchors)
        BY DEF AnchorsOK
      <4> DEFINE n == Len(anchors)
      <4>2. /\ n \in Nat /\ DOMAIN Append(anchors, a) = 1..(n + 1)
            /\ Append(anchors, a)[n + 1] = a
        BY <4>1, AppendedRow
      <4> HIDE DEF n
      <4>3. n + 1 \in 1..(n + 1)
        BY <4>2
      <4>4. /\ n + 1 \in DOMAIN Append(anchors, a) /\ Append(anchors, a)[n + 1] = a
        BY <4>2, <4>3
      <4>5. anchors' = Append(anchors, a) /\ Holds(a, S) /\ a.day = day /\ a.prefix = p
        BY <1>1, <1>3, <3>1
      <4> QED  BY <4>4, <4>5
    <3>2. CASE Closing(day, p) = "closed"
      BY <1>1, <1>3, <3>2
    <3> QED  BY <1>3, <1>6, <3>1, <3>2
  <2>4. ASSUME NEW s \in sweep.seen, UtcDay(stored[s].start) = day
        PROVE  Covered(anchors', day, p, s, stored[s].hash)
    <3>1. s \in Eligible(day, p)
      BY <2>4 DEF SweptOK, Eligible, Rows, p
    <3>2. PICK i \in DOMAIN anchors' : /\ anchors'[i].day = day /\ anchors'[i].prefix = p
                                       /\ Holds(anchors'[i], S)
      BY <2>3
    <3> DEFINE db == anchors'
    <3>3. /\ i \in DOMAIN db /\ db[i].day = day /\ db[i].prefix = p
          /\ Holds(db[i], Normalized(Records(day, p))) /\ Buildable(Records(day, p))
      BY <1>3, <1>6, <3>2 DEF S
    <3> HIDE DEF db
    <3>4. Covered(db, day, p, s, stored[s].hash)
      BY <3>1, <3>3, DayIsCovered
    <3> QED  BY <3>4 DEF db
  <2>5. ASSUME NEW s \in sweep.seen
        PROVE  /\ s \in Sessions /\ s \in Scope[p] /\ stored[s] # Absent
               /\ UtcDay(stored[s].start) \in sweep.closed \cup {day} =>
                    Covered(anchors', UtcDay(stored[s].start), p, s, stored[s].hash)
    <3>1. /\ s \in Sessions /\ s \in Scope[p] /\ stored[s] # Absent
          /\ UtcDay(stored[s].start) \in sweep.closed =>
               Covered(anchors', UtcDay(stored[s].start), p, s, stored[s].hash)
      BY <1>4 DEF SweptOK, p
    <3> QED  BY <2>4, <3>1
  <2> QED  BY <1>1, <2>2, <2>5 DEF SweptOK
<1> QED  BY <1>5, <1>6

SweptInv == SweptOK(RowsBehind(stored, matrix), TableBehind(anchors, matrix), sweep)

\* What a run stores, it stores as a client would.
LEMMA SweptRun ==
  ASSUME CoreInv, SweptOK(stored, anchors, sweep), RunStep
  PROVE  SweptOK(stored', anchors', sweep')
<1>1. Idle /\ RunTyped(run) /\ (run.phase # "none" => Plan # Absent)
  BY DEF RunStep, CoreInv
<1>2. AnchorsOK(anchors) /\ SweepTyped(sweep) /\ stored = [t \in Sessions |-> stored[t]]
  BY <1>1, IdleFacts
<1>3. CASE PersistNext
  <2> DEFINE s == Plan.ids[run.made + 1]
  <2>1. run.phase = "persisting" /\ run.made < Len(Plan.ids) /\ UNCHANGED anchors
    BY <1>3 DEF PersistNext
  <2>2. PICK session \in Plan.sessions[s] : Store(s, session)
    BY <1>3 DEF PersistNext
  <2>3. Plan.ids \in Seq(Sessions)
    BY <1>1, <2>1, WorkAssumption DEF CoreInv, Plan, Allowed
  <2>4. s \in Sessions
    <3>1. run.made + 1 \in 1..Len(Plan.ids)
      BY <1>1, <2>1, <2>3, LenProperties DEF RunTyped
    <3>2. Plan.ids \in [1..Len(Plan.ids) -> Sessions]
      BY <2>3, LenProperties
    <3> QED  BY <3>1, <3>2
  <2> HIDE DEF s
  <2>5. stored' = [stored EXCEPT ![s] = RowsOf(s, session)] /\ sweep' = [sweep EXCEPT !.seen = @ \ {s}]
    BY <2>2 DEF Store
  <2>6. SweptOK([stored EXCEPT ![s] = RowsOf(s, session)], anchors, [sweep EXCEPT !.seen = @ \ {s}])
    BY <1>2, <2>4, SweptStore
  <2> QED  BY <2>1, <2>5, <2>6
<1>4. CASE CloseRun
  <2>1. /\ UNCHANGED <<stored, sweep>>
        /\ anchors' = anchors \/ \E a : anchors' = Append(anchors, a)
    BY <1>4 DEF CloseRun, Inserted
  <2> QED  BY <1>2, <2>1, StillCovered DEF AnchorsOK
<1>5. CASE UNCHANGED <<stored, anchors, sweep>>
  BY <1>5
<1> QED
  BY <1>3, <1>4, <1>5 DEF RunStep, StartRun, CheckDay, VerifyRun, ExportRun, ReconcileRun

\* Whatever clients do meanwhile, and also if a later day fails: every
\* session that anchor_all_days listed is in the row of its UTC day once that
\* day is swept, unless it was finalized again.
THEOREM SweepIsComplete ==
  ASSUME "json" \notin DOMAIN Absent         \* null is no row
  PROVE  Spec => []SweepCoversUtcDays
<1>1. Init => SweptInv
  BY DEF Init, NoMatrix, NoSweep, SweptInv, SweptOK
<1>2. ASSUME CoreInv, SweptInv, [Next]_vars
      PROVE  SweptInv'
  <2>1. CASE MatrixStep
    <3>1. /\ RowsBehind(stored', matrix') = RowsBehind(stored, matrix)
          /\ TableBehind(anchors', matrix') = TableBehind(anchors, matrix)
          /\ sweep' = sweep
      BY <1>2, <2>1, MatrixViews
    <3> QED  BY <1>2, <3>1 DEF SweptInv
  <2>2. CASE UNCHANGED vars
    BY <1>2, <2>2 DEF SweptInv, vars
  <2>3. CASE Idle /\ UNCHANGED matrix /\ SweptOK(stored', anchors', sweep')
    <3>1. RowsBehind(stored', matrix') = stored' /\ TableBehind(anchors', matrix') = anchors'
      BY <2>3 DEF Idle, RowsBehind, TableBehind
    <3> QED  BY <2>3, <3>1 DEF SweptInv
  <2>4. ASSUME Idle
        PROVE  /\ RowsOK(stored) /\ AnchorsOK(anchors) /\ SweepTyped(sweep)
               /\ stored = [s \in Sessions |-> stored[s]]
               /\ SweptOK(stored, anchors, sweep)
    BY <1>2, <2>4, IdleFacts DEF SweptInv
  <2>5. CASE \E s \in Sessions : \E body \in Allowed.posts[s] : Finalize(s, body) /\ Meanwhile
    <3> PICK s \in Sessions : \E body \in Allowed.posts[s] : Finalize(s, body) /\ Meanwhile
      BY <2>5
    <3>1. PICK body \in Allowed.posts[s] : Finalize(s, body) /\ Meanwhile
      OBVIOUS
    <3>2. Idle /\ UNCHANGED matrix
      BY <3>1 DEF Meanwhile
    <3> DEFINE row == RowsOf(s, Parsed(body))
    <3>3. /\ stored' = [stored EXCEPT ![s] = row] /\ sweep' = [sweep EXCEPT !.seen = @ \ {s}]
          /\ UNCHANGED anchors
      BY <3>1 DEF Finalize, Store
    <3> HIDE DEF row
    <3>4. SweptOK([stored EXCEPT ![s] = row], anchors, [sweep EXCEPT !.seen = @ \ {s}])
      BY <2>4, <3>2, SweptStore
    <3> QED  BY <2>3, <3>2, <3>3, <3>4
  <2>6. CASE \E s \in Allowed.tampering : Tamper(s) /\ Meanwhile
    <3>1. PICK s \in Allowed.tampering : Tamper(s) /\ Meanwhile
      BY <2>6
    <3>2. Idle /\ UNCHANGED matrix
      BY <3>1 DEF Meanwhile
    <3>3. /\ s \in Sessions /\ stored[s] # Absent /\ ~Tampered(stored[s])
          /\ stored' = [stored EXCEPT ![s].receipt.energy = @ + 123] /\ UNCHANGED <<anchors, sweep>>
      BY <3>1 DEF Tamper, Rows
    <3>4. SweptOK([stored EXCEPT ![s].receipt.energy = @ + 123], anchors, sweep)
      BY <2>4, <3>2, <3>3, SweptTamper
    <3> QED  BY <2>3, <3>2, <3>3, <3>4
  <2>7. CASE \E c \in Allowed.closings : (CloseDay(c[1], c[2]) \/ CloseLegacyDay(c[1], c[2])) /\ Meanwhile
    <3>1. Idle /\ UNCHANGED matrix
      BY <2>7 DEF Meanwhile
    <3>2. UNCHANGED <<stored, sweep>> /\ \E a : anchors' = Append(anchors, a)
      BY <2>7 DEF CloseDay, CloseLegacyDay, Inserted
    <3>3. SweptOK(stored', anchors', sweep')
      BY <2>4, <3>1, <3>2, StillCovered DEF AnchorsOK
    <3> QED  BY <2>3, <3>1, <3>3
  <2>8. CASE \E p \in Allowed.sweeps : StartSweep(p) /\ Meanwhile
    <3>1. Idle /\ UNCHANGED matrix
      BY <2>8 DEF Meanwhile
    <3>2. SweptOK(stored', anchors', sweep')
      BY <2>8, SweptStart
    <3> QED  BY <2>3, <3>1, <3>2
  <2>9. CASE SweepDay /\ Meanwhile
    <3>1. Idle /\ UNCHANGED matrix
      BY <2>9 DEF Meanwhile
    <3>2. SweptOK(stored', anchors', sweep')
      BY <2>4, <2>9, <3>1, SweptDay
    <3> QED  BY <2>3, <3>1, <3>2
  <2>10. CASE RunStep
    <3>1. Idle /\ UNCHANGED matrix
      BY <2>10 DEF RunStep, StartRun, PersistNext, CheckDay, CloseRun, VerifyRun, ExportRun, ReconcileRun
    <3>2. SweptOK(stored', anchors', sweep')
      BY <1>2, <2>4, <2>10, <3>1, SweptRun
    <3> QED  BY <2>3, <3>1, <3>2
  <2> QED  BY <1>2, <2>1, <2>2, <2>5, <2>6, <2>7, <2>8, <2>9, <2>10 DEF Next, MatrixStep
<1>3. SweptInv => SweepCoversUtcDays
  <2> SUFFICES ASSUME SweptInv, Settled, NEW s \in sweep.seen, UtcDay(stored[s].start) \in sweep.closed
               PROVE  Covered(anchors, UtcDay(stored[s].start), sweep.prefix, s, stored[s].hash)
    BY DEF SweepCoversUtcDays, Covered
  <2>1. SweptOK(stored, anchors, sweep)
    BY DEF SweptInv, Settled, RowsBehind, TableBehind
  <2> QED  BY <2>1 DEF SweptOK
<1> QED  BY <1>1, <1>2, <1>3, CoreInvariance, PTL DEF Spec

-----------------------------------------------------------------------------
(***************************************************************************)
(* The check of an untouched stream.                                       *)
(***************************************************************************)
InUtcTexts(mvs) == \A i \in DOMAIN mvs : mvs[i].ts = UtcText(mvs[i].ts.clock)
OwnClocks(mvs) == \A i, j \in DOMAIN mvs : mvs[i].ts.clock = mvs[j].ts.clock => i = j
OwnSeconds(mvs) == \A i, j \in DOMAIN mvs :
                     mvs[j].ts.clock = mvs[i].ts.clock + 1 => mvs[i].ts.clock % 2 = 1
WellTimed(mvs) == InUtcTexts(mvs) /\ OwnClocks(mvs) /\ OwnSeconds(mvs)

\* The order of the texts: every reading has its place.
LEMMA TextOrderFacts ==
  ASSUME NEW mvs \in Seq(Readings)
  PROVE  LET n == Len(mvs)
             order == Ranked(1..n, TextPairs(mvs))
         IN  /\ n \in Nat /\ DOMAIN mvs = 1..n /\ order \in [1..n -> 1..n]
             /\ \A i \in 1..n : \E k \in 1..n : order[k] = i
             /\ \A i, j \in 1..n : i < j => EarlierText(mvs, order[i], order[j])
             /\ \A k \in 1..n : InTextOrder(mvs)[k] = mvs[order[k]]
             /\ DOMAIN InTextOrder(mvs) = 1..n
<1> DEFINE n == Len(mvs)
           D == 1..n
           R == TextPairs(mvs)
           order == Ranked(D, R)
<1>1. /\ n \in Nat /\ Cardinality(D) = n /\ TotalOrder(D, R) /\ order \in [1..n -> 1..n]
      /\ InTextOrder(mvs) = [i \in 1..n |-> mvs[order[i]]]
  BY TextArranged
<1>2. DOMAIN mvs = D
  BY LenProperties
<1>3. IsFiniteSet(D)
  <2>1. 1 \in Int /\ n \in Int
    BY <1>1
  <2> QED  BY <2>1, FS_Interval
<1> HIDE DEF n, R, order
<1>4. /\ \A i, j \in 1..n : i < j => <<order[i], order[j]>> \in R
      /\ \A x \in D : Position(D, R, x) \in 1..n /\ order[Position(D, R, x)] = x
  <2> HIDE DEF D
  <2>1. /\ \A i, j \in 1..Cardinality(D) : i < j => <<Ranked(D, R)[i], Ranked(D, R)[j]>> \in R
        /\ \A x \in D : /\ Position(D, R, x) \in 1..Cardinality(D)
                        /\ Ranked(D, R)[Position(D, R, x)] = x
    BY <1>1, <1>3, RankedFacts
  <2> QED  BY <1>1, <2>1 DEF order
<1>5. \A i \in 1..n : \E k \in 1..n : order[k] = i
  BY <1>4
<1>6. ASSUME NEW i \in 1..n, NEW j \in 1..n, i < j
      PROVE  EarlierText(mvs, order[i], order[j])
  <2>1. order[i] \in DOMAIN mvs /\ order[j] \in DOMAIN mvs
    BY <1>1, <1>2
  <2>2. <<order[i], order[j]>> \in TextPairs(mvs)
    BY <1>4, <1>6 DEF R
  <2> QED  BY <2>1, <2>2, TextPairsAre
<1> QED  BY <1>1, <1>2, <1>5, <1>6 DEF n, R, order

\* Among well-timed texts, the order of the texts is that of the instants.
LEMMA SameOrder ==
  ASSUME NEW mvs \in Seq(Readings), NEW n, n = Len(mvs), WellTimed(mvs),
         NEW json, json.meters = mvs, NEW meters, MeterRowsOf(meters, json, n)
  PROVE  \A k \in 1..n : Ranked(0..(n - 1), InstantPairs(meters))[k]
                           = Ranked(1..n, TextPairs(mvs))[k] - 1
<1> DEFINE O == Ranked(1..n, TextPairs(mvs))
           R == InstantPairs(meters)
           D == 0..(n - 1)
           f == [k \in 1..n |-> O[k] - 1]
<1>1. /\ n \in Nat /\ DOMAIN mvs = 1..n /\ O \in [1..n -> 1..n]
      /\ \A i \in 1..n : \E k \in 1..n : O[k] = i
      /\ \A i, j \in 1..n : i < j => EarlierText(mvs, O[i], O[j])
  BY TextOrderFacts
<1>2. /\ DOMAIN meters = D
      /\ \A i \in D : meters[i].at = Instant(mvs[i + 1].ts) /\ mvs[i + 1].ts \in Timestamp
                      /\ meters[i].at \in Int
  BY DEF MeterRowsOf
<1>3. IsFiniteSet(D) /\ Cardinality(D) = n
  BY <1>1, PositionsAreFinite
<1> HIDE DEF O
<1>4. f \in [1..n -> D]
  <2>1. \A x \in 1..n : x - 1 \in D
    BY <1>1
  <2>2. \A k \in 1..n : O[k] \in 1..n
    BY <1>1
  <2> HIDE DEF D
  <2> QED  BY <2>1, <2>2
<1>5. ASSUME NEW i \in 1..n, NEW j \in 1..n, i < j
      PROVE  <<f[i], f[j]>> \in R
  <2> DEFINE x == O[i]
             y == O[j]
  <2>1. x \in 1..n /\ y \in 1..n /\ x - 1 \in D /\ y - 1 \in D /\ (x - 1) + 1 = x /\ (y - 1) + 1 = y
    <3>1. x \in 1..n /\ y \in 1..n
      BY <1>1
    <3> HIDE DEF x, y
    <3> QED  BY <1>1, <3>1
  <2>2. EarlierText(mvs, x, y)
    BY <1>1, <1>5
  <2>3. f[i] = x - 1 /\ f[j] = y - 1
    OBVIOUS
  <2> HIDE DEF x, y, f, D
  <2>4. /\ meters[x - 1].at = Instant(mvs[x].ts) /\ meters[y - 1].at = Instant(mvs[y].ts)
        /\ mvs[x].ts \in Timestamp /\ mvs[y].ts \in Timestamp
    BY <1>2, <2>1
  <2>5. mvs[x].ts = UtcText(mvs[x].ts.clock) /\ mvs[y].ts = UtcText(mvs[y].ts.clock)
    BY <1>1, <2>1 DEF WellTimed, InUtcTexts
  <2>6. meters[x - 1].at = mvs[x].ts.clock /\ meters[y - 1].at = mvs[y].ts.clock
        /\ mvs[x].ts.clock \in Nat /\ mvs[y].ts.clock \in Nat
    <3>1. Instant(mvs[x].ts) = mvs[x].ts.clock /\ mvs[x].ts.clock \in Nat
      BY <2>4, <2>5, UtcTextFacts
    <3>2. Instant(mvs[y].ts) = mvs[y].ts.clock /\ mvs[y].ts.clock \in Nat
      BY <2>4, <2>5, UtcTextFacts
    <3> QED  BY <2>4, <3>1, <3>2
  <2>7. mvs[x].ts.clock < mvs[y].ts.clock \/ (mvs[x].ts.clock = mvs[y].ts.clock /\ x < y)
    <3>1. TextBefore(mvs[x].ts, mvs[y].ts) => mvs[x].ts.clock < mvs[y].ts.clock
      <4>1. TextBefore(mvs[x].ts, mvs[y].ts) =>
              \/ mvs[x].ts.clock < mvs[y].ts.clock
              \/ mvs[x].ts.clock = mvs[y].ts.clock + 1 /\ mvs[y].ts.clock % 2 = 0
        BY <2>4, <2>5, UtcOrder
      <4>2. mvs[x].ts.clock = mvs[y].ts.clock + 1 => mvs[y].ts.clock % 2 = 1
        BY <1>1, <2>1 DEF WellTimed, OwnSeconds
      <4> QED  BY <4>1, <4>2
    <3> QED  BY <2>2, <3>1 DEF EarlierText
  <2>8. mvs[x].ts.clock = mvs[y].ts.clock => x = y
    BY <1>1, <2>1 DEF WellTimed, OwnClocks
  <2>9. meters[x - 1].at < meters[y - 1].at
    BY <2>1, <2>6, <2>7, <2>8
  <2>10. EarlierRow(meters, x - 1, y - 1)
    BY <2>9 DEF EarlierRow
  <2>11. <<x - 1, y - 1>> \in InstantPairs(meters)
    BY <1>2, <2>1, <2>10, InstantPairsAre
  <2> QED  BY <2>3, <2>11 DEF R
<1>6. TotalOrder(D, R)
  <2> DEFINE row == [meters |-> meters]
  <2>1. row.meters = meters
    OBVIOUS
  <2> HIDE DEF row
  <2>2. TotalOrder(0..(n - 1), InstantPairs(row.meters))
    BY <1>1, <1>2, <2>1, SamplesArranged
  <2> QED  BY <2>1, <2>2
<1>7. f = Ranked(D, R)
  <2> HIDE DEF f, D, R
  <2> QED  BY <1>3, <1>4, <1>5, <1>6, ArrangedOnce
<1>8. \A k \in 1..n : f[k] = O[k] - 1
  OBVIOUS
<1> HIDE DEF f
<1> QED  BY <1>7, <1>8 DEF O, R, D

\* The stream of a row: the readings of a body, sampled by their instants.
StreamOf(mvs, samples, order, n) ==
    /\ IsASequence(samples) /\ Len(samples) = n
    /\ order \in [1..n -> 1..n]
    /\ \A i \in 1..n : \E k \in 1..n : order[k] = i
    /\ \A k \in 1..n : /\ samples[k].at = Instant(mvs[order[k]].ts)
                       /\ samples[k].import = mvs[order[k]].import
                       /\ samples[k].export = mvs[order[k]].export
    /\ \A k, l \in 1..n : k < l => samples[k].at <= samples[l].at

\* The samples of stored rows are the posted readings in another order.
LEMMA SamplesOfBody ==
  ASSUME NEW s, NEW json, Good(json)
  PROVE  LET n == Len(json.meters)
             meters == RowsOf(s, json).meters
             order == [k \in 1..n |-> Ranked(0..(n - 1), InstantPairs(meters))[k] + 1]
         IN  StreamOf(json.meters, SamplesOf(meters), order, n)
<1> DEFINE n == Len(json.meters)
           row == RowsOf(s, json)
           meters == row.meters
           P == Ranked(0..(n - 1), InstantPairs(meters))
           order == [k \in 1..n |-> P[k] + 1]
<1>1. MeterRowsOf(meters, json, n)
  BY MeterRows
<1>2. Samples(row) = SamplesOf(meters)
  BY MeterCheckIs
<1> HIDE DEF n, row, meters
<1>3. /\ n \in Nat /\ DOMAIN meters = 0..(n - 1)
      /\ \A i \in 0..(n - 1) :
           /\ meters[i].at = Instant(json.meters[i + 1].ts) /\ meters[i].at \in Int
           /\ meters[i].import = json.meters[i + 1].import
           /\ meters[i].export = json.meters[i + 1].export
  BY <1>1 DEF MeterRowsOf
<1>4. SampledBy(row, n, P)
  <2>1. meters = row.meters
    BY DEF meters
  <2> QED  BY <1>3, <2>1, SamplesArranged
<1> DEFINE samples == SamplesOf(meters)
<1>5. /\ P \in [1..n -> 0..(n - 1)] /\ \A i \in 0..(n - 1) : \E k \in 1..n : P[k] = i
      /\ IsASequence(samples) /\ Len(samples) = n
      /\ \A k \in 1..n : samples[k] = meters[P[k]]
  <2>1. meters = row.meters
    BY DEF meters
  <2> HIDE DEF P, samples
  <2> QED  BY <1>2, <1>4, <2>1 DEF SampledBy, samples
<1>10. \A k, l \in 1..n : k < l => samples[k].at <= samples[l].at
  <2> DEFINE D == 0..(n - 1)
             R == InstantPairs(meters)
  <2>1. row.meters = meters
    BY DEF meters
  <2>2. TotalOrder(D, R)
    BY <1>3, <2>1, SamplesArranged
  <2>3. IsFiniteSet(D) /\ Cardinality(D) = n
    BY <1>3, PositionsAreFinite
  <2> HIDE DEF samples
  <2> SUFFICES ASSUME NEW k \in 1..n, NEW l \in 1..n, k < l
               PROVE  samples[k].at <= samples[l].at
    OBVIOUS
  <2>4. <<P[k], P[l]>> \in R
    <3> HIDE DEF D, R
    <3>1. \A i, j \in 1..Cardinality(D) : i < j => <<Ranked(D, R)[i], Ranked(D, R)[j]>> \in R
      BY <2>2, <2>3, RankedFacts
    <3>2. P = Ranked(D, R)
      BY DEF D, R
    <3> HIDE DEF P
    <3> QED  BY <2>3, <3>1, <3>2
  <2> HIDE DEF P
  <2>5. P[k] \in D /\ P[l] \in D /\ D = DOMAIN meters
    BY <1>3, <1>5
  <2>6. EarlierRow(meters, P[k], P[l])
    BY <2>4, <2>5, InstantPairsAre
  <2>7. meters[P[k]].at \in Int /\ meters[P[l]].at \in Int
    BY <1>3, <2>5
  <2>8. meters[P[k]].at <= meters[P[l]].at
    BY <2>6, <2>7 DEF EarlierRow
  <2> QED  BY <1>5, <2>8
<1> HIDE DEF P, samples
<1>6. order \in [1..n -> 1..n] /\ \A k \in 1..n : order[k] = P[k] + 1 /\ P[k] \in 0..(n - 1)
  BY <1>3, <1>5
<1> HIDE DEF order
<1>7. ASSUME NEW i \in 1..n
      PROVE  \E k \in 1..n : order[k] = i
  <2>1. i - 1 \in 0..(n - 1) /\ (i - 1) + 1 = i
    BY <1>3
  <2>2. PICK k \in 1..n : P[k] = i - 1
    BY <1>5, <2>1
  <2> QED  BY <1>6, <2>1, <2>2
<1>9. ASSUME NEW k \in 1..n
      PROVE  /\ samples[k].at = Instant(json.meters[order[k]].ts)
             /\ samples[k].import = json.meters[order[k]].import
             /\ samples[k].export = json.meters[order[k]].export
  <2>1. P[k] \in 0..(n - 1) /\ order[k] = P[k] + 1 /\ samples[k] = meters[P[k]]
    BY <1>5, <1>6
  <2> QED  BY <1>3, <2>1
<1>8. StreamOf(json.meters, samples, order, n)
  <2> DEFINE mvs == json.meters
  <2>1. \A k \in 1..n : /\ samples[k].at = Instant(mvs[order[k]].ts)
                         /\ samples[k].import = mvs[order[k]].import
                         /\ samples[k].export = mvs[order[k]].export
    BY <1>9
  <2> HIDE DEF mvs
  <2>2. StreamOf(mvs, samples, order, n)
    BY <1>5, <1>6, <1>7, <1>10, <2>1 DEF StreamOf
  <2> QED  BY <2>2 DEF mvs
<1> QED  BY <1>8 DEF order, P, samples, meters, row, n

\* An energy summary names its two differences.
LEMMA SummaryFacts ==
  ASSUME NEW a, NEW b, NEW c, NEW d
  PROVE  /\ Summary(a, b) = Summary(c, d) <=> a = c /\ b = d
         /\ Summary(a, b).import = a /\ Summary(a, b).export = b
<1>1. Summary(a, b).import = a /\ Summary(a, b).export = b
  BY DEF Summary
<1>2. Summary(c, d).import = c /\ Summary(c, d).export = d
  BY DEF Summary
<1> QED  BY <1>1, <1>2

\* The leaves of a sampled stream.
LEMMA StepFacts ==
  ASSUME NEW n \in Nat, NEW samples, IsASequence(samples), Len(samples) = n
  PROVE  /\ IsASequence(Steps(samples)) /\ Len(Steps(samples)) = n
         /\ Steps(samples) = [k \in 1..n |-> Steps(samples)[k]]
         /\ \A k \in 1..n : /\ Steps(samples)[k].ts = UtcText(samples[k].at)
                            /\ Steps(samples)[k] = Coerced(InUtc(samples[k]))
                            /\ Steps(samples)[k].import = Rounded(samples[k].import)
                            /\ Steps(samples)[k].export = Rounded(samples[k].export)
<1> DEFINE f == Steps(samples)
<1>1. DOMAIN samples = 1..n
  BY SequenceIsFunction
<1>2. f = [k \in 1..n |-> f[k]] /\ \A k \in 1..n : f[k] = Coerced(InUtc(samples[k]))
  BY <1>1 DEF Steps
<1> HIDE DEF f
<1>3. IsASequence(f) /\ Len(f) = n
  BY <1>2, FunctionIsSequence
<1>4. \A k \in 1..n : /\ f[k].ts = UtcText(samples[k].at)
                      /\ f[k].import = Rounded(samples[k].import)
                      /\ f[k].export = Rounded(samples[k].export)
  BY <1>2 DEF Coerced, InUtc
<1> QED  BY <1>2, <1>3, <1>4 DEF f

\* Streams with one root have the same leaves.
LEMMA SameLeaves ==
  ASSUME NEW n \in Nat, n >= 1, NEW samples, IsASequence(samples), Len(samples) = n,
         NEW values, IsASequence(values), Len(values) = n,
         MeterRoot(Steps(samples)) = MeterRoot(values), NEW k \in 1..n
  PROVE  MeterLeaf(Steps(samples)[k]) = MeterLeaf(values[k])
<1> DEFINE steps == Steps(samples)
<1>1. IsASequence(steps) /\ Len(steps) = n /\ MeterRoot(steps) = MeterRoot(values)
  BY StepFacts
<1> HIDE DEF steps
<1>2. MeterLeaf(steps[k]) = MeterLeaf(values[k])
  BY <1>1, MeterRootFacts
<1> QED  BY <1>2 DEF steps

\* Two streams with one root have the same texts in the same places.
SameTexts(n, mvs, order, values, steps, samples) ==
    /\ DOMAIN mvs = 1..n /\ \A i \in 1..n : \E k \in 1..n : order[k] = i
    /\ \A k \in 1..n : values[k].ts = mvs[order[k]].ts
    /\ \A k \in 1..n : steps[k].ts = UtcText(samples[k].at)
    /\ \A k \in 1..n : MeterLeaf(steps[k]) = MeterLeaf(values[k])

\* A posted text that was hashed as that of its instant is that text.
LEMMA UtcFromLeaves ==
  ASSUME NEW n, NEW mvs, NEW order, NEW values, NEW steps, NEW samples,
         SameTexts(n, mvs, order, values, steps, samples)
  PROVE  InUtcTexts(mvs) /\ \A k \in 1..n : mvs[order[k]].ts.clock = samples[k].at
<1>1. ASSUME NEW k \in 1..n
      PROVE  mvs[order[k]].ts = UtcText(samples[k].at)
  <2>1. MeterLeaf(steps[k])[1] = MeterLeaf(values[k])[1]
    BY DEF SameTexts
  <2>2. steps[k].ts = values[k].ts
    BY <2>1 DEF MeterLeaf
  <2> QED  BY <2>2 DEF SameTexts
<1>2. \A k \in 1..n : /\ mvs[order[k]].ts.clock = samples[k].at
                      /\ mvs[order[k]].ts = UtcText(mvs[order[k]].ts.clock)
  <2>1. \A t, v : t = UtcText(v) => t.clock = v
    BY DEF UtcText
  <2> QED  BY <1>1, <2>1
<1>3. ASSUME NEW i \in DOMAIN mvs
      PROVE  mvs[i].ts = UtcText(mvs[i].ts.clock)
  <2>1. PICK k \in 1..n : order[k] = i
    BY DEF SameTexts
  <2> QED  BY <1>2, <2>1
<1> QED  BY <1>2, <1>3 DEF InUtcTexts

\* And where the texts were hashed in the order of the instants, no text of a
\* half second follows one of the whole second before.
LEMMA SecondsFromLeaves ==
  ASSUME NEW mvs \in Seq(Readings), NEW n, n = Len(mvs), NEW samples, InUtcTexts(mvs),
         \A k \in 1..n : mvs[Ranked(1..n, TextPairs(mvs))[k]].ts.clock = samples[k].at,
         \A k, l \in 1..n : k < l => samples[k].at <= samples[l].at
  PROVE  OwnSeconds(mvs)
<1> DEFINE O == Ranked(1..n, TextPairs(mvs))
<1>1. /\ n \in Nat /\ DOMAIN mvs = 1..n /\ O \in [1..n -> 1..n]
      /\ \A i \in 1..n : \E k \in 1..n : O[k] = i
      /\ \A i, j \in 1..n : i < j => EarlierText(mvs, O[i], O[j])
  BY TextOrderFacts
<1>2. \A k \in 1..n : mvs[O[k]].ts.clock = samples[k].at
  OBVIOUS
<1>3. \A i \in 1..n : mvs[i].ts \in Timestamp
  <2>1. \A i \in 1..n : mvs[i] \in Readings
    BY <1>1
  <2>2. \A mv \in Readings : mv.ts \in Timestamp
    BY DEF Readings
  <2> QED  BY <2>1, <2>2
<1> HIDE DEF O
<1>4. ASSUME NEW i \in 1..n, NEW j \in 1..n, mvs[j].ts.clock = mvs[i].ts.clock + 1,
             mvs[i].ts.clock % 2 # 1
      PROVE  FALSE
  <2>1. PICK k \in 1..n : O[k] = i
    BY <1>1
  <2>2. PICK l \in 1..n : O[l] = j
    BY <1>1
  <2>3. /\ mvs[i].ts \in Timestamp /\ mvs[i].ts = UtcText(mvs[i].ts.clock)
        /\ mvs[j].ts \in Timestamp /\ mvs[j].ts = UtcText(mvs[j].ts.clock)
    BY <1>1, <1>3 DEF InUtcTexts
  <2>4. mvs[i].ts.clock \in Nat /\ mvs[i].ts.clock % 2 \in {0, 1}
    BY <2>3, TimestampFields, EndingRanks
  <2>5. ~TextBefore(mvs[i].ts, mvs[j].ts)
    BY <1>4, <2>3, <2>4, UtcOrder
  <2>6. mvs[i].ts # mvs[j].ts
    BY <1>4, <2>4
  <2>7. ~EarlierText(mvs, i, j)
    BY <2>5, <2>6 DEF EarlierText
  <2>8. ~(k < l)
    BY <1>1, <2>1, <2>2, <2>7
  <2>9. k # l
    BY <1>4, <2>1, <2>2, <2>4
  <2>10. l < k
    BY <1>1, <2>8, <2>9
  <2>11. samples[l].at <= samples[k].at
    BY <2>10
  <2>12. samples[k].at = mvs[i].ts.clock /\ samples[l].at = mvs[j].ts.clock
    BY <1>2, <2>1, <2>2
  <2> QED  BY <1>4, <2>4, <2>11, <2>12
<1>5. ASSUME NEW i \in 1..n
      PROVE  mvs[i].ts.clock % 2 \in {0, 1}
  BY <1>3, EndingRanks
<1> QED  BY <1>1, <1>4 DEF OwnSeconds

\* Well-timed readings: the stream of the rows is the one that was hashed.
LEMMA SameStream ==
  ASSUME NEW s, NEW json, Good(json), WellTimed(json.meters)
  PROVE  LET n == Len(json.meters)
             samples == SamplesOf(RowsOf(s, json).meters)
             texts == InTextOrder(json.meters)
         IN  /\ Steps(samples) = MeterValues(json)
             /\ \A k \in 1..n : samples[k].import = texts[k].import /\ samples[k].export = texts[k].export
<1> DEFINE n == Len(json.meters)
           posted == json.meters
           meters == RowsOf(s, json).meters
           samples == SamplesOf(meters)
           texts == InTextOrder(posted)
           values == MeterValues(json)
           O == Ranked(1..n, TextPairs(posted))
           P == Ranked(0..(n - 1), InstantPairs(meters))
           order == [k \in 1..n |-> P[k] + 1]
<1>1. posted \in Seq(Readings)
  BY BodyFields DEF Good
<1>2. /\ n \in Nat /\ DOMAIN posted = 1..n /\ O \in [1..n -> 1..n]
      /\ \A k \in 1..n : texts[k] = posted[O[k]]
  BY <1>1, TextOrderFacts
<1>3. MeterRowsOf(meters, json, n)
  BY MeterRows
<1>4. StreamOf(posted, samples, order, n)
  BY SamplesOfBody
<1>5. \A k \in 1..n : P[k] = O[k] - 1
  BY <1>1, <1>3, SameOrder
<1>6. /\ IsASequence(values) /\ Len(values) = n
      /\ \A k \in 1..n : values[k] = Coerced(texts[k]) /\ texts[k].ts \in Timestamp
  BY MeterValuesFacts
<1> HIDE DEF O, P, n, samples, texts, values, meters
<1>7. ASSUME NEW k \in 1..n
      PROVE  order[k] = O[k] /\ O[k] \in 1..n
  <2>1. O[k] \in 1..n /\ order[k] = P[k] + 1 /\ P[k] = O[k] - 1
    BY <1>2, <1>5
  <2> QED  BY <1>2, <2>1
<1> HIDE DEF order
<1>8. /\ IsASequence(samples) /\ Len(samples) = n
      /\ \A k \in 1..n : /\ samples[k].at = Instant(posted[order[k]].ts)
                         /\ samples[k].import = posted[order[k]].import
                         /\ samples[k].export = posted[order[k]].export
  BY <1>4 DEF StreamOf
<1>9. ASSUME NEW k \in 1..n
      PROVE  /\ samples[k].at = Instant(texts[k].ts)
             /\ samples[k].import = texts[k].import /\ samples[k].export = texts[k].export
             /\ texts[k].ts = UtcText(texts[k].ts.clock)
  <2>1. order[k] = O[k] /\ texts[k] = posted[O[k]] /\ O[k] \in DOMAIN posted
    BY <1>2, <1>7
  <2> QED  BY <1>8, <2>1 DEF WellTimed, InUtcTexts
<1>10. ASSUME NEW k \in 1..n
       PROVE  Steps(samples)[k] = values[k]
  <2>1. Steps(samples)[k] = Coerced(InUtc(samples[k]))
    BY <1>2, <1>8, StepFacts
  <2>2. texts[k].ts = UtcText(texts[k].ts.clock) /\ Instant(texts[k].ts) = texts[k].ts.clock
    BY <1>6, <1>9, UtcTextFacts
  <2>3. samples[k].at = texts[k].ts.clock
    BY <1>9, <2>2
  <2>4. InUtc(samples[k]).ts = texts[k].ts /\ InUtc(samples[k]).import = texts[k].import
        /\ InUtc(samples[k]).export = texts[k].export
    BY <1>9, <2>2, <2>3 DEF InUtc
  <2>5. Coerced(InUtc(samples[k])) = Coerced(texts[k])
    BY <2>4 DEF Coerced
  <2> QED  BY <1>6, <2>1, <2>5
<1>11. Steps(samples) = values
  <2>1. Steps(samples) = [k \in 1..n |-> Steps(samples)[k]]
    BY <1>2, <1>8, StepFacts
  <2>2. values = [k \in 1..n |-> values[k]]
    BY <1>6, SequenceIsFunction
  <2> QED  BY <1>10, <2>1, <2>2
<1> QED  BY <1>9, <1>11 DEF n, samples, texts, values, meters

\* The check of the stream of an untouched row.
LEMMA UntouchedStream ==
  ASSUME NEW s, NEW json, Good(json)
  PROVE  MeterCheck(RowsOf(s, json)) <=>
           WellTimed(json.meters) /\ RoundingCommutes(json)
<1> DEFINE n == Len(json.meters)
           posted == json.meters
           row == RowsOf(s, json)
           samples == SamplesOf(row.meters)
           texts == InTextOrder(posted)
           values == MeterValues(json)
           O == Ranked(1..n, TextPairs(posted))
           import == values[n].import - values[1].import
           export == values[n].export - values[1].export
           imported == Rounded(samples[n].import - samples[1].import)
           exported == Rounded(samples[n].export - samples[1].export)
<1>1. posted \in Seq(Readings)
  BY BodyFields DEF Good
<1>2. /\ n \in Nat /\ DOMAIN posted = 1..n /\ O \in [1..n -> 1..n]
      /\ \A i \in 1..n : \E k \in 1..n : O[k] = i
      /\ \A k \in 1..n : texts[k] = posted[O[k]]
      /\ DOMAIN texts = 1..n
  BY <1>1, TextOrderFacts
<1>3. /\ n >= 2 /\ IsASequence(values) /\ Len(values) = n /\ Len(texts) = n
      /\ \A k \in 1..n : values[k] = Coerced(texts[k])
  BY MeterValuesFacts
<1>4. MeterRowsOf(row.meters, json, n)
  BY MeterRows
<1>5. /\ IsASequence(samples) /\ Len(samples) = n
      /\ \A k, l \in 1..n : k < l => samples[k].at <= samples[l].at
  <2> DEFINE order == [k \in 1..n |-> Ranked(0..(n - 1), InstantPairs(row.meters))[k] + 1]
  <2>1. StreamOf(posted, samples, order, n)
    BY SamplesOfBody
  <2> HIDE DEF order, samples, posted, n
  <2> QED  BY <2>1 DEF StreamOf
<1>6. /\ row.receipt.root = MeterRoot(values)
      /\ row.receipt.summary = Summary(import, export)
      /\ \A f \in {"import", "export", "net"} : row.columns[f] = row.receipt.summary[f]
  <2>1. row.receipt = Receipt(s, json) /\ row.columns = Columns(row.receipt)
    BY RowsFacts
  <2>2. Receipt(s, json).root = MeterRoot(values)
    BY ReceiptFacts
  <2>3. Receipt(s, json).summary = Summary(import, export)
    <3>1. Len(values) = n
      BY <1>3
    <3> QED  BY <3>1 DEF Receipt
  <2>4. \A f \in {"import", "export", "net"} : Columns(row.receipt)[f] = row.receipt.summary[f]
    <3> HIDE DEF row
    <3> QED  BY DEF Columns
  <2> HIDE DEF values, import, export, row
  <2> QED  BY <2>1, <2>2, <2>3, <2>4
<1>7. MeterCheck(row) <=>
        /\ WellNumbered(row.meters)
        /\ MeterRoot(Steps(samples)) = MeterRoot(values)
        /\ EnergySummary(samples) = row.receipt.summary
        /\ \A f \in {"import", "export", "net"} : EnergySummary(samples)[f] = row.columns[f]
  <2>1. MeterCheck(row) <=>
          /\ WellNumbered(row.meters)
          /\ MeterRoot(Steps(samples)) = row.receipt.root
          /\ EnergySummary(samples) = row.receipt.summary
          /\ \A f \in {"import", "export", "net"} : EnergySummary(samples)[f] = row.columns[f]
    BY MeterCheckIs
  <2> HIDE DEF samples, values, row
  <2> QED  BY <1>6, <2>1
<1>8. EnergySummary(samples) = row.receipt.summary <=> imported = import /\ exported = export
  <2>1. EnergySummary(samples) = Summary(imported, exported)
    <3> HIDE DEF samples, n
    <3> QED  BY <1>5 DEF EnergySummary
  <2> HIDE DEF imported, exported, import, export, row, samples
  <2> QED  BY <1>6, <2>1, SummaryFacts
<1>9. MeterCheck(row) <=>
        /\ WellNumbered(row.meters)
        /\ MeterRoot(Steps(samples)) = MeterRoot(values)
        /\ imported = import /\ exported = export
  <2> HIDE DEF imported, exported, import, export, row, samples, values
  <2>1. EnergySummary(samples) = row.receipt.summary =>
          \A f \in {"import", "export", "net"} : EnergySummary(samples)[f] = row.columns[f]
    BY <1>6
  <2> QED  BY <1>7, <1>8, <2>1
<1>10. MeterRoot(Steps(samples)) = MeterRoot(values) => InUtcTexts(posted) /\ OwnSeconds(posted)
  <2> SUFFICES ASSUME MeterRoot(Steps(samples)) = MeterRoot(values)
               PROVE  InUtcTexts(posted) /\ OwnSeconds(posted)
    OBVIOUS
  <2>1. n \in Nat /\ n >= 1
    BY <1>2, <1>3
  <2> HIDE DEF n, samples, values, posted, texts, O
  <2>2. \A k \in 1..n : MeterLeaf(Steps(samples)[k]) = MeterLeaf(values[k])
    BY <1>3, <1>5, <2>1, SameLeaves
  <2>3. ASSUME NEW k \in 1..n
        PROVE  values[k].ts = posted[O[k]].ts
    <3>1. values[k] = Coerced(posted[O[k]])
      BY <1>2, <1>3
    <3> QED  BY <3>1 DEF Coerced
  <2>4. \A k \in 1..n : Steps(samples)[k].ts = UtcText(samples[k].at)
    BY <1>5, <2>1, StepFacts
  <2>5. DOMAIN posted = 1..n /\ \A i \in 1..n : \E k \in 1..n : O[k] = i
    BY <1>2
  <2>6. SameTexts(n, posted, O, values, Steps(samples), samples)
    BY <2>2, <2>3, <2>4, <2>5 DEF SameTexts
  <2>7. InUtcTexts(posted) /\ \A k \in 1..n : posted[O[k]].ts.clock = samples[k].at
    BY <2>6, UtcFromLeaves
  <2>8. n = Len(posted)
    BY DEF n, posted
  <2>9. \A k \in 1..n : posted[Ranked(1..n, TextPairs(posted))[k]].ts.clock = samples[k].at
    BY <2>7 DEF O, n, posted
  <2> QED  BY <1>1, <1>5, <2>7, <2>8, <2>9, SecondsFromLeaves
<1>11. ASSUME InUtcTexts(posted)
       PROVE  WellNumbered(row.meters) <=> OwnClocks(posted)
  <2> DEFINE meters == row.meters
  <2> HIDE DEF n, posted, row
  <2>1. /\ DOMAIN meters = 0..(n - 1) /\ Cardinality(DOMAIN meters) = n
        /\ \A i \in 0..(n - 1) : meters[i].at = Instant(posted[i + 1].ts) /\ posted[i + 1].ts \in Timestamp
    <3> HIDE DEF meters
    <3>1. MeterRowsOf(meters, json, n)
      BY <1>4 DEF meters
    <3>2. \A i \in 0..(n - 1) : meters[i].at = Instant(json.meters[i + 1].ts)
      BY <3>1 DEF MeterRowsOf
    <3>3. \A i \in 0..(n - 1) : json.meters[i + 1].ts \in Timestamp
      BY <3>1 DEF MeterRowsOf
    <3>4. DOMAIN meters = 0..(n - 1) /\ Cardinality(DOMAIN meters) = n
      BY <3>1 DEF MeterRowsOf
    <3> QED  BY <3>2, <3>3, <3>4 DEF posted
  <2>2. ASSUME NEW i \in 0..(n - 1)
        PROVE  meters[i].at = posted[i + 1].ts.clock /\ i + 1 \in 1..n
    <3>1. i + 1 \in 1..n
      BY <1>2
    <3>2. posted[i + 1].ts = UtcText(posted[i + 1].ts.clock)
      BY <1>2, <1>11, <3>1 DEF InUtcTexts
    <3>3. meters[i].at = Instant(posted[i + 1].ts) /\ posted[i + 1].ts \in Timestamp
      BY <2>1
    <3> HIDE DEF meters
    <3>4. Instant(posted[i + 1].ts) = posted[i + 1].ts.clock
      BY <3>2, <3>3, UtcTextFacts
    <3> QED  BY <3>1, <3>3, <3>4
  <2>3. ASSUME NEW i \in 1..n
        PROVE  i - 1 \in 0..(n - 1) /\ meters[i - 1].at = posted[i].ts.clock
    <3>1. i - 1 \in 0..(n - 1) /\ (i - 1) + 1 = i
      BY <1>2
    <3> HIDE DEF meters
    <3> QED  BY <2>2, <3>1
  <2> HIDE DEF meters
  <2>4. \A i \in DOMAIN meters : i < Cardinality(DOMAIN meters)
    BY <1>2, <2>1
  <2>5. ASSUME OwnClocks(posted), NEW i \in DOMAIN meters, NEW j \in DOMAIN meters,
               meters[i].at = meters[j].at
        PROVE  i = j
    <3>1. i \in 0..(n - 1) /\ j \in 0..(n - 1)
      BY <2>1, <2>5
    <3>2. i + 1 \in DOMAIN posted /\ j + 1 \in DOMAIN posted
      BY <1>2, <2>2, <3>1
    <3>3. posted[i + 1].ts.clock = posted[j + 1].ts.clock
      BY <2>2, <2>5, <3>1
    <3> DEFINE x == i + 1
               y == j + 1
    <3>4. x = y
      <4> HIDE DEF x, y
      <4> QED  BY <2>5, <3>2, <3>3 DEF OwnClocks, x, y
    <3> QED  BY <1>2, <3>1, <3>4
  <2>6. ASSUME WellNumbered(meters), NEW i \in DOMAIN posted, NEW j \in DOMAIN posted,
               posted[i].ts.clock = posted[j].ts.clock
        PROVE  i = j
    <3>1. i \in 1..n /\ j \in 1..n
      BY <1>2, <2>6
    <3> DEFINE x == i - 1
               y == j - 1
    <3>2. x \in DOMAIN meters /\ y \in DOMAIN meters /\ meters[x].at = meters[y].at
      BY <2>1, <2>3, <2>6, <3>1
    <3>3. x = y
      <4> HIDE DEF x, y
      <4> QED  BY <2>6, <3>2 DEF WellNumbered
    <3> QED  BY <1>2, <3>1, <3>3
  <2>7. OwnClocks(posted) => WellNumbered(meters)
    BY <2>4, <2>5 DEF WellNumbered
  <2>8. WellNumbered(meters) => OwnClocks(posted)
    BY <2>6 DEF OwnClocks
  <2> QED  BY <2>7, <2>8 DEF meters
<1>12. ASSUME WellTimed(posted)
       PROVE  /\ MeterRoot(Steps(samples)) = MeterRoot(values)
              /\ (imported = import /\ exported = export) <=> RoundingCommutes(json)
  <2>1. /\ Steps(samples) = values
        /\ \A k \in 1..n : samples[k].import = texts[k].import /\ samples[k].export = texts[k].export
    BY <1>12, SameStream
  <2>2. 1 \in 1..n /\ n \in 1..n
    BY <1>2, <1>3
  <2>3. RoundingCommutes(json) <=>
          /\ Rounded(texts[n].import) - Rounded(texts[1].import)
               = Rounded(texts[n].import - texts[1].import)
          /\ Rounded(texts[n].export) - Rounded(texts[1].export)
               = Rounded(texts[n].export - texts[1].export)
    <3>1. Len(texts) = n
      BY <1>3
    <3> QED  BY <3>1 DEF RoundingCommutes
  <2> HIDE DEF n, samples, values, texts
  <2>4. /\ imported = Rounded(texts[n].import - texts[1].import)
        /\ exported = Rounded(texts[n].export - texts[1].export)
    BY <2>1, <2>2
  <2>5. /\ import = Rounded(texts[n].import) - Rounded(texts[1].import)
        /\ export = Rounded(texts[n].export) - Rounded(texts[1].export)
    BY <1>3, <2>2 DEF Coerced
  <2> HIDE DEF imported, exported, import, export
  <2> QED  BY <2>1, <2>3, <2>4, <2>5
<1> HIDE DEF row, samples, values, posted, imported, exported, import, export
<1>13. MeterCheck(row) <=> WellTimed(posted) /\ RoundingCommutes(json)
  BY <1>9, <1>10, <1>11, <1>12 DEF WellTimed
<1> QED  BY <1>13 DEF row, posted

\* Nobody touched the rows of a session: its receipt verifies, and its
\* stream does exactly if its readings came in UTC as isoformat writes them,
\* at instants of their own, none half a second after one at a whole second,
\* and the rounding commutes; the audit agrees with the stream.
THEOREM UntouchedSessionsVerify == Spec => []UntouchedMeterPasses
<1>1. ASSUME CoreInv
      PROVE  UntouchedMeterPasses
  <2> SUFFICES ASSUME Settled, NEW s \in Rows, ~Tampered(stored[s])
               PROVE  LET mvs == stored[s].json.meters
                      IN  /\ ReceiptCheck(stored[s])
                          /\ MeterCheck(stored[s]) <=>
                               /\ \A i \in DOMAIN mvs : mvs[i].ts = UtcText(mvs[i].ts.clock)
                               /\ \A i, j \in DOMAIN mvs : mvs[i].ts.clock = mvs[j].ts.clock => i = j
                               /\ \A i, j \in DOMAIN mvs :
                                    mvs[j].ts.clock = mvs[i].ts.clock + 1 => mvs[i].ts.clock % 2 = 1
                               /\ RoundingCommutes(stored[s].json)
                          /\ AuditCheck(stored[s]) <=> MeterCheck(stored[s])
    BY DEF UntouchedMeterPasses
  <2> DEFINE row == stored[s]
             json == row.json
             mvs == json.meters
  <2>1. RowOK(s, row)
    BY <1>1, SettledFacts DEF Rows, RowsOK
  <2> HIDE DEF row
  <2>2. row = RowsOf(s, json) /\ Good(json) /\ row.receipt.session = s
    BY <2>1, RowFacts DEF row
  <2>3. row.receipt = Receipt(s, json) /\ row.hash = HashReceipt(Receipt(s, json))
        /\ row.columns = Columns(row.receipt)
    BY <2>2, RowsFacts
  <2> HIDE DEF json
  <2>4. ReceiptCheck(row)
    BY <2>3 DEF ReceiptCheck
  <2>5. MeterCheck(row) <=> WellTimed(mvs) /\ RoundingCommutes(json)
    BY <2>2, UntouchedStream
  <2>6. AuditCheck(row) <=> MeterCheck(row)
    BY <2>2, <2>3, <2>4 DEF AuditCheck, json
  <2> QED  BY <2>4, <2>5, <2>6 DEF WellTimed, InUtcTexts, OwnClocks, OwnSeconds, row, json
<1> QED  BY <1>1, CoreInvariance, PTL

-----------------------------------------------------------------------------
(***************************************************************************)
(* The run.  What it stored and closed, as long as nobody touched its      *)
(* sessions, in terms of the tables behind the savepoint.                  *)
(***************************************************************************)
RunRows(p, st) == {s \in Sessions \cap Scope[p.prefix] : st[s] # Absent}
RunDay(p, st) == {s \in RunRows(p, st) : UtcDay(st[s].start) = p.day}
RunRecords(p, st) ==
    {[session |-> s, start |-> st[s].start, hash |-> st[s].hash] : s \in RunDay(p, st)}
RunBatch(p, st) == Normalized(RunRecords(p, st))

\* The V1 rows of the day of the run.
RunAnchors(p, db) == {i \in DOMAIN db : /\ db[i].day = p.day /\ db[i].prefix = p.prefix
                                        /\ db[i].profile = "v1"}

MisfitIds(p) == {s \in Range(p.ids) : s \notin Scope[p.prefix] \/ Nfc[s] # s}

MadeBy(p, s, row, r) ==
    \E k \in 1..r.made : /\ p.ids[k] = s
                         /\ \E session \in p.sessions[s] :
                              /\ row = RowsOf(s, session)
                              /\ r.outside \/ UtcDay(Instant(session.start)) = p.day

\* How far the run is.
HasClosed == {"verifying", "exporting", "reconciling", "done", "mismatch"}
HasVerified == {"exporting", "reconciling", "done", "mismatch"}
HasExported == {"reconciling", "done", "mismatch"}

\* What was stored: the sessions of the loop so far, and under the prefix
\* nothing else that nobody touched.
StoredOK(p, st, r) ==
    /\ r.made \in 0..Len(p.ids)
    /\ r.phase \notin {"none", "persisting"} => r.made = Len(p.ids)
    /\ \A k \in 1..r.made : p.ids[k] \in Scope[p.prefix] /\ p.ids[k] \notin r.touched =>
                              st[p.ids[k]] # Absent
    /\ \A s \in RunRows(p, st) : s \notin r.touched => MadeBy(p, s, st[s], r)
    /\ r.phase \in HasClosed \cup {"closing"} => ~r.outside

\* What was closed: the rows of the day hold the batch.
ClosedOK(p, st, db, r) ==
    r.phase \in HasClosed =>
      /\ RunAnchors(p, db) # {}
      /\ r.touched = {} => \A i \in RunAnchors(p, db) : Holds(db[i], RunBatch(p, st))

VerifiedOK(p, db, r) ==
    r.phase \in HasVerified =>
      /\ r.anchor \in RunAnchors(p, db) /\ r.verdict = "pass"
      /\ r.verified = {m.session : m \in Range(db[r.anchor].members)}

ExportedOK(p, st, r) ==
    (r.phase \in HasExported /\ r.touched = {}) =>
      /\ {line.session : line \in r.exported} = RunRows(p, st)
      /\ \A line \in r.exported : line.match /\ line.audit /\ (MisfitIds(p) = {} => line.batch)

\* How it ended.
EndedOK(p, st, db, r) ==
    r.touched = {} =>
      /\ r.phase = "done" => MisfitIds(p) = {}
      /\ r.phase = "mismatch" => MisfitIds(p) # {}
      /\ r.phase = "failed" =>
           \/ r.outside \/ Range(p.ids) = {} \/ MisfitIds(p) # {}
           \/ \E i \in RunAnchors(p, db) :
                db[i].root # Commitment(RunBatch(p, st), Context(p.day)).root

RunOK(p, st, db, r) ==
    /\ StoredOK(p, st, r) /\ ClosedOK(p, st, db, r) /\ VerifiedOK(p, db, r)
    /\ ExportedOK(p, st, r) /\ EndedOK(p, st, db, r)

RunInv == Plan # Absent =>
            RunOK(Plan, RowsBehind(stored, matrix), TableBehind(anchors, matrix), run)

-----------------------------------------------------------------------------
(***************************************************************************)
(* What the generator makes.                                               *)
(***************************************************************************)
\* Readings of a stream with everything in order.
RisingStream(mvs, n) ==
    /\ n \in Nat /\ n >= 2 /\ mvs \in Seq(Readings) /\ Len(mvs) = n /\ DOMAIN mvs = 1..n
    /\ \A i \in 1..n : /\ mvs[i].ts \in Timestamp /\ mvs[i].ts = UtcText(mvs[i].ts.clock)
                       /\ mvs[i].ts.clock \in Nat /\ Instant(mvs[i].ts) = mvs[i].ts.clock
                       /\ mvs[i].import \in Int /\ mvs[i].import % Sub = 0
                       /\ mvs[i].export \in Int /\ mvs[i].export % Sub = 0
                       /\ mvs[i].energy \in Int /\ mvs[i].energy % Sub = 0
                       /\ mvs[i].energy - (mvs[i].import - mvs[i].export) \in {-Sub, 0, Sub}
    /\ \A i, j \in 1..n : i < j =>
         /\ mvs[i].ts.clock + 2 <= mvs[j].ts.clock
         /\ mvs[i].import <= mvs[j].import /\ mvs[i].export <= mvs[j].export

\* The readings of a generated session are such.
LEMMA GeneratedReadingsRise ==
  ASSUME NEW json, Generated(json)
  PROVE  Good(json) /\ RisingStream(json.meters, Len(json.meters))
<1> DEFINE mvs == json.meters
           n == Len(mvs)
<1>1. Good(json)
  BY DEF Generated, Good
<1>2. /\ mvs \in Seq(Readings) /\ n >= 2
      /\ \A i \in DOMAIN mvs : Missing \notin {mvs[i].import, mvs[i].export}
  BY <1>1, BodyFields DEF Good, Accepted
<1>3. n \in Nat /\ DOMAIN mvs = 1..n /\ mvs \in [1..n -> Readings]
  BY <1>2, LenProperties
<1>4. /\ \A i \in DOMAIN mvs :
           /\ mvs[i].ts = UtcText(mvs[i].ts.clock)
           /\ \A x \in {mvs[i].import, mvs[i].export, mvs[i].energy} : x % Sub = 0
           /\ mvs[i].energy - (mvs[i].import - mvs[i].export) \in {-Sub, 0, Sub}
      /\ \A i, j \in DOMAIN mvs : i < j =>
           /\ mvs[i].ts.clock + 2 <= mvs[j].ts.clock
           /\ mvs[i].import <= mvs[j].import /\ mvs[i].export <= mvs[j].export
  BY DEF Generated
<1> HIDE DEF mvs, n
<1>5. ASSUME NEW i \in 1..n
      PROVE  /\ mvs[i].ts \in Timestamp /\ mvs[i].ts = UtcText(mvs[i].ts.clock)
             /\ mvs[i].ts.clock \in Nat /\ Instant(mvs[i].ts) = mvs[i].ts.clock
             /\ mvs[i].import \in Int /\ mvs[i].export \in Int /\ mvs[i].energy \in Int
  <2>1. mvs[i] \in Readings /\ mvs[i].ts = UtcText(mvs[i].ts.clock)
        /\ Missing \notin {mvs[i].import, mvs[i].export}
    BY <1>2, <1>3, <1>4
  <2>2. mvs[i].ts \in Timestamp /\ mvs[i].import \in Int /\ mvs[i].export \in Int /\ mvs[i].energy \in Int
    BY <2>1 DEF Readings
  <2>3. mvs[i].ts.clock \in Nat /\ Instant(mvs[i].ts) = mvs[i].ts.clock
    BY <2>1, <2>2, UtcTextFacts
  <2> QED  BY <2>1, <2>2, <2>3
<1>6. RisingStream(mvs, n)
  BY <1>2, <1>3, <1>4, <1>5 DEF RisingStream, n
<1> QED  BY <1>1, <1>6 DEF mvs, n

\* They come in the order of their texts.
LEMMA RisingOrder ==
  ASSUME NEW mvs, NEW n, RisingStream(mvs, n)
  PROVE  /\ WellTimed(mvs)
         /\ DOMAIN InTextOrder(mvs) = 1..n
         /\ \A k \in 1..n : InTextOrder(mvs)[k] = mvs[k]
<1> DEFINE R == TextPairs(mvs)
           f == [k \in 1..n |-> k]
<1>1. /\ n \in Nat /\ mvs \in Seq(Readings) /\ Len(mvs) = n /\ DOMAIN mvs = 1..n
      /\ \A i \in 1..n : /\ mvs[i].ts \in Timestamp /\ mvs[i].ts = UtcText(mvs[i].ts.clock)
                         /\ mvs[i].ts.clock \in Nat
      /\ \A i, j \in 1..n : i < j => mvs[i].ts.clock + 2 <= mvs[j].ts.clock
  BY DEF RisingStream
<1>2. InUtcTexts(mvs)
  BY <1>1 DEF InUtcTexts
<1>3. OwnClocks(mvs)
  <2> SUFFICES ASSUME NEW i \in 1..n, NEW j \in 1..n, mvs[i].ts.clock = mvs[j].ts.clock
               PROVE  i = j
    BY <1>1 DEF OwnClocks
  <2>1. ~(i < j) /\ ~(j < i)
    BY <1>1
  <2> QED  BY <1>1, <2>1
<1>9. OwnSeconds(mvs)
  <2> SUFFICES ASSUME NEW i \in 1..n, NEW j \in 1..n, mvs[j].ts.clock = mvs[i].ts.clock + 1
               PROVE  FALSE
    BY <1>1 DEF OwnSeconds
  <2>1. ~(i < j) /\ ~(j < i) /\ i # j
    BY <1>1
  <2> QED  BY <1>1, <2>1
<1>4. /\ Cardinality(1..n) = n /\ TotalOrder(1..n, R)
      /\ InTextOrder(mvs) = [i \in 1..n |-> mvs[Ranked(1..n, R)[i]]]
  BY <1>1, TextArranged
<1>5. IsFiniteSet(1..n)
  <2>1. 1 \in Int /\ n \in Int
    BY <1>1
  <2> QED  BY <2>1, FS_Interval
<1>6. f \in [1..n -> 1..n] /\ \A k \in 1..n : f[k] = k
  OBVIOUS
<1>7. \A i, j \in 1..n : i < j => <<f[i], f[j]>> \in R
  <2> SUFFICES ASSUME NEW i \in 1..n, NEW j \in 1..n, i < j PROVE <<i, j>> \in R
    BY <1>6
  <2>1. TextBefore(mvs[i].ts, mvs[j].ts)
    BY <1>1, UtcOrder
  <2>2. EarlierText(mvs, i, j)
    BY <2>1 DEF EarlierText
  <2> QED  BY <1>1, <2>2, TextPairsAre
<1> HIDE DEF R, f
<1>8. f = Ranked(1..n, R)
  <2> DEFINE D == 1..n
  <2>1. /\ IsFiniteSet(D) /\ TotalOrder(D, R) /\ f \in [1..Cardinality(D) -> D]
        /\ \A i, j \in 1..Cardinality(D) : i < j => <<f[i], f[j]>> \in R
    BY <1>4, <1>5, <1>6, <1>7
  <2> HIDE DEF D
  <2>2. f = Ranked(D, R)
    BY <2>1, ArrangedOnce
  <2> QED  BY <2>2 DEF D
<1> QED  BY <1>2, <1>3, <1>4, <1>6, <1>8, <1>9 DEF WellTimed

\* A number of Sub-ths that is a whole number of steps.
LEMMA WholeSteps ==
  ASSUME NEW x \in Int, x % Sub = 0
  PROVE  /\ Rounded(x) \in Int /\ x = Sub * Rounded(x)
         /\ x >= 0 <=> Rounded(x) >= 0
         /\ x = 0 <=> Rounded(x) = 0
<1> DEFINE z == x \div Sub
<1>1. Sub \in Nat /\ Sub >= 1
  BY ReceiptConstants
<1>2. z \in Int /\ x = Sub * z
  BY <1>1
<1> HIDE DEF z
<1>3. Rounded(x) = z
  BY <1>2, RoundedMultiple
<1>4. z >= 0 => Sub * z >= 0
  BY <1>1, <1>2
<1>5. z < 0 => Sub * z < 0
  <2> SUFFICES ASSUME z < 0 PROVE Sub * z < 0
    OBVIOUS
  <2>1. z <= -1
    BY <1>2
  <2>2. Sub * z <= Sub * (-1)
    BY <1>1, <1>2, <2>1
  <2>3. Sub * (-1) = -Sub
    BY <1>1
  <2>4. Sub * z \in Int
    BY <1>1, <1>2
  <2> QED  BY <1>1, <2>2, <2>3, <2>4
<1>6. z > 0 => Sub * z > 0
  BY <1>1, <1>2
<1>7. Sub * z \in Int /\ Sub * 0 = 0
  BY <1>1, <1>2
<1> QED  BY <1>2, <1>3, <1>4, <1>5, <1>6, <1>7

\* Rounding commutes with differences of whole steps.
LEMMA WholeDifference ==
  ASSUME NEW x \in Int, x % Sub = 0, NEW y \in Int, y % Sub = 0
  PROVE  /\ Rounded(x - y) = Rounded(x) - Rounded(y)
         /\ x - y = Sub * (Rounded(x) - Rounded(y))
<1> DEFINE a == Rounded(x)
           b == Rounded(y)
<1>1. a \in Int /\ b \in Int /\ x = Sub * a /\ y = Sub * b
  BY WholeSteps
<1>2. Sub \in Nat
  BY ReceiptConstants
<1> HIDE DEF a, b
<1>3. x - y = Sub * (a - b) /\ a - b \in Int
  BY <1>1, <1>2
<1>4. Rounded(Sub * (a - b)) = a - b
  BY <1>3, RoundedMultiple
<1> QED  BY <1>3, <1>4 DEF a, b

\* The counters of a generated session differ by what its receipt says, on
\* the readings as on their rounded values.
LEMMA GeneratedSums ==
  ASSUME NEW json, Generated(json)
  PROVE  LET mvs == json.meters
             n == Len(mvs)
             values == MeterValues(json)
             sum == Summary(values[Len(values)].import - values[1].import,
                            values[Len(values)].export - values[1].export)
         IN  /\ EnergySummary(mvs) = sum
             /\ sum.import = Rounded(mvs[n].import) /\ sum.export = Rounded(mvs[n].export)
             /\ RoundingCommutes(json)
             /\ \A k \in 1..n : InTextOrder(mvs)[k] = mvs[k]
             /\ values = [k \in 1..n |-> Coerced(mvs[k])]
<1> DEFINE mvs == json.meters
           n == Len(mvs)
           values == MeterValues(json)
           texts == InTextOrder(mvs)
<1>1. Good(json) /\ RisingStream(mvs, n)
  BY GeneratedReadingsRise
<1>2. /\ IsASequence(values) /\ Len(values) = n /\ n \in Nat /\ n >= 2
      /\ IsASequence(texts) /\ Len(texts) = n
      /\ \A k \in 1..n : values[k] = Coerced(texts[k])
  BY <1>1, MeterValuesFacts
<1>3. \A k \in 1..n : texts[k] = mvs[k]
  BY <1>1, RisingOrder
<1>4. mvs[1].import = 0 /\ mvs[1].export = 0
  BY DEF Generated
<1>5. 1 \in 1..n /\ n \in 1..n
  BY <1>2
<1>6. RoundingCommutes(json) <=>
        /\ Rounded(texts[n].import) - Rounded(texts[1].import)
             = Rounded(texts[n].import - texts[1].import)
        /\ Rounded(texts[n].export) - Rounded(texts[1].export)
             = Rounded(texts[n].export - texts[1].export)
  <2>1. Len(texts) = n
    BY <1>2
  <2> QED  BY <2>1 DEF RoundingCommutes
<1>7. EnergySummary(mvs) = Summary(Rounded(mvs[n].import - mvs[1].import),
                                   Rounded(mvs[n].export - mvs[1].export))
  BY DEF EnergySummary
<1> HIDE DEF mvs, n, values, texts
<1>8. /\ mvs[n].import \in Int /\ mvs[n].import % Sub = 0 /\ mvs[1].import \in Int
      /\ mvs[n].export \in Int /\ mvs[n].export % Sub = 0 /\ mvs[1].export \in Int
      /\ mvs[1].import % Sub = 0 /\ mvs[1].export % Sub = 0
  BY <1>1, <1>5 DEF RisingStream
<1>9. /\ Rounded(mvs[n].import - mvs[1].import) = Rounded(mvs[n].import) - Rounded(mvs[1].import)
      /\ Rounded(mvs[n].export - mvs[1].export) = Rounded(mvs[n].export) - Rounded(mvs[1].export)
  BY <1>8, WholeDifference
<1>10. Rounded(mvs[1].import) = 0 /\ Rounded(mvs[1].export) = 0
  BY <1>4, <1>8, WholeSteps
<1>11. Rounded(mvs[n].import) \in Int /\ Rounded(mvs[n].export) \in Int
  BY <1>8, RoundedInt
<1>12. /\ values[n].import = Rounded(mvs[n].import) /\ values[1].import = Rounded(mvs[1].import)
       /\ values[n].export = Rounded(mvs[n].export) /\ values[1].export = Rounded(mvs[1].export)
  <2>1. values[n] = Coerced(mvs[n]) /\ values[1] = Coerced(mvs[1])
    BY <1>2, <1>3, <1>5
  <2> QED  BY <2>1 DEF Coerced
<1>13. RoundingCommutes(json)
  BY <1>3, <1>5, <1>6, <1>9
<1>14. values = [k \in 1..n |-> Coerced(mvs[k])]
  <2>1. values = [k \in 1..n |-> values[k]]
    BY <1>2, SequenceIsFunction
  <2>2. \A k \in 1..n : values[k] = Coerced(mvs[k])
    BY <1>2, <1>3
  <2> QED  BY <2>1, <2>2
<1> DEFINE import == values[n].import - values[1].import
           export == values[n].export - values[1].export
<1>15. import = Rounded(mvs[n].import) /\ export = Rounded(mvs[n].export)
  BY <1>10, <1>11, <1>12
<1>16. /\ Rounded(mvs[n].import - mvs[1].import) = import
       /\ Rounded(mvs[n].export - mvs[1].export) = export
  BY <1>9, <1>12
<1> HIDE DEF import, export
<1>17. /\ EnergySummary(mvs) = Summary(import, export)
       /\ Summary(import, export).import = Rounded(mvs[n].import)
       /\ Summary(import, export).export = Rounded(mvs[n].export)
  BY <1>7, <1>15, <1>16, SummaryFacts
<1> QED  BY <1>2, <1>3, <1>13, <1>14, <1>17 DEF mvs, n, values, texts, import, export

\* What a run stores passes every check of a session: its receipt, its
\* meter stream, the audit and the audit of the run.
LEMMA GeneratedRow ==
  ASSUME NEW s, NEW json, Generated(json)
  PROVE  LET row == RowsOf(s, json)
         IN  /\ row.json = json /\ row.receipt = Receipt(s, json) /\ row.start = Instant(json.start)
             /\ ReceiptCheck(row) /\ MeterCheck(row) /\ AuditCheck(row) /\ SessionAudit(row)
<1> DEFINE row == RowsOf(s, json)
           r == Receipt(s, json)
           mvs == json.meters
           values == MeterValues(json)
           sum == Summary(values[Len(values)].import - values[1].import,
                          values[Len(values)].export - values[1].export)
           cost == WeightedCost(json, sum.import, ImportComponents(json))
           credit == WeightedCost(json, sum.export, ExportComponents(json))
<1>1. Good(json) /\ RisingStream(mvs, Len(mvs))
  BY GeneratedReadingsRise
<1>2. /\ row.json = json /\ row.receipt = r /\ row.hash = HashReceipt(r)
      /\ row.start = Instant(r.start) /\ row.columns = Columns(r)
  BY <1>1, RowsFacts
<1>3. r.session = s /\ r.start = json.start
  BY <1>1, ReceiptFacts
<1>4. r.summary = sum /\ r.settlement = Settlement(cost, credit)
  BY DEF Receipt
<1>5. EnergySummary(mvs) = sum /\ RoundingCommutes(json)
  BY GeneratedSums
<1>6. WellTimed(mvs)
  BY <1>1, RisingOrder
<1>7. MeterCheck(row)
  BY <1>1, <1>5, <1>6, UntouchedStream
<1> HIDE DEF row, r, sum, cost, credit
<1>8. ReceiptCheck(row)
  BY <1>2 DEF ReceiptCheck
<1>9. AuditCheck(row)
  BY <1>2, <1>3, <1>7, <1>8 DEF AuditCheck, r
<1>10. /\ ImportComponents(json) = json.import_components
       /\ ExportComponents(json) = json.export_components
  BY DEF Generated, ImportComponents, ExportComponents
<1>11. r.settlement.net = WeightedCost(json, sum.import, json.import_components)
                            - WeightedCost(json, sum.export, json.export_components)
  <2>1. r.settlement.net = cost - credit
    BY <1>4 DEF Settlement
  <2> QED  BY <1>10, <2>1 DEF cost, credit
<1>12. SessionAudit(row)
  <2>1. row.receipt.summary = sum
    BY <1>2, <1>4
  <2>2. EnergySummary(row.json.meters) = sum
    BY <1>2, <1>5
  <2> QED  BY <1>2, <1>11, <2>1, <2>2 DEF SessionAudit
<1> QED  BY <1>2, <1>3, <1>7, <1>8, <1>9, <1>12 DEF row, r

\* The kinds of movement.
LEMMA MovesByType ==
  ASSUME NEW session, session.type \in SessionTypes, NEW a \in Int, NEW b \in Int, a >= 0, b >= 0,
         EnergySummary(session.meters) = Summary(a, b),
         a = 0 <=> session.type = "discharge_only", b = 0 <=> session.type = "charge_only"
  PROVE  MovesAsTyped(session)
<1> DEFINE sum == Summary(a, b)
<1>1. sum.import = a /\ sum.export = b
  BY SummaryFacts
<1>2. MovesAsTyped(session) <=>
        CASE session.type = "charge_only" -> sum.import > 0 /\ sum.export = 0
          [] session.type = "discharge_only" -> sum.import = 0 /\ sum.export > 0
          [] session.type = "bidirectional" -> sum.import > 0 /\ sum.export > 0
  BY DEF MovesAsTyped
<1> HIDE DEF sum
<1>3. CASE session.type = "charge_only"
  BY <1>1, <1>2, <1>3
<1>4. CASE session.type = "discharge_only"
  BY <1>1, <1>2, <1>4
<1>5. CASE session.type = "bidirectional"
  BY <1>1, <1>2, <1>5
<1> QED  BY <1>3, <1>4, <1>5 DEF SessionTypes

\* And it is valid.
LEMMA GeneratedIsValid ==
  ASSUME NEW s, NEW json, Generated(json)
  PROVE  Valid(json, Receipt(s, json))
<1> DEFINE mvs == json.meters
           n == Len(mvs)
           values == MeterValues(json)
           import == values[Len(values)].import - values[1].import
           export == values[Len(values)].export - values[1].export
           sum == Summary(import, export)
           r == Receipt(s, json)
<1>1. Good(json) /\ RisingStream(mvs, n)
  BY GeneratedReadingsRise
<1>2. /\ EnergySummary(mvs) = sum
      /\ sum.import = Rounded(mvs[n].import) /\ sum.export = Rounded(mvs[n].export)
      /\ \A k \in 1..n : InTextOrder(mvs)[k] = mvs[k]
      /\ values = [k \in 1..n |-> Coerced(mvs[k])]
  BY GeneratedSums
<1>3. sum.import = import /\ sum.export = export
  BY SummaryFacts
<1>4. r.root = MeterRoot(values)
  BY <1>1, ReceiptFacts
<1>5. /\ json.type \in SessionTypes
      /\ json.start = mvs[1].ts /\ json.end = mvs[n].ts
      /\ mvs[1].import = 0 /\ mvs[1].export = 0
      /\ mvs[n].import = 0 <=> json.type = "discharge_only"
      /\ mvs[n].export = 0 <=> json.type = "charge_only"
  BY DEF Generated
<1> HIDE DEF n, values, import, export, sum, r
<1>6. /\ n \in Nat /\ n >= 2 /\ DOMAIN mvs = 1..n
      /\ \A i \in 1..n : /\ mvs[i].ts.clock \in Nat /\ Instant(mvs[i].ts) = mvs[i].ts.clock
                         /\ mvs[i].import \in Int /\ mvs[i].import % Sub = 0
                         /\ mvs[i].export \in Int /\ mvs[i].export % Sub = 0
                         /\ mvs[i].energy \in Int /\ mvs[i].energy % Sub = 0
                         /\ mvs[i].energy - (mvs[i].import - mvs[i].export) \in {-Sub, 0, Sub}
      /\ \A i, j \in 1..n : i < j =>
           /\ mvs[i].ts.clock + 2 <= mvs[j].ts.clock
           /\ mvs[i].import <= mvs[j].import /\ mvs[i].export <= mvs[j].export
  BY <1>1 DEF RisingStream
<1>7. 1 \in 1..n /\ n \in 1..n /\ 1 < n
  BY <1>6
<1>8. Instant(json.start) < Instant(json.end)
  BY <1>5, <1>6, <1>7
<1>9. ASSUME NEW i \in 1..n, NEW j \in 1..n, i <= j
      PROVE  /\ Instant(mvs[i].ts) <= Instant(mvs[j].ts)
             /\ mvs[i].import <= mvs[j].import /\ mvs[i].export <= mvs[j].export
  <2>1. CASE i = j
    <3>1. /\ Instant(mvs[i].ts) = mvs[i].ts.clock /\ mvs[i].ts.clock \in Nat
          /\ mvs[i].import \in Int /\ mvs[i].export \in Int
      BY <1>6, Zenon
    <3> QED  BY <2>1, <3>1
  <2>2. CASE i < j
    <3>1. mvs[i].ts.clock < mvs[j].ts.clock /\ mvs[i].ts.clock \in Nat /\ mvs[j].ts.clock \in Nat
      BY <1>6, <2>2
    <3>2. Instant(mvs[i].ts) = mvs[i].ts.clock /\ Instant(mvs[j].ts) = mvs[j].ts.clock
      BY <1>6
    <3>3. mvs[i].import <= mvs[j].import /\ mvs[i].export <= mvs[j].export
      BY <1>6, <2>2
    <3>4. Instant(mvs[i].ts) <= Instant(mvs[j].ts)
      <4> DEFINE x == mvs[i].ts.clock
                 y == mvs[j].ts.clock
      <4>1. x < y /\ x \in Nat /\ y \in Nat
        BY <3>1
      <4> HIDE DEF x, y
      <4>2. x <= y
        BY <4>1
      <4> QED  BY <3>2, <4>2 DEF x, y
    <3> QED  BY <3>3, <3>4
  <2> QED  BY <1>6, <1>9, <2>1, <2>2
<1>10. ASSUME NEW i \in 1..n
       PROVE  mvs[i].import >= 0 /\ mvs[i].export >= 0
  <2>1. 1 <= i
    OBVIOUS
  <2> QED  BY <1>5, <1>6, <1>7, <1>9, <2>1
<1>11. ASSUME NEW i \in 1..n
       PROVE  EnergyIsClose(mvs[i])
  <2> DEFINE mv == mvs[i]
             a == Rounded(mv.import)
             b == Rounded(mv.export)
             e == Rounded(mv.energy)
  <2>1. /\ mv.import \in Int /\ mv.import % Sub = 0 /\ mv.export \in Int /\ mv.export % Sub = 0
        /\ mv.energy \in Int /\ mv.energy % Sub = 0
        /\ mv.energy - (mv.import - mv.export) \in {-Sub, 0, Sub}
    BY <1>6
  <2>2. /\ Rounded(mv.import - mv.export) = a - b /\ mv.import - mv.export = Sub * (a - b)
        /\ a \in Int /\ b \in Int /\ e \in Int /\ mv.energy = Sub * e
    BY <2>1, WholeSteps, WholeDifference
  <2> HIDE DEF a, b, e, mv
  <2>3. Sub \in Nat /\ Sub >= 1
    BY ReceiptConstants
  <2>4. Sub * (e - (a - b)) \in {-Sub, 0, Sub}
    <3>1. Sub * (e - (a - b)) = Sub * e - Sub * (a - b)
      BY <2>2, <2>3
    <3> QED  BY <2>1, <2>2, <3>1
  <2> DEFINE d == e - (a - b)
  <2>5. d \in Int
    BY <2>2
  <2>6. d \in {-1, 0, 1}
    <3> HIDE DEF d
    <3>1. Sub * d \in {-Sub, 0, Sub}
      BY <2>4 DEF d
    <3>2. d >= 2 => Sub * d >= Sub * 2
      BY <2>3, <2>5
    <3>3. d <= -2 => Sub * d <= Sub * (-2)
      BY <2>3, <2>5
    <3>4. Sub * 2 = Sub + Sub /\ Sub * (-2) = -(Sub + Sub) /\ Sub * d \in Int
      BY <2>3, <2>5
    <3>5. ~(d >= 2) /\ ~(d <= -2)
      BY <2>3, <3>1, <3>2, <3>3, <3>4
    <3> QED  BY <2>5, <3>5
  <2>7. Rounded(mv.import - mv.export) - Rounded(mv.energy) \in {-1, 0, 1}
    BY <2>2, <2>6 DEF e
  <2> QED  BY <2>7 DEF EnergyIsClose, mv
<1>12. MovesAsTyped(json)
  <2>1. /\ mvs[n].import \in Int /\ mvs[n].import % Sub = 0 /\ mvs[n].import >= 0
        /\ mvs[n].export \in Int /\ mvs[n].export % Sub = 0 /\ mvs[n].export >= 0
    BY <1>6, <1>7, <1>10
  <2>2. /\ import = Rounded(mvs[n].import) /\ export = Rounded(mvs[n].export)
    BY <1>2, <1>3
  <2>3. /\ import \in Int /\ import >= 0 /\ (import = 0 <=> json.type = "discharge_only")
    BY <1>5, <2>1, <2>2, WholeSteps
  <2>4. /\ export \in Int /\ export >= 0 /\ (export = 0 <=> json.type = "charge_only")
    BY <1>5, <2>1, <2>2, WholeSteps
  <2>5. EnergySummary(json.meters) = Summary(import, export)
    BY <1>2 DEF sum
  <2> QED  BY <1>5, <2>3, <2>4, <2>5, MovesByType
<1>13. MeterRoot([i \in DOMAIN mvs |-> Coerced(InTextOrder(mvs)[i])]) = r.root
  <2>1. [i \in DOMAIN mvs |-> Coerced(InTextOrder(mvs)[i])] = values
    BY <1>2, <1>6
  <2> QED  BY <1>4, <2>1
<1> QED  BY <1>6, <1>8, <1>9, <1>10, <1>11, <1>12, <1>13 DEF Valid, r

-----------------------------------------------------------------------------
(***************************************************************************)
(* The steps of the run and of the others.                                 *)
(***************************************************************************)
\* What a run may be asked for.
PlanOK(p) ==
    /\ p.day \in Int /\ p.ids \in Seq(Sessions) /\ Len(p.ids) \in Nat
    /\ Range(p.ids) = {p.ids[k] : k \in 1..Len(p.ids)}
    /\ \A k \in 1..Len(p.ids) : p.ids[k] \in Sessions
    /\ \A s \in Range(p.ids) : s \in Sessions /\ \A session \in p.sessions[s] : Generated(session)

\* What every workload asks for.
LEMMA PlanFacts ==
  ASSUME CoreInv, Plan # Absent
  PROVE  PlanOK(Plan) /\ Requested = Range(Plan.ids) /\ Unfit = MisfitIds(Plan)
<1> DEFINE p == Plan
<1>1. /\ p.day \in Int /\ p.ids \in Seq(Sessions)
      /\ \A s \in Range(p.ids) : \A session \in p.sessions[s] : Generated(session)
  BY WorkAssumption DEF CoreInv, Plan, Allowed
<1>2. Requested = Range(p.ids) /\ Unfit = MisfitIds(p)
  BY DEF Requested, Unfit, MisfitIds
<1> HIDE DEF p
<1>3. Len(p.ids) \in Nat /\ p.ids \in [1..Len(p.ids) -> Sessions]
  BY <1>1, LenProperties
<1>4. Range(p.ids) = {p.ids[k] : k \in 1..Len(p.ids)}
  BY <1>3 DEF Range
<1>5. \A s \in Range(p.ids) : s \in Sessions
  BY <1>3, <1>4
<1> QED  BY <1>1, <1>2, <1>3, <1>4, <1>5 DEF PlanOK, p

\* The tables of the run are those of closing.
LEMMA RunTables ==
  ASSUME NEW p
  PROVE  /\ RunRows(p, stored) = Rows \cap Scope[p.prefix]
         /\ RunDay(p, stored) = Eligible(p.day, p.prefix)
         /\ RunRecords(p, stored) = Records(p.day, p.prefix)
         /\ RunBatch(p, stored) = Normalized(Records(p.day, p.prefix))
         /\ RunAnchors(p, anchors) = ProfiledIds(p.day, p.prefix)
<1>1. RunRows(p, stored) = Rows \cap Scope[p.prefix]
  BY DEF RunRows, Rows
<1>2. RunDay(p, stored) = Eligible(p.day, p.prefix)
  BY <1>1 DEF RunDay, Eligible
<1>3. RunRecords(p, stored) = Records(p.day, p.prefix)
  BY <1>2 DEF RunRecords, Records, Record
<1>4. RunAnchors(p, anchors) = ProfiledIds(p.day, p.prefix)
  BY DEF RunAnchors, ProfiledIds
<1> QED  BY <1>1, <1>2, <1>3, <1>4 DEF RunBatch

\* They depend on the rows under the prefix only.
LEMMA SameRunRows ==
  ASSUME NEW p, NEW st, NEW st2, \A s \in Sessions \cap Scope[p.prefix] : st2[s] = st[s]
  PROVE  RunRows(p, st2) = RunRows(p, st) /\ RunBatch(p, st2) = RunBatch(p, st)
<1>1. RunRows(p, st2) = RunRows(p, st) /\ \A s \in RunRows(p, st) : st2[s] = st[s]
  BY DEF RunRows
<1>2. RunDay(p, st2) = RunDay(p, st) /\ \A s \in RunDay(p, st) : st2[s] = st[s]
  BY <1>1 DEF RunDay
<1>3. RunRecords(p, st2) = RunRecords(p, st)
  BY <1>2 DEF RunRecords
<1> QED  BY <1>1, <1>3 DEF RunBatch

\* What happens beside the run: it touches the rows that it changes, and a
\* day that is closed stays as it is.
LEMMA BesideRun ==
  ASSUME NEW p, PlanOK(p), NEW st, NEW db, NEW r, RunTyped(r), RunOK(p, st, db, r),
         NEW st2, NEW db2, NEW r2, NEW more, r2 = [r EXCEPT !.touched = @ \cup more],
         \A s \in Sessions \cap Scope[p.prefix] : s \notin more => st2[s] = st[s],
         DOMAIN db \subseteq DOMAIN db2, \A i \in DOMAIN db : db2[i] = db[i],
         RunAnchors(p, db) # {} => RunAnchors(p, db2) = RunAnchors(p, db)
  PROVE  RunOK(p, st2, db2, r2)
<1>1. /\ r2.phase = r.phase /\ r2.made = r.made /\ r2.outside = r.outside /\ r2.anchor = r.anchor
      /\ r2.verdict = r.verdict /\ r2.verified = r.verified /\ r2.exported = r.exported
      /\ r2.touched = r.touched \cup more
  BY DEF RunTyped
<1>2. \A i \in RunAnchors(p, db) : i \in RunAnchors(p, db2) /\ db2[i] = db[i]
  BY DEF RunAnchors
<1>3. ASSUME r2.touched = {}
      PROVE  /\ r.touched = {} /\ RunRows(p, st2) = RunRows(p, st)
             /\ RunBatch(p, st2) = RunBatch(p, st)
  <2>1. r.touched = {} /\ more = {}
    BY <1>1, <1>3
  <2> QED  BY <2>1, SameRunRows
<1>4. StoredOK(p, st2, r2)
  <2>1. ASSUME NEW k \in 1..r2.made, p.ids[k] \in Scope[p.prefix], p.ids[k] \notin r2.touched,
               p.ids[k] \in Sessions
        PROVE  st2[p.ids[k]] # Absent
    BY <1>1, <2>1 DEF RunOK, StoredOK
  <2>2. ASSUME NEW s \in RunRows(p, st2), s \notin r2.touched
        PROVE  MadeBy(p, s, st2[s], r2)
    <3>1. s \in RunRows(p, st) /\ s \notin r.touched /\ st2[s] = st[s]
      BY <1>1, <2>2 DEF RunRows
    <3>2. MadeBy(p, s, st[s], r)
      BY <3>1 DEF RunOK, StoredOK
    <3> QED  BY <1>1, <3>1, <3>2 DEF MadeBy
  <2>3. ASSUME NEW k \in 1..r2.made PROVE p.ids[k] \in Sessions
    BY <1>1 DEF RunOK, StoredOK, PlanOK
  <2> QED  BY <1>1, <2>1, <2>2, <2>3 DEF RunOK, StoredOK
<1>5. ClosedOK(p, st2, db2, r2)
  <2> SUFFICES ASSUME r2.phase \in HasClosed
               PROVE  /\ RunAnchors(p, db2) # {}
                      /\ r2.touched = {} =>
                           \A i \in RunAnchors(p, db2) : Holds(db2[i], RunBatch(p, st2))
    BY DEF ClosedOK
  <2>1. RunAnchors(p, db) # {} /\ RunAnchors(p, db2) = RunAnchors(p, db)
    BY <1>1 DEF RunOK, ClosedOK
  <2>2. ASSUME r2.touched = {}, NEW i \in RunAnchors(p, db2)
        PROVE  Holds(db2[i], RunBatch(p, st2))
    <3>1. Holds(db[i], RunBatch(p, st))
      BY <1>1, <1>3, <2>1, <2>2 DEF RunOK, ClosedOK
    <3> QED  BY <1>2, <1>3, <2>1, <2>2, <3>1
  <2> QED  BY <2>1, <2>2
<1>6. VerifiedOK(p, db2, r2)
  BY <1>1, <1>2 DEF RunOK, VerifiedOK
<1>7. ExportedOK(p, st2, r2)
  BY <1>1, <1>3 DEF RunOK, ExportedOK
<1>8. EndedOK(p, st2, db2, r2)
  BY <1>1, <1>2, <1>3 DEF RunOK, EndedOK
<1> QED  BY <1>4, <1>5, <1>6, <1>7, <1>8 DEF RunOK

\* What is under the prefix once the run has stored its sessions, and as
\* long as nobody touched them.
RunContents(p, st) ==
    /\ RunDay(p, st) = RunRows(p, st) /\ RunRows(p, st) \subseteq Range(p.ids)
    /\ \A s \in RunRows(p, st) : \E session : Generated(session) /\ st[s] = RowsOf(s, session)
    /\ MisfitIds(p) = {} => /\ RunRows(p, st) = Range(p.ids)
                            /\ \A s \in RunRows(p, st) : Nfc[s] = s

\* So it is when the sessions are stored.
LEMMA RunContentsOK ==
  ASSUME NEW p, PlanOK(p), NEW st, NEW r, StoredOK(p, st, r),
         r.touched = {}, ~r.outside, r.made = Len(p.ids)
  PROVE  RunContents(p, st)
<1>1. ASSUME NEW s \in RunRows(p, st)
      PROVE  /\ s \in Range(p.ids) /\ UtcDay(st[s].start) = p.day
             /\ \E session : Generated(session) /\ st[s] = RowsOf(s, session)
  <2>1. MadeBy(p, s, st[s], r)
    BY DEF StoredOK
  <2>2. PICK k \in 1..r.made : p.ids[k] = s /\ \E session \in p.sessions[s] :
                                 st[s] = RowsOf(s, session) /\ UtcDay(Instant(session.start)) = p.day
    BY <2>1 DEF MadeBy
  <2>3. PICK session \in p.sessions[s] :
          st[s] = RowsOf(s, session) /\ UtcDay(Instant(session.start)) = p.day
    BY <2>2
  <2>4. s \in Range(p.ids)
    BY <2>2 DEF PlanOK
  <2>5. Generated(session)
    BY <2>3, <2>4 DEF PlanOK
  <2>6. st[s].start = Instant(session.start)
    BY <2>3, <2>5, GeneratedRow
  <2> QED  BY <2>3, <2>4, <2>5, <2>6
<1>2. RunDay(p, st) = RunRows(p, st)
  BY <1>1 DEF RunDay
<1>3. ASSUME MisfitIds(p) = {}
      PROVE  RunRows(p, st) = Range(p.ids) /\ \A s \in Range(p.ids) : Nfc[s] = s
  <2>1. \A s \in Range(p.ids) : s \in Scope[p.prefix] /\ Nfc[s] = s
    BY <1>3 DEF MisfitIds
  <2>2. ASSUME NEW s \in Range(p.ids)
        PROVE  s \in RunRows(p, st)
    <3>1. PICK k \in 1..Len(p.ids) : s = p.ids[k]
      BY DEF PlanOK
    <3>2. st[s] # Absent
      BY <2>1, <3>1 DEF StoredOK
    <3> QED  BY <2>1, <3>2 DEF RunRows, PlanOK
  <2> QED  BY <1>1, <2>1, <2>2
<1> QED  BY <1>1, <1>2, <1>3 DEF RunContents

\* What the answers of closing say of the rows of the day.
LEMMA ClosingCases ==
  ASSUME NEW day, NEW p
  PROVE  LET S == Normalized(Records(day, p))
             P == ProfiledIds(day, p)
             Same(i) == anchors[i].root = Commitment(S, Context(day)).root
         IN  /\ Closing(day, p) = "raises" =>
                  \/ ~Buildable(Records(day, p))
                  \/ \E i \in P : ~Same(i)
                  \/ \E r \in S : r.session \notin Rows
             /\ Closing(day, p) = "closed" => P # {} /\ \A i \in P : Same(i)
             /\ Closing(day, p) = "inserts" => P = {}
<1> DEFINE Q == Records(day, p)
           S == Normalized(Q)
           B == Buildable(Q)
           P == ProfiledIds(day, p)
           AllSame == \A i \in P : anchors[i].root = Commitment(S, Context(day)).root
           Found == \A r \in S : r.session \in Rows
<1>1. Closing(day, p) = CASE ~B -> "raises"
                          [] B /\ P # {} -> IF AllSame THEN "closed" ELSE "raises"
                          [] B /\ P = {} -> IF Found THEN "inserts" ELSE "raises"
  BY DEF Closing
<1> HIDE DEF B, P, AllSame, Found
<1>2. /\ Closing(day, p) = "raises" => ~B \/ ~AllSame \/ ~Found
      /\ Closing(day, p) = "closed" => P # {} /\ AllSame
      /\ Closing(day, p) = "inserts" => P = {}
  BY <1>1
<1> QED  BY <1>2 DEF B, P, AllSame, Found, S, Q

\* A V1 row with the root of a set of records holds them.
LEMMA HeldByRoot ==
  ASSUME NEW a, AnchorOK(a), a.profile = "v1", NEW S, RecordSet(S),
         a.root = Commitment(S, Context(a.day)).root
  PROVE  Holds(a, S)
<1>1. PICK T : Holds(a, T)
  <2>1. PICK T : RowOf(a, T)
    BY DEF AnchorOK
  <2>2. Holds(a, T)
    BY <2>1 DEF RowOf, ListsHashes
  <2> QED  BY <2>2
<1>2. Commitment(T, Context(a.day)).root = Commitment(S, Context(a.day)).root
  BY <1>1, HoldsFacts
<1>3. RecordSet(T) /\ T # {}
  BY <1>1 DEF Holds, SnapshotSet
<1>4. T = S
  BY <1>2, <1>3, CommitmentInjective
<1> QED  BY <1>1, <1>4

\* The members of a row that holds the batch of the run are its sessions in
\* their normal form.
LEMMA BatchMembers ==
  ASSUME NEW p, NEW st, NEW a, Holds(a, RunBatch(p, st))
  PROVE  /\ {m.session : m \in Range(a.members)} = {Nfc[s] : s \in RunDay(p, st)}
         /\ a.members # <<>> /\ Len(a.members) = a.count /\ AnchorMatches(a)
<1> DEFINE S == RunBatch(p, st)
           Rec(s) == [session |-> s, start |-> st[s].start, hash |-> st[s].hash]
<1>1. Lists(a, S) /\ MemberRecords(a) = S
  BY HoldsFacts
<1>2. S = {[r EXCEPT !.session = Nfc[r.session]] : r \in {Rec(s) : s \in RunDay(p, st)}}
  BY DEF RunBatch, RunRecords, Normalized
<1>3. {r.session : r \in S} = {Nfc[s] : s \in RunDay(p, st)}
  <2>1. \A s : [Rec(s) EXCEPT !.session = Nfc[Rec(s).session]].session = Nfc[s]
    OBVIOUS
  <2> HIDE DEF Rec
  <2> DEFINE f(r) == [r EXCEPT !.session = Nfc[r.session]]
  <2>2. \A s : f(Rec(s)).session = Nfc[s]
    BY <2>1
  <2>3. S = {f(r) : r \in {Rec(s) : s \in RunDay(p, st)}}
    BY <1>2
  <2> HIDE DEF f, S
  <2> QED  BY <2>2, <2>3
<1>4. {m.session : m \in Range(a.members)} = {r.session : r \in MemberRecords(a)}
  <2> DEFINE Back(m) == [session |-> m.session, start |-> m.start, hash |-> m.hash]
  <2>1. MemberRecords(a) = {Back(m) : m \in Range(a.members)} /\ \A m : Back(m).session = m.session
    BY DEF MemberRecords
  <2> HIDE DEF Back
  <2> QED  BY <2>1
<1>5. Len(a.members) = a.count /\ Len(a.members) >= 1 /\ Len(a.members) \in Nat
  BY <1>1 DEF Lists
<1>6. a.members # <<>>
  BY <1>5
<1>7. AnchorMatches(a)
  BY ProfiledVerifies
<1> HIDE DEF S
<1> QED  BY <1>1, <1>3, <1>4, <1>5, <1>6, <1>7

\* verify_day reads a V1 row if there is one.
LEMMA FoundProfiled ==
  ASSUME NEW p, NEW db, IsASequence(db), RunAnchors(p, db) # {}
  PROVE  LET id == FindAnchor(db, p.day, p.prefix)
         IN  id \in RunAnchors(p, db) /\ id # 0
<1> DEFINE rows == {i \in DOMAIN db : db[i].day = p.day /\ db[i].prefix = p.prefix}
           profiled == {i \in rows : db[i].profile = "v1"}
           S == RunAnchors(p, db)
<1>1. profiled = S
  BY DEF RunAnchors
<1>2. FindAnchor(db, p.day, p.prefix) = Newest(IF profiled # {} THEN profiled ELSE rows)
  BY DEF FindAnchor
<1> HIDE DEF profiled, rows
<1>3. FindAnchor(db, p.day, p.prefix) = Newest(S)
  BY <1>1, <1>2
<1>4. Len(db) \in Nat /\ DOMAIN db = 1..Len(db)
  BY SequenceIsFunction
<1>5. S \in SUBSET (1..Len(db)) /\ S # {}
  BY <1>4 DEF RunAnchors
<1> HIDE DEF S
<1>6. Newest(S) \in S
  BY <1>4, <1>5, NewestFacts
<1>7. Newest(S) # 0
  BY <1>4, <1>5, <1>6
<1> QED  BY <1>3, <1>6, <1>7 DEF S

\* The batch of a run can be closed if it has sessions and they fit.
LEMMA RunBuildable ==
  ASSUME NEW p, RowsOK(stored), RunContents(p, stored), MisfitIds(p) = {}, Range(p.ids) # {}
  PROVE  /\ Buildable(Records(p.day, p.prefix))
         /\ \A r \in Normalized(Records(p.day, p.prefix)) : r.session \in Rows
<1> DEFINE E == Eligible(p.day, p.prefix)
           Q == Records(p.day, p.prefix)
<1>1. /\ E = Range(p.ids) /\ E \subseteq Rows /\ \A s \in E : Nfc[s] = s
  BY RunTables DEF RunContents
<1>2. Q = {Record(s) : s \in E} /\ \A s : Record(s).session = s
  BY DEF Records, Record
<1> HIDE DEF E, Q
<1>3. Q # {}
  BY <1>1, <1>2
<1>4. ASSUME NEW q \in Q, NEW r \in Q, Nfc[q.session] = Nfc[r.session]
      PROVE  q = r
  <2>1. PICK s \in E : q = Record(s)
    BY <1>2
  <2>2. PICK t \in E : r = Record(t)
    BY <1>2
  <2>3. q.session = s /\ r.session = t
    BY <1>2, <2>1, <2>2
  <2>4. s = t
    BY <1>1, <1>4, <2>3
  <2> QED  BY <2>1, <2>2, <2>4
<1>5. Buildable(Q)
  BY <1>3, <1>4 DEF Buildable
<1>6. RecordSet(Q) /\ \A r \in Q : r.session \in Sessions
  BY RecordFacts DEF Q
<1>7. ASSUME NEW r \in Normalized(Q)
      PROVE  r.session \in Rows
  <2>1. PICK q \in Q : r = InNormalForm(q)
    BY <1>5, <1>6, NormalizedFacts
  <2>2. r.session = Nfc[q.session]
    BY <1>5, <1>6, <2>1, NormalizedFacts
  <2>3. PICK s \in E : q = Record(s)
    BY <1>2
  <2> QED  BY <1>1, <1>2, <2>2, <2>3
<1> QED  BY <1>5, <1>7 DEF Q

\* A run closes its day, or stops for a reason.
LEMMA RunCloses ==
  ASSUME NEW p, PlanOK(p), RowsOK(stored), AnchorsOK(anchors),
         NEW r, RunTyped(r), RunOK(p, stored, anchors, r), r.phase = "closing",
         NEW db2, db2 = IF Closing(p.day, p.prefix) = "inserts"
                        THEN Inserted(p.day, p.prefix) ELSE anchors,
         NEW r2, r2 = [r EXCEPT !.phase = IF Closing(p.day, p.prefix) = "raises"
                                          THEN "failed" ELSE "verifying"]
  PROVE  RunOK(p, stored, db2, r2)
<1> DEFINE Q == Records(p.day, p.prefix)
           S == Normalized(Q)
           P == ProfiledIds(p.day, p.prefix)
           Same(i) == anchors[i].root = Commitment(S, Context(p.day)).root
           phase == IF Closing(p.day, p.prefix) = "raises" THEN "failed" ELSE "verifying"
<1>1. /\ Closing(p.day, p.prefix) = "raises" =>
           ~Buildable(Q) \/ (\E i \in P : ~Same(i)) \/ (\E x \in S : x.session \notin Rows)
      /\ Closing(p.day, p.prefix) = "closed" => P # {} /\ \A i \in P : Same(i)
      /\ Closing(p.day, p.prefix) = "inserts" => P = {}
  BY ClosingCases
<1>2. RunBatch(p, stored) = S /\ RunAnchors(p, anchors) = P
  BY RunTables
<1>3. p.day \in Int
  BY DEF PlanOK
<1>4. StoredOK(p, stored, r) /\ ~r.outside /\ r.made = Len(p.ids)
  BY DEF RunOK, StoredOK
<1>5. /\ r2.phase = phase /\ r2.made = r.made /\ r2.outside = r.outside /\ r2.touched = r.touched
  BY DEF RunTyped
<1>6. phase \in {"failed", "verifying"}
  OBVIOUS
<1>7. StoredOK(p, stored, r2)
  <2>1. \A s, row : MadeBy(p, s, row, r) => MadeBy(p, s, row, r2)
    BY <1>5 DEF MadeBy
  <2> HIDE DEF phase
  <2> QED  BY <1>4, <1>5, <1>6, <2>1 DEF StoredOK
<1>8. CASE Closing(p.day, p.prefix) = "raises"
  <2>1. phase = "failed" /\ db2 = anchors
    BY <1>8
  <2> HIDE DEF phase
  <2>2. ASSUME r2.touched = {}
        PROVE  \/ Range(p.ids) = {} \/ MisfitIds(p) # {}
               \/ \E i \in RunAnchors(p, anchors) :
                    anchors[i].root # Commitment(RunBatch(p, stored), Context(p.day)).root
    <3> SUFFICES ASSUME Range(p.ids) # {}, MisfitIds(p) = {}
                 PROVE  \E i \in P : ~Same(i)
      BY <1>2
    <3>1. RunContents(p, stored)
      BY <1>4, <1>5, <2>2, RunContentsOK
    <3>2. Buildable(Q) /\ \A x \in S : x.session \in Rows
      BY <3>1, RunBuildable
    <3> HIDE DEF P, Same, Q, S
    <3> QED  BY <1>1, <1>8, <3>2
  <2>3. EndedOK(p, stored, db2, r2)
    BY <1>5, <2>1, <2>2 DEF EndedOK
  <2>4. ClosedOK(p, stored, db2, r2) /\ VerifiedOK(p, db2, r2) /\ ExportedOK(p, stored, r2)
    BY <1>5, <2>1 DEF ClosedOK, VerifiedOK, ExportedOK, HasClosed, HasVerified, HasExported
  <2> QED  BY <1>7, <2>3, <2>4 DEF RunOK
<1>9. CASE Closing(p.day, p.prefix) # "raises"
  <2>1. phase = "verifying"
    BY <1>9
  <2> HIDE DEF phase
  <2>2. EndedOK(p, stored, db2, r2) /\ VerifiedOK(p, db2, r2) /\ ExportedOK(p, stored, r2)
    BY <1>5, <2>1 DEF EndedOK, VerifiedOK, ExportedOK, HasVerified, HasExported
  <2>3. RunAnchors(p, db2) # {} /\ \A i \in RunAnchors(p, db2) : Holds(db2[i], S)
    <3> DEFINE a == ProfiledRow(p.day, p.prefix, Commitment(S, Context(p.day)))
    <3>1. /\ Closing(p.day, p.prefix) \in {"raises", "closed", "inserts"}
          /\ Closing(p.day, p.prefix) = "inserts" =>
               /\ Inserted(p.day, p.prefix) = Append(anchors, a)
               /\ Holds(a, S) /\ a.day = p.day /\ a.prefix = p.prefix
          /\ Closing(p.day, p.prefix) # "raises" => Buildable(Q)
      BY <1>3, ClosingFacts
    <3>2. RecordSet(S)
      <4>1. RecordSet(Q) /\ \A x \in Q : x.session \in Sessions
        BY RecordFacts
      <4> HIDE DEF Q
      <4> QED  BY <1>9, <3>1, <4>1, NormalizedFacts
    <3> HIDE DEF a, S, Q
    <3>3. CASE Closing(p.day, p.prefix) = "closed"
      <4>1. db2 = anchors /\ P # {} /\ \A i \in P : Same(i)
        BY <1>1, <3>3
      <4>2. ASSUME NEW i \in P
            PROVE  Holds(anchors[i], S)
        <5>1. /\ i \in DOMAIN anchors /\ anchors[i].day = p.day /\ anchors[i].profile = "v1"
          BY DEF ProfiledIds
        <5>2. AnchorOK(anchors[i])
          BY <5>1 DEF AnchorsOK
        <5>3. anchors[i].root = Commitment(S, Context(anchors[i].day)).root
          BY <4>1, <5>1
        <5> QED  BY <3>2, <5>1, <5>2, <5>3, HeldByRoot
      <4> HIDE DEF P
      <4> QED  BY <1>2, <4>1, <4>2
    <3>4. CASE Closing(p.day, p.prefix) = "inserts"
      <4>1. db2 = Append(anchors, a) /\ Holds(a, S) /\ a.day = p.day /\ a.prefix = p.prefix
        BY <3>1, <3>4
      <4>2. P = {}
        BY <1>1, <3>4
      <4>3. /\ Len(anchors) \in Nat
            /\ DOMAIN anchors = 1..Len(anchors) /\ DOMAIN db2 = 1..(Len(anchors) + 1)
            /\ \A i \in 1..Len(anchors) : db2[i] = anchors[i]
            /\ db2[Len(anchors) + 1] = a
        BY <4>1, AppendedRow DEF AnchorsOK
      <4>4. a.profile = "v1"
        BY <4>1 DEF Holds
      <4> DEFINE n == Len(anchors) + 1
      <4>5. n \in RunAnchors(p, db2)
        BY <4>1, <4>3, <4>4 DEF RunAnchors
      <4>6. ASSUME NEW i \in RunAnchors(p, db2)
            PROVE  i = n
        <5>1. i \in 1..(Len(anchors) + 1)
          BY <4>3 DEF RunAnchors
        <5>2. i \notin 1..Len(anchors)
          <6> SUFFICES ASSUME i \in 1..Len(anchors) PROVE FALSE
            OBVIOUS
          <6>1. i \in RunAnchors(p, anchors)
            BY <4>3 DEF RunAnchors
          <6> QED  BY <1>2, <4>2, <6>1
        <5> QED  BY <4>3, <5>1, <5>2
      <4> HIDE DEF n
      <4> QED  BY <4>1, <4>3, <4>5, <4>6 DEF n
    <3> QED  BY <1>9, <3>1, <3>3, <3>4
  <2>4. ClosedOK(p, stored, db2, r2)
    BY <1>2, <2>3 DEF ClosedOK
  <2> QED  BY <1>7, <2>2, <2>4 DEF RunOK
<1> QED  BY <1>8, <1>9

\* The run stores its next session.
LEMMA RunPersists ==
  ASSUME "json" \notin DOMAIN Absent,
         NEW p, PlanOK(p), NEW st, st = [t \in Sessions |-> st[t]], NEW db,
         NEW r, RunTyped(r), RunOK(p, st, db, r), r.phase = "persisting", r.made < Len(p.ids),
         NEW s, s = p.ids[r.made + 1], NEW session \in p.sessions[s],
         NEW o, r.outside => o, o \/ UtcDay(Instant(session.start)) = p.day,
         NEW r2, r2 = [r EXCEPT !.made = @ + 1, !.outside = o, !.touched = @ \ {s}],
         NEW st2, st2 = [st EXCEPT ![s] = RowsOf(s, session)]
  PROVE  RunOK(p, st2, db, r2)
<1>1. /\ r2.phase = "persisting" /\ r2.made = r.made + 1 /\ r2.outside = o
      /\ r2.touched = r.touched \ {s}
  BY DEF RunTyped
<1>2. r.made \in Nat /\ Len(p.ids) \in Nat
  BY DEF RunTyped, PlanOK
<1>3. r.made + 1 \in 1..Len(p.ids) /\ r.made + 1 \in 1..r2.made
  BY <1>1, <1>2
<1>4. s \in Sessions /\ s \in Range(p.ids)
  BY <1>3 DEF PlanOK
<1>5. Generated(session)
  BY <1>4 DEF PlanOK
<1> DEFINE row == RowsOf(s, session)
<1>6. row # Absent
  <2>1. Good(session)
    BY <1>5, GeneratedReadingsRise
  <2>2. DOMAIN row = {"json", "meters", "receipt", "hash", "start", "columns"}
    BY <2>1, RowsFacts
  <2> QED  BY <2>2
<1> HIDE DEF row
<1>7. st2[s] = row /\ \A t \in Sessions : t # s => st2[t] = st[t]
  BY <1>4 DEF row
<1>8. ASSUME NEW k \in 1..r2.made
      PROVE  k = r.made + 1 \/ k \in 1..r.made
  BY <1>1, <1>2
<1>9. ASSUME NEW k \in 1..r2.made, p.ids[k] \in Scope[p.prefix], p.ids[k] \notin r2.touched
      PROVE  st2[p.ids[k]] # Absent
  <2>1. CASE p.ids[k] = s
    BY <1>6, <1>7, <2>1
  <2>2. CASE p.ids[k] # s
    <3>1. k \in 1..r.made /\ p.ids[k] \notin r.touched
      BY <1>1, <1>8, <1>9, <2>2
    <3>2. p.ids[k] \in Sessions
      BY <1>1, <1>2, <3>1 DEF PlanOK
    <3>3. st[p.ids[k]] # Absent
      BY <1>9, <3>1 DEF RunOK, StoredOK
    <3> QED  BY <1>7, <2>2, <3>2, <3>3
  <2> QED  BY <2>1, <2>2
<1>10. ASSUME NEW t \in RunRows(p, st2), t \notin r2.touched
       PROVE  MadeBy(p, t, st2[t], r2)
  <2>1. CASE t = s
    <3>1. /\ r.made + 1 \in 1..r2.made /\ p.ids[r.made + 1] = t
          /\ st2[t] = RowsOf(t, session) /\ session \in p.sessions[t]
          /\ r2.outside \/ UtcDay(Instant(session.start)) = p.day
      BY <1>1, <1>3, <1>7, <2>1 DEF row
    <3> QED  BY <3>1 DEF MadeBy
  <2>2. CASE t # s
    <3>1. t \in RunRows(p, st) /\ t \notin r.touched /\ st2[t] = st[t]
      BY <1>1, <1>7, <1>10, <2>2 DEF RunRows
    <3>2. MadeBy(p, t, st[t], r)
      BY <3>1 DEF RunOK, StoredOK
    <3>3. \A k \in 1..r.made : k \in 1..r2.made
      BY <1>1, <1>2
    <3> QED  BY <1>1, <3>1, <3>2, <3>3 DEF MadeBy
  <2> QED  BY <2>1, <2>2
<1>11. StoredOK(p, st2, r2)
  <2>1. r2.made \in 0..Len(p.ids)
    BY <1>1, <1>2
  <2>2. r2.phase \in {"none", "persisting"} /\ r2.phase \notin HasClosed \cup {"closing"}
    BY <1>1 DEF HasClosed
  <2> QED  BY <1>9, <1>10, <2>1, <2>2 DEF StoredOK
<1>12. /\ ClosedOK(p, st2, db, r2) /\ VerifiedOK(p, db, r2) /\ ExportedOK(p, st2, r2)
       /\ EndedOK(p, st2, db, r2)
  BY <1>1 DEF ClosedOK, VerifiedOK, ExportedOK, EndedOK, HasClosed, HasVerified, HasExported
<1> QED  BY <1>11, <1>12 DEF RunOK

\* A run starts, and checks that its sessions start in its day.
LEMMA RunMovesOn ==
  ASSUME NEW p, PlanOK(p), NEW st, NEW db, NEW r, RunTyped(r), RunOK(p, st, db, r), NEW phase,
         \/ r.phase = "none" /\ phase = "persisting"
         \/ /\ r.phase = "persisting" /\ r.made = Len(p.ids)
            /\ phase = IF r.outside THEN "failed" ELSE "closing",
         NEW r2, r2 = [r EXCEPT !.phase = phase]
  PROVE  RunOK(p, st, db, r2)
<1>1. r2.phase = phase /\ r2.made = r.made /\ r2.outside = r.outside /\ r2.touched = r.touched
  BY DEF RunTyped
<1>2. phase \in {"persisting", "failed", "closing"} /\ (phase = "closing" => ~r.outside)
      /\ (phase = "failed" => r.outside) /\ (phase # "persisting" => r.made = Len(p.ids))
  OBVIOUS
<1>3. \A s, row : MadeBy(p, s, row, r) => MadeBy(p, s, row, r2)
  BY <1>1 DEF MadeBy
<1>4. StoredOK(p, st, r2)
  BY <1>1, <1>2, <1>3 DEF RunOK, StoredOK, HasClosed
<1>5. /\ ClosedOK(p, st, db, r2) /\ VerifiedOK(p, db, r2) /\ ExportedOK(p, st, r2)
      /\ EndedOK(p, st, db, r2)
  BY <1>1, <1>2 DEF ClosedOK, VerifiedOK, ExportedOK, EndedOK, HasClosed, HasVerified, HasExported
<1> QED  BY <1>4, <1>5 DEF RunOK

\* The verdict on the day is that of its V1 row, which verifies.
LEMMA RunVerifiesDay ==
  ASSUME NEW p, NEW st, NEW db, AnchorsOK(db), NEW r, RunTyped(r), RunOK(p, st, db, r),
         r.phase = "verifying", NEW id, id = FindAnchor(db, p.day, p.prefix),
         NEW r2, r2 = [r EXCEPT !.phase = "exporting", !.anchor = id,
                                !.verdict = DayVerdict(db, p.day, p.prefix),
                                !.verified = {m.session : m \in Range(db[id].members)}]
  PROVE  RunOK(p, st, db, r2)
<1> DEFINE verdict == DayVerdict(db, p.day, p.prefix)
           members == {m.session : m \in Range(db[id].members)}
<1>1. /\ r2.phase = "exporting" /\ r2.made = r.made /\ r2.outside = r.outside
      /\ r2.touched = r.touched /\ r2.anchor = id /\ r2.verdict = verdict
      /\ r2.verified = members
  BY DEF RunTyped
<1>2. r.phase \in HasClosed
  BY DEF HasClosed
<1>3. RunAnchors(p, db) # {}
  BY <1>2 DEF RunOK, ClosedOK
<1>4. id \in RunAnchors(p, db) /\ id # 0
  BY <1>3, FoundProfiled DEF AnchorsOK
<1>5. AnchorOK(db[id])
  BY <1>4 DEF AnchorsOK, RunAnchors
<1>6. db[id].members # <<>>
  <2>1. PICK S : RowOf(db[id], S)
    BY <1>5 DEF AnchorOK
  <2>2. Lists(db[id], S)
    BY <2>1, HoldsFacts, LegacyFacts DEF RowOf
  <2>3. Len(db[id].members) >= 1
    BY <2>2 DEF Lists
  <2> QED  BY <2>3
<1>7. verdict = "pass"
  <2>1. AnchorMatches(db[id])
    BY <1>5, AnchorVerifies
  <2> QED  BY <1>4, <1>6, <2>1, VerdictIs
<1> HIDE DEF verdict, members
<1>8. \A s, row : MadeBy(p, s, row, r) => MadeBy(p, s, row, r2)
  BY <1>1 DEF MadeBy
<1>9. StoredOK(p, st, r2)
  BY <1>1, <1>8 DEF RunOK, StoredOK, HasClosed
<1>10. ClosedOK(p, st, db, r2)
  BY <1>1, <1>2 DEF RunOK, ClosedOK
<1>11. VerifiedOK(p, db, r2)
  BY <1>1, <1>4, <1>7 DEF VerifiedOK, members
<1>12. ExportedOK(p, st, r2) /\ EndedOK(p, st, db, r2)
  BY <1>1 DEF ExportedOK, EndedOK, HasExported
<1> QED  BY <1>9, <1>10, <1>11, <1>12 DEF RunOK

\* The lines that a run exports say that its sessions pass.
LEMMA RunExports ==
  ASSUME PlanOK(Plan), NEW r, RunTyped(r), RunOK(Plan, stored, anchors, r), r.phase = "exporting",
         NEW r2, r2 = [r EXCEPT !.phase = "reconciling",
                                !.exported = {Line(s) : s \in Rows \cap Scope[Plan.prefix]}]
  PROVE  RunOK(Plan, stored, anchors, r2)
<1> DEFINE p == Plan
           R == RunRows(p, stored)
           lines == {Line(s) : s \in R}
           InBatch(s) == \E i \in DOMAIN anchors :
                           /\ anchors[i].prefix = p.prefix
                           /\ \E m \in Range(anchors[i].members) : m.session = s
<1>1. Rows \cap Scope[p.prefix] = R
  BY RunTables
<1>2. /\ r2.phase = "reconciling" /\ r2.made = r.made /\ r2.outside = r.outside
      /\ r2.touched = r.touched /\ r2.anchor = r.anchor /\ r2.verdict = r.verdict
      /\ r2.verified = r.verified /\ r2.exported = lines
  BY <1>1 DEF RunTyped
<1>3. r.phase \in HasClosed /\ r.phase \in HasVerified /\ r.phase \notin {"none", "persisting"}
  BY DEF HasClosed, HasVerified
<1>4. \A s : /\ Line(s).session = s
             /\ Line(s).match <=> ReceiptCheck(stored[s])
             /\ Line(s).audit <=> SessionAudit(stored[s])
             /\ Line(s).batch <=> InBatch(s)
  BY DEF Line
<1>5. StoredOK(p, stored, r2)
  <2>1. \A s, row : MadeBy(p, s, row, r) => MadeBy(p, s, row, r2)
    BY <1>2 DEF MadeBy
  <2> HIDE DEF p, R, lines
  <2> QED  BY <1>2, <1>3, <2>1 DEF RunOK, StoredOK, HasClosed, p
<1> HIDE DEF p, R, lines, InBatch
<1>6. ASSUME r2.touched = {}
      PROVE  /\ {line.session : line \in lines} = R
             /\ \A line \in lines : line.match /\ line.audit /\ (MisfitIds(p) = {} => line.batch)
  <2>1. StoredOK(p, stored, r) /\ r.touched = {} /\ ~r.outside /\ r.made = Len(p.ids) /\ PlanOK(p)
    BY <1>2, <1>3, <1>6 DEF RunOK, StoredOK, p
  <2>2. RunContents(p, stored)
    BY <2>1, RunContentsOK
  <2>3. {line.session : line \in lines} = R
    <3> DEFINE f(s) == Line(s)
    <3>1. lines = {f(s) : s \in R} /\ \A s : f(s).session = s
      BY <1>4 DEF lines
    <3> HIDE DEF f
    <3> QED  BY <3>1
  <2>4. ASSUME NEW s \in R
        PROVE  ReceiptCheck(stored[s]) /\ SessionAudit(stored[s])
    <3>1. PICK session : Generated(session) /\ stored[s] = RowsOf(s, session)
      BY <2>2 DEF RunContents, R
    <3> QED  BY <3>1, GeneratedRow
  <2>5. ASSUME MisfitIds(p) = {}, NEW s \in R
        PROVE  InBatch(s)
    <3>1. PICK i \in RunAnchors(p, anchors) : Holds(anchors[i], RunBatch(p, stored))
      BY <1>3, <2>1 DEF RunOK, ClosedOK, p
    <3>2. {m.session : m \in Range(anchors[i].members)} = {Nfc[t] : t \in RunDay(p, stored)}
      BY <3>1, BatchMembers
    <3>3. s \in RunDay(p, stored) /\ Nfc[s] = s
      BY <2>2, <2>5 DEF RunContents, R
    <3>4. s \in {m.session : m \in Range(anchors[i].members)}
      BY <3>2, <3>3
    <3> QED  BY <3>1, <3>4 DEF InBatch, RunAnchors
  <2> QED  BY <1>4, <2>3, <2>4, <2>5 DEF lines
<1>7. ExportedOK(p, stored, r2)
  BY <1>2, <1>6 DEF ExportedOK, R
<1>8. ClosedOK(p, stored, anchors, r2) /\ VerifiedOK(p, anchors, r2)
  <2>1. r2.phase \in HasClosed /\ r2.phase \in HasVerified
    BY <1>2 DEF HasClosed, HasVerified
  <2> QED  BY <1>2, <1>3, <2>1 DEF RunOK, ClosedOK, VerifiedOK, p
<1>9. EndedOK(p, stored, anchors, r2)
  BY <1>2 DEF EndedOK
<1> QED  BY <1>5, <1>7, <1>8, <1>9 DEF RunOK, p

\* The ids of all stages are those that were asked for exactly if the batch
\* can hold them.
LEMMA RunReconciles ==
  ASSUME PlanOK(Plan), Requested = Range(Plan.ids), RunTyped(run),
         RunOK(Plan, stored, anchors, run), run.phase = "reconciling",
         NEW r2, r2 = [run EXCEPT !.phase = IF Reconciled THEN "done" ELSE "mismatch"]
  PROVE  RunOK(Plan, stored, anchors, r2)
<1> DEFINE p == Plan
           phase == IF Reconciled THEN "done" ELSE "mismatch"
           a == anchors[run.anchor]
           R == RunRows(p, stored)
           M == {m.session : m \in Range(a.members)}
           X == {line.session : line \in run.exported}
<1>1. /\ r2.phase = phase /\ r2.made = run.made /\ r2.outside = run.outside
      /\ r2.touched = run.touched /\ r2.anchor = run.anchor /\ r2.verdict = run.verdict
      /\ r2.verified = run.verified /\ r2.exported = run.exported
  BY DEF RunTyped
<1>2. phase \in {"done", "mismatch"} /\ (phase = "done" <=> Reconciled)
  OBVIOUS
<1>3. /\ run.phase \in HasClosed /\ run.phase \in HasVerified /\ run.phase \in HasExported
      /\ run.phase \notin {"none", "persisting"}
  BY DEF HasClosed, HasVerified, HasExported
<1>4. Reconciled <=> /\ {R, Eligible(p.day, p.prefix), M, run.verified, X} = {Requested}
                     /\ Len(a.members) = a.count
  BY RunTables DEF Reconciled, Stages
<1> HIDE DEF phase, a, R, M, X
<1>5. ASSUME run.touched = {}
      PROVE  Reconciled <=> MisfitIds(p) = {}
  <2> HIDE DEF p
  <2>1. /\ StoredOK(p, stored, run) /\ ~run.outside /\ run.made = Len(p.ids) /\ PlanOK(p)
        /\ Requested = Range(p.ids)
    BY <1>3 DEF RunOK, StoredOK, p
  <2>2. RunContents(p, stored)
    BY <1>5, <2>1, RunContentsOK
  <2>3. Eligible(p.day, p.prefix) = R /\ RunDay(p, stored) = R
    BY <2>2, RunTables DEF RunContents, R
  <2>4. run.anchor \in RunAnchors(p, anchors) /\ run.verified = M
    BY <1>3 DEF RunOK, VerifiedOK, M, a, p
  <2>5. Holds(a, RunBatch(p, stored))
    BY <1>3, <1>5, <2>4 DEF RunOK, ClosedOK, a, p
  <2>6. M = {Nfc[s] : s \in R} /\ Len(a.members) = a.count
    BY <2>3, <2>5, BatchMembers DEF M
  <2>7. X = R
    BY <1>3, <1>5 DEF RunOK, ExportedOK, X, R, p
  <2>8. Reconciled <=> R = Requested /\ M = Requested
    BY <1>4, <2>3, <2>4, <2>6, <2>7
  <2>9. \A s \in R : s \in Sessions /\ s \in Scope[p.prefix]
    BY DEF R, RunRows
  <2>10. ASSUME MisfitIds(p) = {}
         PROVE  R = Requested /\ M = Requested
    <3>1. R = Requested /\ \A s \in R : Nfc[s] = s
      BY <2>1, <2>2, <2>10 DEF RunContents, R
    <3> QED  BY <2>6, <3>1
  <2>11. ASSUME R = Requested, M = Requested, NEW s \in Requested
         PROVE  s \in Scope[p.prefix] /\ Nfc[s] = s
    <3>1. s \in R /\ s \in M
      BY <2>11
    <3>2. PICK t \in R : s = Nfc[t]
      BY <2>6, <3>1
    <3>3. Nfc[Nfc[t]] = Nfc[t]
      BY <2>9, <3>1, <3>2, VerificationConstants
    <3> QED  BY <2>9, <3>1, <3>2, <3>3
  <2>12. (R = Requested /\ M = Requested) => MisfitIds(p) = {}
    BY <2>1, <2>11 DEF MisfitIds
  <2> QED  BY <2>8, <2>10, <2>12
<1>6. EndedOK(p, stored, anchors, r2)
  BY <1>1, <1>2, <1>5 DEF EndedOK
<1>7. StoredOK(p, stored, r2)
  <2>1. \A s, row : MadeBy(p, s, row, run) => MadeBy(p, s, row, r2)
    BY <1>1 DEF MadeBy
  <2> QED  BY <1>1, <1>2, <1>3, <2>1 DEF RunOK, StoredOK, HasClosed
<1>8. /\ ClosedOK(p, stored, anchors, r2) /\ VerifiedOK(p, anchors, r2)
      /\ ExportedOK(p, stored, r2)
  <2>1. r2.phase \in HasClosed /\ r2.phase \in HasVerified /\ r2.phase \in HasExported
    BY <1>1, <1>2 DEF HasClosed, HasVerified, HasExported
  <2> QED  BY <1>1, <1>3, <2>1 DEF RunOK, ClosedOK, VerifiedOK, ExportedOK
<1> QED  BY <1>6, <1>7, <1>8 DEF RunOK

\* A row of another day, prefix or profile is none of the run's.
LEMMA RowBesideRun ==
  ASSUME NEW p, NEW db, IsASequence(db), NEW a,
         RunAnchors(p, db) # {} => ~(a.day = p.day /\ a.prefix = p.prefix /\ a.profile = "v1")
  PROVE  /\ DOMAIN db \subseteq DOMAIN Append(db, a)
         /\ \A i \in DOMAIN db : Append(db, a)[i] = db[i]
         /\ RunAnchors(p, db) # {} => RunAnchors(p, Append(db, a)) = RunAnchors(p, db)
<1> DEFINE t == Append(db, a)
           n == Len(db) + 1
<1>1. /\ Len(db) \in Nat /\ DOMAIN db = 1..Len(db) /\ DOMAIN t = 1..n
      /\ \A i \in 1..Len(db) : t[i] = db[i]
      /\ t[n] = a
  BY AppendedRow
<1>2. \A i \in 1..n : i \in 1..Len(db) \/ i = n
  BY <1>1
<1>3. DOMAIN db \subseteq DOMAIN t
  BY <1>1
<1> HIDE DEF t, n
<1>4. ASSUME RunAnchors(p, db) # {}
      PROVE  RunAnchors(p, t) = RunAnchors(p, db)
  <2>1. \A i : i \in RunAnchors(p, t) <=> i \in RunAnchors(p, db)
    BY <1>1, <1>2, <1>3, <1>4 DEF RunAnchors
  <2> QED  BY <2>1
<1> QED  BY <1>1, <1>3, <1>4 DEF t

\* Closing a day inserts no second row of it.
LEMMA InsertBesideRun ==
  ASSUME RowsOK(stored), AnchorsOK(anchors), NEW p, NEW day \in Int, NEW q,
         Closing(day, q) = "inserts"
  PROVE  /\ DOMAIN anchors \subseteq DOMAIN Inserted(day, q)
         /\ \A i \in DOMAIN anchors : Inserted(day, q)[i] = anchors[i]
         /\ RunAnchors(p, anchors) # {} =>
              RunAnchors(p, Inserted(day, q)) = RunAnchors(p, anchors)
<1> DEFINE a == ProfiledRow(day, q, Commitment(Normalized(Records(day, q)), Context(day)))
<1>1. Inserted(day, q) = Append(anchors, a) /\ a.day = day /\ a.prefix = q
  BY ClosingFacts
<1>2. ProfiledIds(day, q) = {}
  BY ClosingCases
<1>3. RunAnchors(p, anchors) = ProfiledIds(p.day, p.prefix)
  BY RunTables
<1> HIDE DEF a
<1>4. RunAnchors(p, anchors) # {} => ~(a.day = p.day /\ a.prefix = p.prefix /\ a.profile = "v1")
  BY <1>1, <1>2, <1>3
<1>5. IsASequence(anchors)
  BY DEF AnchorsOK
<1> QED  BY <1>1, <1>4, <1>5, RowBesideRun

\* What clients do beside the run.
LEMMA MeanwhileRun ==
  ASSUME PlanOK(Plan), Plan # Absent, RunTyped(run), RunOK(Plan, stored, anchors, run), Meanwhile,
         DOMAIN anchors \subseteq DOMAIN anchors', \A i \in DOMAIN anchors : anchors'[i] = anchors[i],
         RunAnchors(Plan, anchors) # {} => RunAnchors(Plan, anchors') = RunAnchors(Plan, anchors)
  PROVE  RunOK(Plan, stored', anchors', run')
<1> DEFINE more == {s \in Scope[Plan.prefix] : stored'[s] # stored[s]}
<1>1. run' = [run EXCEPT !.touched = @ \cup more]
  BY DEF Meanwhile
<1>2. \A s \in Sessions \cap Scope[Plan.prefix] : s \notin more => stored'[s] = stored[s]
  OBVIOUS
<1> HIDE DEF more
<1> QED  BY <1>1, <1>2, BesideRun

\* The steps of the run itself.
LEMMA RunGoesOn ==
  ASSUME "json" \notin DOMAIN Absent, CoreInv, Idle, RunStep,
         Plan # Absent => RunOK(Plan, stored, anchors, run)
  PROVE  RunOK(Plan, stored', anchors', run')
<1>1. /\ RowsOK(stored) /\ AnchorsOK(anchors) /\ RunTyped(run)
      /\ stored = [s \in Sessions |-> stored[s]]
  BY IdleFacts
<1>2. Plan # Absent
  BY DEF CoreInv, RunStep, StartRun, PersistNext, CheckDay, CloseRun, VerifyRun, ExportRun,
         ReconcileRun
<1>3. PlanOK(Plan) /\ Requested = Range(Plan.ids) /\ RunOK(Plan, stored, anchors, run)
  BY <1>2, PlanFacts
<1>4. CASE StartRun
  <2>1. /\ run.phase = "none" /\ run' = [run EXCEPT !.phase = "persisting"]
        /\ UNCHANGED <<stored, anchors>>
    BY <1>4 DEF StartRun
  <2> QED  BY <1>1, <1>3, <2>1, RunMovesOn
<1>5. CASE PersistNext
  <2> DEFINE s == Plan.ids[run.made + 1]
  <2>1. run.phase = "persisting" /\ run.made < Len(Plan.ids) /\ UNCHANGED anchors
    BY <1>5 DEF PersistNext
  <2>2. PICK session \in Plan.sessions[s] :
          /\ Store(s, session)
          /\ run' = [run EXCEPT !.made = @ + 1, !.outside = @ \/ ~InsideDay(session),
                                !.touched = @ \ {s}]
    BY <1>5 DEF PersistNext
  <2> DEFINE o == run.outside \/ ~InsideDay(session)
  <2>3. /\ run' = [run EXCEPT !.made = @ + 1, !.outside = o, !.touched = @ \ {s}]
        /\ stored' = [stored EXCEPT ![s] = RowsOf(s, session)]
    BY <2>2 DEF Store
  <2>4. (run.outside => o) /\ (o \/ UtcDay(Instant(session.start)) = Plan.day)
    BY DEF InsideDay
  <2> HIDE DEF o, s
  <2>5. s = Plan.ids[run.made + 1] /\ session \in Plan.sessions[s]
    BY DEF s
  <2> QED  BY <1>1, <1>3, <2>1, <2>3, <2>4, <2>5, RunPersists
<1>6. CASE CheckDay
  <2>1. /\ run.phase = "persisting" /\ run.made = Len(Plan.ids)
        /\ run' = [run EXCEPT !.phase = IF run.outside THEN "failed" ELSE "closing"]
        /\ UNCHANGED <<stored, anchors>>
    BY <1>6 DEF CheckDay
  <2> QED  BY <1>1, <1>3, <2>1, RunMovesOn
<1>7. CASE CloseRun
  <2>1. /\ run.phase = "closing" /\ UNCHANGED stored
        /\ anchors' = IF Closing(Plan.day, Plan.prefix) = "inserts"
                      THEN Inserted(Plan.day, Plan.prefix) ELSE anchors
        /\ run' = [run EXCEPT !.phase = IF Closing(Plan.day, Plan.prefix) = "raises"
                                        THEN "failed" ELSE "verifying"]
    BY <1>7 DEF CloseRun
  <2> QED  BY <1>1, <1>3, <2>1, RunCloses
<1>8. CASE VerifyRun
  <2>1. /\ run.phase = "verifying" /\ UNCHANGED <<stored, anchors>>
        /\ run' = [run EXCEPT !.phase = "exporting",
                     !.anchor = FindAnchor(anchors, Plan.day, Plan.prefix),
                     !.verdict = DayVerdict(anchors, Plan.day, Plan.prefix),
                     !.verified = {m.session : m \in Range(
                        anchors[FindAnchor(anchors, Plan.day, Plan.prefix)].members)}]
    BY <1>8 DEF VerifyRun
  <2> QED  BY <1>1, <1>3, <2>1, RunVerifiesDay
<1>9. CASE ExportRun
  <2>1. /\ run.phase = "exporting" /\ UNCHANGED <<stored, anchors>>
        /\ run' = [run EXCEPT !.phase = "reconciling",
                              !.exported = {Line(s) : s \in Rows \cap Scope[Plan.prefix]}]
    BY <1>9 DEF ExportRun
  <2> QED  BY <1>1, <1>3, <2>1, RunExports
<1>10. CASE ReconcileRun
  <2>1. /\ run.phase = "reconciling" /\ UNCHANGED <<stored, anchors>>
        /\ run' = [run EXCEPT !.phase = IF Reconciled THEN "done" ELSE "mismatch"]
    BY <1>10 DEF ReconcileRun
  <2> QED  BY <1>1, <1>3, <2>1, RunReconciles
<1> QED  BY <1>4, <1>5, <1>6, <1>7, <1>8, <1>9, <1>10 DEF RunStep

\* Nothing is stored before a run.
LEMMA RunAtFirst == Init => RunInv
<1> SUFFICES ASSUME Init, Plan # Absent
             PROVE  RunOK(Plan, RowsBehind(stored, matrix), TableBehind(anchors, matrix), run)
  BY DEF RunInv
<1>1. matrix.phase = "none"
  BY DEF Init, NoMatrix
<1>2. RowsBehind(stored, matrix) = stored /\ TableBehind(anchors, matrix) = anchors
  BY <1>1 DEF RowsBehind, TableBehind
<1>3. /\ run.phase = "none" /\ run.made = 0 /\ run.touched = {}
      /\ \A s \in Sessions : stored[s] = Absent
  BY DEF Init, NoRun
<1>4. Len(Plan.ids) \in Nat
  BY CoreInit, PlanFacts DEF PlanOK
<1> DEFINE p == Plan
<1>5. RunRows(p, stored) = {}
  BY <1>3 DEF RunRows
<1> HIDE DEF p
<1>6. StoredOK(p, stored, run)
  BY <1>3, <1>4, <1>5 DEF StoredOK, HasClosed, p
<1>7. /\ ClosedOK(p, stored, anchors, run) /\ VerifiedOK(p, anchors, run)
      /\ ExportedOK(p, stored, run) /\ EndedOK(p, stored, anchors, run)
  BY <1>3 DEF ClosedOK, VerifiedOK, ExportedOK, EndedOK, HasClosed, HasVerified, HasExported
<1> QED  BY <1>2, <1>6, <1>7 DEF RunOK, p

\* The invariant of the run, beside everything that clients do.
THEOREM RunInvariance ==
  ASSUME "json" \notin DOMAIN Absent         \* null is no row
  PROVE  Spec => []RunInv
<1>1. ASSUME CoreInv, RunInv, [Next]_vars
      PROVE  RunInv'
  <2>1. CASE MatrixStep /\ UNCHANGED <<run, verifications>>
    <3>1. /\ RowsBehind(stored', matrix') = RowsBehind(stored, matrix)
          /\ TableBehind(anchors', matrix') = TableBehind(anchors, matrix)
          /\ workload' = workload
      BY <1>1, <2>1, MatrixViews
    <3>2. Plan' = Plan
      BY <3>1 DEF Plan, Allowed
    <3> QED  BY <1>1, <2>1, <3>1, <3>2 DEF RunInv
  <2>2. CASE UNCHANGED vars
    <3>1. Plan' = Plan
      BY <2>2 DEF Plan, Allowed, vars
    <3> QED  BY <1>1, <2>2, <3>1 DEF RunInv, vars
  <2>3. CASE /\ Idle /\ UNCHANGED <<matrix, workload>>
             /\ Plan # Absent => RunOK(Plan, stored', anchors', run')
    <3>1. RowsBehind(stored', matrix') = stored' /\ TableBehind(anchors', matrix') = anchors'
      BY <2>3 DEF Idle, RowsBehind, TableBehind
    <3>2. Plan' = Plan
      BY <2>3 DEF Plan, Allowed
    <3> QED  BY <2>3, <3>1, <3>2 DEF RunInv
  <2>4. ASSUME Idle
        PROVE  /\ RowsOK(stored) /\ AnchorsOK(anchors) /\ SweepTyped(sweep) /\ RunTyped(run)
               /\ Plan # Absent => PlanOK(Plan) /\ RunOK(Plan, stored, anchors, run)
    BY <1>1, <2>4, IdleFacts, PlanFacts DEF RunInv
  <2>5. ASSUME Meanwhile, workload' = workload,
               DOMAIN anchors \subseteq DOMAIN anchors',
               \A i \in DOMAIN anchors : anchors'[i] = anchors[i],
               RunAnchors(Plan, anchors) # {} => RunAnchors(Plan, anchors') = RunAnchors(Plan, anchors)
        PROVE  RunInv'
    <3>1. Idle /\ UNCHANGED matrix
      BY <2>5 DEF Meanwhile
    <3>2. Plan # Absent => RunOK(Plan, stored', anchors', run')
      BY <2>4, <2>5, <3>1, MeanwhileRun
    <3> QED  BY <2>3, <2>5, <3>1, <3>2
  <2>6. CASE /\ Meanwhile
             /\ \/ \E s \in Sessions : \E body \in Allowed.posts[s] : Finalize(s, body)
                \/ \E s \in Allowed.tampering : Tamper(s)
                \/ \E p \in Allowed.sweeps : StartSweep(p)
    <3>1. UNCHANGED <<workload, anchors>>
      BY <2>6 DEF Finalize, Tamper, StartSweep
    <3> QED  BY <2>5, <2>6, <3>1
  <2>7. CASE \E c \in Allowed.closings : CloseDay(c[1], c[2]) /\ Meanwhile
    <3>1. PICK c \in Allowed.closings : CloseDay(c[1], c[2]) /\ Meanwhile
      BY <2>7
    <3>2. /\ Closing(c[1], c[2]) = "inserts" /\ anchors' = Inserted(c[1], c[2])
          /\ workload' = workload
      BY <3>1 DEF CloseDay
    <3>3. c[1] \in Int /\ Idle
      BY <1>1, <3>1, WorkAssumption DEF CoreInv, Allowed, Meanwhile
    <3> QED  BY <2>4, <2>5, <3>1, <3>2, <3>3, InsertBesideRun
  <2>8. CASE \E c \in Allowed.closings : CloseLegacyDay(c[1], c[2]) /\ Meanwhile
    <3>1. PICK c \in Allowed.closings : CloseLegacyDay(c[1], c[2]) /\ Meanwhile
      BY <2>8
    <3> DEFINE a == LegacyRow(c[1], c[2], Records(c[1], c[2]))
    <3>2. anchors' = Append(anchors, a) /\ workload' = workload /\ a.profile = "legacy"
      BY <3>1 DEF CloseLegacyDay, LegacyRow
    <3>3. IsASequence(anchors)
      BY <2>4, <3>1 DEF Meanwhile, AnchorsOK
    <3> HIDE DEF a
    <3> QED  BY <2>5, <3>1, <3>2, <3>3, RowBesideRun
  <2>9. CASE SweepDay /\ Meanwhile
    <3> DEFINE day == CHOOSE d \in sweep.todo : \A e \in sweep.todo : d <= e
    <3>1. /\ sweep.todo # {} /\ workload' = workload
          /\ anchors' = IF Closing(day, sweep.prefix) = "inserts"
                        THEN Inserted(day, sweep.prefix) ELSE anchors
      BY <2>9 DEF SweepDay
    <3>2. Idle
      BY <2>9 DEF Meanwhile
    <3>3. day \in Int
      BY <2>4, <3>1, <3>2, LeastDay DEF SweepTyped
    <3> HIDE DEF day
    <3> QED  BY <2>4, <2>5, <2>9, <3>1, <3>2, <3>3, InsertBesideRun
  <2>10. CASE RunStep
    <3>1. Idle /\ UNCHANGED <<matrix, workload>>
      BY <2>10 DEF RunStep, StartRun, PersistNext, CheckDay, CloseRun, VerifyRun, ExportRun, ReconcileRun
    <3>2. RunOK(Plan, stored', anchors', run')
      BY <1>1, <2>4, <2>10, <3>1, RunGoesOn
    <3> QED  BY <2>3, <3>1, <3>2
  <2> QED  BY <1>1, <2>1, <2>2, <2>6, <2>7, <2>8, <2>9, <2>10 DEF Next, MatrixStep
<1> QED  BY RunAtFirst, CoreInvariance, <1>1, PTL DEF Spec

\* What holds of the run while the tables are as the savepoint found them.
LEMMA RunSettled ==
  ASSUME CoreInv, RunInv, Settled, run.phase # "none"
  PROVE  /\ RowsOK(stored) /\ AnchorsOK(anchors)
         /\ PlanOK(Plan) /\ Requested = Range(Plan.ids) /\ Unfit = MisfitIds(Plan)
         /\ RunOK(Plan, stored, anchors, run)
<1>1. RowsBehind(stored, matrix) = stored /\ TableBehind(anchors, matrix) = anchors
  BY DEF Settled, RowsBehind, TableBehind
<1>2. Plan # Absent
  BY DEF CoreInv
<1> QED  BY <1>1, <1>2, SettledFacts, PlanFacts DEF RunInv

\* A batch that holds what it should audits: the rows of its members are as
\* they were when it was closed.
LEMMA HeldBatchAudits ==
  ASSUME RowsOK(stored), NEW p, RunContents(p, stored), MisfitIds(p) = {},
         NEW a, a.day = p.day, a.prefix = p.prefix, Holds(a, RunBatch(p, stored))
  PROVE  MembershipAudit(a)
<1> DEFINE Q == Records(p.day, p.prefix)
           S == Normalized(Q)
           R == RunRows(p, stored)
<1>1. /\ RunDay(p, stored) = R /\ R = Eligible(p.day, p.prefix) /\ R = Range(p.ids)
      /\ \A s \in R : Nfc[s] = s
  BY RunTables DEF RunContents
<1>2. Holds(a, S)
  BY RunTables
<1>3. MemberRecords(a) = S /\ S # {}
  BY <1>2, HoldsFacts DEF Holds, SnapshotSet
<1>4. {m.session : m \in Range(a.members)} = {Nfc[s] : s \in R}
  BY <1>1, BatchMembers, ZenonT(40)
<1>5. {m.session : m \in Range(a.members)} = Eligible(a.day, a.prefix)
  BY <1>1, <1>4
<1> HIDE DEF S, R
<1>6. ASSUME NEW m \in Range(a.members)
      PROVE  Unchanged(m)
  <2> DEFINE r == [session |-> m.session, start |-> m.start, hash |-> m.hash]
  <2>1. r \in MemberRecords(a)
    BY DEF MemberRecords
  <2>2. r \in S
    BY <1>3, <2>1
  <2>3. r.session = m.session /\ r.start = m.start /\ r.hash = m.hash
    OBVIOUS
  <2> HIDE DEF r
  <2>4. Range(p.ids) # {}
    BY <1>1, <1>4
  <2>5. Buildable(Q)
    BY <2>4, RunBuildable
  <2>6. RecordSet(Q) /\ \A q \in Q : q.session \in Sessions
    BY RecordFacts
  <2>7. Q = {Record(s) : s \in R}
    BY <1>1 DEF Records
  <2> HIDE DEF Q
  <2>8. PICK q \in Q : r = InNormalForm(q)
    BY <2>2, <2>5, <2>6, NormalizedFacts DEF S
  <2>9. r.session = Nfc[q.session] /\ r.start = q.start /\ r.hash = q.hash
    BY <2>5, <2>6, <2>8, NormalizedFacts
  <2>10. PICK s \in R : q = Record(s)
    BY <2>7
  <2>11. q.session = s /\ q.start = stored[s].start /\ q.hash = stored[s].hash
    BY <2>10 DEF Record
  <2>12. m.session = s /\ m.start = stored[s].start /\ m.hash = stored[s].hash
    BY <1>1, <2>3, <2>9, <2>11
  <2>13. HashReceipt(stored[s].receipt) = stored[s].hash
    <3>1. PICK session : Generated(session) /\ stored[s] = RowsOf(s, session)
      BY <1>1 DEF RunContents, R
    <3>2. ReceiptCheck(stored[s])
      BY <3>1, GeneratedRow
    <3> QED  BY <3>2 DEF ReceiptCheck
  <2> QED  BY <2>12, <2>13 DEF Unchanged
<1> QED  BY <1>5, <1>6 DEF MembershipAudit

\* A V1 row that audits holds the batch that closing would make.
LEMMA AuditedIsCurrent ==
  ASSUME NEW a, AnchorOK(a), a.profile = "v1", MembershipAudit(a)
  PROVE  a.root = Commitment(Normalized(Records(a.day, a.prefix)), Context(a.day)).root
<1> DEFINE Q == Records(a.day, a.prefix)
           E == Eligible(a.day, a.prefix)
           Back(m) == [session |-> m.session, start |-> m.start, hash |-> m.hash]
<1>1. PICK T : Holds(a, T)
  <2>1. PICK T : RowOf(a, T)
    BY DEF AnchorOK
  <2>2. Holds(a, T)
    BY <2>1 DEF RowOf, ListsHashes
  <2> QED  BY <2>2
<1>2. MemberRecords(a) = T /\ a.root = Commitment(T, Context(a.day)).root
  BY <1>1, HoldsFacts
<1>3. Normalized(T) = T
  BY <1>1, SnapshotIsNormal DEF Holds
<1>4. ASSUME NEW m \in Range(a.members)
      PROVE  m.session \in E /\ Back(m) = Record(m.session)
  <2>1. m.session \in E /\ Unchanged(m)
    BY DEF MembershipAudit
  <2> QED  BY <2>1 DEF Unchanged, Record
<1>5. T = {Back(m) : m \in Range(a.members)}
  BY <1>2 DEF MemberRecords
<1>6. E = {m.session : m \in Range(a.members)}
  BY DEF MembershipAudit
<1>7. Q = {Record(s) : s \in E}
  BY DEF Records
<1> HIDE DEF Q, E, Back
<1>8. T = Q
  <2>1. \A r \in T : r \in Q
    BY <1>4, <1>5, <1>7
  <2>2. \A r \in Q : r \in T
    BY <1>4, <1>5, <1>6, <1>7
  <2> QED  BY <2>1, <2>2
<1> QED  BY <1>2, <1>3, <1>8 DEF Q

\* Whatever clients do beside it: a run whose ids reconcile has verified its
\* day, and unless somebody touched its sessions every one of them is valid,
\* passes every check and is exported as such.
THEOREM RunsVerify ==
  ASSUME "json" \notin DOMAIN Absent         \* null is no row
  PROVE  Spec => []RunVerifies
<1>1. ASSUME CoreInv, RunInv
      PROVE  RunVerifies
  <2> DEFINE p == Plan
             a == anchors[run.anchor]
  <2>1. SUFFICES ASSUME run.phase = "done", Settled
                 PROVE  /\ run.verdict = "pass"
                        /\ run.touched = {} =>
                             /\ MembershipAudit(a)
                             /\ \A s \in Requested :
                                  /\ Valid(stored[s].json, stored[s].receipt)
                                  /\ AuditCheck(stored[s]) /\ MeterCheck(stored[s])
                             /\ \A line \in run.exported : line.match /\ line.audit /\ line.batch
    BY DEF RunVerifies
  <2>2. /\ RowsOK(stored) /\ AnchorsOK(anchors) /\ PlanOK(p) /\ Requested = Range(p.ids)
        /\ RunOK(p, stored, anchors, run)
    BY <1>1, <2>1, RunSettled
  <2>3. /\ run.phase \in HasClosed /\ run.phase \in HasVerified /\ run.phase \in HasExported
        /\ run.phase \notin {"none", "persisting"}
    BY <2>1 DEF HasClosed, HasVerified, HasExported
  <2> HIDE DEF p, a
  <2>4. run.verdict = "pass" /\ run.anchor \in RunAnchors(p, anchors)
    BY <2>2, <2>3 DEF RunOK, VerifiedOK
  <2>5. ASSUME run.touched = {}
        PROVE  /\ MembershipAudit(a)
               /\ \A s \in Requested : /\ Valid(stored[s].json, stored[s].receipt)
                                        /\ AuditCheck(stored[s]) /\ MeterCheck(stored[s])
               /\ \A line \in run.exported : line.match /\ line.audit /\ line.batch
    <3>1. MisfitIds(p) = {}
      BY <2>1, <2>2, <2>5 DEF RunOK, EndedOK
    <3>2. RunContents(p, stored)
      BY <2>2, <2>3, <2>5, RunContentsOK DEF RunOK, StoredOK
    <3>3. Holds(a, RunBatch(p, stored)) /\ a.day = p.day /\ a.prefix = p.prefix
      BY <2>2, <2>3, <2>4, <2>5 DEF RunOK, ClosedOK, RunAnchors, a
    <3>4. MembershipAudit(a)
      BY <2>2, <3>1, <3>2, <3>3, HeldBatchAudits
    <3>5. ASSUME NEW s \in Requested
          PROVE  /\ Valid(stored[s].json, stored[s].receipt)
                 /\ AuditCheck(stored[s]) /\ MeterCheck(stored[s])
      <4>1. s \in RunRows(p, stored)
        BY <2>2, <3>1, <3>2 DEF RunContents
      <4>2. PICK session : Generated(session) /\ stored[s] = RowsOf(s, session)
        BY <3>2, <4>1 DEF RunContents
      <4>3. /\ stored[s].json = session /\ stored[s].receipt = Receipt(s, session)
            /\ AuditCheck(stored[s]) /\ MeterCheck(stored[s])
        BY <4>2, GeneratedRow
      <4> QED  BY <4>2, <4>3, GeneratedIsValid
    <3>6. \A line \in run.exported : line.match /\ line.audit /\ line.batch
      BY <2>2, <2>3, <2>5, <3>1 DEF RunOK, ExportedOK
    <3> QED  BY <3>4, <3>5, <3>6
  <2> QED  BY <2>4, <2>5
<1> QED  BY <1>1, CoreInvariance, RunInvariance, PTL

\* And a run ends early, or its ids differ, for a reason only.
THEOREM RunsFailForAReason ==
  ASSUME "json" \notin DOMAIN Absent         \* null is no row
  PROVE  Spec => []RunFailsOnlyWhenDisturbed
<1>1. ASSUME CoreInv, RunInv
      PROVE  RunFailsOnlyWhenDisturbed
  <2> DEFINE p == Plan
             P == ProfiledIds(Plan.day, Plan.prefix)
  <2>1. SUFFICES ASSUME Settled, run.phase \in {"failed", "mismatch"}, run.touched = {}
                 PROVE  /\ run.phase = "failed" =>
                             \/ Requested = {} \/ Unfit # {} \/ run.outside
                             \/ \E i \in P : ~MembershipAudit(anchors[i])
                        /\ run.phase = "mismatch" => Unfit # {}
    BY DEF RunFailsOnlyWhenDisturbed
  <2>2. /\ AnchorsOK(anchors) /\ Requested = Range(p.ids) /\ Unfit = MisfitIds(p)
        /\ RunOK(p, stored, anchors, run)
    BY <1>1, <2>1, RunSettled
  <2> HIDE DEF p
  <2>3. run.phase = "mismatch" => Unfit # {}
    BY <2>1, <2>2 DEF RunOK, EndedOK
  <2>4. run.phase = "failed" =>
          \/ run.outside \/ Requested = {} \/ Unfit # {}
          \/ \E i \in RunAnchors(p, anchors) :
               anchors[i].root # Commitment(RunBatch(p, stored), Context(p.day)).root
    BY <2>1, <2>2 DEF RunOK, EndedOK
  <2>5. ASSUME NEW i \in RunAnchors(p, anchors), MembershipAudit(anchors[i])
        PROVE  anchors[i].root = Commitment(RunBatch(p, stored), Context(p.day)).root
    <3>1. /\ i \in DOMAIN anchors /\ anchors[i].day = p.day /\ anchors[i].prefix = p.prefix
          /\ anchors[i].profile = "v1"
      BY DEF RunAnchors
    <3>2. AnchorOK(anchors[i])
      BY <2>2, <3>1 DEF AnchorsOK
    <3>3. anchors[i].root = Commitment(Normalized(Records(p.day, p.prefix)), Context(p.day)).root
      BY <2>5, <3>1, <3>2, AuditedIsCurrent
    <3> QED  BY <3>3, RunTables
  <2>6. RunAnchors(p, anchors) = P
    BY RunTables DEF p
  <2> HIDE DEF P
  <2> QED  BY <2>3, <2>4, <2>5, <2>6
<1> QED  BY <1>1, CoreInvariance, RunInvariance, PTL

-----------------------------------------------------------------------------
(***************************************************************************)
(* The ledger.  Every step of the clients, of a sweep and of a run is one  *)
(* of its steps or changes nothing; the matrix changes nothing.            *)
(***************************************************************************)
LedgerStep == [L!Next]_<<RowsBehind(stored, matrix), TableBehind(anchors, matrix)>>

\* Outside the matrix the ledger is the tables.
LEMMA LedgerViews ==
  ASSUME CoreInv, Idle, UNCHANGED matrix
  PROVE  /\ RowsBehind(stored, matrix) = stored /\ TableBehind(anchors, matrix) = anchors
         /\ RowsBehind(stored', matrix') = stored' /\ TableBehind(anchors', matrix') = anchors'
<1>1. matrix.phase = "none" /\ matrix'.phase = "none"
  BY DEF Idle
<1> QED  BY <1>1 DEF RowsBehind, TableBehind

\* Nothing changes.
LEMMA LedgerStutters ==
  ASSUME UNCHANGED <<stored, anchors, matrix>>
  PROVE  LedgerStep
BY DEF LedgerStep

\* The rows of a session are replaced by those of a body.
LEMMA LedgerReplaces ==
  ASSUME CoreInv, Idle, UNCHANGED <<matrix, anchors>>, NEW s \in Sessions, NEW json, Good(json),
         stored' = [stored EXCEPT ![s] = RowsOf(s, json)]
  PROVE  LedgerStep
<1> DEFINE row == RowsOf(s, json)
<1>1. /\ RowsBehind(stored, matrix) = stored /\ TableBehind(anchors, matrix) = anchors
      /\ RowsBehind(stored', matrix') = stored' /\ TableBehind(anchors', matrix') = anchors'
  BY LedgerViews
<1>2. stored = [t \in Sessions |-> stored[t]]
  BY DEF CoreInv
<1>3. Finalized(s, row)
  BY RowsFacts DEF Good, Finalized
<1> HIDE DEF row
<1>4. stored' = [stored EXCEPT ![s] = row] /\ stored'[s] = row
  BY <1>2 DEF row
<1>5. CASE row = stored[s]
  <2>1. stored' = stored
    BY <1>2, <1>4, <1>5
  <2> QED  BY <2>1, LedgerStutters
<1>6. CASE row # stored[s]
  <2>1. L!Replace(s, stored'[s])
    BY <1>1, <1>3, <1>4 DEF L!Replace
  <2>2. RowsBehind(stored', matrix')[s] # RowsBehind(stored, matrix)[s]
    BY <1>1, <1>4, <1>6
  <2>3. L!Next
    BY <1>1, <2>1, <2>2 DEF L!Next
  <2> QED  BY <2>3 DEF LedgerStep
<1> QED  BY <1>5, <1>6

\* Somebody tampers with a receipt that is still that of its body.
LEMMA LedgerTampers ==
  ASSUME CoreInv, Idle, UNCHANGED <<matrix, anchors>>, NEW s, Tamper(s)
  PROVE  LedgerStep
<1>1. /\ RowsBehind(stored, matrix) = stored /\ TableBehind(anchors, matrix) = anchors
      /\ RowsBehind(stored', matrix') = stored' /\ TableBehind(anchors', matrix') = anchors'
  BY LedgerViews
<1>2. stored = [t \in Sessions |-> stored[t]] /\ RowsOK(stored)
  BY IdleFacts
<1>3. s \in Sessions /\ stored[s] # Absent /\ ~Tampered(stored[s])
  BY DEF Tamper, Rows
<1> DEFINE row == stored[s]
<1>4. RowOK(s, row)
  BY <1>2, <1>3 DEF RowsOK
<1>5. Finalized(s, row)
  BY <1>3, <1>4, RowFacts DEF Finalized, Good
<1>6. stored' = [stored EXCEPT ![s] = Changed(row)]
  BY DEF Tamper, Changed
<1> HIDE DEF row
<1>7. CASE Changed(row) = stored[s]
  <2>1. stored' = stored
    BY <1>2, <1>6, <1>7
  <2> QED  BY <2>1, LedgerStutters
<1>8. CASE Changed(row) # stored[s]
  <2>1. L!Tamper(s)
    BY <1>1, <1>3, <1>5, <1>6 DEF L!Tamper, row
  <2>2. stored'[s] # stored[s]
    BY <1>2, <1>3, <1>6, <1>8
  <2>3. L!Next
    BY <1>1, <1>3, <2>1, <2>2 DEF L!Next
  <2> QED  BY <2>3 DEF LedgerStep
<1> QED  BY <1>7, <1>8

\* An anchor is appended that says what the tables say.
LEMMA LedgerCloses ==
  ASSUME CoreInv, Idle, UNCHANGED <<matrix, stored>>, NEW a, anchors' = Append(anchors, a),
         Closes(a),
         MemberRecords(a) = {EntryOf(a, s, stored[s]) : s \in Eligible(a.day, a.prefix)},
         \A m \in MemberRecords(a) : stored[m.session] # Absent,
         \A i \in DOMAIN anchors : ~OneBatch(anchors[i], a)
  PROVE  LedgerStep
<1>1. /\ RowsBehind(stored, matrix) = stored /\ TableBehind(anchors, matrix) = anchors
      /\ RowsBehind(stored', matrix') = stored' /\ TableBehind(anchors', matrix') = anchors'
  BY LedgerViews
<1>2. L!Selected(a) = Eligible(a.day, a.prefix)
  BY <1>1 DEF L!Selected, Belongs, Eligible, Rows
<1>3. L!Close(a)
  BY <1>1, <1>2 DEF L!Close
<1>4. IsASequence(anchors)
  BY DEF CoreInv, MatrixOK
<1> DEFINE n == Len(anchors) + 1
<1>5. n \in DOMAIN anchors' /\ anchors'[n] = a
  BY <1>4, AppendedRow
<1> HIDE DEF n
<1>6. L!Next
  BY <1>1, <1>3, <1>5 DEF L!Next
<1> QED  BY <1>6 DEF LedgerStep

\* Closing with the V1 profile does that,
LEMMA InsertedLedger ==
  ASSUME CoreInv, Idle, UNCHANGED <<matrix, stored>>, NEW day \in Int, NEW p,
         Closing(day, p) = "inserts", anchors' = Inserted(day, p)
  PROVE  LedgerStep
<1> DEFINE Q == Records(day, p)
           S == Normalized(Q)
           a == ProfiledRow(day, p, Commitment(S, Context(day)))
           E == Eligible(day, p)
<1>1. RowsOK(stored) /\ AnchorsOK(anchors)
  BY IdleFacts
<1>2. /\ Inserted(day, p) = Append(anchors, a) /\ Holds(a, S) /\ a.day = day /\ a.prefix = p
      /\ Buildable(Q)
  BY <1>1, ClosingFacts
<1>3. ProfiledIds(day, p) = {} /\ \A r \in S : r.session \in Rows
  BY DEF Closing
<1>4. a.profile = "v1"
  BY DEF ProfiledRow
<1>5. RecordSet(Q) /\ \A r \in Q : r.session \in Sessions
  BY <1>1, RecordFacts
<1>6. Q = {Record(s) : s \in E}
  BY DEF Records
<1> HIDE DEF E, Q
<1>7. /\ S = {InNormalForm(r) : r \in Q} /\ RecordSet(S)
      /\ \A r \in Q : /\ InNormalForm(r).session = Nfc[r.session]
                      /\ InNormalForm(r).start = r.start
                      /\ InNormalForm(r).hash = r.hash
  BY <1>2, <1>5, NormalizedFacts
<1> HIDE DEF S, a
<1>8. MemberRecords(a) = S /\ a.context = Context(a.day)
  BY <1>2, HoldsFacts
<1>9. Closes(a)
  BY <1>2, <1>8, ProfiledVerifies DEF Closes, OwnContext
<1>10. ASSUME NEW s \in E
       PROVE  EntryOf(a, s, stored[s]) = InNormalForm(Record(s))
  <2> DEFINE r == Record(s)
  <2>1. r \in Q /\ r.session = s /\ r.start = stored[s].start /\ r.hash = stored[s].hash
    BY <1>6 DEF Record
  <2> HIDE DEF r
  <2>2. IsRecord(InNormalForm(r))
    BY <1>7, <2>1 DEF RecordSet
  <2>3. InNormalForm(r) = [session |-> Nfc[s], start |-> stored[s].start, hash |-> stored[s].hash]
    BY <1>7, <2>1, <2>2 DEF IsRecord
  <2> QED  BY <1>4, <2>3 DEF EntryOf, r
<1>11. MemberRecords(a) = {EntryOf(a, s, stored[s]) : s \in E}
  <2>1. S = {InNormalForm(Record(s)) : s \in E}
    BY <1>6, <1>7
  <2> QED  BY <1>8, <1>10, <2>1
<1>12. \A m \in MemberRecords(a) : stored[m.session] # Absent
  BY <1>3, <1>8 DEF Rows
<1>13. \A i \in DOMAIN anchors : ~OneBatch(anchors[i], a)
  BY <1>2, <1>3 DEF OneBatch, ProfiledIds
<1>14. anchors' = Append(anchors, a)
  BY <1>2
<1> QED  BY <1>2, <1>9, <1>11, <1>12, <1>13, <1>14, LedgerCloses DEF E

\* and so does closing with the legacy profile, whose memberships have no
\* start.
LEMMA LegacyLedger ==
  ASSUME CoreInv, Idle, UNCHANGED <<matrix, stored>>, NEW day, NEW p, Records(day, p) # {},
         anchors' = Append(anchors, LegacyRow(day, p, Records(day, p)))
  PROVE  LedgerStep
<1> DEFINE Q == Records(day, p)
           E == Eligible(day, p)
           a == LegacyRow(day, p, Q)
           n == Cardinality(Q)
           ordered == Arranged(Q, EarlierBySession)
           Said(r) == [session |-> r.session, start |-> Absent, hash |-> r.hash]
<1>1. RowsOK(stored) /\ AnchorsOK(anchors)
  BY IdleFacts
<1>2. LegacySet(Q)
  BY <1>1, RecordFacts DEF LegacySet
<1>3. a.day = day /\ a.prefix = p /\ a.profile = "legacy"
  BY DEF LegacyRow
<1>4. ListsHashes(a, Q)
  BY <1>2, <1>3 DEF ListsHashes
<1>5. Q = {Record(s) : s \in E}
  BY DEF Records
<1>6. /\ ordered \in [1..n -> Q] /\ \A r \in Q : \E i \in 1..n : ordered[i] = r
  BY <1>2, BySessionArranged DEF LegacySet
<1>7. a.members = [i \in 1..n |-> [session |-> ordered[i].session, start |-> Absent,
                                   hash |-> ordered[i].hash, leaf |-> Absent, index |-> i - 1]]
  BY <1>6 DEF LegacyRow
<1> HIDE DEF Q, E, a, n, ordered
<1>8. Closes(a)
  BY <1>3, <1>4, LegacyFacts DEF Closes, OwnContext
<1>9. MemberRecords(a) = {Said(r) : r \in Q}
  <2>1. DOMAIN a.members = 1..n
    BY <1>7
  <2>2. Range(a.members) = {a.members[i] : i \in 1..n}
    BY <2>1 DEF Range
  <2>3. \A i \in 1..n : /\ a.members[i].session = ordered[i].session
                        /\ a.members[i].start = Absent /\ a.members[i].hash = ordered[i].hash
    BY <1>7
  <2>4. MemberRecords(a) = {Said(ordered[i]) : i \in 1..n}
    BY <2>2, <2>3 DEF MemberRecords
  <2> QED  BY <1>6, <2>4
<1>10. ASSUME NEW s \in E
       PROVE  Said(Record(s)) = EntryOf(a, s, stored[s])
  BY <1>3 DEF EntryOf, Record
<1>11. MemberRecords(a) = {EntryOf(a, s, stored[s]) : s \in E}
  <2>1. MemberRecords(a) = {Said(Record(s)) : s \in E}
    BY <1>5, <1>9
  <2> QED  BY <1>10, <2>1
<1>12. \A m \in MemberRecords(a) : stored[m.session] # Absent
  <2>1. \A s \in E : stored[s] # Absent
    BY DEF E, Eligible, Rows
  <2>2. \A s \in E : Said(Record(s)).session = s
    BY DEF Record
  <2> QED  BY <1>5, <1>9, <2>1, <2>2
<1>13. \A i \in DOMAIN anchors : ~OneBatch(anchors[i], a)
  BY <1>3 DEF OneBatch
<1> QED  BY <1>3, <1>8, <1>11, <1>12, <1>13, LedgerCloses DEF E, a, Q

\* The day of a sweep is closed like any other.
LEMMA SweepLedger ==
  ASSUME CoreInv, Idle, UNCHANGED matrix, SweepDay
  PROVE  LedgerStep
<1> DEFINE day == CHOOSE d \in sweep.todo : \A e \in sweep.todo : d <= e
<1>1. /\ sweep.todo # {} /\ UNCHANGED stored
      /\ anchors' = IF Closing(day, sweep.prefix) = "inserts"
                    THEN Inserted(day, sweep.prefix) ELSE anchors
  BY DEF SweepDay
<1>2. day \in Int
  BY <1>1, IdleFacts, LeastDay DEF SweepTyped
<1> HIDE DEF day
<1>3. CASE Closing(day, sweep.prefix) = "inserts"
  BY <1>1, <1>2, <1>3, InsertedLedger
<1>4. CASE Closing(day, sweep.prefix) # "inserts"
  BY <1>1, <1>4, LedgerStutters
<1> QED  BY <1>3, <1>4

\* A run stores bodies, closes its day, and reads.
LEMMA RunLedger ==
  ASSUME CoreInv, RunStep
  PROVE  LedgerStep
<1>1. Idle /\ RunTyped(run) /\ (run.phase # "none" => Plan # Absent)
  BY DEF RunStep, CoreInv
<1>2. CASE StartRun \/ CheckDay \/ VerifyRun \/ ExportRun \/ ReconcileRun
  <2>1. UNCHANGED <<stored, anchors, matrix>>
    BY <1>2 DEF StartRun, CheckDay, VerifyRun, ExportRun, ReconcileRun
  <2> QED  BY <2>1, LedgerStutters
<1>3. CASE PersistNext
  <2> DEFINE s == Plan.ids[run.made + 1]
  <2>1. /\ run.phase = "persisting" /\ run.made < Len(Plan.ids)
        /\ UNCHANGED <<anchors, matrix>>
    BY <1>3 DEF PersistNext
  <2>2. PICK session \in Plan.sessions[s] : Store(s, session)
    BY <1>3 DEF PersistNext
  <2>3. Plan # Absent /\ Plan.ids \in Seq(Sessions)
    BY <1>1, <2>1, WorkAssumption DEF CoreInv, Plan, Allowed
  <2>4. s \in Sessions /\ s \in Range(Plan.ids)
    <3>1. run.made + 1 \in 1..Len(Plan.ids)
      BY <1>1, <2>1, <2>3, LenProperties DEF RunTyped
    <3>2. Plan.ids \in [1..Len(Plan.ids) -> Sessions]
      BY <2>3, LenProperties
    <3> QED  BY <3>1, <3>2 DEF Range
  <2>5. Good(session)
    BY <2>2, <2>3, <2>4, WorkAssumption DEF CoreInv, Plan, Allowed, Good, Generated
  <2> HIDE DEF s
  <2>6. stored' = [stored EXCEPT ![s] = RowsOf(s, session)]
    BY <2>2 DEF Store
  <2> QED  BY <1>1, <2>1, <2>4, <2>5, <2>6, LedgerReplaces
<1>4. CASE CloseRun
  <2>1. /\ run.phase = "closing" /\ UNCHANGED <<stored, matrix>>
        /\ anchors' = IF Closing(Plan.day, Plan.prefix) = "inserts"
                      THEN Inserted(Plan.day, Plan.prefix) ELSE anchors
    BY <1>4 DEF CloseRun
  <2>2. Plan.day \in Int
    BY <1>1, <2>1, WorkAssumption DEF CoreInv, Plan, Allowed
  <2>3. CASE Closing(Plan.day, Plan.prefix) = "inserts"
    BY <1>1, <2>1, <2>2, <2>3, InsertedLedger
  <2>4. CASE Closing(Plan.day, Plan.prefix) # "inserts"
    BY <2>1, <2>4, LedgerStutters
  <2> QED  BY <2>3, <2>4
<1> QED  BY <1>2, <1>3, <1>4 DEF RunStep

\* Whatever clients, sweeps, runs and tamper matrices do in whatever order,
\* the tables behind the savepoint change as the ledger says.
THEOREM LedgerIsImplemented == Spec => ImplementsLedger
<1>1. Init => L!Init
  <2>1. SUFFICES ASSUME Init PROVE L!Init
    OBVIOUS
  <2>2. matrix.phase = "none"
    BY <2>1 DEF Init, NoMatrix
  <2> QED  BY <2>1, <2>2 DEF Init, L!Init, RowsBehind, TableBehind
<1>2. ASSUME CoreInv, [Next]_vars
      PROVE  LedgerStep
  <2>1. CASE \E s \in Sessions : \E body \in Allowed.posts[s] : Finalize(s, body) /\ Meanwhile
    <3>1. PICK s \in Sessions : \E body \in Allowed.posts[s] : Finalize(s, body) /\ Meanwhile
      BY <2>1
    <3>2. PICK body \in Allowed.posts[s] : Finalize(s, body) /\ Meanwhile
      BY <3>1
    <3>3. Good(Parsed(body))
      <4>1. IsBody(body)
        BY <1>2, WorkAssumption DEF CoreInv, Allowed
      <4> QED  BY <3>2, <4>1, ParsedBody DEF Finalize, Good
    <3>4. stored' = [stored EXCEPT ![s] = RowsOf(s, Parsed(body))] /\ UNCHANGED anchors
      BY <3>2 DEF Finalize, Store
    <3> QED  BY <1>2, <3>2, <3>3, <3>4, MeanwhileFacts, LedgerReplaces
  <2>2. CASE \E s \in Allowed.tampering : Tamper(s) /\ Meanwhile
    <3>1. PICK s \in Allowed.tampering : Tamper(s) /\ Meanwhile
      BY <2>2
    <3>2. UNCHANGED anchors
      BY <3>1 DEF Tamper
    <3> QED  BY <1>2, <3>1, <3>2, MeanwhileFacts, LedgerTampers
  <2>3. CASE \E c \in Allowed.closings : CloseDay(c[1], c[2]) /\ Meanwhile
    <3>1. PICK c \in Allowed.closings : CloseDay(c[1], c[2]) /\ Meanwhile
      BY <2>3
    <3>2. c[1] \in Int
      BY <1>2, WorkAssumption DEF CoreInv, Allowed
    <3>3. /\ Closing(c[1], c[2]) = "inserts" /\ anchors' = Inserted(c[1], c[2])
          /\ UNCHANGED stored
      BY <3>1 DEF CloseDay
    <3> QED  BY <1>2, <3>1, <3>2, <3>3, MeanwhileFacts, InsertedLedger
  <2>4. CASE \E c \in Allowed.closings : CloseLegacyDay(c[1], c[2]) /\ Meanwhile
    <3>1. PICK c \in Allowed.closings : CloseLegacyDay(c[1], c[2]) /\ Meanwhile
      BY <2>4
    <3>2. /\ Records(c[1], c[2]) # {} /\ UNCHANGED stored
          /\ anchors' = Append(anchors, LegacyRow(c[1], c[2], Records(c[1], c[2])))
      BY <3>1 DEF CloseLegacyDay
    <3> QED  BY <1>2, <3>1, <3>2, MeanwhileFacts, LegacyLedger
  <2>5. CASE \E p \in Allowed.sweeps : StartSweep(p) /\ Meanwhile
    <3>1. UNCHANGED <<stored, anchors, matrix>>
      BY <2>5 DEF StartSweep, Meanwhile
    <3> QED  BY <3>1, LedgerStutters
  <2>6. CASE SweepDay /\ Meanwhile
    BY <1>2, <2>6, MeanwhileFacts, SweepLedger
  <2>7. CASE MatrixStep
    BY <1>2, <2>7, MatrixViews DEF LedgerStep
  <2>8. CASE RunStep
    BY <1>2, <2>8, RunLedger
  <2>9. CASE UNCHANGED vars
    BY <2>9, LedgerStutters DEF vars
  <2> QED  BY <1>2, <2>1, <2>2, <2>3, <2>4, <2>5, <2>6, <2>7, <2>8, <2>9 DEF Next, MatrixStep
<1> QED  BY <1>1, <1>2, CoreInvariance, PTL DEF Spec, ImplementsLedger, L!Spec, LedgerStep
=============================================================================
