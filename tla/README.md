# Proof-of-Charge: TLA+ models and proofs

This directory holds the specifications of the Proof-of-Charge backend: a Python service
that turns EV charging sessions into hashed receipts, closes the receipts of a day into a
Merkle batch, publishes the batch root on a chain, and later verifies and audits what was
stored. Source references are `path:line` in the repository.

## 1. The system

| Component | Source | State it keeps | Operations |
|---|---|---|---|
| HTTP API | `src/main.py`, `src/api_service.py` | none (handlers run in a thread pool, so concurrently) | finalize, publish-chain, verify-chain, proofs, audit |
| Receipt construction | `src/receipt_builder.py`, `receipt_schema.py`, `receipt_canonicalization.py` | none | `build_receipt`, `hash_receipt` |
| Receipt store | `src/repository.py`, `models.py`, `db.py` | tables `sessions`, `meter_values`, `receipts` | `persist_finalized_session` (insert or replace) |
| Batch closing | `src/batch_anchoring.py`, `src/repository.py` | tables `batch_anchors`, `batch_anchor_receipts` | `anchor_day`, `anchor_all_days`, `persist_batch_anchor` |
| Batch commitment | `src/batch_merkle.py`, `src/merkle.py` | none | commitment, membership proof, proof verification |
| Batch verification and audit | `src/verifier_batch.py`, `src/batch_service.py` | table `verifications` (append only) | `verify_day`, `verify_anchor_from_db`, `audit_batch_membership` |
| Chain publication | `src/blockchain/*.py`, `scripts/deploy_anchor.py` | `batch_anchors.chain_tx` | `publish_batch_anchor(_by_id)`, `verify_on_chain_anchor(_by_id)`, deploy |
| Anchor contract | `contracts/src/ProofOfChargeAnchor.sol` | owner, write-once entry per (day, prefix) | `anchorBatch`, `getAnchor`, `transferOwnership` |
| File store | `src/storage.py`, `import_receipts.py`, `audit_day.py` | `receipts/*.json`, `index.json`, `anchors.json` | `save_receipt`, `anchor_day_from_files`, import, audit |
| Receipt and meter verification | `src/verifier.py`, `meter_verifier.py`, `audit_service.py`, `session_validation.py` | `verifications` | rebuild and compare |
| Experiments, tamper scenarios, reports | `src/run_experiment.py`, `count_reconciliation.py`, `tamper*.py`, `export.py`, ... | files of a run | sequential drivers and reports |

How they interact: finalization writes `receipts`; closing reads `receipts` and writes anchors
in a transaction of its own; publication reads an anchor, calls the chain through the `cast`
command, and writes `chain_tx` back; verification and audit read anchors, memberships and the
*current* receipts; nothing locks. The database runs at READ COMMITTED, so two statements of
one transaction can see different data.

What is hard, and what makes each part correct:

* **Closing** is check-then-insert across several statements, concurrent with other closers
  and with receipts that stay mutable. Correct: a closed day keeps its one snapshot; a caller
  that is told "anchored" really has that root stored; re-closing is idempotent or refused
  with a reason; every call ends.
* **Publication** writes two stores that share no transaction. Correct: the chain never holds
  what the database does not know; a recorded hash belongs to its row; nothing is anchored
  twice at one contract; a retry gets a closed batch into it. A recreated development chain, an
  undeployed contract, a second contract on the same chain, a hand-over and a failure between
  any two steps all happen between the steps of a call.
* **Finalization** is an upsert of three tables by concurrent requests, without an intended
  lock. Correct: the stored session, meter rows and receipt are those of one request, and
  every request ends.
* **The file store** rewrites shared JSON files in place, from concurrent requests and from
  operator commands, and any of them can die between truncating a file and writing it. Correct:
  no batch and no accepted receipt is lost silently, and the index never claims a batch that
  was not saved.
* **The Merkle profile** has boundary cases at odd levels; a proof must verify exactly for
  the leaves of the tree.
* **Day assignment** mixes a UTC window with the local date of a timestamp's text.

* **Receipt construction and its verification** round and format in two places: the builder
  subtracts rounded readings and hashes the posted texts, the verifier rounds the difference
  and formats instants. Correct: what nobody touched verifies, what somebody touched does not.
* **The laboratory** (tamper matrix, experiment runs) changes the database it measures.
  Correct: a scenario is seen by the layers it is meant for and leaves no trace; a run that
  reconciles has really verified what it made.

`PROJECT.json` lists these at their lines as hazards, each with the properties that watch it.

## 2. Modules

| Module | Role |
|---|---|
| `BatchCommitment` | Data: leaves, roots, anchor rows, what makes a row recompute (`Sealed`) |
| `AnchorTable` | Abstract specification: a table of sealed anchors that only grows |
| `BatchAnchoring` | Closing in PostgreSQL: closers, finalizations, and the readers as operators |
| `BatchAnchoringProofs` | Type correctness, the inductive invariant, refinement of `AnchorTable`; snapshots against current receipts; the closed-once results for serial closes |
| `MCBatchAnchoring` | Model values for the runs |
| `AnchorContract` | The Solidity contract: constructor, `anchorBatch`, `transferOwnership` |
| `ChainPublication` | Publishers, chain and database composed over `AnchorContract` |
| `MCChainPublication` | Model values for the runs |
| `ReceiptTable` | Abstract specification: the receipt of a session is replaced as a whole |
| `ReceiptStore` | Finalization in PostgreSQL by concurrent requests, statement by statement |
| `ReceiptStoreProofs` | Receipts are of one request; refinement of `ReceiptTable`; sessions without overlapping requests |
| `ChainPublicationProofs` | The safety properties of publication |
| `MCReceiptStore` | Model values for the runs |
| `FileStore` | The JSON files: requests and operator commands, write by write, with crashes |
| `FileStoreProofs` | What the files keep under any interleaving and any crash |
| `FileStoreSerialProofs` | What callers leave that take turns: stores agree, marked days verify, imports; the types |
| `MCFileStore` | Model values for the run |
| `BatchMerkle` | Data: trees, commitments, membership proofs and their verification |
| `ReceiptAlgorithms` | Data: from a posted session to its receipt, its rows, and their verification |
| `Verification` | Tables with real contents: finalize, close, sweep, tamper, verify, audit |
| `TamperMatrix` | The seven scenarios of the tamper matrix, over `Verification` |
| `Experiment` | A run of an experiment among other clients, and the properties of it all |
| `Ledger` | Abstract specification: what the tables may do, whoever uses them |
| `Ranking` | Lemmas: positions in a finite set with a total order |
| `MerkleProofs` | Lemmas: trees, commitments and membership proofs for any number of leaves |
| `ExperimentProofs` | The properties of receipts, batches, sweeps, the matrix and experiment runs; refinement of `Ledger` |
| `MCExperiment` | Bodies, workloads and model values for the runs |

There are two stacks. `BatchAnchoring`, `ChainPublication`, `ReceiptStore` and `FileStore` have
the interleavings and the failures over abstract contents. The chain
`BatchMerkle` < `ReceiptAlgorithms` < `Verification` < `TamperMatrix` < `Experiment` (each
EXTENDS the one before) has the real contents, and every operation in it is one transaction.
Both carry proofs.

### BatchAnchoring

One *closer* is one call of `anchor_day_from_db`. Its steps are the statements at which
another transaction's commit can become visible:

| Action | Code |
|---|---|
| `BeginClose` | arguments and the eligibility query; empty set raises (`batch_anchoring.py:182-207`) |
| `CheckClosed` | the V1 closure check: none, ambiguous, identical, changed (`:208-216`) |
| `LookupRoot` | `persist_batch_anchor` looks for the same (day, prefix, root) (`repository.py:144-150`) |
| `ReuseAnchor` | the row exists: add missing memberships, commit (`:151-156`, `:238-261`, `batch_anchoring.py:238`) |
| `FlushAnchor` | the INSERT: waits for a transaction with the same key, raises, or takes an id (`repository.py:158-176`) |
| `CommitAnchor` | row and memberships become visible together (`batch_anchoring.py:238`) |
| `AbortClose` | the process or the connection dies before the commit (`:240-242`) |
| `Finalize` | a receipt is inserted or replaced, in one step (`repository.py:11-113`) |
| `Tamper` | `receipt_json` is changed under an unchanged `receipt_hash` (`tamper.py:63-104`) |

`receipts` is the table by session; `anchors` the committed rows with their memberships;
`closer` holds the local variables (`leaves` is the commitment a call computed, `outcome` what
it returned or raised). SHA-256 is injective and a receipt hash covers the receipt, so a leaf
is (session, start, rest) and a root is the set of leaves, plus the day in profile V1
(the context hash covers the window). `intact` of a receipt says whether its `receipt_json`
still hashes to the stored hash, which only the audit looks at (`batch_service.py:35-37`). That the tree determines the set is assumed here;
`RootsDistinguish` checks it on the trees of `BatchMerkle`. An id is taken where the INSERT goes through; the
gap a waiting INSERT may leave in the sequence is not modelled (only the order of ids of
committed rows matters, and any order is reachable). Legacy closes skip the closure check, as
in the code. `Scope` is any function from prefixes to sessions.

### ChainPublication

One *publisher* is one call of `publish_batch_anchor(_by_id)`, in a process configured with one
`ANCHOR_CONTRACT_ADDRESS`, which is an argument of `Load`: calls of different configurations run
side by side. `Load` reads the row (its guards are the two early raises), `Estimate` is the gas estimation in which `cast send` refuses a call
that would revert, `Mine` puts the transaction on whatever the chain is by then, `ReadReceipt`
is `cast receipt`, `RecordTx` assigns `chain_tx`, flushes and commits without reading the row
again, and `FailPublish` is a failure between any two of them. A transaction has one of three
results: it anchored; it was mined with status 0 (another transaction came between estimation
and mining; the publisher only reports the status, `publisher.py:154`); or it was sent to an
address without code and succeeded without effect. `RestartChain` is the Anvil container being
recreated (`README.md:266-268`); contracts and transactions are gone, `chain_tx` stays, and the
addresses may come again, because they depend on the account and its nonce only.
`Deploy` uses the operator's key, as `scripts/deploy_anchor.py` does with `ANCHOR_PRIVATE_KEY`.
Like the script it does not look at what the chain has: a second contract, at an address of its
own, is what `scripts/run_chain_smoke.sh:54-62` gets on a chain that was in use. So "anchored
twice" is a statement about one contract, and a recorded hash is compared with the contract its
transaction went to: `chain_tx` keeps no address, and `verify-chain` configured with another one
finds no entry. `CloseBatch` is the append of a row of a new (day, prefix, root), which
`BatchAnchoring` refines.

A transaction hash is modelled by what it covers (chain, address, day, prefix, root) and what
became of it. Hashes of different chains are taken to be different, so that `cast receipt` does
not find those of a lost chain; two futile transactions with the same contents share one, which no
property tells apart. `saw` in a publisher's record is not state of the program: it remembers on
which chain the hash the call read had anchored the row, for `GoodHashLostOnlyInRaces`.

### ReceiptStore

One *request* is one call of `persist_finalized_session`. Sessions of the ORM do not flush
before queries (`db.py:85`), so its order in the database is not the order of its lines:

| Action | Code |
|---|---|
| `Begin` | `session.get(ChargingSession)` (`repository.py:44`) |
| `DeleteMeters`, `ResumeDelete` | the DELETE of the meter rows, at once or after waiting for a transaction that has deleted them (`:69`) |
| `LoadReceipt` | `session.get(Receipt)` (`:83`) |
| `FlushSession` | at the commit, the INSERT or UPDATE of the sessions row prepared in `:45-67` |
| `FlushRows` | then the meter rows and the receipts row prepared in `:70-113`; a duplicate (session_id, sample_index) raises |
| `Commit`, `Abort` | `:20-23`, `:24-30` |
| `BreakDeadlock` | PostgreSQL rolls back one transaction of a cycle (not in `src/`) |

`sessions` and `receipts` hold rows as functions of their columns, because the ORM writes only
the columns whose new value differs from the value it *read* (`WriteChanged`). `meters` holds the
request whose samples are stored. Waiting is a disabled action; `MeterHolders` and `RowHolders`
are the open transactions that hold what a statement needs. Meter lists have at least two
samples (`receipt_builder.py:202-203`), so sample 0 always exists. `BatchAnchoring` takes a
finalization as one step that replaces one receipt: `ReceiptStore` implements `ReceiptTable`,
which is that step.

What the model says about the code: nobody wrote a lock, but the DELETE of the old meter rows
works as one. A second request waits there, misses the new rows (they are outside its
snapshot), and fails at their unique key; the receipt is read after that point, so receipts are
never mixed. The sessions row is read *before* it and is not protected.

### FileStore

One *request* is one call of `finalize_session`, one *command* is a call of `anchor_day`,
`anchor_all_days`, `import_receipts` or the tamper helper, by one operator. `mode` is the
configuration: files only, database and files, database only.

| Action | Code |
|---|---|
| `Begin` | the request (`main.py:44-60`); in mode `files` this is where the receipt is accepted |
| `Persist`, `PersistFails` | the database commit, before any file (`main.py:60-61`) |
| `OpenReceipt`, `FillReceipt` | `receipts/<session>.json` is truncated, then written (`storage.py:36-43`) |
| `LoadIndex`, `OpenIndex`, `FillIndex` | `index.json` is read, changed in memory, truncated, written (`storage.py:46-54`) |
| `StartAnchorDay`, `StartAnchorAllDays`, `OpLoad`, `OpRead`, `OpReadDone` | the index, then one receipt file after the other |
| `OpOpenAnchors`, `OpFillAnchors` | `anchors.json` is read, appended to, truncated, written |
| `OpOpenIndex`, `OpFillIndex` | the roots go into the copy of the index that was read at the start |
| `StartImport`, `ImportReceipts`, `ImportAnchors` | receipts in one commit, then anchors in another |
| `StartTamper`, `TamperRead`, `TamperOpen`, `TamperFill` | the index is looked up, the receipt file read, truncated, and written with another energy (`tamper.py:30-48`) |
| `EnableDatabase`, `CrashServer`, `CrashOperator` | |

A truncated file reads as `Empty`; a write over another writer's open file leaves one of the two
texts or `Garbage`; both end whoever reads them with an exception. Verification, `audit_day` and
the audit of imported anchors are operators on the files.

`ImportAnchors` is one commit or none. The import adds the memberships that a row lacks
(`Missing`, `LeafOf`), and the commit fails, and everything is rolled back, when a membership names
a session without a row (`SessionMissing`), when two batches of one row add it twice because the
session does not flush before it reads (`AddedTwice`, `db.py:85`), or when the row has given the
leaf index to another session (`LeafTaken`).

### BatchMerkle and ReceiptAlgorithms

A hash is the tuple of what is hashed, so equal hashes mean equal contents and nothing else is
assumed of SHA-256. Levels, depth, siblings and the loop of `verify_membership_proof` are
recursive functions, as in the code. In `ReceiptAlgorithms` a posted body becomes a receipt or
is rejected (`Receipt`, `Accepted`), then the rows of three tables (`RowsOf`); `ReceiptCheck`,
`MeterCheck`, `AuditCheck` and `SessionAudit` are the four verifiers. Energies and money are
integers in parts of the rounding step. A timestamp is a text: a clock in half seconds, the zone at
its end (none, an offset, "Z"), and whether the fraction of the second is written as `isoformat`
writes it (nothing, or ".500000") or otherwise (".000", ".5"). `UtcText` is the text that
`_canonical_ts` makes of an instant, so ".000Z" and ".5Z" do not survive the way through a column.
`TextBefore` compares seconds and then what follows them (`EndingRank`), character by character in
the code, by a table of the twelve endings here. Half a second stands for every fraction, and one
offset for all; "+00:00" is an offset of 0, and a text nonetheless that the verifier rewrites.

### Verification, TamperMatrix, Experiment

`stored` has the rows of every session, `anchors` the rows of `batch_anchors` with theirs.
`CloseDay`, `CloseLegacyDay`, `Finalize` and `Tamper` are single transactions; `StartSweep` and
`SweepDay` are `anchor_all_days`, one commit per day. `Scope` is what LIKE selects, wildcards
included.

The matrix is one transaction: for each scenario `Mutate` (baseline checks, savepoint, change),
`Judge` (checks, rollback to the savepoint) and `RecordScenario` (checks again, the record).
Under READ COMMITTED it would see what others commit meanwhile; the model assumes that nobody
does (`NobodyCommits`, the guard `Idle` of the other actions), because it is run by hand on
a quiet database.

An experiment is `StartRun`, `PersistNext` for every session, `CheckDay`, `CloseRun`, `VerifyRun`,
`ExportRun`, `ReconcileRun`: each step a transaction of its own, with the actions of clients
before and between them. What a run stores is any session that the generator can make
(`Generated`: `src/synthetic_sessions.py:115-228`). `workload`, chosen once in `Init`, says what clients may do in a behaviour.

What all of them promise together is `Ledger`, with two variables and three steps: the rows of a
session are replaced as a whole by those of an accepted body (`Replace`), somebody tampers with a
receipt that is still that of its body (`Tamper`), or an anchor is appended that verifies by
itself, lists exactly the receipts of its day and prefix as the rows are at that moment, and, in
profile V1, is the first of its day and prefix (`Close`). `Ledger` knows nothing of calls, days of a
sweep, phases of a run, scenarios or trees; its constants say what a row and an anchor mean. The
refinement mapping hides the tamper matrix: `RowsBehind` and `TableBehind` are the tables apart from
the change whose savepoint is open, so a scenario implements it only if the change and its rollback
both map to stuttering steps.

## 3. Runs

| Run | Expect | What it shows |
|---|---|---|
| `serial_close` | pass | one closer at a time, both profiles, two days, two prefixes, receipts that move between days: a day stays closed once, verification finds the returned anchor, audit and re-close agree up to receipts that were tampered with, changes are named, the table only grows by sealed rows |
| `concurrent_close` | pass | two interleaved closers: what is returned is stored, at most one snapshot per closer, every call ends |
| `overlapping_close` | `ClosedOnce` violated | two overlapping closes store two V1 snapshots of one day |
| `verify_target` | `VerifyReadsLatest` violated | verification prefers the V1 anchor to a later legacy one |
| `publish` | pass | two publishers, two rows, two contracts on one chain, failures anywhere: what is on chain is committed, each contract takes a day once, a recorded anchor verifies, and good hashes are lost in races only |
| `retry` | pass | a closed batch reaches every contract the operator owns when publication is retried, over three chains, two addresses and hand-overs |
| `lost_hash` | `PublishedIsRecorded` violated | a failure between mining and commit loses the hash for good |
| `finalize` | pass | overlapping finalizations of one session: receipt and meter rows are of one request, replaced as a whole, and every call ends, through waits, duplicate keys and deadlocks; without overlaps the sessions row agrees too |
| `torn_session` | `SessionMatchesReceipt` violated | the sessions row mixes two requests |
| `files` | pass | two requests and an operator over the JSON files, crashes at every write: what survives them, what holds when callers take turns, when imports and `audit_day` are right |
| `experiment` | pass | receipts, meter streams, proofs, roots, sweeps, the matrix and experiment runs with real contents, and that together they change the tables only as `Ledger` says |
| `unrecorded` | `VerdictIsRecorded` violated | `verify_day` never stores its verdict |

**Bounds.** `Tamperable` is one session in `serial_close` and none where nobody audits.
`MaxAnchors` (2, 3): two rows of one day and prefix are what `ClosedOnce`, reuse,
the identity conflict and the choice of the latest row need; three ids let a conflict follow
two snapshots; where an insert finds no id left, fairness lets its call abort. Two sessions and three starts on two days let a receipt be added, replaced
within the day, and moved out of it; three sessions let two overlapping closers read two
different non-empty sets and a third call meet both. `MaxRows` 2, `Keys` 2 sharing a day:
rows that compete for one entry and rows that must not. Two `Addresses`: a
redeployment on the live chain, between and during calls. `publish` has one chain and one owner,
for its size; `retry` has one publisher and one row with three chains (a second restart meets
hashes of the first two) and a second owner. Futile transactions and failures need no bound: they
leave nothing but a hash or an idle publisher, and those that anchor are bounded by keys, addresses
and chains. That the safety properties hold with both at once is what the theorems say.
Finalizations of different sessions share no row, so one session is enough in
`finalize`. Two requests there, whose calls begin again after they end: that is enough for a wait,
a duplicate key, a deadlock, and a third call that meets what the first two left. A third request
at once makes the liveness check too large; for the safety properties the proofs have any
number. Three payloads, two of which agree in one column and two in the other, are what a mixed
row needs (read one, meet another, write the third).

`files`: two sessions whose hashes come in the order of their ids (`p1`) and in the other (`p2`),
and a receipt of a second day (`p3`); `MaxFinalize` 2 and `MaxCommands` 3 allow a finalization
between anchoring and import, a finalization of a session that is already anchored, two overlapping
requests with a command between their writes, a second batch, two equal batches of a day and their
import, and tampering between anchoring and import.

`experiment`: a step is `Sub` = 3 parts, so that differences of rounded readings and rounded
differences can disagree; `Grid` = 5 steps to a kWh, `DayLength` = 10 half seconds and `Offset` = 2 are
the smallest with sessions that cross what they must cross. Workloads: `posting` (one client
and twenty-seven bodies, among them those that must be rejected, and readings in other
spellings of UTC and in each order within a second), `batches` (up to five sessions:
trees of zero to three levels above the leaves, odd and even), `days` (sweeps with local
starts of the next day, and two ids of one normal form), `tampering` (the matrix, on either
profile, after a foreign change or not), `running` (an experiment of two sessions of every kind the
generator makes, while clients finalize one of them and a third that its prefix selects, and tamper
with the other), `contested` (the same with one kind of session, and clients that also close the day
and replace a member of the batch, before the run starts or between its steps), `empty` (a run
without sessions), `composed` (an id that is not in normal form), `escaped` (an id that the LIKE
pattern made of the run id does not match). A run is started once, because the
directory of a run must not exist. One sweep, one matrix, one legacy row, and one foreign change of a row: a second of each repeats
the first.

`SYMMETRY` permutes publishers, roots, addresses and prefixes in `publish` and requests in `files`, runs without
liveness properties. Runs that set `CHECK_DEADLOCK FALSE` are those in which the bounds let all
callers finish (`files`) or a workload is used up (`experiment`, `unrecorded`).

**Fairness.** `FairSpec` of `BatchAnchoring`: a call that has started keeps running (`WF` on its
own steps); its INSERT may be disabled while another transaction holds the key, and that
transaction is fair too, so weak fairness is enough. Nothing forces a call to begin, a session to
be finalized or a connection to be lost. `RetrySpec`: a publisher's own steps
are weakly fair, failures stop some day (`<>[]` of no failing step), and every row is retried by
id with `force`, for each address, again and again, also if other calls
keep the publisher busy (`SF` on `LoadById`). Deployment is not fair: the property speaks of
contracts that are there. Retrying is what an operator does with the command or
endpoint; the code itself never retries. Without `force` the property fails, because a
publication to an address without code, or to another contract, is recorded in `chain_tx` and
blocks further unforced calls.

In `ReceiptStore`, a call keeps running and one that waits for a lock gets it in the end (`SF`
on its steps: PostgreSQL serves a lock's queue in order), and a deadlock is detected. Calls need
not begin and may be rolled back at any time. `FileStore` and `Experiment` state no liveness:
every loop there is over a finite set, and a call ends or its process is killed.

## 4. What the models found

* **Two snapshots of a closed day** (`overlapping_close`, `batch_anchoring.py:208`). The
  closure check and the insert are separate statements and the unique constraint includes the
  root. `docs/specifications/poc_batch_merkle_v1.md:80-82` promises one immutable snapshot.
  Afterwards each close and `verify_day` of the day raises "Ambiguous". The damage is bounded
  by the number of overlapping calls (`SnapshotsBoundedByClosers`); a unique constraint on
  (day, prefix, profile) for V1, or a lock around check and insert, would restore
  `ClosedOnce`, as the serial run and `SerialClosedOnce` show.
* **A lost transaction hash** (`lost_hash`, `blockchain/publisher.py:138`). If anything fails
  between the mined transaction and the commit, `chain_tx` stays NULL although the root is on
  the chain, and the contract refuses every retry (`AnchorAlreadyExists`).
* **Which anchor verification reads** (`verify_target`, `verifier_batch.py:186`). The V1
  anchor, not "the latest matching anchor" of `README.md:625`; publication and on-chain
  verification do use the latest.
* **A mixed session row** (`torn_session`, `repository.py:44`). Overlapping re-finalizations of a
  session leave a sessions row with columns of both requests, or the `session_json` of one beside
  the receipt and meter rows of the other; an audit that rebuilds the receipt from the session
  then reports a mismatch that is no tampering. Reading the row with `with_for_update`, or after
  the DELETE, would do. Sessions whose requests come one at a time are spared (`SerialSessionsMatch`).

* **An unrecorded verdict** (`unrecorded`, `verifier_batch.py:78`). `verify_day` opens a session
  and passes it on, so `verify_day_from_db` leaves the commit to its caller, which closes the
  session without one. `README.md:625-627` says the result is written to `verifications`.

Also seen, within what the properties allow (each is a side condition of the property named):

* `UntouchedMeterPasses`: an untouched session fails meter verification when its readings came with
  an offset, without a zone, or in another spelling of UTC (".000Z", ".5Z"); when two name one
  instant; when one is half a second after one at a whole second (the builder sorts ".500000Z" before
  "Z", `receipt_builder.py:66`); or when rounding the two counters and rounding their difference
  disagree (`meter_verifier.py:156`, `:137` against `receipt_builder.py`).
* `AuditDayNeedsHashOrder`: `audit_day` neither sorts the hashes nor selects a prefix, so on
  untouched files it agrees with the batch only if the ids are in the order of the hashes.
* `ImportKeepsLatest`: once the service writes the database only, importing the old files puts
  older receipts over newer ones. `ImportedAnchorsVerify`: an imported anchor gets the
  hashes of the index as it is now, and does not verify when a session was finalized again after
  the batch was saved. A day that was anchored twice with the same receipts has two equal batches,
  and then the whole import fails at a unique key (`AddedTwice`), as long as neither row is there.
* `MatrixMeetsExpectations`: without an explicit id the matrix changes the newest anchor while
  `verify_day` reads the V1 one; after a later legacy close T5 and T6 miss their expectation.
* `RunFailsOnlyWhenDisturbed`: a generated start can round up to the next midnight, and then the
  run ends after all its sessions have been stored; and a prefix with `_` selects other sessions.
  A run also fails, or does not reconcile, when it has no sessions, when an id is not in normal
  form or is not matched by the run's own pattern, and when somebody closed the day before it with
  other contents.
* `RunVerifies`: reconciliation compares session ids, so a run whose session a client replaced
  still reconciles.
* A stale `batch_root`: concurrent callers of the file store may lose index entries and marks
  (`SerialStoresAgree` and `MarkedDayVerifies` need `Settled`); what they cannot do is in section 5.
* A publication overwrites `chain_tx` without reading it again: one that slept through a restart
  of the chain, or that was configured with another contract, stores its hash over that of a newer
  chain or of the contract in use; one that lost a race is mined with status 0, and its hash
  replaces that of the transaction that did anchor. `GoodHashLostOnlyInRaces` is what remains: for
  one contract and chain, a call that has read the good hash never replaces it, because gas
  estimation refuses it.

## 5. Proofs

Checked by TLAPS for every value of the constants that meets the named assumptions of the modules:
types of the functions among the constants, markers such as `NoRow` that are no data, non-empty
sets of arguments, bounds that are numbers, and `SessionsFinite` for the counts of `BatchAnchoring`.
Nothing is assumed of the number of closers, publishers and requests, except where a theorem says so.
TLC evaluates every assumption on the instances of the runs. Five hypotheses stand in theorems or properties and not in modules: `Serial`, in the theorems about
serial closes; `OneCallAtATime`, which is part of the property `SerialSessionsMatch`; finitely many closers, in `SnapshotsBounded`; `IsFiniteSet(Sessions)`, in the type theorems
of `FileStoreSerialProofs` and `ExperimentProofs`, whose types count sessions; and
`"json" \notin DOMAIN Absent` (the marker for "no row" is no row with a body) in those about sweeps
and runs.

`BatchAnchoringProofs`:

* `Invariance`: `Spec => []IInv` with
  `IInv == TypeOK /\ TableInv /\ CallInv /\ ReuseInv /\ FlushInv /\ AnchoredMeansStored`.
  `AnchoredMeansStored` alone is not inductive. `ReuseAnchor` is harmless only because the row
  it found has the same members as the call's (`ReuseInv`), which needs rows to be sealed and
  roots to determine the members (`TableInv`, `RootInjective`); `CommitAnchor` needs the
  flushed ids to be fresh and different and the flushed identities to be unique, among
  themselves and against the table (`FlushInv`); and what a call holds in `leaves` must have
  one receipt per session, all in the window of the call's day (`CallInv`).
* `TypeCorrect` and `ReturnedRootsAreStored`: the two properties of the runs, from it.
* `Refinement`: `Spec => AT!Spec`. `CommitAnchor` is `AppendRow`, `ReuseAnchor` is a stutter
  (`ReuseAddsNothing`), everything else leaves `anchors` alone.

The same module adds that every V1 snapshot and every call's commitment has one receipt per
session of its scope and day (`SnapshotInvariance`), and derives:

* `AuditAgreement`: the audit of sessions, hashes, starts and counts matches exactly when the
  closure check by root and count would be idempotent and every eligible `receipt_json` still
  hashes to its stored hash.
* `ChangesAreNamed`: different roots always give a non-empty difference of sessions.
* `SerialClosedOnce`, `SerialCloseThenVerify`: under `Serial` (at most one closer) the two
  properties that overlapping closes break. `Serial` is the hypothesis of the theorem, not an
  assumption of the module; the `overlapping_close` run shows that it cannot be dropped.
* `SnapshotsBounded`: for finitely many closers, the snapshots of a day and the calls past the check
  of that day are together no more than the closers (`SlotsLeft`): a commit turns one into
  the other, and more calls pass the check only while there is no snapshot.

`ReceiptStoreProofs`, for any number of overlapping finalizations:

* `Invariance`. The property (`ReceiptIsOneRequest`) says what the tables hold; its invariant says
  who may still write them. `RowsTogether`: a session has a sessions row exactly when it has
  meter rows. `Apart`: no two calls hold the deleted meter rows, or the sessions row, of one
  session. `CallOK`: above all, a call that can still insert its meter rows (it holds the deletion,
  or there were none) has read the receipts row that is there now, so that writing the
  columns that differ gives the whole new receipt (`WriteOverRead`); any other call fails at
  the unique key.
* `TypeCorrect`, `ReceiptsAreWhole`, `OneWriter`, and `Refinement`: `Commit` replaces one receipt
  as a whole, which is the step `Finalize` of `BatchAnchoring`.
* `SerialSessions`: `Spec => \A s \in Sessions : []OneCallAtATime(s) => []RowMatches(s)`. What
  `torn_session` breaks holds for each session whose own requests never overlap, whatever the others
  do. `SerialInv(s)` adds that the open call of the session, if any, has read the row that is there
  now: it did when it began, only its own commit changes the row, and over the row that was read the
  changed columns are the whole new row (`WriteOverRead`, as for the receipts). The run has one
  session; the theorem has any number beside it.

`ChainPublicationProofs`, for any number of publishers, rows, contracts, chains and failures:

* `Invariance`. `EntriesStay`: the entry that an anchoring transaction of the live chain made is
  still there, with its root and count (a contract is write-once, a further deployment takes an
  address that had none, and a restart makes its transactions those of an older chain). `CallOK`:
  what a call holds names committed rows and a transaction that carried that row to its contract.
  `SawOK`: the chain on which a call saw its row anchored is older than the one it got past the gas
  estimation on. With `OnChainIsPersisted`, `OneAnchoringTxPerKey` and `RecordedTxNamesRow`
  (`chain_tx` is the hash of a transaction that carried the very row; stated with the proofs) this
  is inductive.
* `TypeCorrect`, `PersistedBeforeAnchored`, `RecordsNameRows`, `AnchoredOnce`, `RecordedVerifies`, and the
  action property `GoodHashKept`.

`FileStoreProofs`, for any number of sessions, requests and commands, and crashes anywhere:

* `Invariance`. The roots in the index are those of saved batches only if so are those in every
  copy that a request or the operator will write back (`IndexesMarked`), and if the index is
  marked after the batch was saved (`BatchSealed`). `anchors.json` is complete whenever it parses
  because between truncation and write the operator holds exactly what was saved and the new
  batch (`Pending`). A file is only written by a call that was accepted (`CallsAccepted`).
* `LocalReceiptsAccepted`, `AnchorsComplete`, `MarkedRoots`: the three properties of the run.

`FileStoreSerialProofs`, for callers that take turns and are not killed (`~disturbed`; the history
variable says so of the whole behaviour, and these properties are claimed only then):

* `SerialInvariance`, on top of the invariant before. Between two calls the three stores agree; in
  the middle of one they cannot, so `SerialInv` says it of what nobody is writing. `StoresOK`: the
  receipt file of a session without a writer holds what was accepted last and agrees with its index
  entry, and a marked entry is a leaf of the batch it names (`LeafMarks`). `CallOK`, `OpOK`: what a
  call holds in memory is what the files still say, or will say once it has written. With
  `RootsSorted` (every saved root is the root of a finite set of receipts) this is inductive.
* `StoresAgree`, `ImportIsCurrent` (an action property: an import puts no older receipt over a newer
  one), `MarkedDays` (receipts that carry the root of the newest batch and are as many as it counted
  are that batch, since sorting by hash has one result), `AuditOrder`.
* `ImportedAnchors` needs `ImportInv`: a receipt of a saved batch still has the hash it had there, or
  a receipt of the batch was accepted after it was saved (`sealedAt` remembers how many were accepted
  before). The anchors that were imported inherit it. While the tamper helper has truncated a
  file, the invariants speak of `Whole`, the files with that one as it was.
* `TypeCorrect`, which holds however callers are disturbed. That a root has at most as many leaves as
  there are sessions is `TypesInv`, because what an operator has found has one receipt per session.

`Ranking` and `MerkleProofs` have no variables. The code sorts; the models choose, for each position,
the element with that many predecessors, and `Ranking` shows that under a total order every position
has exactly one such element. On this rest the facts about trees: `TreeInjective` (lists of leaves
of one length with one root are equal, and the batch root hashes the length along),
`ProofClimbs` (the loop of `verify_membership_proof` is at the ancestor of its leaf on each
level), `CommitmentInjective`, `MembersAreProven` and `OnlyMembersAreProven`: a path of any length that ends
in the root has, at every level it shares with the tree, a node of that level (`ClimbedFromBelow`), so
it starts at a leaf hash of the tree, or a leaf hash would be one of an inner node. The provers have no induction over
sequences; instead each of these takes the least level, length or position at which the fact fails
and refutes it (the natural numbers are well-founded).

`ExperimentProofs`, for any sessions, bodies, workloads and sizes (`WorkAssumption`: what clients post
are bodies, and what a run posts the generator can make; TLC evaluates it on the sessions that the
translated generator makes):

* `CoreInvariance`. Every stored row is `RowsOf` of an accepted body, or one change away from it, and
  every anchor commits to the memberships it was made with. The matrix breaks both between a
  scenario's change and its rollback, so the invariant is stated of the tables *behind* the savepoint
  (`RowsBehind`, `TableBehind`), and the phase of the matrix says how the visible ones differ. That a
  rollback restores the tables is then a stutter of these views.
* From it: `TamperingDetected`, `RootsAreDistinct`, `TypeCorrectness`, and `ProofsAreSound`, which also
  considers claims (`Claim`): any record the receipts say now, put on any member's path cut at any
  length, at any position. Positions are not part of what is proved: the code does not tie the index
  of a proof to the sides of its siblings.
* `UntouchedSessionsVerify`: the builder hashes the posted texts in the order of the texts, the verifier
  formats instants and sorts by instants. Equal roots mean equal lists of texts, so all are texts of
  `_canonical_ts`; among those the two orders are the same if no two instants are and no fraction
  shares the second of a whole one (`UtcOrder`); and then the sums agree up to the
  rounding that the property names. The converse of each step gives the other direction.
* `ScenariosAreDetected`, from `MatrixInv`: for each scenario the layers that fail are computed
  from what it changes (`ScenarioLayers`), whatever the tables hold.
* `SweepIsComplete`, from `SweptInv`: a session that was listed, and not finalized again, is in a row of
  its UTC day with the hash it has, if the sweep has passed that day. The days come from the dates in
  the texts and the batches from UTC windows, so the proof is about the eligibility query at the moment
  the day is passed, whichever session put that day on the list.
* `RunInvariance`, with one part for each step of a run: what it has stored (`StoredOK`), which rows
  its day has (`ClosedOK`: while nobody touched its sessions, each holds exactly what the run would
  close, unless somebody else closed the day before), what it verified, exported, and how it ended.
  `RunsVerify` and `RunsFailForAReason` follow: ids reconcile only if every id can be in the batch, and a
  session the generator made meets the side conditions of `UntouchedSessionsVerify`.
* `TariffsMayBeSplit`. An interval and its two pieces overlap the session for the same time
  (`OverlapIsCut`, which needs the bounds of session, interval and cut in every order), so they weigh
  the same (`PiecesWeigh`). For lists, the partial sums of the weights of the pieces of the first
  `n` intervals are the partial sums of the `n` weights: the least `n` for which that fails is
  refuted with the recursions of `Total` and of the flattening (`TotalAppend`, `CutWeighs`). The cost
  is one rounding of that total (`CutCostsTheSame`). It holds for any accepted body, price and instant.
* `LedgerIsImplemented`: `Spec => L!Spec`. One lemma for each way the tables change
  (`LedgerReplaces`, `LedgerTampers`, `InsertedLedger` and `LegacyLedger` over `LedgerCloses`); every
  other step leaves the views alone, and so do all steps of the matrix (`MatrixViews`). The closing
  lemmas connect the query by UTC window, normalization, the closure check and the memberships of
  the row to the set of records `Ledger` speaks of.

Every safety property of the passing runs, and every refinement, is a theorem. Only model-checked are
the liveness properties `CloseTerminates`, `ClosedReachesChain` and `FinalizeTerminates`: liveness under
fairness, and what is enabled, is out of the prover's reach. What a recursive definition computes is
proved by a least counterexample (of a length, a level or a position), never by an induction theorem.
The five runs that expect a violation are counterexamples, which have no proof.

## 6. Plan

Done: the database protocol (`BatchCommitment`, `BatchAnchoring`, `AnchorTable`, `AnchorContract`,
`ChainPublication`, `ReceiptStore`, `ReceiptTable`); the file store; the contents (`BatchMerkle`,
`ReceiptAlgorithms`, `Verification`) and the laboratory on top (`TamperMatrix`, `Experiment`) with its
abstract specification (`Ledger`); and the proofs of all of them.

Worth adding, most valuable first:

1. An experiment run over files (`run_experiment.py` without a database), composed with `FileStore`.
2. The tamper matrix without `NobodyCommits`: what its baseline check and its savepoints do when a
   client commits between two scenarios.
3. The other writers of `verifications` (receipt and audit verdicts), and the statistics of
   `session_validation.py`.

## 7. Not modelled

Byte formats (canonical JSON, hexadecimal, ABI encoding: the repository has test vectors), output
parsing of `cast`, timing records, events and timestamps of the contract, gas and fees; legacy
receipt versions and session bodies that give an energy without meter values; the diagnostic
documents of the verifiers; the statistics, release notes, storage and usage metrics, benchmarks,
exports, charts and rating, which read and report; the import of IRVE station data, a file
conversion; the reads of `api_service.py`; the publication step of an experiment run (it is
`publish_batch_anchor`, in `ChainPublication`) and runs over files; the direct `anchorBatch` calls of
`scripts/run_anchor_strategy_comparison.py` (unique prefixes, no database rows); schema migrations
and shell scripts. `PROJECT.json` gives the status of every component.
