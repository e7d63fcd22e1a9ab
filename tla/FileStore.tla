------------------------------ MODULE FileStore ------------------------------
(***************************************************************************)
(* The JSON files under receipts/ (src/storage.py and the *_from_files     *)
(* half of src/batch_anchoring.py, verifier_batch.py, verifier.py and      *)
(* tamper.py, audit_day.py, import_receipts.py): one file per session, an  *)
(* index of all sessions, and the list of anchored batches.                *)
(*                                                                         *)
(* API requests finalize sessions concurrently, each after its database    *)
(* commit when the database is on; one operator runs the commands.  Every  *)
(* file is written in place: open() truncates it, the text follows.        *)
(***************************************************************************)
EXTENDS Naturals, Sequences, FiniteSets

CONSTANTS
    Sessions,       \* numbers, in the order of the session ids
    Payloads,       \* bodies of finalization requests
    Days,           \* numbers, in the order of the dates
    DayOf,          \* day of the receipt that a payload gives
    HashOf,         \* hash of that receipt for a session: a number, in the order of the texts
    Prefixes,
    Scope,          \* sessions that a prefix selects
    NoPrefix,       \* no prefix given: every session
    Requests,       \* concurrent calls of finalize_session
    Absent,         \* there is no such file, or row
    Empty,          \* a truncated file, the text is not there yet
    Garbage,        \* the remains of two texts
    MaxFinalize,    \* bound: finalizations in a behaviour
    MaxCommands     \* bound: operator commands in a behaviour

ASSUME FileConstants ==
    /\ Sessions \subseteq Nat /\ Days \subseteq Nat
    /\ Sessions # {} /\ Payloads # {}
    /\ {Absent, Empty, Garbage} \cap [payload : Payloads, altered : BOOLEAN] = {}
    /\ Absent \notin {Empty, Garbage}
    /\ \A S \in SUBSET Sessions :
         {Empty, Garbage} \cap [S -> [payload : Payloads, root : Seq(Nat)]] = {}
    /\ {Empty, Garbage} \cap
         Seq([day : Days, prefix : Prefixes, root : Seq(Nat), ids : SUBSET Sessions]) = {}
    /\ DayOf \in [Payloads -> Days]
    /\ HashOf \in [Sessions \X Payloads -> Nat]
    /\ \A x, y \in Sessions \X Payloads : HashOf[x] = HashOf[y] => x = y
    /\ NoPrefix \in Prefixes
    /\ Scope \in [Prefixes -> SUBSET Sessions] /\ Scope[NoPrefix] = Sessions

VARIABLES
    mode,       \* what finalize_session writes: "files", "both" or "database"
    files,      \* receipts/<session>.json
    index,      \* receipts/index.json
    batches,    \* receipts/anchors.json
    rows,       \* the receipts table
    anchors,    \* anchors imported into batch_anchors, with their memberships
    request,    \* control state and local variables of the requests
    op,         \* the same for the operator's command
    commands,   \* number of commands started
    accepted,   \* history: finalizations, in the order of their first write
    sealed,     \* history: every batch whose write to anchors.json completed
    sealedAt,   \* history: the number of finalizations at that time
    disturbed   \* history: two callers overlapped, or one was killed

store == <<files, index, batches>>
database == <<rows, anchors>>
history == <<accepted, sealed, sealedAt, disturbed>>
vars == <<mode, store, database, request, op, commands, history>>

-----------------------------------------------------------------------------
(***************************************************************************)
(* Data.                                                                   *)
(***************************************************************************)
Unreadable == {Empty, Garbage}  \* json.loads raises

\* A receipt file: the payload gives the stored hash and the receipt, which
\* tamper.py may have altered since.
Content == [payload : Payloads, altered : BOOLEAN]

Sorted(S) ==
    [i \in 1..Cardinality(S) |->
       CHOOSE x \in S : Cardinality({y \in S : y < x}) = i - 1]

Hashes(found) == {HashOf[x] : x \in found}

\* Fault: the batch root is built in the order of the sessions.
RootOfSessionOrder(found) ==
    [i \in 1..Cardinality(found) |->
       CHOOSE h \in Hashes(found) : \E x \in found :
         HashOf[x] = h /\ Cardinality({y \in found : y[1] < x[1]}) = i - 1]

\* build_batch_root: the hashes are sorted, so the root stands for their set;
\* as SHA-256 is injective the root is the sequence of the leaves.
BatchRoot(found) == Sorted(Hashes(found))

NoRoot == <<>>
Roots == UNION {[1..n -> {HashOf[x] : x \in Sessions \X Payloads}] : n \in 0..Cardinality(Sessions)}
IndexEntry == [payload : Payloads, root : Roots]
IndexFiles == UNION {[S -> IndexEntry] : S \in SUBSET Sessions}
Batch == [day : Days, prefix : Prefixes, root : Roots, ids : SUBSET Sessions]

\* What a write leaves behind: another writer's text may be longer.
Written(old, new) == IF old = Empty THEN {new} ELSE {new, Garbage}

Idle == [phase |-> "idle", cmd |-> "day", day |-> CHOOSE d \in Days : TRUE,
         prefix |-> NoPrefix, todo |-> {}, left |-> {}, found |-> {},
         index |-> <<>>, batches |-> <<>>]
NoCall == [phase |-> "idle", session |-> CHOOSE s \in Sessions : TRUE,
           payload |-> CHOOSE p \in Payloads : TRUE, index |-> <<>>]

Busy == op # Idle \/ \E r \in Requests : request[r].phase # "idle"

Phase(r, next) == request' = [request EXCEPT ![r].phase = next]
Return(r) == request' = [request EXCEPT ![r] = NoCall]

-----------------------------------------------------------------------------
(***************************************************************************)
(* finalize_session (main.py) and save_receipt (storage.py).               *)
(***************************************************************************)
\* Fault: the local file is written before the database commit.
BeginWithFile(r, s, p) ==
    /\ request[r].phase = "idle"
    /\ Len(accepted) < MaxFinalize
    /\ request' = [request EXCEPT ![r] = [NoCall EXCEPT
         !.phase = "receipt", !.session = s, !.payload = p]]
    /\ accepted' = IF mode = "files" THEN Append(accepted, <<s, p>>) ELSE accepted
    /\ disturbed' = (disturbed \/ Busy)
    /\ UNCHANGED <<mode, store, database, op, commands, sealed, sealedAt>>

Begin(r, s, p) ==
    /\ request[r].phase = "idle"
    /\ Len(accepted) < MaxFinalize
    /\ request' = [request EXCEPT ![r] = [NoCall EXCEPT
         !.phase = IF mode = "files" THEN "receipt" ELSE "persist",
         !.session = s, !.payload = p]]
    /\ accepted' = IF mode = "files" THEN Append(accepted, <<s, p>>) ELSE accepted
    /\ disturbed' = (disturbed \/ Busy)
    /\ UNCHANGED <<mode, store, database, op, commands, sealed, sealedAt>>

\* Fault: WRITE_LOCAL_RECEIPTS is ignored.
PersistOnly(r) ==
    /\ request[r].phase = "persist"
    /\ Len(accepted) < MaxFinalize
    /\ rows' = [rows EXCEPT ![request[r].session] =
                  [payload |-> request[r].payload, altered |-> FALSE]]
    /\ accepted' = Append(accepted, <<request[r].session, request[r].payload>>)
    /\ Return(r)
    /\ UNCHANGED <<mode, store, anchors, op, commands, sealed, sealedAt, disturbed>>

\* persist_finalized_session commits.
Persist(r) ==
    LET s == request[r].session  p == request[r].payload
    IN  /\ request[r].phase = "persist"
        /\ Len(accepted) < MaxFinalize
        /\ rows' = [rows EXCEPT ![s] = [payload |-> p, altered |-> FALSE]]
        /\ accepted' = Append(accepted, <<s, p>>)
        /\ IF mode = "both" THEN Phase(r, "receipt") ELSE Return(r)
        /\ UNCHANGED <<mode, store, anchors, op, commands, sealed, sealedAt, disturbed>>

\* It raises: the client gets 503 and nothing is stored.
PersistFails(r) ==
    /\ request[r].phase = "persist"
    /\ Return(r)
    /\ UNCHANGED <<mode, store, database, op, commands, history>>

OpenReceipt(r) ==
    /\ request[r].phase = "receipt"
    /\ files' = [files EXCEPT ![request[r].session] = Empty]
    /\ Phase(r, "receipt_open")
    /\ UNCHANGED <<mode, index, batches, database, op, commands, history>>

FillReceipt(r) ==
    LET s == request[r].session
    IN  /\ request[r].phase = "receipt_open"
        /\ \E c \in Written(files[s], [payload |-> request[r].payload, altered |-> FALSE]) :
             files' = [files EXCEPT ![s] = c]
        /\ Phase(r, "index")
        /\ UNCHANGED <<mode, index, batches, database, op, commands, history>>

\* load_index; a JSONDecodeError ends the request with status 500.
LoadIndex(r) ==
    /\ request[r].phase = "index"
    /\ request' = [request EXCEPT ![r] =
         IF index \in Unreadable THEN NoCall
         ELSE [@ EXCEPT !.phase = "loaded", !.index = index]]
    /\ UNCHANGED <<mode, store, database, op, commands, history>>

OpenIndex(r) ==
    /\ request[r].phase = "loaded"
    /\ index' = Empty
    /\ Phase(r, "index_open")
    /\ UNCHANGED <<mode, files, batches, database, op, commands, history>>

\* Faults: the index is not loaded before it is saved; or the new entry keeps
\* the batch root of the old one.
EntryAlone(r) ==
    [t \in {request[r].session} |-> [payload |-> request[r].payload, root |-> NoRoot]]

EntryKeepingRoot(r) ==
    LET old == request[r].index  s == request[r].session
    IN  [t \in DOMAIN old \cup {s} |->
           IF t = s
           THEN [payload |-> request[r].payload,
                 root |-> IF s \in DOMAIN old THEN old[s].root ELSE NoRoot]
           ELSE old[t]]

\* The index with the request's entry, whose batch_root starts again at None.
WithEntry(r) ==
    LET old == request[r].index  s == request[r].session
    IN  [t \in DOMAIN old \cup {s} |->
           IF t = s THEN [payload |-> request[r].payload, root |-> NoRoot] ELSE old[t]]

FillIndex(r) ==
    /\ request[r].phase = "index_open"
    /\ \E c \in Written(index, WithEntry(r)) : index' = c
    /\ Return(r)
    /\ UNCHANGED <<mode, files, batches, database, op, commands, history>>

-----------------------------------------------------------------------------
(***************************************************************************)
(* The operator: anchor_day, anchor_all_days, import_receipts and the      *)
(* tamper helper.  A command that raises ends at once.                     *)
(***************************************************************************)
Start(cmd, phase, prefix, days, sessions) ==
    /\ op = Idle
    /\ commands < MaxCommands
    /\ op' = [Idle EXCEPT !.cmd = cmd, !.phase = phase, !.prefix = prefix, !.todo = days,
                          !.left = sessions]
    /\ commands' = commands + 1
    /\ disturbed' = (disturbed \/ Busy)
    /\ UNCHANGED <<mode, store, database, request, accepted, sealed, sealedAt>>

\* With the database on, anchor_day goes to PostgreSQL (BatchAnchoring).
StartAnchorDay(day, prefix) == mode = "files" /\ Start("day", "load", prefix, {day}, {})
StartAnchorAllDays(prefix) == mode = "files" /\ Start("all", "load", prefix, {}, {})
StartImport == Start("import", "load", NoPrefix, {}, {})

\* tamper_receipt looks the session up in the index.
StartTamper(s) ==
    /\ mode = "files"
    /\ index \notin Unreadable
    /\ s \in DOMAIN index
    /\ Start("tamper", "tamper", NoPrefix, {}, {s})

\* load_index, and the sessions the prefix selects.
OpLoad ==
    /\ op.phase = "load"
    /\ op' = IF index \in Unreadable THEN Idle
             ELSE [op EXCEPT !.phase = "read", !.index = index, !.found = {},
                     !.left = DOMAIN index \cap Scope[op.prefix],
                     !.day = IF op.cmd = "day" THEN CHOOSE d \in op.todo : \A e \in op.todo : d <= e
                             ELSE @]
    /\ UNCHANGED <<mode, store, database, request, commands, history>>

\* The next receipt file in the order of the session ids; a missing one is
\* skipped, and so is another day's when a day is anchored.
OpRead ==
    /\ op.phase = "read"
    /\ op.left # {}
    /\ LET s == CHOOSE t \in op.left : \A u \in op.left : t <= u
           wanted == /\ files[s] # Absent
                     /\ op.cmd = "day" => DayOf[files[s].payload] = op.day
       IN  op' = IF files[s] \in Unreadable THEN Idle
                 ELSE [op EXCEPT !.left = @ \ {s},
                         !.found = IF wanted THEN @ \cup {<<s, files[s]>>} ELSE @]
    /\ UNCHANGED <<mode, store, database, request, commands, history>>

\* What was read, as pairs of session and payload.
Found == {<<x[1], x[2].payload>> : x \in op.found}

\* The loop over the index is over.  "No receipts found" raises.
OpReadDone ==
    /\ op.phase = "read"
    /\ op.left = {}
    /\ op' = CASE op.cmd = "import" -> [op EXCEPT !.phase = "import"]
               [] op.cmd # "import" /\ op.found = {} -> Idle
               [] op.cmd = "all" /\ op.found # {} ->
                    [op EXCEPT !.cmd = "day", !.phase = "load",
                               !.todo = {DayOf[x[2]] : x \in Found}]
               [] op.cmd = "day" /\ op.found # {} -> [op EXCEPT !.phase = "anchors"]
    /\ UNCHANGED <<mode, store, database, request, commands, history>>

NewBatch == [day |-> op.day, prefix |-> op.prefix, root |-> BatchRoot(Found),
             ids |-> {x[1] : x \in Found}]

\* Fault: an anchors.json that cannot be read counts as an empty one.
OpOpenAnchorsAnyway ==
    /\ op.phase = "anchors"
    /\ op' = [op EXCEPT !.phase = "anchors_open",
                !.batches = Append(IF batches \in Unreadable THEN <<>> ELSE batches, NewBatch)]
    /\ batches' = Empty
    /\ UNCHANGED <<mode, files, index, database, request, commands, history>>

\* Fault: it stops the batch from being saved, but not from being marked.
OpOpenAnchorsOrSkip ==
    /\ op.phase = "anchors"
    /\ op' = IF batches \in Unreadable THEN [op EXCEPT !.phase = "index"]
             ELSE [op EXCEPT !.phase = "anchors_open", !.batches = Append(batches, NewBatch)]
    /\ batches' = Empty
    /\ UNCHANGED <<mode, files, index, database, request, commands, history>>

\* _load_anchors, the new batch is appended, and _save_anchors truncates.
OpOpenAnchors ==
    /\ op.phase = "anchors"
    /\ \/ /\ batches \in Unreadable
          /\ op' = Idle
          /\ UNCHANGED batches
       \/ /\ batches \notin Unreadable
          /\ op' = [op EXCEPT !.phase = "anchors_open", !.batches = Append(batches, NewBatch)]
          /\ batches' = Empty
    /\ UNCHANGED <<mode, files, index, database, request, commands, history>>

OpFillAnchors ==
    /\ op.phase = "anchors_open"
    /\ batches' = op.batches
    /\ sealed' = Append(sealed, op.batches[Len(op.batches)])
    /\ sealedAt' = Append(sealedAt, Len(accepted))
    /\ op' = [op EXCEPT !.phase = "index"]
    /\ UNCHANGED <<mode, files, index, database, request, commands, accepted, disturbed>>

OpOpenIndex ==
    /\ op.phase = "index"
    /\ index' = Empty
    /\ op' = [op EXCEPT !.phase = "index_open"]
    /\ UNCHANGED <<mode, files, batches, database, request, commands, history>>

\* The index that was loaded before the receipts were read, with the root in
\* the entries of the batch; then anchor_all_days goes on to the next day.
OpFillIndex ==
    LET ids == {x[1] : x \in op.found}
        new == [s \in DOMAIN op.index |->
                  IF s \in ids THEN [op.index[s] EXCEPT !.root = NewBatch.root] ELSE op.index[s]]
    IN  /\ op.phase = "index_open"
        /\ \E c \in Written(index, new) : index' = c
        /\ op' = IF op.todo = {op.day} THEN Idle
                 ELSE [op EXCEPT !.phase = "load", !.todo = @ \ {op.day}]
        /\ UNCHANGED <<mode, files, batches, database, request, commands, history>>

\* import_local_receipts: persist_finalized_session for every file that was
\* read, one commit.
ImportReceipts ==
    /\ op.phase = "import"
    /\ rows' = [s \in Sessions |->
                  IF \E x \in op.found : x[1] = s
                  THEN (CHOOSE x \in op.found : x[1] = s)[2] ELSE rows[s]]
    /\ op' = [op EXCEPT !.phase = "import_anchors"]
    /\ UNCHANGED <<mode, store, anchors, request, commands, history>>

\* Fault: the memberships are those of the index and not of the batch.
PairsOfIndex(b) == {<<s, index[s].payload>> : s \in DOMAIN index}

\* The memberships that an imported batch gets: the index is the source of
\* the hashes, as it is now.
PairsOf(b) == {<<s, index[s].payload>> : s \in b.ids \cap DOMAIN index}

SameRow(a, b) == a.day = b.day /\ a.prefix = b.prefix /\ a.root = b.root

\* Fault: batches none of whose sessions is left are imported.
AllBatches == DOMAIN batches

\* A batch without memberships is skipped.
ImportableBatches == {i \in DOMAIN batches : PairsOf(batches[i]) # {}}

\* The first import of a row, and one that inserts it and flushes.
First(i) == i \in ImportableBatches /\ \A j \in ImportableBatches : SameRow(batches[j], batches[i]) => i <= j
Inserts(i) == First(i) /\ \A a \in anchors : ~SameRow(a, batches[i])

\* The memberships that the committed row of a batch lacks, and their leaf
\* indices: the rank of the hash in the batch.
Missing(b) ==
    {x \in PairsOf(b) : \A a \in anchors : SameRow(a, b) => \A y \in a.members : y[1] # x[1]}
LeafOf(x, b) == Cardinality({y \in PairsOf(b) : HashOf[y] < HashOf[x]})
NewLeaves(b) == {LeafOf(x, b) : x \in Missing(b)}

\* What the import cannot insert, so that it raises IntegrityError and rolls
\* everything back: a membership of a session without a row; a membership for
\* the second time, as the SELECT sees none that were not flushed in between;
\* a leaf index that the row has given to another session.
SessionMissing == \E i \in ImportableBatches : \E x \in PairsOf(batches[i]) : rows[x[1]] = Absent
AddedTwice ==
    \E i, j \in ImportableBatches :
      /\ First(i) /\ i < j /\ SameRow(batches[i], batches[j])
      /\ Missing(batches[i]) # {}
      /\ \A k \in ImportableBatches : i < k /\ k < j => ~Inserts(k)
LeafTaken ==
    \E i \in ImportableBatches : \E a \in anchors :
      SameRow(a, batches[i]) /\ a.leaves \cap NewLeaves(batches[i]) # {}

\* The row after the import of batch b: new, or with the missing memberships.
RowAfter(b) ==
    LET old == {a \in anchors : SameRow(a, b)}
    IN  [day |-> b.day, prefix |-> b.prefix, root |-> b.root,
         count |-> IF old = {} THEN Cardinality(PairsOf(b)) ELSE (CHOOSE a \in old : TRUE).count,
         members |-> (UNION {a.members : a \in old}) \cup Missing(b),
         leaves |-> (UNION {a.leaves : a \in old}) \cup NewLeaves(b)]

\* import_local_anchors, one commit.
ImportAnchors ==
    /\ op.phase = "import_anchors"
    /\ op' = Idle
    /\ anchors' = IF \/ {index, batches} \cap Unreadable # {}
                     \/ SessionMissing \/ AddedTwice \/ LeafTaken
                  THEN anchors
                  ELSE {a \in anchors : \A i \in ImportableBatches : ~SameRow(a, batches[i])}
                         \cup {RowAfter(batches[i]) : i \in ImportableBatches}
    /\ UNCHANGED <<mode, store, rows, request, commands, history>>

\* tamper_receipt_from_files reads the file; a missing one raises.
TamperRead ==
    /\ op.phase = "tamper"
    /\ \E s \in op.left :
         op' = IF files[s] \in Content
               THEN [op EXCEPT !.phase = "tamper_write", !.left = {}, !.found = {<<s, files[s]>>}]
               ELSE Idle
    /\ UNCHANGED <<mode, store, database, request, commands, history>>

\* It writes the file again, with energy_kwh changed and the stored hash kept.
TamperOpen ==
    /\ op.phase = "tamper_write"
    /\ \E x \in op.found : files' = [files EXCEPT ![x[1]] = Empty]
    /\ op' = [op EXCEPT !.phase = "tamper_open"]
    /\ UNCHANGED <<mode, index, batches, database, request, commands, history>>

TamperFill ==
    /\ op.phase = "tamper_open"
    /\ \E x \in op.found : \E c \in Written(files[x[1]], [x[2] EXCEPT !.altered = TRUE]) :
         files' = [files EXCEPT ![x[1]] = c]
    /\ op' = Idle
    /\ UNCHANGED <<mode, index, batches, database, request, commands, history>>

-----------------------------------------------------------------------------
\* The service is restarted with DATABASE_ENABLED, and WRITE_LOCAL_RECEIPTS or not.
EnableDatabase ==
    /\ mode = "files"
    /\ ~Busy
    /\ mode' \in {"both", "database"}
    /\ UNCHANGED <<store, database, request, op, commands, history>>

\* A process dies: its writes so far stay, a truncated file among them.
CrashServer ==
    /\ \E r \in Requests : request[r].phase # "idle"
    /\ request' = [r \in Requests |-> NoCall]
    /\ disturbed' = TRUE
    /\ UNCHANGED <<mode, store, database, op, commands, accepted, sealed, sealedAt>>

CrashOperator ==
    /\ op # Idle
    /\ op' = Idle
    /\ disturbed' = TRUE
    /\ UNCHANGED <<mode, store, database, request, commands, accepted, sealed, sealedAt>>

Init ==
    /\ mode \in {"files", "both"}
    /\ files = [s \in Sessions |-> Absent]
    /\ index = <<>>
    /\ batches = <<>>
    /\ rows = [s \in Sessions |-> Absent]
    /\ anchors = {}
    /\ request = [r \in Requests |-> NoCall]
    /\ op = Idle
    /\ commands = 0
    /\ accepted = <<>> /\ sealed = <<>> /\ sealedAt = <<>> /\ disturbed = FALSE

RequestStep(r) ==
    \/ Persist(r) \/ PersistFails(r)
    \/ OpenReceipt(r) \/ FillReceipt(r)
    \/ LoadIndex(r) \/ OpenIndex(r) \/ FillIndex(r)

OpStep ==
    \/ OpLoad \/ OpRead \/ OpReadDone
    \/ OpOpenAnchors \/ OpFillAnchors \/ OpOpenIndex \/ OpFillIndex
    \/ ImportReceipts \/ ImportAnchors
    \/ TamperRead \/ TamperOpen \/ TamperFill

Next ==
    \/ \E r \in Requests : \/ \E s \in Sessions, p \in Payloads : Begin(r, s, p)
                           \/ RequestStep(r)
    \/ \E prefix \in Prefixes : \/ \E day \in Days : StartAnchorDay(day, prefix)
                                \/ StartAnchorAllDays(prefix)
    \/ StartImport
    \/ \E s \in Sessions : StartTamper(s)
    \/ OpStep
    \/ EnableDatabase \/ CrashServer \/ CrashOperator

Spec == Init /\ [][Next]_vars

-----------------------------------------------------------------------------
(***************************************************************************)
(* Readers of the files.                                                   *)
(***************************************************************************)

\* The receipts of a day, as _collect_hashes_for_day and audit_day find them.
DayReceipts(day, prefix) ==
    {<<s, files[s].payload>> : s \in
        {t \in DOMAIN index \cap Scope[prefix] :
           files[t] # Absent /\ DayOf[files[t].payload] = day}}

BatchesOf(day, prefixes) == {i \in DOMAIN batches :
                               batches[i].day = day /\ batches[i].prefix \in prefixes}

\* _find_anchor: the newest with this very prefix, as a set of at most one.
NewestBatch(day, prefix) ==
    {batches[i] : i \in {j \in BatchesOf(day, {prefix}) :
                           \A k \in BatchesOf(day, {prefix}) : k <= j}}

\* verify_day_from_files compares the stored hashes; no receipt raises.
VerifyDay(day, prefix) ==
    \E b \in NewestBatch(day, prefix) :
      DayReceipts(day, prefix) # {} /\ BatchRoot(DayReceipts(day, prefix)) = b.root

\* audit_day: the first batch of the day, whatever its prefix.
FirstBatch(day) ==
    {batches[i] : i \in {j \in BatchesOf(day, Prefixes) :
                           \A k \in BatchesOf(day, Prefixes) : j <= k}}

\* The root that audit_day builds: recomputed hashes in the order of the index.
\* The hash of an altered receipt equals no stored one.
AuditRoot(day) ==
    [i \in 1..Cardinality(DayReceipts(day, NoPrefix)) |->
       LET x == CHOOSE y \in DayReceipts(day, NoPrefix) :
                  Cardinality({z \in DayReceipts(day, NoPrefix) : z[1] < y[1]}) = i - 1
       IN  <<HashOf[x], files[x[1]].altered>>]

AuditDay(day) ==
    \E b \in FirstBatch(day) :
      /\ DayReceipts(day, NoPrefix) # {}
      /\ AuditRoot(day) = [i \in DOMAIN b.root |-> <<b.root[i], FALSE>>]

\* verify_day_from_db of an imported anchor.
ImportedMatch(a) == BatchRoot(a.members) = a.root /\ Cardinality(a.members) = a.count

Accepted(s) == {i \in DOMAIN accepted : accepted[i][1] = s}
LatestAccepted(s) == accepted[CHOOSE i \in Accepted(s) : \A j \in Accepted(s) : j <= i][2]

Settled == ~disturbed /\ ~Busy

-----------------------------------------------------------------------------
(***************************************************************************)
(* Properties.                                                             *)
(***************************************************************************)
Calls == [phase : {"idle", "persist", "receipt", "receipt_open", "index", "loaded", "index_open"},
          session : Sessions, payload : Payloads, index : IndexFiles]

\* Every file holds what its writer writes, or cannot be read.
TypeOK ==
    /\ mode \in {"files", "both", "database"}
    /\ \A s \in Sessions : files[s] \in Content \cup {Absent} \cup Unreadable
    /\ \A s \in Sessions : rows[s] \in Content \cup {Absent}
    /\ index \in Unreadable \/ index \in IndexFiles
    /\ batches \in Unreadable \/ \A i \in DOMAIN batches : batches[i] \in Batch
    /\ \A a \in anchors : a.count \in 1..Cardinality(Sessions) /\ a.prefix \in Prefixes
    /\ \A r \in Requests : request[r] \in Calls
    /\ op.left \subseteq Sessions /\ op.todo \subseteq Days /\ op.index \in IndexFiles

\* anchors.json, whenever it can be read, holds every batch whose write
\* completed, in order: no crash or retry of anchor_day loses an older batch
\* silently (the truncated file stops every later anchoring instead).
ReadableAnchorsComplete == batches \notin Unreadable => batches = sealed

\* A batch_root in the index is the root of a batch in anchors.json that names
\* the session, across crashes, overlapping requests and stale index copies
\* (anchor_day saves the anchors before the index).
MarkedRootIsSealed ==
    index \notin Unreadable =>
      \A s \in DOMAIN index :
        index[s].root # NoRoot =>
          \E i \in DOMAIN sealed : sealed[i].root = index[s].root /\ s \in sealed[i].ids

\* With the database on, what a local receipt file says was committed first:
\* no failure between the two leaves a receipt that the database never had.
LocalReceiptWasAccepted ==
    \A s \in Sessions : files[s] \in Content =>
      \E i \in DOMAIN accepted : accepted[i] = <<s, files[s].payload>>

\* As long as callers take turns and none is killed, the three stores agree
\* after every call: the index has exactly the sessions with a file, under the
\* file's hash, and that is the latest receipt that was accepted.
SerialStoresAgree ==
    Settled =>
      /\ {index, batches} \cap Unreadable = {}
      /\ DOMAIN index = {s \in Sessions : files[s] # Absent}
      /\ \A s \in DOMAIN index : files[s].payload = index[s].payload
      /\ mode # "database" =>
           \A s \in Sessions : Accepted(s) # {} =>
             files[s] # Absent /\ files[s].payload = LatestAccepted(s)

\* The batch_root of the index entries can be trusted: when all receipts of a
\* day carry the root of its newest batch and are as many as it counted,
\* verify_day matches (finalizing a session again takes its mark away).
MarkedDayVerifies ==
    Settled =>
      \A day \in Days, prefix \in Prefixes : \A b \in NewestBatch(day, prefix) :
        LET now == DayReceipts(day, prefix)
        IN  (/\ now # {} /\ Cardinality(now) = Len(b.root)
             /\ \A x \in now : index[x[1]].root = b.root)
              => VerifyDay(day, prefix)

\* audit_day builds its root without build_batch_root, so for a day with one
\* batch over all sessions it agrees with verify_day only when no file was
\* altered and the session ids happen to be in the order of the hashes.
AuditDayNeedsHashOrder ==
    Settled =>
      \A day \in Days :
        (/\ Cardinality(BatchesOf(day, Prefixes)) = 1
         /\ NewestBatch(day, NoPrefix) # {}) =>
          LET now == DayReceipts(day, NoPrefix)
          IN  AuditDay(day) <=>
                /\ VerifyDay(day, NoPrefix)
                /\ \A x \in now : ~files[x[1]].altered
                /\ \A x, y \in now : x[1] < y[1] => HashOf[x] < HashOf[y]

\* Importing the files never puts an older receipt over a newer one while
\* finalize_session writes both stores (it does once the files are stale, in
\* mode "database").
ImportKeepsLatest ==
    [][(op.phase = "import" /\ op'.phase = "import_anchors" /\ ~disturbed /\ mode # "database") =>
         \A s \in DOMAIN index : rows'[s].payload = LatestAccepted(s)]_vars

\* An imported anchor whose memberships do not recompute to its root is one
\* of whose sessions a receipt was finalized after its batch was saved.
ImportedAnchorsVerify ==
    Settled =>
      \A a \in anchors :
        ImportedMatch(a) \/
        \E i \in DOMAIN sealed :
          /\ SameRow(sealed[i], a)
          /\ \E j \in DOMAIN accepted : j > sealedAt[i] /\ accepted[j][1] \in sealed[i].ids
=============================================================================
