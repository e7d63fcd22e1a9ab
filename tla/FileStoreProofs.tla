--------------------------- MODULE FileStoreProofs ---------------------------
(***************************************************************************)
(* Proofs about FileStore: what the JSON files keep under any interleaving *)
(* of finalizations and operator commands, and any crash between two       *)
(* writes, for any number of sessions, requests and commands.              *)
(***************************************************************************)
EXTENDS FileStore, WellFoundedInduction, TLAPS

-----------------------------------------------------------------------------
(***************************************************************************)
(* The inductive invariant.                                                *)
(***************************************************************************)
AnyRoot == {NoRoot} \cup {BatchRoot(found) : found \in SUBSET (Sessions \X Payloads)}
AnyEntry == [payload : Payloads, root : AnyRoot]
AnyIndex == UNION {[S -> AnyEntry] : S \in SUBSET Sessions}
AnyBatch == [day : Days, prefix : Prefixes, root : AnyRoot, ids : SUBSET Sessions]
FileStates == Content \cup {Absent} \cup Unreadable

AnyCall == [phase : {"idle", "persist", "receipt", "receipt_open", "index", "loaded", "index_open"},
            session : Sessions, payload : Payloads, index : AnyIndex]
TamperPhases == {"tamper", "tamper_write", "tamper_open"}
AnyOp == {o \in [phase : {"idle", "load", "read", "anchors", "anchors_open", "index", "index_open",
                          "import", "import_anchors"} \cup TamperPhases,
                 cmd : {"day", "all", "import", "tamper"}, day : Days, prefix : Prefixes,
                 todo : SUBSET Days, left : SUBSET Sessions,
                 found : SUBSET (Sessions \X Content), index : AnyIndex, batches : Seq(AnyBatch)] :
            o.cmd = "tamper" => o.phase \in TamperPhases}

\* Types without the order inside a root, on which nothing below depends.
Shape ==
    /\ files \in [Sessions -> FileStates]
    /\ index \in AnyIndex \cup Unreadable
    /\ batches \in Seq(AnyBatch) \cup Unreadable
    /\ accepted \in Seq(Sessions \X Payloads)
    /\ sealed \in Seq(AnyBatch)
    /\ request \in [Requests -> AnyCall]
    /\ op \in AnyOp

AcceptedIn(seq, s, p) == \E i \in DOMAIN seq : seq[i] = <<s, p>>

\* A call that writes files was accepted before.
CallsAccepted ==
    \A r \in Requests : request[r].phase \notin {"idle", "persist"} =>
      AcceptedIn(accepted, request[r].session, request[r].payload)

\* So was the receipt that the tamper helper writes back.
TamperAccepted ==
    op.phase \in {"tamper_write", "tamper_open"} =>
      \A x \in op.found : AcceptedIn(accepted, x[1], x[2].payload)

\* The roots of an index are those of batches that were saved.
MarkedBy(saved, ix) ==
    \A s \in DOMAIN ix : ix[s].root # NoRoot =>
      \E i \in DOMAIN saved : saved[i].root = ix[s].root /\ s \in saved[i].ids

\* So are those of the copies that requests and the operator hold.
IndexesMarked ==
    /\ index \notin Unreadable => MarkedBy(sealed, index)
    /\ \A r \in Requests : MarkedBy(sealed, request[r].index)
    /\ MarkedBy(sealed, op.index)

\* A command that anchors days has one left.
TodoLeft == (op.cmd = "day" /\ op.phase # "idle") => op.todo # {}

\* Between the two writes of anchors.json the operator holds all of it.
Pending == op.phase = "anchors_open" => op.batches = Append(sealed, NewBatch)

\* The index is marked after the batch was saved.
BatchSealed ==
    op.phase \in {"index", "index_open"} =>
      \E i \in DOMAIN sealed : sealed[i].root = NewBatch.root /\ sealed[i].ids = NewBatch.ids

IInv ==
    /\ Shape
    /\ CallsAccepted /\ TamperAccepted /\ LocalReceiptWasAccepted
    /\ IndexesMarked
    /\ TodoLeft /\ Pending /\ BatchSealed
    /\ ReadableAnchorsComplete

-----------------------------------------------------------------------------
(***************************************************************************)
(* Data.                                                                   *)
(***************************************************************************)
\* A set of days has a first one.
LEMMA MinExists ==
  ASSUME NEW S \in SUBSET Nat, S # {}
  PROVE  (CHOOSE d \in S : \A e \in S : d <= e) \in S
<1> DEFINE Less == OpToRel(<, Nat)
<1>1. IsWellFoundedOn(Less, Nat)
  BY NatLessThanWellFounded
<1>2. \A x, y \in Nat : y < x => <<y, x>> \in Less
  BY DEF OpToRel
<1> HIDE DEF Less
<1>3. PICK d \in S : \A e \in S : ~(<<e, d>> \in Less)
  BY <1>1, WFMin
<1>4. \A e \in S : d <= e
  <2> SUFFICES ASSUME NEW e \in S PROVE d <= e
    OBVIOUS
  <2>1. d \in Nat /\ e \in Nat
    OBVIOUS
  <2>2. ~(e < d)
    BY <1>2, <1>3, <2>1
  <2> QED  BY <2>1, <2>2
<1> QED  BY <1>4

LEMMA AppendFacts ==
  ASSUME NEW S, NEW s \in Seq(S), NEW x \in S
  PROVE  /\ Append(s, x) \in Seq(S)
         /\ Len(Append(s, x)) = Len(s) + 1
         /\ DOMAIN Append(s, x) = DOMAIN s \cup {Len(s) + 1}
         /\ \A i \in DOMAIN s : Append(s, x)[i] = s[i]
         /\ Append(s, x)[Len(s) + 1] = x
OBVIOUS

LEMMA EmptyIndex == <<>> \in AnyIndex /\ (\A saved : MarkedBy(saved, <<>>)) /\ DOMAIN <<>> = {}
<1>1. DOMAIN <<>> = {}
  OBVIOUS
<1>2. <<>> \in [{} -> AnyEntry]
  OBVIOUS
<1> QED  BY <1>1, <1>2 DEF AnyIndex, MarkedBy

LEMMA DefaultArguments ==
  /\ (CHOOSE s \in Sessions : TRUE) \in Sessions
  /\ (CHOOSE p \in Payloads : TRUE) \in Payloads
  /\ (CHOOSE d \in Days : TRUE) \in Days
  /\ NoPrefix \in Prefixes
<1>1. Sessions # {} /\ Payloads # {} /\ Days # {} /\ NoPrefix \in Prefixes
  BY FileConstants
<1> QED  BY <1>1

LEMMA NoCallFacts ==
  NoCall \in AnyCall /\ NoCall.phase = "idle" /\ NoCall.index = <<>>
BY DefaultArguments, EmptyIndex DEF NoCall, AnyCall

LEMMA IdleFacts ==
  /\ Idle \in AnyOp /\ Idle.phase = "idle" /\ Idle.index = <<>> /\ Idle.todo = {}
BY DefaultArguments, EmptyIndex DEF Idle, AnyOp, TamperPhases

LEMMA FileStatesDisjoint ==
  Absent \notin Content /\ Unreadable \cap Content = {}
BY FileConstants DEF Content, Unreadable

\* A changed entry leaves an index an index.
LEMMA IndexWith ==
  ASSUME NEW S \in SUBSET Sessions, NEW f \in [S -> AnyEntry]
  PROVE  f \in AnyIndex
BY DEF AnyIndex

LEMMA IndexParts ==
  ASSUME NEW ix \in AnyIndex
  PROVE  DOMAIN ix \in SUBSET Sessions /\ ix \in [DOMAIN ix -> AnyEntry]
BY DEF AnyIndex

LEMMA FoundType ==
  ASSUME op \in AnyOp
  PROVE  /\ Found \in SUBSET (Sessions \X Payloads)
         /\ BatchRoot(Found) \in AnyRoot
         /\ NewBatch \in AnyBatch
         /\ NewBatch.ids \in SUBSET Sessions /\ NewBatch.root \in AnyRoot
<1>1. Found \in SUBSET (Sessions \X Payloads)
  <2>1. op.found \in SUBSET (Sessions \X Content)
    BY DEF AnyOp, TamperPhases
  <2>2. \A x \in op.found : x[1] \in Sessions /\ x[2] \in Content
    BY <2>1
  <2>3. \A x \in op.found : <<x[1], x[2].payload>> \in Sessions \X Payloads
    BY <2>2 DEF Content
  <2> QED  BY <2>3 DEF Found
<1>2. BatchRoot(Found) \in AnyRoot
  BY <1>1 DEF AnyRoot
<1>3. {x[1] : x \in Found} \in SUBSET Sessions
  BY <1>1
<1> QED  BY <1>1, <1>2, <1>3 DEF NewBatch, AnyBatch, AnyOp, TamperPhases

\* More accepted requests.
LEMMA AcceptedGrows ==
  ASSUME accepted \in Seq(Sessions \X Payloads), NEW s \in Sessions, NEW p \in Payloads,
         accepted' = Append(accepted, <<s, p>>)
  PROVE  /\ accepted' \in Seq(Sessions \X Payloads)
         /\ AcceptedIn(accepted', s, p)
         /\ \A t, q : AcceptedIn(accepted, t, q) => AcceptedIn(accepted', t, q)
<1>1. <<s, p>> \in Sessions \X Payloads
  OBVIOUS
<1>2. /\ accepted' \in Seq(Sessions \X Payloads)
      /\ DOMAIN accepted' = DOMAIN accepted \cup {Len(accepted) + 1}
      /\ \A i \in DOMAIN accepted : accepted'[i] = accepted[i]
      /\ accepted'[Len(accepted) + 1] = <<s, p>>
  BY <1>1, AppendFacts
<1> QED  BY <1>2 DEF AcceptedIn


LEMMA InitIInv == Init => IInv
<1> SUFFICES ASSUME Init PROVE IInv
  OBVIOUS
<1>1. files \in [Sessions -> FileStates]
  BY DEF Init, FileStates
<1>2. index \in AnyIndex /\ batches \in Seq(AnyBatch) /\ sealed \in Seq(AnyBatch)
      /\ accepted \in Seq(Sessions \X Payloads)
  BY EmptyIndex DEF Init
<1>3. request \in [Requests -> AnyCall] /\ op \in AnyOp
  BY NoCallFacts, IdleFacts DEF Init
<1>4. CallsAccepted /\ TamperAccepted /\ TodoLeft /\ Pending /\ BatchSealed
  BY NoCallFacts, IdleFacts DEF Init, CallsAccepted, TamperAccepted, TodoLeft, Pending, BatchSealed
<1>5. LocalReceiptWasAccepted
  BY FileStatesDisjoint DEF Init, LocalReceiptWasAccepted
<1>6. IndexesMarked
  BY NoCallFacts, IdleFacts, EmptyIndex DEF Init, IndexesMarked
<1>7. ReadableAnchorsComplete
  BY DEF Init, ReadableAnchorsComplete
<1> QED  BY <1>1, <1>2, <1>3, <1>4, <1>5, <1>6, <1>7 DEF IInv, Shape

-----------------------------------------------------------------------------
(***************************************************************************)
(* Steps of a request: one call changes, the operator and anchors.json do  *)
(* not.                                                                    *)
(***************************************************************************)
LEMMA RequestFrame ==
  ASSUME IInv, NEW r \in Requests, NEW c \in AnyCall,
         request' = [request EXCEPT ![r] = c],
         UNCHANGED <<batches, op, sealed>>,
         accepted' \in Seq(Sessions \X Payloads),
         \A s, p : AcceptedIn(accepted, s, p) => AcceptedIn(accepted', s, p),
         c.phase \notin {"idle", "persist"} => AcceptedIn(accepted', c.session, c.payload),
         MarkedBy(sealed, c.index),
         index' \in AnyIndex \cup Unreadable,
         index' \notin Unreadable => MarkedBy(sealed, index'),
         files' \in [Sessions -> FileStates],
         \A s \in Sessions : files'[s] \in Content => AcceptedIn(accepted', s, files'[s].payload)
  PROVE  IInv'
<1> USE DEF IInv
<1>1. \A q \in Requests : request'[q] = IF q = r THEN c ELSE request[q]
  BY DEF Shape
<1>2. Shape'
  BY DEF Shape
<1>3. CallsAccepted'
  <2>1. \A q \in Requests : request'[q].phase \notin {"idle", "persist"} =>
           AcceptedIn(accepted', request'[q].session, request'[q].payload)
    BY <1>1 DEF CallsAccepted
  <2> QED  BY <2>1 DEF CallsAccepted, AcceptedIn
<1>4. LocalReceiptWasAccepted'
  BY DEF LocalReceiptWasAccepted, AcceptedIn
<1>5. IndexesMarked'
  BY <1>1 DEF IndexesMarked, MarkedBy
<1>6. TodoLeft' /\ Pending' /\ BatchSealed' /\ ReadableAnchorsComplete'
  BY DEF TodoLeft, Pending, BatchSealed, ReadableAnchorsComplete, NewBatch, Found
<1>7. TamperAccepted'
  <2>1. op'.phase \in {"tamper_write", "tamper_open"} =>
          \A x \in op'.found : AcceptedIn(accepted', x[1], x[2].payload)
    BY DEF TamperAccepted
  <2> QED  BY <2>1 DEF TamperAccepted, AcceptedIn
<1> QED  BY <1>2, <1>3, <1>4, <1>5, <1>6, <1>7

\* The files a request does not write keep what the invariant says of them.
LEMMA FilesKept ==
  ASSUME IInv, UNCHANGED <<files, index, accepted, sealed>>
  PROVE  /\ accepted' \in Seq(Sessions \X Payloads)
         /\ \A s, p : AcceptedIn(accepted, s, p) => AcceptedIn(accepted', s, p)
         /\ index' \in AnyIndex \cup Unreadable
         /\ index' \notin Unreadable => MarkedBy(sealed, index')
         /\ files' \in [Sessions -> FileStates]
         /\ \A s \in Sessions : files'[s] \in Content => AcceptedIn(accepted', s, files'[s].payload)
BY DEF IInv, Shape, AcceptedIn, IndexesMarked, LocalReceiptWasAccepted

LEMMA CallParts ==
  ASSUME IInv, NEW r \in Requests
  PROVE  /\ request[r] \in AnyCall /\ MarkedBy(sealed, request[r].index)
         /\ request[r].session \in Sessions /\ request[r].payload \in Payloads
         /\ request[r].index \in AnyIndex
         /\ request[r].phase \notin {"idle", "persist"} =>
              AcceptedIn(accepted, request[r].session, request[r].payload)
BY DEF IInv, Shape, AnyCall, IndexesMarked, CallsAccepted

LEMMA ReturnStep ==
  ASSUME IInv, NEW r \in Requests, Return(r), UNCHANGED <<files, index, batches, op, accepted, sealed>>
  PROVE  IInv'
<1>1. /\ NoCall \in AnyCall /\ MarkedBy(sealed, NoCall.index)
      /\ ~(NoCall.phase \notin {"idle", "persist"})
  BY NoCallFacts, EmptyIndex
<1> QED  BY <1>1, FilesKept, RequestFrame DEF Return

LEMMA BeginStep ==
  ASSUME IInv, NEW r \in Requests, NEW s \in Sessions, NEW p \in Payloads, Begin(r, s, p)
  PROVE  IInv'
<1> DEFINE c == [NoCall EXCEPT !.phase = IF mode = "files" THEN "receipt" ELSE "persist",
                               !.session = s, !.payload = p]
<1>1. /\ request' = [request EXCEPT ![r] = c]
      /\ UNCHANGED <<files, index, batches, op, sealed>>
  BY DEF Begin, store
<1>2. /\ c \in AnyCall /\ c.index = <<>> /\ c.session = s /\ c.payload = p
      /\ c.phase = IF mode = "files" THEN "receipt" ELSE "persist"
  BY NoCallFacts DEF AnyCall
<1>3. MarkedBy(sealed, c.index)
  BY <1>2, EmptyIndex
<1> HIDE DEF c
<1>4. CASE mode = "files"
  <2>1. accepted' = Append(accepted, <<s, p>>)
    BY <1>4 DEF Begin
  <2>2. /\ accepted' \in Seq(Sessions \X Payloads) /\ AcceptedIn(accepted', s, p)
        /\ \A t, q : AcceptedIn(accepted, t, q) => AcceptedIn(accepted', t, q)
    BY <2>1, AcceptedGrows DEF IInv, Shape
  <2>3. AcceptedIn(accepted', c.session, c.payload)
    BY <1>2, <2>2
  <2>4. \A t \in Sessions : files'[t] \in Content => AcceptedIn(accepted', t, files'[t].payload)
    <3>1. \A t \in Sessions : files[t] \in Content => AcceptedIn(accepted, t, files[t].payload)
      BY DEF IInv, LocalReceiptWasAccepted, AcceptedIn
    <3> QED  BY <1>1, <2>2, <3>1
  <2>5. /\ index' \in AnyIndex \cup Unreadable /\ files' \in [Sessions -> FileStates]
        /\ index' \notin Unreadable => MarkedBy(sealed, index')
    BY <1>1 DEF IInv, Shape, IndexesMarked
  <2> QED  BY <1>1, <1>2, <1>3, <2>2, <2>3, <2>4, <2>5, RequestFrame
<1>5. CASE mode # "files"
  <2>1. accepted' = accepted /\ ~(c.phase \notin {"idle", "persist"})
    BY <1>2, <1>5 DEF Begin
  <2> QED  BY <1>1, <1>2, <1>3, <2>1, FilesKept, RequestFrame
<1> QED  BY <1>4, <1>5

LEMMA PersistStep ==
  ASSUME IInv, NEW r \in Requests, Persist(r)
  PROVE  IInv'
<1> DEFINE s == request[r].session
           p == request[r].payload
           c == IF mode = "both" THEN [request[r] EXCEPT !.phase = "receipt"] ELSE NoCall
<1>1. /\ request[r] \in AnyCall /\ MarkedBy(sealed, request[r].index)
      /\ s \in Sessions /\ p \in Payloads
  BY CallParts
<1>2. /\ UNCHANGED <<files, index, batches, op, sealed>>
      /\ accepted' = Append(accepted, <<s, p>>)
  BY DEF Persist, store
<1>3. request' = [request EXCEPT ![r] = c]
  <2>1. request \in [Requests -> AnyCall]
    BY DEF IInv, Shape
  <2> QED  BY <1>1, <2>1 DEF Persist, Phase, Return, AnyCall
<1>4. c \in AnyCall
  BY <1>1, NoCallFacts DEF AnyCall
<1>5. /\ accepted' \in Seq(Sessions \X Payloads) /\ AcceptedIn(accepted', s, p)
      /\ \A t, q : AcceptedIn(accepted, t, q) => AcceptedIn(accepted', t, q)
  BY <1>1, <1>2, AcceptedGrows DEF IInv, Shape
<1>6. c.phase \notin {"idle", "persist"} => AcceptedIn(accepted', c.session, c.payload)
  BY <1>1, <1>5, NoCallFacts DEF AnyCall
<1>7. MarkedBy(sealed, c.index)
  <2>1. c.index = IF mode = "both" THEN request[r].index ELSE <<>>
    BY <1>1, NoCallFacts DEF AnyCall
  <2> QED  BY <1>1, <2>1, EmptyIndex
<1>8. \A t \in Sessions : files'[t] \in Content => AcceptedIn(accepted', t, files'[t].payload)
  <2>1. \A t \in Sessions : files[t] \in Content => AcceptedIn(accepted, t, files[t].payload)
    BY DEF IInv, LocalReceiptWasAccepted, AcceptedIn
  <2> QED  BY <1>2, <1>5, <2>1
<1>9. /\ index' \in AnyIndex \cup Unreadable /\ files' \in [Sessions -> FileStates]
      /\ index' \notin Unreadable => MarkedBy(sealed, index')
  BY <1>2 DEF IInv, Shape, IndexesMarked
<1> HIDE DEF c
<1> QED  BY <1>2, <1>3, <1>4, <1>5, <1>6, <1>7, <1>8, <1>9, RequestFrame

\* A call goes on to its next phase.
LEMMA PhaseCall ==
  ASSUME IInv, NEW r \in Requests,
         NEW next \in {"receipt_open", "index", "index_open"}, Phase(r, next),
         request[r].phase \notin {"idle", "persist"}
  PROVE  \E c \in AnyCall :
           /\ request' = [request EXCEPT ![r] = c]
           /\ AcceptedIn(accepted, c.session, c.payload)
           /\ MarkedBy(sealed, c.index)
<1> DEFINE c == [request[r] EXCEPT !.phase = next]
<1>1. /\ request[r] \in AnyCall /\ MarkedBy(sealed, request[r].index)
      /\ AcceptedIn(accepted, request[r].session, request[r].payload)
  BY CallParts
<1>2. c \in AnyCall /\ c.session = request[r].session /\ c.payload = request[r].payload
      /\ c.index = request[r].index
  BY <1>1 DEF AnyCall
<1>3. request' = [request EXCEPT ![r] = c]
  <2>1. request \in [Requests -> AnyCall]
    BY DEF IInv, Shape
  <2> QED  BY <1>1, <2>1 DEF Phase, AnyCall
<1> QED  BY <1>1, <1>2, <1>3

LEMMA ReceiptStep ==
  ASSUME IInv, NEW r \in Requests, OpenReceipt(r) \/ FillReceipt(r)
  PROVE  IInv'
<1> DEFINE s == request[r].session
           p == request[r].payload
           next == IF OpenReceipt(r) THEN "receipt_open" ELSE "index"
<1>1. /\ s \in Sessions /\ p \in Payloads /\ AcceptedIn(accepted, s, p)
      /\ request[r].phase \notin {"idle", "persist"}
  BY CallParts DEF OpenReceipt, FillReceipt
<1>2. UNCHANGED <<index, batches, op, accepted, sealed>>
  BY DEF OpenReceipt, FillReceipt, history
<1>3. \E d \in {"receipt_open", "index"} : Phase(r, d)
  BY DEF OpenReceipt, FillReceipt
<1>4. PICK c \in AnyCall : /\ request' = [request EXCEPT ![r] = c]
                           /\ AcceptedIn(accepted, c.session, c.payload)
                           /\ MarkedBy(sealed, c.index)
  BY <1>1, <1>3, PhaseCall
<1>5. \E f \in Unreadable \cup {[payload |-> p, altered |-> FALSE]} : files' = [files EXCEPT ![s] = f]
  BY DEF OpenReceipt, FillReceipt, Written, Unreadable
<1>6. PICK f \in Unreadable \cup {[payload |-> p, altered |-> FALSE]} : files' = [files EXCEPT ![s] = f]
  BY <1>5
<1>7. files \in [Sessions -> FileStates]
  BY DEF IInv, Shape
<1>8. f \in FileStates /\ (f \in Content => f.payload = p)
  <2>1. CASE f \in Unreadable
    BY <2>1, FileStatesDisjoint DEF FileStates
  <2>2. CASE f = [payload |-> p, altered |-> FALSE]
    <3>1. f \in Content /\ f.payload = p
      BY <1>1, <2>2 DEF Content
    <3> QED  BY <3>1 DEF FileStates
  <2> QED  BY <1>6, <2>1, <2>2
<1>9. files' \in [Sessions -> FileStates]
  BY <1>6, <1>7, <1>8
<1>10. \A t \in Sessions : files'[t] \in Content => AcceptedIn(accepted, t, files'[t].payload)
  <2>1. \A t \in Sessions : files[t] \in Content => AcceptedIn(accepted, t, files[t].payload)
    BY DEF IInv, LocalReceiptWasAccepted, AcceptedIn
  <2> QED  BY <1>1, <1>6, <1>7, <1>8, <2>1
<1>11. /\ index' \in AnyIndex \cup Unreadable
       /\ index' \notin Unreadable => MarkedBy(sealed, index')
       /\ accepted' \in Seq(Sessions \X Payloads)
  BY <1>2 DEF IInv, Shape, IndexesMarked
<1> QED  BY <1>2, <1>4, <1>9, <1>10, <1>11, RequestFrame

LEMMA LoadIndexStep ==
  ASSUME IInv, NEW r \in Requests, LoadIndex(r)
  PROVE  IInv'
<1> DEFINE c == [request[r] EXCEPT !.phase = "loaded", !.index = index]
<1>1. /\ request[r] \in AnyCall /\ request[r].phase = "index"
      /\ AcceptedIn(accepted, request[r].session, request[r].payload)
  BY CallParts DEF LoadIndex
<1>2. UNCHANGED <<files, index, batches, op, accepted, sealed>>
  BY DEF LoadIndex, store, history
<1>3. CASE index \in Unreadable
  BY <1>2, <1>3, ReturnStep DEF LoadIndex, Return
<1>4. CASE index \notin Unreadable
  <2>1. request' = [request EXCEPT ![r] = c]
    BY <1>4 DEF LoadIndex
  <2>2. index \in AnyIndex /\ MarkedBy(sealed, index)
    BY <1>4 DEF IInv, Shape, IndexesMarked
  <2>3. c \in AnyCall /\ c.session = request[r].session /\ c.payload = request[r].payload
        /\ c.index = index
    BY <1>1, <2>2 DEF AnyCall
  <2> HIDE DEF c
  <2> QED  BY <1>1, <1>2, <2>1, <2>2, <2>3, FilesKept, RequestFrame
<1> QED  BY <1>3, <1>4

LEMMA OpenIndexStep ==
  ASSUME IInv, NEW r \in Requests, OpenIndex(r)
  PROVE  IInv'
<1>1. /\ request[r].phase \notin {"idle", "persist"}
      /\ UNCHANGED <<files, batches, op, accepted, sealed>>
      /\ index' = Empty /\ Phase(r, "index_open")
  BY DEF OpenIndex, history
<1>2. PICK c \in AnyCall : /\ request' = [request EXCEPT ![r] = c]
                           /\ AcceptedIn(accepted, c.session, c.payload)
                           /\ MarkedBy(sealed, c.index)
  BY <1>1, PhaseCall
<1>3. index' \in Unreadable
  BY <1>1 DEF Unreadable
<1>4. /\ accepted' \in Seq(Sessions \X Payloads) /\ files' \in [Sessions -> FileStates]
      /\ \A t \in Sessions : files'[t] \in Content => AcceptedIn(accepted', t, files'[t].payload)
  BY <1>1 DEF IInv, Shape, LocalReceiptWasAccepted, AcceptedIn
<1> QED  BY <1>1, <1>2, <1>3, <1>4, RequestFrame

\* The entry that a request adds has no root, and the others are those it read.
LEMMA WithEntryMarked ==
  ASSUME IInv, NEW r \in Requests
  PROVE  WithEntry(r) \in AnyIndex /\ MarkedBy(sealed, WithEntry(r))
<1> DEFINE s == request[r].session
           old == request[r].index
           D == DOMAIN old \cup {s}
           entry == [payload |-> request[r].payload, root |-> NoRoot]
<1>1. /\ s \in Sessions /\ request[r].payload \in Payloads
      /\ old \in AnyIndex /\ MarkedBy(sealed, old)
  BY CallParts
<1>2. DOMAIN old \in SUBSET Sessions /\ old \in [DOMAIN old -> AnyEntry]
  BY <1>1, IndexParts
<1>3. entry \in AnyEntry /\ entry.root = NoRoot
  BY <1>1 DEF AnyEntry, AnyRoot
<1>4. WithEntry(r) = [t \in D |-> IF t = s THEN entry ELSE old[t]]
  BY DEF WithEntry
<1> HIDE DEF entry, old, s
<1>5. D \in SUBSET Sessions
  BY <1>1, <1>2
<1>6. WithEntry(r) \in [D -> AnyEntry]
  BY <1>2, <1>3, <1>4
<1>7. WithEntry(r) \in AnyIndex
  BY <1>5, <1>6, IndexWith
<1>8. MarkedBy(sealed, WithEntry(r))
  BY <1>1, <1>3, <1>4 DEF MarkedBy
<1> QED  BY <1>7, <1>8

LEMMA FillIndexStep ==
  ASSUME IInv, NEW r \in Requests, FillIndex(r)
  PROVE  IInv'
<1>1. /\ UNCHANGED <<files, batches, op, accepted, sealed>>
      /\ Return(r)
  BY DEF FillIndex, history
<1>2. index' \in {WithEntry(r)} \cup Unreadable
  BY DEF FillIndex, Written, Unreadable
<1>3. /\ index' \in AnyIndex \cup Unreadable
      /\ index' \notin Unreadable => MarkedBy(sealed, index')
  BY <1>2, WithEntryMarked
<1>4. /\ accepted' \in Seq(Sessions \X Payloads) /\ files' \in [Sessions -> FileStates]
      /\ \A t \in Sessions : files'[t] \in Content => AcceptedIn(accepted', t, files'[t].payload)
  BY <1>1 DEF IInv, Shape, LocalReceiptWasAccepted, AcceptedIn
<1>5. /\ NoCall \in AnyCall /\ MarkedBy(sealed, NoCall.index)
      /\ ~(NoCall.phase \notin {"idle", "persist"})
  BY NoCallFacts, EmptyIndex
<1> QED  BY <1>1, <1>3, <1>4, <1>5, RequestFrame DEF Return

\* All requests at once.
LEMMA CrashServerStep ==
  ASSUME IInv, CrashServer
  PROVE  IInv'
<1>1. /\ UNCHANGED <<files, index, batches, op, accepted, sealed>>
      /\ request' = [q \in Requests |-> NoCall]
  BY DEF CrashServer, store
<1>2. request' \in [Requests -> AnyCall] /\ \A q \in Requests : request'[q] = NoCall
  BY <1>1, NoCallFacts
<1>3. Shape'
  BY <1>1, <1>2 DEF IInv, Shape
<1>4. CallsAccepted'
  BY <1>2, NoCallFacts DEF CallsAccepted
<1>5. LocalReceiptWasAccepted'
  BY <1>1 DEF IInv, LocalReceiptWasAccepted
<1>6. IndexesMarked'
  BY <1>1, <1>2, NoCallFacts, EmptyIndex DEF IInv, IndexesMarked
<1>7. TodoLeft' /\ Pending' /\ BatchSealed' /\ ReadableAnchorsComplete' /\ TamperAccepted'
  BY <1>1 DEF IInv, TodoLeft, Pending, BatchSealed, ReadableAnchorsComplete, NewBatch, Found,
     TamperAccepted, AcceptedIn
<1> QED  BY <1>3, <1>4, <1>5, <1>6, <1>7 DEF IInv

-----------------------------------------------------------------------------
(***************************************************************************)
(* Steps of the operator: no request changes.                              *)
(***************************************************************************)
LEMMA OpFrame ==
  ASSUME IInv, UNCHANGED <<files, request, accepted>>,
         op' \in AnyOp, sealed' \in Seq(AnyBatch),
         \A ix : MarkedBy(sealed, ix) => MarkedBy(sealed', ix),
         MarkedBy(sealed', op'.index),
         index' \in AnyIndex \cup Unreadable,
         index' \notin Unreadable => MarkedBy(sealed', index'),
         batches' \in Seq(AnyBatch) \cup Unreadable,
         op'.phase \notin {"tamper_write", "tamper_open"},
         TodoLeft', Pending', BatchSealed', ReadableAnchorsComplete'
  PROVE  IInv'
<1>1. Shape'
  BY DEF IInv, Shape
<1>2. CallsAccepted' /\ LocalReceiptWasAccepted'
  BY DEF IInv, CallsAccepted, LocalReceiptWasAccepted, AcceptedIn
<1>3. IndexesMarked'
  BY DEF IInv, IndexesMarked
<1>4. TamperAccepted'
  BY DEF TamperAccepted
<1> QED  BY <1>1, <1>2, <1>3, <1>4 DEF IInv

\* A step that writes no file and stays away from the phases that do.
LEMMA QuietOp ==
  ASSUME IInv, UNCHANGED <<files, index, batches, request, accepted, sealed>>,
         op' \in AnyOp, MarkedBy(sealed, op'.index),
         op'.phase \notin {"anchors_open", "index", "index_open", "tamper_write", "tamper_open"},
         (op'.cmd = "day" /\ op'.phase # "idle") => op'.todo # {}
  PROVE  IInv'
<1>1. /\ sealed' \in Seq(AnyBatch) /\ batches' \in Seq(AnyBatch) \cup Unreadable
      /\ index' \in AnyIndex \cup Unreadable
      /\ index' \notin Unreadable => MarkedBy(sealed', index')
      /\ ReadableAnchorsComplete'
  BY DEF IInv, Shape, IndexesMarked, ReadableAnchorsComplete
<1>2. TodoLeft' /\ Pending' /\ BatchSealed'
  BY DEF TodoLeft, Pending, BatchSealed
<1> QED  BY <1>1, <1>2, OpFrame

\* A command that ends or is killed.
LEMMA OpEnds ==
  ASSUME IInv, op' = Idle, UNCHANGED <<files, index, batches, request, accepted, sealed>>
  PROVE  IInv'
<1>1. /\ op' \in AnyOp /\ op'.phase = "idle" /\ MarkedBy(sealed, op'.index)
  BY IdleFacts, EmptyIndex
<1> QED  BY <1>1, QuietOp

LEMMA OpParts ==
  ASSUME IInv
  PROVE  /\ op \in AnyOp /\ MarkedBy(sealed, op.index)
         /\ op.cmd = "tamper" => op.phase \in TamperPhases
         /\ op.cmd \in {"day", "all", "import", "tamper"} /\ op.day \in Days /\ op.prefix \in Prefixes
         /\ op.todo \in SUBSET Days /\ op.left \in SUBSET Sessions
         /\ op.found \in SUBSET (Sessions \X Content) /\ op.index \in AnyIndex
         /\ op.batches \in Seq(AnyBatch)
BY DEF IInv, Shape, IndexesMarked, AnyOp, TamperPhases

LEMMA StartStep ==
  ASSUME IInv, NEW cmd \in {"day", "all", "import", "tamper"}, NEW phase \in {"load", "tamper"},
         NEW prefix \in Prefixes, NEW days \in SUBSET Days, NEW sessions \in SUBSET Sessions,
         cmd = "day" => days # {}, cmd = "tamper" => phase = "tamper",
         Start(cmd, phase, prefix, days, sessions)
  PROVE  IInv'
<1>1. /\ op' = [Idle EXCEPT !.cmd = cmd, !.phase = phase, !.prefix = prefix, !.todo = days,
                             !.left = sessions]
      /\ UNCHANGED <<files, index, batches, request, accepted, sealed>>
  BY DEF Start, store
<1>2. /\ op' \in AnyOp /\ op'.cmd = cmd /\ op'.phase = phase /\ op'.todo = days
      /\ op'.index = <<>>
  BY <1>1, IdleFacts DEF AnyOp, TamperPhases
<1>3. MarkedBy(sealed, op'.index)
  BY <1>2, EmptyIndex
<1> QED  BY <1>1, <1>2, <1>3, QuietOp

LEMMA OpLoadStep ==
  ASSUME IInv, OpLoad
  PROVE  IInv'
<1>1. op.phase = "load" /\ UNCHANGED <<files, index, batches, request, accepted, sealed>>
  BY DEF OpLoad, store, history
<1>2. CASE index \in Unreadable
  BY <1>1, <1>2, OpEnds DEF OpLoad
<1>3. CASE index \notin Unreadable
  <2> DEFINE day == IF op.cmd = "day" THEN CHOOSE d \in op.todo : \A e \in op.todo : d <= e
                    ELSE op.day
             left == DOMAIN index \cap Scope[op.prefix]
  <2>1. op' = [op EXCEPT !.phase = "read", !.index = index, !.found = {},
                 !.left = left, !.day = day]
    BY <1>3 DEF OpLoad
  <2>2. index \in AnyIndex /\ MarkedBy(sealed, index)
    BY <1>3 DEF IInv, Shape, IndexesMarked
  <2>3. left \in SUBSET Sessions
    BY <2>2, IndexParts
  <2>4. day \in Days
    <3>1. CASE op.cmd = "day"
      <4>1. op.todo # {} /\ op.todo \in SUBSET Days
        BY <1>1, <3>1, OpParts DEF IInv, TodoLeft
      <4>2. op.todo \in SUBSET Nat
        BY <4>1, FileConstants
      <4> QED  BY <3>1, <4>1, <4>2, MinExists
    <3>2. CASE op.cmd # "day"
      BY <3>2, OpParts
    <3> QED  BY <3>1, <3>2
  <2> HIDE DEF day, left
  <2>5. /\ op' \in AnyOp /\ op'.phase = "read" /\ op'.index = index
        /\ op'.cmd = op.cmd /\ op'.todo = op.todo
    BY <1>1, <2>1, <2>2, <2>3, <2>4, OpParts DEF AnyOp, TamperPhases
  <2>6. op'.cmd = "day" => op'.todo # {}
    BY <1>1, <2>5 DEF IInv, TodoLeft
  <2> QED  BY <1>1, <2>2, <2>5, <2>6, QuietOp
<1> QED  BY <1>2, <1>3

LEMMA OpReadStep ==
  ASSUME IInv, OpRead
  PROVE  IInv'
<1> DEFINE s == CHOOSE t \in op.left : \A u \in op.left : t <= u
<1>1. /\ op.phase = "read" /\ op.left # {}
      /\ UNCHANGED <<files, index, batches, request, accepted, sealed>>
  BY DEF OpRead, store, history
<1>2. s \in op.left /\ s \in Sessions
  <2>1. op.left \in SUBSET Sessions /\ op.left \in SUBSET Nat
    BY OpParts, FileConstants
  <2>2. s \in op.left
    BY <1>1, <2>1, MinExists
  <2> QED  BY <2>1, <2>2
<1>3. \/ op' = Idle
      \/ /\ files[s] \notin Unreadable
         /\ \E found \in {op.found, op.found \cup {<<s, files[s]>>}} :
              /\ op' = [op EXCEPT !.left = op.left \ {s}, !.found = found]
              /\ files[s] = Absent => found = op.found
  BY DEF OpRead
<1> HIDE DEF s
<1>4. CASE op' = Idle
  BY <1>1, <1>4, OpEnds
<1>5. CASE op' # Idle
  <2>1. PICK found \in {op.found, op.found \cup {<<s, files[s]>>}} :
          /\ op' = [op EXCEPT !.left = op.left \ {s}, !.found = found]
          /\ files[s] = Absent => found = op.found
    BY <1>3, <1>5
  <2>2. files[s] \in Content \cup {Absent}
    BY <1>2, <1>3, <1>5 DEF IInv, Shape, FileStates
  <2>3. found \in SUBSET (Sessions \X Content)
    <3>1. CASE files[s] = Absent
      BY <2>1, <3>1, OpParts
    <3>2. CASE files[s] \in Content
      <4>1. <<s, files[s]>> \in Sessions \X Content
        BY <1>2, <3>2
      <4> QED  BY <2>1, <4>1, OpParts
    <3> QED  BY <2>2, <3>1, <3>2
  <2>4. op.left \ {s} \in SUBSET Sessions
    BY OpParts
  <2>5. /\ op' \in AnyOp /\ op'.phase = "read" /\ op'.index = op.index
        /\ op'.cmd = op.cmd /\ op'.todo = op.todo
    BY <1>1, <2>1, <2>3, <2>4, OpParts DEF AnyOp, TamperPhases
  <2>6. op'.cmd = "day" => op'.todo # {}
    BY <1>1, <2>5 DEF IInv, TodoLeft
  <2> QED  BY <1>1, <2>5, <2>6, OpParts, QuietOp
<1> QED  BY <1>4, <1>5

LEMMA OpReadDoneStep ==
  ASSUME IInv, OpReadDone
  PROVE  IInv'
<1>1. /\ op.phase = "read" /\ UNCHANGED <<files, index, batches, request, accepted, sealed>>
  BY DEF OpReadDone, store, history
<1>2. op.cmd \in {"day", "all", "import"}
  BY <1>1, OpParts DEF TamperPhases
<1>3. CASE op' = Idle
  BY <1>1, <1>3, OpEnds
<1>4. CASE op.cmd = "import" /\ op' = [op EXCEPT !.phase = "import"]
  <2>1. op' \in AnyOp /\ op'.phase = "import" /\ op'.index = op.index /\ op'.cmd = "import"
    BY <1>4, OpParts DEF AnyOp, TamperPhases
  <2> QED  BY <1>1, <2>1, OpParts, QuietOp
<1>5. CASE /\ op.found # {}
           /\ op' = [op EXCEPT !.cmd = "day", !.phase = "load",
                               !.todo = {DayOf[x[2]] : x \in Found}]
  <2> DEFINE days == {DayOf[x[2]] : x \in Found}
  <2>1. Found \in SUBSET (Sessions \X Payloads)
    BY OpParts, FoundType
  <2>2. days \in SUBSET Days
    BY <2>1, FileConstants
  <2>3. days # {}
    <3>1. Found # {}
      BY <1>5 DEF Found
    <3> QED  BY <3>1
  <2> HIDE DEF days
  <2>4. op' \in AnyOp /\ op'.phase = "load" /\ op'.index = op.index /\ op'.todo = days
    BY <1>5, <2>2, OpParts DEF AnyOp, TamperPhases, days
  <2> QED  BY <1>1, <2>3, <2>4, OpParts, QuietOp
<1>6. CASE op.cmd = "day" /\ op' = [op EXCEPT !.phase = "anchors"]
  <2>1. /\ op' \in AnyOp /\ op'.phase = "anchors" /\ op'.index = op.index
        /\ op'.cmd = op.cmd /\ op'.todo = op.todo
    BY <1>6, OpParts DEF AnyOp, TamperPhases
  <2>2. op.todo # {}
    BY <1>1, <1>6 DEF IInv, TodoLeft
  <2> QED  BY <1>1, <2>1, <2>2, OpParts, QuietOp
<1>7. \/ op' = Idle
      \/ op.cmd = "import" /\ op' = [op EXCEPT !.phase = "import"]
      \/ op.found # {} /\ op' = [op EXCEPT !.cmd = "day", !.phase = "load",
                                           !.todo = {DayOf[x[2]] : x \in Found}]
      \/ op.cmd = "day" /\ op' = [op EXCEPT !.phase = "anchors"]
  <2>1. CASE op.cmd = "import"
    BY <2>1 DEF OpReadDone
  <2>2. CASE op.cmd # "import" /\ op.found = {}
    BY <2>2 DEF OpReadDone
  <2>3. CASE op.cmd = "all" /\ op.found # {}
    BY <2>3 DEF OpReadDone
  <2>4. CASE op.cmd = "day" /\ op.found # {}
    BY <2>4 DEF OpReadDone
  <2> QED  BY <1>2, <2>1, <2>2, <2>3, <2>4
<1> QED  BY <1>3, <1>4, <1>5, <1>6, <1>7

\* What was read, day and prefix stay as they are between the writes.
LEMMA SameBatch ==
  ASSUME op'.day = op.day, op'.prefix = op.prefix, op'.found = op.found
  PROVE  NewBatch' = NewBatch
BY DEF NewBatch, Found

LEMMA OpOpenAnchorsStep ==
  ASSUME IInv, OpOpenAnchors
  PROVE  IInv'
<1>1. op.phase = "anchors" /\ UNCHANGED <<files, index, request, accepted, sealed>>
  BY DEF OpOpenAnchors, history
<1>2. CASE op' = Idle /\ UNCHANGED batches
  BY <1>1, <1>2, OpEnds
<1>3. CASE /\ batches \notin Unreadable
           /\ op' = [op EXCEPT !.phase = "anchors_open", !.batches = Append(batches, NewBatch)]
           /\ batches' = Empty
  <2>1. batches = sealed /\ sealed \in Seq(AnyBatch)
    BY <1>3 DEF IInv, Shape, ReadableAnchorsComplete
  <2>2. NewBatch \in AnyBatch
    BY OpParts, FoundType
  <2>3. Append(batches, NewBatch) \in Seq(AnyBatch)
    BY <2>1, <2>2, AppendFacts
  <2>4. /\ op' \in AnyOp /\ op'.phase = "anchors_open" /\ op'.index = op.index
        /\ op'.cmd = op.cmd /\ op'.todo = op.todo /\ op'.batches = Append(sealed, NewBatch)
        /\ op'.day = op.day /\ op'.prefix = op.prefix /\ op'.found = op.found
    BY <1>1, <1>3, <2>1, <2>3, OpParts DEF AnyOp, TamperPhases
  <2>5. TodoLeft'
    BY <1>1, <2>4 DEF IInv, TodoLeft
  <2>6. Pending'
    BY <1>1, <2>4, SameBatch DEF Pending
  <2>7. BatchSealed'
    BY <2>4 DEF BatchSealed
  <2>8. batches' \in Unreadable /\ ReadableAnchorsComplete'
    BY <1>3 DEF ReadableAnchorsComplete, Unreadable
  <2>9. /\ index' \in AnyIndex \cup Unreadable
        /\ index' \notin Unreadable => MarkedBy(sealed', index')
        /\ sealed' \in Seq(AnyBatch) /\ MarkedBy(sealed', op'.index)
    BY <1>1, <2>1, <2>4, OpParts DEF IInv, Shape, IndexesMarked
  <2> QED  BY <1>1, <2>4, <2>5, <2>6, <2>7, <2>8, <2>9, OpFrame
<1> QED  BY <1>2, <1>3 DEF OpOpenAnchors

\* One more saved batch takes no mark away.
LEMMA SealedGrows ==
  ASSUME sealed \in Seq(AnyBatch), NEW b \in AnyBatch, sealed' = Append(sealed, b)
  PROVE  /\ sealed' \in Seq(AnyBatch)
         /\ \A ix : MarkedBy(sealed, ix) => MarkedBy(sealed', ix)
         /\ \E i \in DOMAIN sealed' : sealed'[i] = b
<1>1. /\ sealed' \in Seq(AnyBatch)
      /\ DOMAIN sealed' = DOMAIN sealed \cup {Len(sealed) + 1}
      /\ \A i \in DOMAIN sealed : sealed'[i] = sealed[i]
      /\ sealed'[Len(sealed) + 1] = b
  BY AppendFacts
<1>2. ASSUME NEW ix, MarkedBy(sealed, ix), NEW s \in DOMAIN ix, ix[s].root # NoRoot
      PROVE  \E i \in DOMAIN sealed' : sealed'[i].root = ix[s].root /\ s \in sealed'[i].ids
  <2>1. PICK i \in DOMAIN sealed : sealed[i].root = ix[s].root /\ s \in sealed[i].ids
    BY <1>2 DEF MarkedBy
  <2> QED  BY <1>1, <2>1
<1> QED  BY <1>1, <1>2 DEF MarkedBy

LEMMA OpFillAnchorsStep ==
  ASSUME IInv, OpFillAnchors
  PROVE  IInv'
<1>1. /\ op.phase = "anchors_open" /\ UNCHANGED <<files, index, request, accepted>>
      /\ batches' = op.batches
      /\ sealed' = Append(sealed, op.batches[Len(op.batches)])
      /\ op' = [op EXCEPT !.phase = "index"]
  BY DEF OpFillAnchors
<1>2. sealed \in Seq(AnyBatch) /\ NewBatch \in AnyBatch
  BY OpParts, FoundType DEF IInv, Shape
<1>3. op.batches = Append(sealed, NewBatch)
  BY <1>1 DEF IInv, Pending
<1>4. op.batches[Len(op.batches)] = NewBatch
  BY <1>2, <1>3, AppendFacts
<1>5. sealed' = Append(sealed, NewBatch) /\ batches' = sealed'
  BY <1>1, <1>3, <1>4
<1>6. /\ sealed' \in Seq(AnyBatch)
      /\ \A ix : MarkedBy(sealed, ix) => MarkedBy(sealed', ix)
      /\ \E i \in DOMAIN sealed' : sealed'[i] = NewBatch
  BY <1>2, <1>5, SealedGrows
<1>7. /\ op' \in AnyOp /\ op'.phase = "index" /\ op'.index = op.index
      /\ op'.cmd = op.cmd /\ op'.todo = op.todo
      /\ op'.day = op.day /\ op'.prefix = op.prefix /\ op'.found = op.found
  BY <1>1, OpParts DEF AnyOp, TamperPhases
<1>8. TodoLeft'
  BY <1>1, <1>7 DEF IInv, TodoLeft
<1>9. Pending'
  BY <1>7 DEF Pending
<1>10. BatchSealed'
  <2>1. NewBatch' = NewBatch
    BY <1>7, SameBatch
  <2>2. \E i \in DOMAIN sealed' : sealed'[i].root = NewBatch.root /\ sealed'[i].ids = NewBatch.ids
    BY <1>6
  <2> QED  BY <2>1, <2>2 DEF BatchSealed
<1>11. ReadableAnchorsComplete' /\ batches' \in Seq(AnyBatch)
  BY <1>5, <1>6 DEF ReadableAnchorsComplete
<1>12. MarkedBy(sealed', op'.index)
  BY <1>6, <1>7, OpParts
<1>13. /\ index' \in AnyIndex \cup Unreadable
       /\ index' \notin Unreadable => MarkedBy(sealed', index')
  BY <1>1, <1>6 DEF IInv, Shape, IndexesMarked
<1> QED  BY <1>1, <1>6, <1>7, <1>8, <1>9, <1>10, <1>11, <1>12, <1>13, OpFrame

LEMMA OpOpenIndexStep ==
  ASSUME IInv, OpOpenIndex
  PROVE  IInv'
<1>1. /\ op.phase = "index" /\ UNCHANGED <<files, batches, request, accepted, sealed>>
      /\ index' = Empty /\ op' = [op EXCEPT !.phase = "index_open"]
  BY DEF OpOpenIndex, history
<1>2. /\ op' \in AnyOp /\ op'.phase = "index_open" /\ op'.index = op.index
      /\ op'.cmd = op.cmd /\ op'.todo = op.todo
      /\ op'.day = op.day /\ op'.prefix = op.prefix /\ op'.found = op.found
  BY <1>1, OpParts DEF AnyOp, TamperPhases
<1>3. TodoLeft'
  BY <1>1, <1>2 DEF IInv, TodoLeft
<1>4. Pending'
  BY <1>2 DEF Pending
<1>5. BatchSealed'
  <2>1. NewBatch' = NewBatch
    BY <1>2, SameBatch
  <2> QED  BY <1>1, <2>1 DEF IInv, BatchSealed
<1>6. index' \in Unreadable
  BY <1>1 DEF Unreadable
<1>7. /\ sealed' \in Seq(AnyBatch) /\ batches' \in Seq(AnyBatch) \cup Unreadable
      /\ MarkedBy(sealed', op'.index) /\ ReadableAnchorsComplete'
  BY <1>1, <1>2, OpParts DEF IInv, Shape, ReadableAnchorsComplete
<1> QED  BY <1>1, <1>2, <1>3, <1>4, <1>5, <1>6, <1>7, OpFrame

\* The index that marks the sessions of a batch that was saved.
LEMMA MarkedIndex ==
  ASSUME NEW ix \in AnyIndex, MarkedBy(sealed, ix), NEW b \in AnyBatch,
         \E i \in DOMAIN sealed : sealed[i].root = b.root /\ sealed[i].ids = b.ids
  PROVE  LET new == [s \in DOMAIN ix |-> IF s \in b.ids THEN [ix[s] EXCEPT !.root = b.root] ELSE ix[s]]
         IN  new \in AnyIndex /\ MarkedBy(sealed, new)
<1> DEFINE new == [s \in DOMAIN ix |->
                     IF s \in b.ids THEN [ix[s] EXCEPT !.root = b.root] ELSE ix[s]]
<1>1. DOMAIN ix \in SUBSET Sessions /\ ix \in [DOMAIN ix -> AnyEntry] /\ b.root \in AnyRoot
  BY IndexParts DEF AnyBatch
<1>2. \A s \in DOMAIN ix : new[s] \in AnyEntry
  BY <1>1 DEF AnyEntry
<1>3. new \in [DOMAIN ix -> AnyEntry]
  BY <1>2
<1>4. new \in AnyIndex
  BY <1>1, <1>3, IndexWith
<1>5. ASSUME NEW s \in DOMAIN ix, new[s].root # NoRoot
      PROVE  \E i \in DOMAIN sealed : sealed[i].root = new[s].root /\ s \in sealed[i].ids
  <2>1. CASE s \in b.ids
    <3>1. new[s].root = b.root
      BY <1>1, <2>1 DEF AnyEntry
    <3> QED  BY <2>1, <3>1
  <2>2. CASE s \notin b.ids
    <3>1. new[s] = ix[s]
      BY <2>2
    <3> HIDE DEF new
    <3> QED  BY <1>5, <3>1 DEF MarkedBy
  <2> QED  BY <2>1, <2>2
<1>6. DOMAIN new = DOMAIN ix
  OBVIOUS
<1> HIDE DEF new
<1>7. MarkedBy(sealed, new)
  BY <1>5, <1>6 DEF MarkedBy
<1> QED  BY <1>4, <1>7 DEF new

LEMMA OpFillIndexStep ==
  ASSUME IInv, OpFillIndex
  PROVE  IInv'
<1> DEFINE ids == {x[1] : x \in op.found}
           new == [s \in DOMAIN op.index |->
                     IF s \in ids THEN [op.index[s] EXCEPT !.root = NewBatch.root] ELSE op.index[s]]
<1>1. /\ op.phase = "index_open" /\ UNCHANGED <<files, batches, request, accepted, sealed>>
      /\ index' \in {new} \cup Unreadable
  BY DEF OpFillIndex, Written, Unreadable, history
<1>2. ids = NewBatch.ids
  <2>1. ASSUME NEW s PROVE s \in {x[1] : x \in Found} <=> s \in ids
    <3>1. s \in ids => \E x \in Found : s = x[1]
      <4> SUFFICES ASSUME s \in ids PROVE \E x \in Found : s = x[1]
        OBVIOUS
      <4>1. PICK y \in op.found : s = y[1]
        OBVIOUS
      <4>2. <<y[1], y[2].payload>> \in Found
        BY DEF Found
      <4> QED  BY <4>1, <4>2
    <3>2. (\E x \in Found : s = x[1]) => s \in ids
      <4> SUFFICES ASSUME NEW x \in Found, s = x[1] PROVE s \in ids
        OBVIOUS
      <4>1. PICK y \in op.found : x = <<y[1], y[2].payload>>
        BY DEF Found
      <4> QED  BY <4>1
    <3> QED  BY <3>1, <3>2
  <2>2. {x[1] : x \in Found} = ids
    BY <2>1
  <2> QED  BY <2>2 DEF NewBatch
<1>3. new \in AnyIndex /\ MarkedBy(sealed, new)
  <2>1. NewBatch \in AnyBatch
    BY OpParts, FoundType
  <2>2. \E i \in DOMAIN sealed : sealed[i].root = NewBatch.root /\ sealed[i].ids = NewBatch.ids
    BY <1>1 DEF IInv, BatchSealed
  <2>3. op.index \in AnyIndex /\ MarkedBy(sealed, op.index)
    BY OpParts
  <2> HIDE DEF ids
  <2> QED  BY <1>2, <2>1, <2>2, <2>3, MarkedIndex
<1> HIDE DEF new
<1>4. \/ op' = Idle
      \/ op.todo # {op.day} /\ op' = [op EXCEPT !.phase = "load", !.todo = op.todo \ {op.day}]
  BY DEF OpFillIndex
<1>5. /\ op' \in AnyOp /\ MarkedBy(sealed, op'.index)
      /\ op'.phase \notin {"anchors_open", "index", "index_open", "tamper_write", "tamper_open"}
      /\ (op'.cmd = "day" /\ op'.phase # "idle") => op'.todo # {}
  <2>1. CASE op' = Idle
    BY <2>1, IdleFacts, EmptyIndex
  <2>2. CASE op.todo # {op.day} /\ op' = [op EXCEPT !.phase = "load", !.todo = op.todo \ {op.day}]
    <3>1. op.todo \ {op.day} \in SUBSET Days
      BY OpParts
    <3>2. /\ op' \in AnyOp /\ op'.index = op.index /\ op'.phase = "load"
          /\ op'.cmd = op.cmd /\ op'.todo = op.todo \ {op.day}
      BY <1>1, <2>2, <3>1, OpParts DEF AnyOp, TamperPhases
    <3>3. op.cmd = "day" => op.todo # {}
      BY <1>1 DEF IInv, TodoLeft
    <3> QED  BY <2>2, <3>2, <3>3, OpParts
  <2> QED  BY <1>4, <2>1, <2>2
<1>6. TodoLeft' /\ Pending' /\ BatchSealed'
  BY <1>5 DEF TodoLeft, Pending, BatchSealed
<1>7. /\ sealed' \in Seq(AnyBatch) /\ batches' \in Seq(AnyBatch) \cup Unreadable
      /\ ReadableAnchorsComplete'
  BY <1>1 DEF IInv, Shape, ReadableAnchorsComplete
<1>8. /\ index' \in AnyIndex \cup Unreadable
      /\ index' \notin Unreadable => MarkedBy(sealed', index')
  BY <1>1, <1>3
<1> QED  BY <1>1, <1>5, <1>6, <1>7, <1>8, OpFrame

LEMMA ImportStep ==
  ASSUME IInv, ImportReceipts \/ ImportAnchors
  PROVE  IInv'
<1>1. UNCHANGED <<files, index, batches, request, accepted, sealed>>
  BY DEF ImportReceipts, ImportAnchors, store, history
<1>2. CASE ImportAnchors
  BY <1>1, <1>2, OpEnds DEF ImportAnchors
<1>3. CASE ImportReceipts
  <2>1. op.phase = "import" /\ op' = [op EXCEPT !.phase = "import_anchors"]
    BY <1>3 DEF ImportReceipts
  <2>2. /\ op' \in AnyOp /\ op'.phase = "import_anchors" /\ op'.index = op.index
        /\ op'.cmd = op.cmd /\ op'.todo = op.todo
    BY <2>1, OpParts DEF AnyOp, TamperPhases
  <2>3. op.cmd = "day" => op.todo # {}
    BY <2>1 DEF IInv, TodoLeft
  <2> QED  BY <1>1, <2>2, <2>3, OpParts, QuietOp
<1> QED  BY <1>2, <1>3

\* The tamper helper writes back the payload that it read.
LEMMA TamperReadStep ==
  ASSUME IInv, TamperRead
  PROVE  IInv'
<1>1. /\ op.phase = "tamper" /\ UNCHANGED <<files, index, batches, request, accepted, sealed>>
  BY DEF TamperRead, store, history
<1>2. PICK s \in op.left :
        \/ op' = Idle
        \/ /\ files[s] \in Content
           /\ op' = [op EXCEPT !.phase = "tamper_write", !.left = {}, !.found = {<<s, files[s]>>}]
  BY DEF TamperRead
<1>3. CASE op' = Idle
  BY <1>1, <1>3, OpEnds
<1>4. CASE /\ files[s] \in Content
           /\ op' = [op EXCEPT !.phase = "tamper_write", !.left = {}, !.found = {<<s, files[s]>>}]
  <2>1. s \in Sessions /\ <<s, files[s]>> \in Sessions \X Content
    BY <1>4, OpParts
  <2>2. /\ op' \in AnyOp /\ op'.phase = "tamper_write" /\ op'.index = op.index
        /\ op'.cmd = op.cmd /\ op'.todo = op.todo /\ op'.found = {<<s, files[s]>>}
    BY <1>4, <2>1, OpParts DEF AnyOp, TamperPhases
  <2>3. AcceptedIn(accepted, s, files[s].payload)
    BY <1>4, <2>1 DEF IInv, LocalReceiptWasAccepted, AcceptedIn
  <2>4. TamperAccepted'
    <3>1. \A x \in op'.found : AcceptedIn(accepted, x[1], x[2].payload)
      BY <2>2, <2>3
    <3> QED  BY <1>1, <3>1 DEF TamperAccepted, AcceptedIn
  <2>5. Shape' /\ CallsAccepted' /\ LocalReceiptWasAccepted'
    BY <1>1, <2>2 DEF IInv, Shape, CallsAccepted, LocalReceiptWasAccepted, AcceptedIn
  <2>6. IndexesMarked' /\ TodoLeft' /\ Pending' /\ BatchSealed' /\ ReadableAnchorsComplete'
    BY <1>1, <2>2 DEF IInv, IndexesMarked, TodoLeft, Pending, BatchSealed, ReadableAnchorsComplete
  <2> QED  BY <2>4, <2>5, <2>6 DEF IInv
<1> QED  BY <1>2, <1>3, <1>4

\* It truncates the file, or writes the payload that it read.
LEMMA TamperStep ==
  ASSUME IInv, TamperOpen \/ TamperFill
  PROVE  IInv'
<1>1. /\ UNCHANGED <<index, batches, request, accepted, sealed>>
      /\ op.phase \in {"tamper_write", "tamper_open"}
  BY DEF TamperOpen, TamperFill, history
<1>a. PICK x \in op.found : \E f \in Unreadable \cup {[x[2] EXCEPT !.altered = TRUE]} :
        files' = [files EXCEPT ![x[1]] = f]
  BY DEF TamperOpen, TamperFill, Written, Unreadable
<1>2. PICK f \in Unreadable \cup {[x[2] EXCEPT !.altered = TRUE]} : files' = [files EXCEPT ![x[1]] = f]
  BY <1>a
<1>3. /\ x[1] \in Sessions /\ x[2] \in Content
      /\ AcceptedIn(accepted, x[1], x[2].payload)
  BY <1>1, OpParts DEF IInv, TamperAccepted
<1>4. f \in FileStates /\ (f \in Content => f.payload = x[2].payload)
  <2>1. CASE f \in Unreadable
    BY <2>1, FileStatesDisjoint DEF FileStates
  <2>2. CASE f = [x[2] EXCEPT !.altered = TRUE]
    <3>1. f \in Content /\ f.payload = x[2].payload
      BY <1>3, <2>2 DEF Content
    <3> QED  BY <3>1 DEF FileStates
  <2> QED  BY <2>1, <2>2
<1>5. files' \in [Sessions -> FileStates] /\ \A t \in Sessions : files'[t] = IF t = x[1] THEN f ELSE files[t]
  BY <1>2, <1>3, <1>4 DEF IInv, Shape
<1>6. LocalReceiptWasAccepted'
  BY <1>1, <1>3, <1>4, <1>5 DEF IInv, LocalReceiptWasAccepted, AcceptedIn
<1>7. /\ op' \in AnyOp /\ op'.phase \in {"idle", "tamper_open"} /\ MarkedBy(sealed, op'.index)
      /\ op'.phase # "idle" => op'.found = op.found /\ op'.cmd = op.cmd /\ op'.todo = op.todo
  <2>1. CASE TamperOpen
    <3>1. op' = [op EXCEPT !.phase = "tamper_open"]
      BY <2>1 DEF TamperOpen
    <3> QED  BY <3>1, OpParts DEF AnyOp, TamperPhases
  <2>2. CASE TamperFill
    BY <2>2, IdleFacts, EmptyIndex DEF TamperFill
  <2> QED  BY <2>1, <2>2
<1>8. Shape'
  BY <1>1, <1>5, <1>7 DEF IInv, Shape
<1>9. CallsAccepted' /\ TamperAccepted' /\ IndexesMarked'
  BY <1>1, <1>7 DEF IInv, CallsAccepted, TamperAccepted, AcceptedIn, IndexesMarked
<1>10. TodoLeft' /\ Pending' /\ BatchSealed' /\ ReadableAnchorsComplete'
  BY <1>1, <1>7 DEF IInv, TodoLeft, Pending, BatchSealed, ReadableAnchorsComplete
<1> QED  BY <1>6, <1>8, <1>9, <1>10 DEF IInv

LEMMA SameFiles ==
  ASSUME IInv, UNCHANGED <<files, index, batches, request, op, accepted, sealed>>
  PROVE  IInv'
BY DEF IInv, Shape, CallsAccepted, TamperAccepted, AcceptedIn, LocalReceiptWasAccepted,
   IndexesMarked, TodoLeft, Pending, BatchSealed, ReadableAnchorsComplete, NewBatch, Found

-----------------------------------------------------------------------------
(***************************************************************************)
(* The theorems.                                                           *)
(***************************************************************************)
LEMMA NextIInv == IInv /\ [Next]_vars => IInv'
<1> SUFFICES ASSUME IInv, [Next]_vars PROVE IInv'
  OBVIOUS
<1>1. CASE UNCHANGED vars
  BY <1>1, SameFiles DEF vars, store, history
<1>2. CASE \E r \in Requests, s \in Sessions, p \in Payloads : Begin(r, s, p)
  BY <1>2, BeginStep
<1>3. CASE \E r \in Requests : RequestStep(r)
  <2> SUFFICES ASSUME NEW r \in Requests, RequestStep(r) PROVE IInv'
    BY <1>3
  <2>1. CASE Persist(r)
    BY <2>1, PersistStep
  <2>2. CASE PersistFails(r)
    BY <2>2, ReturnStep DEF PersistFails, store, history
  <2>3. CASE OpenReceipt(r) \/ FillReceipt(r)
    BY <2>3, ReceiptStep
  <2>4. CASE LoadIndex(r)
    BY <2>4, LoadIndexStep
  <2>5. CASE OpenIndex(r)
    BY <2>5, OpenIndexStep
  <2>6. CASE FillIndex(r)
    BY <2>6, FillIndexStep
  <2> QED  BY <2>1, <2>2, <2>3, <2>4, <2>5, <2>6 DEF RequestStep
<1>4. CASE \E prefix \in Prefixes : \/ \E day \in Days : StartAnchorDay(day, prefix)
                                    \/ StartAnchorAllDays(prefix)
  <2>1. PICK prefix \in Prefixes : \/ \E day \in Days : StartAnchorDay(day, prefix)
                                   \/ StartAnchorAllDays(prefix)
    BY <1>4
  <2>2. CASE \E day \in Days : StartAnchorDay(day, prefix)
    BY <2>2, StartStep DEF StartAnchorDay
  <2>3. CASE StartAnchorAllDays(prefix)
    BY <2>3, StartStep DEF StartAnchorAllDays
  <2> QED  BY <2>1, <2>2, <2>3
<1>5. CASE StartImport
  BY <1>5, DefaultArguments, StartStep DEF StartImport
<1>6. CASE OpStep
  BY <1>6, OpLoadStep, OpReadStep, OpReadDoneStep, OpOpenAnchorsStep, OpFillAnchorsStep,
     OpOpenIndexStep, OpFillIndexStep, ImportStep, TamperReadStep, TamperStep DEF OpStep
<1>7. CASE \E s \in Sessions : StartTamper(s)
  BY <1>7, DefaultArguments, StartStep DEF StartTamper
<1>8. CASE EnableDatabase
  BY <1>8, SameFiles DEF EnableDatabase, store, history
<1>9. CASE CrashServer
  BY <1>9, CrashServerStep
<1>10. CASE CrashOperator
  BY <1>10, OpEnds DEF CrashOperator, store
<1> QED  BY <1>1, <1>2, <1>3, <1>4, <1>5, <1>6, <1>7, <1>8, <1>9, <1>10 DEF Next

\* The strengthened invariant of the files holds in every reachable state.
THEOREM Invariance == Spec => []IInv
BY InitIInv, NextIInv, PTL DEF Spec

\* finalize_session writes a local receipt only after the request was
\* accepted (the database commit, when the database is on).
THEOREM LocalReceiptsAccepted == Spec => []LocalReceiptWasAccepted
<1>1. IInv => LocalReceiptWasAccepted
  BY DEF IInv
<1> QED  BY Invariance, <1>1, PTL

\* _save_anchors never loses a batch silently: an anchors.json that parses
\* holds every batch that was saved, in order, whatever was killed before.
THEOREM AnchorsComplete == Spec => []ReadableAnchorsComplete
<1>1. IInv => ReadableAnchorsComplete
  BY DEF IInv
<1> QED  BY Invariance, <1>1, PTL

\* anchor_day marks sessions in the index only with roots that anchors.json
\* got before, also when requests write stale copies of the index back.
THEOREM MarkedRoots == Spec => []MarkedRootIsSealed
<1>1. IInv => MarkedRootIsSealed
  BY DEF IInv, IndexesMarked, MarkedBy, MarkedRootIsSealed
<1> QED  BY Invariance, <1>1, PTL
=============================================================================
