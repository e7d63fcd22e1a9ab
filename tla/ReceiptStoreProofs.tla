------------------------- MODULE ReceiptStoreProofs -------------------------
(***************************************************************************)
(* Proofs about ReceiptStore: type correctness, the inductive invariant    *)
(* behind "a receipt is that of one request", and the refinement of        *)
(* ReceiptTable, for any number of concurrent requests.                    *)
(***************************************************************************)
EXTENDS ReceiptStore, TLAPS

\* A session has a sessions row exactly when it has meter rows.
RowsTogether == \A s \in Sessions : sessions[s] = NoRow <=> meters[s] = NoRow

\* What a call holds and has read, against the tables.  A call that can still
\* insert its meter rows (it deleted the old ones, or there are none) has read
\* the receipts row that is there now.
CallOK(c) ==
    /\ c.holdsMeters => /\ c.phase \in {"deleted", "loaded", "updated", "written"}
                        /\ meters[c.session] # NoRow
    /\ c.phase = "deleting" => meters[c.session] # NoRow
    /\ c.row # NoRow => sessions[c.session] # NoRow
    /\ (c.phase \in {"updated", "written"} /\ meters[c.session] = NoRow) => c.holdsRow
    /\ c.phase = "written" => (c.holdsMeters \/ meters[c.session] = NoRow)
    /\ (/\ c.phase \in {"loaded", "updated", "written"}
        /\ c.holdsMeters \/ meters[c.session] = NoRow) => c.receipt = receipts[c.session]

\* Two calls never hold the same lock.
Apart(c, d) ==
    c.session = d.session => ~(c.holdsMeters /\ d.holdsMeters) /\ ~(c.holdsRow /\ d.holdsRow)

IInv ==
    /\ TypeOK
    /\ ReceiptIsOneRequest
    /\ RowsTogether
    /\ \A r \in Requests : CallOK(request[r])
    /\ \A q, r \in Requests : q # r => Apart(request[q], request[r])

-----------------------------------------------------------------------------
LEMMA NoCallType == NoCall \in RequestState
<1>1. (CHOOSE s \in Sessions : TRUE) \in Sessions
  BY SomeArguments
<1>2. (CHOOSE p \in Payloads : TRUE) \in Payloads
  BY SomeArguments
<1> QED  BY <1>1, <1>2 DEF NoCall, RequestState, Phases, SessionRows, ReceiptRows

LEMMA NoCallFields ==
  /\ NoCall.phase = "idle" /\ NoCall.row = NoRow
  /\ NoCall.holdsMeters = FALSE /\ NoCall.holdsRow = FALSE
BY DEF NoCall

\* An UPDATE of a row that is there, or an INSERT, gives a row.
LEMMA WriteChangedType ==
  ASSUME NEW C, NEW new \in [C -> Values], NEW read \in [C -> Values] \cup {NoRow},
         NEW current \in [C -> Values] \cup {NoRow}, read # NoRow => current # NoRow
  PROVE  WriteChanged(current, read, new) \in [C -> Values]
BY DEF WriteChanged

\* Over the row that was read, the changed columns make the new row.
LEMMA WriteOverRead ==
  ASSUME NEW C, NEW new \in [C -> Values], NEW read \in [C -> Values] \cup {NoRow}
  PROVE  WriteChanged(read, read, new) = new
<1>1. CASE read = NoRow
  BY <1>1 DEF WriteChanged
<1>2. CASE read # NoRow
  <2>1. DOMAIN WriteChanged(read, read, new) = C
    BY <1>2 DEF WriteChanged
  <2>2. \A col \in C : WriteChanged(read, read, new)[col] = new[col]
    BY <1>2 DEF WriteChanged
  <2>3. WriteChanged(read, read, new) = [col \in C |-> WriteChanged(read, read, new)[col]]
    BY <1>2, <2>1 DEF WriteChanged
  <2>4. new = [col \in C |-> new[col]]
    OBVIOUS
  <2> QED  BY <2>2, <2>3, <2>4
<1> QED  BY <1>1, <1>2

\* A step that changes one call only, to one that keeps its part.
LEMMA CallStep ==
  ASSUME IInv, NEW r \in Requests, NEW c \in RequestState, CallOK(c),
         \A q \in Requests \ {r} : Apart(request[q], c),
         request' = [request EXCEPT ![r] = c],
         UNCHANGED <<sessions, meters, receipts>>
  PROVE  IInv'
<1> USE DEF IInv
<1>1. TypeOK'
  BY DEF TypeOK
<1>2. ReceiptIsOneRequest' /\ RowsTogether'
  BY DEF ReceiptIsOneRequest, RowsTogether
<1>3. \A q \in Requests : request'[q] = IF q = r THEN c ELSE request[q]
  BY DEF TypeOK
<1>4. \A q \in Requests : CallOK(request[q])'
  BY <1>3 DEF CallOK
<1>5. \A q, t \in Requests : q # t => Apart(request[q], request[t])'
  BY <1>3 DEF Apart
<1> QED  BY <1>1, <1>2, <1>4, <1>5

\* A call that ends, with or without an error.
LEMMA EndStep ==
  ASSUME IInv, NEW r \in Requests, End(r), UNCHANGED <<sessions, meters, receipts>>
  PROVE  IInv'
<1>1. CallOK(NoCall) /\ \A q \in Requests \ {r} : Apart(request[q], NoCall)
  BY DEF CallOK, Apart, NoCall
<1> QED  BY <1>1, NoCallType, CallStep DEF End

-----------------------------------------------------------------------------
LEMMA InitIInv == Init => IInv
<1> SUFFICES ASSUME Init PROVE IInv
  OBVIOUS
<1>1. TypeOK
  BY NoCallType DEF Init, TypeOK, SessionRows, ReceiptRows
<1>2. ReceiptIsOneRequest /\ RowsTogether
  BY DEF Init, ReceiptIsOneRequest, RowsTogether
<1>3. \A r \in Requests : CallOK(request[r])
  BY DEF Init, CallOK, NoCall
<1>4. \A q, r \in Requests : q # r => Apart(request[q], request[r])
  BY DEF Init, Apart, NoCall
<1> QED  BY <1>1, <1>2, <1>3, <1>4 DEF IInv

\* What a commit does to the tables and to the other calls of the session.
LEMMA CommitStep ==
  ASSUME IInv, NEW r \in Requests, Commit(r)
  PROVE  /\ IInv'
         /\ receipts' = [receipts EXCEPT ![request[r].session] = ReceiptRowOf[request[r].payload]]
<1> DEFINE s == request[r].session
           p == request[r].payload
<1> USE DEF IInv
<1>1. request[r] \in RequestState /\ s \in Sessions /\ p \in Payloads
  BY DEF TypeOK, RequestState
<1>2. /\ SessionRowOf[p] \in [SessionColumns -> Values]
      /\ ReceiptRowOf[p] \in [ReceiptColumns -> Values]
      /\ SessionRowOf[p] # NoRow /\ ReceiptRowOf[p] # NoRow /\ p # NoRow
  BY <1>1, RowsOfPayloads, NoRowFresh
<1>3. /\ request[r].phase = "written"
      /\ request[r].holdsMeters \/ meters[s] = NoRow
      /\ meters[s] = NoRow => request[r].holdsRow
      /\ request[r].receipt = receipts[s]
      /\ request[r].row # NoRow => sessions[s] # NoRow
  BY DEF Commit, CallOK
<1>4. /\ request[r].row \in [SessionColumns -> Values] \cup {NoRow}
      /\ sessions[s] \in [SessionColumns -> Values] \cup {NoRow}
      /\ receipts[s] \in [ReceiptColumns -> Values] \cup {NoRow}
  BY <1>1 DEF TypeOK, RequestState, SessionRows, ReceiptRows
<1> DEFINE row == WriteChanged(sessions[s], request[r].row, SessionRowOf[p])
<1>5. row \in [SessionColumns -> Values] /\ row # NoRow
  <2>1. row \in [SessionColumns -> Values]
    BY <1>2, <1>3, <1>4, WriteChangedType
  <2> QED  BY <2>1, NoRowFresh
<1>6. WriteChanged(receipts[s], request[r].receipt, ReceiptRowOf[p]) = ReceiptRowOf[p]
  BY <1>2, <1>3, <1>4, WriteOverRead
<1> HIDE DEF row
<1>7. /\ sessions' = [sessions EXCEPT ![s] = row]
      /\ meters' = [meters EXCEPT ![s] = p]
      /\ receipts' = [receipts EXCEPT ![s] = ReceiptRowOf[p]]
  BY <1>6 DEF Commit, row
<1>8. \A q \in Requests : request'[q] =
         IF q = r THEN NoCall
         ELSE IF request[q].phase = "deleting" /\ request[q].session = s
         THEN [request[q] EXCEPT !.phase = "deleted"]
         ELSE request[q]
  BY DEF Commit
<1>9. TypeOK'
  <2>1. request' \in [Requests -> RequestState]
    <3>1. \A q \in Requests : request'[q] \in RequestState
      BY <1>8, NoCallType, ZenonT(40) DEF TypeOK, RequestState, Phases
    <3>2. request' = [q \in Requests |-> request'[q]]
      BY DEF Commit
    <3> QED  BY <3>1, <3>2
  <2>2. sessions' \in [Sessions -> SessionRows]
    BY <1>1, <1>5, <1>7 DEF TypeOK, SessionRows
  <2>3. meters' \in [Sessions -> Payloads \cup {NoRow}]
    BY <1>1, <1>7 DEF TypeOK
  <2>4. receipts' \in [Sessions -> ReceiptRows]
    BY <1>1, <1>2, <1>7 DEF TypeOK, ReceiptRows
  <2> QED  BY <2>1, <2>2, <2>3, <2>4 DEF TypeOK
<1>10. \A t \in Sessions : /\ sessions'[t] = IF t = s THEN row ELSE sessions[t]
                           /\ meters'[t] = IF t = s THEN p ELSE meters[t]
                           /\ receipts'[t] = IF t = s THEN ReceiptRowOf[p] ELSE receipts[t]
  BY <1>1, <1>7 DEF TypeOK
<1>11. ReceiptIsOneRequest'
  BY <1>2, <1>10 DEF ReceiptIsOneRequest
<1>12. RowsTogether'
  BY <1>2, <1>5, <1>10 DEF RowsTogether
\* Nobody else can still insert meter rows for the session.
<1>13. \A q \in Requests \ {r} : request[q].session = s => ~request[q].holdsMeters /\ request[q].phase # "written"
  <2> SUFFICES ASSUME NEW q \in Requests \ {r}, request[q].session = s
               PROVE  ~request[q].holdsMeters /\ request[q].phase # "written"
    OBVIOUS
  <2>1. ~request[q].holdsMeters
    BY <1>3 DEF Apart, CallOK
  <2>2. request[q].phase # "written"
    BY <1>3, <2>1 DEF Apart, CallOK
  <2> QED  BY <2>1, <2>2
<1>14. \A q \in Requests : CallOK(request[q])'
  <2> SUFFICES ASSUME NEW q \in Requests PROVE CallOK(request[q])'
    OBVIOUS
  <2>0. request[q] \in RequestState /\ request[q].session \in Sessions /\ CallOK(request[q])
    BY DEF TypeOK, RequestState
  <2>1. CASE q = r
    <3>1. request'[q] = NoCall
      BY <1>8, <2>1
    <3> QED  BY <3>1, NoCallFields DEF CallOK
  <2>2. CASE q # r /\ request[q].session # s
    <3>1. request'[q] = request[q]
      BY <1>8, <2>2
    <3> QED  BY <1>10, <2>0, <2>2, <3>1 DEF CallOK
  <2>3. CASE q # r /\ request[q].session = s
    <3>1. ~request[q].holdsMeters /\ request[q].phase # "written"
      BY <1>13, <2>3
    <3>2. CASE request[q].phase = "deleting"
      <4>1. /\ request'[q].phase = "deleted" /\ ~request'[q].holdsMeters
            /\ request'[q].session = s
        BY <1>8, <2>0, <2>3, <3>1, <3>2 DEF RequestState
      <4> QED  BY <1>1, <1>2, <1>5, <1>10, <4>1 DEF CallOK
    <3>3. CASE request[q].phase # "deleting"
      <4>1. request'[q] = request[q]
        BY <1>8, <2>3, <3>3
      <4> QED  BY <1>1, <1>2, <1>5, <1>10, <2>3, <3>1, <4>1 DEF CallOK
    <3> QED  BY <3>2, <3>3
  <2> QED  BY <2>1, <2>2, <2>3
<1>15. \A q, t \in Requests : q # t => Apart(request[q], request[t])'
  <2>1. \A q \in Requests : request'[q] = NoCall \/
           (/\ request'[q].session = request[q].session
            /\ request'[q].holdsMeters = request[q].holdsMeters
            /\ request'[q].holdsRow = request[q].holdsRow)
    BY <1>8 DEF TypeOK, RequestState
  <2>2. \A q, t \in Requests : q # t => Apart(request[q], request[t])
    OBVIOUS
  <2>3. ~NoCall.holdsMeters /\ ~NoCall.holdsRow
    BY DEF NoCall
  <2> QED  BY <2>1, <2>2, <2>3 DEF Apart
<1> QED  BY <1>7, <1>9, <1>11, <1>12, <1>14, <1>15

\* Every step keeps the invariant and is a step or a stutter of ReceiptTable.
LEMMA BeginStep ==
  ASSUME IInv, NEW r \in Requests, Begin(r)
  PROVE  IInv'
<1>1. PICK s \in Sessions, p \in Payloads : request' = [request EXCEPT ![r] =
         [NoCall EXCEPT !.phase = "read", !.session = s, !.payload = p, !.row = sessions[s]]]
  BY DEF Begin
<1> DEFINE c == [NoCall EXCEPT !.phase = "read", !.session = s, !.payload = p, !.row = sessions[s]]
<1>2. c \in RequestState
  BY NoCallType DEF IInv, TypeOK, RequestState, Phases
<1>3. /\ c.phase = "read" /\ c.session = s /\ c.row = sessions[s]
      /\ ~c.holdsMeters /\ ~c.holdsRow
  BY DEF NoCall
<1> HIDE DEF c
<1>4. CallOK(c) /\ \A q \in Requests \ {r} : Apart(request[q], c)
  BY <1>3 DEF CallOK, Apart
<1> QED  BY <1>1, <1>2, <1>4, CallStep DEF Begin, c

LEMMA DeleteStep ==
  ASSUME IInv, NEW r \in Requests, DeleteMeters(r) \/ ResumeDelete(r)
  PROVE  IInv'
<1> DEFINE c == IF MeterHolders(r) = {}
                THEN [request[r] EXCEPT !.phase = "deleted",
                        !.holdsMeters = IF DeleteMeters(r) THEN meters[request[r].session] # NoRow ELSE TRUE]
                ELSE [request[r] EXCEPT !.phase = "deleting"]
<1>1. /\ request[r] \in RequestState /\ CallOK(request[r])
      /\ request[r].phase \in {"read", "deleting"}
  BY DEF IInv, TypeOK, DeleteMeters, ResumeDelete
<1>2. c \in RequestState
  BY <1>1 DEF RequestState, Phases
<1>3. request' = [request EXCEPT ![r] = c] /\ UNCHANGED <<sessions, meters, receipts>>
  BY DEF IInv, TypeOK, RequestState, DeleteMeters, ResumeDelete
<1>4. CallOK(c)
  <2>1. CASE MeterHolders(r) = {}
    BY <1>1, <2>1 DEF RequestState, CallOK, DeleteMeters, ResumeDelete
  <2>2. CASE MeterHolders(r) # {}
    <3>1. PICK q \in Requests : request[q].session = request[r].session /\ request[q].holdsMeters
      BY <2>2 DEF MeterHolders
    <3>2. meters[request[r].session] # NoRow
      BY <3>1 DEF IInv, CallOK
    <3> QED  BY <1>1, <2>2, <3>2 DEF RequestState, CallOK
  <2> QED  BY <2>1, <2>2
<1>5. \A q \in Requests \ {r} : Apart(request[q], c)
  <2> SUFFICES ASSUME NEW q \in Requests \ {r} PROVE Apart(request[q], c)
    OBVIOUS
  <2>1. Apart(request[q], request[r])
    BY DEF IInv
  <2>2. c.session = request[r].session /\ c.holdsRow = request[r].holdsRow
    BY <1>1 DEF RequestState
  <2>3. CASE MeterHolders(r) = {}
    BY <2>1, <2>2, <2>3 DEF Apart, MeterHolders
  <2>4. CASE MeterHolders(r) # {}
    <3>1. c.holdsMeters = request[r].holdsMeters
      BY <1>1, <2>4 DEF RequestState
    <3> QED  BY <2>1, <2>2, <3>1 DEF Apart
  <2> QED  BY <2>3, <2>4
<1> HIDE DEF c
<1> QED  BY <1>2, <1>3, <1>4, <1>5, CallStep

LEMMA LoadStep ==
  ASSUME IInv, NEW r \in Requests, LoadReceipt(r)
  PROVE  IInv'
<1> DEFINE c == [request[r] EXCEPT !.phase = "loaded", !.receipt = receipts[request[r].session]]
<1>1. request[r] \in RequestState /\ CallOK(request[r]) /\ request[r].phase = "deleted"
  BY DEF IInv, TypeOK, LoadReceipt
<1>2. c \in RequestState
  BY <1>1 DEF IInv, TypeOK, RequestState, Phases
<1>3. request' = [request EXCEPT ![r] = c] /\ UNCHANGED <<sessions, meters, receipts>>
  BY DEF IInv, TypeOK, RequestState, LoadReceipt
<1>4. CallOK(c)
  BY <1>1 DEF RequestState, CallOK
<1>5. \A q \in Requests \ {r} : Apart(request[q], c)
  BY <1>1 DEF IInv, Apart, RequestState
<1> HIDE DEF c
<1> QED  BY <1>2, <1>3, <1>4, <1>5, CallStep

LEMMA FlushSessionStep ==
  ASSUME IInv, NEW r \in Requests, FlushSession(r)
  PROVE  IInv'
<1> DEFINE s == request[r].session
<1>1. /\ request[r] \in RequestState /\ CallOK(request[r]) /\ request[r].phase = "loaded"
      /\ s \in Sessions /\ request[r].payload \in Payloads
      /\ UNCHANGED <<sessions, meters, receipts>>
  BY DEF IInv, TypeOK, FlushSession, RequestState
<1>2. CASE End(r)
  BY <1>1, <1>2, EndStep
\* A session without meter rows has no row either, and none was read.
<1>3. ~WritesRow(r) => meters[s] # NoRow
  BY <1>1, RowsOfPayloads, NoRowFresh DEF WritesRow, IInv, RowsTogether, CallOK
<1>4. CASE ~WritesRow(r) /\ request' = [request EXCEPT ![r].phase = "updated"]
  <2> DEFINE c == [request[r] EXCEPT !.phase = "updated"]
  <2>1. c \in RequestState
    BY <1>1 DEF RequestState, Phases
  <2>2. request' = [request EXCEPT ![r] = c]
    BY <1>4 DEF IInv, TypeOK, RequestState
  <2>3. CallOK(c)
    BY <1>1, <1>3, <1>4 DEF RequestState, CallOK
  <2>4. \A q \in Requests \ {r} : Apart(request[q], c)
    BY <1>1 DEF IInv, Apart, RequestState
  <2> HIDE DEF c
  <2> QED  BY <1>1, <2>1, <2>2, <2>3, <2>4, CallStep
<1>5. CASE /\ RowHolders(r) = {}
           /\ request' = [request EXCEPT ![r].phase = "updated", ![r].holdsRow = TRUE]
  <2> DEFINE c == [request[r] EXCEPT !.phase = "updated", !.holdsRow = TRUE]
  <2>1. c \in RequestState
    BY <1>1 DEF RequestState, Phases
  <2>2. request' = [request EXCEPT ![r] = c]
    BY <1>5 DEF IInv, TypeOK, RequestState
  <2>3. CallOK(c)
    BY <1>1 DEF RequestState, CallOK
  <2>4. \A q \in Requests \ {r} : Apart(request[q], c)
    BY <1>1, <1>5 DEF IInv, Apart, RequestState, RowHolders
  <2> HIDE DEF c
  <2> QED  BY <1>1, <2>1, <2>2, <2>3, <2>4, CallStep
<1> QED  BY <1>2, <1>4, <1>5 DEF FlushSession

LEMMA FlushRowsStep ==
  ASSUME IInv, NEW r \in Requests, FlushRows(r)
  PROVE  IInv'
<1>1. /\ request[r] \in RequestState /\ CallOK(request[r]) /\ request[r].phase = "updated"
      /\ UNCHANGED <<sessions, meters, receipts>>
  BY DEF IInv, TypeOK, FlushRows
<1>2. CASE End(r)
  BY <1>1, <1>2, EndStep
<1>3. CASE /\ ~(meters[request[r].session] # NoRow /\ ~request[r].holdsMeters)
           /\ request' = [request EXCEPT ![r].phase = "written"]
  <2> DEFINE c == [request[r] EXCEPT !.phase = "written"]
  <2>1. c \in RequestState
    BY <1>1 DEF RequestState, Phases
  <2>2. request' = [request EXCEPT ![r] = c]
    BY <1>3 DEF IInv, TypeOK, RequestState
  <2>3. CallOK(c)
    BY <1>1, <1>3 DEF RequestState, CallOK
  <2>4. \A q \in Requests \ {r} : Apart(request[q], c)
    BY <1>1 DEF IInv, Apart, RequestState
  <2> HIDE DEF c
  <2> QED  BY <1>1, <2>1, <2>2, <2>3, <2>4, CallStep
<1> QED  BY <1>2, <1>3 DEF FlushRows

\* Every step keeps the invariant; only a commit changes receipts.
LEMMA NextIInv ==
  ASSUME IInv, [Next]_vars
  PROVE  IInv' /\ [RT!Next]_receipts
<1>1. CASE UNCHANGED vars
  <2>1. IInv'
    BY <1>1 DEF vars, IInv, TypeOK, ReceiptIsOneRequest, RowsTogether, CallOK, Apart
  <2> QED  BY <1>1, <2>1 DEF vars
<1>2. ASSUME NEW r \in Requests, Begin(r)
      PROVE  IInv' /\ UNCHANGED receipts
  BY <1>2, BeginStep DEF Begin
<1>3. ASSUME NEW r \in Requests, DeleteMeters(r) \/ ResumeDelete(r)
      PROVE  IInv' /\ UNCHANGED receipts
  BY <1>3, DeleteStep DEF DeleteMeters, ResumeDelete
<1>4. ASSUME NEW r \in Requests, LoadReceipt(r)
      PROVE  IInv' /\ UNCHANGED receipts
  BY <1>4, LoadStep DEF LoadReceipt
<1>5. ASSUME NEW r \in Requests, FlushSession(r)
      PROVE  IInv' /\ UNCHANGED receipts
  BY <1>5, FlushSessionStep DEF FlushSession
<1>6. ASSUME NEW r \in Requests, FlushRows(r)
      PROVE  IInv' /\ UNCHANGED receipts
  BY <1>6, FlushRowsStep DEF FlushRows
<1>7. ASSUME NEW r \in Requests, Commit(r)
      PROVE  IInv' /\ RT!Next
  <2>1. request[r].session \in Sessions /\ request[r].payload \in Payloads
    BY DEF IInv, TypeOK, RequestState
  <2> QED  BY <1>7, <2>1, CommitStep DEF RT!Next, RT!Replace
<1>8. ASSUME NEW r \in Requests, Abort(r) \/ BreakDeadlock(r)
      PROVE  IInv' /\ UNCHANGED receipts
  BY <1>8, EndStep DEF Abort, BreakDeadlock
<1> QED  BY <1>1, <1>2, <1>3, <1>4, <1>5, <1>6, <1>7, <1>8 DEF Next, Step

-----------------------------------------------------------------------------
\* The inductive invariant: who holds which lock, and what a call that holds
\* it has read.
THEOREM Invariance == Spec => []IInv
<1>1. IInv /\ [Next]_vars => IInv'
  BY NextIInv
<1> QED  BY InitIInv, <1>1, PTL DEF Spec

\* Type correctness, for any columns, payloads and number of requests.
THEOREM TypeCorrect == Spec => []TypeOK
<1>1. IInv => TypeOK
  BY DEF IInv
<1> QED  BY Invariance, <1>1, PTL

\* The stored receipt and the meter rows are those of one request, although
\* nothing is locked on purpose (persist_finalized_session).
THEOREM ReceiptsAreWhole == Spec => []ReceiptIsOneRequest
<1>1. IInv => ReceiptIsOneRequest
  BY DEF IInv
<1> QED  BY Invariance, <1>1, PTL

\* At most one request per session gets as far as having everything flushed.
OneWriterPerSession ==
    \A q, r \in Requests :
      (/\ request[q].phase = "written" /\ request[r].phase = "written"
       /\ request[q].session = request[r].session) => q = r

\* Of the open requests for a session at most one has everything flushed.
THEOREM OneWriter == Spec => []OneWriterPerSession
<1>1. IInv => OneWriterPerSession
  <2> SUFFICES ASSUME IInv, NEW q \in Requests, NEW r \in Requests, q # r,
                      request[q].phase = "written", request[r].phase = "written",
                      request[q].session = request[r].session
               PROVE  FALSE
    BY DEF OneWriterPerSession
  <2>1. CallOK(request[q]) /\ CallOK(request[r]) /\ Apart(request[q], request[r])
    BY DEF IInv
  <2> QED  BY <2>1 DEF CallOK, Apart
<1> QED  BY Invariance, <1>1, PTL

\* Concurrent finalizations implement the table whose receipts are replaced
\* as a whole, which BatchAnchoring takes finalization to be.
THEOREM Refinement == Spec => ImplementsReceiptTable
<1>1. Init => RT!Init
  BY DEF Init, RT!Init
<1>2. IInv /\ [Next]_vars => [RT!Next]_receipts
  BY NextIInv
<1> QED  BY Invariance, <1>1, <1>2, PTL DEF Spec, ImplementsReceiptTable, RT!Spec

-----------------------------------------------------------------------------
(***************************************************************************)
(* Sessions whose requests never overlap.                                  *)
(***************************************************************************)
\* The open call of the session, if there is one, has read its row as it is.
SerialInv(s) ==
    /\ RowMatches(s)
    /\ \A r \in Requests :
         (request[r].phase # "idle" /\ request[r].session = s) => request[r].row = sessions[s]

\* The call that commits read the row it writes over.
LEMMA SerialCommit ==
  ASSUME IInv, NEW s \in Sessions, OneCallAtATime(s), SerialInv(s), NEW r \in Requests, Commit(r)
  PROVE  SerialInv(s)'
<1> DEFINE t == request[r].session
           p == request[r].payload
<1>1. /\ t \in Sessions /\ p \in Payloads /\ request[r].phase = "written"
      /\ request[r].row \in [SessionColumns -> Values] \cup {NoRow}
      /\ SessionRowOf[p] \in [SessionColumns -> Values]
      /\ request \in [Requests -> RequestState]
      /\ sessions \in [Sessions -> SessionRows] /\ DOMAIN meters = Sessions
  BY RowsOfPayloads DEF IInv, TypeOK, RequestState, SessionRows, Commit
<1>2. /\ sessions' = [sessions EXCEPT ![t] = WriteChanged(sessions[t], request[r].row, SessionRowOf[p])]
      /\ meters' = [meters EXCEPT ![t] = p]
  BY DEF Commit
<1>3. \A q \in Requests : request'[q] =
         IF q = r THEN NoCall
         ELSE IF request[q].phase = "deleting" /\ request[q].session = t
         THEN [request[q] EXCEPT !.phase = "deleted"]
         ELSE request[q]
  BY DEF Commit
<1> HIDE DEF t, p
<1>4. CASE t = s
  <2>1. request[r].row = sessions[t]
    BY <1>1, <1>4 DEF SerialInv, t
  <2>2. sessions'[s] = SessionRowOf[p] /\ meters'[s] = p
    BY <1>1, <1>2, <1>4, <2>1, WriteOverRead
  <2>3. ASSUME NEW q \in Requests, request'[q].phase # "idle", request'[q].session = s
        PROVE  FALSE
    <3>1. q # r
      BY <1>3, <2>3, NoCallFields
    <3>2. request[q].phase # "idle" /\ request[q].session = s
      <4>1. CASE request[q].phase = "deleting" /\ request[q].session = t
        BY <1>4, <4>1
      <4>2. CASE ~(request[q].phase = "deleting" /\ request[q].session = t)
        BY <1>3, <2>3, <3>1, <4>2
      <4> QED  BY <4>1, <4>2
    <3> QED  BY <1>1, <1>4, <3>1, <3>2 DEF OneCallAtATime, t
  <2> QED  BY <2>2, <2>3 DEF SerialInv, RowMatches
<1>5. CASE t # s
  <2>1. sessions'[s] = sessions[s] /\ meters'[s] = meters[s]
    BY <1>1, <1>2, <1>5
  <2>2. ASSUME NEW q \in Requests, request'[q].phase # "idle", request'[q].session = s
        PROVE  request'[q] = request[q]
    BY <1>1, <1>3, <1>5, <2>2, NoCallFields DEF RequestState
  <2> QED  BY <2>1, <2>2 DEF SerialInv, RowMatches
<1> QED  BY <1>4, <1>5

\* Any other step writes no row, and a call reads the row when it begins.
LEMMA SerialStep ==
  ASSUME IInv, NEW s \in Sessions, OneCallAtATime(s), SerialInv(s), [Next]_vars
  PROVE  SerialInv(s)'
<1>1. request \in [Requests -> RequestState]
  BY DEF IInv, TypeOK
<1>2. CASE \E r \in Requests : Commit(r)
  BY <1>2, SerialCommit
<1>3. CASE UNCHANGED vars
  BY <1>3 DEF vars, SerialInv, RowMatches
<1>4. ASSUME NEW r \in Requests, NEW c \in RequestState, UNCHANGED <<sessions, meters>>,
             request' = [request EXCEPT ![r] = c],
             (c.phase # "idle" /\ c.session = s) => c.row = sessions[s]
      PROVE  SerialInv(s)'
  <2>1. \A q \in Requests : request'[q] = IF q = r THEN c ELSE request[q]
    BY <1>1, <1>4
  <2> QED  BY <1>4, <2>1 DEF SerialInv, RowMatches
<1>5. ASSUME NEW r \in Requests, Begin(r)
      PROVE  SerialInv(s)'
  <2>1. PICK t \in Sessions, p \in Payloads : request' = [request EXCEPT ![r] =
           [NoCall EXCEPT !.phase = "read", !.session = t, !.payload = p, !.row = sessions[t]]]
    BY <1>5 DEF Begin
  <2> DEFINE c == [NoCall EXCEPT !.phase = "read", !.session = t, !.payload = p,
                                 !.row = sessions[t]]
  <2>2. c \in RequestState /\ c.session = t /\ c.row = sessions[t]
    BY NoCallType DEF IInv, TypeOK, RequestState, Phases
  <2>3. UNCHANGED <<sessions, meters>>
    BY <1>5 DEF Begin
  <2> HIDE DEF c
  <2> QED  BY <1>4, <2>1, <2>2, <2>3 DEF c
<1>6. ASSUME NEW r \in Requests,
             \/ DeleteMeters(r) \/ ResumeDelete(r) \/ LoadReceipt(r)
             \/ FlushSession(r) \/ FlushRows(r) \/ Abort(r) \/ BreakDeadlock(r)
      PROVE  SerialInv(s)'
  <2>1. request[r].phase # "idle"
    BY <1>6 DEF DeleteMeters, ResumeDelete, LoadReceipt, FlushSession, FlushRows, Abort,
                BreakDeadlock, WaitsFor
  <2>2. IInv' /\ UNCHANGED <<sessions, meters>>
    BY <1>6, NextIInv DEF Next, Step, DeleteMeters, ResumeDelete, LoadReceipt, FlushSession,
                          FlushRows, Abort, BreakDeadlock
  <2>3. request'[r] \in RequestState
    BY <2>2 DEF IInv, TypeOK
  <2>4. /\ request' = [request EXCEPT ![r] = request'[r]]
        /\ \/ request'[r] = NoCall
           \/ request'[r].session = request[r].session /\ request'[r].row = request[r].row
    BY <1>1, <1>6 DEF DeleteMeters, ResumeDelete, LoadReceipt, FlushSession, FlushRows, Abort,
                      BreakDeadlock, End, RequestState
  <2>5. (request'[r].phase # "idle" /\ request'[r].session = s) => request'[r].row = sessions[s]
    BY <2>1, <2>4, NoCallFields DEF SerialInv
  <2> QED  BY <1>4, <2>2, <2>3, <2>4, <2>5
<1> QED  BY <1>2, <1>3, <1>5, <1>6 DEF Next, Step

\* The rows of sessions and receipts agree for a session whose finalizations
\* never overlap, with any number of other requests, rollbacks and deadlocks.
THEOREM SerialSessions == Spec => SerialSessionsMatch
<1>1. ASSUME NEW s \in Sessions
      PROVE  Spec => ([]OneCallAtATime(s) => []RowMatches(s))
  <2>1. Init => SerialInv(s)
    BY NoCallFields DEF Init, SerialInv, RowMatches
  <2>2. IInv /\ OneCallAtATime(s) /\ SerialInv(s) /\ [Next]_vars => SerialInv(s)'
    BY SerialStep
  <2>3. SerialInv(s) => RowMatches(s)
    BY DEF SerialInv
  <2> QED  BY Invariance, <2>1, <2>2, <2>3, PTL DEF Spec
<1> QED  BY <1>1 DEF SerialSessionsMatch
=============================================================================
