---------------------------- MODULE ReceiptStore ----------------------------
(***************************************************************************)
(* Finalizing a session in PostgreSQL (persist_finalized_session in        *)
(* src/repository.py) by concurrent requests for the same session.         *)
(*                                                                         *)
(* A request is one transaction at READ COMMITTED:  the sessions row is    *)
(* read, the meter rows are deleted, the receipts row is read, and then    *)
(* everything is flushed.  The ORM writes only the columns whose new value *)
(* differs from the value that was READ, so the row that results depends   *)
(* on what another request committed in between.  Nothing is locked on     *)
(* purpose; the locks are those of the DELETE, the UPDATE and the unique   *)
(* keys.                                                                   *)
(***************************************************************************)
CONSTANTS
    Sessions,       \* charging sessions
    Payloads,       \* bodies of finalization requests
    Requests,       \* concurrent calls of persist_finalized_session
    SessionColumns, \* columns of sessions, session_json among them
    ReceiptColumns, \* columns of receipts, receipt_hash and receipt_json among them
    Values,         \* what columns hold
    SessionRowOf,   \* sessions row that a payload asks for
    ReceiptRowOf,   \* receipts row of the receipt built from a payload
    NoRow           \* there is no row (or are no rows)

ASSUME RowsOfPayloads ==
    /\ SessionRowOf \in [Payloads -> [SessionColumns -> Values]]
    /\ ReceiptRowOf \in [Payloads -> [ReceiptColumns -> Values]]
ASSUME NoRowFresh ==
    /\ NoRow \notin Payloads
    /\ NoRow \notin [SessionColumns -> Values] \cup [ReceiptColumns -> Values]
ASSUME SomeArguments == Sessions # {} /\ Payloads # {}

VARIABLES
    sessions,   \* committed rows of sessions
    meters,     \* the payload whose samples are the session's meter rows
    receipts,   \* committed rows of receipts
    request     \* control state and local variables of every call

vars == <<sessions, meters, receipts, request>>

SessionRows == [SessionColumns -> Values] \cup {NoRow}
ReceiptRows == [ReceiptColumns -> Values] \cup {NoRow}

\* read: the sessions row is read;  deleting: the DELETE waits;  deleted: it
\* is through;  loaded: the receipts row is read;  updated: the sessions row is
\* flushed;  written: everything is flushed.
Phases == {"idle", "read", "deleting", "deleted", "loaded", "updated", "written"}

RequestState ==
    [phase : Phases, session : Sessions, payload : Payloads, row : SessionRows,
     receipt : ReceiptRows, holdsMeters : BOOLEAN, holdsRow : BOOLEAN]

NoCall ==
    [phase |-> "idle", session |-> CHOOSE s \in Sessions : TRUE,
     payload |-> CHOOSE p \in Payloads : TRUE, row |-> NoRow, receipt |-> NoRow,
     holdsMeters |-> FALSE, holdsRow |-> FALSE]

TypeOK ==
    /\ sessions \in [Sessions -> SessionRows]
    /\ meters \in [Sessions -> Payloads \cup {NoRow}]
    /\ receipts \in [Sessions -> ReceiptRows]
    /\ request \in [Requests -> RequestState]

-----------------------------------------------------------------------------
\* Fault: ON CONFLICT DO NOTHING, a row that is there stays as it is.
WriteOnce(current, read, new) == IF current = NoRow THEN new ELSE current

\* A row after an INSERT (nothing was read) or an UPDATE of the changed columns.
WriteChanged(current, read, new) ==
    IF read = NoRow THEN new
    ELSE [col \in DOMAIN new |-> IF new[col] # read[col] THEN new[col] ELSE current[col]]

\* Calls for the same session that hold its deleted meter rows, or its
\* sessions row.
MeterHolders(r) ==
    {q \in Requests \ {r} : request[q].session = request[r].session /\ request[q].holdsMeters}
RowHolders(r) ==
    {q \in Requests \ {r} : request[q].session = request[r].session /\ request[q].holdsRow}

\* The flush has something to write into sessions.
WritesRow(r) == SessionRowOf[request[r].payload] # request[r].row

End(r) == request' = [request EXCEPT ![r] = NoCall]

-----------------------------------------------------------------------------
\* session.get(ChargingSession, session_id)
Begin(r) ==
    /\ request[r].phase = "idle"
    /\ \E s \in Sessions, p \in Payloads :
         request' = [request EXCEPT ![r] =
           [NoCall EXCEPT !.phase = "read", !.session = s, !.payload = p,
                          !.row = sessions[s]]]
    /\ UNCHANGED <<sessions, meters, receipts>>

\* DELETE FROM meter_values: it finds the committed rows of the session, and
\* waits when another transaction has deleted them and is still open.
DeleteMeters(r) ==
    /\ request[r].phase = "read"
    /\ IF MeterHolders(r) = {}
       THEN request' = [request EXCEPT
              ![r].phase = "deleted",
              ![r].holdsMeters = meters[request[r].session] # NoRow]
       ELSE request' = [request EXCEPT ![r].phase = "deleting"]
    /\ UNCHANGED <<sessions, meters, receipts>>

\* The transaction the DELETE waited for was rolled back: the rows are there.
ResumeDelete(r) ==
    /\ request[r].phase = "deleting"
    /\ MeterHolders(r) = {}
    /\ request' = [request EXCEPT ![r].phase = "deleted", ![r].holdsMeters = TRUE]
    /\ UNCHANGED <<sessions, meters, receipts>>

\* Fault: the wrong table is read.
LoadFromSessions(r) ==
    /\ request[r].phase = "deleted"
    /\ request' = [request EXCEPT ![r].phase = "loaded",
                                  ![r].receipt = sessions[request[r].session]]
    /\ UNCHANGED <<sessions, meters, receipts>>

\* session.get(Receipt, session_id)
LoadReceipt(r) ==
    /\ request[r].phase = "deleted"
    /\ request' = [request EXCEPT ![r].phase = "loaded",
                                  ![r].receipt = receipts[request[r].session]]
    /\ UNCHANGED <<sessions, meters, receipts>>

\* The flush starts with the sessions row: an INSERT, an UPDATE of the changed
\* columns, or nothing when none changed.  Either statement waits for a
\* transaction that has the row; the INSERT fails when the row is committed.
FlushSession(r) ==
    /\ request[r].phase = "loaded"
    /\ \/ /\ ~WritesRow(r)
          /\ request' = [request EXCEPT ![r].phase = "updated"]
       \/ /\ WritesRow(r)
          /\ RowHolders(r) = {}
          /\ IF request[r].row = NoRow /\ sessions[request[r].session] # NoRow
             THEN End(r)
             ELSE request' = [request EXCEPT ![r].phase = "updated", ![r].holdsRow = TRUE]
    /\ UNCHANGED <<sessions, meters, receipts>>

\* Fault: meter rows have no unique (session_id, sample_index).
FlushRowsBesideOthers(r) ==
    /\ request[r].phase = "updated"
    /\ MeterHolders(r) = {}
    /\ request' = [request EXCEPT ![r].phase = "written"]
    /\ UNCHANGED <<sessions, meters, receipts>>

\* Fault: the INSERT goes on waiting for the key to become free.
FlushRowsWhenFree(r) ==
    /\ request[r].phase = "updated"
    /\ MeterHolders(r) = {}
    /\ meters[request[r].session] = NoRow \/ request[r].holdsMeters
    /\ request' = [request EXCEPT ![r].phase = "written"]
    /\ UNCHANGED <<sessions, meters, receipts>>

\* Then the meter rows are inserted and the receipts row is written.  Sample 0
\* exists unless this call deleted it or the session is new: the INSERT waits
\* for a transaction that has deleted it, and fails when it is committed.
FlushRows(r) ==
    /\ request[r].phase = "updated"
    /\ MeterHolders(r) = {}
    /\ IF meters[request[r].session] # NoRow /\ ~request[r].holdsMeters
       THEN End(r)
       ELSE request' = [request EXCEPT ![r].phase = "written"]
    /\ UNCHANGED <<sessions, meters, receipts>>

\* The commit; a DELETE that waited for it finds its rows gone and the new ones
\* outside its snapshot: it deletes nothing.
Commit(r) ==
    LET s == request[r].session
        p == request[r].payload
    IN  /\ request[r].phase = "written"
        /\ sessions' = [sessions EXCEPT ![s] = WriteChanged(@, request[r].row, SessionRowOf[p])]
        /\ receipts' = [receipts EXCEPT ![s] = WriteChanged(@, request[r].receipt, ReceiptRowOf[p])]
        /\ meters' = [meters EXCEPT ![s] = p]
        /\ request' = [q \in Requests |->
             IF q = r THEN NoCall
             ELSE IF request[q].phase = "deleting" /\ request[q].session = s
             THEN [request[q] EXCEPT !.phase = "deleted"]
             ELSE request[q]]

\* A lost connection or a crash: rollback.
Abort(r) ==
    /\ request[r].phase # "idle"
    /\ End(r)
    /\ UNCHANGED <<sessions, meters, receipts>>

\* What a call waits for.
WaitsFor(r) ==
    CASE request[r].phase \in {"deleting", "updated"}     -> MeterHolders(r)
      [] request[r].phase = "loaded" /\ WritesRow(r)      -> RowHolders(r)
      [] OTHER                                            -> {}

\* PostgreSQL's deadlock detector rolls one of the waiting transactions back.
\* A session has two locks with one holder each, so a cycle has two members.
BreakDeadlock(r) ==
    /\ \E q \in WaitsFor(r) : r \in WaitsFor(q)
    /\ End(r)
    /\ UNCHANGED <<sessions, meters, receipts>>

-----------------------------------------------------------------------------
Init ==
    /\ sessions = [s \in Sessions |-> NoRow]
    /\ meters = [s \in Sessions |-> NoRow]
    /\ receipts = [s \in Sessions |-> NoRow]
    /\ request = [r \in Requests |-> NoCall]

Step(r) ==
    \/ DeleteMeters(r)
    \/ ResumeDelete(r)
    \/ LoadReceipt(r)
    \/ FlushSession(r)
    \/ FlushRows(r)
    \/ Commit(r)

Next == \E r \in Requests : Begin(r) \/ Step(r) \/ Abort(r) \/ BreakDeadlock(r)

Spec == Init /\ [][Next]_vars

\* A call keeps running, and one that waits for a lock gets it in the end
\* (lock queues are served in order); a deadlock is detected.
FairSpec ==
    /\ Spec
    /\ \A r \in Requests : SF_vars(Step(r))
    /\ WF_vars(\E r \in Requests : BreakDeadlock(r))

-----------------------------------------------------------------------------
(***************************************************************************)
(* Properties.                                                             *)
(***************************************************************************)

\* The receipt and the meter rows of a session always come from one and the
\* same request, so verify_session_from_db and verify_meter_stream_from_db
\* match: the deletion of the old meter rows, which nobody meant as a lock,
\* keeps two replacements of a receipt apart, because the receipt is read
\* after it.
ReceiptIsOneRequest ==
    \A s \in Sessions :
      receipts[s] = IF meters[s] = NoRow THEN NoRow ELSE ReceiptRowOf[meters[s]]

\* Receipts are replaced as a whole by one request at a time.
RT == INSTANCE ReceiptTable WITH receipts <- receipts
ImplementsReceiptTable == RT!Spec

\* Every finalization ends, with waiting requests, duplicate keys and
\* deadlocks between a request that missed the meter rows and the next one.
FinalizeTerminates ==
    \A r \in Requests : request[r].phase # "idle" ~> request[r].phase = "idle"

\* README.md, "Database": the session table stores normalized fields plus the
\* full session_json.  Both come from the request whose receipt is stored, so
\* an audit that rebuilds the receipt from the session agrees.
RowMatches(s) == meters[s] # NoRow => sessions[s] = SessionRowOf[meters[s]]

SessionMatchesReceipt == \A s \in Sessions : RowMatches(s)

\* A session whose requests never overlap keeps that promise, whatever fails
\* and whatever the requests for other sessions do.
OneCallAtATime(s) ==
    \A q, r \in Requests :
      (/\ request[q].phase # "idle" /\ request[r].phase # "idle"
       /\ request[q].session = s /\ request[r].session = s) => q = r

SerialSessionsMatch == \A s \in Sessions : []OneCallAtATime(s) => []RowMatches(s)
=============================================================================
