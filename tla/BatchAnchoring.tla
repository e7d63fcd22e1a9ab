--------------------------- MODULE BatchAnchoring ---------------------------
(***************************************************************************)
(* Closing a daily batch in PostgreSQL (src/batch_anchoring.py,            *)
(* persist_batch_anchor in src/repository.py), concurrently with sessions  *)
(* being finalized and re-finalized and with other closers.                *)
(*                                                                         *)
(* A closer is one call of anchor_day_from_db in a transaction of its own. *)
(* The database runs at READ COMMITTED, so every SELECT of the call sees   *)
(* what is committed when that SELECT runs: each one is a step.  An INSERT *)
(* is invisible until the commit, but its unique key is taken at once.     *)
(***************************************************************************)
EXTENDS BatchCommitment

CONSTANTS
    Closers,        \* concurrent calls of anchor_day_from_db
    CloseProfiles,  \* commitment profiles they are called with
    NoReceipt,      \* the session has no receipts row
    Tamperable,     \* bound: sessions whose receipt_json may be changed
    MaxAnchors      \* bound: ids of batch_anchors rows that may be allocated

ASSUME DaysNonempty == Days # {} /\ Prefixes # {}
ASSUME CloseProfilesType == CloseProfiles \subseteq Profiles
ASSUME MaxAnchorsType == MaxAnchors \in Nat
ASSUME NoReceiptFresh == NoReceipt \notin [start : Starts, body : Bodies, intact : BOOLEAN]

VARIABLES
    receipts,   \* table receipts, by session
    anchors,    \* committed rows of batch_anchors with their memberships
    nextId,     \* next value of the id sequence of batch_anchors
    closer      \* the control state and local variables of every closer

vars == <<receipts, anchors, nextId, closer>>

\* start and body stand for what the stored receipt_hash covers; intact: the
\* stored receipt_json still hashes to it.
Receipt == [start : Starts, body : Bodies, intact : BOOLEAN]

\* collected: eligible receipts read;  cleared: no V1 anchor of the day was
\* found;  reuse/insert: the identity lookup found/did not find a row;
\* flushed: the row is inserted but not committed.
ActivePhases == {"collected", "cleared", "reuse", "insert", "flushed"}
Phases == {"idle", "done"} \cup ActivePhases

\* How a call ended: it returned (root, count), or raised.
Outcomes == {"none", "anchored", "empty", "ambiguous", "changed", "conflict", "aborted"}

CloserState ==
    [phase : Phases, outcome : Outcomes, day : Days, prefix : Prefixes,
     profile : Profiles, leaves : SUBSET Leaf, id : Nat, report : SUBSET Sessions]

TypeOK ==
    /\ receipts \in [Sessions -> Receipt \cup {NoReceipt}]
    /\ anchors \in SUBSET AnchorRow
    /\ nextId \in 1..(MaxAnchors + 1)
    /\ closer \in [Closers -> CloserState]

-----------------------------------------------------------------------------
(***************************************************************************)
(* Queries.                                                                *)
(***************************************************************************)

\* _collect_batch_records_from_db and _collect_receipt_hashes_from_db: the
\* receipts whose start lies in the UTC window of the day and whose session
\* the prefix selects.
Eligible(day, prefix) ==
    {[session |-> s, start |-> receipts[s].start, body |-> receipts[s].body] :
        s \in {t \in Scope[prefix] :
                 receipts[t] # NoReceipt /\ DayOf[receipts[t].start] = day}}

\* The anchors that close (day, prefix) under profile V1.
ClosedAnchors(day, prefix) ==
    {a \in anchors : a.day = day /\ a.prefix = prefix /\ a.profile = V1}

\* The row an insert of this closer would write; also its reuse lookup key.
RowOf(c) ==
    [id      |-> closer[c].id,
     day     |-> closer[c].day,
     prefix  |-> closer[c].prefix,
     profile |-> closer[c].profile,
     root    |-> CommitRoot(closer[c].profile, closer[c].day, closer[c].leaves),
     count   |-> Cardinality(closer[c].leaves),
     members |-> closer[c].leaves]

SessionsOf(leaves) == {m.session : m \in leaves}

\* Faults: the details leave out receipts that were replaced; or list them by
\* receipt instead of by session id.
DifferenceOfIds(old, new) ==
    (SessionsOf(new) \ SessionsOf(old)) \cup (SessionsOf(old) \ SessionsOf(new))

DifferenceOfLeaves(old, new) == (new \ old) \cup (old \ new)

\* The details of ClosedBatchMembershipChanged: added, removed, and changed
\* session ids (a session in both sets under different receipt hashes).
Difference(old, new) ==
    (SessionsOf(new) \ SessionsOf(old))
      \cup (SessionsOf(old) \ SessionsOf(new))
      \cup {m.session : m \in {n \in new : n \notin old /\ n.session \in SessionsOf(old)}}

-----------------------------------------------------------------------------
(***************************************************************************)
(* Actions.                                                                *)
(***************************************************************************)

\* persist_finalized_session commits the receipt of a session, new or
\* replaced (one transaction: its inside is not this module's subject).
Finalize(s) ==
    /\ \E start \in Starts, body \in Bodies :
         receipts' = [receipts EXCEPT
                        ![s] = [start |-> start, body |-> body, intact |-> TRUE]]
    /\ UNCHANGED <<anchors, nextId, closer>>

\* tamper_receipt_from_db changes the energy in receipt_json and leaves
\* receipt_hash and start_ts as they are.  A later delta may restore it.
Tamper(s) ==
    /\ s \in Tamperable
    /\ receipts[s] # NoReceipt
    /\ \E intact \in BOOLEAN : receipts' = [receipts EXCEPT ![s].intact = intact]
    /\ UNCHANGED <<anchors, nextId, closer>>

Advance(c, next) ==
    closer' = [closer EXCEPT ![c].phase = next]

Finish(c, how) ==
    closer' = [closer EXCEPT ![c].phase = "done", ![c].outcome = how]

\* anchor_day_from_db is called and its eligibility query runs.
BeginClose(c) ==
    /\ closer[c].phase \in {"idle", "done"}
    /\ \E day \in Days, prefix \in Prefixes, profile \in CloseProfiles :
         LET leaves == Eligible(day, prefix)
             phase  == IF leaves = {} THEN "done"
                        ELSE IF profile = V1 THEN "collected" ELSE "cleared"
         IN  closer' = [closer EXCEPT ![c] =
               [phase |-> phase,
                outcome |-> IF leaves = {} THEN "empty" ELSE "none",
                day |-> day, prefix |-> prefix, profile |-> profile,
                leaves |-> leaves, id |-> 0, report |-> {}]]
    /\ UNCHANGED <<receipts, anchors, nextId>>

\* Faults: another snapshot of a closed day is stored beside the first; or the
\* first is taken for the answer whatever is eligible now.
CheckClosedByRoot(c) ==
    /\ closer[c].phase = "collected"
    /\ IF \E a \in ClosedAnchors(closer[c].day, closer[c].prefix) : a.root = RowOf(c).root
       THEN Finish(c, "anchored")
       ELSE Advance(c, "cleared")
    /\ UNCHANGED <<receipts, anchors, nextId>>

CheckClosedByDay(c) ==
    /\ closer[c].phase = "collected"
    /\ IF ClosedAnchors(closer[c].day, closer[c].prefix) # {}
       THEN Finish(c, "anchored")
       ELSE Advance(c, "cleared")
    /\ UNCHANGED <<receipts, anchors, nextId>>

\* The V1 closure check: the existing V1 anchors of the day and prefix are
\* read; an identical snapshot is returned, another one is never replaced.
CheckClosed(c) ==
    LET row      == RowOf(c)
        existing == ClosedAnchors(row.day, row.prefix)
    IN  /\ closer[c].phase = "collected"
        /\ \/ /\ existing = {}
              /\ Advance(c, "cleared")
           \/ /\ Cardinality(existing) > 1
              /\ Finish(c, "ambiguous")
           \/ \E a \in existing :
                /\ existing = {a}
                /\ \/ /\ a.root = row.root /\ a.count = row.count
                      /\ Finish(c, "anchored")
                   \/ /\ ~(a.root = row.root /\ a.count = row.count)
                      /\ closer' = [closer EXCEPT
                           ![c].phase = "done", ![c].outcome = "changed",
                           ![c].report = Difference(a.members, row.members)]
        /\ UNCHANGED <<receipts, anchors, nextId>>

\* persist_batch_anchor looks for a committed row of the same identity.
LookupRoot(c) ==
    /\ closer[c].phase = "cleared"
    /\ Advance(c, IF \E a \in anchors : SameIdentity(a, RowOf(c))
                  THEN "reuse" ELSE "insert")
    /\ UNCHANGED <<receipts, anchors, nextId>>

\* _ensure_anchor_memberships on the row that was found: memberships of
\* sessions it does not have yet are inserted, and the call commits.
ReuseAnchor(c) ==
    /\ closer[c].phase = "reuse"
    /\ \E a \in anchors :
         LET missing == {m \in closer[c].leaves :
                           m.session \notin SessionsOf(a.members)}
         IN  /\ SameIdentity(a, RowOf(c))
             /\ anchors' = (anchors \ {a})
                             \cup {[a EXCEPT !.members = @ \cup missing]}
    /\ Finish(c, "anchored")
    /\ UNCHANGED <<receipts, nextId>>

\* Fault: the waiting INSERT is not told that the key it waits for is committed.
FlushUnlessTaken(c) ==
    /\ closer[c].phase = "insert"
    /\ \A a \in anchors : ~SameIdentity(a, RowOf(c))
    /\ \A d \in Closers :
         closer[d].phase = "flushed" => ~SameIdentity(RowOf(d), RowOf(c))
    /\ nextId <= MaxAnchors
    /\ closer' = [closer EXCEPT ![c].phase = "flushed", ![c].id = nextId]
    /\ nextId' = nextId + 1
    /\ UNCHANGED <<receipts, anchors>>

\* The INSERT is flushed.  It waits while another transaction holds the same
\* unique key, raises IntegrityError when that key is committed, and takes an
\* id otherwise.
FlushAnchor(c) ==
    /\ closer[c].phase = "insert"
    /\ \A d \in Closers :
         closer[d].phase = "flushed" => ~SameIdentity(RowOf(d), RowOf(c))
    /\ \/ /\ \E a \in anchors : SameIdentity(a, RowOf(c))
          /\ Finish(c, "conflict")
          /\ UNCHANGED nextId
       \/ /\ ~\E a \in anchors : SameIdentity(a, RowOf(c))
          /\ nextId <= MaxAnchors
          /\ closer' = [closer EXCEPT ![c].phase = "flushed", ![c].id = nextId]
          /\ nextId' = nextId + 1
    /\ UNCHANGED <<receipts, anchors>>

\* Fault: the memberships are read again when the row is stored.
CommitCurrentReceipts(c) ==
    /\ closer[c].phase = "flushed"
    /\ anchors' = anchors \cup
         {[RowOf(c) EXCEPT !.members = Eligible(closer[c].day, closer[c].prefix)]}
    /\ Finish(c, "anchored")
    /\ UNCHANGED <<receipts, nextId>>

\* session.commit(): the row and its memberships become visible together.
CommitAnchor(c) ==
    /\ closer[c].phase = "flushed"
    /\ anchors' = anchors \cup {RowOf(c)}
    /\ Finish(c, "anchored")
    /\ UNCHANGED <<receipts, nextId>>

\* The process dies or the connection is lost before the commit: rollback.
\* The id that was taken stays taken.
AbortClose(c) ==
    /\ closer[c].phase \in ActivePhases
    /\ Finish(c, "aborted")
    /\ UNCHANGED <<receipts, anchors, nextId>>

-----------------------------------------------------------------------------
\* A closer that was never called.
NoCall ==
    [phase |-> "idle", outcome |-> "none", day |-> CHOOSE d \in Days : TRUE,
     prefix |-> CHOOSE p \in Prefixes : TRUE, profile |-> V1, leaves |-> {},
     id |-> 0, report |-> {}]

Init ==
    /\ receipts = [s \in Sessions |-> NoReceipt]
    /\ anchors = {}
    /\ nextId = 1
    /\ closer = [c \in Closers |-> NoCall]

\* The steps of a call once it has started.
CloseStep(c) ==
    \/ CheckClosed(c)
    \/ LookupRoot(c)
    \/ ReuseAnchor(c)
    \/ FlushAnchor(c)
    \/ CommitAnchor(c)

Next ==
    \/ \E s \in Sessions : Finalize(s) \/ Tamper(s)
    \/ \E c \in Closers : BeginClose(c) \/ CloseStep(c) \/ AbortClose(c)

Spec == Init /\ [][Next]_vars

\* A call runs to its end: no step of it waits for anything but another
\* call's commit.  Where the bound MaxAnchors leaves an insert without an id,
\* the call is taken to be one that is aborted.
FairSpec ==
    /\ Spec
    /\ \A c \in Closers :
         WF_vars(\/ CloseStep(c)
                 \/ closer[c].phase = "insert" /\ nextId > MaxAnchors /\ AbortClose(c))

-----------------------------------------------------------------------------
(***************************************************************************)
(* Readers of the table: verification, publication and audit.  They change *)
(* nothing here, so they are operators on the current state.               *)
(***************************************************************************)

AnchorsOf(day, prefix) == {a \in anchors : a.day = day /\ a.prefix = prefix}

\* _find_latest_anchor of the publisher and of the on-chain verifier.
LatestAnchor(day, prefix) ==
    {a \in AnchorsOf(day, prefix) : \A b \in AnchorsOf(day, prefix) : b.id <= a.id}

\* Fault: verification takes the latest anchor whatever its profile.
VerifyLatestOnly(day, prefix) == LatestAnchor(day, prefix)

\* _find_anchor_from_db: the V1 anchor when there is one (the caller raises
\* "Ambiguous" when there are several), else the latest.
VerifyTargets(day, prefix) ==
    IF ClosedAnchors(day, prefix) # {}
    THEN ClosedAnchors(day, prefix)
    ELSE LatestAnchor(day, prefix)

\* Fault: the audit trusts the stored receipt_hash.
AuditMatchOfHashes(a) == Eligible(a.day, a.prefix) = a.members

\* audit_batch_membership of a V1 anchor against the current receipts: their
\* session ids, starts and stored hashes, and the hash of their receipt_json.
AuditMatch(a) ==
    LET current == Eligible(a.day, a.prefix)
        late    == SessionsOf(current) \ SessionsOf(a.members)
        removed == SessionsOf(a.members) \ SessionsOf(current)
        changed == {m \in current : \E n \in a.members :
                      /\ m.session = n.session
                      /\ m.start # n.start \/ m # n \/ ~receipts[m.session].intact}
    IN  /\ late = {} /\ removed = {} /\ changed = {}
        /\ Cardinality(a.members) = Cardinality(current)

-----------------------------------------------------------------------------
(***************************************************************************)
(* Properties.                                                             *)
(***************************************************************************)

\* A call that returned (root, count) has that very root, count and membership
\* set in a committed row, also when another call inserted the row, when the
\* row existed already, or when receipts changed during the call
\* (anchor_day_from_db returns what it computed, not what it read back).
AnchoredMeansStored ==
    \A c \in Closers :
      closer[c].outcome = "anchored" =>
        \E a \in anchors : /\ SameIdentity(a, RowOf(c))
                           /\ a.count = RowOf(c).count
                           /\ a.members = RowOf(c).members

\* poc_batch_merkle_v1.md, "Closure and compatibility": the first close of a
\* day and prefix stores the snapshot, and no other one is ever stored beside
\* it.  It holds when calls do not overlap.
ClosedOnce ==
    \A a, b \in anchors :
      (a.profile = V1 /\ b.profile = V1 /\ a.day = b.day /\ a.prefix = b.prefix)
        => a = b

\* How far ClosedOnce can fail when calls overlap: a closed day and prefix
\* gets at most as many snapshots as there are concurrent closers, because a
\* call that checks after the first commit never inserts.
SnapshotsBoundedByClosers ==
    \A day \in Days, prefix \in Prefixes :
      Cardinality(ClosedAnchors(day, prefix)) <= Cardinality(Closers)

\* After a V1 close has returned, verify_day finds one anchor for that day and
\* prefix, it carries the returned root, and its stored memberships recompute
\* to it (round trip of anchor_day and verify_day; whatever is finalized or
\* anchored under the legacy profile in between).
CloseThenVerify ==
    \A c \in Closers :
      (closer[c].outcome = "anchored" /\ closer[c].profile = V1) =>
        \E a \in anchors :
          /\ VerifyTargets(closer[c].day, closer[c].prefix) = {a}
          /\ a.root = RowOf(c).root
          /\ Sealed(a)

\* The membership audit and the closure check are two separate comparisons of
\* a snapshot with the current receipts, and only the audit reads receipt_json
\* (batch_service.py:35-37): it reports a match exactly when closing the day
\* again would be idempotent and no eligible receipt was tampered with.
AuditAgreesWithReclose ==
    \A a \in anchors :
      a.profile = V1 =>
        LET now == Eligible(a.day, a.prefix)
        IN  AuditMatch(a) <=>
              /\ CommitRoot(V1, a.day, now) = a.root
              /\ Cardinality(now) = a.count
              /\ \A s \in SessionsOf(now) : receipts[s].intact

\* ClosedBatchMembershipChanged always names at least one session: roots never
\* differ with equal {session: hash} maps.
ChangeIsNamed ==
    \A c \in Closers : closer[c].outcome = "changed" => closer[c].report # {}

\* README.md: "Batch verification reads the latest matching anchor".
VerifyReadsLatest ==
    \A day \in Days, prefix \in Prefixes :
      VerifyTargets(day, prefix) \subseteq LatestAnchor(day, prefix)

\* The closers implement the append-only table of sealed anchors: rows and
\* membership rows are only ever added, each as one sealed row.
AT == INSTANCE AnchorTable WITH anchors <- anchors
ImplementsAnchorTable == AT!Spec

\* A call that has started ends, even when its INSERT has to wait for the
\* transaction that holds the same unique key.
CloseTerminates ==
    \A c \in Closers :
      closer[c].phase \in ActivePhases ~> closer[c].phase = "done"
=============================================================================
