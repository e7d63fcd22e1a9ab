------------------------ MODULE BatchAnchoringProofs ------------------------
(***************************************************************************)
(* Proofs about BatchAnchoring, for every number of closers, sessions,     *)
(* days and receipts.                                                      *)
(***************************************************************************)
EXTENDS BatchAnchoring, FiniteSetTheorems, TLAPS

-----------------------------------------------------------------------------
(***************************************************************************)
(* The inductive invariant.                                                *)
(***************************************************************************)

\* Committed rows are sealed snapshots of their own window, their ids are
\* spent, and neither id nor identity repeats.
TableInv ==
    /\ \A a \in anchors : Sealed(a) /\ AT!InWindow(a) /\ a.id < nextId
    /\ \A a, b \in anchors : a.id = b.id \/ SameIdentity(a, b) => a = b

\* A call at work holds a non-empty snapshot of its window.
CallInv ==
    \A c \in Closers :
      closer[c].phase \in ActivePhases =>
        /\ closer[c].leaves # {}
        /\ IsFiniteSet(closer[c].leaves)
        /\ AT!InWindow(RowOf(c))

\* A call that found a row can still rely on it.
ReuseInv ==
    \A c \in Closers :
      closer[c].phase = "reuse" => \E a \in anchors : SameIdentity(a, RowOf(c))

\* The unique key of an inserted row is held until the transaction ends.
FlushInv ==
    \A c \in Closers :
      closer[c].phase = "flushed" =>
        /\ closer[c].id < nextId
        /\ \A a \in anchors : a.id # closer[c].id /\ ~SameIdentity(a, RowOf(c))
        /\ \A d \in Closers \ {c} :
             closer[d].phase = "flushed" =>
               closer[d].id # closer[c].id /\ ~SameIdentity(RowOf(d), RowOf(c))

IInv ==
    /\ TypeOK
    /\ TableInv
    /\ CallInv
    /\ ReuseInv
    /\ FlushInv
    /\ AnchoredMeansStored

-----------------------------------------------------------------------------
(***************************************************************************)
(* Lemmas about the data.                                                  *)
(***************************************************************************)

\* A root determines the profile and the leaves it was computed from.
LEMMA RootInjective ==
  ASSUME NEW p, NEW d, NEW l, NEW q, NEW e, NEW m,
         CommitRoot(p, d, l) = CommitRoot(q, e, m)
  PROVE  p = q /\ l = m
BY DEF CommitRoot

\* An eligibility query returns finitely many receipts of its window.
LEMMA EligibleSnapshot ==
  ASSUME TypeOK, NEW day \in Days, NEW prefix \in Prefixes
  PROVE  /\ Eligible(day, prefix) \in SUBSET Leaf
         /\ IsFiniteSet(Eligible(day, prefix))
         /\ \A m \in Eligible(day, prefix) :
              DayOf[m.start] = day /\ m.session \in Scope[prefix]
<1> DEFINE Chosen == {t \in Scope[prefix] :
                        receipts[t] # NoReceipt /\ DayOf[receipts[t].start] = day}
           leaf(s) == [session |-> s, start |-> receipts[s].start,
                       body |-> receipts[s].body]
           f == [s \in Chosen |-> leaf(s)]
<1>1. Eligible(day, prefix) = {leaf(s) : s \in Chosen}
  BY DEF Eligible
<1>2. Chosen \in SUBSET Sessions
  BY ScopeType
<1>3. \A s \in Chosen : receipts[s] \in Receipt
  BY <1>2 DEF TypeOK
<1>4. \A s \in Chosen : leaf(s) \in Leaf
  BY <1>2, <1>3 DEF Receipt, Leaf
<1>5. IsFiniteSet(Chosen)
  BY <1>2, SessionsFinite, FS_Subset
<1>6. f \in Surjection(Chosen, Eligible(day, prefix))
  BY <1>1 DEF Surjection
<1>7. IsFiniteSet(Eligible(day, prefix))
  BY <1>5, <1>6, FS_Surjection
<1>8. \A s \in Chosen : DayOf[leaf(s).start] = day /\ leaf(s).session \in Scope[prefix]
  OBVIOUS
<1> QED
  BY <1>1, <1>4, <1>7, <1>8

\* The row a call would insert is a row of the table.
LEMMA RowOfType ==
  ASSUME TypeOK, NEW c \in Closers, IsFiniteSet(closer[c].leaves)
  PROVE  RowOf(c) \in AnchorRow
<1>1. closer[c] \in CloserState
  BY DEF TypeOK
<1>2. Cardinality(closer[c].leaves) \in Nat
  BY FS_CardinalityType
<1>3. CommitRoot(closer[c].profile, closer[c].day, closer[c].leaves) \in Root
  BY <1>1 DEF CommitRoot, Root, CloserState
<1> QED
  BY <1>1, <1>2, <1>3 DEF RowOf, AnchorRow, CloserState

\* A committed row with the identity of a call has the call's members.
LEMMA SameIdentitySameMembers ==
  ASSUME NEW a, Sealed(a), NEW c \in Closers, SameIdentity(a, RowOf(c))
  PROVE  /\ a.members = closer[c].leaves
         /\ a.count = RowOf(c).count
         /\ a.profile = closer[c].profile
<1>1. CommitRoot(a.profile, a.day, a.members)
        = CommitRoot(closer[c].profile, closer[c].day, closer[c].leaves)
  BY DEF SameIdentity, RowOf, Sealed
<1>2. a.members = closer[c].leaves /\ a.profile = closer[c].profile
  BY <1>1, RootInjective
<1> QED
  BY <1>2 DEF Sealed, RowOf

-----------------------------------------------------------------------------
(***************************************************************************)
(* Lemmas about steps.                                                     *)
(***************************************************************************)

\* The identity, count, members and window of a call's row depend on what the
\* call collected, not on its phase, outcome, id or report.
LEMMA RowFrame ==
  ASSUME NEW c \in Closers,
         closer'[c].day = closer[c].day,
         closer'[c].prefix = closer[c].prefix,
         closer'[c].profile = closer[c].profile,
         closer'[c].leaves = closer[c].leaves
  PROVE  /\ RowOf(c)'.day = RowOf(c).day
         /\ RowOf(c)'.prefix = RowOf(c).prefix
         /\ RowOf(c)'.root = RowOf(c).root
         /\ RowOf(c)'.count = RowOf(c).count
         /\ RowOf(c)'.members = RowOf(c).members
         /\ AT!InWindow(RowOf(c))' <=> AT!InWindow(RowOf(c))
         /\ \A a : SameIdentity(a, RowOf(c)') <=> SameIdentity(a, RowOf(c))
         /\ \A a : SameIdentity(RowOf(c)', a) <=> SameIdentity(RowOf(c), a)
BY DEF RowOf, SameIdentity, AT!InWindow

\* A step of one call that moves it to another phase without inserting.
LEMMA MovePreserves ==
  ASSUME IInv, NEW c \in Closers,
         UNCHANGED <<receipts, anchors, nextId>>,
         closer' \in [Closers -> CloserState],
         \A d \in Closers \ {c} : closer'[d] = closer[d],
         closer'[c].day = closer[c].day,
         closer'[c].prefix = closer[c].prefix,
         closer'[c].profile = closer[c].profile,
         closer'[c].leaves = closer[c].leaves,
         closer'[c].phase # "flushed",
         closer'[c].phase \in ActivePhases => closer[c].phase \in ActivePhases,
         closer'[c].phase = "reuse" => \E a \in anchors : SameIdentity(a, RowOf(c)),
         closer'[c].outcome = "anchored" =>
           \E a \in anchors : /\ SameIdentity(a, RowOf(c))
                              /\ a.count = RowOf(c).count
                              /\ a.members = RowOf(c).members
  PROVE  IInv'
<1> USE DEF IInv
<1>1. \A d \in Closers \ {c} : RowOf(d)' = RowOf(d)
  BY DEF RowOf
<1>2. TypeOK'
  BY DEF TypeOK
<1>3. TableInv'
  BY DEF TableInv, AT!InWindow, Sealed, SameIdentity
<1>4. CallInv'
  BY <1>1, RowFrame DEF CallInv
<1>5. ReuseInv'
  BY <1>1, RowFrame DEF ReuseInv
<1>6. FlushInv'
  BY <1>1 DEF FlushInv
<1>7. AnchoredMeansStored'
  <2>1. ASSUME NEW d \in Closers, d # c, closer'[d].outcome = "anchored"
        PROVE  \E a \in anchors' : /\ SameIdentity(a, RowOf(d)')
                                   /\ a.count = RowOf(d)'.count
                                   /\ a.members = RowOf(d)'.members
    BY <1>1, <2>1 DEF AnchoredMeansStored
  <2>2. ASSUME closer'[c].outcome = "anchored"
        PROVE  \E a \in anchors' : /\ SameIdentity(a, RowOf(c)')
                                   /\ a.count = RowOf(c)'.count
                                   /\ a.members = RowOf(c)'.members
    BY <2>2, RowFrame
  <2> QED
    BY <2>1, <2>2 DEF AnchoredMeansStored
<1> QED
  BY <1>2, <1>3, <1>4, <1>5, <1>6, <1>7

\* Re-using a row adds no membership to it: equal identities have equal
\* members.
LEMMA ReuseAddsNothing ==
  ASSUME TypeOK, TableInv, NEW c \in Closers, ReuseAnchor(c)
  PROVE  /\ anchors' = anchors
         /\ \E a \in anchors : /\ SameIdentity(a, RowOf(c))
                               /\ a.count = RowOf(c).count
                               /\ a.members = RowOf(c).members
<1> DEFINE missing(a) == {m \in closer[c].leaves : m.session \notin SessionsOf(a.members)}
<1>1. PICK a \in anchors :
        /\ SameIdentity(a, RowOf(c))
        /\ anchors' = (anchors \ {a}) \cup {[a EXCEPT !.members = @ \cup missing(a)]}
  BY DEF ReuseAnchor
<1>2. a.members = closer[c].leaves /\ a.count = RowOf(c).count
  BY <1>1, SameIdentitySameMembers DEF TableInv
<1>3. missing(a) = {}
  BY <1>2 DEF SessionsOf
<1>4. a \in AnchorRow
  BY DEF TypeOK
<1>5. [a EXCEPT !.members = a.members \cup {}] = a
  BY <1>4 DEF AnchorRow
<1>6. anchors' = anchors
  BY <1>1, <1>3, <1>5
<1> QED
  BY <1>1, <1>2, <1>6 DEF RowOf

-----------------------------------------------------------------------------
(***************************************************************************)
(* The invariant holds initially and every action preserves it.            *)
(***************************************************************************)

\* The empty tables with no call under way satisfy the invariant.
LEMMA InitEstablishes == Init => IInv
<1> SUFFICES ASSUME Init PROVE IInv
  OBVIOUS
<1>1. NoCall \in CloserState
  BY DaysNonempty DEF NoCall, CloserState, Phases, Outcomes, Profiles
<1>2. TypeOK
  BY <1>1, MaxAnchorsType DEF Init, TypeOK
<1>3. \A c \in Closers : closer[c].phase = "idle" /\ closer[c].outcome = "none"
  BY DEF Init, NoCall
<1>4. TableInv
  BY DEF Init, TableInv
<1>5. CallInv /\ ReuseInv /\ FlushInv /\ AnchoredMeansStored
  BY <1>3 DEF CallInv, ReuseInv, FlushInv, AnchoredMeansStored, ActivePhases
<1> QED
  BY <1>2, <1>4, <1>5 DEF IInv

\* Replacing a receipt, or tampering with it, disturbs no commitment a call has computed already.
LEMMA ReceiptsPreserve ==
  ASSUME IInv, NEW s \in Sessions, Finalize(s) \/ Tamper(s)
  PROVE  IInv'
<1>1. PICK r \in Receipt : receipts' = [receipts EXCEPT ![s] = r]
  <2>1. CASE Finalize(s)
    BY <2>1 DEF Finalize, Receipt
  <2>2. CASE Tamper(s)
    <3>1. receipts[s] \in Receipt
      BY <2>2 DEF Tamper, IInv, TypeOK
    <3>2. PICK intact \in BOOLEAN : receipts' = [receipts EXCEPT ![s].intact = intact]
      BY <2>2 DEF Tamper
    <3>3. [receipts[s] EXCEPT !.intact = intact] \in Receipt
      BY <3>1 DEF Receipt
    <3> QED
      BY <3>2, <3>3
  <2> QED
    BY <2>1, <2>2
<1>2. UNCHANGED <<anchors, nextId, closer>>
  BY DEF Finalize, Tamper
<1>3. TypeOK'
  BY <1>1, <1>2 DEF IInv, TypeOK
<1>4. \A c \in Closers : RowOf(c)' = RowOf(c)
  BY <1>2 DEF RowOf
<1>5. TableInv'
  BY <1>2 DEF IInv, TableInv, AT!InWindow, Sealed, SameIdentity
<1>6. CallInv' /\ ReuseInv'
  BY <1>2, <1>4 DEF IInv, CallInv, ReuseInv, AT!InWindow
<1>7. FlushInv' /\ AnchoredMeansStored'
  BY <1>2, <1>4 DEF IInv, FlushInv, AnchoredMeansStored, SameIdentity
<1> QED
  BY <1>3, <1>5, <1>6, <1>7 DEF IInv

\* What the eligibility query returns lies in the window and scope of the call.
LEMMA BeginClosePreserves ==
  ASSUME IInv, NEW c \in Closers, BeginClose(c)
  PROVE  IInv'
<1> USE DEF IInv
<1>1. PICK day \in Days, prefix \in Prefixes, profile \in CloseProfiles :
        LET leaves == Eligible(day, prefix)
            phase  == IF leaves = {} THEN "done"
                       ELSE IF profile = V1 THEN "collected" ELSE "cleared"
        IN  closer' = [closer EXCEPT ![c] =
              [phase |-> phase,
               outcome |-> IF leaves = {} THEN "empty" ELSE "none",
               day |-> day, prefix |-> prefix, profile |-> profile,
               leaves |-> leaves, id |-> 0, report |-> {}]]
  BY DEF BeginClose
<1>2. UNCHANGED <<receipts, anchors, nextId>>
  BY DEF BeginClose
<1>3. closer \in [Closers -> CloserState]
  BY DEF TypeOK
<1>4. \A d \in Closers \ {c} : closer'[d] = closer[d]
  BY <1>1, <1>3
<1>5. /\ closer'[c].day = day
      /\ closer'[c].prefix = prefix
      /\ closer'[c].leaves = Eligible(day, prefix)
      /\ closer'[c].phase \in {"done", "collected", "cleared"}
      /\ closer'[c].leaves = {} => closer'[c].phase = "done"
      /\ closer'[c].outcome \in {"empty", "none"}
  BY <1>1, <1>3
<1>6. /\ Eligible(day, prefix) \in SUBSET Leaf
      /\ IsFiniteSet(Eligible(day, prefix))
      /\ \A m \in Eligible(day, prefix) :
           DayOf[m.start] = day /\ m.session \in Scope[prefix]
  BY EligibleSnapshot
<1>7. profile \in Profiles
  BY CloseProfilesType
<1>8. closer'[c] \in CloserState
  BY <1>1, <1>3, <1>6, <1>7 DEF CloserState, Phases, ActivePhases, Outcomes
<1>9. closer' \in [Closers -> CloserState]
  BY <1>1, <1>3, <1>4, <1>8
<1>10. TypeOK'
  BY <1>2, <1>9 DEF TypeOK
<1>11. \A d \in Closers \ {c} : RowOf(d)' = RowOf(d)
  BY <1>4 DEF RowOf
<1>12. TableInv'
  BY <1>2 DEF TableInv, AT!InWindow, Sealed, SameIdentity
<1>13. AT!InWindow(RowOf(c))'
  BY <1>5, <1>6 DEF AT!InWindow, RowOf
<1>14. CallInv'
  BY <1>4, <1>5, <1>6, <1>11, <1>13 DEF CallInv, ActivePhases, AT!InWindow
<1>15. ReuseInv'
  BY <1>2, <1>4, <1>5, <1>11 DEF ReuseInv
<1>16. FlushInv'
  BY <1>2, <1>4, <1>5, <1>11 DEF FlushInv
<1>17. AnchoredMeansStored'
  BY <1>2, <1>4, <1>5, <1>11 DEF AnchoredMeansStored
<1> QED
  BY <1>10, <1>12, <1>14, <1>15, <1>16, <1>17

\* The steps that only advance or finish a call, with what they may rely on.
LEMMA AdvancePreserves ==
  ASSUME IInv, NEW c \in Closers, UNCHANGED <<receipts, anchors, nextId>>,
         closer[c].phase \in ActivePhases,
         NEW next \in {"cleared", "insert", "reuse"}, Advance(c, next),
         next = "reuse" => \E a \in anchors : SameIdentity(a, RowOf(c))
  PROVE  IInv'
<1>1. closer \in [Closers -> CloserState]
  BY DEF IInv, TypeOK
<1>2. closer' = [closer EXCEPT ![c] = [closer[c] EXCEPT !.phase = next]]
  BY <1>1 DEF Advance, CloserState
<1>3. [closer[c] EXCEPT !.phase = next] \in CloserState
  BY <1>1 DEF CloserState, Phases, ActivePhases
<1>4. /\ closer' \in [Closers -> CloserState]
      /\ \A d \in Closers \ {c} : closer'[d] = closer[d]
      /\ closer'[c] = [closer[c] EXCEPT !.phase = next]
  BY <1>1, <1>2, <1>3
<1>5. /\ closer'[c].day = closer[c].day
      /\ closer'[c].prefix = closer[c].prefix
      /\ closer'[c].profile = closer[c].profile
      /\ closer'[c].leaves = closer[c].leaves
      /\ closer'[c].outcome = closer[c].outcome
      /\ closer'[c].phase = next
  BY <1>1, <1>4 DEF CloserState
<1>6. closer'[c].outcome = "anchored" =>
        \E a \in anchors : /\ SameIdentity(a, RowOf(c))
                           /\ a.count = RowOf(c).count
                           /\ a.members = RowOf(c).members
  BY <1>5 DEF IInv, AnchoredMeansStored
<1> QED
  BY <1>4, <1>5, <1>6, MovePreserves

\* A call that ends keeps the invariant; one that ends as "anchored" needs its
\* root, count and members to be stored.
LEMMA FinishPreserves ==
  ASSUME IInv, NEW c \in Closers, UNCHANGED <<receipts, anchors, nextId>>,
         NEW how \in Outcomes, NEW report \in SUBSET Sessions,
         closer' = [closer EXCEPT ![c] =
           [closer[c] EXCEPT !.phase = "done", !.outcome = how, !.report = report]],
         how = "anchored" => \E a \in anchors : /\ SameIdentity(a, RowOf(c))
                                                /\ a.count = RowOf(c).count
                                                /\ a.members = RowOf(c).members
  PROVE  IInv'
<1> DEFINE ended == [closer[c] EXCEPT !.phase = "done", !.outcome = how, !.report = report]
<1>1. closer \in [Closers -> CloserState]
  BY DEF IInv, TypeOK
<1>2. ended \in CloserState
  BY <1>1 DEF CloserState, Phases
<1>3. /\ closer' \in [Closers -> CloserState]
      /\ \A d \in Closers \ {c} : closer'[d] = closer[d]
      /\ closer'[c] = ended
  BY <1>1, <1>2
<1>4. /\ closer'[c].day = closer[c].day
      /\ closer'[c].prefix = closer[c].prefix
      /\ closer'[c].profile = closer[c].profile
      /\ closer'[c].leaves = closer[c].leaves
      /\ closer'[c].outcome = how
      /\ closer'[c].phase = "done"
  BY <1>1, <1>3 DEF CloserState
<1>5. closer'[c].phase \notin ActivePhases
  BY <1>4 DEF ActivePhases
<1> QED
  BY <1>3, <1>4, <1>5, MovePreserves

\* Finish leaves the report alone.
LEMMA FinishKeepsReport ==
  ASSUME TypeOK, NEW c \in Closers, NEW how \in Outcomes, Finish(c, how)
  PROVE  /\ closer[c].report \in SUBSET Sessions
         /\ closer' = [closer EXCEPT ![c] =
              [closer[c] EXCEPT !.phase = "done", !.outcome = how,
                                !.report = closer[c].report]]
<1>1. closer \in [Closers -> CloserState]
  BY DEF TypeOK
<1>2. closer' = [closer EXCEPT ![c] = [closer[c] EXCEPT !.phase = "done", !.outcome = how]]
  BY <1>1 DEF Finish, CloserState
<1>3. [closer[c] EXCEPT !.phase = "done", !.outcome = how, !.report = closer[c].report]
        = [closer[c] EXCEPT !.phase = "done", !.outcome = how]
  BY <1>1 DEF CloserState
<1>4. closer[c].report \in SUBSET Sessions
  BY <1>1 DEF CloserState
<1> QED
  BY <1>2, <1>3, <1>4

\* The closure check: an identical snapshot found there has the call's members.
LEMMA CheckClosedPreserves ==
  ASSUME IInv, NEW c \in Closers, CheckClosed(c)
  PROVE  IInv'
<1> DEFINE existing == ClosedAnchors(RowOf(c).day, RowOf(c).prefix)
<1>1. closer[c].phase \in ActivePhases /\ UNCHANGED <<receipts, anchors, nextId>>
  BY DEF CheckClosed, ActivePhases
<1>2. CASE Advance(c, "cleared")
  BY <1>1, <1>2, AdvancePreserves
<1>3. CASE Finish(c, "ambiguous")
  BY <1>1, <1>3, FinishKeepsReport, FinishPreserves DEF IInv, Outcomes
<1>4. ASSUME NEW a \in existing, a.root = RowOf(c).root, a.count = RowOf(c).count,
             Finish(c, "anchored")
      PROVE  IInv'
  <2>1. a \in anchors /\ SameIdentity(a, RowOf(c))
    BY <1>4 DEF ClosedAnchors, SameIdentity
  <2>2. a.members = RowOf(c).members
    BY <2>1, SameIdentitySameMembers DEF IInv, TableInv, RowOf
  <2> QED
    BY <1>1, <1>4, <2>1, <2>2, FinishKeepsReport, FinishPreserves DEF IInv, Outcomes
<1>5. ASSUME NEW a \in existing,
             closer' = [closer EXCEPT
               ![c].phase = "done", ![c].outcome = "changed",
               ![c].report = Difference(a.members, RowOf(c).members)]
      PROVE  IInv'
  <2> DEFINE named == Difference(a.members, RowOf(c).members)
  <2>1. closer \in [Closers -> CloserState] /\ a \in AnchorRow
    BY DEF IInv, TypeOK, ClosedAnchors
  <2>2. a.members \in SUBSET Leaf /\ RowOf(c).members \in SUBSET Leaf
    BY <2>1 DEF AnchorRow, CloserState, RowOf
  <2>3. named \in SUBSET Sessions
    BY <2>2 DEF Difference, SessionsOf, Leaf
  <2>4. closer' = [closer EXCEPT ![c] =
          [closer[c] EXCEPT !.phase = "done", !.outcome = "changed", !.report = named]]
    BY <1>5, <2>1 DEF CloserState
  <2> QED
    BY <1>1, <2>3, <2>4, FinishPreserves DEF Outcomes
<1> QED
  BY <1>2, <1>3, <1>4, <1>5 DEF CheckClosed

\* The identity lookup establishes what ReuseInv says of the row it found.
LEMMA LookupRootPreserves ==
  ASSUME IInv, NEW c \in Closers, LookupRoot(c)
  PROVE  IInv'
<1>1. closer[c].phase \in ActivePhases /\ UNCHANGED <<receipts, anchors, nextId>>
  BY DEF LookupRoot, ActivePhases
<1>2. CASE \E a \in anchors : SameIdentity(a, RowOf(c))
  <2>1. Advance(c, "reuse")
    BY <1>2 DEF LookupRoot
  <2> QED
    BY <1>1, <1>2, <2>1, AdvancePreserves
<1>3. CASE ~\E a \in anchors : SameIdentity(a, RowOf(c))
  <2>1. Advance(c, "insert")
    BY <1>3 DEF LookupRoot
  <2> QED
    BY <1>1, <2>1, AdvancePreserves
<1> QED
  BY <1>2, <1>3

\* Reusing a row of the same identity changes no row and stores what is returned.
LEMMA ReuseAnchorPreserves ==
  ASSUME IInv, NEW c \in Closers, ReuseAnchor(c)
  PROVE  IInv'
<1>1. /\ anchors' = anchors
      /\ \E a \in anchors : /\ SameIdentity(a, RowOf(c))
                            /\ a.count = RowOf(c).count
                            /\ a.members = RowOf(c).members
  BY ReuseAddsNothing DEF IInv
<1>2. Finish(c, "anchored") /\ UNCHANGED <<receipts, nextId>>
  BY DEF ReuseAnchor
<1> QED
  BY <1>1, <1>2, FinishKeepsReport, FinishPreserves DEF IInv, Outcomes

\* A flush that goes through takes a fresh id and an identity nobody else holds.
LEMMA InsertPreserves ==
  ASSUME IInv, NEW c \in Closers,
         closer[c].phase = "insert",
         \A d \in Closers :
           closer[d].phase = "flushed" => ~SameIdentity(RowOf(d), RowOf(c)),
         ~\E a \in anchors : SameIdentity(a, RowOf(c)),
         nextId <= MaxAnchors,
         closer' = [closer EXCEPT ![c].phase = "flushed", ![c].id = nextId],
         nextId' = nextId + 1,
         UNCHANGED <<receipts, anchors>>
  PROVE  IInv'
<1> USE DEF IInv
<1>1. closer \in [Closers -> CloserState] /\ nextId \in Nat
  BY MaxAnchorsType DEF TypeOK
<1>2. /\ \A d \in Closers \ {c} : closer'[d] = closer[d]
      /\ closer'[c].phase = "flushed"
      /\ closer'[c].id = nextId
      /\ closer'[c].outcome = closer[c].outcome
      /\ closer'[c].day = closer[c].day
      /\ closer'[c].prefix = closer[c].prefix
      /\ closer'[c].profile = closer[c].profile
      /\ closer'[c].leaves = closer[c].leaves
      /\ closer'[c] \in CloserState
  BY <1>1 DEF CloserState, Phases, ActivePhases
<1>3. \A d \in Closers \ {c} : RowOf(d)' = RowOf(d)
  BY <1>2 DEF RowOf
<1>4. \A a \in anchors : a.id \in Nat
  BY DEF TypeOK, AnchorRow
<1>5. closer' \in [Closers -> CloserState]
  BY <1>1, <1>2
<1>6. TypeOK'
  BY <1>5, MaxAnchorsType DEF TypeOK
<1>7. TableInv'
  BY <1>1, <1>4 DEF TableInv, AT!InWindow, Sealed, SameIdentity
<1>8. CallInv'
  <2>1. closer[c].phase \in ActivePhases
    BY DEF ActivePhases
  <2> QED
    BY <1>2, <1>3, <2>1, RowFrame, ZenonT(40) DEF CallInv
<1>9. ReuseInv'
  BY <1>2, <1>3 DEF ReuseInv
<1>10. FlushInv'
  <2>1. \A d \in Closers : closer[d].id \in Nat
    BY <1>1 DEF CloserState
  <2>2. \A a : SameIdentity(a, RowOf(c)') <=> SameIdentity(a, RowOf(c))
    BY <1>2, RowFrame
  <2>3. /\ closer'[c].id < nextId'
        /\ \A a \in anchors' : a.id # closer'[c].id /\ ~SameIdentity(a, RowOf(c)')
    BY <1>1, <1>2, <1>4, <2>2 DEF TableInv
  <2>4. ASSUME NEW d \in Closers \ {c}, closer'[d].phase = "flushed"
        PROVE  /\ closer'[d].id < nextId'
               /\ \A a \in anchors' : a.id # closer'[d].id /\ ~SameIdentity(a, RowOf(d)')
               /\ closer'[d].id # closer'[c].id
               /\ ~SameIdentity(RowOf(d)', RowOf(c)')
               /\ ~SameIdentity(RowOf(c)', RowOf(d)')
    <3>1. closer[d].phase = "flushed" /\ closer'[d].id = closer[d].id
      BY <1>2, <2>4
    <3>2. closer[d].id < nextId
      BY <3>1 DEF FlushInv
    <3>3. \A a \in anchors : a.id # closer[d].id /\ ~SameIdentity(a, RowOf(d))
      BY <3>1 DEF FlushInv
    <3>4. ~SameIdentity(RowOf(d), RowOf(c)')
      BY <3>1, <2>2
    <3>5. ~SameIdentity(RowOf(c)', RowOf(d))
      BY <3>4 DEF SameIdentity
    <3> QED
      BY <1>1, <1>2, <1>3, <2>1, <3>1, <3>2, <3>3, <3>4, <3>5
  <2>5. ASSUME NEW d \in Closers \ {c}, NEW e \in Closers \ {c, d},
               closer'[d].phase = "flushed", closer'[e].phase = "flushed"
        PROVE  closer'[e].id # closer'[d].id /\ ~SameIdentity(RowOf(e)', RowOf(d)')
    <3>1. /\ closer'[d] = closer[d] /\ closer'[e] = closer[e]
          /\ RowOf(d)' = RowOf(d) /\ RowOf(e)' = RowOf(e)
          /\ e \in Closers \ {d}
      BY <1>2, <1>3
    <3>2. closer[d].phase = "flushed" /\ closer[e].phase = "flushed"
      BY <2>5, <3>1
    <3>3. closer[e].id # closer[d].id /\ ~SameIdentity(RowOf(e), RowOf(d))
      BY <3>1, <3>2 DEF FlushInv
    <3> QED
      BY <3>1, <3>3
  <2> QED
    BY <2>3, <2>4, <2>5 DEF FlushInv
<1>11. AnchoredMeansStored'
  <2>1. ASSUME NEW d \in Closers \ {c}, closer'[d].outcome = "anchored"
        PROVE  \E a \in anchors' : /\ SameIdentity(a, RowOf(d)')
                                   /\ a.count = RowOf(d)'.count
                                   /\ a.members = RowOf(d)'.members
    BY <1>2, <1>3, <2>1 DEF AnchoredMeansStored
  <2>2. ASSUME closer'[c].outcome = "anchored"
        PROVE  \E a \in anchors' : /\ SameIdentity(a, RowOf(c)')
                                   /\ a.count = RowOf(c)'.count
                                   /\ a.members = RowOf(c)'.members
    <3>1. PICK a \in anchors : /\ SameIdentity(a, RowOf(c))
                               /\ a.count = RowOf(c).count
                               /\ a.members = RowOf(c).members
      BY <1>2, <2>2 DEF AnchoredMeansStored
    <3> QED
      BY <1>2, <3>1, RowFrame
  <2> QED
    BY <2>1, <2>2 DEF AnchoredMeansStored
<1> QED
  BY <1>6, <1>7, <1>8, <1>9, <1>10, <1>11

\* The INSERT, whether it goes through or meets a committed row.
LEMMA FlushAnchorPreserves ==
  ASSUME IInv, NEW c \in Closers, FlushAnchor(c)
  PROVE  IInv'
<1>1. CASE Finish(c, "conflict") /\ UNCHANGED nextId
  BY <1>1, FinishKeepsReport, FinishPreserves DEF FlushAnchor, IInv, Outcomes
<1>2. CASE /\ ~\E a \in anchors : SameIdentity(a, RowOf(c))
           /\ nextId <= MaxAnchors
           /\ closer' = [closer EXCEPT ![c].phase = "flushed", ![c].id = nextId]
           /\ nextId' = nextId + 1
  BY <1>2, InsertPreserves DEF FlushAnchor
<1> QED
  BY <1>1, <1>2 DEF FlushAnchor

\* The commit adds the one row that was flushed, sealed and with a fresh id.
LEMMA CommitAnchorPreserves ==
  ASSUME IInv, NEW c \in Closers, CommitAnchor(c)
  PROVE  IInv'
<1> USE DEF IInv
<1>1. closer \in [Closers -> CloserState]
  BY DEF TypeOK
<1>2. /\ closer[c].phase = "flushed"
      /\ closer[c].phase \in ActivePhases
      /\ anchors' = anchors \cup {RowOf(c)}
      /\ UNCHANGED <<receipts, nextId>>
  BY DEF CommitAnchor, ActivePhases
<1>3. /\ \A d \in Closers \ {c} : closer'[d] = closer[d]
      /\ closer'[c].phase = "done"
      /\ closer'[c].day = closer[c].day
      /\ closer'[c].prefix = closer[c].prefix
      /\ closer'[c].profile = closer[c].profile
      /\ closer'[c].leaves = closer[c].leaves
      /\ closer'[c] \in CloserState
  BY <1>1, ZenonT(40) DEF CommitAnchor, Finish, CloserState, Phases, Outcomes
<1>4. \A d \in Closers \ {c} : RowOf(d)' = RowOf(d)
  BY <1>3 DEF RowOf
<1>5. IsFiniteSet(closer[c].leaves) /\ closer[c].leaves # {} /\ AT!InWindow(RowOf(c))
  BY <1>2 DEF CallInv
<1>6. RowOf(c) \in AnchorRow
  BY <1>5, RowOfType
<1>7. Sealed(RowOf(c))
  BY <1>5 DEF Sealed, RowOf
<1>8. /\ RowOf(c).id < nextId
      /\ \A a \in anchors : a.id # RowOf(c).id /\ ~SameIdentity(a, RowOf(c))
  BY <1>2 DEF FlushInv, RowOf
<1>9. closer' \in [Closers -> CloserState]
  BY <1>1, <1>3 DEF CommitAnchor, Finish
<1>10. TypeOK'
  BY <1>2, <1>6, <1>9 DEF TypeOK
<1>11. TableInv'
  <2>1. \A a \in anchors' : Sealed(a) /\ AT!InWindow(a) /\ a.id < nextId
    BY <1>2, <1>5, <1>7, <1>8 DEF TableInv
  <2>2. \A a, b \in anchors' : a.id = b.id \/ SameIdentity(a, b) => a = b
    BY <1>2, <1>8 DEF TableInv, SameIdentity
  <2> QED
    BY <1>2, <2>1, <2>2 DEF TableInv, AT!InWindow, Sealed, SameIdentity
<1>12. CallInv'
  BY <1>3, <1>4 DEF CallInv, ActivePhases, AT!InWindow
<1>13. ReuseInv'
  BY <1>2, <1>3, <1>4 DEF ReuseInv
<1>14. FlushInv'
  <2>1. ASSUME NEW d \in Closers \ {c}, closer[d].phase = "flushed"
        PROVE  RowOf(c).id # closer[d].id /\ ~SameIdentity(RowOf(c), RowOf(d))
    BY <1>2, <2>1 DEF FlushInv, RowOf
  <2>2. \A d \in Closers : closer'[d].phase = "flushed" => d # c
    BY <1>3
  <2> QED
    BY <1>2, <1>3, <1>4, <2>1, <2>2 DEF FlushInv
<1>15. AnchoredMeansStored'
  <2>1. ASSUME NEW d \in Closers \ {c}, closer'[d].outcome = "anchored"
        PROVE  \E a \in anchors' : /\ SameIdentity(a, RowOf(d)')
                                   /\ a.count = RowOf(d)'.count
                                   /\ a.members = RowOf(d)'.members
    BY <1>2, <1>3, <1>4, <2>1 DEF AnchoredMeansStored
  <2>2. /\ RowOf(c) \in anchors'
        /\ SameIdentity(RowOf(c), RowOf(c)')
        /\ RowOf(c).count = RowOf(c)'.count
        /\ RowOf(c).members = RowOf(c)'.members
    BY <1>2, <1>3 DEF RowOf, SameIdentity
  <2> QED
    BY <2>1, <2>2 DEF AnchoredMeansStored
<1> QED
  BY <1>10, <1>11, <1>12, <1>13, <1>14, <1>15

\* The invariant is inductive.
LEMMA NextPreserves == IInv /\ [Next]_vars => IInv'
<1> SUFFICES ASSUME IInv, [Next]_vars PROVE IInv'
  OBVIOUS
<1>1. ASSUME NEW s \in Sessions, Finalize(s) \/ Tamper(s) PROVE IInv'
  BY <1>1, ReceiptsPreserve
<1>2. ASSUME NEW c \in Closers, BeginClose(c) PROVE IInv'
  BY <1>2, BeginClosePreserves
<1>3. ASSUME NEW c \in Closers, CheckClosed(c) PROVE IInv'
  BY <1>3, CheckClosedPreserves
<1>4. ASSUME NEW c \in Closers, LookupRoot(c) PROVE IInv'
  BY <1>4, LookupRootPreserves
<1>5. ASSUME NEW c \in Closers, ReuseAnchor(c) PROVE IInv'
  BY <1>5, ReuseAnchorPreserves
<1>6. ASSUME NEW c \in Closers, FlushAnchor(c) PROVE IInv'
  BY <1>6, FlushAnchorPreserves
<1>7. ASSUME NEW c \in Closers, AbortClose(c) PROVE IInv'
  BY <1>7, FinishKeepsReport, FinishPreserves DEF AbortClose, IInv, Outcomes
<1>8. ASSUME NEW c \in Closers, CommitAnchor(c) PROVE IInv'
  BY <1>8, CommitAnchorPreserves
<1>9. CASE UNCHANGED vars
  <2>1. UNCHANGED <<receipts, anchors, nextId, closer>>
    BY <1>9 DEF vars
  <2>2. \A c \in Closers : RowOf(c)' = RowOf(c)
    BY <2>1 DEF RowOf
  <2>3. TypeOK' /\ TableInv'
    BY <2>1 DEF IInv, TypeOK, TableInv, AT!InWindow, Sealed, SameIdentity
  <2>4. CallInv' /\ ReuseInv'
    BY <2>1, <2>2 DEF IInv, CallInv, ReuseInv, AT!InWindow
  <2>5. FlushInv' /\ AnchoredMeansStored'
    BY <2>1, <2>2 DEF IInv, FlushInv, AnchoredMeansStored
  <2> QED
    BY <2>3, <2>4, <2>5 DEF IInv
<1> QED
  BY <1>1, <1>2, <1>3, <1>4, <1>5, <1>6, <1>7, <1>8, <1>9 DEF Next, CloseStep

-----------------------------------------------------------------------------
(***************************************************************************)
(* The theorems.                                                           *)
(***************************************************************************)

\* Every reachable state of the closers satisfies the inductive invariant.
THEOREM Invariance == Spec => []IInv
BY InitEstablishes, NextPreserves, PTL DEF Spec

\* Type correctness.
THEOREM TypeCorrect == Spec => []TypeOK
<1>1. IInv => TypeOK
  BY DEF IInv
<1> QED
  BY <1>1, Invariance, PTL

\* What anchor_day_from_db returned is what the table stores, under any number
\* of concurrent closers and re-finalized receipts.
THEOREM ReturnedRootsAreStored == Spec => []AnchoredMeansStored
<1>1. IInv => AnchoredMeansStored
  BY DEF IInv
<1> QED
  BY <1>1, Invariance, PTL

\* The abstract table speaks of the same rows.
LEMMA SameData ==
  /\ AT!AnchorRow = AnchorRow
  /\ \A a : AT!Sealed(a) <=> Sealed(a)
  /\ \A a, b : AT!SameIdentity(a, b) <=> SameIdentity(a, b)
<1>1. AT!Leaf = Leaf /\ AT!Profiles = Profiles /\ AT!AnyDay = AnyDay /\ AT!V1 = V1
  BY DEF AT!Leaf, Leaf, AT!Profiles, Profiles, AT!V1, V1, AT!Legacy, Legacy,
         AT!AnyDay, AnyDay
<1>2. AT!AnchorRow = AnchorRow
  BY <1>1 DEF AT!AnchorRow, AnchorRow, AT!Root, Root
<1>3. \A a : AT!Sealed(a) <=> Sealed(a)
  <2>1. \A S : AT!Cardinality(S) = Cardinality(S)
    BY DEF AT!Cardinality, Cardinality
  <2> QED
    BY <1>1, <2>1 DEF AT!Sealed, Sealed, AT!CommitRoot, CommitRoot
<1>4. \A a, b : AT!SameIdentity(a, b) <=> SameIdentity(a, b)
  BY DEF AT!SameIdentity, SameIdentity
<1> QED
  BY <1>2, <1>3, <1>4

\* A step of the closers appends one sealed row or changes no anchor.
LEMMA StepRefines == IInv /\ IInv' /\ [Next]_vars => [AT!Next]_anchors
<1> SUFFICES ASSUME IInv, IInv', [Next]_vars, anchors' # anchors PROVE AT!Next
  OBVIOUS
<1>1. ASSUME NEW c \in Closers, CommitAnchor(c) PROVE AT!Next
  <2>1. anchors' = anchors \cup {RowOf(c)}
    BY <1>1 DEF CommitAnchor
  <2>2. RowOf(c) \notin anchors
    BY <2>1
  <2>3. \A b \in anchors : b.id # RowOf(c).id /\ ~SameIdentity(RowOf(c), b)
    BY <1>1 DEF CommitAnchor, IInv, FlushInv, RowOf, SameIdentity
  <2>4. RowOf(c) \in AnchorRow
    BY <2>1 DEF IInv, TypeOK
  <2>5. Sealed(RowOf(c)) /\ AT!InWindow(RowOf(c))
    BY <2>1 DEF IInv, TableInv, AT!InWindow, Sealed
  <2>6. AT!AppendRow(RowOf(c))
    BY <2>1, <2>3, <2>4, <2>5, SameData DEF AT!AppendRow
  <2> QED
    BY <2>1, <2>2, <2>6 DEF AT!Next
<1>2. ASSUME NEW c \in Closers, ReuseAnchor(c) PROVE FALSE
  BY <1>2, ReuseAddsNothing DEF IInv
<1>3. ASSUME NEW c \in Closers,
             \/ BeginClose(c) \/ CheckClosed(c) \/ LookupRoot(c)
             \/ FlushAnchor(c) \/ AbortClose(c)
      PROVE  FALSE
  BY <1>3 DEF BeginClose, CheckClosed, LookupRoot, FlushAnchor, AbortClose
<1>4. ASSUME NEW s \in Sessions, Finalize(s) \/ Tamper(s) PROVE FALSE
  BY <1>4 DEF Finalize, Tamper
<1>5. CASE UNCHANGED vars
  BY <1>5 DEF vars
<1> QED
  BY <1>1, <1>2, <1>3, <1>4, <1>5 DEF Next, CloseStep

\* Closing batches implements the append-only table of sealed anchors.
THEOREM Refinement == Spec => ImplementsAnchorTable
<1>1. Init => AT!Init
  BY DEF Init, AT!Init
<1> QED
  BY <1>1, Invariance, StepRefines, PTL DEF Spec, ImplementsAnchorTable, AT!Spec

-----------------------------------------------------------------------------
(***************************************************************************)
(* More about BatchAnchoring: what closing, verifying and auditing a day   *)
(* agree on.  Two facts carry it: a snapshot has one receipt per session,  *)
(* and, when calls do not overlap, a call past the closure check is the    *)
(* only one that can close its day.                                        *)
(***************************************************************************)
OnePerSession(leaves) ==
    \A m, n \in leaves : m.session = n.session => m = n

SnapshotInv ==
    /\ \A c \in Closers : OnePerSession(closer[c].leaves)
    /\ \A a \in anchors : OnePerSession(a.members)

Serial == \A c, d \in Closers : c = d

\* Nothing closes the day of a V1 call between its check and its commit.
PastCheck ==
    \A c \in Closers :
      (closer[c].phase \in {"cleared", "reuse", "insert", "flushed"} /\ closer[c].profile = V1)
        => ClosedAnchors(closer[c].day, closer[c].prefix) = {}

-----------------------------------------------------------------------------
(***************************************************************************)
(* What the actions do to the fields that matter here.                     *)
(***************************************************************************)

\* A call keeps what it collected until the next call begins.
LEMMA StepKeepsCollected ==
  ASSUME IInv, NEW c \in Closers, CloseStep(c) \/ AbortClose(c)
  PROVE  /\ \A d \in Closers : /\ closer'[d].day = closer[d].day
                               /\ closer'[d].prefix = closer[d].prefix
                               /\ closer'[d].profile = closer[d].profile
                               /\ closer'[d].leaves = closer[d].leaves
         /\ \A d \in Closers \ {c} : closer'[d] = closer[d]
         /\ receipts' = receipts
<1>1. closer \in [Closers -> CloserState]
  BY DEF IInv, TypeOK
<1>2. CASE CheckClosed(c)
  BY <1>1, <1>2 DEF CheckClosed, Advance, Finish, CloserState
<1>3. CASE LookupRoot(c)
  BY <1>1, <1>3 DEF LookupRoot, Advance, CloserState
<1>4. CASE ReuseAnchor(c)
  BY <1>1, <1>4 DEF ReuseAnchor, Finish, CloserState
<1>5. CASE FlushAnchor(c)
  BY <1>1, <1>5 DEF FlushAnchor, Finish, CloserState
<1>6. CASE CommitAnchor(c) \/ AbortClose(c)
  BY <1>1, <1>6 DEF CommitAnchor, AbortClose, Finish, CloserState
<1> QED
  BY <1>2, <1>3, <1>4, <1>5, <1>6 DEF CloseStep

\* Only a commit changes the table, and it adds the row of its call.
LEMMA StepAddsRow ==
  ASSUME IInv, [Next]_vars, anchors' # anchors
  PROVE  \E c \in Closers : CommitAnchor(c) /\ anchors' = anchors \cup {RowOf(c)}
<1>1. ASSUME NEW c \in Closers, ReuseAnchor(c) PROVE FALSE
  BY <1>1, ReuseAddsNothing DEF IInv
<1>2. ASSUME NEW c \in Closers,
             \/ BeginClose(c) \/ CheckClosed(c) \/ LookupRoot(c)
             \/ FlushAnchor(c) \/ AbortClose(c)
      PROVE  FALSE
  BY <1>2 DEF BeginClose, CheckClosed, LookupRoot, FlushAnchor, AbortClose
<1>3. ASSUME NEW s \in Sessions, Finalize(s) \/ Tamper(s) PROVE FALSE
  BY <1>3 DEF Finalize, Tamper
<1>4. CASE UNCHANGED vars
  BY <1>4 DEF vars
<1> QED
  BY <1>1, <1>2, <1>3, <1>4 DEF Next, CloseStep, CommitAnchor

\* What a new call collects.
LEMMA BeginCollects ==
  ASSUME IInv, NEW c \in Closers, BeginClose(c)
  PROVE  /\ \A d \in Closers \ {c} : closer'[d] = closer[d]
         /\ \E day \in Days, prefix \in Prefixes :
              closer'[c].leaves = Eligible(day, prefix)
         /\ closer'[c].phase = "cleared" => closer'[c].profile # V1
         /\ closer'[c].phase = "collected" => closer'[c].profile = V1
         /\ closer'[c].phase \in {"done", "collected", "cleared"}
         /\ closer'[c].outcome \in {"empty", "none"}
         /\ anchors' = anchors
<1>1. closer \in [Closers -> CloserState]
  BY DEF IInv, TypeOK
<1> QED
  BY <1>1 DEF BeginClose

\* The eligibility query returns one receipt per session.
LEMMA EligibleOnePerSession ==
  ASSUME NEW day, NEW prefix
  PROVE  OnePerSession(Eligible(day, prefix))
BY DEF OnePerSession, Eligible

-----------------------------------------------------------------------------
\* Snapshots and the commitments of calls always have one receipt per session.
LEMMA SnapshotInvariance == Spec => []SnapshotInv
<1>1. Init => SnapshotInv
  BY DEF Init, NoCall, SnapshotInv, OnePerSession
<1>2. ASSUME IInv, SnapshotInv, [Next]_vars
      PROVE  SnapshotInv'
  <2>1. \A c \in Closers : OnePerSession(closer'[c].leaves)
    <3>1. CASE closer' = closer
      BY <1>2, <3>1 DEF SnapshotInv
    <3>2. ASSUME NEW c \in Closers, BeginClose(c)
          PROVE  \A d \in Closers : OnePerSession(closer'[d].leaves)
      BY <1>2, <3>2, BeginCollects, EligibleOnePerSession DEF SnapshotInv
    <3>3. ASSUME NEW c \in Closers, CloseStep(c) \/ AbortClose(c)
          PROVE  \A d \in Closers : OnePerSession(closer'[d].leaves)
      BY <1>2, <3>3, StepKeepsCollected DEF SnapshotInv
    <3> QED
      BY <1>2, <3>1, <3>2, <3>3 DEF Next, vars, Finalize, Tamper
  <2>2. \A a \in anchors' : OnePerSession(a.members)
    <3>1. CASE anchors' = anchors
      BY <1>2, <3>1 DEF SnapshotInv
    <3>2. CASE anchors' # anchors
      <4>1. PICK c \in Closers : anchors' = anchors \cup {RowOf(c)}
        BY <1>2, <3>2, StepAddsRow
      <4>2. RowOf(c).members = closer[c].leaves
        BY DEF RowOf
      <4> QED
        BY <1>2, <4>1, <4>2 DEF SnapshotInv
    <3> QED
      BY <3>1, <3>2
  <2> QED
    BY <2>1, <2>2 DEF SnapshotInv, OnePerSession
<1> QED
  BY <1>1, <1>2, Invariance, PTL DEF Spec

-----------------------------------------------------------------------------
(***************************************************************************)
(* Comparing two snapshots.                                                *)
(***************************************************************************)

\* Snapshots without a difference to name are the same snapshot.
LEMMA NoDifference ==
  ASSUME NEW old, NEW new, OnePerSession(old), Difference(old, new) = {}
  PROVE  old = new
<1>1. SessionsOf(new) = SessionsOf(old)
  BY DEF Difference
<1>2. \A n \in new : n \in old
  BY <1>1 DEF Difference, SessionsOf
<1>3. \A m \in old : m \in new
  <2> TAKE m \in old
  <2>1. PICK n \in new : n.session = m.session
    BY <1>1 DEF SessionsOf
  <2> QED
    BY <1>2, <2>1 DEF OnePerSession
<1> QED
  BY <1>2, <1>3

\* The audit of an anchor matches exactly when its members are what is
\* eligible now and their receipts are intact.
LEMMA AuditComparesSnapshots ==
  ASSUME NEW a \in anchors, OnePerSession(a.members)
  PROVE  AuditMatch(a) <=>
           /\ Eligible(a.day, a.prefix) = a.members
           /\ \A s \in SessionsOf(Eligible(a.day, a.prefix)) : receipts[s].intact
<1> DEFINE current == Eligible(a.day, a.prefix)
           intact(s) == receipts[s].intact
<1>1. OnePerSession(current)
  BY EligibleOnePerSession
<1>2. ASSUME AuditMatch(a)
      PROVE  current = a.members /\ \A s \in SessionsOf(current) : intact(s)
  <2>1. SessionsOf(current) = SessionsOf(a.members)
    BY <1>2 DEF AuditMatch
  <2>2. \A m \in current, n \in a.members :
          m.session = n.session => m = n /\ intact(m.session)
    BY <1>2 DEF AuditMatch
  <2>3. \A m \in current : \E n \in a.members : n.session = m.session
    BY <2>1 DEF SessionsOf
  <2>4. \A n \in a.members : \E m \in current : n.session = m.session
    BY <2>1 DEF SessionsOf
  <2>5. \A m \in current : m \in a.members /\ intact(m.session)
    BY <2>2, <2>3
  <2>6. \A n \in a.members : n \in current
    BY <2>2, <2>4
  <2> QED
    BY <2>5, <2>6 DEF SessionsOf
<1>3. ASSUME current = a.members, \A s \in SessionsOf(current) : intact(s)
      PROVE  AuditMatch(a)
  BY <1>1, <1>3 DEF AuditMatch, OnePerSession, SessionsOf
<1> QED
  BY <1>2, <1>3

\* Closing an anchored day again is idempotent exactly when its members are
\* what is eligible now.
LEMMA RecloseComparesSnapshots ==
  ASSUME NEW a, Sealed(a), a.profile = V1, NEW now
  PROVE  (CommitRoot(V1, a.day, now) = a.root /\ Cardinality(now) = a.count)
           <=> now = a.members
<1>1. CommitRoot(V1, a.day, now) = a.root => now = a.members
  BY RootInjective DEF Sealed
<1> QED
  BY <1>1 DEF Sealed

-----------------------------------------------------------------------------
(***************************************************************************)
(* The theorems.                                                           *)
(***************************************************************************)

\* audit_batch_membership and the closure check of anchor_day_from_db
\* contradict each other only about receipts whose receipt_json was changed
\* under an unchanged receipt_hash.
THEOREM AuditAgreement == Spec => []AuditAgreesWithReclose
<1>1. ASSUME IInv, SnapshotInv PROVE AuditAgreesWithReclose
  <2> SUFFICES ASSUME NEW a \in anchors, a.profile = V1
               PROVE  AuditMatch(a) <=>
                        /\ CommitRoot(V1, a.day, Eligible(a.day, a.prefix)) = a.root
                        /\ Cardinality(Eligible(a.day, a.prefix)) = a.count
                        /\ \A s \in SessionsOf(Eligible(a.day, a.prefix)) : receipts[s].intact
    BY DEF AuditAgreesWithReclose
  <2>1. Sealed(a) /\ OnePerSession(a.members)
    BY <1>1 DEF IInv, TableInv, SnapshotInv
  <2> QED
    BY <2>1, AuditComparesSnapshots, RecloseComparesSnapshots
<1> QED
  BY <1>1, Invariance, SnapshotInvariance, PTL

\* Only V1 calls run the closure check.
CheckInv ==
    /\ ChangeIsNamed
    /\ \A c \in Closers : closer[c].phase = "collected" => closer[c].profile = V1

\* Two commitments of one day with different roots differ in some session.
LEMMA DifferentRootsAreNamed ==
  ASSUME IInv, SnapshotInv, CheckInv, NEW c \in Closers, closer[c].phase = "collected",
         NEW a \in ClosedAnchors(RowOf(c).day, RowOf(c).prefix),
         ~(a.root = RowOf(c).root /\ a.count = RowOf(c).count)
  PROVE  Difference(a.members, RowOf(c).members) # {}
<1>1. a \in anchors /\ a.profile = V1 /\ a.day = RowOf(c).day
  BY DEF ClosedAnchors
<1>2. Sealed(a) /\ OnePerSession(a.members)
  BY <1>1 DEF IInv, TableInv, SnapshotInv
<1>3. closer[c].profile = V1
  BY DEF CheckInv
<1>4. a.members # RowOf(c).members
  BY <1>1, <1>2, <1>3 DEF Sealed, RowOf
<1> QED
  BY <1>2, <1>4, NoDifference

\* A step of a call ends as "changed" only with a difference.
LEMMA StepNamesChange ==
  ASSUME IInv, SnapshotInv, CheckInv, NEW c \in Closers, CloseStep(c) \/ AbortClose(c)
  PROVE  /\ closer'[c].outcome = "changed" => closer'[c].report # {}
         /\ closer'[c].phase # "collected"
<1>1. closer \in [Closers -> CloserState]
  BY DEF IInv, TypeOK
<1>2. closer[c].outcome = "changed" => closer[c].report # {}
  BY DEF CheckInv, ChangeIsNamed
<1>3. CASE CheckClosed(c)
  <2>1. CASE Advance(c, "cleared") \/ Finish(c, "ambiguous") \/ Finish(c, "anchored")
    BY <1>1, <1>2, <2>1 DEF Advance, Finish, CloserState
  <2>2. ASSUME NEW a \in ClosedAnchors(RowOf(c).day, RowOf(c).prefix),
               ~(a.root = RowOf(c).root /\ a.count = RowOf(c).count),
               closer' = [closer EXCEPT
                 ![c].phase = "done", ![c].outcome = "changed",
                 ![c].report = Difference(a.members, RowOf(c).members)]
        PROVE  closer'[c].report # {} /\ closer'[c].phase = "done"
    <3>1. Difference(a.members, RowOf(c).members) # {}
      BY <1>3, <2>2, DifferentRootsAreNamed DEF CheckClosed
    <3> QED
      BY <1>1, <2>2, <3>1 DEF CloserState
  <2> QED
    BY <1>3, <2>1, <2>2 DEF CheckClosed
<1>4. CASE LookupRoot(c)
  BY <1>1, <1>2, <1>4 DEF LookupRoot, Advance, CloserState
<1>5. CASE FlushAnchor(c)
  BY <1>1, <1>2, <1>5 DEF FlushAnchor, Finish, CloserState
<1>6. CASE ReuseAnchor(c) \/ CommitAnchor(c) \/ AbortClose(c)
  BY <1>1, <1>6 DEF ReuseAnchor, CommitAnchor, AbortClose, Finish, CloserState
<1> QED
  BY <1>3, <1>4, <1>5, <1>6 DEF CloseStep

\* A call gets past the closure check only on a day that is not closed.
LEMMA OpenDaysPass ==
  ASSUME IInv, NEW c \in Closers, CloseStep(c) \/ AbortClose(c)
  PROVE  closer'[c].phase \in {"cleared", "reuse", "insert", "flushed"} =>
           \/ closer[c].phase \in {"cleared", "reuse", "insert", "flushed"}
           \/ ClosedAnchors(closer[c].day, closer[c].prefix) = {}
<1>1. closer \in [Closers -> CloserState]
  BY DEF IInv, TypeOK
<1>2. CASE CheckClosed(c)
  <2>1. /\ RowOf(c).day = closer[c].day
        /\ RowOf(c).prefix = closer[c].prefix
    BY DEF RowOf
  <2>2. \/ ClosedAnchors(RowOf(c).day, RowOf(c).prefix) = {}
        \/ closer'[c].phase = "done"
    <3>1. CASE ClosedAnchors(RowOf(c).day, RowOf(c).prefix) = {}
      BY <3>1
    <3>2. CASE Finish(c, "ambiguous") \/ Finish(c, "anchored")
      BY <1>1, <3>2 DEF Finish, CloserState
    <3>3. ASSUME NEW report,
                 closer' = [closer EXCEPT ![c].phase = "done", ![c].outcome = "changed",
                                          ![c].report = report]
          PROVE  closer'[c].phase = "done"
      BY <1>1, <3>3 DEF CloserState
    <3> QED
      BY <1>2, <3>1, <3>2, <3>3 DEF CheckClosed
  <2> QED
    BY <2>1, <2>2
<1>3. CASE AbortClose(c)
  BY <1>1, <1>3 DEF AbortClose, Finish
<1>4. CASE LookupRoot(c) \/ ReuseAnchor(c) \/ FlushAnchor(c)
           \/ CommitAnchor(c)
  <2>1. closer[c].phase \in {"cleared", "reuse", "insert", "flushed"}
    BY <1>4 DEF LookupRoot, ReuseAnchor, FlushAnchor, CommitAnchor
  <2> QED
    BY <2>1
<1> QED
  BY <1>2, <1>3, <1>4 DEF CloseStep

\* ClosedBatchMembershipChanged is never raised without naming a session.
THEOREM ChangesAreNamed == Spec => []ChangeIsNamed
<1>1. Init => CheckInv
  BY DEF Init, NoCall, CheckInv, ChangeIsNamed
<1>2. ASSUME IInv, SnapshotInv, CheckInv, [Next]_vars
      PROVE  CheckInv'
  <2>1. CASE closer' = closer
    BY <1>2, <2>1 DEF CheckInv, ChangeIsNamed
  <2>2. ASSUME NEW c \in Closers, BeginClose(c) PROVE CheckInv'
    BY <1>2, <2>2, BeginCollects DEF CheckInv, ChangeIsNamed
  <2>3. ASSUME NEW c \in Closers, CloseStep(c) \/ AbortClose(c) PROVE CheckInv'
    BY <1>2, <2>3, StepKeepsCollected, StepNamesChange DEF CheckInv, ChangeIsNamed
  <2> QED
    BY <1>2, <2>1, <2>2, <2>3 DEF Next, vars, Finalize, Tamper
<1>3. CheckInv => ChangeIsNamed
  BY DEF CheckInv
<1> QED
  BY <1>1, <1>2, <1>3, Invariance, SnapshotInvariance, PTL DEF Spec

\* While calls do not overlap, a call past the check is alone with its day.
LEMMA SerialInvariance == Serial => (Spec => [](ClosedOnce /\ PastCheck))
<1> SUFFICES ASSUME Serial PROVE Spec => [](ClosedOnce /\ PastCheck)
  OBVIOUS
<1>1. Init => ClosedOnce /\ PastCheck
  BY DEF Init, NoCall, ClosedOnce, PastCheck
<1>2. ASSUME IInv, ClosedOnce, PastCheck, [Next]_vars
      PROVE  ClosedOnce' /\ PastCheck'
  <2>1. CASE anchors' # anchors
    <3>1. PICK c \in Closers : CommitAnchor(c) /\ anchors' = anchors \cup {RowOf(c)}
      BY <1>2, <2>1, StepAddsRow
    <3>2. \A a \in anchors : ~(/\ a.profile = V1 /\ RowOf(c).profile = V1
                               /\ a.day = RowOf(c).day /\ a.prefix = RowOf(c).prefix)
      BY <1>2, <3>1 DEF CommitAnchor, PastCheck, ClosedAnchors, RowOf
    <3>3. ClosedOnce'
      BY <1>2, <3>1, <3>2 DEF ClosedOnce
    <3>4. closer'[c].phase = "done"
      BY <1>2, <3>1 DEF CommitAnchor, Finish, IInv, TypeOK, CloserState
    <3>5. PastCheck'
      BY <3>4 DEF Serial, PastCheck
    <3> QED
      BY <3>3, <3>5
  <2>2. CASE anchors' = anchors
    <3>1. ClosedOnce'
      BY <1>2, <2>2 DEF ClosedOnce
    <3>2. \A day, prefix : ClosedAnchors(day, prefix)' = ClosedAnchors(day, prefix)
      BY <2>2 DEF ClosedAnchors
    <3>3. CASE closer' = closer
      BY <1>2, <2>2, <3>1, <3>3 DEF PastCheck, ClosedAnchors
    <3>4. ASSUME NEW c \in Closers, BeginClose(c) PROVE PastCheck'
      BY <1>2, <3>4, BeginCollects DEF Serial, PastCheck
    <3>5. ASSUME NEW c \in Closers, CloseStep(c) \/ AbortClose(c) PROVE PastCheck'
      <4>1. /\ closer'[c].day = closer[c].day
            /\ closer'[c].prefix = closer[c].prefix
            /\ closer'[c].profile = closer[c].profile
        BY <1>2, <3>5, StepKeepsCollected
      <4>2. closer'[c].phase \in {"cleared", "reuse", "insert", "flushed"} =>
              \/ closer[c].phase \in {"cleared", "reuse", "insert", "flushed"}
              \/ ClosedAnchors(closer[c].day, closer[c].prefix) = {}
        BY <1>2, <3>5, OpenDaysPass
      <4> QED
        BY <1>2, <2>2, <4>1, <4>2 DEF Serial, PastCheck, ClosedAnchors
    <3> QED
      <4>1. PastCheck'
        BY <1>2, <3>3, <3>4, <3>5 DEF Next, vars, Finalize, Tamper
      <4> QED
        BY <3>1, <4>1
  <2> QED
    BY <2>1, <2>2
<1> QED
  BY <1>1, <1>2, Invariance, PTL DEF Spec

\* A closed day and prefix has one V1 snapshot, as long as calls of
\* anchor_day_from_db do not overlap (they can: see README).
THEOREM SerialClosedOnce == Serial => (Spec => []ClosedOnce)
BY SerialInvariance, PTL

\* Under the same assumption verify_day finds exactly the anchor that
\* anchor_day returned, and recomputes its root.
THEOREM SerialCloseThenVerify == Serial => (Spec => []CloseThenVerify)
<1>1. ASSUME IInv, ClosedOnce PROVE CloseThenVerify
  <2> SUFFICES ASSUME NEW c \in Closers, closer[c].outcome = "anchored",
                      closer[c].profile = V1
               PROVE  \E a \in anchors :
                        /\ VerifyTargets(closer[c].day, closer[c].prefix) = {a}
                        /\ a.root = RowOf(c).root
                        /\ Sealed(a)
    BY DEF CloseThenVerify
  <2>1. PICK a \in anchors : SameIdentity(a, RowOf(c))
    BY <1>1 DEF IInv, AnchoredMeansStored
  <2>2. Sealed(a)
    BY <1>1 DEF IInv, TableInv
  <2>3. a \in ClosedAnchors(closer[c].day, closer[c].prefix) /\ a.root = RowOf(c).root
    BY <2>1, <2>2, SameIdentitySameMembers DEF ClosedAnchors, SameIdentity, RowOf
  <2>4. ClosedAnchors(closer[c].day, closer[c].prefix) = {a}
    BY <1>1, <2>3 DEF ClosedOnce, ClosedAnchors
  <2> QED
    BY <2>2, <2>3, <2>4 DEF VerifyTargets
<1> QED
  BY <1>1, Invariance, SerialInvariance, PTL

-----------------------------------------------------------------------------
(***************************************************************************)
(* How far ClosedOnce can fail: every snapshot of a day has used up one of *)
(* the calls that were past the check.                                     *)
(***************************************************************************)
PastCheckOf(day, prefix) ==
    {c \in Closers : /\ closer[c].phase \in {"cleared", "reuse", "insert", "flushed"}
                     /\ closer[c].profile = V1
                     /\ closer[c].day = day /\ closer[c].prefix = prefix}

SlotsLeft(day, prefix) ==
    /\ IsFiniteSet(ClosedAnchors(day, prefix))
    /\ Cardinality(ClosedAnchors(day, prefix)) + Cardinality(PastCheckOf(day, prefix))
         <= Cardinality(Closers)

\* While nothing is committed, more calls pass the check only on a day that is
\* not closed.
LEMMA CallsPassOpenDays ==
  ASSUME IInv, [Next]_vars, anchors' = anchors, NEW day \in Days, NEW prefix \in Prefixes
  PROVE  \/ PastCheckOf(day, prefix)' \subseteq PastCheckOf(day, prefix)
         \/ ClosedAnchors(day, prefix) = {}
<1>1. CASE closer' = closer
  BY <1>1 DEF PastCheckOf
<1>2. ASSUME NEW c \in Closers, BeginClose(c)
      PROVE  PastCheckOf(day, prefix)' \subseteq PastCheckOf(day, prefix)
  BY <1>2, BeginCollects DEF PastCheckOf
<1>3. ASSUME NEW c \in Closers, CloseStep(c) \/ AbortClose(c)
      PROVE  \/ PastCheckOf(day, prefix)' \subseteq PastCheckOf(day, prefix)
             \/ ClosedAnchors(day, prefix) = {}
  <2>1. /\ closer'[c].day = closer[c].day
        /\ closer'[c].prefix = closer[c].prefix
        /\ closer'[c].profile = closer[c].profile
        /\ \A d \in Closers \ {c} : closer'[d] = closer[d]
    BY <1>3, StepKeepsCollected
  <2>2. closer'[c].phase \in {"cleared", "reuse", "insert", "flushed"} =>
          \/ closer[c].phase \in {"cleared", "reuse", "insert", "flushed"}
          \/ ClosedAnchors(closer[c].day, closer[c].prefix) = {}
    BY <1>3, OpenDaysPass
  <2> QED
    BY <2>1, <2>2 DEF PastCheckOf
<1> QED
  BY <1>1, <1>2, <1>3 DEF Next, vars, Finalize, Tamper

LEMMA SlotsStep ==
  ASSUME IsFiniteSet(Closers), IInv, [Next]_vars, NEW day \in Days, NEW prefix \in Prefixes,
         SlotsLeft(day, prefix)
  PROVE  SlotsLeft(day, prefix)'
<1> DEFINE closed == ClosedAnchors(day, prefix)
           past == PastCheckOf(day, prefix)
<1>1. past \in SUBSET Closers /\ past' \in SUBSET Closers
  BY DEF PastCheckOf
<1>2. /\ IsFiniteSet(closed) /\ Cardinality(closed) + Cardinality(past) <= Cardinality(Closers)
  BY DEF SlotsLeft
<1>3. /\ IsFiniteSet(past) /\ IsFiniteSet(past') /\ Cardinality(past') <= Cardinality(Closers)
      /\ Cardinality(past) \in Nat /\ Cardinality(past') \in Nat
      /\ Cardinality(closed) \in Nat /\ Cardinality(Closers) \in Nat
  BY <1>1, <1>2, FS_Subset, FS_CardinalityType
<1>4. CASE anchors' = anchors
  <2>1. closed' = closed
    BY <1>4 DEF ClosedAnchors
  <2>2. past' \subseteq past \/ closed = {}
    BY <1>4, CallsPassOpenDays
  <2>3. CASE past' \subseteq past
    <3>1. Cardinality(past') <= Cardinality(past)
      BY <1>3, <2>3, FS_Subset
    <3> HIDE DEF past, closed
    <3>2. Cardinality(closed') + Cardinality(past') <= Cardinality(Closers)
      BY <1>2, <1>3, <2>1, <3>1
    <3> QED
      BY <1>2, <2>1, <3>2 DEF SlotsLeft, past, closed
  <2>4. CASE closed = {}
    <3>1. Cardinality(closed) = 0
      BY <2>4, FS_EmptySet
    <3> HIDE DEF past, closed
    <3>2. Cardinality(closed') + Cardinality(past') <= Cardinality(Closers)
      BY <1>3, <2>1, <3>1
    <3> QED
      BY <1>2, <2>1, <3>2 DEF SlotsLeft, past, closed
  <2> QED
    BY <2>2, <2>3, <2>4
<1>5. CASE anchors' # anchors
  <2>1. PICK c \in Closers : CommitAnchor(c) /\ anchors' = anchors \cup {RowOf(c)}
    BY <1>5, StepAddsRow
  <2>2. /\ closer[c].phase = "flushed" /\ closer'[c].phase = "done"
        /\ \A d \in Closers \ {c} : closer'[d] = closer[d]
    BY <2>1 DEF CommitAnchor, Finish, IInv, TypeOK, CloserState
  <2>3. RowOf(c) \notin anchors
    BY <1>5, <2>1
  <2>4. CASE c \in past
    <3>1. past' = past \ {c}
      BY <2>2 DEF PastCheckOf
    <3>2. closed' = closed \cup {RowOf(c)} /\ RowOf(c) \notin closed
      BY <2>1, <2>3, <2>4 DEF ClosedAnchors, PastCheckOf, RowOf
    <3>3. /\ IsFiniteSet(closed') /\ Cardinality(closed') = Cardinality(closed) + 1
          /\ Cardinality(past') = Cardinality(past) - 1
      BY <1>2, <1>3, <2>4, <3>1, <3>2, FS_AddElement, FS_RemoveElement
    <3> HIDE DEF past, closed
    <3>4. Cardinality(closed') + Cardinality(past') <= Cardinality(Closers)
      BY <1>2, <1>3, <3>3
    <3> QED
      BY <3>3, <3>4 DEF SlotsLeft, past, closed
  <2>5. CASE c \notin past
    <3>1. past' = past
      BY <2>2, <2>5 DEF PastCheckOf
    <3>2. closed' = closed
      BY <2>1, <2>2, <2>5 DEF ClosedAnchors, PastCheckOf, RowOf
    <3> QED
      BY <1>2, <3>1, <3>2 DEF SlotsLeft
  <2> QED
    BY <2>4, <2>5
<1> QED
  BY <1>4, <1>5

\* However many calls of anchor_day_from_db overlap, a day and prefix gets at
\* most one V1 snapshot for each of the callers.
THEOREM SnapshotsBounded == IsFiniteSet(Closers) => (Spec => []SnapshotsBoundedByClosers)
<1> SUFFICES ASSUME IsFiniteSet(Closers) PROVE Spec => []SnapshotsBoundedByClosers
  OBVIOUS
<1> DEFINE Slots == \A day \in Days, prefix \in Prefixes : SlotsLeft(day, prefix)
<1>1. Init => Slots
  <2> SUFFICES ASSUME Init, NEW day \in Days, NEW prefix \in Prefixes
               PROVE  SlotsLeft(day, prefix)
    OBVIOUS
  <2>1. ClosedAnchors(day, prefix) = {} /\ PastCheckOf(day, prefix) = {}
    BY DEF Init, NoCall, ClosedAnchors, PastCheckOf
  <2>2. Cardinality(Closers) \in Nat
    BY FS_CardinalityType
  <2> QED
    BY <2>1, <2>2, FS_EmptySet DEF SlotsLeft
<1>2. ASSUME IInv, Slots, [Next]_vars
      PROVE  Slots'
  BY <1>2, SlotsStep
<1>3. Slots => SnapshotsBoundedByClosers
  <2> SUFFICES ASSUME NEW day \in Days, NEW prefix \in Prefixes, SlotsLeft(day, prefix)
               PROVE  Cardinality(ClosedAnchors(day, prefix)) <= Cardinality(Closers)
    BY DEF SnapshotsBoundedByClosers
  <2>1. PastCheckOf(day, prefix) \in SUBSET Closers
    BY DEF PastCheckOf
  <2>2. /\ Cardinality(PastCheckOf(day, prefix)) \in Nat /\ Cardinality(Closers) \in Nat
        /\ Cardinality(ClosedAnchors(day, prefix)) \in Nat
    BY <2>1, FS_Subset, FS_CardinalityType DEF SlotsLeft
  <2> QED
    BY <2>2 DEF SlotsLeft
<1> QED
  BY <1>1, <1>2, <1>3, Invariance, PTL DEF Spec
=============================================================================
