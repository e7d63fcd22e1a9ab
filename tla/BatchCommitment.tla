-------------------------- MODULE BatchCommitment --------------------------
(***************************************************************************)
(* The data a closed batch commits to (src/batch_merkle.py and the legacy  *)
(* root of src/batch_anchoring.py), as far as the database protocols       *)
(* around it can tell batches apart.                                       *)
(*                                                                         *)
(* SHA-256 is taken to be injective.  A receipt hash covers the session    *)
(* id, the start timestamp and the rest of the receipt, so a leaf is the   *)
(* record of those three; the order of the leaves is a function of the     *)
(* set (timestamp, then session id; or the sorted hash), so a root is      *)
(* determined by the set of leaves and, in profile V1, by the UTC window   *)
(* of the day that the context hash covers.                                *)
(***************************************************************************)
EXTENDS Naturals, FiniteSets

CONSTANTS
    Sessions,   \* charging sessions (primary key of sessions and receipts)
    Starts,     \* instants at which a session may start
    Bodies,     \* everything else a receipt says
    Days,       \* UTC days that can be anchored
    Prefixes,   \* session prefixes; one of them may stand for "no prefix"
    DayOf,      \* UTC day whose window contains an instant
    Scope       \* sessions that a prefix selects

ASSUME DayOfType == DayOf \in [Starts -> Days]
ASSUME ScopeType == Scope \in [Prefixes -> SUBSET Sessions]
ASSUME SessionsFinite == IsFiniteSet(Sessions)

V1 == "poc-batch-merkle-v1"
Legacy == "legacy-hash-sort-v0"
Profiles == {V1, Legacy}

Leaf == [session : Sessions, start : Starts, body : Bodies]

(***************************************************************************)
(* The batch root.  V1 wraps the tree root with the context hash (and the  *)
(* leaf count, which the set fixes); the legacy root hashes the receipt    *)
(* hashes alone, so the same leaves give the same root for every day.      *)
(***************************************************************************)
AnyDay == "any-day"
Root == [profile : Profiles, day : Days \cup {AnyDay}, leaves : SUBSET Leaf]

CommitRoot(profile, day, leaves) ==
    [profile |-> profile,
     day     |-> IF profile = V1 THEN day ELSE AnyDay,
     leaves  |-> leaves]

(***************************************************************************)
(* A row of batch_anchors together with its batch_anchor_receipts rows.    *)
(***************************************************************************)
AnchorRow ==
    [id : Nat, day : Days, prefix : Prefixes, profile : Profiles,
     root : Root, count : Nat, members : SUBSET Leaf]

\* The unique constraint uq_batch_anchor.
SameIdentity(a, b) ==
    /\ a.day = b.day
    /\ a.prefix = b.prefix
    /\ a.root = b.root

(***************************************************************************)
(* What recomputing an anchor from its own stored membership rows checks   *)
(* (the "match" of a verification).                                        *)
(***************************************************************************)
Sealed(a) ==
    /\ a.root = CommitRoot(a.profile, a.day, a.members)
    /\ a.count = Cardinality(a.members)
    /\ a.members # {}
=============================================================================
