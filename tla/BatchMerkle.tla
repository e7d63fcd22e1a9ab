----------------------------- MODULE BatchMerkle -----------------------------
(***************************************************************************)
(* The Merkle trees: the meter tree (src/merkle.py), and the commitment    *)
(* and the membership proofs of the V1 profile (src/batch_merkle.py).      *)
(*                                                                         *)
(* SHA-256 is injective, so a hash is the tuple of what was hashed, and    *)
(* the prefix byte of a hash is the length of its tuple: a leaf of a       *)
(* stream has 3 elements, an inner node 2, a leaf of a batch 4.            *)
(***************************************************************************)
EXTENDS Integers, Sequences, FiniteSets

CONSTANTS
    Sessions,   \* session ids: numbers, in the order of the normalized texts
    Nfc,        \* normal form of a session id: a number as well
    DayLength   \* length of a UTC day; day d is d * DayLength .. (d+1) * DayLength - 1

ASSUME MerkleConstants ==
    /\ Sessions \subseteq Nat
    /\ Nfc \in [Sessions -> Nat]
    /\ DayLength \in Nat \ {0}

\* A sequence as it is; TLC evaluates each of its elements once.
Evaluated(s) == s \o <<>>

\* The members of S in the order Before, which is total on S.
Arranged(S, Before(_, _)) ==
    Evaluated([i \in 1..Cardinality(S) |->
                 CHOOSE x \in S : Cardinality({y \in S : Before(y, x)}) = i - 1])

-----------------------------------------------------------------------------
(***************************************************************************)
(* Trees.  A level is a sequence of hashes.                                *)
(***************************************************************************)
\* The next level: the last node of an odd level is paired with itself.
Above(level) ==
    Evaluated([i \in 1..((Len(level) + 1) \div 2) |->
                 <<level[2 * i - 1], level[IF 2 * i <= Len(level) THEN 2 * i ELSE Len(level)]>>])

\* Level n of the tree over the leaves; the top level stays as it is.
Level(leaves) ==
    LET level[n \in 0..Len(leaves)] ==
          IF n = 0 THEN leaves
          ELSE LET below == level[n - 1]
               IN  IF Len(below) = 1 THEN below ELSE Above(below)
    IN  level

TreeRoot(leaves) == Level(leaves)[Len(leaves)][1]

\* Number of levels below the root.
Depth(leaves) ==
    CHOOSE n \in 0..Len(leaves) :
      /\ Len(Level(leaves)[n]) = 1
      /\ \A k \in 0..(n - 1) : Len(Level(leaves)[k]) > 1

-----------------------------------------------------------------------------
(***************************************************************************)
(* Commitments.  A record is what a receipt row says: session, start (an   *)
(* instant) and receipt hash.                                              *)
(***************************************************************************)
Context(day) == [day |-> day, from |-> day * DayLength, to |-> (day + 1) * DayLength]

\* validate_context; the other fields are frozen by the profile.
ValidContext(context) == context = Context(context.day)

\* Fault: the leaf leaves the start out.
LeafHashWithoutStart(context, r) == <<context, r.session, 0, r.hash>>

LeafHash(context, r) == <<context, r.session, r.start, r.hash>>
RootHash(context, count, tree) == <<context, count, tree>>

\* Fault: the leaves are ordered by session only.
EarlierBySession(r, q) == r.session < q.session

Earlier(r, q) == r.start < q.start \/ (r.start = q.start /\ r.session < q.session)

Normalized(records) == {[r EXCEPT !.session = Nfc[r.session]] : r \in records}

\* build_batch_commitment rejects an empty batch and two equal sessions.
\* (Two equal receipt hashes would be of one session.)
Buildable(records) ==
    /\ records # {}
    /\ \A r, q \in records : Nfc[r.session] = Nfc[q.session] => r = q

\* The commitment to records whose sessions are normalized.
Commitment(normalized, context) ==
    LET ordered == Arranged(normalized, Earlier)
        leaves == Evaluated([i \in DOMAIN ordered |-> LeafHash(context, ordered[i])])
    IN  [context |-> context, records |-> ordered, leaves |-> leaves,
         tree |-> TreeRoot(leaves),
         root |-> RootHash(context, Len(leaves), TreeRoot(leaves))]

-----------------------------------------------------------------------------
(***************************************************************************)
(* Membership proofs.  Positions count from 0, as leaf_index does.         *)
(***************************************************************************)
\* Fault: a node at the end of a level is taken to have a right sibling
\* whenever the number of leaves is even.
SiblingByLeafCount(level, cursor, leaves) ==
    IF cursor % 2 = 1
    THEN [hash |-> level[cursor], side |-> "left", odd |-> FALSE]
    ELSE [hash |-> level[IF cursor + 1 < Len(level) THEN cursor + 2 ELSE cursor + 1],
          side |-> "right", odd |-> cursor + 1 = leaves]

\* The sibling of the node at the cursor.
Sibling(level, cursor, leaves) ==
    IF cursor % 2 = 1
    THEN [hash |-> level[cursor], side |-> "left", odd |-> FALSE]
    ELSE LET paired == cursor + 1 < Len(level)
         IN  [hash |-> level[IF paired THEN cursor + 2 ELSE cursor + 1],
              side |-> "right", odd |-> ~paired]

\* Where the path from a leaf to the root passes the levels.
Cursors(index, levels) ==
    LET cursor[n \in 0..levels] == IF n = 0 THEN index ELSE cursor[n - 1] \div 2
    IN  cursor

\* generate_membership_proof of the record at a position.
Proof(c, index) ==
    [context |-> c.context, count |-> Len(c.leaves), index |-> index,
     record |-> c.records[index + 1], leaf |-> c.leaves[index + 1],
     siblings |-> [n \in 1..Depth(c.leaves) |->
                     Sibling(Level(c.leaves)[n - 1],
                             Cursors(index, Depth(c.leaves))[n - 1], Len(c.leaves))],
     root |-> c.root]

\* One turn of the loop in verify_membership_proof, at a node of a level of
\* the given width.
Climb(at, sibling) ==
    LET odd == at.cursor % 2 = 0 /\ at.cursor + 1 >= at.width
    IN  [ok |-> at.ok /\ sibling.odd = odd /\ (odd => sibling.hash = at.node),
         node |-> IF sibling.side = "left" THEN <<sibling.hash, at.node>>
                                           ELSE <<at.node, sibling.hash>>,
         cursor |-> at.cursor \div 2,
         width |-> (at.width + 1) \div 2]

Climbed(proof) ==
    LET at[n \in 0..Len(proof.siblings)] ==
          IF n = 0
          THEN [ok |-> TRUE, node |-> LeafHash(proof.context, proof.record),
                cursor |-> proof.index, width |-> proof.count]
          ELSE Climb(at[n - 1], proof.siblings[n])
    IN  at[Len(proof.siblings)]

\* verify_membership_proof against a root (without one, the proof's own).
ProofVerifies(proof, root) ==
    /\ ValidContext(proof.context)
    /\ LeafHash(proof.context, proof.record) = proof.leaf
    /\ proof.index \in 0..(proof.count - 1)
    /\ Climbed(proof).ok
    /\ RootHash(proof.context, proof.count, Climbed(proof).node) = root
=============================================================================
