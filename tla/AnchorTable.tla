---------------------------- MODULE AnchorTable ----------------------------
(***************************************************************************)
(* What closing batches promises to everything downstream of it            *)
(* (verification, publication, proofs, audits): a table of anchors that    *)
(* only grows, each row sealing a non-empty set of receipts of its own day *)
(* and prefix, at most one row per (day, prefix, root), and no committed   *)
(* row or membership row ever changed or removed.                          *)
(*                                                                         *)
(* BatchAnchoring implements this specification (BatchAnchoringProofs).    *)
(***************************************************************************)
EXTENDS BatchCommitment

VARIABLE anchors

Init == anchors = {}

\* Every receipt an anchor commits to starts in the anchor's UTC window and
\* belongs to a session its prefix selects.
InWindow(a) ==
    \A m \in a.members : DayOf[m.start] = a.day /\ m.session \in Scope[a.prefix]

AppendRow(a) ==
    /\ a \in AnchorRow
    /\ Sealed(a)
    /\ InWindow(a)
    /\ \A b \in anchors : b.id # a.id /\ ~SameIdentity(a, b)
    /\ anchors' = anchors \cup {a}

Next == \E a \in anchors' : a \notin anchors /\ AppendRow(a)

Spec == Init /\ [][Next]_anchors
=============================================================================
