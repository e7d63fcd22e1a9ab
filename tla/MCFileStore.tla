----------------------------- MODULE MCFileStore -----------------------------
(***************************************************************************)
(* Model values for FileStore: two sessions, two receipts of the first day *)
(* and one of the second.  The receipts p1 of the first day have hashes in *)
(* the order of the session ids, the receipts p2 in the opposite order.    *)
(***************************************************************************)
EXTENDS FileStore, TLC

CONSTANTS p1, p2, p3

MCDayOf == [p \in Payloads |-> IF p = p3 THEN 2 ELSE 1]
MCHashOf == (<<1, p1>> :> 2) @@ (<<2, p1>> :> 3) @@ (<<1, p2>> :> 6) @@ (<<2, p2>> :> 1)
              @@ (<<1, p3>> :> 4) @@ (<<2, p3>> :> 5)
MCScope == [prefix \in Prefixes |-> IF prefix = NoPrefix THEN Sessions ELSE {1}]
MCSymmetry == Permutations(Requests)
=============================================================================
