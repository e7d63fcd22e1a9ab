------------------------- MODULE MCChainPublication -------------------------
(***************************************************************************)
(* Model values for ChainPublication: keys of one day.                     *)
(***************************************************************************)
EXTENDS ChainPublication, TLC

CONSTANT Prefixes

MCKeys == {<<"day1", prefix>> : prefix \in Prefixes}
MCCountOf == [r \in Roots |-> 1]

MCSymmetry ==
    Permutations(Publishers) \cup Permutations(Roots)
      \cup Permutations(Addresses) \cup Permutations(Prefixes)
=============================================================================
