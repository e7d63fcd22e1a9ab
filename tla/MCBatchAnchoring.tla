-------------------------- MODULE MCBatchAnchoring --------------------------
(***************************************************************************)
(* Model values for BatchAnchoring: "t1" and "u1" lie in the first UTC     *)
(* day, "t2" in the second; the prefix "run" selects the sessions of one   *)
(* run while "" selects all of them.                                       *)
(***************************************************************************)
EXTENDS BatchAnchoring

CONSTANTS s1, s2, s3

MCStarts == {"t1", "u1", "t2"}
MCDayOf == [t \in MCStarts |-> IF t = "t2" THEN "day2" ELSE "day1"]
MCScope == [p \in Prefixes |-> IF p = "" THEN Sessions ELSE {s1}]

MCStartsOneDay == {"t1"}
MCDayOfOneDay == [t \in MCStartsOneDay |-> "day1"]
=============================================================================
