----------------------------- MODULE MCSessions -----------------------------
(***************************************************************************)
(* Instances of Sessions for TLC.  Only sessions that log in are           *)
(* interchangeable, and requests; the legacy cookie l1 is not.             *)
(***************************************************************************)
EXTENDS Sessions, TLC

CONSTANTS l1, v1, v2, v3, r1, r2

RequestSymmetry == Permutations({r1, r2})
SessionSymmetry == Permutations({v1, v2, v3}) \cup Permutations({r1, r2})

=============================================================================
