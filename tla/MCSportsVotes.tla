---------------------------- MODULE MCSportsVotes ----------------------------
(* Small instances of SportsVotes for TLC. *)
EXTENDS SportsVotes, TLC

CONSTANTS m1, m2, home, away, r1, r2, r3

Symmetry == Permutations(Requests) \cup Permutations(Results)

=============================================================================
