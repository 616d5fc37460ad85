--------------------------- MODULE MCPluginTokens ---------------------------
(* Small instances of PluginTokens for TLC. *)
EXTENDS PluginTokens, TLC

CONSTANTS c1, c2, p1, p2, p3, r1, r2, r3

Symmetry == Permutations(Consents) \cup Permutations(Pairs) \cup Permutations(Requests)

=============================================================================
