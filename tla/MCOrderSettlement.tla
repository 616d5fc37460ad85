------------------------- MODULE MCOrderSettlement -------------------------
(* Small instances of OrderSettlement for TLC. *)
EXTENDS OrderSettlement, FiniteSetsExt, TLC

CONSTANTS s1, s2, k1

RequestSymmetry == Permutations(Requests)
OrderAndRequestSymmetry == Permutations(Requests) \cup Permutations(Orders)

\* s1 and s2 are slips of two transfers when there are two references.
MCSlipRef == [s \in Slips |-> IF s = s1 \/ Cardinality(Refs) = 1 THEN CHOOSE r \in Refs : TRUE
                              ELSE CHOOSE r \in Refs : r # CHOOSE x \in Refs : TRUE]
MCCovers == [p \in Packages |-> IF p = k1 THEN Chapters ELSE {}]
\* k1 earns a point when it is paid without a discount, k2 never does.
MCSubtotal == [S \in SUBSET Packages |-> MapThenSumSet(LAMBDA p : IF p = k1 THEN 2 ELSE 1, S)]
MCDiscount == [c \in Coupons |-> 1]
\* An administrator takes a point away.
MCAdjustments == {-1}
MCMaxUses == [c \in Coupons |-> 1]
=============================================================================
