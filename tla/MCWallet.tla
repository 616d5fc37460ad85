------------------------------ MODULE MCWallet ------------------------------
(* Small instances of Wallet for TLC. *)
EXTENDS Wallet, TLC

CONSTANTS u1, u2, t1, t2, s1, s2, s3, r1, r2, e1, k1, k2, g1

RequestSymmetry == Permutations(Requests)

MCOwner == [t \in Topups |-> IF t = t1 THEN u1 ELSE IF u2 \in Users THEN u2 ELSE u1]
MCCredit == [t \in Topups |-> IF t = t1 THEN 2 ELSE 1]
\* s1 and s2 are two slips of the same transfer.
MCSlipRef == [s \in Slips |-> IF s = s3 THEN r2 ELSE r1]
MCCost == [S \in SUBSET Items |-> Cardinality(S)]
MCGiftUser == [k \in GiftKeys |-> u1]
\* A clawback.
MCGiftAmount == [k \in GiftKeys |-> -1]
=============================================================================
