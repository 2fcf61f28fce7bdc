--------------------------- MODULE MCAssociations ---------------------------
(* Instances of Associations for TLC.                                      *)
EXTENDS Associations, TLC

CONSTANTS t1, t2, h1, k1, k2, v1, v2

AllPolicies == {ASSIGN, RETAIN_NONATOMIC, RETAIN, COPY, RETAIN_SYSTEM}

Symmetry == Permutations(Threads) \cup Permutations(Keys)
=============================================================================
