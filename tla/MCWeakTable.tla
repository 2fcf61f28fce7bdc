---------------------------- MODULE MCWeakTable -----------------------------
(* A small instance of WeakTable for TLC.  The objects all collide at the  *)
(* end of the tables and two of the variables at the beginning, or the     *)
(* other way round.                                                        *)
EXTENDS WeakTable, TLC

MCHashFunctions == {h \in [Objects \cup Referrers -> {0, 3}]:
    /\ (\A o \in Objects: h[o] = 3) \/ (\A l \in Referrers: h[l] = 3)
    /\ Cardinality({x \in DOMAIN h: h[x] = 0}) \in {0, 2}}

\* Objects and variables are interchangeable: HashFunctions is closed under both.
TableSymmetry == Permutations(Objects) \cup Permutations(Referrers)
=============================================================================
