----------------------------- MODULE MCWeakRefs -----------------------------
(* Two objects in two side tables; nil's table is the second object's. *)
EXTENDS WeakRefs, TLC

CONSTANTS t1, t2, a, b, l1, l2

MCThreads == {t1, t2}
MCObjects == {a, b}
MCLocations == {l1, l2}
MCTableOf == a :> 1 @@ b :> 2 @@ Nil :> 2
\* objc_initWeak and objc_storeWeakOrNil combine what these calls do already.
MCCalls == AllOps \ {"init", "storeOrNil"}
Symmetry == Permutations(MCThreads) \cup Permutations(MCLocations)
=============================================================================
