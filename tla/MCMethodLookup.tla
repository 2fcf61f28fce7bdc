--------------------------- MODULE MCMethodLookup ---------------------------
(* Small instances of MethodLookup.                                        *)
EXTENDS MethodLookup, TLC

CONSTANTS a, d

(* a is a class of an image, d a class pair not yet allocated.             *)
MCHierarchies == {(NSObject :> Nil) @@ (a :> NSObject) @@ (d :> Nil)}

NoMethods == [s \in Selectors |-> Nil]
MCBases == {NoMethods} \cup {[NoMethods EXCEPT !["poke"] = imp]: imp \in Imps}
MCCategories == {[NoMethods EXCEPT ![s] = imp]: s \in Selectors, imp \in Imps}

LookupSymmetry == Permutations(Threads) \cup Permutations(Imps)
=============================================================================
