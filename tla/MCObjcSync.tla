----------------------------- MODULE MCObjcSync -----------------------------
(* Small instances of ObjcSync for TLC.                                    *)
EXTENDS ObjcSync, TLC

\* Threads, objects and blocks are interchangeable in Init, Next and the
\* properties checked.
SyncSymmetry == Permutations(Threads) \cup Permutations(Objects) \cup Permutations(Blocks)
=============================================================================
