---------------------------- MODULE MCRefCount ----------------------------
(* Constants for model-checking RefCount. *)
EXTENDS RefCount, TLC

CONSTANTS t1, t2

MCThreads == {t1, t2}

\* Every call, and the calls of an object that keeps its isa.
MCAll == AllOps
MCWeak == {"retain", "release", "loadWeak", "initWeak"}

MCSymmetry == Permutations(Threads)
=============================================================================
