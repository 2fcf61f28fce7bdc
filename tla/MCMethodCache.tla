--------------------------- MODULE MCMethodCache ----------------------------
(* Instances of MethodCache for TLC.                                       *)
EXTENDS MethodCache, TLC

CONSTANTS t1, t2, a, b, c

TwoThreads == {t1, t2}
ThreeSelectors == {a, b, c}
OneSelector == {a}

\* a and c collide in a cache of 2 and, with b, wrap around in one of 4.
Addresses == (a :> 3) @@ (b :> 2) @@ (c :> 7)

x86_64 == [packed |-> FALSE, restartable |-> FALSE, init |-> 4, max |-> 8, full |-> 4, threshold |-> 4]
arm64 == [packed |-> TRUE, restartable |-> TRUE, init |-> 2, max |-> 4, full |-> 4, threshold |-> 2]
BothBuilds == {x86_64, arm64}

ThreeBuffers == 1 .. 3
ThreadSymmetry == Permutations(Threads)
=============================================================================
