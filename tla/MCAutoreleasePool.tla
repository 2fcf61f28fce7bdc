-------------------------- MODULE MCAutoreleasePool --------------------------
(* Two objects, one of a class that overrides -autorelease; the program's  *)
(* settings are chosen at the start.                                       *)
EXTENDS AutoreleasePool, TLC

CONSTANTS a, b

MCObjects == {a, b}
MCCustom == {b}

Setting(size, coalescing, elision, perPool, missing, uninitialized) ==
  [PageSize |-> size, Coalescing |-> coalescing, Elision |-> elision,
   DebugPoolAllocation |-> perPool, DebugMissingPools |-> missing, Uninitialized |-> uninitialized]

\* As shipped, with larger pages, and with smaller pages and classes yet to be
\* initialized; with the older coalescing; with a page for every pool; with missing
\* pools reported.
MCSettings ==
  {Setting(4, "lru", TRUE, FALSE, FALSE, {}), Setting(2, "lru", TRUE, FALSE, FALSE, {a, b}),
   Setting(3, "last", TRUE, FALSE, FALSE, {}),
   Setting(2, "none", FALSE, TRUE, FALSE, {}), Setting(2, "lru", FALSE, FALSE, TRUE, {})}
=============================================================================
