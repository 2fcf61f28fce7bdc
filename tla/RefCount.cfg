SPECIFICATION FairSpec
CONSTANTS
  t1 = t1
  t2 = t2
  Threads <- MCThreads
  None = None
  ClientOps <- MCAll
  ExtraMax = 3
  SideMod = 32
  MaxOwn = 3
INVARIANTS RefCountInv CountsReferences HeldIsLive
PROPERTIES UnheldIsFreed CountIsAtomic
