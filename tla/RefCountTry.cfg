SPECIFICATION Spec
CONSTANTS
  t1 = t1
  t2 = t2
  Threads <- MCThreads
  None = None
  ClientOps <- MCWeak
  ExtraMax = 3
  SideMod = 32
  MaxOwn = 4
SYMMETRY MCSymmetry
INVARIANTS TryRetainKeepsLock
