SPECIFICATION Spec
CONSTANTS
  t1 = t1
  t2 = t2
  a = a
  b = b
  l1 = l1
  l2 = l2
  Nil = Nil
  None = None
  Threads <- MCThreads
  Objects <- MCObjects
  Locations <- MCLocations
  TableOf <- MCTableOf
  ClientOps <- MCCalls
SYMMETRY Symmetry
INVARIANTS WeakInv NeverDangles HeldIsLive
