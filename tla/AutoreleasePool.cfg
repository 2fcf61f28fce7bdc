SPECIFICATION Spec
CONSTANTS
  a = a
  b = b
  Nil = Nil
  Wild = Wild
  Objects <- MCObjects
  Custom <- MCCustom
  maxCount = 1
  Settings <- MCSettings
  PoolsWhileBlocked = FALSE
  DestructorRounds = 4
  MaxCalls = 6
  MaxDepth = 5
INVARIANTS PoolInv Conserved IfSuffices
PROPERTIES BelowUntouched
