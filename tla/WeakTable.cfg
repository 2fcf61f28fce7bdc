SYMMETRY TableSymmetry
SPECIFICATION Spec
CONSTANTS
    Objects = {a, b, c}
    Referrers = {v1, v2, v3, v4}
    Nil = Nil
    HashFunctions <- MCHashFunctions
    WEAK_INLINE_COUNT = 2
    FirstSize = 2
    CompactSize = 4
    CompactLoad = 4
    CompactBy = 2
INVARIANTS WeakTableInv ListsItsVariables
