SPECIFICATION Spec
CONSTANTS
    Threads = {t1}
    NSObject = NSObject
    a = a  d = d
    Classes = {NSObject, a, d}
    Swift = {a}
    Pairs = {d}
    Selectors = {"retain", "poke"}
    RR = {"retain"}
    Builtin = builtin
    Imps = {p, q}
    Forward = forward
    Nil = Nil
    Hierarchies <- MCHierarchies
    Bases <- MCBases
    Categories <- MCCategories
    MaxChanges = 2
INVARIANTS TreeInv CachesAgree GetsItsMethod
SYMMETRY LookupSymmetry
CHECK_DEADLOCK FALSE
