SPECIFICATION Spec
CONSTANTS
    t1 = t1  t2 = t2  h1 = h1  k1 = k1  k2 = k2  v1 = v1  v2 = v2
    None = None
    Threads = {t1, t2}
    Hosts = {h1}
    Keys = {k1, k2}
    Values = {v1, v2}
    Owned = {v1}
    Policies <- AllPolicies
    MaxCalls = 4
    MaxDepth = 3
SYMMETRY Symmetry
INVARIANTS AssociationsInv CountsExact
