CHECK_DEADLOCK FALSE
SYMMETRY SyncSymmetry
SPECIFICATION Spec
CONSTANTS
    Threads = {t1, t2}
    Objects = {a, b}
    Blocks = {d1, d2, d3}
    Ops = {"enter", "try", "exit", "strayExit", "threadExit"}
    MaxLock = 2
    MaxThreadCount = 3
    None = None
INVARIANTS SyncInv MutualExclusion BalancedExitSucceeds WaitsOnlyForItsObject
PROPERTIES CachedBlocksKeepTheirObject
