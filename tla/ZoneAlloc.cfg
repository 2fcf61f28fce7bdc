CHECK_DEADLOCK FALSE
SPECIFICATION FairSpec
CONSTANTS
    Threads = {t1, t2}
    Slabs = {s1, s2, s3}
    NElem = 3
    MaxCalls = 5
    Null = Null
    Data = Data
INVARIANTS ZoneInv
PROPERTIES AllocatesZeroed IsStack CallsReturn
