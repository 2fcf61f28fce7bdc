------------------------- MODULE MethodCacheProofs --------------------------
(***************************************************************************)
(* Proof that the searches of objc_msgSend, which take no lock, are safe   *)
(* while other threads fill, flush, grow and collect the cache. Second     *)
(* part: searches end, entries are found, an insert finds a bucket, no     *)
(* buckets are lost, and the theorems.                                     *)
(***************************************************************************)
EXTENDS MethodCacheSteps, FiniteSetTheorems

\* The provers' time limits, for slow machines.
USE SMTT(30), ZenonT(30)

(* How many slots there are.                                               *)
LEMMA Interval ==
  ASSUME NEW m \in Nat
  PROVE  /\ IsFiniteSet(0 .. m) /\ Cardinality(0 .. m) = m + 1
         /\ Cardinality(0 .. (m - 1)) = m
<1>1. IsFiniteSet(0 .. m) /\ Cardinality(0 .. m) = IF 0 > m THEN 0 ELSE m - 0 + 1
  BY FS_Interval
<1>2. Cardinality(0 .. (m - 1)) = IF 0 > m - 1 THEN 0 ELSE (m - 1) - 0 + 1
  <2> DEFINE k == m - 1
  <2>1. k \in Int OBVIOUS
  <2> HIDE DEF k
  <2>2. Cardinality(0 .. k) = IF 0 > k THEN 0 ELSE k - 0 + 1 BY <2>1, FS_Interval
  <2> QED BY <2>2 DEF k
<1>3. ~(0 > m) OBVIOUS
<1>4. (IF 0 > m - 1 THEN 0 ELSE (m - 1) - 0 + 1) = m OBVIOUS
<1> QED BY <1>1, <1>2, <1>3, <1>4

USE Untyped

(* The inductive invariant holds.                                          *)
THEOREM CacheCore == Spec => []Core
<1>1. Init => Core BY CoreInit
<1>2. Core /\ [Next]_vars => Core' BY CoreStep
<1> QED BY <1>1, <1>2, PTL DEF Spec

(* A search reads only buckets that exist, whatever other threads fill,    *)
(* grow, flush and free meanwhile: the collector frees buckets only when   *)
(* no search can still be in them, and a search that combined an old mask  *)
(* with new buckets stays within the new ones (_collecting_in_critical,    *)
(* setBucketsAndMask, CacheLookup).                                        *)
THEOREM CacheSearchesAllocated == Spec => []SearchesAllocated
<1>1. Core => SearchesAllocated BY DEF Core, ThreadOK, Allocated, SearchesAllocated
<1> QED BY <1>1, CacheCore, PTL

(* What a send calls is an implementation of its own selector, never nil   *)
(* and never that of a selector in the same bucket (bucket_t::set,         *)
(* cache_t::insert).                                                       *)
THEOREM CacheHitIsRight == Spec => []HitIsRight
<1>1. Core => HitIsRight BY DEF Core, ThreadOK, Returns, HitIsRight
<1> QED BY <1>1, CacheCore, PTL

(* A send that starts after method_setImplementation returned never calls  *)
(* the implementation that was replaced, however often the cache was       *)
(* refilled meanwhile.  A change whose own search of the cache a signal    *)
(* interrupted (Finds) is the exception, until the cache is next emptied.  *)
THEOREM CacheFreshAfterChange == Spec => []FreshAfterChange
<1>1. Core => FreshAfterChange BY DEF Core, ThreadOK, Returns, FreshAfterChange
<1> QED BY <1>1, CacheCore, PTL

-----------------------------------------------------------------------------
(* A search goes forward.                                                  *)

(* The steps of other threads leave a search where it is, or end it.       *)
LEMMA OthersDoNotMove ==
  ASSUME Core, NEW t \in Threads, NEW w \in Threads \ {t}, Step(w)
  PROVE  r'[t] = r[t] /\ (pc'[t] = pc[t] \/ pc'[t] = "slow")
<1>0. pc \in [Threads -> Pcs] /\ r \in [Threads -> RegisterSet] BY DEF Core, TypeOK
<1> USE <1>0 DEF Goto
<1>1. ASSUME NEW sel \in Selectors, objc_msgSend(w, sel) \/ method_setImplementation(w, sel)
      PROVE  r'[t] = r[t] /\ pc'[t] = pc[t]
  BY <1>1 DEF objc_msgSend, method_setImplementation
<1>2. CASE _objc_flush_caches(w) \/ lookUpImpOrForward(w) \/ CollectALot(w) \/ Interrupted(w)
  BY <1>2 DEF _objc_flush_caches, lookUpImpOrForward, CollectALot, Interrupted, Miss, Leave
<1>3. CASE Search(w)
  <2>1. CASE ComparePacked(w) BY <2>1 DEF ComparePacked, Hit, Miss, Leave, Probe
  <2>2. CASE Classify(w) BY <2>2 DEF Classify, Miss, Leave, Probe
  <2>3. CASE LoadBuckets(w) \/ Compare(w) \/ CacheHit(w) \/ CallImp(w)
    BY <2>3 DEF LoadBuckets, Compare, CacheHit, CallImp, Hit, Leave
  <2> QED BY <1>3, <2>1, <2>2, <2>3 DEF Search
<1>4. CASE Write(w)
  <2>1. ASSUME NEW u \in Threads, CheckThread(w, u) PROVE r'[t] = r[t] /\ pc'[t] = pc[t]
    BY <2>1 DEF CheckThread
  <2>2. CASE insert(w) BY <2>2, ZenonT(30) DEF insert, reallocate
  <2>3. CASE SetBuckets(w) \/ SetMask(w) \/ SetSel(w) BY <2>3 DEF SetBuckets, SetMask, SetSel
  <2>4. CASE Place(w) BY <2>4 DEF Place
  <2>5. CASE eraseNolock(w) \/ Unlock(w) BY <2>5 DEF eraseNolock, Unlock, Leave
  <2>6. CASE collect_free(w) \/ Collect(w) BY <2>6 DEF collect_free, Collect
  <2>7. CASE CollectRestarting(w) BY <2>7 DEF CollectRestarting
  <2> QED BY <1>4, <2>1, <2>2, <2>3, <2>4, <2>5, <2>6, <2>7 DEF Write
<1> QED BY <1>1, <1>2, <1>3, <1>4 DEF Step

(* A search that goes on does so with a probe, down on arm64 and up on     *)
(* x86_64, once around the end.                                            *)
LEMMA OwnProbe ==
  ASSUME Core, NEW t \in Threads, Step(t), Dereferences(t), pc'[t] = "compare"
  PROVE  /\ mem' = mem
         /\ \/ /\ Packed
               /\ \/ Probe(t, r[t].i - 1, r[t].wrapped)
                  \/ ~r[t].wrapped /\ ~(r[t].i > 0) /\ Probe(t, r[t].mask, TRUE)
            \/ /\ ~Packed
               /\ \/ Probe(t, r[t].i + 1, r[t].wrapped)
                  \/ ~r[t].wrapped /\ Probe(t, 0, TRUE)
<1>0. pc \in [Threads -> Pcs] /\ r \in [Threads -> RegisterSet] /\ r[t] \in RegisterSet
      /\ pc[t] \in {"compare", "classify", "hit"} /\ r[t].wrapped \in BOOLEAN
  BY SearchFacts DEF Core, TypeOK, Dereferences
<1>1. ~Miss(t) /\ ~Hit(t) BY <1>0 DEF Miss, Hit, Leave, Goto
<1>2. CASE ComparePacked(t)
  <2>1. mem' = mem /\ Packed BY <1>2 DEF ComparePacked, ReadOnly
  <2>2. r[t].wrapped = TRUE \/ r[t].wrapped = FALSE BY <1>0
  <2> QED BY <1>1, <1>2, <2>1, <2>2, ZenonT(30) DEF ComparePacked
<1>3. CASE Classify(t)
  <2>1. mem' = mem /\ pc[t] = "classify" BY <1>3 DEF Classify, ReadOnly, At
  <2>2. ~Packed BY <2>1 DEF Core, ThreadOK, Reads
  <2> QED BY <1>1, <1>3, <2>1, <2>2, ZenonT(30) DEF Classify
<1>4. CASE Compare(t) BY <1>0, <1>4 DEF Compare, Goto
<1>5. CASE CacheHit(t) BY <1>1, <1>5 DEF CacheHit
<1>6. CASE Interrupted(t) BY <1>1, <1>6 DEF Interrupted
<1>7. ~LoadBuckets(t) /\ ~CallImp(t) /\ ~_objc_flush_caches(t) /\ ~lookUpImpOrForward(t)
      /\ ~CollectALot(t) /\ \A sel \in Selectors : ~objc_msgSend(t, sel) /\ ~method_setImplementation(t, sel)
  BY <1>0, ZenonT(30) DEF LoadBuckets, CallImp, _objc_flush_caches, lookUpImpOrForward, CollectALot, objc_msgSend,
              method_setImplementation, At
<1>8. ~Write(t)
  BY <1>0 DEF Write, insert, SetBuckets, SetMask, Place, SetSel, eraseNolock, Unlock, collect_free,
              CollectRestarting, Collect, CheckThread, At
<1> QED BY <1>2, <1>3, <1>4, <1>5, <1>6, <1>7, <1>8, ZenonT(30) DEF Step, Search

(* A probe is further from the hash than the one before it.                *)
LEMMA ProbeIsFurther ==
  ASSUME Core, NEW t \in Threads, Step(t), build' = build, Dereferences(t), pc'[t] = "compare"
  PROVE  Walked(t)' > Walked(t)
<1> DEFINE h == cache_hash(r[t].sel, r[t].mask)
           c == CapacityOf(r[t].buckets)
           i == r[t].i
           m == r[t].mask
<1>0. r \in [Threads -> RegisterSet] /\ r[t] \in RegisterSet BY DEF Core, TypeOK
<1>1. /\ r[t].buckets \in DOMAIN mem /\ i \in DOMAIN mem[r[t].buckets]
      /\ r[t].sel \in Selectors /\ m \in Nat /\ i \in Nat /\ r[t].wrapped \in BOOLEAN
  BY SearchFacts
<1>2. h \in Int /\ c \in Int /\ i < c
  <2>1. h \in 0 .. m BY <1>1, HashRange
  <2>2. c \in Nat /\ i < c BY <1>1, CapacityType
  <2> QED BY <2>1, <2>2
<1>3. mem' = mem BY OwnProbe, ZenonT(30)
<1>4. ASSUME NEW j, NEW w \in BOOLEAN, Probe(t, j, w)
      PROVE  /\ Walked(t) = IF Packed THEN IF r[t].wrapped THEN h + 1 + m - i ELSE h - i
                            ELSE IF r[t].wrapped THEN c - h + i ELSE i - h
             /\ Walked(t)' = IF Packed THEN IF w THEN h + 1 + m - j ELSE h - j
                             ELSE IF w THEN c - h + j ELSE j - h
  <2>1. /\ r'[t].sel = r[t].sel /\ r'[t].mask = m /\ r'[t].buckets = r[t].buckets
        /\ r'[t].i = j /\ r'[t].wrapped = w
    BY <1>0, <1>4 DEF Probe, RegisterSet
  <2>2. CapacityOf(r[t].buckets)' = c
    <3>1. r'[t].buckets = r[t].buckets BY <2>1
    <3> QED BY <1>3, <3>1 DEF CapacityOf
  <2>3. cache_hash(r[t].sel, r[t].mask)' = h BY <2>1 DEF cache_hash
  <2> QED BY <2>1, <2>2, <2>3, SameBuild DEF Walked
<1> HIDE DEF h, c, i, m
<1>5. CASE Packed /\ Probe(t, i - 1, r[t].wrapped)
  <2>1. i - 1 \in Int BY <1>1
  <2> QED BY <1>1, <1>2, <1>4, <1>5, <2>1
<1>6. CASE Packed /\ ~r[t].wrapped /\ ~(i > 0) /\ Probe(t, m, TRUE)
  <2>1. Walked(t) = h - i /\ Walked(t)' = h + 1 + m - m BY <1>4, <1>6, ZenonT(30)
  <2> QED BY <1>1, <1>2, <1>6, <2>1
<1>7. CASE ~Packed /\ Probe(t, i + 1, r[t].wrapped)
  BY <1>1, <1>2, <1>4, <1>7
<1>8. CASE ~Packed /\ ~r[t].wrapped /\ Probe(t, 0, TRUE)
  <2>1. Walked(t) = i - h /\ Walked(t)' = c - h + 0 BY <1>4, <1>8, ZenonT(30)
  <2> QED BY <1>1, <1>2, <2>1
<1> QED BY <1>5, <1>6, <1>7, <1>8, OwnProbe, ZenonT(30) DEF i, m

(* A search only ever goes on to buckets further from its hash, also in a  *)
(* full cache and when it combined an old mask with new buckets: it ends,  *)
(* whatever the writers do (CacheLookup).                                  *)
THEOREM CacheSearchAdvances == Spec => SearchAdvances
<1> DEFINE Advances == \A t \in Threads :
                Dereferences(t) /\ pc'[t] = "compare" /\ (r'[t] # r[t] \/ pc'[t] # pc[t])
                   => Walked(t)' > Walked(t)
<1>1. ASSUME Core, Next PROVE Advances
  <2> SUFFICES ASSUME NEW t \in Threads, Dereferences(t), pc'[t] = "compare",
                      r'[t] # r[t] \/ pc'[t] # pc[t]
               PROVE  Walked(t)' > Walked(t)
    OBVIOUS
  <2>1. PICK w \in Threads : Step(w) BY <1>1 DEF Next
  <2>2. build' = build BY <1>1 DEF Next
  <2>3. w = t BY <1>1, <2>1, OthersDoNotMove
  <2> QED BY <1>1, <2>1, <2>2, <2>3, ProbeIsFurther
<1>2. Core /\ [Next]_vars => [Advances]_vars BY <1>1
<1>3. SearchAdvances <=> [][Advances]_vars BY DEF SearchAdvances
<1> QED BY <1>2, <1>3, CacheCore, PTL DEF Spec

-----------------------------------------------------------------------------
(* insert finds a bucket, and searches find its entries.                   *)

(* Findable, while a thread is writing: occupied is one ahead between the  *)
(* two stores of an entry, and the mask one store behind new buckets.      *)
Filled ==
    /\ \A i \in Entries: Reachable(mem[buckets][i].sel, i)
    /\ ~Somebody("setMask") =>
          /\ occupied = Cardinality(Entries) + (IF Somebody("setSel") THEN 1 ELSE 0)
          /\ buckets # Empty => DOMAIN mem[buckets] = 0 .. mask

(* What insert relies on: new buckets are as large as their mask says, and *)
(* there is room for one more entry and the end marker.                    *)
HasRoom(t) ==
    /\ pc[t] \in {"setBuckets", "setMask"} =>
          /\ r[t].buckets # Empty => DOMAIN mem[r[t].buckets] = 0 .. r[t].mask
          /\ r[t].op = "insert" => CACHE_END_MARKER <= r[t].mask
    /\ pc[t] \in {"place", "free", "collect"} /\ r[t].op = "insert" => occupied + CACHE_END_MARKER <= mask
    /\ At(t, "setSel") => r[t].i \in 0 .. mask /\ Reachable(r[t].sel, r[t].i)

(* The inductive invariant, beyond Core.                                   *)
Room == Filled /\ \A t \in Threads : HasRoom(t) /\ ~At(t, "bad_cache")

(* insert tries every slot.                                                *)
LEMMA SlotsCover ==
  ASSUME NEW m \in Nat, NEW h \in 0 .. m, NEW j \in 0 .. m
  PROVE  \E n \in 0 .. m : Slot(h, m, n) = j
<1>1. CASE Packed
  <2>1. CASE j <= h
    <3>1. h - j \in 0 .. m /\ Slot(h, m, h - j) = j BY <1>1, <2>1 DEF Slot
    <3> QED BY <3>1
  <2>2. CASE ~(j <= h)
    <3>1. h + m + 1 - j \in 0 .. m /\ Slot(h, m, h + m + 1 - j) = j BY <1>1, <2>2 DEF Slot
    <3> QED BY <3>1
  <2> QED BY <2>1, <2>2
<1>2. CASE ~Packed
  <2>1. CASE h <= j
    <3>1. j - h \in 0 .. m /\ Slot(h, m, j - h) = j BY <1>2, <2>1 DEF Slot
    <3> QED BY <3>1
  <2>2. CASE ~(h <= j)
    <3>1. m + 1 - h + j \in 0 .. m /\ Slot(h, m, m + 1 - h + j) = j BY <1>2, <2>2 DEF Slot
    <3> QED BY <3>1
  <2> QED BY <2>1, <2>2
<1> QED BY <1>1, <1>2

(* What a search passes on its way to a slot are the slots before it.      *)
LEMMA PassedSlots ==
  ASSUME mask \in Nat, NEW h \in 0 .. mask, NEW n \in 0 .. mask, NEW j \in Passed(h, Slot(h, mask, n))
  PROVE  \E k \in 0 .. mask : k < n /\ Slot(h, mask, k) = j
<1>1. CASE Packed
  <2>1. CASE j <= h
    <3>1. h - j \in 0 .. mask /\ h - j < n /\ Slot(h, mask, h - j) = j BY <1>1, <2>1 DEF Slot, Passed
    <3> QED BY <3>1
  <2>2. CASE ~(j <= h)
    <3>1. j \in Int /\ h + mask + 1 - j \in 0 .. mask /\ h + mask + 1 - j < n
          /\ Slot(h, mask, h + mask + 1 - j) = j
      BY <1>1, <2>2 DEF Slot, Passed
    <3> QED BY <3>1
  <2> QED BY <2>1, <2>2
<1>2. CASE ~Packed
  <2>1. CASE h <= j
    <3>1. j - h \in 0 .. mask /\ j - h < n /\ Slot(h, mask, j - h) = j BY <1>2, <2>1 DEF Slot, Passed
    <3> QED BY <3>1
  <2>2. CASE ~(h <= j)
    <3>1. mask + 1 - h + j \in 0 .. mask /\ mask + 1 - h + j < n /\ Slot(h, mask, mask + 1 - h + j) = j
      BY <1>2, <2>2 DEF Slot, Passed
    <3> QED BY <3>1
  <2> QED BY <2>1, <2>2
<1> QED BY <1>1, <1>2

(* While there is room, a slot is vacant.                                  *)
LEMMA SlotVacant ==
  ASSUME Core, Room, NEW t \in Threads, pc[t] = "place"
  PROVE  \E j \in 0 .. mask : mem[buckets][j].sel = Nil
<1> SUFFICES ASSUME \A j \in 0 .. mask : mem[buckets][j].sel # Nil PROVE FALSE OBVIOUS
<1>0. pc[t] \in Locked BY DEF Locked
<1>1. Writes(t) /\ \A u \in Threads \ {t} : pc[u] \notin Locked BY <1>0, Holder
<1>2. r[t].op = "insert" /\ buckets # Empty BY <1>0, <1>1 DEF Writes
<1>3. ~Somebody("setMask") /\ ~Somebody("setSel") BY <1>1 DEF Somebody, At, Locked
<1>4. occupied = Cardinality(Entries) /\ DOMAIN mem[buckets] = 0 .. mask /\ occupied \in Nat
  <2>1. occupied = Cardinality(Entries) + 0 /\ DOMAIN mem[buckets] = 0 .. mask /\ occupied \in Nat
    BY <1>2, <1>3 DEF Room, Filled, Core, TypeOK
  <2>2. IsFiniteSet(Entries)
    <3>1. mask \in Nat
      <4>1. mask \in 0 .. MAX_CACHE_SIZE - 1 BY DEF Core, TypeOK
      <4> QED BY <4>1
    <3>2. IsFiniteSet(0 .. mask) BY <3>1, Interval
    <3>3. Entries \in SUBSET (0 .. mask) BY <2>1 DEF Entries
    <3> QED BY <3>2, <3>3, FS_Subset, ZenonT(30)
  <2>3. Cardinality(Entries) \in Nat BY <2>2, FS_CardinalityType
  <2> QED BY <2>1, <2>3
<1>5. occupied + CACHE_END_MARKER <= mask BY <1>2 DEF Room, HasRoom
<1>6. mask \in Nat /\ buckets \in DOMAIN mem
  <2>1. mask \in 0 .. MAX_CACHE_SIZE - 1 BY DEF Core, TypeOK
  <2> QED BY <2>1 DEF Core, TypeOK
<1>7. PICK n \in 1 .. MAX_CACHE_SIZE :
        /\ DOMAIN mem[buckets] = 0 .. n - 1
        /\ \A i \in 0 .. n - 1: mem[buckets][i].sel = End <=> ~Packed /\ i = n - 1
  BY <1>2, <1>6, BufferFacts DEF BucketsOK
<1>8. n = mask + 1
  <2>1. n \in Nat /\ n >= 1
    <3>1. MAX_CACHE_SIZE \in Nat BY BuildFacts DEF Core
    <3> QED BY <3>1
  <2>2. mask \in 0 .. n - 1 /\ n - 1 \in 0 .. mask BY <1>4, <1>6, <1>7, <2>1
  <2> QED BY <1>6, <2>1, <2>2
<1>9. \A i \in 0 .. mask : mem[buckets][i].sel = End <=> ~Packed /\ i = mask BY <1>6, <1>7, <1>8
<1>10. \A i \in 0 .. mask : mem[buckets][i].sel \in Selectors \cup {Nil, End}
  BY <1>4, <1>6, BufferFacts
<1>11. CASE Packed
  <2>1. Entries = 0 .. mask BY <1>4, <1>9, <1>10, <1>11 DEF Entries
  <2>2. Cardinality(0 .. mask) = mask + 1 BY <1>6, Interval
  <2>3. CACHE_END_MARKER = 0 BY <1>11 DEF CACHE_END_MARKER
  <2> QED BY <1>4, <1>5, <1>6, <2>1, <2>2, <2>3
<1>12. CASE ~Packed
  <2>1. Entries = 0 .. (mask - 1)
    <3>1. \A i : i \in 0 .. (mask - 1) <=> i \in 0 .. mask /\ i # mask BY <1>6
    <3>2. \A i \in 0 .. mask : mem[buckets][i].sel \in Selectors <=> i # mask
      BY <1>9, <1>10, <1>12, Markers
    <3> QED BY <1>4, <3>1, <3>2 DEF Entries
  <2>2. Cardinality(0 .. (mask - 1)) = mask BY <1>6, Interval
  <2>3. CACHE_END_MARKER = 1 BY <1>12 DEF CACHE_END_MARKER
  <2> QED BY <1>4, <1>5, <1>6, <2>1, <2>2, <2>3
<1> QED BY <1>11, <1>12

(* A step that leaves the cache in use as it is.                           *)
LEMMA RoomKept ==
  ASSUME Core, Room, NEW t \in Threads, build' = build, UNCHANGED cache, mem'[buckets] = mem[buckets],
         \A u \in Threads \ {t} :
            /\ r'[u] = r[u] /\ pc'[u] \in {pc[u], "slow"}
            /\ pc[u] \in Locked => pc'[u] = pc[u] /\ mem' = mem,
         pc[t] \notin {"setMask", "setSel"}, pc'[t] \notin {"setMask", "setSel", "bad_cache"},
         HasRoom(t)'
  PROVE  Room'
<1> USE DEF cache
<1>1. Packed' <=> Packed BY DEF Packed
<1>2. CACHE_END_MARKER' = CACHE_END_MARKER BY <1>1 DEF CACHE_END_MARKER
<1>3. \A h, i : Passed(h, i)' = Passed(h, i) BY <1>1 DEF Passed
<1>4. \A s, i : Reachable(s, i)' <=> Reachable(s, i) BY <1>3 DEF Reachable, cache_hash
<1>5. Entries' = Entries BY DEF Entries
<1>6. \A u \in Threads \ {t} : At(u, "setMask")' <=> At(u, "setMask") BY DEF At, Locked
<1>7. \A u \in Threads \ {t} : At(u, "setSel")' <=> At(u, "setSel") BY DEF At, Locked
<1>8. Somebody("setMask")' <=> Somebody("setMask") BY <1>6 DEF Somebody, At
<1>9. Somebody("setSel")' <=> Somebody("setSel") BY <1>7 DEF Somebody, At
<1>10. Filled' BY <1>4, <1>5, <1>8, <1>9 DEF Room, Filled
<1>11. ASSUME NEW u \in Threads \ {t} PROVE HasRoom(u)' /\ ~At(u, "bad_cache")'
  <2>1. HasRoom(u) /\ ~At(u, "bad_cache") BY DEF Room
  <2>2. CASE pc[u] \in Locked
    <3>1. pc'[u] = pc[u] /\ r'[u] = r[u] /\ mem' = mem BY <2>2
    <3> QED BY <1>2, <1>4, <2>1, <3>1 DEF HasRoom, At
  <2>3. CASE pc[u] \notin Locked
    <3>1. pc'[u] \notin Locked BY <2>3 DEF Locked
    <3> QED BY <3>1 DEF HasRoom, At, Locked
  <2> QED BY <2>2, <2>3
<1> QED BY <1>10, <1>11 DEF Room, At

(* New buckets in place of the old ones.                                   *)
LEMMA SetRoom ==
  ASSUME Core, Room, NEW t \in Threads, SetBuckets(t) \/ SetMask(t), build' = build
  PROVE  Room'
<1>0. pc[t] \in {"setBuckets", "setMask"} /\ pc[t] \in Locked
      /\ mem' = mem /\ r' = r /\ buckets' = r[t].buckets
  BY DEF SetBuckets, SetMask, At, Locked
<1>1. /\ Writes(t) /\ r[t] \in RegisterSet /\ pc \in [Threads -> Pcs]
      /\ \A u \in Threads \ {t} : pc[u] \notin Locked
  BY <1>0, Holder
<1>2. \A i \in DOMAIN mem[r[t].buckets]: mem[r[t].buckets][i].sel \notin Selectors
  BY <1>0, <1>1 DEF Writes
<1>3. HasRoom(t) BY DEF Room
<1>4. CACHE_END_MARKER' = CACHE_END_MARKER /\ CACHE_END_MARKER \in Nat
  BY DEF CACHE_END_MARKER, Packed
<1>5. Entries' = {} BY <1>0, <1>2 DEF Entries
<1>6. Cardinality({}) = 0 BY FS_EmptySet
<1>7. PICK l \in {AfterSet(t), "setMask"} :
        /\ pc' = [pc EXCEPT ![t] = l]
        /\ l # "setMask" => mask' = r[t].mask /\ occupied' = 0
        /\ l = "setMask" => pc[t] = "setBuckets"
  <2>1. CASE SetMask(t) BY <2>1 DEF SetMask, Goto, AfterSet
  <2>2. CASE SetBuckets(t) /\ Packed BY <2>2 DEF SetBuckets, Goto, AfterSet
  <2>3. CASE SetBuckets(t) /\ ~Packed BY <2>3 DEF SetBuckets, Goto, AfterSet, At
  <2> QED BY <2>1, <2>2, <2>3
<1>8. pc'[t] = l /\ \A u \in Threads \ {t} : pc'[u] = pc[u] BY <1>1, <1>7
<1>9. l \in {"setMask", "free", "place", "unlock"} BY <1>7 DEF AfterSet
<1>10. ~Somebody("setSel")' BY <1>1, <1>8, <1>9 DEF Somebody, At, Locked
<1>11. l = "setMask" => Somebody("setMask")' BY <1>8 DEF Somebody, At
<1>12. Filled'
  <2>1. l # "setMask" => occupied' = Cardinality(Entries') + 0 BY <1>5, <1>6, <1>7
  <2>2. l # "setMask" => (buckets' # Empty => DOMAIN mem'[buckets'] = 0 .. mask')
    BY <1>0, <1>3, <1>7 DEF HasRoom
  <2> QED BY <1>5, <1>10, <1>11, <2>1, <2>2 DEF Filled
<1>13. HasRoom(t)' /\ ~At(t, "bad_cache")'
  <2>1. CASE l = "setMask" BY <1>0, <1>3, <1>4, <1>7, <1>8, <2>1 DEF HasRoom, At
  <2>2. CASE l # "setMask"
    <3>1. r[t].op = "insert" => occupied' + CACHE_END_MARKER <= mask'
      <4>1. r[t].op = "insert" => CACHE_END_MARKER <= r[t].mask BY <1>0, <1>3 DEF HasRoom
      <4>2. mask' = r[t].mask /\ occupied' = 0 BY <1>7, <2>2
      <4>3. r[t].mask \in Nat
        <5>1. r[t].mask \in 0 .. MAX_CACHE_SIZE - 1 BY <1>1 DEF RegisterSet
        <5> QED BY <5>1
      <4> QED BY <1>4, <4>1, <4>2, <4>3
    <3> QED BY <1>0, <1>4, <1>8, <1>9, <2>2, <3>1 DEF HasRoom, At
  <2> QED BY <2>1, <2>2
<1>14. ASSUME NEW u \in Threads \ {t} PROVE HasRoom(u)' /\ ~At(u, "bad_cache")'
  BY <1>1, <1>8 DEF HasRoom, At, Locked
<1> QED BY <1>12, <1>13, <1>14 DEF Room, At

(* An entry is stored in a vacant bucket that searches for it reach.       *)
LEMMA EntryStored ==
  ASSUME Core, Room, NEW t \in Threads, pc[t] \in {"place", "setSel"}, build' = build,
         NEW i \in 0 .. mask, mem[buckets][i].sel = Nil, Reachable(r[t].sel, i),
         mem' = [mem EXCEPT ![buckets][i] = Bucket(r[t].sel, r[t].imp)],
         buckets' = buckets, mask' = mask, pc' = [pc EXCEPT ![t] = "unlock"],
         occupied' = Cardinality(Entries) + 1
  PROVE  Room'
<1> DEFINE sel == r[t].sel
<1>0. pc[t] \in Locked BY DEF Locked
<1>1. /\ Writes(t) /\ pc \in [Threads -> Pcs] /\ \A u \in Threads \ {t} : pc[u] \notin Locked
  BY <1>0, Holder
<1>2. sel \in Selectors /\ buckets # Empty BY <1>0, <1>1 DEF Writes
<1>3. pc'[t] = "unlock" /\ \A u \in Threads \ {t} : pc'[u] = pc[u] BY <1>1
<1>4. ~Somebody("setMask") /\ ~Somebody("setMask")' /\ ~Somebody("setSel")'
  BY <1>1, <1>3 DEF Somebody, At, Locked
<1>5. DOMAIN mem[buckets] = 0 .. mask /\ buckets \in DOMAIN mem
  BY <1>2, <1>4 DEF Room, Filled, Core, TypeOK
<1>6. /\ DOMAIN mem'[buckets] = 0 .. mask
      /\ mem'[buckets][i].sel = sel
      /\ \A j \in (0 .. mask) \ {i} : mem'[buckets][j] = mem[buckets][j]
  BY <1>5 DEF Bucket
<1>7. Entries' = Entries \cup {i} /\ i \notin Entries
  BY <1>2, <1>5, <1>6, Markers DEF Entries
<1>8. mask \in Nat
  <2>1. mask \in 0 .. MAX_CACHE_SIZE - 1 BY DEF Core, TypeOK
  <2> QED BY <2>1
<1>9. occupied' = Cardinality(Entries')
  <2>1. Entries \in SUBSET (0 .. mask) BY <1>5 DEF Entries
  <2>2. IsFiniteSet(0 .. mask) BY <1>8, Interval
  <2>3. IsFiniteSet(Entries) BY <2>1, <2>2, FS_Subset, ZenonT(30)
  <2>4. Cardinality(Entries \cup {i}) = Cardinality(Entries) + 1 BY <1>7, <2>3, FS_AddElement, ZenonT(30)
  <2> QED BY <1>7, <2>4
<1>10. Cardinality(Entries') \in Nat
  <2>1. Entries' \in SUBSET (0 .. mask) BY <1>6, ZenonT(30) DEF Entries
  <2>2. IsFiniteSet(0 .. mask) BY <1>8, Interval
  <2>3. IsFiniteSet(Entries') BY <2>1, <2>2, FS_Subset, ZenonT(30)
  <2> QED BY <2>3, FS_CardinalityType
<1>11. Packed' <=> Packed BY DEF Packed
<1>12. \A h, j : Passed(h, j)' = Passed(h, j) BY <1>11 DEF Passed
<1>13. ASSUME NEW s \in Selectors, NEW k \in 0 .. mask, Reachable(s, k),
              NEW j \in Passed(cache_hash(s, mask), k)
       PROVE  mem'[buckets][j].sel \notin {Nil, s}
  <2>1. mem[buckets][j].sel \notin {Nil, s} BY <1>13 DEF Reachable
  <2>2. j # i BY <2>1
  <2>3. j \in 0 .. mask
    <3> DEFINE h == cache_hash(s, mask)
    <3>1. h \in 0 .. mask BY <1>8, HashRange
    <3> HIDE DEF h
    <3>2. j \in Passed(h, k) BY DEF h
    <3> QED BY <1>8, <3>1, <3>2 DEF Passed
  <2>4. mem'[buckets][j] = mem[buckets][j] BY <1>6, <2>2, <2>3
  <2> QED BY <2>1, <2>4
<1>14. ASSUME NEW k \in Entries' PROVE Reachable(mem[buckets][k].sel, k)'
  <2> DEFINE s == mem'[buckets][k].sel
  <2>1. s \in Selectors /\ k \in 0 .. mask /\ Reachable(s, k)
    <3>1. CASE k = i
      <4>1. s = sel BY <1>6, <3>1
      <4> HIDE DEF s
      <4> QED BY <1>2, <3>1, <4>1
    <3>2. CASE k # i
      <4>1. k \in Entries BY <1>7, <3>2
      <4>2. k \in 0 .. mask /\ mem[buckets][k].sel \in Selectors BY <1>5, <4>1 DEF Entries
      <4>3. s = mem[buckets][k].sel BY <1>6, <3>2, <4>2
      <4>4. Reachable(mem[buckets][k].sel, k) BY <4>1 DEF Room, Filled
      <4> HIDE DEF s
      <4> QED BY <4>2, <4>3, <4>4
    <3> QED BY <3>1, <3>2
  <2>2. s = mem'[buckets'][k].sel OBVIOUS
  <2> HIDE DEF s
  <2>3. \A j \in Passed(cache_hash(s, mask), k) : mem'[buckets][j].sel \notin {Nil, s}
    BY <1>13, <2>1
  <2> QED BY <1>12, <2>2, <2>3, ZenonT(30) DEF Reachable, cache_hash
<1>15. Filled'
  <2>1. occupied' = Cardinality(Entries') + 0 BY <1>9, <1>10
  <2> QED BY <1>4, <1>6, <1>14, <2>1 DEF Filled
<1>16. ASSUME NEW u \in Threads PROVE HasRoom(u)' /\ ~At(u, "bad_cache")'
  BY <1>1, <1>3 DEF HasRoom, At, Locked
<1> QED BY <1>15, <1>16 DEF Room, At

(* The bucket that insert takes: there is one, and searches reach it.      *)
LEMMA PlaceFinds ==
  ASSUME Core, Room, NEW t \in Threads, pc[t] = "place",
         NEW free, free = Slots(buckets, r[t].sel, mask, {Nil, r[t].sel}),
         NEW i, i = Path(r[t].sel, mask)[Min(free)]
  PROVE  /\ free # {} /\ i \in 0 .. mask /\ mem[buckets][i].sel \in {Nil, r[t].sel}
         /\ Reachable(r[t].sel, i)
<1> DEFINE sel == r[t].sel
           h == cache_hash(sel, mask)
           n == Min(free)
<1>0. pc[t] \in Locked BY DEF Locked
<1>1. Writes(t) BY <1>0, Holder
<1>2. sel \in Selectors BY <1>0, <1>1 DEF Writes
<1>3. mask \in Nat
  <2>1. mask \in 0 .. MAX_CACHE_SIZE - 1 BY DEF Core, TypeOK
  <2> QED BY <2>1
<1>4. h \in 0 .. mask BY <1>2, <1>3, HashRange
<1>5. \A k \in 0 .. mask : Path(sel, mask)[k] = Slot(h, mask, k) BY <1>2, <1>3, PathIsSlot
<1>6. free = {k \in 0 .. mask : mem[buckets][Slot(h, mask, k)].sel \in {Nil, sel}}
  BY <1>5, ZenonT(30) DEF Slots
<1> HIDE DEF h, sel
<1>7. free # {}
  <2>1. PICK j \in 0 .. mask : mem[buckets][j].sel = Nil BY SlotVacant
  <2>2. PICK k \in 0 .. mask : Slot(h, mask, k) = j BY <1>3, <1>4, <2>1, SlotsCover
  <2> QED BY <1>6, <2>1, <2>2, ZenonT(30)
<1>8. n \in free /\ \A k \in free : n <= k
  <2>1. free \subseteq Nat
    <3>1. free \subseteq 0 .. mask BY <1>6, ZenonT(30)
    <3> QED BY <1>3, <3>1
  <2>2. \E z \in free : \A y \in free : z <= y BY <1>7, <2>1, Least
  <2> QED BY <2>2 DEF Min
<1>9. n \in 0 .. mask /\ mem[buckets][Slot(h, mask, n)].sel \in {Nil, sel} BY <1>6, <1>8, ZenonT(30)
<1>10. i = Slot(h, mask, n) BY <1>5, <1>9 DEF sel
<1> HIDE DEF n
<1>11. i \in 0 .. mask BY <1>3, <1>4, <1>9, <1>10, SlotRange
<1>12. ASSUME NEW j \in Passed(h, i) PROVE mem[buckets][j].sel \notin {Nil, sel}
  <2>1. PICK k \in 0 .. mask : k < n /\ Slot(h, mask, k) = j
    <3>1. j \in Passed(h, Slot(h, mask, n)) BY <1>10
    <3> QED BY <1>3, <1>4, <1>9, <3>1, PassedSlots
  <2>2. k \notin free BY <1>8, <1>9, <2>1
  <2> QED BY <1>6, <2>1, <2>2
<1>13. Reachable(sel, i) BY <1>12, ZenonT(30) DEF Reachable, h
<1> QED BY <1>7, <1>9, <1>10, <1>11, <1>13 DEF sel

(* insert fills a bucket, or finds its entry there.                        *)
LEMMA PlaceRoom ==
  ASSUME Core, Room, NEW t \in Threads, Place(t), build' = build
  PROVE  Room'
<1> DEFINE sel == r[t].sel
           free == Slots(buckets, sel, mask, {Nil, sel})
           i == Path(sel, mask)[Min(free)]
<1>0. pc[t] = "place" /\ pc[t] \in Locked BY DEF Place, At, Locked
<1>1. /\ Writes(t) /\ pc \in [Threads -> Pcs] /\ r \in [Threads -> RegisterSet] /\ r[t] \in RegisterSet
      /\ \A u \in Threads \ {t} : pc[u] \notin Locked
  BY <1>0, Holder
<1>2. sel \in Selectors /\ buckets # Empty BY <1>0, <1>1 DEF Writes
<1>3. free # {} /\ i \in 0 .. mask /\ mem[buckets][i].sel \in {Nil, sel} /\ Reachable(sel, i)
  BY <1>0, PlaceFinds, ZenonT(30)
<1>4. buckets' = buckets /\ mask' = mask BY DEF Place
<1>5. CASE mem[buckets][i].sel = sel
  <2>1. pc' = [pc EXCEPT ![t] = "unlock"] /\ UNCHANGED <<mem, occupied, r>>
    BY <1>3, <1>5 DEF Place, Goto
  <2>2. pc'[t] = "unlock" /\ \A u \in Threads \ {t} : pc'[u] = pc[u] BY <1>1, <2>1
  <2>3. HasRoom(t)' BY <2>2 DEF HasRoom, At
  <2> QED BY <1>0, <1>1, <1>4, <2>1, <2>2, <2>3, RoomKept DEF cache
<1>6. CASE mem[buckets][i].sel # sel
  <2>1. mem[buckets][i].sel = Nil BY <1>3, <1>6
  <2>2. occupied' = occupied + 1 /\ r' = [r EXCEPT ![t].i = i] BY <1>3, <1>6, ZenonT(30) DEF Place
  <2>3. ~Somebody("setMask") /\ ~Somebody("setSel") BY <1>0, <1>1 DEF Somebody, At, Locked
  <2>4. occupied = Cardinality(Entries) + 0 /\ DOMAIN mem[buckets] = 0 .. mask /\ buckets \in DOMAIN mem
    BY <1>2, <2>3 DEF Room, Filled, Core, TypeOK
  <2>5. mask \in Nat /\ occupied \in Nat
    <3>1. mask \in 0 .. MAX_CACHE_SIZE - 1 /\ occupied \in Nat BY DEF Core, TypeOK
    <3> QED BY <3>1
  <2>6. occupied = Cardinality(Entries)
    <3>1. Entries \in SUBSET (0 .. mask) BY <2>4 DEF Entries
    <3>2. IsFiniteSet(0 .. mask) BY <2>5, Interval
    <3>3. IsFiniteSet(Entries) BY <3>1, <3>2, FS_Subset, ZenonT(30)
    <3>4. Cardinality(Entries) \in Nat BY <3>3, FS_CardinalityType
    <3> QED BY <2>4, <3>4
  <2>7. CASE Packed
    <3>1. mem' = [mem EXCEPT ![buckets][i] = Bucket(sel, r[t].imp)] /\ pc' = [pc EXCEPT ![t] = "unlock"]
      BY <1>3, <1>6, <2>7, ZenonT(30) DEF Place, Goto
    <3>2. occupied' = Cardinality(Entries) + 1 BY <2>2, <2>6
    <3> HIDE DEF i
    <3> QED BY <1>0, <1>3, <1>4, <2>1, <3>1, <3>2, EntryStored, ZenonT(30)
  <2>8. CASE ~Packed
    <3> DEFINE e == [mem[buckets][i] EXCEPT !.imp = r[t].imp]
    <3>1. mem' = [mem EXCEPT ![buckets][i] = e] /\ pc' = [pc EXCEPT ![t] = "setSel"]
      BY <1>3, <1>6, <2>4, <2>8, ZenonT(30) DEF Place, Goto, FirstStore
    <3>2. mem[buckets][i] \in [sel: Selectors \cup {Nil, End}, imp: Imps \cup {None}]
      BY <1>3, <2>4, BufferFacts, ZenonT(30) DEF BucketsOK
    <3>3. e.sel = mem[buckets][i].sel BY <3>2
    <3> HIDE DEF i, e, free
    <3>4. DOMAIN mem'[buckets] = DOMAIN mem[buckets]
          /\ \A j \in 0 .. mask : mem'[buckets][j].sel = mem[buckets][j].sel
      BY <1>3, <2>4, <3>1, <3>3
    <3>5. Entries' = Entries BY <1>4, <2>4, <3>4 DEF Entries
    <3>6. Packed' <=> Packed BY DEF Packed
    <3>7. \A g, j : Passed(g, j)' = Passed(g, j) BY <1>4, <3>6 DEF Passed
    <3>8. ASSUME NEW s \in Selectors, NEW k \in 0 .. mask, Reachable(s, k)
          PROVE  \A j \in Passed(cache_hash(s, mask), k) : mem'[buckets][j].sel \notin {Nil, s}
      <4> DEFINE g == cache_hash(s, mask)
      <4>1. g \in 0 .. mask BY <2>5, HashRange
      <4>2. \A j \in Passed(g, k) : mem[buckets][j].sel \notin {Nil, s} BY <3>8 DEF Reachable
      <4> HIDE DEF g
      <4>3. Passed(g, k) \subseteq 0 .. mask BY <2>5, <4>1 DEF Passed
      <4>4. \A j \in Passed(g, k) : mem'[buckets][j].sel \notin {Nil, s} BY <3>4, <4>2, <4>3
      <4> QED BY <4>4 DEF g
    <3>9. pc'[t] = "setSel" /\ \A u \in Threads \ {t} : pc'[u] = pc[u] BY <1>1, <3>1
    <3>10. Somebody("setSel")' /\ ~Somebody("setMask")'
      BY <1>1, <3>9 DEF Somebody, At, Locked
    <3>11. r'[t].sel = sel /\ r'[t].i = i BY <1>1, <2>2 DEF RegisterSet
    <3>12. Filled'
      <4>1. ASSUME NEW k \in Entries' PROVE Reachable(mem[buckets][k].sel, k)'
        <5> DEFINE s == mem[buckets][k].sel
        <5>1. k \in 0 .. mask /\ s \in Selectors /\ Reachable(s, k)
          BY <2>4, <3>5 DEF Entries, Room, Filled
        <5>2. mem'[buckets'][k].sel = s BY <1>4, <3>4, <5>1
        <5> HIDE DEF s
        <5>3. \A j \in Passed(cache_hash(s, mask), k) : mem'[buckets][j].sel \notin {Nil, s}
          BY <3>8, <5>1
        <5> QED BY <1>4, <3>7, <5>2, <5>3 DEF Reachable, cache_hash
      <4>2. occupied' = Cardinality(Entries') + 1 BY <2>2, <2>6, <3>5
      <4> QED BY <1>4, <2>4, <3>4, <3>10, <4>1, <4>2 DEF Filled
    <3>13. HasRoom(t)'
      <4>1. Reachable(r[t].sel, r[t].i)'
        <5>1. \A j \in Passed(cache_hash(sel, mask), i) : mem'[buckets][j].sel \notin {Nil, sel}
          BY <1>2, <1>3, <3>8
        <5> HIDE DEF sel
        <5> QED BY <1>4, <3>7, <3>11, <5>1 DEF Reachable, cache_hash
      <4> QED BY <1>3, <1>4, <3>9, <3>11, <4>1 DEF HasRoom, At
    <3>14. ASSUME NEW u \in Threads \ {t} PROVE HasRoom(u)' /\ ~At(u, "bad_cache")'
      BY <1>1, <3>9 DEF HasRoom, At, Locked
    <3> QED BY <3>9, <3>12, <3>13, <3>14 DEF Room, At
  <2> QED BY <2>7, <2>8
<1> QED BY <1>5, <1>6

(* The second store of an entry.                                           *)
LEMMA SetSelRoom ==
  ASSUME Core, Room, NEW t \in Threads, SetSel(t), build' = build
  PROVE  Room'
<1>0. pc[t] = "setSel" /\ pc[t] \in Locked BY DEF SetSel, At, Locked
<1>1. Writes(t) /\ \A u \in Threads \ {t} : pc[u] \notin Locked BY <1>0, Holder
<1>2. mem[buckets][r[t].i].sel = Nil BY <1>0, <1>1 DEF Writes, At
<1>3. r[t].i \in 0 .. mask /\ Reachable(r[t].sel, r[t].i) BY <1>0 DEF Room, HasRoom, At
<1>4. Somebody("setSel") /\ ~Somebody("setMask") BY <1>0, <1>1 DEF Somebody, At, Locked
<1>5. occupied = Cardinality(Entries) + 1 BY <1>4 DEF Room, Filled
<1>6. /\ mem' = [mem EXCEPT ![buckets][r[t].i] = Bucket(r[t].sel, r[t].imp)]
      /\ buckets' = buckets /\ mask' = mask /\ occupied' = occupied /\ pc' = [pc EXCEPT ![t] = "unlock"]
  BY DEF SetSel, Goto, cache
<1> QED BY <1>0, <1>2, <1>3, <1>5, <1>6, EntryStored, ZenonT(30)

(* A cache that may take one more entry keeps a vacant bucket after it.    *)
LEMMA FitsLeavesRoom ==
  ASSUME Core, FitsCapacity(occupied + 1)
  PROVE  occupied + CACHE_END_MARKER <= mask
<1>1. mask \in Nat /\ occupied \in Nat
  <2>1. mask \in 0 .. MAX_CACHE_SIZE - 1 /\ occupied \in Nat BY DEF Core, TypeOK
  <2> QED BY <2>1
<1>2. CACHE_END_MARKER \in 0 .. 1 BY DEF CACHE_END_MARKER
<1>3. capacity \in Nat /\ (mask = 0 => capacity = 0) /\ (mask # 0 => capacity = mask + 1)
  BY <1>1 DEF capacity
<1>4. occupied + 1 + CACHE_END_MARKER <= capacity
  <2>1. cache_fill_ratio(capacity) \in Int /\ cache_fill_ratio(capacity) <= capacity
    BY <1>3, FillRatio DEF cache_fill_ratio
  <2> QED BY <1>1, <1>2, <1>3, <2>1 DEF FitsCapacity
<1> QED BY <1>1, <1>2, <1>3, <1>4

(* New buckets have room for an entry and, if there is one, the marker.    *)
LEMMA ReallocateRoom ==
  ASSUME Core, Room, NEW t \in Threads, pc[t] = "insert", NEW n \in 2 .. MAX_CACHE_SIZE,
         NEW old, reallocate(t, n, old), UNCHANGED cache, build' = build
  PROVE  Room'
<1>0. pc[t] \in Locked BY DEF Locked
<1>1. /\ Writes(t) /\ r[t] \in RegisterSet /\ pc \in [Threads -> Pcs] /\ r \in [Threads -> RegisterSet]
      /\ \A u \in Threads \ {t} : pc[u] \notin Locked
  BY <1>0, Holder
<1>2. PICK b \in Buffers \ DOMAIN mem :
        /\ mem' = [x \in DOMAIN mem \cup {b} |-> IF x = b THEN allocateBuckets(n) ELSE mem[x]]
        /\ r' = [r EXCEPT ![t].buckets = b, ![t].mask = n - 1, ![t].old = old]
        /\ pc' = [pc EXCEPT ![t] = "setBuckets"]
  BY ZenonT(30) DEF reallocate, Goto
<1>3. buckets \in DOMAIN mem BY DEF Core, TypeOK
<1>4. mem'[buckets] = mem[buckets] BY <1>2, <1>3
<1>5. pc'[t] = "setBuckets" /\ \A u \in Threads \ {t} : r'[u] = r[u] /\ pc'[u] = pc[u] BY <1>1, <1>2
<1>6. r'[t].buckets = b /\ r'[t].mask = n - 1 BY <1>1, <1>2 DEF RegisterSet
<1>7. n \in 1 .. MAX_CACHE_SIZE /\ 1 <= n - 1
  <2>1. MAX_CACHE_SIZE \in Nat BY BuildFacts DEF Core
  <2> QED BY <2>1
<1>8. DOMAIN mem'[b] = 0 .. n - 1 BY <1>2, <1>7, NewBuckets DEF Core
<1>9. CACHE_END_MARKER' \in 0 .. 1 BY DEF CACHE_END_MARKER
<1>10. CACHE_END_MARKER' <= n - 1 BY <1>7, <1>9
<1>11. HasRoom(t)' BY <1>5, <1>6, <1>8, <1>10 DEF HasRoom, At
<1> QED BY <1>1, <1>4, <1>5, <1>11, RoomKept

(* insert goes on to a cache with room, or to larger buckets.              *)
LEMMA InsertRoom ==
  ASSUME Core, Room, NEW t \in Threads, insert(t), build' = build
  PROVE  Room'
<1>0. pc[t] = "insert" /\ pc[t] \in Locked /\ UNCHANGED cache BY DEF insert, At, Locked
<1>1. pc \in [Threads -> Pcs] /\ \A u \in Threads \ {t} : pc[u] \notin Locked BY <1>0, Holder
<1>2. /\ mask \in 0 .. MAX_CACHE_SIZE - 1 /\ MAX_CACHE_SIZE \in Nat
      /\ INIT_CACHE_SIZE \in 2 .. MAX_CACHE_SIZE
  <2>1. BuildOK(build) BY BuildsAssumption DEF Core, TypeOK
  <2>2. mask \in 0 .. MAX_CACHE_SIZE - 1 BY DEF Core, TypeOK
  <2> QED BY <2>1, <2>2 DEF BuildOK, INIT_CACHE_SIZE, MAX_CACHE_SIZE
<1>3. capacity = 0 \/ capacity \in 2 .. MAX_CACHE_SIZE BY <1>2 DEF capacity
<1>4. Larger \in 2 .. MAX_CACHE_SIZE
  <2>1. CASE capacity = 0 BY <1>2, <2>1 DEF Larger
  <2>2. CASE capacity \in 2 .. MAX_CACHE_SIZE
    <3> DEFINE m == Min({capacity * 2, MAX_CACHE_SIZE})
    <3>1. capacity * 2 \in Nat /\ capacity * 2 >= 2 /\ MAX_CACHE_SIZE >= 2 BY <1>2, <2>2
    <3>2. m \in {capacity * 2, MAX_CACHE_SIZE} /\ m <= MAX_CACHE_SIZE BY <1>2, <3>1, MinOfTwo
    <3>3. Larger = m BY <2>2 DEF Larger
    <3> HIDE DEF m
    <3> QED BY <1>2, <3>1, <3>2, <3>3
  <2> QED BY <1>3, <2>1, <2>2
<1>5. CASE isConstantEmptyCache
  <2> DEFINE n == IF capacity = 0 THEN INIT_CACHE_SIZE ELSE capacity
  <2>1. reallocate(t, n, None) BY <1>5 DEF insert
  <2>2. n \in 2 .. MAX_CACHE_SIZE BY <1>2, <1>3
  <2> HIDE DEF n
  <2> QED BY <1>0, <2>1, <2>2, ReallocateRoom
<1>6. CASE ~isConstantEmptyCache /\ ~FitsCapacity(occupied + 1)
  <2>1. reallocate(t, Larger, buckets) BY <1>6 DEF insert
  <2> QED BY <1>0, <1>4, <2>1, ReallocateRoom
<1>7. CASE ~isConstantEmptyCache /\ FitsCapacity(occupied + 1)
  <2>1. pc' = [pc EXCEPT ![t] = "place"] /\ mem' = mem /\ r' = r BY <1>7 DEF insert, Goto
  <2>2. pc'[t] = "place" /\ \A u \in Threads \ {t} : pc'[u] = pc[u] BY <1>1, <2>1
  <2>3. occupied + CACHE_END_MARKER <= mask BY <1>7, FitsLeavesRoom
  <2>4. (occupied + CACHE_END_MARKER <= mask)'
    BY <1>0, <2>3 DEF cache, CACHE_END_MARKER, Packed
  <2>5. HasRoom(t)' BY <2>2, <2>4 DEF HasRoom, At
  <2> QED BY <1>0, <1>1, <2>1, <2>2, <2>5, RoomKept
<1> QED BY <1>5, <1>6, <1>7

(* Searches change nothing that the writer relies on.                      *)
LEMMA ReaderRoom ==
  ASSUME Core, Room, NEW t \in Threads, ReadOnly, build' = build,
         pc[t] \notin Locked, NEW l \in Pcs \ Locked, pc' = [pc EXCEPT ![t] = l],
         \A u \in Threads \ {t} : r'[u] = r[u]
  PROVE  Room'
<1>0. pc \in [Threads -> Pcs] BY DEF Core, TypeOK
<1>1. mem' = mem /\ UNCHANGED cache BY DEF ReadOnly
<1>2. pc'[t] = l /\ \A u \in Threads \ {t} : pc'[u] = pc[u] BY <1>0
<1>3. HasRoom(t)' BY <1>2 DEF HasRoom, At, Locked
<1>4. pc[t] \notin {"setMask", "setSel"} /\ pc'[t] \notin {"setMask", "setSel", "bad_cache"}
  BY <1>2 DEF Locked
<1> QED BY <1>1, <1>2, <1>3, <1>4, RoomKept

(* Taking the lock, and what is done under it to other than the entries.   *)
LEMMA HolderRoom ==
  ASSUME Core, Room, NEW t \in Threads, Step(t), build' = build,
         pc[t] \in Locked \/ runtimeLock = None, pc[t] \notin {"setMask", "setSel"},
         UNCHANGED cache, mem'[buckets] = mem[buckets],
         pc'[t] \notin {"setMask", "setSel", "bad_cache"}, HasRoom(t)'
  PROVE  Room'
<1>1. \A u \in Threads \ {t} : pc[u] \notin Locked
  <2>1. CASE pc[t] \in Locked BY <2>1, Holder
  <2>2. CASE runtimeLock = None BY <2>2, Exclusive
  <2> QED BY <2>1, <2>2
<1>2. \A u \in Threads \ {t} : r'[u] = r[u] /\ pc'[u] \in {pc[u], "slow"}
  BY OthersDoNotMove
<1> QED BY <1>1, <1>2, RoomKept

(* Every step of a search.                                                 *)
LEMMA ReaderSteps ==
  ASSUME NEW t \in Threads, Search(t) \/ Interrupted(t)
  PROVE  pc[t] \notin Locked /\ ReadOnly /\ \E l \in Pcs \ Locked : pc' = [pc EXCEPT ![t] = l]
<1>2. pc[t] \notin Locked
  <2>1. CASE Search(t)
    BY <2>1, ZenonT(30) DEF Search, LoadBuckets, ComparePacked, Compare, Classify, CacheHit, CallImp, At, Locked
  <2>2. CASE Interrupted(t) BY <2>2 DEF Interrupted, Critical, At, Locked
  <2> QED BY <2>1, <2>2
<1>3. ReadOnly
  BY ZenonT(30) DEF Search, Interrupted, LoadBuckets, ComparePacked, Compare, Classify, CacheHit, CallImp
<1>4. \E l \in Pcs \ Locked : pc' = [pc EXCEPT ![t] = l]
  <2> DEFINE To(l) == pc' = [pc EXCEPT ![t] = l]
  <2>1. To("loadBuckets") \/ To("compare") \/ To("classify") \/ To("hit") \/ To("return") \/ To("slow")
        \/ To("idle")
    <3>1. CASE Search(t)
      BY <3>1, ZenonT(30) DEF Search, LoadBuckets, ComparePacked, Compare, Classify, CacheHit, CallImp,
         Probe, Miss, Hit, Leave, Goto
    <3>2. CASE Interrupted(t) BY <3>2 DEF Interrupted, Miss, Leave, Goto
    <3> QED BY <3>1, <3>2
  <2> QED BY <2>1 DEF Pcs, Locked
<1> QED BY <1>2, <1>3, <1>4, ZenonT(30)

(* The searches and the room.                                              *)
LEMMA SearchRoom ==
  ASSUME Core, Room, NEW t \in Threads, Search(t) \/ Interrupted(t), build' = build
  PROVE  Room'
<1>1. Step(t) BY DEF Step
<1>2. \A u \in Threads \ {t} : r'[u] = r[u] BY <1>1, OthersDoNotMove
<1> QED BY <1>2, ReaderSteps, ReaderRoom

(* Taking the lock.                                                        *)
LEMMA LockRoom ==
  ASSUME Core, Room, NEW t \in Threads, build' = build, Step(t), UNCHANGED <<mem, cache>>, Lock(t),
         pc[t] \notin Locked,
         NEW l \in {"insert", "erase", "unlock", "collect"}, pc' = [pc EXCEPT ![t] = l],
         l = "collect" => r'[t].op # "insert"
  PROVE  Room'
<1>1. pc'[t] = l BY DEF Core, TypeOK
<1>2. HasRoom(t)' BY <1>1 DEF HasRoom, At
<1> QED BY <1>1, <1>2, HolderRoom DEF Lock, Locked

(* The other actions of the thread that holds the lock.                    *)
LEMMA WriterRoom ==
  ASSUME Core, Room, NEW t \in Threads, build' = build,
         \/ eraseNolock(t) \/ Unlock(t) \/ collect_free(t) \/ CollectRestarting(t) \/ Collect(t)
         \/ \E u \in Threads : CheckThread(t, u)
  PROVE  Room'
<1>0. Step(t) BY DEF Step, Write
<1>1. pc[t] \in {"erase", "unlock", "free", "collect"} /\ pc[t] \in Locked
  BY DEF eraseNolock, Unlock, collect_free, CollectRestarting, Collect, CheckThread, At, Locked
<1>2. Writes(t) /\ r[t] \in RegisterSet /\ pc \in [Threads -> Pcs] /\ r \in [Threads -> RegisterSet]
  BY <1>1, Holder
<1>3. UNCHANGED cache
  BY DEF eraseNolock, Unlock, collect_free, CollectRestarting, Collect, CheckThread, Dispose
<1>4. mem'[buckets] = mem[buckets]
  <2>1. CASE UNCHANGED mem BY <2>1
  <2>2. CASE Dispose
    <3>1. buckets \in DOMAIN mem \ garbage BY DEF Core, TypeOK
    <3> QED BY <2>2, <3>1 DEF Dispose
  <2> QED BY <2>1, <2>2 DEF eraseNolock, Unlock, collect_free, CollectRestarting, Collect, CheckThread
<1>5. HasRoom(t)' /\ pc'[t] \notin {"setMask", "setSel", "bad_cache"}
  <2>1. CASE eraseNolock(t)
    <3>1. r[t].op # "insert" BY <1>2, <2>1 DEF eraseNolock, Writes, At
    <3>2. CASE occupied > 0
      <4>1. pc'[t] = "setBuckets" /\ r'[t].buckets = Empty /\ r'[t].op = r[t].op
        BY <1>2, <2>1, <3>2 DEF eraseNolock, Goto, RegisterSet
      <4> QED BY <3>1, <4>1 DEF HasRoom, At
    <3>3. CASE ~(occupied > 0)
      <4>1. pc'[t] = "unlock" BY <1>2, <2>1, <3>3 DEF eraseNolock, Goto
      <4> QED BY <4>1 DEF HasRoom, At
    <3> QED BY <3>2, <3>3
  <2>2. CASE Unlock(t)
    <3>1. pc'[t] \in {"return", "relock", "idle"} BY <1>2, <2>2 DEF Unlock, Leave, Goto
    <3> QED BY <3>1 DEF HasRoom, At
  <2>3. CASE \/ collect_free(t) \/ CollectRestarting(t) \/ Collect(t)
             \/ \E u \in Threads : CheckThread(t, u)
    <3>1. pc[t] \in {"free", "collect"}
      BY <2>3 DEF collect_free, CollectRestarting, Collect, CheckThread, At
    <3>2. r'[t].op = r[t].op
      BY <1>2, <2>3 DEF collect_free, CollectRestarting, Collect, CheckThread, RegisterSet
    <3>3. pc'[t] \in {"collect", AfterFree(t)}
      BY <1>2, <2>3, <3>1 DEF collect_free, CollectRestarting, Collect, CheckThread, Goto, At
    <3>4. pc'[t] \in {"collect", "place", "unlock"} BY <3>3 DEF AfterFree
    <3>5. r[t].op = "insert" => occupied + CACHE_END_MARKER <= mask BY <3>1 DEF Room, HasRoom
    <3>6. r'[t].op = "insert" => (occupied + CACHE_END_MARKER <= mask)'
      BY <1>3, <3>2, <3>5 DEF cache, CACHE_END_MARKER, Packed
    <3> QED BY <3>4, <3>6 DEF HasRoom, At
  <2> QED BY <2>1, <2>2, <2>3
<1> QED BY <1>0, <1>1, <1>3, <1>4, <1>5, HolderRoom

(* No entry at first.                                                      *)
LEMMA RoomInit == ASSUME Init PROVE Room
<1> USE DEF Init
<1>1. Vacant.sel \notin Selectors BY Markers DEF Vacant, Bucket
<1>2. Entries = {} BY <1>1 DEF Entries
<1>3. \A t \in Threads : pc[t] = "idle" OBVIOUS
<1>4. Filled BY <1>2, <1>3, FS_EmptySet DEF Filled, Somebody, At
<1> QED BY <1>3, <1>4 DEF Room, HasRoom, At

(* Each step keeps the cache filled in the order that searches visit it,   *)
(* and keeps a bucket vacant.                                              *)
LEMMA RoomStep == ASSUME Core, Room, [Next]_vars PROVE Room'
<1>1. CASE UNCHANGED vars
  <2> USE <1>1 DEF vars, cache, trash, methods
  <2>1. Entries' = Entries BY DEF Entries
  <2>2. (Packed' <=> Packed) /\ CACHE_END_MARKER' = CACHE_END_MARKER BY DEF Packed, CACHE_END_MARKER
  <2>3. \A s, i : Reachable(s, i)' <=> Reachable(s, i) BY <2>2 DEF Reachable, Passed, cache_hash
  <2>4. Filled' BY <2>1, <2>3 DEF Room, Filled, Somebody, At
  <2>5. \A t \in Threads : HasRoom(t)' /\ ~At(t, "bad_cache")' BY <2>2, <2>3 DEF Room, HasRoom, At
  <2> QED BY <2>4, <2>5 DEF Room
<1>2. ASSUME NEW t \in Threads, Step(t), build' = build PROVE Room'
  <2>0. Registers.op = "send" /\ "collectALot" # "insert" BY DEF Registers
  <2>1. ASSUME NEW sel \in Selectors, objc_msgSend(t, sel) PROVE Room'
    <3>1. \A u \in Threads \ {t} : r'[u] = r[u] BY <1>2, OthersDoNotMove
    <3>2. ReadOnly /\ pc[t] \notin Locked BY <2>1 DEF objc_msgSend, At, Locked
    <3>3. pc' = [pc EXCEPT ![t] = "compare"] \/ pc' = [pc EXCEPT ![t] = "loadBuckets"]
      BY <2>1 DEF objc_msgSend, Goto
    <3>4. {"compare", "loadBuckets"} \subseteq Pcs \ Locked BY DEF Pcs, Locked
    <3> QED BY <1>2, <3>1, <3>2, <3>3, <3>4, ReaderRoom
  <2>2. ASSUME NEW sel \in Selectors, method_setImplementation(t, sel) PROVE Room'
    <3>1. pc' = [pc EXCEPT ![t] = "erase"] \/ pc' = [pc EXCEPT ![t] = "unlock"]
      BY <2>2, ZenonT(30) DEF method_setImplementation, Goto
    <3>2. UNCHANGED <<mem, cache>> /\ Lock(t) /\ pc[t] \notin Locked
      BY <2>2 DEF method_setImplementation, At, Locked
    <3> QED BY <1>2, <3>1, <3>2, LockRoom
  <2>3. CASE _objc_flush_caches(t) \/ lookUpImpOrForward(t)
    <3>1. pc' = [pc EXCEPT ![t] = "erase"] \/ pc' = [pc EXCEPT ![t] = "insert"]
      BY <2>3 DEF _objc_flush_caches, lookUpImpOrForward, Goto
    <3>2. UNCHANGED <<mem, cache>> /\ Lock(t) /\ pc[t] \notin Locked
      BY <2>3 DEF _objc_flush_caches, lookUpImpOrForward, At, Locked
    <3> QED BY <1>2, <3>1, <3>2, LockRoom
  <2>4. CASE CollectALot(t)
    <3>1. pc' = [pc EXCEPT ![t] = "collect"] BY <2>4 DEF CollectALot, Goto
    <3>2. UNCHANGED <<mem, cache>> /\ Lock(t) /\ pc[t] \notin Locked BY <2>4 DEF CollectALot, At, Locked
    <3>3. r'[t].op = "collectALot" BY <2>4 DEF CollectALot, Core, TypeOK, Registers
    <3> QED BY <1>2, <3>1, <3>2, <3>3, LockRoom, ZenonT(30)
  <2>5. CASE Search(t) \/ Interrupted(t) BY <1>2, <2>5, SearchRoom
  <2>6. CASE Write(t)
    <3>1. CASE insert(t) BY <1>2, <3>1, InsertRoom
    <3>2. CASE SetBuckets(t) \/ SetMask(t) BY <1>2, <3>2, SetRoom
    <3>3. CASE Place(t) BY <1>2, <3>3, PlaceRoom
    <3>4. CASE SetSel(t) BY <1>2, <3>4, SetSelRoom
    <3>5. CASE \/ eraseNolock(t) \/ Unlock(t) \/ collect_free(t) \/ CollectRestarting(t) \/ Collect(t)
               \/ \E u \in Threads : CheckThread(t, u)
      BY <1>2, <3>5, WriterRoom
    <3> QED BY <2>6, <3>1, <3>2, <3>3, <3>4, <3>5 DEF Write
  <2> QED BY <1>2, <2>1, <2>2, <2>3, <2>4, <2>5, <2>6 DEF Step
<1> QED BY <1>1, <1>2 DEF Next

(* Both hold throughout.                                                   *)
THEOREM CacheRoom == Spec => [](Core /\ Room)
<1>1. Init => Core /\ Room BY CoreInit, RoomInit
<1>2. Core /\ Room /\ [Next]_vars => Core' /\ Room' BY CoreStep, RoomStep
<1> QED BY <1>1, <1>2, PTL DEF Spec

(* cache_t::insert never runs out of buckets and so never comes to         *)
(* bad_cache, whatever the sizes and however many threads.                 *)
THEOREM CacheNeverBad == Spec => []NeverBadCache
<1>1. Room => NeverBadCache BY DEF Room, NeverBadCache
<1> QED BY <1>1, CacheRoom, PTL

(* What is filled in order is found, when no writer is half way.           *)
LEMMA FilledIsFindable == ASSUME Core, Room PROVE Findable
<1>1. ASSUME runtimeLock = None, NEW t \in Threads PROVE pc[t] \notin Locked
  <2>1. Writes(t) /\ runtimeLock # t BY <1>1, CacheAssumption DEF Core, ThreadOK
  <2> QED BY <2>1 DEF Writes
<1>2. ASSUME runtimeLock = None PROVE ~Somebody("setMask") /\ ~Somebody("setSel")
  BY <1>1, <1>2 DEF Somebody, At, Locked
<1>3. ASSUME runtimeLock = None PROVE occupied = Cardinality(Entries) + 0
  BY <1>2, <1>3 DEF Room, Filled
<1>4. Cardinality(Entries) \in Nat
  <2>1. buckets \in DOMAIN mem BY DEF Core, TypeOK
  <2>2. BucketsOK(buckets) BY <2>1 DEF Core, SharedOK
  <2>3. PICK n \in 1 .. MAX_CACHE_SIZE : DOMAIN mem[buckets] = 0 .. n - 1 BY <2>2 DEF BucketsOK
  <2>4. n \in Nat /\ 0 .. n - 1 \subseteq 0 .. n BY <2>3
  <2>5. IsFiniteSet(Entries) BY <2>3, <2>4, Interval, FS_Subset DEF Entries
  <2> QED BY <2>5, FS_CardinalityType
<1> QED BY <1>3, <1>4 DEF Findable, Room, Filled

(* While nobody holds the lock every entry is found by the search for its  *)
(* selector, and _occupied counts the entries.                             *)
THEOREM CacheFindable == Spec => []Findable
<1> QED BY FilledIsFindable, CacheRoom, PTL

-----------------------------------------------------------------------------
(***************************************************************************)
(* What becomes of the buckets.                                            *)
(***************************************************************************)

(* While a thread has the lock, the arrays that are neither the cache's    *)
(* nor garbage are in its hands.                                           *)
LEMMA OwnHands ==
  ASSUME Core, NothingLost, NEW t \in Threads, pc[t] \in Locked \/ runtimeLock = None
  PROVE  /\ \A b \in DOMAIN mem : b \in {Empty, buckets} \cup garbage \/ InHand(t, b)
         /\ Restartable => garbage_size < garbage_threshold \/ At(t, "collect")
<1>1. \A u \in Threads \ {t} : pc[u] \notin Locked
  <2>1. CASE pc[t] \in Locked BY <2>1, Holder
  <2>2. CASE runtimeLock = None BY <2>2, Exclusive
  <2> QED BY <2>1, <2>2
<1>2. \A u \in Threads \ {t} : (\A b : ~InHand(u, b)) /\ ~At(u, "collect")
  BY <1>1 DEF InHand, At, Locked
<1> QED BY <1>2 DEF NothingLost, Somebody

(* The step of the thread that has the lock.                               *)
LEMMA OwnStep ==
  ASSUME Core, NEW t \in Threads, Step(t), pc[t] \in Locked \/ runtimeLock = None,
         \A b \in DOMAIN mem' : b \in {Empty, buckets'} \cup garbage' \/ InHand(t, b)',
         pc'[t] = "setBuckets" /\ r'[t].old = None => buckets' = Empty,
         Cardinality(garbage') <= garbage_size',
         (Restartable => garbage_size < garbage_threshold \/ At(t, "collect"))'
  PROVE  NothingLost'
<1>1. \A u \in Threads \ {t} : pc[u] \notin Locked
  <2>1. CASE pc[t] \in Locked BY <2>1, Holder
  <2>2. CASE runtimeLock = None BY <2>2, Exclusive
  <2> QED BY <2>1, <2>2
<1>2. \A u \in Threads \ {t} : pc'[u] \in {pc[u], "slow"} BY OthersDoNotMove
<1>3. \A u \in Threads \ {t} : pc'[u] # "setBuckets" BY <1>1, <1>2 DEF Locked
<1> QED BY <1>3 DEF NothingLost, Somebody, At

(* A step that leaves the arrays where they are.                           *)
LEMMA HandsStay ==
  ASSUME Core, NothingLost, NEW t \in Threads, Step(t), build' = build,
         pc[t] \in Locked \/ runtimeLock = None,
         pc[t] \notin {"setBuckets", "setMask", "free", "collect"}, pc'[t] # "setBuckets",
         buckets' = buckets, UNCHANGED trash, DOMAIN mem' = DOMAIN mem
  PROVE  NothingLost'
<1> USE DEF trash
<1>1. /\ \A b \in DOMAIN mem : b \in {Empty, buckets} \cup garbage
      /\ Restartable => garbage_size < garbage_threshold
  BY OwnHands DEF InHand, At
<1>2. (Restartable' <=> Restartable) /\ garbage_threshold' = garbage_threshold BY SameBuild
<1>3. Cardinality(garbage') <= garbage_size' BY DEF NothingLost
<1> QED BY <1>1, <1>2, <1>3, OwnStep

(* A step of a search.                                                     *)
LEMMA ReaderLost ==
  ASSUME Core, NothingLost, NEW t \in Threads, ReadOnly, build' = build,
         pc[t] \notin Locked, NEW l \in Pcs \ Locked, pc' = [pc EXCEPT ![t] = l],
         \A u \in Threads \ {t} : r'[u] = r[u]
  PROVE  NothingLost'
<1> USE DEF ReadOnly, cache, trash
<1>0. pc \in [Threads -> Pcs] BY DEF Core, TypeOK
<1>1. pc'[t] = l /\ \A u \in Threads \ {t} : pc'[u] = pc[u] BY <1>0
<1>2. \A u \in Threads, b \in DOMAIN mem : InHand(u, b) => InHand(u, b)'
  BY <1>1 DEF InHand, Locked
<1>3. Somebody("collect") => Somebody("collect")' BY <1>1 DEF Somebody, At, Locked
<1>4. (Restartable' <=> Restartable) /\ garbage_threshold' = garbage_threshold BY SameBuild
<1>5. \A u \in Threads : At(u, "setBuckets")' => At(u, "setBuckets") /\ r'[u] = r[u]
  BY <1>1 DEF At, Locked
<1>6. (\A b \in DOMAIN mem : b \in {Empty, buckets} \cup garbage \/ \E u \in Threads : InHand(u, b))'
  BY <1>2 DEF NothingLost
<1>7. (\A u \in Threads : At(u, "setBuckets") /\ r[u].old = None => buckets = Empty)'
  BY <1>5 DEF NothingLost
<1> QED BY <1>3, <1>4, <1>6, <1>7 DEF NothingLost

(* Taking new buckets, or the empty ones, in the hand.                     *)
LEMMA TakeLost ==
  ASSUME Core, NothingLost, NEW t \in Threads, insert(t) \/ eraseNolock(t), build' = build
  PROVE  NothingLost'
<1>0. Step(t) /\ pc[t] \in {"insert", "erase"} /\ pc[t] \in Locked /\ UNCHANGED <<cache, trash>>
  BY DEF Step, Write, insert, eraseNolock, At, Locked
<1>1. r \in [Threads -> RegisterSet] /\ pc \in [Threads -> Pcs] BY DEF Core, TypeOK
<1>2. buckets \in Buffers \cup {Empty} /\ None \notin Buffers \cup {Empty}
  BY CacheAssumption DEF Core, TypeOK, Empty
<1>3. CASE DOMAIN mem' = DOMAIN mem /\ pc'[t] # "setBuckets"
  BY <1>0, <1>3, HandsStay DEF cache
<1>4. ASSUME NEW b, DOMAIN mem' \subseteq DOMAIN mem \cup {b}, pc'[t] = "setBuckets",
             r'[t].buckets = b, r'[t].old = None => buckets = Empty
      PROVE  NothingLost'
  <2>1. /\ \A x \in DOMAIN mem : x \in {Empty, buckets} \cup garbage
        /\ Restartable => garbage_size < garbage_threshold
    BY <1>0, OwnHands DEF InHand, At
  <2>2. InHand(t, b)' BY <1>4 DEF InHand
  <2>3. (Restartable' <=> Restartable) /\ garbage_threshold' = garbage_threshold BY SameBuild
  <2>4. buckets' = buckets /\ garbage' = garbage /\ garbage_size' = garbage_size
    BY <1>0 DEF cache, trash
  <2>5. Cardinality(garbage') <= garbage_size' BY <2>4 DEF NothingLost
  <2>6. ASSUME NEW x \in DOMAIN mem' PROVE x \in {Empty, buckets'} \cup garbage' \/ InHand(t, x)'
    BY <1>4, <2>1, <2>2, <2>4, <2>6
  <2> QED BY <1>0, <1>4, <2>1, <2>3, <2>4, <2>5, <2>6, OwnStep
<1>5. ASSUME NEW n, NEW old, reallocate(t, n, old), old = None => buckets = Empty PROVE NothingLost'
  <2>1. PICK b \in Buffers \ DOMAIN mem :
          /\ mem' = [x \in DOMAIN mem \cup {b} |-> IF x = b THEN allocateBuckets(n) ELSE mem[x]]
          /\ r' = [r EXCEPT ![t].buckets = b, ![t].mask = n - 1, ![t].old = old]
          /\ pc' = [pc EXCEPT ![t] = "setBuckets"]
    BY <1>5, ZenonT(30) DEF reallocate, Goto
  <2>2. r'[t].buckets = b /\ r'[t].old = old /\ pc'[t] = "setBuckets" BY <1>1, <2>1 DEF RegisterSet
  <2> QED BY <1>4, <1>5, <2>1, <2>2
<1>6. CASE insert(t)
  <2>1. CASE isConstantEmptyCache
    <3>1. reallocate(t, IF capacity = 0 THEN INIT_CACHE_SIZE ELSE capacity, None) /\ buckets = Empty
      BY <1>6, <2>1 DEF insert, isConstantEmptyCache
    <3> QED BY <1>5, <3>1
  <2>2. CASE ~isConstantEmptyCache /\ FitsCapacity(occupied + 1)
    <3>1. mem' = mem /\ pc'[t] = "place" BY <1>1, <1>6, <2>2 DEF insert, Goto
    <3> QED BY <1>3, <3>1
  <2>3. CASE ~isConstantEmptyCache /\ ~FitsCapacity(occupied + 1)
    <3>1. reallocate(t, Larger, buckets) BY <1>6, <2>3 DEF insert
    <3> QED BY <1>2, <1>5, <3>1
  <2> QED BY <2>1, <2>2, <2>3
<1>7. CASE eraseNolock(t)
  <2>1. mem' = mem BY <1>7 DEF eraseNolock
  <2>2. CASE occupied > 0
    <3>1. r'[t].buckets = Empty /\ r'[t].old = buckets /\ pc'[t] = "setBuckets"
      BY <1>1, <1>7, <2>2 DEF eraseNolock, Goto, RegisterSet
    <3> QED BY <1>2, <1>4, <2>1, <3>1
  <2>3. CASE ~(occupied > 0)
    <3>1. pc'[t] = "unlock" BY <1>1, <1>7, <2>3 DEF eraseNolock, Goto
    <3> QED BY <1>3, <2>1, <3>1
  <2> QED BY <2>2, <2>3
<1> QED BY <1>6, <1>7


(* Installing the buckets that are in the hand.                            *)
LEMMA SetLost ==
  ASSUME Core, NothingLost, NEW t \in Threads, SetBuckets(t) \/ SetMask(t), build' = build
  PROVE  NothingLost'
<1>0. /\ Step(t) /\ pc[t] \in {"setBuckets", "setMask"} /\ pc[t] \in Locked
      /\ UNCHANGED trash /\ mem' = mem /\ r' = r /\ buckets' = r[t].buckets
  BY DEF Step, Write, SetBuckets, SetMask, At, Locked
<1>1. Writes(t) /\ pc \in [Threads -> Pcs] BY <1>0, Holder
<1>2. pc'[t] = "setMask" \/ pc'[t] = AfterSet(t)
  BY <1>1, ZenonT(30) DEF SetBuckets, SetMask, Goto
<1>3. r[t].old # None => pc'[t] \in {"setMask", "free"} BY <1>2 DEF AfterSet
<1>4. pc'[t] # "setBuckets" BY <1>2 DEF AfterSet
<1>5. None \notin DOMAIN mem BY CacheAssumption DEF Core, TypeOK, Empty
<1>6. buckets = Empty \/ buckets = r[t].old \/ buckets = r[t].buckets
  <2>1. CASE pc[t] = "setMask" BY <1>1, <2>1 DEF Writes, At
  <2>2. CASE pc[t] = "setBuckets"
    <3>1. r[t].old \in {None, buckets} BY <1>1, <2>2 DEF Writes, At
    <3>2. r[t].old = None => buckets = Empty BY <2>2 DEF NothingLost, At
    <3> QED BY <3>1, <3>2
  <2> QED BY <1>0, <2>1, <2>2
<1>7. ASSUME NEW b \in DOMAIN mem, b = r[t].old PROVE InHand(t, b)'
  BY <1>0, <1>3, <1>5, <1>7 DEF InHand
<1>8. /\ \A b \in DOMAIN mem : b \in {Empty, buckets} \cup garbage \/ InHand(t, b)
      /\ Restartable => garbage_size < garbage_threshold
  BY <1>0, OwnHands DEF At
<1>9. ASSUME NEW b \in DOMAIN mem PROVE b \in {Empty, buckets'} \cup garbage \/ InHand(t, b)'
  <2>1. b \in {Empty, buckets, r[t].buckets, r[t].old} \cup garbage BY <1>8 DEF InHand
  <2> QED BY <1>0, <1>6, <1>7, <2>1
<1>10. (Restartable' <=> Restartable) /\ garbage_threshold' = garbage_threshold BY SameBuild
<1>11. garbage' = garbage /\ garbage_size' = garbage_size BY <1>0 DEF trash
<1>12. Cardinality(garbage') <= garbage_size' BY <1>11 DEF NothingLost
<1> QED BY <1>0, <1>4, <1>8, <1>9, <1>10, <1>11, <1>12, OwnStep

(* The old buckets become garbage; a full garbage is collected.            *)
LEMMA FreeLost ==
  ASSUME Core, NothingLost, NEW t \in Threads, collect_free(t), build' = build
  PROVE  NothingLost'
<1> DEFINE old == r[t].old
<1>0. /\ Step(t) /\ pc[t] = "free" /\ pc[t] \in Locked /\ buckets' = buckets /\ mem' = mem
      /\ garbage' = garbage \cup {old} /\ garbage_size' = garbage_size + CapacityOf(old)
  BY DEF Step, Write, collect_free, At, Locked, cache
<1>1. Writes(t) /\ pc \in [Threads -> Pcs] BY <1>0, Holder
<1>2. old \in DOMAIN mem \ garbage BY <1>0, <1>1 DEF Writes, At
<1>3. IsFiniteSet(garbage)
  <2>1. garbage \subseteq Buffers BY DEF Core, TypeOK
  <2> QED BY <2>1, MemoryAssumption, FS_Subset
<1>4. Cardinality(garbage') = Cardinality(garbage) + 1 /\ Cardinality(garbage) \in Nat
  BY <1>0, <1>2, <1>3, FS_AddElement, FS_CardinalityType
<1>5. CapacityOf(old) \in Nat /\ CapacityOf(old) > 0
  <2>1. CapacityOf(old) \in Nat /\ \A i \in DOMAIN mem[old] : i < CapacityOf(old) BY <1>2, CapacityType
  <2>2. PICK n \in 1 .. MAX_CACHE_SIZE : DOMAIN mem[old] = 0 .. n - 1
    BY <1>2, BufferFacts DEF BucketsOK
  <2>3. 0 \in 0 .. n - 1
    <3>1. MAX_CACHE_SIZE \in Nat BY BuildFacts DEF Core
    <3> QED BY <2>2, <3>1
  <2> QED BY <2>1, <2>2, <2>3
<1>6. Cardinality(garbage') <= garbage_size'
  <2>1. garbage_size \in Nat /\ Cardinality(garbage) <= garbage_size BY DEF Core, TypeOK, NothingLost
  <2> QED BY <1>0, <1>4, <1>5, <2>1
<1>7. ASSUME NEW b \in DOMAIN mem' PROVE b \in {Empty, buckets'} \cup garbage'
  <2>1. b \in {Empty, buckets} \cup garbage \/ InHand(t, b) BY <1>0, OwnHands
  <2> QED BY <1>0, <2>1 DEF InHand
<1>8. pc'[t] # "setBuckets" /\ (garbage_size' < garbage_threshold \/ pc'[t] = "collect")
  BY <1>1, ZenonT(30) DEF collect_free, Goto, AfterFree
<1>9. garbage_threshold' = garbage_threshold BY SameBuild
<1> HIDE DEF old
<1> QED BY <1>0, <1>6, <1>7, <1>8, <1>9, OwnStep DEF At

(* A collection, or a thread of it checked.                                *)
LEMMA CollectLost ==
  ASSUME Core, NothingLost, NEW t \in Threads, build' = build,
         CollectRestarting(t) \/ Collect(t) \/ \E u \in Threads : CheckThread(t, u)
  PROVE  NothingLost'
<1>0. Step(t) /\ pc[t] = "collect" /\ pc[t] \in Locked /\ buckets' = buckets
  BY DEF Step, Write, CollectRestarting, Collect, CheckThread, Dispose, cache, At, Locked
<1>1. pc \in [Threads -> Pcs] BY DEF Core, TypeOK
<1>2. pc'[t] # "setBuckets"
  BY <1>0, <1>1 DEF CollectRestarting, Collect, CheckThread, Goto, AfterFree
<1>3. \A b \in DOMAIN mem : b \in {Empty, buckets} \cup garbage BY <1>0, OwnHands DEF InHand
<1>4. garbage_threshold' = garbage_threshold /\ (Restartable' <=> Restartable) BY SameBuild
<1>5. CASE Dispose
  <2>1. garbage' = {} /\ garbage_size' = 0 /\ DOMAIN mem' = DOMAIN mem \ garbage
    BY <1>5 DEF Dispose
  <2>2. Cardinality(garbage') <= garbage_size' BY <2>1, FS_EmptySet
  <2>3. garbage_size' < garbage_threshold' BY <1>4, <2>1, BuildFacts DEF Core
  <2>4. \A b \in DOMAIN mem' : b \in {Empty, buckets'} BY <1>0, <1>3, <2>1
  <2> QED BY <1>0, <1>2, <2>2, <2>3, <2>4, OwnStep
<1>6. CASE ~Restartable /\ UNCHANGED <<mem, trash>>
  <2>1. Cardinality(garbage') <= garbage_size' BY <1>6 DEF trash, NothingLost
  <2> QED BY <1>0, <1>2, <1>3, <1>4, <1>6, <2>1, OwnStep DEF trash
<1> QED BY <1>5, <1>6 DEF CollectRestarting, Collect, CheckThread

(* Each step keeps every array accounted for.                              *)
LEMMA LostStep == ASSUME Core, NothingLost, [Next]_vars PROVE NothingLost'
<1>1. CASE UNCHANGED vars
  <2> USE <1>1 DEF vars, cache, trash
  <2>1. (Restartable' <=> Restartable) /\ garbage_threshold' = garbage_threshold BY SameBuild
  <2>2. \A t, b : InHand(t, b)' <=> InHand(t, b) BY DEF InHand
  <2>3. (\A b \in DOMAIN mem : b \in {Empty, buckets} \cup garbage \/ \E t \in Threads : InHand(t, b))'
    BY <2>2 DEF NothingLost
  <2> QED BY <2>1, <2>3 DEF NothingLost, Somebody, At
<1>2. ASSUME NEW t \in Threads, Step(t), build' = build PROVE NothingLost'
  <2>0. pc \in [Threads -> Pcs] /\ \A u \in Threads \ {t} : r'[u] = r[u]
    BY <1>2, OthersDoNotMove DEF Core, TypeOK
  <2>1. ASSUME NEW sel \in Selectors, objc_msgSend(t, sel) PROVE NothingLost'
    <3>1. ReadOnly /\ pc[t] \notin Locked BY <2>1 DEF objc_msgSend, At, Locked
    <3>2. pc' = [pc EXCEPT ![t] = "compare"] \/ pc' = [pc EXCEPT ![t] = "loadBuckets"]
      BY <2>1 DEF objc_msgSend, Goto
    <3>3. {"compare", "loadBuckets"} \subseteq Pcs \ Locked BY DEF Pcs, Locked
    <3> QED BY <1>2, <2>0, <3>1, <3>2, <3>3, ReaderLost
  <2>2. ASSUME NEW sel \in Selectors, method_setImplementation(t, sel) PROVE NothingLost'
    <3>1. pc'[t] # "setBuckets" /\ pc[t] = "idle" BY <2>0, <2>2 DEF method_setImplementation, Goto, At
    <3>2. UNCHANGED <<mem, cache, trash>> /\ runtimeLock = None
      BY <2>2 DEF method_setImplementation, Lock
    <3> QED BY <1>2, <3>1, <3>2, HandsStay DEF cache
  <2>3. CASE _objc_flush_caches(t) \/ lookUpImpOrForward(t) \/ CollectALot(t)
    <3>1. pc'[t] # "setBuckets" /\ pc[t] \in {"idle", "slow", "relock"}
      BY <2>0, <2>3 DEF _objc_flush_caches, lookUpImpOrForward, CollectALot, Goto, At
    <3>2. UNCHANGED <<mem, cache, trash>> /\ runtimeLock = None
      BY <2>3 DEF _objc_flush_caches, lookUpImpOrForward, CollectALot, Lock
    <3> QED BY <1>2, <3>1, <3>2, HandsStay DEF cache
  <2>4. CASE Search(t) \/ Interrupted(t) BY <1>2, <2>0, <2>4, ReaderSteps, ReaderLost
  <2>5. CASE Write(t)
    <3>1. CASE insert(t) \/ eraseNolock(t) BY <1>2, <3>1, TakeLost
    <3>2. CASE SetBuckets(t) \/ SetMask(t) BY <1>2, <3>2, SetLost
    <3>3. CASE Place(t) \/ SetSel(t)
      <4>1. DOMAIN mem' = DOMAIN mem BY <3>3, ZenonT(30) DEF Place, SetSel
      <4>2. buckets' = buckets /\ UNCHANGED trash BY <3>3, ZenonT(30) DEF Place, SetSel, cache
      <4>3. pc'[t] # "setBuckets" /\ pc[t] \in {"place", "setSel"}
        BY <2>0, <3>3, ZenonT(30) DEF Place, SetSel, Goto, At
      <4>4. pc[t] \in Locked BY <4>3 DEF Locked
      <4> QED BY <1>2, <4>1, <4>2, <4>3, <4>4, HandsStay
    <3>4. CASE Unlock(t)
      <4>1. pc'[t] # "setBuckets" /\ pc[t] = "unlock" BY <2>0, <3>4 DEF Unlock, Leave, Goto, At
      <4>2. pc[t] \in Locked BY <4>1 DEF Locked
      <4>3. UNCHANGED <<mem, cache, trash>> BY <3>4 DEF Unlock
      <4> QED BY <1>2, <4>1, <4>2, <4>3, HandsStay DEF cache
    <3>5. CASE collect_free(t) BY <1>2, <3>5, FreeLost
    <3>6. CASE CollectRestarting(t) \/ Collect(t) \/ \E u \in Threads : CheckThread(t, u)
      BY <1>2, <3>6, CollectLost
    <3> QED BY <2>5, <3>1, <3>2, <3>3, <3>4, <3>5, <3>6 DEF Write
  <2> QED BY <1>2, <2>1, <2>2, <2>3, <2>4, <2>5 DEF Step
<1> QED BY <1>1, <1>2 DEF Next

(* No array is allocated at first.                                         *)
LEMMA LostInit == ASSUME Init PROVE NothingLost
<1> USE DEF Init
<1>1. BuildOK(build) BY BuildsAssumption
<1>2. garbage_size < garbage_threshold BY <1>1 DEF BuildOK, garbage_threshold
<1>3. \A t \in Threads : pc[t] = "idle" OBVIOUS
<1>4. Cardinality(garbage) <= garbage_size BY FS_EmptySet
<1> QED BY <1>2, <1>3, <1>4 DEF NothingLost, At

(* What is accounted for is bounded: with restartable ranges the garbage   *)
(* stays below the threshold, and malloc has an array left for a writer.   *)
LEMMA LostIsBounded == ASSUME Core, NothingLost PROVE GarbageBounded
<1>1. ASSUME Restartable, runtimeLock = None PROVE garbage_size < garbage_threshold
  <2>1. \A t \in Threads : Writes(t) /\ runtimeLock # t BY <1>1, CacheAssumption DEF Core, ThreadOK
  <2>2. ~Somebody("collect") BY <2>1 DEF Writes, Somebody, At, Locked
  <2> QED BY <1>1, <2>2 DEF NothingLost
<1>2. ASSUME Restartable, NEW t \in Threads, At(t, "insert") PROVE Buffers \ DOMAIN mem # {}
  <2>1. pc[t] \in Locked BY <1>2 DEF At, Locked
  <2>2. /\ \A b \in DOMAIN mem : b \in {Empty, buckets} \cup garbage
        /\ garbage_size < garbage_threshold
    BY <1>2, <2>1, OwnHands DEF InHand, At
  <2>3. garbage \subseteq Buffers /\ garbage_size \in Nat /\ Cardinality(garbage) <= garbage_size
    BY DEF Core, TypeOK, NothingLost
  <2>4. IsFiniteSet(garbage) /\ Cardinality(garbage) \in Nat
    BY <2>3, MemoryAssumption, FS_Subset, FS_CardinalityType
  <2> DEFINE used == garbage \cup {buckets}
  <2>5. IsFiniteSet(used) /\ Cardinality(used) \in Nat /\ Cardinality(used) <= Cardinality(garbage) + 1
    <3>1. IsFiniteSet(used)
          /\ (Cardinality(used) = Cardinality(garbage) \/ Cardinality(used) = Cardinality(garbage) + 1)
      BY <2>4, FS_AddElement
    <3> QED BY <2>4, <3>1
  <2>6. Cardinality(Buffers) > garbage_threshold /\ garbage_threshold \in Nat
        /\ IsFiniteSet(Buffers) /\ Cardinality(Buffers) \in Nat
    <3>1. build \in Builds /\ build.restartable BY <1>2 DEF Core, TypeOK, Restartable
    <3> QED BY <3>1, MemoryAssumption, BuildFacts, FS_CardinalityType DEF Core, garbage_threshold
  <2> HIDE DEF used
  <2>7. ~(Buffers \subseteq used)
    <3>1. Cardinality(used) < Cardinality(Buffers) BY <2>2, <2>3, <2>4, <2>5, <2>6
    <3>2. Buffers \subseteq used => Cardinality(Buffers) <= Cardinality(used) BY <2>5, FS_Subset
    <3> QED BY <2>5, <2>6, <3>1, <3>2
  <2>8. Empty \notin Buffers BY CacheAssumption
  <2> QED BY <2>2, <2>7, <2>8 DEF used
<1> QED BY <1>1, <1>2 DEF GarbageBounded

(* No array of buckets is leaked by insert, eraseNolock, collect_free or a *)
(* collection, for any sizes and any number of threads.                    *)
THEOREM CacheNothingLost == Spec => [](Core /\ NothingLost)
<1>1. Init => Core /\ NothingLost BY CoreInit, LostInit
<1>2. Core /\ NothingLost /\ [Next]_vars => Core' /\ NothingLost' BY CoreStep, LostStep
<1> QED BY <1>1, <1>2, PTL DEF Spec

-----------------------------------------------------------------------------
(* What malloc returns is only ever written bucket by bucket.              *)
Array(f) == f = [i \in DOMAIN f |-> f[i]]
Arrays == \A b \in DOMAIN mem : Array(mem[b])

(* A store into one bucket of one array, as in bucket_t::set.              *)
LEMMA StoreArrays ==
  ASSUME Arrays, NEW x, NEW i, NEW e, mem' = [mem EXCEPT ![x][i] = e]
  PROVE  Arrays'
<1>1. DOMAIN mem' = DOMAIN mem OBVIOUS
<1>2. ASSUME NEW b \in DOMAIN mem PROVE Array(mem'[b])
  <2>1. CASE b = x
    <3>1. mem'[b] = [mem[b] EXCEPT ![i] = e] BY <1>2, <2>1
    <3> QED BY <3>1 DEF Array
  <2>2. CASE b # x
    <3>1. mem'[b] = mem[b] BY <1>2, <2>2
    <3> QED BY <1>2, <3>1 DEF Arrays
  <2> QED BY <2>1, <2>2
<1> QED BY <1>1, <1>2 DEF Arrays

(* insert allocates an array of buckets and keeps the others.              *)
LEMMA AllocatedArrays ==
  ASSUME Arrays, NEW t \in Threads, NEW n, NEW old, reallocate(t, n, old)
  PROVE  Arrays'
<1>1. PICK x : mem' = [b \in DOMAIN mem \cup {x} |-> IF b = x THEN allocateBuckets(n) ELSE mem[b]]
  BY DEF reallocate
<1>2. Array(allocateBuckets(n)) BY DEF Array, allocateBuckets
<1>3. ASSUME NEW b \in DOMAIN mem' PROVE Array(mem'[b])
  <2>1. b = x \/ b \in DOMAIN mem BY <1>1, <1>3
  <2>2. mem'[b] = IF b = x THEN allocateBuckets(n) ELSE mem[b] BY <1>1, <2>1
  <2> QED BY <1>2, <2>1, <2>2 DEF Arrays
<1> QED BY <1>3 DEF Arrays

(* A collection only frees arrays.                                         *)
LEMMA DisposedArrays == ASSUME Arrays, Dispose PROVE Arrays'
<1>1. ASSUME NEW b \in DOMAIN mem' PROVE b \in DOMAIN mem /\ mem'[b] = mem[b] BY <1>1 DEF Dispose
<1> QED BY <1>1 DEF Arrays

(* Every step leaves arrays of buckets.                                    *)
LEMMA ArraysStep == ASSUME Arrays, [Next]_vars PROVE Arrays'
<1>1. CASE UNCHANGED mem BY <1>1 DEF Arrays
<1>2. ASSUME Next PROVE Arrays'
  <2>1. PICK t \in Threads : Step(t) BY <1>2 DEF Next
  <2>2. CASE \E sel \in Selectors : objc_msgSend(t, sel) \/ method_setImplementation(t, sel)
    BY <1>1, <2>2 DEF objc_msgSend, method_setImplementation, ReadOnly
  <2>3. CASE _objc_flush_caches(t) \/ lookUpImpOrForward(t) \/ CollectALot(t)
    BY <1>1, <2>3 DEF _objc_flush_caches, lookUpImpOrForward, CollectALot
  <2>4. CASE Search(t) \/ Interrupted(t)
    <3>1. LoadBuckets(t) \/ Compare(t) \/ CacheHit(t) \/ CallImp(t) => ReadOnly
      BY DEF LoadBuckets, Compare, CacheHit, CallImp
    <3>2. ComparePacked(t) \/ Classify(t) \/ Interrupted(t) => ReadOnly
      BY ZenonT(30) DEF ComparePacked, Classify, Interrupted
    <3>3. ReadOnly => UNCHANGED mem BY DEF ReadOnly
    <3> QED BY <1>1, <2>4, <3>1, <3>2, <3>3 DEF Search
  <2>5. CASE insert(t) BY <1>1, <2>5, AllocatedArrays DEF insert
  <2>6. CASE Place(t)
    <3>1. UNCHANGED mem \/ \E x, i, e : mem' = [mem EXCEPT ![x][i] = e] BY <2>6 DEF Place
    <3> QED BY <1>1, <3>1, StoreArrays
  <2>7. CASE SetSel(t)
    <3> DEFINE k == r[t].i
               e == Bucket(r[t].sel, r[t].imp)
    <3>1. mem' = [mem EXCEPT ![buckets][k] = e] BY <2>7 DEF SetSel
    <3> HIDE DEF k, e
    <3> QED BY <3>1, StoreArrays, ZenonT(30)
  <2>8. CASE SetBuckets(t) \/ SetMask(t) \/ eraseNolock(t) \/ Unlock(t) \/ collect_free(t)
    BY <1>1, <2>8 DEF SetBuckets, SetMask, eraseNolock, Unlock, collect_free
  <2>9. CASE CollectRestarting(t) \/ Collect(t) BY <2>9, DisposedArrays DEF CollectRestarting, Collect
  <2>10. CASE \E u \in Threads : CheckThread(t, u) BY <1>1, <2>10 DEF CheckThread
  <2> QED BY <2>1, <2>2, <2>3, <2>4, <2>5, <2>6, <2>7, <2>8, <2>9, <2>10 DEF Step, Write
<1> QED BY <1>1, <1>2 DEF vars

(* Only arrays are ever allocated.                                         *)
THEOREM CacheArrays == Spec => []Arrays
<1>1. Init => Arrays BY DEF Init, Arrays, Array
<1>2. Arrays /\ [Next]_vars => Arrays' BY ArraysStep
<1> QED BY <1>1, <1>2, PTL DEF Spec

(* What Core says of each bucket is what BufferOK says of the array.       *)
LEMMA BucketsAreBuffer ==
  ASSUME Arrays, NEW b \in DOMAIN mem, b # Empty, BucketsOK(b)
  PROVE  BufferOK(b)
<1>1. PICK n \in 1 .. MAX_CACHE_SIZE :
        /\ DOMAIN mem[b] = 0 .. n - 1
        /\ \A i \in 0 .. n - 1 : mem[b][i].sel = End <=> ~Packed /\ i = n - 1
  BY DEF BucketsOK
<1>2. \A i \in 0 .. n - 1 : /\ mem[b][i] \in BucketSet
                            /\ mem[b][i].sel \in Selectors =>
                                 mem[b][i].imp \in {mem[b][i].sel} \X (0 .. imps[mem[b][i].sel])
  BY <1>1 DEF BucketsOK, BucketSet
<1>3. mem[b] = [i \in 0 .. n - 1 |-> mem[b][i]] BY <1>1 DEF Arrays, Array
<1>4. mem[b] \in [0 .. n - 1 -> BucketSet] BY <1>2, <1>3
<1>5. n - 1 \in 0 .. n - 1 BY <1>1
<1>6. {i \in 0 .. n - 1 : mem[b][i].sel = End} = IF Packed THEN {} ELSE {n - 1} BY <1>1, <1>5
<1> QED BY <1>2, <1>4, <1>6 DEF BufferOK

(* The cache keeps its shape: searches stay inside allocated buckets,      *)
(* entries are found, an insert finds a bucket, garbage is bounded.        *)
THEOREM CacheInvariant == Spec => []CacheInv
<1>1. Core => SearchesAllocated BY DEF Core, ThreadOK, Allocated, SearchesAllocated
<1>2. Room => NeverBadCache BY DEF Room, NeverBadCache
<1>3. Core /\ Room => Findable BY FilledIsFindable
<1>4. Core /\ NothingLost => GarbageBounded BY LostIsBounded
<1>5. Core /\ Room /\ NothingLost /\ Arrays => CacheInv
  <2>1. Core => /\ TypeOK /\ CacheOK /\ EntriesFresh /\ \A s \in Selectors : settled[s] <= imps[s]
                /\ \A b \in DOMAIN mem : BucketsOK(b)
                /\ \A t \in Threads : Writes(t)
    BY DEF Core, SharedOK, ThreadOK
  <2>2. Core /\ Arrays => \A b \in DOMAIN mem \ {Empty} : BufferOK(b) BY <2>1, BucketsAreBuffer
  <2>3. Core => \A t \in Threads : pc[t] \in Locked <=> runtimeLock = t BY <2>1 DEF Writes
  <2> QED BY <1>1, <1>2, <1>3, <1>4, <2>1, <2>2, <2>3 DEF CacheInv
<1> QED BY <1>5, CacheRoom, CacheNothingLost, CacheArrays, PTL

=============================================================================
