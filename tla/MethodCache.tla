---------------------------- MODULE MethodCache -----------------------------
(***************************************************************************)
(* The method cache of a class (objc-cache.mm) and the code around it:     *)
(* objc_msgSend, which searches the cache with no lock; the slow path      *)
(* (lookUpImpOrForward) that fills it and the method changes that flush    *)
(* it, both under runtimeLock; and the collection of discarded buckets.    *)
(*                                                                         *)
(* Packed is the arm64 build: mask and buckets are one word, a bucket is   *)
(* one store, the search goes down and needs no end marker, and a small    *)
(* cache may be filled completely.  Otherwise it is the x86_64 build: mask *)
(* and buckets are two words, a bucket is written imp first, the search    *)
(* goes up to an end marker.  Restartable says that the kernel resets the  *)
(* threads that are inside a search (HAVE_TASK_RESTARTABLE_RANGES);        *)
(* otherwise the collector looks at one thread's PC after the other.  The  *)
(* build never changes: every behaviour is one of some build of Builds.    *)
(***************************************************************************)
EXTENDS Integers, FiniteSets, FiniteSetsExt

CONSTANTS
    Threads, None,
    Selectors, Value,           \* the address of a selector, for cache_hash
    Builds,                     \* what the preprocessor settles, see BuildOK
    Buffers,                    \* bound: bucket arrays that malloc can give out
    Changeable, MaxChanges      \* bounds: methods that change, and how often

Empty == 0                      \* _objc_empty_cache
Nil == "0"                      \* no selector
End == "1"                      \* the selector of the end marker

ASSUME CacheAssumption ==
    /\ Buffers \subseteq Nat \ {Empty} /\ None \notin Nat \cup Threads
    /\ {Nil, End} \cap Selectors = {} /\ Value \in [Selectors -> Nat] /\ MaxChanges \in Nat

\* max and full bound the sizes below 2^16 and 8, threshold counts buckets;
\* INIT_CACHE_SIZE is 4 or 2.
BuildOK(x) ==
    /\ x.packed \in BOOLEAN /\ x.restartable \in BOOLEAN
    /\ x.init \in Nat /\ x.init >= 2 /\ x.max \in Nat /\ x.max >= x.init
    /\ x.full \in Nat /\ x.threshold \in Nat \ {0}
ASSUME BuildsAssumption == \A x \in Builds: BuildOK(x)

\* malloc gives out as many arrays as garbage_threshold lets pile up.
ASSUME MemoryAssumption ==
    IsFiniteSet(Buffers) /\ \A x \in Builds: x.restartable => Cardinality(Buffers) > x.threshold

VARIABLES
    build,
    mem,                        \* the contents of the allocated bucket arrays
    buckets, mask, occupied,    \* cache_t
    garbage, garbage_size,
    imps,                       \* the implementation of each method, by age
    settled,                    \* the implementation whose change has returned
    missed,                     \* selectors whose replaced implementation was left in the cache
    runtimeLock,
    pc, r                       \* of each thread: where it is, and its registers

cache == <<buckets, mask, occupied>>
trash == <<garbage, garbage_size>>
methods == <<imps, settled, missed>>
vars == <<build, mem, cache, trash, methods, runtimeLock, pc, r>>

Packed == build.packed
Restartable == build.restartable
INIT_CACHE_SIZE == build.init
MAX_CACHE_SIZE == build.max
FULL_UTILIZATION_CACHE_SIZE == build.full
garbage_threshold == build.threshold

CACHE_END_MARKER == IF Packed THEN 0 ELSE 1
cache_fill_ratio(n) == IF Packed THEN (n * 7) \div 8 ELSE (n * 3) \div 4
cache_next(i, m) == IF Packed THEN (IF i = 0 THEN m ELSE i - 1) ELSE (i + 1) % (m + 1)
cache_hash(sel, m) == Value[sel] % (m + 1)
capacity == IF mask = 0 THEN 0 ELSE mask + 1

Bucket(sel, imp) == [sel |-> sel, imp |-> imp]
Vacant == Bucket(Nil, None)
allocateBuckets(n) ==
    [i \in 0 .. n - 1 |-> IF ~Packed /\ i = n - 1 THEN Bucket(End, None) ELSE Vacant]
CapacityOf(b) == Max(DOMAIN mem[b]) + 1

Registers == [sel |-> Nil, since |-> 0, mask |-> 0, buckets |-> Empty, first |-> 0, i |-> 0,
              wrapped |-> FALSE, imp |-> None,
              op |-> "send", old |-> None, unchecked |-> {}]

Init ==
    /\ build \in Builds
    /\ mem = [b \in {Empty} |-> [i \in 0 .. MAX_CACHE_SIZE - 1 |-> Vacant]]
    /\ buckets = Empty /\ mask = 0 /\ occupied = 0
    /\ garbage = {} /\ garbage_size = 0
    /\ imps = [s \in Selectors |-> 0] /\ settled = [s \in Selectors |-> 0] /\ missed = {}
    /\ runtimeLock = None
    /\ pc = [t \in Threads |-> "idle"] /\ r = [t \in Threads |-> Registers]

Goto(t, label) == pc' = [pc EXCEPT ![t] = label]
At(t, label) == pc[t] = label

-----------------------------------------------------------------------------
(* objc_msgSend: CacheLookup.  Every pc in Critical is inside the          *)
(* restartable range.                                                      *)

Critical(t) == pc[t] \in {"loadBuckets", "compare", "classify", "hit"}
Dereferences(t) == pc[t] \in {"compare", "classify", "hit"}

Here(t) == mem[r[t].buckets][r[t].i]
Probe(t, i, wrapped) ==
    r' = [r EXCEPT ![t].i = i, ![t].wrapped = wrapped] /\ Goto(t, "compare")
Leave(t, label, imp) ==
    /\ r' = [r EXCEPT ![t] = [Registers EXCEPT !.sel = r[t].sel, !.since = r[t].since, !.imp = imp]]
    /\ Goto(t, label)
Miss(t) == Leave(t, "slow", None)
Hit(t) == Leave(t, "return", Here(t).imp)
ReadOnly == UNCHANGED <<mem, cache, trash, methods, runtimeLock>>

objc_msgSend(t, sel) ==
    /\ At(t, "idle")
    /\ LET start == [Registers EXCEPT !.sel = sel, !.since = settled[sel], !.mask = mask]
           i == cache_hash(sel, mask)
       IN  IF Packed
           THEN /\ r' = [r EXCEPT ![t] = [start EXCEPT !.buckets = buckets, !.first = i, !.i = i]]
                /\ Goto(t, "compare")
           ELSE r' = [r EXCEPT ![t] = start] /\ Goto(t, "loadBuckets")
    /\ ReadOnly

LoadBuckets(t) ==
    /\ At(t, "loadBuckets")
    /\ r' = [r EXCEPT ![t].buckets = buckets, ![t].i = cache_hash(r[t].sel, r[t].mask)]
    /\ Goto(t, "compare")
    /\ ReadOnly

ComparePacked_Circles(t) ==
    /\ Packed /\ At(t, "compare")
    /\ IF Here(t).sel = r[t].sel
       THEN Hit(t)
       ELSE IF Here(t).sel = Nil THEN Miss(t)
       ELSE IF r[t].i > 0 THEN Probe(t, r[t].i - 1, FALSE) ELSE Probe(t, r[t].mask, TRUE)
    /\ ReadOnly

(* arm64: selector and implementation are one load.                        *)
ComparePacked(t) ==
    /\ Packed /\ At(t, "compare")
    /\ LET i == r[t].i IN
       IF Here(t).sel = r[t].sel
       THEN Hit(t)
       ELSE IF Here(t).sel = Nil THEN Miss(t)
       ELSE IF ~r[t].wrapped
       THEN IF i > 0 THEN Probe(t, i - 1, FALSE) ELSE Probe(t, r[t].mask, TRUE)
       ELSE IF i > r[t].first + 1 THEN Probe(t, i - 1, TRUE) ELSE Miss(t)
    /\ ReadOnly

(* x86_64: the selector is compared with _cmd, and loaded again to find    *)
(* out whether the bucket is vacant or the end marker.                     *)
Compare(t) ==
    /\ ~Packed /\ At(t, "compare")
    /\ Goto(t, IF Here(t).sel = r[t].sel THEN "hit" ELSE "classify")
    /\ UNCHANGED r /\ ReadOnly

Classify(t) ==
    /\ At(t, "classify")
    /\ LET sel == Here(t).sel IN
       IF sel = Nil \/ (sel = End /\ r[t].wrapped) THEN Miss(t)
       ELSE IF sel = End THEN Probe(t, 0, TRUE)
       ELSE Probe(t, r[t].i + 1, r[t].wrapped)
    /\ ReadOnly

CacheHit(t) ==
    /\ At(t, "hit")
    /\ Hit(t)
    /\ ReadOnly

CallImp(t) ==
    /\ At(t, "return")
    /\ r' = [r EXCEPT ![t] = Registers] /\ Goto(t, "idle")
    /\ ReadOnly

(* A signal whose handler returns into the range: the search is abandoned. *)
Interrupted(t) == Restartable /\ Critical(t) /\ Miss(t) /\ ReadOnly

-----------------------------------------------------------------------------
(* Writers: the thread that holds runtimeLock.                             *)

Lock(t) == runtimeLock = None /\ runtimeLock' = t

(* The search of the method lists, with the lock held.                     *)
lookUpImp_Stale(t) == <<r[t].sel, r[t].since>>
lookUpImp(t) == <<r[t].sel, imps[r[t].sel]>>

lookUpImpOrForward(t) ==
    /\ At(t, "slow") /\ Lock(t)
    /\ r' = [r EXCEPT ![t] = [Registers EXCEPT !.op = "insert", !.sel = r[t].sel,
                              !.since = r[t].since, !.imp = lookUpImp(t)]]
    /\ Goto(t, "insert")
    /\ UNCHANGED <<mem, cache, trash, methods>>

isConstantEmptyCache == occupied = 0 /\ buckets = Empty

FitsCapacity(n) ==
    \/ n + CACHE_END_MARKER <= cache_fill_ratio(capacity)
    \/ Packed /\ capacity <= FULL_UTILIZATION_CACHE_SIZE /\ n + CACHE_END_MARKER <= capacity

Larger == IF capacity = 0 THEN INIT_CACHE_SIZE ELSE Min({capacity * 2, MAX_CACHE_SIZE})

(* reallocate: the new buckets are allocated; setBucketsAndMask follows.   *)
(* old is what collect_free is then given, None for nothing.               *)
reallocate(t, n, old) ==
    \E b \in Buffers \ DOMAIN mem:
        /\ \A c \in Buffers \ DOMAIN mem: b <= c
        /\ mem' = [x \in DOMAIN mem \cup {b} |-> IF x = b THEN allocateBuckets(n) ELSE mem[x]]
        /\ r' = [r EXCEPT ![t].buckets = b, ![t].mask = n - 1, ![t].old = old]
        /\ Goto(t, "setBuckets")

insert(t) ==
    /\ At(t, "insert")
    /\ IF isConstantEmptyCache
       THEN reallocate(t, IF capacity = 0 THEN INIT_CACHE_SIZE ELSE capacity, None)
       ELSE IF FitsCapacity(occupied + 1)
       THEN Goto(t, "place") /\ UNCHANGED <<mem, r>>
       ELSE reallocate(t, Larger, buckets)
    /\ UNCHANGED <<cache, trash, methods, runtimeLock>>

AfterSet(t) == IF r[t].old # None THEN "free" ELSE IF r[t].op = "insert" THEN "place" ELSE "unlock"

SetBuckets_MaskFirst(t) ==
    /\ At(t, "setBuckets")
    /\ mask' = r[t].mask /\ UNCHANGED <<buckets, occupied>> /\ Goto(t, "setMask")
    /\ UNCHANGED <<mem, trash, methods, runtimeLock, r>>
SetBuckets(t) ==
    /\ At(t, "setBuckets")
    /\ buckets' = r[t].buckets
    /\ IF Packed
       THEN mask' = r[t].mask /\ occupied' = 0 /\ Goto(t, AfterSet(t))
       ELSE UNCHANGED <<mask, occupied>> /\ Goto(t, "setMask")
    /\ missed' = {}
    /\ UNCHANGED <<mem, trash, imps, settled, runtimeLock, r>>

SetMask(t) ==
    /\ At(t, "setMask")
    /\ mask' = r[t].mask /\ buckets' = r[t].buckets /\ occupied' = 0 /\ Goto(t, AfterSet(t))
    /\ UNCHANGED <<mem, trash, methods, runtimeLock, r>>

(* The slots in the order in which insert tries them.                      *)
Path(sel, m) ==
    LET slot[n \in 0 .. m] ==
            IF n = 0 THEN cache_hash(sel, m) ELSE cache_next(slot[n - 1], m)
    IN  slot
Slots(b, sel, m, wanted) == {n \in 0 .. m: mem[b][Path(sel, m)[n]].sel \in wanted}

(* bucket_t::set of x86_64: imp first, then the selector.                  *)
FirstStore_Sel(x, sel, imp) == [x EXCEPT !.sel = sel]
FirstStore(x, sel, imp) == [x EXCEPT !.imp = imp]

Place(t) ==
    /\ At(t, "place")
    /\ LET sel == r[t].sel
           free == Slots(buckets, sel, mask, {Nil, sel})
           i == Path(sel, mask)[Min(free)]
       IN  IF free = {}
           THEN Goto(t, "bad_cache") /\ UNCHANGED <<mem, occupied, r>>
           ELSE IF mem[buckets][i].sel = sel
           THEN Goto(t, "unlock") /\ UNCHANGED <<mem, occupied, r>>
           ELSE /\ occupied' = occupied + 1
                /\ r' = [r EXCEPT ![t].i = i]
                /\ IF Packed
                   THEN mem' = [mem EXCEPT ![buckets][i] = Bucket(sel, r[t].imp)] /\ Goto(t, "unlock")
                   ELSE mem' = [mem EXCEPT ![buckets][i] = FirstStore(@, sel, r[t].imp)] /\ Goto(t, "setSel")
    /\ UNCHANGED <<buckets, mask, trash, methods, runtimeLock>>

SetSel(t) ==
    /\ At(t, "setSel")
    /\ mem' = [mem EXCEPT ![buckets][r[t].i] = Bucket(r[t].sel, r[t].imp)]
    /\ Goto(t, "unlock")
    /\ UNCHANGED <<cache, trash, methods, runtimeLock, r>>

-----------------------------------------------------------------------------
(* Method changes and flushes                                              *)

(* cache_getImp(cls, sel) == imp, where imp is what is being replaced.      *)
shouldFlush(sel) ==
    \E i \in DOMAIN mem[buckets]: mem[buckets][i] = Bucket(sel, <<sel, imps[sel]>>)

(* cache_getImp is a search like that of objc_msgSend, and finds nothing   *)
(* when a signal interrupts it: the caches are then not flushed.           *)
Finds(sel) == {shouldFlush(sel)} \cup (IF Restartable THEN {FALSE} ELSE {})

method_setImplementation(t, sel) ==
    /\ At(t, "idle") /\ sel \in Changeable /\ imps[sel] < MaxChanges /\ Lock(t)
    /\ imps' = [imps EXCEPT ![sel] = @ + 1]
    /\ r' = [r EXCEPT ![t] = [Registers EXCEPT !.op = "change", !.sel = sel]]
    /\ \E found \in Finds(sel):
        /\ Goto(t, IF found THEN "erase" ELSE "unlock")
        /\ missed' = IF shouldFlush(sel) /\ ~found THEN missed \cup {sel} ELSE missed
    /\ UNCHANGED <<mem, cache, trash, settled>>

_objc_flush_caches(t) ==
    /\ At(t, "idle") /\ Lock(t)
    /\ r' = [r EXCEPT ![t] = [Registers EXCEPT !.op = "flush"]]
    /\ Goto(t, "erase")
    /\ UNCHANGED <<mem, cache, trash, methods>>

eraseNolock(t) ==
    /\ At(t, "erase")
    /\ IF occupied > 0
       THEN /\ r' = [r EXCEPT ![t].buckets = Empty, ![t].mask = mask, ![t].old = buckets]
            /\ Goto(t, "setBuckets")
       ELSE UNCHANGED r /\ Goto(t, "unlock")
    /\ UNCHANGED <<mem, cache, trash, methods, runtimeLock>>

(* Unlock: the send has its implementation; a change has taken effect,     *)
(* unless the cache still holds what it replaced; a flush of all caches    *)
(* goes on to take the lock again and collect.                             *)
Unlock(t) ==
    /\ At(t, "unlock")
    /\ runtimeLock' = None
    /\ settled' = [s \in Selectors |-> IF s \in missed THEN settled[s] ELSE imps[s]]
    /\ IF r[t].op = "insert" THEN Leave(t, "return", r[t].imp)
       ELSE /\ Goto(t, IF r[t].op = "flush" THEN "relock" ELSE "idle")
            /\ r' = [r EXCEPT ![t] = Registers]
    /\ UNCHANGED <<mem, cache, trash, imps, missed>>

CollectALot(t) ==
    /\ At(t, "relock") /\ Lock(t)
    /\ r' = [r EXCEPT ![t] = [Registers EXCEPT !.op = "collectALot", !.unchecked = Threads \ {t}]]
    /\ Goto(t, "collect")
    /\ UNCHANGED <<mem, cache, trash, methods>>

-----------------------------------------------------------------------------
(* Collection of discarded buckets                                         *)

AfterFree(t) == IF r[t].op = "insert" THEN "place" ELSE "unlock"

collect_free(t) ==
    /\ At(t, "free")
    /\ garbage' = garbage \cup {r[t].old}
    /\ garbage_size' = garbage_size + CapacityOf(r[t].old)
    /\ IF garbage_size' < garbage_threshold
       THEN Goto(t, AfterFree(t)) /\ UNCHANGED r
       ELSE r' = [r EXCEPT ![t].unchecked = Threads \ {t}] /\ Goto(t, "collect")
    /\ UNCHANGED <<mem, cache, methods, runtimeLock>>

Dispose ==
    /\ mem' = [b \in DOMAIN mem \ garbage |-> mem[b]]
    /\ garbage' = {} /\ garbage_size' = 0
    /\ UNCHANGED <<cache, methods, runtimeLock>>

(* task_restartable_ranges_synchronize resets the searches of all threads. *)
CollectRestarting(t) ==
    /\ Restartable /\ At(t, "collect")
    /\ pc' = [u \in Threads |-> IF u = t THEN AfterFree(t) ELSE IF Critical(u) THEN "slow" ELSE pc[u]]
    /\ Dispose /\ UNCHANGED r

(* _collecting_in_critical: one thread after the other.  A thread whose    *)
(* state cannot be read counts as being in a search.                       *)
CheckThread(t, u) ==
    /\ ~Restartable /\ At(t, "collect") /\ u \in r[t].unchecked
    /\ \E busy \in {TRUE, Critical(u)}:
        IF ~busy THEN r' = [r EXCEPT ![t].unchecked = @ \ {u}] /\ UNCHANGED pc
        ELSE IF r[t].op = "collectALot"
        THEN r' = [r EXCEPT ![t].unchecked = Threads \ {t}] /\ UNCHANGED pc
        ELSE r' = [r EXCEPT ![t].unchecked = {}] /\ Goto(t, AfterFree(t))
    /\ UNCHANGED <<mem, cache, trash, methods, runtimeLock>>

Collect(t) ==
    /\ ~Restartable /\ At(t, "collect") /\ r[t].unchecked = {}
    /\ Dispose /\ Goto(t, AfterFree(t)) /\ UNCHANGED r

-----------------------------------------------------------------------------
Search(t) ==
    \/ LoadBuckets(t) \/ ComparePacked(t) \/ Compare(t) \/ Classify(t) \/ CacheHit(t) \/ CallImp(t)

Write(t) ==
    \/ insert(t) \/ SetBuckets(t) \/ SetMask(t) \/ Place(t) \/ SetSel(t)
    \/ eraseNolock(t) \/ Unlock(t)
    \/ collect_free(t) \/ CollectRestarting(t) \/ Collect(t)
    \/ \E u \in Threads: CheckThread(t, u)

Step(t) ==
    \/ \E sel \in Selectors: objc_msgSend(t, sel) \/ method_setImplementation(t, sel)
    \/ _objc_flush_caches(t)
    \/ Search(t) \/ Interrupted(t) \/ lookUpImpOrForward(t) \/ Write(t) \/ CollectALot(t)

Next == (\E t \in Threads: Step(t)) /\ UNCHANGED build

Spec == Init /\ [][Next]_vars

-----------------------------------------------------------------------------
Imps == Selectors \X (0 .. MaxChanges)
Locked == {"insert", "setBuckets", "setMask", "place", "setSel", "erase", "unlock", "free", "collect",
           "bad_cache"}
Pcs == Locked \cup {"idle", "loadBuckets", "compare", "classify", "hit", "return", "slow", "relock"}
RegisterSet ==
    [sel: Selectors \cup {Nil}, since: 0 .. MaxChanges, mask: 0 .. MAX_CACHE_SIZE - 1,
     buckets: Buffers \cup {Empty}, first: Nat, i: Nat, wrapped: BOOLEAN, imp: Imps \cup {None},
     op: {"send", "insert", "change", "flush", "collectALot"}, old: Buffers \cup {None},
     unchecked: SUBSET Threads]

(* The types; _objc_empty_cache, which all classes share, is never written *)
(* and never freed, and no garbage is in use as the cache; a change misses *)
(* an entry only where searches are restartable.                           *)
TypeOK ==
    /\ build \in Builds
    /\ Empty \in DOMAIN mem /\ DOMAIN mem \subseteq Buffers \cup {Empty}
    /\ mem[Empty] = [i \in 0 .. MAX_CACHE_SIZE - 1 |-> Vacant]
    /\ buckets \in DOMAIN mem \ garbage /\ garbage \subseteq DOMAIN mem \ {Empty}
    /\ mask \in 0 .. MAX_CACHE_SIZE - 1 /\ occupied \in Nat /\ garbage_size \in Nat
    /\ imps \in [Selectors -> 0 .. MaxChanges] /\ settled \in [Selectors -> 0 .. MaxChanges]
    /\ missed \subseteq Selectors /\ (missed # {} => Restartable)
    /\ runtimeLock \in Threads \cup {None}
    /\ pc \in [Threads -> Pcs] /\ r \in [Threads -> RegisterSet]

BucketSet == [sel: Selectors \cup {Nil, End}, imp: Imps \cup {None}]

(* An array of buckets: the end marker of x86_64 is its last one, and the  *)
(* entry of a selector holds one of its implementations (allocateBuckets,  *)
(* bucket_t::set).                                                         *)
BufferOK(b) ==
    \E n \in 1 .. MAX_CACHE_SIZE:
        /\ mem[b] \in [0 .. n - 1 -> BucketSet]
        /\ {i \in 0 .. n - 1: mem[b][i].sel = End} = IF Packed THEN {} ELSE {n - 1}
        /\ \A e \in {mem[b][i]: i \in 0 .. n - 1}:
              e.sel \in Selectors => e.imp \in {e.sel} \X (0 .. imps[e.sel])

(* The cache in use has room for its mask, and occupied tells whether it   *)
(* has entries; when the buckets and the mask are two stores, it is reset  *)
(* with the second.                                                        *)
Entries == {i \in DOMAIN mem[buckets]: mem[buckets][i].sel \in Selectors}
CacheOK ==
    /\ 0 .. mask \subseteq DOMAIN mem[buckets]
    /\ occupied = 0 => Entries = {}
    /\ buckets = Empty => occupied = 0 \/ \E w \in Threads: At(w, "setMask")

(* An entry is as old as the last change that has returned, or newer, and  *)
(* up to date except while the change of its own method has yet to flush,  *)
(* or when its search for the entry was interrupted.                       *)
Changing(s) == \E w \in Threads: pc[w] \in {"erase", "setBuckets"} /\ r[w].op = "change" /\ r[w].sel = s
EntriesFresh ==
    \A i \in Entries:
        LET e == mem[buckets][i] IN
        e.imp[2] >= settled[e.sel] /\ (e.imp[2] = imps[e.sel] \/ Changing(e.sel) \/ e.sel \in missed)

(* A search reads only buckets that exist: the collector frees garbage     *)
(* only when no thread can still be searching it (_collecting_in_critical),*)
(* and a search that combined an old mask with new buckets stays within    *)
(* the new ones (setBucketsAndMask).                                       *)
SearchesAllocated ==
    \A t \in Threads: Dereferences(t) =>
        r[t].buckets \in DOMAIN mem /\ r[t].i \in DOMAIN mem[r[t].buckets]

(* What a send calls is an implementation of its own selector, never nil   *)
(* and never that of a selector in the same bucket (bucket_t::set).        *)
HitIsRight == \A t \in Threads: At(t, "return") => r[t].imp \in {r[t].sel} \X (0 .. MaxChanges)

(* A send that starts after method_setImplementation returned never calls  *)
(* the implementation that was replaced, from the cache or from a cache    *)
(* entry that was refilled after the flush.  A signal during shouldFlush   *)
(* makes the change skip the flush; the replaced implementation is then    *)
(* called until the cache is emptied for another reason, and never after.  *)
FreshAfterChange ==
    \A t \in Threads: At(t, "return") /\ r[t].imp # None => r[t].imp[2] >= r[t].since

(* insert always finds a bucket: "There is guaranteed to be an empty       *)
(* slot."  bad_cache is never reached.                                     *)
NeverBadCache == \A t \in Threads: ~At(t, "bad_cache")

(* When no thread is writing, a search for any cached selector finds it:   *)
(* the buckets that objc_msgSend passes between the hash and the entry are *)
(* all taken by other selectors.  And occupied counts the entries.         *)
Passed(h, i) ==
    IF Packed THEN IF i <= h THEN i + 1 .. h ELSE (0 .. h) \cup (i + 1 .. mask)
              ELSE IF h <= i THEN h .. i - 1 ELSE (h .. mask) \cup {j \in 0 .. mask: j < i}
Reachable(sel, i) ==
    \A j \in Passed(cache_hash(sel, mask), i): mem[buckets][j].sel \notin {Nil, sel}
Findable ==
    runtimeLock = None =>
        /\ \A i \in Entries: Reachable(mem[buckets][i].sel, i)
        /\ occupied = Cardinality(Entries)

(* With restartable ranges a collection cannot be refused: no more garbage *)
(* than the threshold is left when the lock is released, and a writer that *)
(* needs buckets has room for them.                                        *)
GarbageBounded ==
    Restartable =>
        /\ runtimeLock = None => garbage_size < garbage_threshold
        /\ \A t \in Threads: At(t, "insert") => Buffers \ DOMAIN mem # {}

(* No array of buckets is lost: each one is the cache's, waits in the      *)
(* garbage, or is in the hands of the writer that installs or replaces it. *)
(* The garbage is never larger than counted, and once it has reached the   *)
(* threshold somebody is collecting it.                                    *)
InHand(t, b) ==
    \/ pc[t] \in {"setBuckets", "setMask"} /\ b = r[t].buckets
    \/ pc[t] \in {"setBuckets", "setMask", "free"} /\ b = r[t].old
Somebody(label) == \E w \in Threads: At(w, label)
NothingLost ==
    /\ \A b \in DOMAIN mem: b \in {Empty, buckets} \cup garbage \/ \E t \in Threads: InHand(t, b)
    /\ \A t \in Threads: At(t, "setBuckets") /\ r[t].old = None => buckets = Empty
    /\ Cardinality(garbage) <= garbage_size
    /\ Restartable => garbage_size < garbage_threshold \/ Somebody("collect")

(* The cache keeps its shape through searches, inserts and collections.    *)
CacheInv ==
    /\ TypeOK /\ \A b \in DOMAIN mem \ {Empty}: BufferOK(b)
    /\ SearchesAllocated /\ Findable /\ NeverBadCache /\ GarbageBounded /\ NothingLost
    /\ CacheOK /\ EntriesFresh /\ \A s \in Selectors: settled[s] <= imps[s]
    /\ \A t \in Threads: pc[t] \in Locked <=> runtimeLock = t

(* How far a search has come from the bucket of its hash.  It stays below  *)
(* twice the capacity, because the search stays within its buckets.        *)
Walked(t) ==
    LET h == cache_hash(r[t].sel, r[t].mask) IN
    IF Packed THEN IF r[t].wrapped THEN h + 1 + r[t].mask - r[t].i ELSE h - r[t].i
              ELSE IF r[t].wrapped THEN CapacityOf(r[t].buckets) - h + r[t].i ELSE r[t].i - h

(* A search only ever goes on to buckets further from its hash, also in a  *)
(* full cache and when it combined an old mask with new buckets: it ends,  *)
(* whatever the writers do (CacheLookup).                                  *)
SearchAdvances ==
    [][\A t \in Threads:
         Dereferences(t) /\ pc'[t] = "compare" /\ (r'[t] # r[t] \/ pc'[t] # pc[t])
            => Walked(t)' > Walked(t)]_vars
=============================================================================
