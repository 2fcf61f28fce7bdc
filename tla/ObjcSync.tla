------------------------------ MODULE ObjcSync ------------------------------
(***************************************************************************)
(* The blocks behind @synchronized: objc_sync_enter, objc_sync_try_enter   *)
(* and objc_sync_exit of runtime/objc-sync.mm.                             *)
(*                                                                         *)
(* A SyncData block pairs an object with a recursive mutex.  Blocks sit on *)
(* a list guarded by a spinlock, are never freed, and are given to another *)
(* object once no thread uses them (threadCount = 0).  Each thread caches  *)
(* the blocks it uses: one in a fast slot, the others in its SyncCache.    *)
(* threadCount is incremented under the spinlock but decremented without   *)
(* it, and a cached block is read with no lock at all; what follows shows  *)
(* that this is safe.                                                      *)
(*                                                                         *)
(* The model has one list: the stripes of sDataLists share no state, so    *)
(* Objects are objects whose addresses hash to the same stripe.            *)
(***************************************************************************)
EXTENDS Integers, Sequences, FiniteSets

CONSTANTS
    Threads,        \* threads that synchronize
    Objects,        \* non-nil objects of one stripe
    Blocks,         \* SyncData blocks posix_memalign can hand out
    Ops,            \* what clients do: a subset of ClientOps
    MaxLock,        \* bound: lockCount of one cache entry
    MaxThreadCount, \* bound: threadCount that may still be leaked
    None            \* nil, for a block, a thread or an object

ClientOps == {"enter", "try", "exit", "strayExit", "threadExit"}

ASSUME SyncAssumption ==
    /\ None \notin Threads \cup Objects \cup Blocks \cup ClientOps
    /\ Ops \subseteq ClientOps
    /\ MaxLock \in Nat /\ MaxThreadCount \in Nat

VARIABLES
    list,           \* LIST_FOR_OBJ: the blocks, newest first
    listLock,       \* LOCK_FOR_OBJ: the thread that holds it, or None
    object,         \* SyncData.object
    threadCount,    \* SyncData.threadCount
    owner, depth,   \* SyncData.mutex: its owner, and how often it is held
    fast,           \* syncData, the fast cache of each thread
    fastCount,      \* syncLockCount
    cache,          \* lockCount of each block in a thread's SyncCache, 0: absent
    pc, op, arg,    \* where each thread is, in which call, on which object
    data,           \* id2data's result
    pos,            \* id2data's p, as an index of list
    firstUnused,    \* id2data's firstUnused
    inside          \* client's view: how often the thread is inside the object

blockVars == <<list, listLock, object, threadCount>>
mutexVars == <<owner, depth>>
cacheVars == <<fast, fastCount, cache>>
walkVars  == <<pos, firstUnused>>
callVars  == <<op, arg>>
vars == <<blockVars, mutexVars, cacheVars, walkVars, callVars, pc, data, inside>>

Init ==
    /\ list = <<>> /\ listLock = None
    /\ object = [d \in Blocks |-> None]
    /\ threadCount = [d \in Blocks |-> 0]
    /\ owner = [d \in Blocks |-> None] /\ depth = [d \in Blocks |-> 0]
    /\ fast = [t \in Threads |-> None] /\ fastCount = [t \in Threads |-> 0]
    /\ cache = [t \in Threads |-> [d \in Blocks |-> 0]]
    /\ pc = [t \in Threads |-> "idle"] /\ op = [t \in Threads |-> None]
    /\ arg = [t \in Threads |-> None] /\ data = [t \in Threads |-> None]
    /\ pos = [t \in Threads |-> 1] /\ firstUnused = [t \in Threads |-> None]
    /\ inside = [t \in Threads |-> [o \in Objects |-> 0]]

Elems(s) == {s[i] : i \in 1..Len(s)}

-----------------------------------------------------------------------------
(* id2data, first part: the per-thread caches.  No lock is held here.      *)

FastHit(t, o) == fast[t] # None /\ object[fast[t]] = o

CacheHits(t, o) == {d \in Blocks : cache[t][d] > 0 /\ object[d] = o}

AcquireHit(t, o) ==
    \/ /\ FastHit(t, o)
       /\ fastCount[t] < MaxLock
       /\ fastCount' = [fastCount EXCEPT ![t] = @ + 1]
       /\ data' = [data EXCEPT ![t] = fast[t]]
       /\ pc' = [pc EXCEPT ![t] = IF threadCount[fast[t]] <= 0 \/ fastCount[t] <= 0
                                  THEN "fatal" ELSE "mutex"]
       /\ UNCHANGED <<fast, cache>>
    \/ /\ ~FastHit(t, o)
       /\ \E d \in CacheHits(t, o) :
            /\ cache[t][d] < MaxLock
            /\ cache' = [cache EXCEPT ![t][d] = @ + 1]
            /\ data' = [data EXCEPT ![t] = d]
            /\ pc' = [pc EXCEPT ![t] = IF threadCount[d] <= 0 THEN "fatal" ELSE "mutex"]
       /\ UNCHANGED <<fast, fastCount>>

LastRelease_TooEarly(lockCount) == TRUE

\* The thread's outermost exit from the block.
LastRelease(lockCount) == lockCount = 1

\* The last release takes the block out of the thread's cache and then, without
\* the list's spinlock, gives up the thread's use of it.
ReleaseHit(t, o) ==
    \/ /\ FastHit(t, o)
       /\ data' = [data EXCEPT ![t] = fast[t]]
       /\ fastCount' = [fastCount EXCEPT ![t] = @ - 1]
       /\ IF LastRelease(fastCount[t])
          THEN /\ fast' = [fast EXCEPT ![t] = None]
               /\ threadCount' = [threadCount EXCEPT ![fast[t]] = @ - 1]
          ELSE UNCHANGED <<fast, threadCount>>
       /\ pc' = [pc EXCEPT ![t] = IF threadCount[fast[t]] <= 0 \/ fastCount[t] <= 0
                                  THEN "fatal" ELSE "mutex"]
       /\ UNCHANGED cache
    \/ /\ ~FastHit(t, o)
       /\ \E d \in CacheHits(t, o) :
            /\ data' = [data EXCEPT ![t] = d]
            /\ cache' = [cache EXCEPT ![t][d] = @ - 1]
            /\ threadCount' = IF LastRelease(cache[t][d])
                              THEN [threadCount EXCEPT ![d] = @ - 1] ELSE threadCount
            /\ pc' = [pc EXCEPT ![t] = IF threadCount[d] <= 0 THEN "fatal" ELSE "mutex"]
       /\ UNCHANGED <<fast, fastCount>>

CacheMiss(t, o) ==
    /\ ~FastHit(t, o) /\ CacheHits(t, o) = {}
    /\ pc' = [pc EXCEPT ![t] = "lockList"]
    /\ UNCHANGED <<cacheVars, data, threadCount>>

\* A call returns to the client: its local variables are gone.
Return(t) ==
    /\ pc' = [pc EXCEPT ![t] = "idle"]
    /\ op' = [op EXCEPT ![t] = None]
    /\ arg' = [arg EXCEPT ![t] = None]
    /\ data' = [data EXCEPT ![t] = None]

-----------------------------------------------------------------------------
(* The calls.                                                              *)

Call(t, o, what) ==
    /\ pc[t] = "idle" /\ what \in Ops
    /\ op' = [op EXCEPT ![t] = what]
    /\ arg' = [arg EXCEPT ![t] = o]
    /\ UNCHANGED <<list, listLock, object, mutexVars, walkVars>>

Acquire(t, o, what) ==
    /\ Call(t, o, what)
    /\ \/ AcquireHit(t, o) /\ UNCHANGED threadCount
       \/ CacheMiss(t, o)
    /\ UNCHANGED inside

Enter(t, o) == Acquire(t, o, "enter")
TryEnter(t, o) == Acquire(t, o, "try")

\* objc_sync_exit by a thread that is inside the object.
Exit(t, o) ==
    /\ inside[t][o] > 0
    /\ Call(t, o, "exit")
    /\ ReleaseHit(t, o) \/ CacheMiss(t, o)
    /\ inside' = [inside EXCEPT ![t][o] = @ - 1]

\* Bound: the calls below may leave threadCount too high for good.
LeakBound == \A d \in Blocks : threadCount[d] < MaxThreadCount

\* objc_sync_exit by a thread that is not: it must fail, and harm no one.
StrayExit(t, o) ==
    /\ inside[t][o] = 0
    /\ LeakBound
    /\ Call(t, o, "strayExit")
    /\ ReleaseHit(t, o) \/ CacheMiss(t, o)
    /\ UNCHANGED inside

\* A thread ends outside every @synchronized and another takes its place:
\* _destroySyncCache frees the cache, and no threadCount is given back.
ThreadExit(t) ==
    /\ pc[t] = "idle" /\ "threadExit" \in Ops
    /\ \A o \in Objects : inside[t][o] = 0
    /\ LeakBound
    /\ fast' = [fast EXCEPT ![t] = None]
    /\ fastCount' = [fastCount EXCEPT ![t] = 0]
    /\ cache' = [cache EXCEPT ![t] = [d \in Blocks |-> 0]]
    /\ UNCHANGED <<blockVars, mutexVars, walkVars, callVars, pc, data, inside>>

IsAcquire(t) == op[t] \in {"enter", "try"}

-----------------------------------------------------------------------------
(* id2data, second part: the list, one block per step, under its spinlock. *)
(* Only a concurrent decrement of threadCount can interfere.               *)

SpinlockFree_Ignored == TRUE

SpinlockFree == listLock = None

LockList(t) ==
    /\ pc[t] = "lockList" /\ SpinlockFree
    /\ listLock' = t
    /\ data' = [data EXCEPT ![t] = None]
    /\ pc' = [pc EXCEPT ![t] = "walk"]
    /\ UNCHANGED <<list, object, threadCount, mutexVars, cacheVars, walkVars, callVars, inside>>

Unused_OffByOne(p) == threadCount[p] <= 1

\* No thread uses the block: it may be given to another object.
Unused(p) == threadCount[p] = 0

Join_Lost(p) == threadCount

\* AtomicIncrement: one more thread uses the block.
Join(p) == [threadCount EXCEPT ![p] = @ + 1]

Walk(t) ==
    /\ pc[t] = "walk" /\ pos[t] <= Len(list)
    /\ LET p == list[pos[t]] IN
       \/ /\ object[p] = arg[t]
          /\ threadCount' = Join(p)
          /\ data' = [data EXCEPT ![t] = p]
          /\ pc' = [pc EXCEPT ![t] = "done"]
          /\ UNCHANGED walkVars
       \/ /\ object[p] # arg[t]
          /\ firstUnused' = [firstUnused EXCEPT ![t] =
                               IF @ = None /\ Unused(p) THEN p ELSE @]
          /\ pos' = [pos EXCEPT ![t] = @ + 1]
          /\ UNCHANGED <<threadCount, data, pc>>
    /\ UNCHANGED <<list, listLock, object, mutexVars, cacheVars, callVars, inside>>

\* No block has the object: an unused one is taken, else one is allocated.
WalkEnd(t) ==
    /\ pc[t] = "walk" /\ pos[t] > Len(list)
    /\ \/ /\ ~IsAcquire(t)
          /\ UNCHANGED <<list, object, threadCount, data>>
       \/ /\ IsAcquire(t)
          /\ \E d \in Blocks :
               /\ IF firstUnused[t] # None
                  THEN d = firstUnused[t] /\ list' = list
                  ELSE d \notin Elems(list) /\ list' = <<d>> \o list
               /\ object' = [object EXCEPT ![d] = arg[t]]
               /\ threadCount' = [threadCount EXCEPT ![d] = 1]
               /\ data' = [data EXCEPT ![t] = d]
    /\ pc' = [pc EXCEPT ![t] = "done"]
    /\ UNCHANGED <<listLock, mutexVars, cacheVars, walkVars, callVars, inside>>

\* Unlock, then enter the block in the fast slot or, if it is taken, the cache.
Done(t) ==
    /\ pc[t] = "done"
    /\ listLock' = None
    /\ IF ~IsAcquire(t)
       THEN Return(t) /\ UNCHANGED cacheVars
       ELSE /\ pc' = [pc EXCEPT ![t] =
                        IF object[data[t]] # arg[t] THEN "fatal" ELSE "mutex"]
            /\ IF fast[t] = None
               THEN /\ fast' = [fast EXCEPT ![t] = data[t]]
                    /\ fastCount' = [fastCount EXCEPT ![t] = 1]
                    /\ UNCHANGED cache
               ELSE /\ cache' = [cache EXCEPT ![t][data[t]] = 1]
                    /\ UNCHANGED <<fast, fastCount>>
            /\ UNCHANGED <<callVars, data>>
    /\ pos' = [pos EXCEPT ![t] = 1]
    /\ firstUnused' = [firstUnused EXCEPT ![t] = None]
    /\ UNCHANGED <<list, object, threadCount, mutexVars, inside>>

-----------------------------------------------------------------------------
(* The recursive mutex of the block id2data returned.                      *)

Free(t, d) == owner[d] \in {None, t}

Lock(t) ==
    /\ pc[t] = "mutex" /\ IsAcquire(t) /\ Free(t, data[t])
    /\ owner' = [owner EXCEPT ![data[t]] = t]
    /\ depth' = [depth EXCEPT ![data[t]] = @ + 1]
    /\ inside' = [inside EXCEPT ![t][arg[t]] = @ + 1]
    /\ Return(t)
    /\ UNCHANGED <<blockVars, cacheVars, walkVars>>

\* objc_sync_try_enter returns NO; id2data's counts stay as they are.
TryLockFails(t) ==
    /\ pc[t] = "mutex" /\ op[t] = "try" /\ ~Free(t, data[t])
    /\ Return(t)
    /\ UNCHANGED <<blockVars, mutexVars, cacheVars, walkVars, inside>>

TryUnlock(t) ==
    /\ pc[t] = "mutex" /\ ~IsAcquire(t)
    /\ IF owner[data[t]] = t
       THEN /\ depth' = [depth EXCEPT ![data[t]] = @ - 1]
            /\ owner' = IF depth[data[t]] = 1
                        THEN [owner EXCEPT ![data[t]] = None] ELSE owner
       ELSE UNCHANGED mutexVars
    /\ Return(t)
    /\ UNCHANGED <<blockVars, cacheVars, walkVars, inside>>

Next ==
    \E t \in Threads :
        \/ \E o \in Objects : Enter(t, o) \/ TryEnter(t, o) \/ Exit(t, o) \/ StrayExit(t, o)
        \/ ThreadExit(t)
        \/ LockList(t) \/ Walk(t) \/ WalkEnd(t) \/ Done(t)
        \/ Lock(t) \/ TryLockFails(t) \/ TryUnlock(t)

Spec == Init /\ [][Next]_vars

-----------------------------------------------------------------------------
(* Properties.                                                             *)

PCs == {"idle", "lockList", "walk", "done", "mutex", "fatal"}

\* Every variable has its type.
TypeOK ==
    /\ list \in Seq(Blocks)
    /\ listLock \in Threads \cup {None}
    /\ object \in [Blocks -> Objects \cup {None}]
    /\ threadCount \in [Blocks -> Nat]
    /\ owner \in [Blocks -> Threads \cup {None}]
    /\ depth \in [Blocks -> Nat]
    /\ fast \in [Threads -> Blocks \cup {None}]
    /\ fastCount \in [Threads -> Nat]
    /\ cache \in [Threads -> [Blocks -> Nat]]
    /\ pc \in [Threads -> PCs]
    /\ op \in [Threads -> ClientOps \cup {None}]
    /\ arg \in [Threads -> Objects \cup {None}]
    /\ data \in [Threads -> Blocks \cup {None}]
    /\ pos \in [Threads -> Nat]
    /\ firstUnused \in [Threads -> Blocks \cup {None}]
    /\ inside \in [Threads -> [Objects -> Nat]]

\* @synchronized excludes: two threads are never inside the same object, however
\* blocks are shared, reused and cached.
MutualExclusion ==
    \A t, u \in Threads, o \in Objects :
        inside[t][o] > 0 /\ inside[u][o] > 0 => t = u

\* The spinlock "prevents multiple threads from creating multiple locks for the
\* same new object": no two blocks on the list belong to one object.
OneBlockPerObject ==
    \A d, e \in Elems(list) : object[d] = object[e] => d = e

\* id2data's self-checks ("id2data fastcache is buggy", "id2data cache is
\* buggy", "id2data is buggy") never fire.
NeverFatal == \A t \in Threads : pc[t] # "fatal"

Caches(t) == {d \in Blocks : fast[t] = d \/ cache[t][d] > 0}

\* A block is given to another object only while no thread caches it or is about
\* to lock it: the unlocked reads of a cached block never see it change hands.
CachedBlocksKeepTheirObject ==
    [][\A d \in Blocks : object'[d] # object[d] =>
          \A t \in Threads :
             /\ d \notin Caches(t)
             /\ ~(pc[t] = "mutex" /\ IsAcquire(t) /\ data[t] = d)]_vars

\* A thread that leaves an object it is inside of finds its block and owns the
\* mutex: objc_sync_exit returns OBJC_SYNC_SUCCESS, whatever failed
\* objc_sync_try_enter and stray exits came before.
BalancedExitSucceeds ==
    \A t \in Threads : pc[t] # "idle" /\ op[t] = "exit" =>
        pc[t] = "mutex" /\ owner[data[t]] = t

\* id2data gives up the block before objc_sync_exit unlocks it, so the block may
\* belong to another object while still locked.  Even so, a call for an object
\* waits (or objc_sync_try_enter fails) only behind a thread that is inside this
\* object, or that is at the tryUnlock of objc_sync_exit and waits for nothing.
WaitsOnlyForItsObject ==
    \A t \in Threads : pc[t] = "mutex" /\ IsAcquire(t) =>
        LET u == owner[data[t]] IN
        u \in {None, t} \/ inside[u][arg[t]] > 0
                        \/ (pc[u] = "mutex" /\ op[u] = "exit" /\ data[u] = data[t])

-----------------------------------------------------------------------------
(* The inductive invariant behind the properties above.                    *)

LockCount(t, d) == IF fast[t] = d THEN fastCount[t] ELSE cache[t][d]

Acquiring(t, d) == pc[t] = "mutex" /\ IsAcquire(t) /\ data[t] = d
Exiting(t, d) == pc[t] = "mutex" /\ op[t] = "exit" /\ data[t] = d
Joined(t, d) == pc[t] = "done" /\ IsAcquire(t) /\ data[t] = d

\* The threads for which threadCount[d] must account.
Users(d) == {t \in Threads : d \in Caches(t) \/ Joined(t, d)}

\* The spinlock, and what a thread that walks the list has established so far.
WalkOf(t) ==
    /\ (listLock = t) <=> (pc[t] \in {"walk", "done"})
    /\ pc[t] # "idle" => arg[t] \in Objects /\ op[t] \in ClientOps \ {"threadExit"}
    /\ pc[t] = "walk" =>
          /\ pos[t] >= 1
          /\ \A i \in 1..Len(list) : i < pos[t] => object[list[i]] # arg[t]
          /\ firstUnused[t] # None =>
                firstUnused[t] \in Elems(list) /\ threadCount[firstUnused[t]] = 0
    /\ pc[t] \notin {"walk", "done"} => pos[t] = 1 /\ firstUnused[t] = None
    /\ pc[t] \in {"lockList", "walk", "done"} =>
          op[t] # "exit" /\ \A d \in Caches(t) : object[d] # arg[t]

WalkInv == \A t \in Threads : WalkOf(t)

\* A thread's cached blocks are on the list, and the block it is about to lock
\* or to cache belongs to the object it was asked for.
UseOf(t) ==
    /\ fast[t] # None => fastCount[t] > 0 /\ cache[t][fast[t]] = 0
    /\ Caches(t) \subseteq Elems(list)
    /\ pc[t] = "mutex" => data[t] \in Blocks
    /\ pc[t] = "mutex" /\ IsAcquire(t) => data[t] \in Caches(t) /\ object[data[t]] = arg[t]
    /\ pc[t] = "done" /\ IsAcquire(t) => data[t] \in Elems(list) /\ object[data[t]] = arg[t]

\* The set has at most n members.
AtMost(n, S) == \E f \in [S -> 1..n] : \A x, y \in S : f[x] = f[y] => x = y

\* threadCount covers every user of a block.
CountInv == \A d \in Blocks : AtMost(threadCount[d], Users(d))

UseInv ==
    /\ CountInv
    /\ \A t \in Threads : UseOf(t)
    /\ \A d \in Elems(list) : object[d] \in Objects

\* A cached block's lockCount covers what the client holds and is acquiring.
LockCountInv ==
    \A t \in Threads, d \in Blocks : d \in Caches(t) =>
        LockCount(t, d) >= inside[t][object[d]] + IF Acquiring(t, d) THEN 1 ELSE 0

\* Who owns a block's mutex, how often, and why.
DepthOf(d) ==
    /\ owner[d] = None => depth[d] = 0
    /\ \A t \in Threads :
        /\ owner[d] = t =>
              /\ depth[d] >= 1
              /\ depth[d] = (IF d \in Caches(t) THEN inside[t][object[d]] ELSE 0)
                             + IF Exiting(t, d) THEN 1 ELSE 0
        /\ Exiting(t, d) => owner[d] = t

DepthInv == \A d \in Blocks : DepthOf(d)

\* A thread inside an object caches the object's block and owns its mutex.
InsideInv ==
    \A t \in Threads, o \in Objects : inside[t][o] > 0 =>
        \E d \in Caches(t) : object[d] = o /\ owner[d] = t

\* A stray exit is by a thread that is outside the object.
StrayInv ==
    \A t \in Threads : pc[t] # "idle" /\ op[t] = "strayExit" =>
        /\ inside[t][arg[t]] = 0
        /\ pc[t] = "mutex" /\ data[t] \in Caches(t) => object[data[t]] = arg[t]

OwnerInv == LockCountInv /\ DepthInv /\ InsideInv /\ StrayInv

\* The inductive invariant of id2data and the entry points: besides the types and
\* the ownership facts above, none of id2data's self-checks fires and no object
\* has two blocks.
SyncInv == TypeOK /\ NeverFatal /\ OneBlockPerObject /\ WalkInv /\ UseInv /\ OwnerInv
=============================================================================
