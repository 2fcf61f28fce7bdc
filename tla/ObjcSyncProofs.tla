--------------------------- MODULE ObjcSyncProofs ---------------------------
(***************************************************************************)
(* Proofs about ObjcSync, second part: the calls and the end of a thread   *)
(* keep SyncInv, so it is invariant, and it implies the properties of      *)
(* ObjcSync for any number of threads, objects and blocks.                 *)
(***************************************************************************)
EXTENDS ObjcSyncSteps

\* The provers' time limits, for slow machines.
USE SMTT(30), ZenonT(30)

USE Untyped

-----------------------------------------------------------------------------
(* The calls and the end of a thread.                                      *)

\* A thread that is not in a call owns a mutex only through a cached block, as
\* often as it is inside the block's object.
LEMMA IdleOwner ==
    ASSUME SyncInv, NEW t \in Threads, pc[t] = "idle", NEW d \in Blocks, owner[d] = t
    PROVE  d \in Caches(t) /\ inside[t][object[d]] >= 1 /\ depth[d] = inside[t][object[d]]
<1>1. DepthOf(d) BY DEF SyncInv, OwnerInv, DepthInv
<1>2. ~Exiting(t, d) BY DEF Exiting
<1>3. depth[d] >= 1 /\ depth[d] = IF d \in Caches(t) THEN inside[t][object[d]] ELSE 0
  <2>1. d \in Caches(t) => inside[t][object[d]] \in Nat BY CachedObject DEF SyncInv
  <2> QED BY <1>1, <1>2, <2>1 DEF DepthOf
<1> QED BY <1>3

\* The end of a thread: it owns nothing, and its caches vanish.
LEMMA ThreadExitStep ==
    ASSUME SyncInv, NEW t \in Threads, ThreadExit(t)
    PROVE  SyncInv'
<1> USE SyncAssumption DEF SyncInv
<1>p. pc[t] = "idle" /\ \A o \in Objects : inside[t][o] = 0 BY DEF ThreadExit
<1>f. /\ list' = list /\ listLock' = listLock /\ object' = object /\ threadCount' = threadCount
      /\ owner' = owner /\ depth' = depth /\ pos' = pos /\ firstUnused' = firstUnused
      /\ op' = op /\ arg' = arg /\ pc' = pc /\ data' = data /\ inside' = inside
      /\ fast'[t] = None /\ \A d \in Blocks : cache'[t][d] = 0
      /\ \A u \in Threads \ {t} : /\ fast'[u] = fast[u] /\ fastCount'[u] = fastCount[u]
                                  /\ cache'[u] = cache[u]
  BY DEF ThreadExit, TypeOK, blockVars, mutexVars, walkVars, callVars
<1>1. TypeOK'
  <2>1. fast' \in [Threads -> Blocks \cup {None}] /\ fastCount' \in [Threads -> Nat]
    BY DEF ThreadExit, TypeOK
  <2>2. cache' \in [Threads -> [Blocks -> Nat]] BY DEF ThreadExit, TypeOK
  <2> QED BY <1>f, <2>1, <2>2 DEF TypeOK
<1>c. /\ Caches(t)' = {}
      /\ \A u \in Threads \ {t} : Caches(u)' = Caches(u)
  BY <1>f DEF Caches
<1>r. Elems(list)' = Elems(list) BY <1>f DEF Elems
<1>2. NeverFatal' BY <1>f DEF NeverFatal
<1>3. OneBlockPerObject' BY <1>f, <1>r DEF OneBlockPerObject
<1>4. ASSUME NEW u \in Threads PROVE WalkOf(u)' /\ UseOf(u)'
  <2>1. WalkOf(u) /\ UseOf(u) BY DEF WalkInv, UseInv
  <2>2. CASE u = t BY <1>c, <1>f, <1>p, <2>1, <2>2 DEF WalkOf, UseOf
  <2>3. CASE u # t
    <3>1. WalkOf(u)' BY <1>c, <1>f, <1>r, <2>1, <2>3 DEF WalkOf
    <3>2. UseOf(u)' BY <1>c, <1>f, <1>r, <2>1, <2>3 DEF UseOf, IsAcquire
    <3> QED BY <3>1, <3>2
  <2> QED BY <2>2, <2>3
<1>5. CountInv'
  <2> SUFFICES ASSUME NEW d \in Blocks PROVE AtMost(threadCount'[d], Users(d)')
    BY DEF CountInv
  <2>1. Users(d)' \subseteq Users(d) BY <1>c, <1>f DEF Users, Joined, IsAcquire
  <2>2. AtMost(threadCount[d], Users(d)) /\ threadCount[d] \in Nat
    BY DEF UseInv, CountInv, TypeOK
  <2>3. AtMost(threadCount[d], Users(d)') BY <2>1, <2>2, AtMostSub
  <2> QED BY <1>f, <2>3
<1>o. \A d \in Blocks : owner[d] # t
  <2> SUFFICES ASSUME NEW d \in Blocks, owner[d] = t PROVE FALSE OBVIOUS
  <2>1. d \in Caches(t) /\ inside[t][object[d]] >= 1 BY <1>p, IdleOwner
  <2>2. object[d] \in Objects BY <2>1, CachedObject
  <2> QED BY <1>p, <2>1, <2>2
<1>6. OwnerInv'
  <2>1. \A u \in Threads, d \in Blocks : /\ Acquiring(u, d)' <=> Acquiring(u, d)
                                         /\ Exiting(u, d)' <=> Exiting(u, d)
    BY <1>f DEF Acquiring, Exiting, IsAcquire
  <2>2. LockCountInv'
    <3> SUFFICES ASSUME NEW u \in Threads, NEW d \in Blocks, d \in Caches(u)'
                 PROVE  LockCount(u, d)' >= inside[u][object[d]] + IF Acquiring(u, d)' THEN 1 ELSE 0
      BY <1>f DEF LockCountInv
    <3>1. u # t /\ d \in Caches(u) BY <1>c
    <3>2. LockCount(u, d)' = LockCount(u, d) BY <1>f, <3>1 DEF LockCount
    <3>3. LockCount(u, d) >= inside[u][object[d]] + IF Acquiring(u, d) THEN 1 ELSE 0
      BY <3>1 DEF OwnerInv, LockCountInv
    <3>4. LockCount(u, d) \in Nat /\ inside[u][object[d]] \in Nat BY <3>1, CachedObject
    <3> QED BY <2>1, <3>2, <3>3, <3>4
  <2>3. DepthInv'
    <3> SUFFICES ASSUME NEW d \in Blocks, NEW u \in Threads
                 PROVE  /\ owner[d] = None => depth[d] = 0
                        /\ owner[d] = u =>
                              /\ depth[d] >= 1
                              /\ depth[d] = (IF d \in Caches(u)' THEN inside[u][object[d]] ELSE 0)
                                            + IF Exiting(u, d)' THEN 1 ELSE 0
                        /\ Exiting(u, d)' => owner[d] = u
      BY <1>f DEF DepthInv, DepthOf
    <3>1. DepthOf(d) BY DEF OwnerInv, DepthInv
    <3>2. owner[d] = u => u # t /\ Caches(u)' = Caches(u) BY <1>c, <1>o
    <3>3. d \in Caches(u) => inside[u][object[d]] \in Nat BY CachedObject
    <3> QED BY <2>1, <3>1, <3>2, <3>3 DEF DepthOf
  <2>4. InsideInv'
    <3> SUFFICES ASSUME NEW u \in Threads, NEW o \in Objects, inside[u][o] > 0
                 PROVE  \E d \in Caches(u)' : object[d] = o /\ owner[d] = u
      BY <1>f DEF InsideInv
    <3>1. u # t BY <1>p
    <3> QED BY <1>c, <3>1 DEF OwnerInv, InsideInv
  <2>5. StrayInv'
    <3> SUFFICES ASSUME NEW u \in Threads, pc[u] # "idle", op[u] = "strayExit"
                 PROVE  /\ inside[u][arg[u]] = 0
                        /\ pc[u] = "mutex" /\ data[u] \in Caches(u)' => object[data[u]] = arg[u]
      BY <1>f DEF StrayInv
    <3>1. u # t BY <1>p
    <3> QED BY <1>c, <3>1 DEF OwnerInv, StrayInv
  <2> QED BY <2>2, <2>3, <2>4, <2>5 DEF OwnerInv
<1> QED BY <1>1, <1>2, <1>3, <1>4, <1>5, <1>6, <1>f, <1>r DEF WalkInv, UseInv

\* A miss in the caches sends the thread to the list; nothing else happens.
LEMMA MissStep ==
    ASSUME SyncInv, NEW t \in Threads, NEW o \in Objects, NEW what \in ClientOps \ {"exit", "threadExit"},
           Call(t, o, what), CacheMiss(t, o), inside' = inside,
           what = "strayExit" => inside[t][o] = 0
    PROVE  SyncInv'
<1> USE SyncAssumption DEF SyncInv
<1>p. pc[t] = "idle" BY DEF Call
<1>f. /\ list' = list /\ listLock' = listLock /\ object' = object /\ threadCount' = threadCount
      /\ owner' = owner /\ depth' = depth /\ pos' = pos /\ firstUnused' = firstUnused
      /\ fast' = fast /\ fastCount' = fastCount /\ cache' = cache /\ data' = data
      /\ pc' = [pc EXCEPT ![t] = "lockList"] /\ op' = [op EXCEPT ![t] = what]
      /\ arg' = [arg EXCEPT ![t] = o]
      /\ pc'[t] = "lockList" /\ op'[t] = what /\ arg'[t] = o
      /\ \A u \in Threads \ {t} : pc'[u] = pc[u] /\ op'[u] = op[u] /\ arg'[u] = arg[u]
  BY DEF Call, CacheMiss, TypeOK, mutexVars, walkVars, cacheVars
<1>1. TypeOK'
  <2>1. pc' \in [Threads -> PCs] BY <1>f DEF TypeOK, PCs
  <2>2. op' \in [Threads -> ClientOps \cup {None}] BY <1>f DEF TypeOK
  <2>3. arg' \in [Threads -> Objects \cup {None}] BY <1>f DEF TypeOK
  <2> QED BY <1>f, <2>1, <2>2, <2>3 DEF TypeOK
<1>c. \A u \in Threads : Caches(u)' = Caches(u) BY <1>f DEF Caches
<1>m. \A d \in Caches(t) : object[d] # o
  BY DEF CacheMiss, FastHit, CacheHits, Caches
<1>r. Elems(list)' = Elems(list) BY <1>f DEF Elems
<1>2. NeverFatal' BY <1>f DEF NeverFatal
<1>3. OneBlockPerObject' BY <1>f, <1>r DEF OneBlockPerObject
<1>4. ASSUME NEW u \in Threads PROVE WalkOf(u)' /\ UseOf(u)'
  <2>1. WalkOf(u) /\ UseOf(u) BY DEF WalkInv, UseInv
  <2>2. CASE u = t
    <3>1. WalkOf(u)' BY <1>c, <1>f, <1>m, <1>p, <2>1, <2>2 DEF WalkOf
    <3>2. UseOf(u)' BY <1>c, <1>f, <1>r, <2>1, <2>2 DEF UseOf
    <3> QED BY <3>1, <3>2
  <2>3. CASE u # t
    <3>1. WalkOf(u)' BY <1>c, <1>f, <1>r, <2>1, <2>3 DEF WalkOf
    <3>2. UseOf(u)' BY <1>c, <1>f, <1>r, <2>1, <2>3 DEF UseOf, IsAcquire
    <3> QED BY <3>1, <3>2
  <2> QED BY <2>2, <2>3
<1>5. CountInv'
  <2>1. \A d \in Blocks : Users(d)' = Users(d) BY <1>c, <1>f, <1>p DEF Users, Joined, IsAcquire
  <2> QED BY <1>f, <2>1 DEF UseInv, CountInv
<1>6. OwnerInv'
  <2>1. \A u \in Threads, d \in Blocks : /\ Acquiring(u, d)' <=> Acquiring(u, d)
                                         /\ Exiting(u, d)' <=> Exiting(u, d)
    BY <1>f, <1>p DEF Acquiring, Exiting, IsAcquire
  <2>2. LockCountInv' /\ DepthInv' /\ InsideInv' BY <1>f, <2>1, OwnerFrame
  <2>3. StrayInv' BY <1>c, <1>f DEF OwnerInv, StrayInv
  <2> QED BY <2>2, <2>3 DEF OwnerInv
<1> QED BY <1>1, <1>2, <1>3, <1>4, <1>5, <1>6, <1>f, <1>r DEF WalkInv, UseInv

\* An acquire that hits a cache counts one more lock of the object's block, and
\* id2data's self-checks pass.
LEMMA AcquireHitFacts ==
    ASSUME SyncInv, NEW t \in Threads, NEW o \in Objects, AcquireHit(t, o)
    PROVE  \E d \in Caches(t) :
             /\ object[d] = o /\ data' = [data EXCEPT ![t] = d]
             /\ pc' = [pc EXCEPT ![t] = "mutex"]
             /\ fast' = fast /\ fastCount' \in [Threads -> Nat]
             /\ cache' \in [Threads -> [Blocks -> Nat]]
             /\ Caches(t)' = Caches(t)
             /\ fast'[t] # None => fastCount'[t] > 0 /\ cache'[t][fast'[t]] = 0
             /\ LockCount(t, d)' = LockCount(t, d) + 1
             /\ \A e \in Caches(t) \ {d} : LockCount(t, e)' = LockCount(t, e)
             /\ \A u \in Threads \ {t} : fastCount'[u] = fastCount[u] /\ cache'[u] = cache[u]
<1> USE SyncAssumption DEF SyncInv
<1>u. UseOf(t) BY DEF UseInv
<1>1. CASE FastHit(t, o) /\ AcquireHit(t, o)
  <2>1. PICK d : d = fast[t] OBVIOUS
  <2>2. d \in Blocks /\ d \in Caches(t) /\ object[d] = o BY <1>1, <2>1 DEF FastHit, TypeOK, Caches
  <2>3. threadCount[d] >= 1
    <3>1. t \in Users(d) BY <2>2 DEF Users
    <3> QED BY <2>2, <3>1, UserCounts
  <2>4. fastCount[t] > 0 /\ fastCount[t] \in Nat /\ cache[t][d] = 0 BY <1>u, <2>1, <2>2 DEF UseOf, TypeOK
  <2>5. /\ fastCount' = [fastCount EXCEPT ![t] = @ + 1] /\ fast' = fast /\ cache' = cache
        /\ data' = [data EXCEPT ![t] = d]
        /\ pc' = [pc EXCEPT ![t] = IF threadCount[d] <= 0 \/ fastCount[t] <= 0
                                   THEN "fatal" ELSE "mutex"]
    BY <1>1, <2>1 DEF AcquireHit
  <2>6. ~(threadCount[d] <= 0 \/ fastCount[t] <= 0)
    <3>1. threadCount[d] \in Nat BY <2>2 DEF TypeOK
    <3> QED BY <2>3, <2>4, <3>1
  <2>7. pc' = [pc EXCEPT ![t] = "mutex"] BY <2>5, <2>6
  <2>8. fastCount' \in [Threads -> Nat] /\ fastCount'[t] = fastCount[t] + 1
        /\ \A u \in Threads \ {t} : fastCount'[u] = fastCount[u]
    BY <2>5 DEF TypeOK
  <2>9. Caches(t)' = Caches(t) BY <2>5 DEF Caches
  <2>10. LockCount(t, d)' = LockCount(t, d) + 1 BY <2>1, <2>5, <2>8 DEF LockCount
  <2>11. \A e \in Caches(t) \ {d} : LockCount(t, e)' = LockCount(t, e) BY <2>1, <2>5 DEF LockCount
  <2>12. fast'[t] # None => fastCount'[t] > 0 /\ cache'[t][fast'[t]] = 0
    BY <2>1, <2>4, <2>5, <2>8
  <2>13. cache' \in [Threads -> [Blocks -> Nat]] BY <2>5 DEF TypeOK
  <2> QED BY <2>2, <2>5, <2>7, <2>8, <2>9, <2>10, <2>11, <2>12, <2>13, ZenonT(30)
<1>2. CASE ~FastHit(t, o) /\ AcquireHit(t, o)
  <2>1. PICK d \in CacheHits(t, o) :
           /\ cache' = [cache EXCEPT ![t][d] = @ + 1]
           /\ data' = [data EXCEPT ![t] = d]
           /\ pc' = [pc EXCEPT ![t] = IF threadCount[d] <= 0 THEN "fatal" ELSE "mutex"]
    BY <1>2 DEF AcquireHit
  <2>2. d \in Blocks /\ d \in Caches(t) /\ object[d] = o /\ cache[t][d] > 0 BY DEF CacheHits, Caches
  <2>3. threadCount[d] >= 1
    <3>1. t \in Users(d) BY <2>2 DEF Users
    <3> QED BY <2>2, <3>1, UserCounts
  <2>4. fast' = fast /\ fastCount' = fastCount BY <1>2 DEF AcquireHit
  <2>5. fast[t] # d BY <1>2, <2>2 DEF FastHit
  <2>6. ~(threadCount[d] <= 0)
    <3>1. threadCount[d] \in Nat BY <2>2 DEF TypeOK
    <3> QED BY <2>3, <3>1
  <2>7. pc' = [pc EXCEPT ![t] = "mutex"] BY <2>1, <2>6
  <2>8. /\ cache' \in [Threads -> [Blocks -> Nat]] /\ cache'[t][d] = cache[t][d] + 1
        /\ \A e \in Blocks \ {d} : cache'[t][e] = cache[t][e]
        /\ \A u \in Threads \ {t} : cache'[u] = cache[u]
    BY <2>1, <2>2 DEF TypeOK
  <2>9. Caches(t)' = Caches(t)
    <3>1. cache[t][d] \in Nat BY <2>2 DEF TypeOK
    <3>2. cache'[t][d] > 0 BY <2>2, <2>8, <3>1
    <3> QED BY <2>2, <2>4, <2>8, <3>2 DEF Caches
  <2>10. LockCount(t, d)' = LockCount(t, d) + 1 BY <2>4, <2>5, <2>8 DEF LockCount
  <2>11. \A e \in Caches(t) \ {d} : LockCount(t, e)' = LockCount(t, e)
    BY <2>4, <2>8 DEF LockCount, Caches
  <2>12. fast'[t] # None => fastCount'[t] > 0 /\ cache'[t][fast'[t]] = 0
    <3>1. fast[t] # None => fast[t] \in Blocks \ {d} BY <2>5 DEF TypeOK
    <3> QED BY <1>u, <2>4, <2>8, <3>1 DEF UseOf
  <2>13. fastCount' \in [Threads -> Nat] BY <2>4 DEF TypeOK
  <2> QED BY <2>1, <2>2, <2>4, <2>7, <2>8, <2>9, <2>10, <2>11, <2>12, <2>13, ZenonT(30)
<1> QED BY <1>1, <1>2

\* objc_sync_enter or objc_sync_try_enter that hits a cache.
LEMMA AcquireHitStep ==
    ASSUME SyncInv, NEW t \in Threads, NEW o \in Objects, NEW what \in {"enter", "try"},
           Call(t, o, what), AcquireHit(t, o), threadCount' = threadCount, inside' = inside
    PROVE  SyncInv'
<1> USE SyncAssumption DEF SyncInv
<1>p. pc[t] = "idle" BY DEF Call
<1>d. PICK d \in Caches(t) :
             /\ object[d] = o /\ data' = [data EXCEPT ![t] = d]
             /\ pc' = [pc EXCEPT ![t] = "mutex"]
             /\ fast' = fast /\ fastCount' \in [Threads -> Nat]
             /\ cache' \in [Threads -> [Blocks -> Nat]]
             /\ Caches(t)' = Caches(t)
             /\ fast'[t] # None => fastCount'[t] > 0 /\ cache'[t][fast'[t]] = 0
             /\ LockCount(t, d)' = LockCount(t, d) + 1
             /\ \A e \in Caches(t) \ {d} : LockCount(t, e)' = LockCount(t, e)
             /\ \A u \in Threads \ {t} : fastCount'[u] = fastCount[u] /\ cache'[u] = cache[u]
  BY AcquireHitFacts
<1>b. d \in Blocks BY DEF Caches
<1>f. /\ list' = list /\ listLock' = listLock /\ object' = object
      /\ owner' = owner /\ depth' = depth /\ pos' = pos /\ firstUnused' = firstUnused
      /\ op' = [op EXCEPT ![t] = what] /\ arg' = [arg EXCEPT ![t] = o]
      /\ pc'[t] = "mutex" /\ op'[t] = what /\ arg'[t] = o /\ data'[t] = d
      /\ \A u \in Threads \ {t} : /\ pc'[u] = pc[u] /\ op'[u] = op[u] /\ arg'[u] = arg[u]
                                  /\ data'[u] = data[u]
  BY <1>d DEF Call, TypeOK, mutexVars, walkVars
<1>1. TypeOK'
  <2>1. pc' \in [Threads -> PCs] BY <1>d DEF TypeOK, PCs
  <2>2. op' \in [Threads -> ClientOps \cup {None}] BY <1>f DEF TypeOK, ClientOps
  <2>3. arg' \in [Threads -> Objects \cup {None}] BY <1>f DEF TypeOK
  <2>4. data' \in [Threads -> Blocks \cup {None}] BY <1>b, <1>d DEF TypeOK
  <2> QED BY <1>d, <1>f, <2>1, <2>2, <2>3, <2>4, ZenonT(30) DEF TypeOK
<1>c. \A u \in Threads : Caches(u)' = Caches(u) BY <1>d DEF Caches
<1>r. Elems(list)' = Elems(list) BY <1>f DEF Elems
<1>2. NeverFatal' BY <1>f DEF NeverFatal
<1>3. OneBlockPerObject' BY <1>f, <1>r DEF OneBlockPerObject
<1>4. ASSUME NEW u \in Threads PROVE WalkOf(u)' /\ UseOf(u)'
  <2>1. WalkOf(u) /\ UseOf(u) BY DEF WalkInv, UseInv
  <2>2. CASE u = t
    <3>1. WalkOf(u)' BY <1>f, <1>p, <2>1, <2>2 DEF WalkOf, ClientOps
    <3>2. UseOf(u)' BY <1>b, <1>c, <1>d, <1>f, <1>r, <2>1, <2>2 DEF UseOf
    <3> QED BY <3>1, <3>2
  <2>3. CASE u # t
    <3>1. WalkOf(u)' BY <1>c, <1>f, <1>r, <2>1, <2>3 DEF WalkOf
    <3>2. UseOf(u)' BY <1>c, <1>d, <1>f, <1>r, <2>1, <2>3 DEF UseOf, IsAcquire
    <3> QED BY <3>1, <3>2
  <2> QED BY <2>2, <2>3
<1>5. CountInv'
  <2>1. \A e \in Blocks : Users(e)' = Users(e) BY <1>c, <1>f, <1>p DEF Users, Joined, IsAcquire
  <2> QED BY <2>1 DEF UseInv, CountInv
<1>6. LockCountInv'
  <2> SUFFICES ASSUME NEW u \in Threads, NEW e \in Blocks, e \in Caches(u)
               PROVE  LockCount(u, e)' >= inside[u][object[e]] + IF Acquiring(u, e)' THEN 1 ELSE 0
    BY <1>c, <1>f DEF LockCountInv
  <2>1. LockCount(u, e) >= inside[u][object[e]] + IF Acquiring(u, e) THEN 1 ELSE 0
    BY DEF OwnerInv, LockCountInv
  <2>2. LockCount(u, e) \in Nat /\ inside[u][object[e]] \in Nat BY CachedObject
  <2>3. CASE u = t /\ e = d
    <3>1. ~Acquiring(t, d) BY <1>p DEF Acquiring
    <3> QED BY <1>d, <2>1, <2>2, <2>3, <3>1
  <2>4. CASE u = t /\ e # d
    <3>1. ~Acquiring(t, e) /\ ~Acquiring(t, e)' BY <1>f, <1>p, <2>4 DEF Acquiring
    <3> QED BY <1>d, <2>1, <2>2, <2>4, <3>1
  <2>5. CASE u # t
    <3>1. Acquiring(u, e)' <=> Acquiring(u, e) BY <1>f, <2>5 DEF Acquiring, IsAcquire
    <3>2. LockCount(u, e)' = LockCount(u, e) BY <1>d, <2>5 DEF LockCount
    <3> QED BY <2>1, <2>2, <3>1, <3>2
  <2> QED BY <2>3, <2>4, <2>5
<1>7. DepthInv'
  <2> SUFFICES ASSUME NEW e \in Blocks, NEW u \in Threads
               PROVE  /\ owner[e] = None => depth[e] = 0
                      /\ owner[e] = u =>
                            /\ depth[e] >= 1
                            /\ depth[e] = (IF e \in Caches(u) THEN inside[u][object[e]] ELSE 0)
                                          + IF Exiting(u, e)' THEN 1 ELSE 0
                      /\ Exiting(u, e)' => owner[e] = u
    BY <1>c, <1>f DEF DepthInv, DepthOf
  <2>1. DepthOf(e) BY DEF OwnerInv, DepthInv
  <2>2. Exiting(u, e)' <=> Exiting(u, e) BY <1>f, <1>p DEF Exiting
  <2>3. e \in Caches(u) => inside[u][object[e]] \in Nat BY CachedObject
  <2> QED BY <2>1, <2>2, <2>3 DEF DepthOf
<1>8. InsideInv' BY <1>c, <1>f DEF OwnerInv, InsideInv
<1>9. StrayInv'
  <2> SUFFICES ASSUME NEW u \in Threads, pc'[u] # "idle", op'[u] = "strayExit"
               PROVE  /\ inside[u][arg'[u]] = 0
                      /\ pc'[u] = "mutex" /\ data'[u] \in Caches(u) => object[data'[u]] = arg'[u]
    BY <1>c, <1>f DEF StrayInv
  <2>1. u # t BY <1>f
  <2> QED BY <1>f, <2>1 DEF OwnerInv, StrayInv
<1> QED BY <1>1, <1>2, <1>3, <1>4, <1>5, <1>6, <1>7, <1>8, <1>9, <1>f, <1>r DEF WalkInv, UseInv, OwnerInv

\* The call of objc_sync_enter or objc_sync_try_enter, cached or not.
LEMMA AcquireStep ==
    ASSUME SyncInv, NEW t \in Threads, NEW o \in Objects, NEW what \in {"enter", "try"},
           Acquire(t, o, what)
    PROVE  SyncInv'
<1>1. Call(t, o, what) /\ inside' = inside BY DEF Acquire
<1>2. CASE AcquireHit(t, o) /\ threadCount' = threadCount BY <1>1, <1>2, AcquireHitStep
<1>3. CASE CacheMiss(t, o)
  <2>1. what \in ClientOps \ {"exit", "threadExit"} /\ what # "strayExit" BY DEF ClientOps
  <2> QED BY <1>1, <1>3, <2>1, MissStep
<1> QED BY <1>2, <1>3 DEF Acquire

\* A release that hits a cache counts one lock less; the last one takes the
\* block out of the cache and out of threadCount.
LEMMA ReleaseHitFacts ==
    ASSUME SyncInv, NEW t \in Threads, NEW o \in Objects, ReleaseHit(t, o)
    PROVE  \E d \in Caches(t) :
             /\ object[d] = o /\ data' = [data EXCEPT ![t] = d]
             /\ pc' = [pc EXCEPT ![t] = "mutex"]
             /\ fast' \in [Threads -> Blocks \cup {None}] /\ fastCount' \in [Threads -> Nat]
             /\ cache' \in [Threads -> [Blocks -> Nat]]
             /\ threadCount' = IF LockCount(t, d) = 1
                               THEN [threadCount EXCEPT ![d] = @ - 1] ELSE threadCount
             /\ Caches(t)' = IF LockCount(t, d) = 1 THEN Caches(t) \ {d} ELSE Caches(t)
             /\ fast'[t] # None => fastCount'[t] > 0 /\ cache'[t][fast'[t]] = 0
             /\ LockCount(t, d)' = LockCount(t, d) - 1
             /\ \A e \in Caches(t) \ {d} : LockCount(t, e)' = LockCount(t, e)
             /\ \A u \in Threads \ {t} : fast'[u] = fast[u] /\ fastCount'[u] = fastCount[u]
                                         /\ cache'[u] = cache[u]
<1> USE SyncAssumption DEF SyncInv
<1>u. UseOf(t) BY DEF UseInv
<1>1. CASE FastHit(t, o) /\ ReleaseHit(t, o)
  <2>1. PICK d : d = fast[t] OBVIOUS
  <2>2. d \in Blocks /\ d # None /\ d \in Caches(t) /\ object[d] = o
    BY <1>1, <2>1 DEF FastHit, TypeOK, Caches
  <2>3. threadCount[d] >= 1
    <3>1. t \in Users(d) BY <2>2 DEF Users
    <3> QED BY <2>2, <3>1, UserCounts
  <2>4. fastCount[t] > 0 /\ fastCount[t] \in Nat /\ cache[t][d] = 0 /\ LockCount(t, d) = fastCount[t]
    BY <1>u, <2>1, <2>2 DEF UseOf, TypeOK, LockCount
  <2>5. /\ fastCount' = [fastCount EXCEPT ![t] = @ - 1] /\ cache' = cache
        /\ data' = [data EXCEPT ![t] = d]
        /\ IF fastCount[t] = 1
           THEN /\ fast' = [fast EXCEPT ![t] = None]
                /\ threadCount' = [threadCount EXCEPT ![d] = @ - 1]
           ELSE fast' = fast /\ threadCount' = threadCount
        /\ pc' = [pc EXCEPT ![t] = IF threadCount[d] <= 0 \/ fastCount[t] <= 0
                                   THEN "fatal" ELSE "mutex"]
    BY <1>1, <2>1 DEF ReleaseHit, LastRelease
  <2>6. ~(threadCount[d] <= 0 \/ fastCount[t] <= 0)
    <3>1. threadCount[d] \in Nat BY <2>2 DEF TypeOK
    <3> QED BY <2>3, <2>4, <3>1
  <2>7. pc' = [pc EXCEPT ![t] = "mutex"] BY <2>5, <2>6
  <2>8. fastCount' \in [Threads -> Nat] /\ fastCount'[t] = fastCount[t] - 1
        /\ \A u \in Threads \ {t} : fastCount'[u] = fastCount[u]
    BY <2>4, <2>5 DEF TypeOK
  <2>14. /\ fast' \in [Threads -> Blocks \cup {None}]
         /\ fast'[t] = (IF fastCount[t] = 1 THEN None ELSE d)
         /\ \A u \in Threads \ {t} : fast'[u] = fast[u]
    BY <2>1, <2>5, ZenonT(30) DEF TypeOK
  <2>9. Caches(t)' = IF LockCount(t, d) = 1 THEN Caches(t) \ {d} ELSE Caches(t)
    <3>1. CASE fastCount[t] = 1
      <4>1. ~(cache[t][d] > 0) /\ fast'[t] = None /\ cache'[t] = cache[t] BY <2>4, <2>5, <2>14, <3>1
      <4>2. Caches(t)' = {e \in Blocks : cache[t][e] > 0} BY <4>1 DEF Caches
      <4>3. Caches(t) \ {d} = {e \in Blocks : cache[t][e] > 0} BY <2>1, <4>1 DEF Caches
      <4> QED BY <2>4, <3>1, <4>2, <4>3
    <3>2. CASE fastCount[t] # 1 BY <2>1, <2>4, <2>5, <2>14, <3>2 DEF Caches
    <3> QED BY <3>1, <3>2
  <2>10. LockCount(t, d)' = LockCount(t, d) - 1
    <3>1. CASE fastCount[t] = 1 BY <2>2, <2>4, <2>5, <2>14, <3>1 DEF LockCount
    <3>2. CASE fastCount[t] # 1 BY <2>4, <2>8, <2>14, <3>2 DEF LockCount
    <3> QED BY <3>1, <3>2
  <2>11. \A e \in Caches(t) \ {d} : LockCount(t, e)' = LockCount(t, e)
    <3> SUFFICES ASSUME NEW e \in Caches(t) \ {d} PROVE LockCount(t, e)' = LockCount(t, e)
      OBVIOUS
    <3>1. e # None BY DEF Caches
    <3> QED BY <2>1, <2>5, <2>14, <3>1 DEF LockCount
  <2>12. fast'[t] # None => fastCount'[t] > 0 /\ cache'[t][fast'[t]] = 0
    BY <2>4, <2>5, <2>8, <2>14
  <2>13. cache' \in [Threads -> [Blocks -> Nat]] BY <2>5 DEF TypeOK
  <2>15. threadCount' = IF LockCount(t, d) = 1
                        THEN [threadCount EXCEPT ![d] = @ - 1] ELSE threadCount
    BY <2>4, <2>5
  <2> QED BY <2>2, <2>5, <2>7, <2>8, <2>9, <2>10, <2>11, <2>12, <2>13, <2>14, <2>15, ZenonT(30)
<1>2. CASE ~FastHit(t, o) /\ ReleaseHit(t, o)
  <2>1. PICK d \in CacheHits(t, o) :
           /\ data' = [data EXCEPT ![t] = d]
           /\ cache' = [cache EXCEPT ![t][d] = @ - 1]
           /\ threadCount' = IF cache[t][d] = 1
                             THEN [threadCount EXCEPT ![d] = @ - 1] ELSE threadCount
           /\ pc' = [pc EXCEPT ![t] = IF threadCount[d] <= 0 THEN "fatal" ELSE "mutex"]
    BY <1>2 DEF ReleaseHit, LastRelease
  <2>2. d \in Blocks /\ d \in Caches(t) /\ object[d] = o /\ cache[t][d] > 0 /\ cache[t][d] \in Nat
    BY DEF CacheHits, Caches, TypeOK
  <2>3. threadCount[d] >= 1
    <3>1. t \in Users(d) BY <2>2 DEF Users
    <3> QED BY <2>2, <3>1, UserCounts
  <2>4. fast' = fast /\ fastCount' = fastCount BY <1>2 DEF ReleaseHit
  <2>5. fast[t] # d BY <1>2, <2>2 DEF FastHit
  <2>6. ~(threadCount[d] <= 0)
    <3>1. threadCount[d] \in Nat BY <2>2 DEF TypeOK
    <3> QED BY <2>3, <3>1
  <2>7. pc' = [pc EXCEPT ![t] = "mutex"] BY <2>1, <2>6
  <2>8. /\ cache' \in [Threads -> [Blocks -> Nat]] /\ cache'[t][d] = cache[t][d] - 1
        /\ \A e \in Blocks \ {d} : cache'[t][e] = cache[t][e]
        /\ \A u \in Threads \ {t} : cache'[u] = cache[u]
    BY <2>1, <2>2 DEF TypeOK
  <2>14. LockCount(t, d) = cache[t][d] BY <2>5 DEF LockCount
  <2>9. Caches(t)' = IF LockCount(t, d) = 1 THEN Caches(t) \ {d} ELSE Caches(t)
    <3>1. cache'[t][d] > 0 <=> LockCount(t, d) # 1 BY <2>2, <2>8, <2>14
    <3>2. \A e \in Blocks : e \in Caches(t)' <=> e \in Caches(t) /\ (e = d => LockCount(t, d) # 1)
      BY <2>2, <2>4, <2>5, <2>8, <3>1 DEF Caches
    <3>3. Caches(t) \subseteq Blocks /\ Caches(t)' \subseteq Blocks BY DEF Caches
    <3> QED BY <3>2, <3>3
  <2>10. LockCount(t, d)' = LockCount(t, d) - 1 BY <2>4, <2>5, <2>8 DEF LockCount
  <2>11. \A e \in Caches(t) \ {d} : LockCount(t, e)' = LockCount(t, e)
    BY <2>4, <2>8 DEF LockCount, Caches
  <2>12. fast'[t] # None => fastCount'[t] > 0 /\ cache'[t][fast'[t]] = 0
    <3>1. fast[t] # None => fast[t] \in Blocks \ {d} BY <2>5 DEF TypeOK
    <3> QED BY <1>u, <2>4, <2>8, <3>1 DEF UseOf
  <2>13. fast' \in [Threads -> Blocks \cup {None}] /\ fastCount' \in [Threads -> Nat]
    BY <2>4 DEF TypeOK
  <2> QED BY <2>1, <2>2, <2>4, <2>7, <2>8, <2>9, <2>10, <2>11, <2>12, <2>13, <2>14, ZenonT(30)
<1> QED BY <1>1, <1>2

\* objc_sync_exit that hits a cache, by a thread inside the object or not.  Inside,
\* the thread owns the block's mutex and may now unlock it once; outside, it does
\* not own it, whatever its lockCount says.
LEMMA ReleaseHitStep ==
    ASSUME SyncInv, NEW t \in Threads, NEW o \in Objects, NEW what,
           Call(t, o, what), ReleaseHit(t, o),
           \/ what = "exit" /\ inside[t][o] > 0 /\ inside' = [inside EXCEPT ![t][o] = @ - 1]
           \/ what = "strayExit" /\ inside[t][o] = 0 /\ inside' = inside
    PROVE  SyncInv'
<1> USE SyncAssumption DEF SyncInv
<1>p. pc[t] = "idle" BY DEF Call
<1>d. PICK d \in Caches(t) :
             /\ object[d] = o /\ data' = [data EXCEPT ![t] = d]
             /\ pc' = [pc EXCEPT ![t] = "mutex"]
             /\ fast' \in [Threads -> Blocks \cup {None}] /\ fastCount' \in [Threads -> Nat]
             /\ cache' \in [Threads -> [Blocks -> Nat]]
             /\ threadCount' = IF LockCount(t, d) = 1
                               THEN [threadCount EXCEPT ![d] = @ - 1] ELSE threadCount
             /\ Caches(t)' = IF LockCount(t, d) = 1 THEN Caches(t) \ {d} ELSE Caches(t)
             /\ fast'[t] # None => fastCount'[t] > 0 /\ cache'[t][fast'[t]] = 0
             /\ LockCount(t, d)' = LockCount(t, d) - 1
             /\ \A e \in Caches(t) \ {d} : LockCount(t, e)' = LockCount(t, e)
             /\ \A u \in Threads \ {t} : fast'[u] = fast[u] /\ fastCount'[u] = fastCount[u]
                                         /\ cache'[u] = cache[u]
  BY ReleaseHitFacts
<1>b. d \in Blocks BY DEF Caches
<1>f. /\ list' = list /\ listLock' = listLock /\ object' = object
      /\ owner' = owner /\ depth' = depth /\ pos' = pos /\ firstUnused' = firstUnused
      /\ op' = [op EXCEPT ![t] = what] /\ arg' = [arg EXCEPT ![t] = o]
      /\ pc'[t] = "mutex" /\ op'[t] = what /\ arg'[t] = o /\ data'[t] = d
      /\ \A u \in Threads \ {t} : /\ pc'[u] = pc[u] /\ op'[u] = op[u] /\ arg'[u] = arg[u]
                                  /\ data'[u] = data[u]
  BY <1>d DEF Call, TypeOK, mutexVars, walkVars
<1>i. /\ inside'[t][o] = inside[t][o] - (IF what = "exit" THEN 1 ELSE 0)
      /\ \A x \in Objects \ {o} : inside'[t][x] = inside[t][x]
      /\ \A u \in Threads \ {t} : inside'[u] = inside[u]
      /\ inside' \in [Threads -> [Objects -> Nat]]
      /\ inside[t][o] \in Nat
  <2>0. inside \in [Threads -> [Objects -> Nat]] /\ inside[t][o] \in Nat BY DEF TypeOK
  <2>1. CASE what = "exit" /\ inside[t][o] > 0 /\ inside' = [inside EXCEPT ![t][o] = @ - 1]
    <3>1. inside[t][o] - 1 \in Nat BY <2>0, <2>1
    <3> QED BY <2>0, <2>1, <3>1
  <2>2. CASE what = "strayExit" /\ inside[t][o] = 0 /\ inside' = inside BY <2>0, <2>2
  <2> QED BY <2>1, <2>2
<1>k. LockCount(t, d) \in Nat /\ LockCount(t, d) >= inside[t][o] /\ LockCount(t, d) >= 1
  <2>1. LockCount(t, d) \in Nat BY CachedObject
  <2>2. LockCount(t, d) >= inside[t][object[d]] + IF Acquiring(t, d) THEN 1 ELSE 0
    BY <1>b DEF OwnerInv, LockCountInv
  <2>3. ~Acquiring(t, d) BY <1>p DEF Acquiring
  <2>4. LockCount(t, d) >= 1
    <3>1. UseOf(t) BY DEF UseInv
    <3>2. fastCount[t] \in Nat /\ cache[t][d] \in Nat BY <1>b DEF TypeOK
    <3> QED BY <1>b, <3>1, <3>2 DEF UseOf, LockCount, Caches
  <2> QED BY <1>d, <1>i, <2>1, <2>2, <2>3, <2>4
<1>q. owner[d] = t <=> what = "exit"
  <2>1. CASE what = "exit"
    <3>1. PICK e \in Caches(t) : object[e] = o /\ owner[e] = t BY <2>1 DEF OwnerInv, InsideInv
    <3>2. d \in Elems(list) /\ e \in Elems(list) BY DEF UseInv, UseOf
    <3>3. e = d BY <1>d, <3>1, <3>2 DEF OneBlockPerObject
    <3> QED BY <2>1, <3>1, <3>3
  <2>2. CASE what = "strayExit"
    <3>1. owner[d] = t => inside[t][object[d]] >= 1 BY <1>b, <1>p, IdleOwner
    <3> QED BY <1>d, <2>2, <3>1
  <2> QED BY <2>1, <2>2
<1>z. what \in {"exit", "strayExit"} OBVIOUS
<1>g. \A e \in Caches(t) : object[e] = o => e = d
  <2>1. Caches(t) \subseteq Elems(list) BY DEF UseInv, UseOf
  <2> QED BY <1>d, <2>1 DEF OneBlockPerObject
<1>s. threadCount[d] \in Nat /\ threadCount[d] >= 1
  <2>1. t \in Users(d) BY DEF Users
  <2> QED BY <1>b, <2>1, UserCounts DEF TypeOK
<1>1. TypeOK'
  <2>1. pc' \in [Threads -> PCs] BY <1>d DEF TypeOK, PCs
  <2>2. op' \in [Threads -> ClientOps \cup {None}] BY <1>f, <1>z DEF TypeOK, ClientOps
  <2>3. arg' \in [Threads -> Objects \cup {None}] BY <1>f DEF TypeOK
  <2>4. data' \in [Threads -> Blocks \cup {None}] BY <1>b, <1>d DEF TypeOK
  <2>5. threadCount' \in [Blocks -> Nat] BY <1>b, <1>d, <1>s DEF TypeOK
  <2> QED BY <1>d, <1>f, <1>i, <2>1, <2>2, <2>3, <2>4, <2>5, ZenonT(30) DEF TypeOK
<1>c. /\ \A u \in Threads \ {t} : Caches(u)' = Caches(u)
      /\ Caches(t)' \subseteq Caches(t)
      /\ \A e \in Caches(t) : e # d => e \in Caches(t)'
  BY <1>d DEF Caches
<1>r. Elems(list)' = Elems(list) BY <1>f DEF Elems
<1>2. NeverFatal' BY <1>f DEF NeverFatal
<1>3. OneBlockPerObject' BY <1>f, <1>r DEF OneBlockPerObject
<1>5. CountInv'
  <2> SUFFICES ASSUME NEW e \in Blocks PROVE AtMost(threadCount'[e], Users(e)')
    BY DEF CountInv
  <2>1. AtMost(threadCount[e], Users(e)) /\ threadCount[e] \in Nat
    BY DEF UseInv, CountInv, TypeOK
  <2>2. Users(e)' \subseteq Users(e) BY <1>c, <1>f, <1>p DEF Users, Joined, IsAcquire
  <2>3. CASE e = d /\ LockCount(t, d) = 1
    <3>1. d \notin Caches(t)' /\ threadCount'[d] = threadCount[d] - 1
      BY <1>b, <1>d, <2>3 DEF TypeOK
    <3>2. t \in Users(e) /\ Users(e)' \subseteq Users(e) \ {t}
      BY <1>f, <2>2, <2>3, <3>1 DEF Users, Joined
    <3>3. AtMost(threadCount[e] - 1, Users(e)') BY <2>1, <3>2, AtMostDel
    <3> QED BY <2>3, <3>1, <3>3
  <2>4. CASE ~(e = d /\ LockCount(t, d) = 1)
    <3>1. threadCount'[e] = threadCount[e] BY <1>b, <1>d, <2>4 DEF TypeOK
    <3>2. AtMost(threadCount[e], Users(e)') BY <2>1, <2>2, AtMostSub
    <3> QED BY <3>1, <3>2
  <2> QED BY <2>3, <2>4
<1>n. \A e \in Blocks : threadCount[e] = 0 => threadCount'[e] = 0
  BY <1>b, <1>d, <1>s DEF TypeOK
<1>4. ASSUME NEW u \in Threads PROVE WalkOf(u)' /\ UseOf(u)'
  <2>1. WalkOf(u) /\ UseOf(u) BY DEF WalkInv, UseInv
  <2>2. CASE u = t
    <3>1. WalkOf(u)' BY <1>f, <1>p, <1>z, <2>1, <2>2 DEF WalkOf, ClientOps
    <3>2. UseOf(u)' BY <1>b, <1>c, <1>d, <1>f, <1>r, <1>z, <2>1, <2>2 DEF UseOf, IsAcquire
    <3> QED BY <3>1, <3>2
  <2>3. CASE u # t
    <3>1. pc[u] = "walk" /\ firstUnused[u] # None => threadCount'[firstUnused[u]] = 0
      <4>1. firstUnused[u] # None => firstUnused[u] \in Blocks BY DEF TypeOK
      <4> QED BY <1>n, <2>1, <4>1 DEF WalkOf
    <3>2. WalkOf(u)' BY <1>c, <1>f, <1>r, <2>1, <2>3, <3>1 DEF WalkOf
    <3>3. UseOf(u)' BY <1>c, <1>d, <1>f, <1>r, <2>1, <2>3 DEF UseOf, IsAcquire
    <3> QED BY <3>2, <3>3
  <2> QED BY <2>2, <2>3
<1>6. LockCountInv'
  <2> SUFFICES ASSUME NEW u \in Threads, NEW e \in Blocks, e \in Caches(u)'
               PROVE  LockCount(u, e)' >= inside'[u][object[e]] + IF Acquiring(u, e)' THEN 1 ELSE 0
    BY <1>f DEF LockCountInv
  <2>c. e \in Caches(u) BY <1>c
  <2>1. LockCount(u, e) >= inside[u][object[e]] + IF Acquiring(u, e) THEN 1 ELSE 0
    BY <2>c DEF OwnerInv, LockCountInv
  <2>2. LockCount(u, e) \in Nat /\ inside[u][object[e]] \in Nat /\ object[e] \in Objects
    BY <2>c, CachedObject
  <2>3. CASE u = t /\ e = d
    <3>1. ~Acquiring(t, d)' BY <1>f, <1>z DEF Acquiring, IsAcquire
    <3>2. LockCount(t, d) >= 2 BY <1>d, <1>k, <2>3
    <3>3. inside'[t][o] <= LockCount(t, d) - 1 /\ inside'[t][o] \in Nat BY <1>i, <1>k, <1>z, <3>2
    <3> QED BY <1>d, <2>3, <3>1, <3>3
  <2>4. CASE u = t /\ e # d
    <3>1. ~Acquiring(t, e)' BY <1>f, <1>z DEF Acquiring, IsAcquire
    <3>2. object[e] # o BY <1>g, <2>4, <2>c
    <3> QED BY <1>d, <1>i, <2>1, <2>2, <2>4, <2>c, <3>1, <3>2
  <2>5. CASE u # t
    <3>1. Acquiring(u, e)' <=> Acquiring(u, e) BY <1>f, <2>5 DEF Acquiring, IsAcquire
    <3>2. LockCount(u, e)' = LockCount(u, e) BY <1>d, <2>5 DEF LockCount
    <3> QED BY <1>i, <2>1, <2>2, <2>5, <3>1, <3>2
  <2> QED BY <2>3, <2>4, <2>5
<1>7. DepthInv'
  <2> SUFFICES ASSUME NEW e \in Blocks, NEW u \in Threads
               PROVE  /\ owner[e] = None => depth[e] = 0
                      /\ owner[e] = u =>
                            /\ depth[e] >= 1
                            /\ depth[e] = (IF e \in Caches(u)' THEN inside'[u][object[e]] ELSE 0)
                                          + IF Exiting(u, e)' THEN 1 ELSE 0
                      /\ Exiting(u, e)' => owner[e] = u
    BY <1>f DEF DepthInv, DepthOf
  <2>1. DepthOf(e) BY DEF OwnerInv, DepthInv
  <2>3. e \in Caches(u) => inside[u][object[e]] \in Nat /\ object[e] \in Objects BY CachedObject
  <2>4. CASE u # t
    <3>1. Exiting(u, e)' <=> Exiting(u, e) BY <1>f, <2>4 DEF Exiting
    <3> QED BY <1>c, <1>i, <2>1, <2>3, <2>4, <3>1 DEF DepthOf
  <2>5. CASE u = t /\ e # d
    <3>1. ~Exiting(u, e)' /\ ~Exiting(u, e) BY <1>f, <1>p, <2>5 DEF Exiting
    <3>2. e \in Caches(u) => inside'[u][object[e]] = inside[u][object[e]] BY <1>g, <1>i, <2>3, <2>5
    <3>3. e \in Caches(u)' <=> e \in Caches(u) BY <1>c, <2>5
    <3> QED BY <2>1, <2>3, <3>1, <3>2, <3>3 DEF DepthOf
  <2>6. CASE u = t /\ e = d
    <3>1. CASE what = "strayExit"
      <4>1. owner[d] # t BY <1>q, <3>1
      <4>3. op'[t] # "exit" BY <1>f, <3>1
      <4>2. ~Exiting(u, e)' BY <2>6, <4>3 DEF Exiting
      <4> QED BY <2>1, <2>6, <4>1, <4>2 DEF DepthOf
    <3>2. CASE what = "exit"
      <4>1. owner[d] = t /\ Exiting(t, d)' BY <1>f, <1>q, <3>2 DEF Exiting
      <4>2. depth[d] = inside[t][o] /\ inside[t][o] >= 1 BY <1>b, <1>d, <1>p, <4>1, IdleOwner
      <4>3. inside'[t][o] = inside[t][o] - 1 BY <1>i, <3>2
      <4>4. CASE d \in Caches(t)'
        BY <1>d, <1>i, <2>6, <4>1, <4>2, <4>3, <4>4, SyncAssumption
      <4>5. CASE d \notin Caches(t)'
        <5>1. LockCount(t, d) = 1 BY <1>d, <4>5
        <5>2. inside[t][o] = 1 BY <1>i, <1>k, <4>2, <5>1
        <5> QED BY <1>d, <2>6, <4>1, <4>2, <4>5, <5>2, SyncAssumption
      <4> QED BY <4>4, <4>5
    <3> QED BY <1>z, <3>1, <3>2
  <2> QED BY <2>4, <2>5, <2>6
<1>8. InsideInv'
  <2> SUFFICES ASSUME NEW u \in Threads, NEW x \in Objects, inside'[u][x] > 0
               PROVE  \E e \in Caches(u)' : object[e] = x /\ owner[e] = u
    BY <1>f DEF InsideInv
  <2>0. inside[u][x] \in Nat BY DEF TypeOK
  <2>5. inside'[u][x] = inside[u][x] \/ (u = t /\ x = o) BY <1>i
  <2>1. inside[u][x] > 0 BY <1>i, <2>0, <2>5
  <2>2. PICK e \in Caches(u) : object[e] = x /\ owner[e] = u BY <2>1 DEF OwnerInv, InsideInv
  <2>3. CASE u = t /\ e = d
    <3>1. x = o /\ what = "exit" BY <1>d, <1>q, <2>2, <2>3
    <3>2. inside[t][o] >= 2 BY <1>i, <2>3, <3>1
    <3>3. LockCount(t, d) # 1 BY <1>i, <1>k, <3>2
    <3> QED BY <1>d, <2>2, <2>3, <3>3
  <2>4. CASE ~(u = t /\ e = d) BY <1>c, <2>2, <2>4
  <2> QED BY <2>3, <2>4
<1>9. StrayInv'
  <2> SUFFICES ASSUME NEW u \in Threads, pc'[u] # "idle", op'[u] = "strayExit"
               PROVE  /\ inside'[u][arg'[u]] = 0
                      /\ pc'[u] = "mutex" /\ data'[u] \in Caches(u)' => object[data'[u]] = arg'[u]
    BY <1>f DEF StrayInv
  <2>1. CASE u # t BY <1>c, <1>f, <1>i, <2>1 DEF OwnerInv, StrayInv
  <2>2. CASE u = t
    <3>1. what = "strayExit" BY <1>f, <2>2
    <3> QED BY <1>d, <1>f, <2>2, <3>1
  <2> QED BY <2>1, <2>2
<1> QED BY <1>1, <1>2, <1>3, <1>4, <1>5, <1>6, <1>7, <1>8, <1>9, <1>f, <1>r DEF WalkInv, UseInv, OwnerInv

\* The call of objc_sync_exit by a thread inside the object: it hits a cache.
LEMMA ExitStep ==
    ASSUME SyncInv, NEW t \in Threads, NEW o \in Objects, Exit(t, o)
    PROVE  SyncInv'
<1>1. Call(t, o, "exit") /\ inside[t][o] > 0 /\ inside' = [inside EXCEPT ![t][o] = @ - 1]
  BY DEF Exit
<1>2. CASE ReleaseHit(t, o) BY <1>1, <1>2, ReleaseHitStep, ZenonT(30)
<1>3. CASE CacheMiss(t, o)
  <2>1. PICK d \in Caches(t) : object[d] = o BY <1>1 DEF SyncInv, OwnerInv, InsideInv
  <2>2. object[d] # o BY <1>3, SyncAssumption DEF CacheMiss, FastHit, CacheHits, Caches
  <2> QED BY <2>1, <2>2
<1> QED BY <1>2, <1>3 DEF Exit

\* The call of objc_sync_exit by a thread outside the object.
LEMMA StrayExitStep ==
    ASSUME SyncInv, NEW t \in Threads, NEW o \in Objects, StrayExit(t, o)
    PROVE  SyncInv'
<1>1. Call(t, o, "strayExit") /\ inside[t][o] = 0 /\ inside' = inside BY DEF StrayExit
<1>2. CASE ReleaseHit(t, o) BY <1>1, <1>2, ReleaseHitStep
<1>3. CASE CacheMiss(t, o)
  <2>1. "strayExit" \in ClientOps \ {"exit", "threadExit"} BY DEF ClientOps
  <2> QED BY <1>1, <1>3, <2>1, MissStep
<1> QED BY <1>2, <1>3 DEF StrayExit

-----------------------------------------------------------------------------
(* The theorems.                                                           *)

\* Initially nothing is listed, cached or locked.
LEMMA InitSyncInv == Init => SyncInv
<1> SUFFICES ASSUME Init PROVE SyncInv OBVIOUS
<1> USE SyncAssumption DEF Init
<1>1. TypeOK BY DEF TypeOK, PCs
<1>2. NeverFatal BY DEF NeverFatal
<1>e. Elems(list) = {} BY DEF Elems
<1>c. \A t \in Threads : Caches(t) = {} BY DEF Caches
<1>3. OneBlockPerObject BY <1>e DEF OneBlockPerObject
<1>4. WalkInv
  <2> SUFFICES ASSUME NEW t \in Threads PROVE WalkOf(t) BY DEF WalkInv
  <2>1. listLock # t /\ pc[t] = "idle" /\ pos[t] = 1 /\ firstUnused[t] = None OBVIOUS
  <2> QED BY <2>1 DEF WalkOf
<1>5. UseInv
  <2>1. \A d \in Blocks : Users(d) = {} BY <1>c DEF Users, Joined
  <2>2. CountInv BY <2>1, AtMostEmpty, ZenonT(30) DEF CountInv
  <2>3. \A t \in Threads : UseOf(t) BY <1>c, <1>e DEF UseOf
  <2> QED BY <1>e, <2>2, <2>3 DEF UseInv
<1>6. OwnerInv
  <2>1. LockCountInv BY <1>c DEF LockCountInv
  <2>2. DepthInv
    <3> SUFFICES ASSUME NEW d \in Blocks PROVE DepthOf(d) BY DEF DepthInv
    <3>1. owner[d] = None /\ depth[d] = 0 OBVIOUS
    <3>2. \A t \in Threads : owner[d] # t /\ ~Exiting(t, d) BY <3>1 DEF Exiting
    <3> QED BY <3>1, <3>2 DEF DepthOf
  <2>3. InsideInv BY DEF InsideInv
  <2>4. StrayInv BY DEF StrayInv
  <2> QED BY <2>1, <2>2, <2>3, <2>4 DEF OwnerInv
<1> QED BY <1>1, <1>2, <1>3, <1>4, <1>5, <1>6 DEF SyncInv

\* A step that changes nothing keeps the invariant.
LEMMA StutterSyncInv == SyncInv /\ UNCHANGED vars => SyncInv'
<1> SUFFICES ASSUME SyncInv, UNCHANGED vars PROVE SyncInv' OBVIOUS
<1> USE DEF SyncInv
<1>f. /\ list' = list /\ listLock' = listLock /\ object' = object /\ threadCount' = threadCount
      /\ owner' = owner /\ depth' = depth /\ fast' = fast /\ fastCount' = fastCount
      /\ cache' = cache /\ pos' = pos /\ firstUnused' = firstUnused
      /\ op' = op /\ arg' = arg /\ pc' = pc /\ data' = data /\ inside' = inside
  BY DEF vars, blockVars, mutexVars, cacheVars, walkVars, callVars
<1>1. TypeOK' BY <1>f DEF TypeOK
<1>2. NeverFatal' BY <1>f DEF NeverFatal
<1>r. Elems(list)' = Elems(list) BY <1>f DEF Elems
<1>c. \A t \in Threads : Caches(t)' = Caches(t) BY <1>f DEF Caches
<1>3. OneBlockPerObject' BY <1>f, <1>r DEF OneBlockPerObject
<1>4. ASSUME NEW t \in Threads PROVE WalkOf(t)' /\ UseOf(t)'
  <2>1. WalkOf(t) /\ UseOf(t) BY DEF WalkInv, UseInv
  <2>2. WalkOf(t)' BY <1>c, <1>f, <1>r, <2>1 DEF WalkOf
  <2>3. UseOf(t)' BY <1>c, <1>f, <1>r, <2>1 DEF UseOf, IsAcquire
  <2> QED BY <2>2, <2>3
<1>5. CountInv'
  <2>1. \A d \in Blocks : Users(d)' = Users(d) BY <1>c, <1>f DEF Users, Joined, IsAcquire
  <2> QED BY <1>f, <2>1 DEF UseInv, CountInv
<1>6. \A u \in Threads, d \in Blocks : /\ Acquiring(u, d)' <=> Acquiring(u, d)
                                       /\ Exiting(u, d)' <=> Exiting(u, d)
  BY <1>f DEF Acquiring, Exiting, IsAcquire
<1>7. LockCountInv' /\ DepthInv' /\ InsideInv' BY <1>f, <1>6, OwnerFrame
<1>8. StrayInv' BY <1>c, <1>f DEF OwnerInv, StrayInv
<1> QED BY <1>1, <1>2, <1>3, <1>4, <1>5, <1>7, <1>8, <1>f, <1>r DEF WalkInv, UseInv, OwnerInv

\* Every step keeps the invariant.
LEMMA StepSyncInv == SyncInv /\ [Next]_vars => SyncInv'
<1> SUFFICES ASSUME SyncInv, [Next]_vars PROVE SyncInv' OBVIOUS
<1>1. ASSUME NEW t \in Threads, NEW o \in Objects, Enter(t, o) PROVE SyncInv'
  BY <1>1, AcquireStep DEF Enter
<1>2. ASSUME NEW t \in Threads, NEW o \in Objects, TryEnter(t, o) PROVE SyncInv'
  BY <1>2, AcquireStep DEF TryEnter
<1>3. ASSUME NEW t \in Threads, NEW o \in Objects, Exit(t, o) PROVE SyncInv' BY <1>3, ExitStep
<1>4. ASSUME NEW t \in Threads, NEW o \in Objects, StrayExit(t, o) PROVE SyncInv'
  BY <1>4, StrayExitStep
<1>5. ASSUME NEW t \in Threads, ThreadExit(t) PROVE SyncInv' BY <1>5, ThreadExitStep
<1>6. ASSUME NEW t \in Threads, LockList(t) PROVE SyncInv' BY <1>6, LockListStep
<1>7. ASSUME NEW t \in Threads, Walk(t) PROVE SyncInv' BY <1>7, WalkStep
<1>8. ASSUME NEW t \in Threads, WalkEnd(t) PROVE SyncInv' BY <1>8, WalkEndStep
<1>9. ASSUME NEW t \in Threads, Done(t) PROVE SyncInv' BY <1>9, DoneStep
<1>10. ASSUME NEW t \in Threads, Lock(t) PROVE SyncInv' BY <1>10, LockStep
<1>11. ASSUME NEW t \in Threads, TryLockFails(t) PROVE SyncInv' BY <1>11, TryLockFailsStep
<1>12. ASSUME NEW t \in Threads, TryUnlock(t) PROVE SyncInv' BY <1>12, TryUnlockStep
<1>13. ASSUME UNCHANGED vars PROVE SyncInv' BY <1>13, StutterSyncInv
<1> QED BY <1>1, <1>2, <1>3, <1>4, <1>5, <1>6, <1>7, <1>8, <1>9, <1>10, <1>11, <1>12, <1>13 DEF Next

\* SyncInv holds in every reachable state, for any number of threads, objects
\* and blocks.
THEOREM SyncInvariant == Spec => []SyncInv
BY InitSyncInv, StepSyncInv, PTL DEF Spec

\* A thread inside an object owns the mutex of the object's only block, so no
\* two threads are inside one object.
LEMMA SyncInvExcludes == SyncInv => MutualExclusion
<1> SUFFICES ASSUME SyncInv, NEW t \in Threads, NEW u \in Threads, NEW o \in Objects,
                    inside[t][o] > 0, inside[u][o] > 0
             PROVE  t = u
  BY DEF MutualExclusion
<1> USE DEF SyncInv
<1>1. PICK d \in Caches(t) : object[d] = o /\ owner[d] = t BY DEF OwnerInv, InsideInv
<1>2. PICK e \in Caches(u) : object[e] = o /\ owner[e] = u BY DEF OwnerInv, InsideInv
<1>3. d \in Elems(list) /\ e \in Elems(list) BY DEF UseInv, UseOf
<1>4. d = e BY <1>1, <1>2, <1>3 DEF OneBlockPerObject
<1> QED BY <1>1, <1>2, <1>4

\* @synchronized excludes, for any number of threads, objects and blocks.
THEOREM SyncExcludes == Spec => []MutualExclusion
BY SyncInvariant, SyncInvExcludes, PTL

\* id2data's three self-checks never fire.
THEOREM SyncNeverFatal == Spec => []NeverFatal
<1>1. SyncInv => NeverFatal BY DEF SyncInv
<1> QED BY <1>1, SyncInvariant, PTL

\* No object ever has two blocks.
THEOREM SyncOneBlock == Spec => []OneBlockPerObject
<1>1. SyncInv => OneBlockPerObject BY DEF SyncInv
<1> QED BY <1>1, SyncInvariant, PTL

\* objc_sync_exit by a thread inside the object finds the block in a cache and
\* owns its mutex.
THEOREM SyncBalancedExit == Spec => []BalancedExitSucceeds
<1>1. SyncInv => BalancedExitSucceeds
  <2> SUFFICES ASSUME SyncInv, NEW t \in Threads, pc[t] # "idle", op[t] = "exit"
               PROVE  pc[t] = "mutex" /\ owner[data[t]] = t
    BY DEF BalancedExitSucceeds
  <2> USE DEF SyncInv
  <2>1. pc[t] = "mutex" BY DEF WalkInv, WalkOf, NeverFatal, TypeOK, PCs
  <2>2. data[t] \in Blocks BY <2>1 DEF UseInv, UseOf
  <2>3. Exiting(t, data[t]) BY <2>1 DEF Exiting
  <2> QED BY <2>1, <2>2, <2>3 DEF OwnerInv, DepthInv, DepthOf
<1> QED BY <1>1, SyncInvariant, PTL

\* A call for an object never waits behind a thread inside another object.
THEOREM SyncWaits == Spec => []WaitsOnlyForItsObject
<1>1. SyncInv => WaitsOnlyForItsObject
  <2> SUFFICES ASSUME SyncInv, NEW t \in Threads, pc[t] = "mutex", IsAcquire(t),
                      NEW u, u = owner[data[t]], u \notin {None, t}
               PROVE  inside[u][arg[t]] > 0 \/ Exiting(u, data[t])
    BY DEF WaitsOnlyForItsObject, Exiting
  <2> USE DEF SyncInv
  <2>1. data[t] \in Blocks /\ object[data[t]] = arg[t] BY DEF UseInv, UseOf
  <2>2. u \in Threads BY <2>1 DEF TypeOK
  <2>3. DepthOf(data[t]) BY <2>1 DEF OwnerInv, DepthInv
  <2>4. CASE ~Exiting(u, data[t])
    <3>1. data[t] \in Caches(u) => inside[u][object[data[t]]] \in Nat BY <2>2, CachedObject
    <3>2. data[t] \in Caches(u) /\ inside[u][object[data[t]]] >= 1
      BY <2>2, <2>3, <2>4, <3>1 DEF DepthOf
    <3> QED BY <2>1, <3>1, <3>2
  <2> QED BY <2>4
<1> QED BY <1>1, SyncInvariant, PTL

\* A block changes hands only when the walk ends, and then it has no user: no
\* unlocked read of a cached block ever sees its object change.
THEOREM SyncCachedBlocks == Spec => CachedBlocksKeepTheirObject
<1> DEFINE Kept == \A d \in Blocks : object'[d] # object[d] =>
                      \A t \in Threads :
                         /\ d \notin Caches(t)
                         /\ ~(pc[t] = "mutex" /\ IsAcquire(t) /\ data[t] = d)
<1>1. SyncInv /\ [Next]_vars => [Kept]_vars
  <2> SUFFICES ASSUME SyncInv, Next, NEW d \in Blocks, object'[d] # object[d], NEW u \in Threads
               PROVE  /\ d \notin Caches(u)
                      /\ ~(pc[u] = "mutex" /\ IsAcquire(u) /\ data[u] = d)
    OBVIOUS
  <2>1. PICK t \in Threads : WalkEnd(t)
    <3> SUFFICES ASSUME NEW t \in Threads, ~WalkEnd(t),
                        \/ \E o \in Objects : Enter(t, o) \/ TryEnter(t, o) \/ Exit(t, o) \/ StrayExit(t, o)
                        \/ ThreadExit(t) \/ LockList(t) \/ Walk(t) \/ WalkEnd(t) \/ Done(t)
                        \/ Lock(t) \/ TryLockFails(t) \/ TryUnlock(t)
                 PROVE  object' = object
      BY DEF Next
    <3> QED BY DEF Enter, TryEnter, Exit, StrayExit, Acquire, Call, ThreadExit, LockList, Walk, Done,
                   Lock, TryLockFails, TryUnlock, blockVars
  <2>2. pc[t] = "walk" BY <2>1 DEF WalkEnd
  <2>3. IF firstUnused[t] # None THEN d = firstUnused[t] ELSE d \notin Elems(list)
    BY <2>1, ZenonT(30) DEF WalkEnd, SyncInv, TypeOK
  <2>4. Users(d) = {} BY <2>2, <2>3, UnusedBlock
  <2>5. d \notin Caches(u) BY <2>4 DEF Users
  <2>6. pc[u] = "mutex" /\ IsAcquire(u) => data[u] \in Caches(u) BY DEF SyncInv, UseInv, UseOf
  <2> QED BY <2>5, <2>6
<1> QED BY <1>1, SyncInvariant, PTL DEF Spec, CachedBlocksKeepTheirObject
=============================================================================
