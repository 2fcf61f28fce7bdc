--------------------------- MODULE ObjcSyncSteps ----------------------------
(***************************************************************************)
(* Proofs about ObjcSync, first part: counting the users of a block, and   *)
(* the steps on the mutex of a block and those of id2data under the        *)
(* spinlock of the list keep SyncInv.                                      *)
(***************************************************************************)
EXTENDS ObjcSync, TLAPS

\* The provers' time limits, for slow machines.
USE SMTT(30), ZenonT(30)

\* A record update is beyond the types that the SMT translation infers. With this
\* fact at hand it infers none, which is quicker.
LEMMA Untyped == \A r : [r EXCEPT !.field = r.field] = [r EXCEPT !.field = r.field]
OBVIOUS

USE Untyped

-----------------------------------------------------------------------------
(* Counting the users of a block.                                          *)

\* Fewer members, and a larger bound, are at most as many.
LEMMA AtMostSub ==
    ASSUME NEW n \in Nat, NEW S, NEW T, S \subseteq T, AtMost(n, T)
    PROVE  AtMost(n, S)
<1>1. PICK f \in [T -> 1..n] : \A x, y \in T : f[x] = f[y] => x = y BY DEF AtMost
<1> DEFINE g == [x \in S |-> f[x]]
<1>2. g \in [S -> 1..n] /\ \A x, y \in S : g[x] = g[y] => x = y BY <1>1
<1> QED BY <1>2, Zenon DEF AtMost

\* The empty set has at most no member.
LEMMA AtMostEmpty == AtMost(0, {})
<1> DEFINE g == [x \in {} |-> 0]
<1>1. g \in [{} -> 1..0] OBVIOUS
<1> QED BY <1>1, Zenon DEF AtMost

\* One more member needs at most one more.
LEMMA AtMostAdd ==
    ASSUME NEW n \in Nat, NEW S, NEW T, NEW t, S \subseteq T \cup {t}, AtMost(n, T)
    PROVE  AtMost(n + 1, S)
<1>1. PICK f \in [T -> 1..n] : \A x, y \in T : f[x] = f[y] => x = y BY DEF AtMost
<1> DEFINE g == [x \in S |-> IF x \in T THEN f[x] ELSE n + 1]
<1>2. g \in [S -> 1..(n + 1)]
  <2> SUFFICES ASSUME NEW x \in S PROVE (IF x \in T THEN f[x] ELSE n + 1) \in 1..(n + 1) OBVIOUS
  <2> QED BY <1>1
<1>3. ASSUME NEW x \in S, NEW y \in S, g[x] = g[y] PROVE x = y
  <2>1. x \in T => f[x] \in Nat /\ f[x] # n + 1 BY <1>1
  <2>2. y \in T => f[y] \in Nat /\ f[y] # n + 1 BY <1>1
  <2>3. g[x] = (IF x \in T THEN f[x] ELSE n + 1) /\ g[y] = (IF y \in T THEN f[y] ELSE n + 1)
    OBVIOUS
  <2> QED BY <1>1, <1>3, <2>1, <2>2, <2>3
<1> QED BY <1>2, <1>3, Zenon DEF AtMost

\* A member that leaves makes room for one: whoever is counted last takes its place.
LEMMA AtMostDel ==
    ASSUME NEW n \in Nat, NEW S, NEW T, NEW t \in T, S \subseteq T \ {t}, AtMost(n, T)
    PROVE  AtMost(n - 1, S)
<1>1. PICK f \in [T -> 1..n] : \A x, y \in T : f[x] = f[y] => x = y BY DEF AtMost
<1> DEFINE g == [x \in S |-> IF f[x] = n THEN f[t] ELSE f[x]]
<1>2. \A x \in S : x \in T /\ f[x] \in 1..n /\ f[x] # f[t] BY <1>1
<1>3. f[t] \in 1..n BY <1>1
<1>4. g \in [S -> 1..(n - 1)]
  <2> SUFFICES ASSUME NEW x \in S PROVE (IF f[x] = n THEN f[t] ELSE f[x]) \in 1..(n - 1) OBVIOUS
  <2> QED BY <1>2, <1>3
<1>5. ASSUME NEW x \in S, NEW y \in S, g[x] = g[y] PROVE x = y
  <2>1. g[x] = (IF f[x] = n THEN f[t] ELSE f[x]) /\ g[y] = (IF f[y] = n THEN f[t] ELSE f[y]) OBVIOUS
  <2>2. f[x] = f[y] BY <1>2, <1>5, <2>1
  <2> QED BY <1>1, <1>2, <2>2
<1> QED BY <1>4, <1>5, Zenon DEF AtMost

\* A block with a user has a positive count.
LEMMA UserCounts ==
    ASSUME TypeOK, UseInv, NEW d \in Blocks, NEW t \in Users(d)
    PROVE  threadCount[d] >= 1
<1>1. AtMost(threadCount[d], Users(d)) /\ threadCount[d] \in Nat BY DEF UseInv, CountInv, TypeOK
<1>2. PICK f \in [Users(d) -> 1..threadCount[d]] : TRUE BY <1>1 DEF AtMost
<1>3. f[t] \in 1..threadCount[d] BY <1>2
<1> QED BY <1>1, <1>3

\* A cached block is on the list and belongs to an object.
LEMMA CachedObject ==
    ASSUME TypeOK, UseInv, NEW t \in Threads, NEW d \in Caches(t)
    PROVE  d \in Blocks /\ object[d] \in Objects /\ LockCount(t, d) \in Nat
           /\ inside[t][object[d]] \in Nat
<1>1. d \in Blocks BY DEF Caches
<1>2. object[d] \in Objects BY DEF UseInv, UseOf
<1> QED BY <1>1, <1>2 DEF TypeOK, LockCount

\* A step that moves no thread in or out of a mutex, a cache or an object keeps
\* the account of the mutexes.
LEMMA OwnerFrame ==
    ASSUME TypeOK, UseInv, OwnerInv,
           \A u \in Threads : \A d \in Caches(u) : object'[d] = object[d],
           owner' = owner, depth' = depth, inside' = inside,
           fast' = fast, fastCount' = fastCount, cache' = cache,
           \A u \in Threads, d \in Blocks : /\ Acquiring(u, d)' <=> Acquiring(u, d)
                                            /\ Exiting(u, d)' <=> Exiting(u, d)
    PROVE  LockCountInv' /\ DepthInv' /\ InsideInv'
<1>c. \A u \in Threads : Caches(u)' = Caches(u) BY DEF Caches
<1>1. LockCountInv'
  <2> SUFFICES ASSUME NEW u \in Threads, NEW d \in Blocks, d \in Caches(u)
               PROVE  LockCount(u, d)' >= inside'[u][object'[d]] + IF Acquiring(u, d)' THEN 1 ELSE 0
    BY <1>c DEF LockCountInv
  <2>1. LockCount(u, d) >= inside[u][object[d]] + IF Acquiring(u, d) THEN 1 ELSE 0
    BY DEF OwnerInv, LockCountInv
  <2>2. LockCount(u, d)' = LockCount(u, d) BY DEF LockCount
  <2>3. LockCount(u, d) \in Nat /\ inside[u][object[d]] \in Nat BY CachedObject
  <2>4. Acquiring(u, d)' <=> Acquiring(u, d) OBVIOUS
  <2> QED BY <2>1, <2>2, <2>3, <2>4
<1>2. DepthInv'
  <2> SUFFICES ASSUME NEW d \in Blocks PROVE DepthOf(d)' BY DEF DepthInv
  <2>1. DepthOf(d) BY DEF OwnerInv, DepthInv
  <2> SUFFICES ASSUME NEW u \in Threads
               PROVE  /\ owner[d] = None => depth[d] = 0
                      /\ owner[d] = u =>
                            /\ depth[d] >= 1
                            /\ depth[d] = (IF d \in Caches(u) THEN inside[u][object[d]] ELSE 0)
                                          + IF Exiting(u, d)' THEN 1 ELSE 0
                      /\ Exiting(u, d)' => owner[d] = u
    BY <1>c, <2>1 DEF DepthOf
  <2>3. d \in Caches(u) => inside[u][object[d]] \in Nat BY CachedObject
  <2>4. Exiting(u, d)' <=> Exiting(u, d) OBVIOUS
  <2> QED BY <2>1, <2>3, <2>4 DEF DepthOf
<1>3. InsideInv' BY <1>c DEF OwnerInv, InsideInv
<1> QED BY <1>1, <1>2, <1>3

-----------------------------------------------------------------------------
(* The mutex of the block.                                                 *)

\* mutex.lock() of objc_sync_enter, or a tryLock() that succeeds: the thread is
\* inside the object and owns the mutex once more.
LEMMA LockStep ==
    ASSUME SyncInv, NEW t \in Threads, Lock(t)
    PROVE  SyncInv'
<1> USE SyncAssumption DEF SyncInv
<1>p. pc[t] = "mutex" BY DEF Lock
<1>a. arg[t] \in Objects /\ data[t] \in Blocks
  <2>1. arg[t] \in Objects BY <1>p DEF WalkInv, WalkOf
  <2>2. data[t] \in Blocks BY <1>p DEF UseInv, UseOf
  <2> QED BY <2>1, <2>2
<1>b. owner[data[t]] = t => depth[data[t]] >= 1 BY <1>a DEF OwnerInv, DepthInv, DepthOf
<1>1. TypeOK'
  <2> USE DEF Lock, Free, Return, blockVars, mutexVars, cacheVars, walkVars, callVars
  <2>1. owner' \in [Blocks -> Threads \cup {None}] BY <1>a DEF TypeOK
  <2>5. depth' \in [Blocks -> Nat] BY <1>a, <1>b DEF TypeOK
  <2>2. inside' \in [Threads -> [Objects -> Nat]] BY <1>a DEF TypeOK
  <2>3. pc' \in [Threads -> PCs] BY DEF TypeOK, PCs
  <2>4. op' \in [Threads -> ClientOps \cup {None}] /\ arg' \in [Threads -> Objects \cup {None}]
        /\ data' \in [Threads -> Blocks \cup {None}] BY DEF TypeOK
  <2> QED BY <2>1, <2>2, <2>3, <2>4, <2>5 DEF TypeOK
<1>f. /\ list' = list /\ listLock' = listLock /\ object' = object /\ threadCount' = threadCount
      /\ fast' = fast /\ fastCount' = fastCount /\ cache' = cache
      /\ pos' = pos /\ firstUnused' = firstUnused
      /\ pc'[t] = "idle"
      /\ \A u \in Threads \ {t} : /\ pc'[u] = pc[u] /\ op'[u] = op[u] /\ arg'[u] = arg[u]
                                  /\ data'[u] = data[u] /\ inside'[u] = inside[u]
  BY DEF Lock, Free, Return, TypeOK, blockVars, cacheVars, walkVars, callVars
<1>d. /\ owner[data[t]] \in {None, t} /\ Acquiring(t, data[t])
      /\ owner'[data[t]] = t /\ depth'[data[t]] = depth[data[t]] + 1
      /\ inside'[t][arg[t]] = inside[t][arg[t]] + 1
      /\ \A o \in Objects \ {arg[t]} : inside'[t][o] = inside[t][o]
      /\ \A d \in Blocks \ {data[t]} : owner'[d] = owner[d] /\ depth'[d] = depth[d]
  BY <1>a, <1>1 DEF TypeOK, Lock, Free, Acquiring, IsAcquire
<1>2. NeverFatal' BY <1>f DEF NeverFatal
<1>3. OneBlockPerObject' BY <1>f DEF OneBlockPerObject
<1>c. \A u \in Threads : Caches(u)' = Caches(u) BY <1>f DEF Caches
<1>4. WalkInv'
  <2> SUFFICES ASSUME NEW u \in Threads PROVE WalkOf(u)' BY DEF WalkInv
  <2>1. WalkOf(u) /\ Elems(list)' = Elems(list) BY <1>f DEF WalkInv, Elems
  <2>2. CASE u = t BY <1>c, <1>f, <1>p, <2>1, <2>2 DEF WalkOf
  <2>3. CASE u # t BY <1>c, <1>f, <2>1, <2>3 DEF WalkOf
  <2> QED BY <2>2, <2>3
<1>5. UseInv'
  <2>1. \A d \in Blocks : Users(d)' = Users(d)
    BY <1>c, <1>f, <1>p DEF Users, Joined, IsAcquire
  <2>2. CountInv' BY <1>f, <2>1 DEF UseInv, CountInv
  <2>3. Elems(list)' = Elems(list) BY <1>f DEF Elems
  <2>4. ASSUME NEW u \in Threads PROVE UseOf(u)'
    <3>1. UseOf(u) BY DEF UseInv
    <3> QED BY <1>c, <1>f, <2>3, <3>1 DEF UseOf, IsAcquire
  <2> QED BY <1>f, <2>2, <2>3, <2>4 DEF UseInv
<1>6. OwnerInv'
  <2>1. LockCountInv'
    <3> SUFFICES ASSUME NEW u \in Threads, NEW d \in Blocks, d \in Caches(u)
                 PROVE  LockCount(u, d) >= inside'[u][object[d]] + IF Acquiring(u, d)' THEN 1 ELSE 0
      BY <1>c, <1>f DEF LockCountInv, LockCount
    <3>1. LockCount(u, d) >= inside[u][object[d]] + IF Acquiring(u, d) THEN 1 ELSE 0
      BY DEF OwnerInv, LockCountInv
    <3>2. object[d] \in Objects /\ LockCount(u, d) \in Nat /\ inside[u][object[d]] \in Nat
      BY CachedObject
    <3>3. u # t => (Acquiring(u, d)' <=> Acquiring(u, d)) BY <1>f DEF Acquiring, IsAcquire
    <3>4. u = t /\ d # data[t] => object[d] # arg[t]
      BY <1>d, <1>a DEF OneBlockPerObject, UseInv, UseOf, Acquiring
    <3>5. ~Acquiring(t, d)' BY <1>f DEF Acquiring
    <3> QED BY <1>a, <1>d, <1>f, <3>1, <3>2, <3>3, <3>5, <3>4 DEF UseInv
  <2>2. DepthInv'
    <3> SUFFICES ASSUME NEW d \in Blocks
                 PROVE  DepthOf(d)'
      BY DEF DepthInv
    <3>1. DepthOf(d) BY DEF OwnerInv, DepthInv
    <3>2. \A u \in Threads : u # t => (Exiting(u, d)' <=> Exiting(u, d)) BY <1>f DEF Exiting
    <3>3. ~Exiting(t, d)' BY <1>f DEF Exiting
    <3>4. \A u \in Threads : d \in Caches(u) => inside[u][object[d]] \in Nat BY CachedObject
    <3>5. depth[d] \in Nat BY DEF TypeOK
    <3>6. ~Exiting(t, d) BY <1>d DEF Exiting, Acquiring, IsAcquire
    <3>7. CASE d # data[t]
      <4>1. d \in Caches(t) => object[d] # arg[t] BY <3>7, <1>d, <1>a DEF OneBlockPerObject, UseInv, UseOf, Acquiring
      <4>2. \A u \in Threads : d \in Caches(u) => object[d] \in Objects BY CachedObject
      <4> QED BY <1>c, <1>d, <1>f, <3>1, <3>2, <3>3, <3>6, <3>7, <4>1, <4>2 DEF DepthOf
    <3>8. CASE d = data[t]
      <4>1. d \in Caches(t) /\ object[d] = arg[t] BY <3>8, <1>d, <1>a DEF UseInv, UseOf, Acquiring
      <4>2. owner[d] = None => inside[t][arg[t]] = 0
        <5>1. inside[t][arg[t]] > 0 => \E e \in Caches(t) : object[e] = arg[t] /\ owner[e] = t
          BY <1>a DEF OwnerInv, InsideInv
        <5>2. \A e \in Caches(t) : object[e] = arg[t] => e = d BY <4>1 DEF OneBlockPerObject, UseInv, UseOf
        <5> QED BY <5>1, <5>2, <4>1, <3>4, SyncAssumption
      <4>3. \A u \in Threads : ~Exiting(u, d)
        BY <3>1, <3>6, <3>8, <1>d DEF DepthOf
      <4>4. owner[d] \in {None, t} /\ owner'[d] = t /\ depth'[d] = depth[d] + 1
            /\ object'[d] = arg[t] /\ inside'[t][arg[t]] = inside[t][arg[t]] + 1
        BY <3>8, <4>1, <1>d, <1>f
      <4>5. depth[d] = inside[t][arg[t]]
        <5>1. CASE owner[d] = None BY <5>1, <3>1, <4>2 DEF DepthOf
        <5>2. CASE owner[d] = t
          <6>1. depth[d] = inside[t][object[d]] + 0 BY <5>2, <3>1, <3>6, <4>1 DEF DepthOf
          <6> QED BY <6>1, <4>1, <3>4
        <5> QED BY <5>1, <5>2, <4>4
      <4>6. \A u \in Threads : ~Exiting(u, d)' BY <3>2, <3>3, <4>3
      <4>7. t # None /\ depth'[d] >= 1 BY <4>4, <3>5, SyncAssumption
      <4>8. SUFFICES ASSUME NEW u \in Threads, owner'[d] = u
                     PROVE  depth'[d] = (IF d \in Caches(u)' THEN inside'[u][object'[d]] ELSE 0) + 0
        BY <4>4, <4>6, <4>7 DEF DepthOf
      <4> QED BY <1>c, <4>1, <4>4, <4>5, <4>8, <3>4, <3>5
    <3> QED BY <3>7, <3>8
  <2>3. InsideInv'
    <3> SUFFICES ASSUME NEW u \in Threads, NEW o \in Objects, inside'[u][o] > 0
                 PROVE  \E d \in Caches(u) : object[d] = o /\ owner'[d] = u
      BY <1>c, <1>f DEF InsideInv
    <3>1. CASE u = t /\ o = arg[t] BY <3>1, <1>a, <1>d DEF UseInv, UseOf, Acquiring
    <3>2. CASE ~(u = t /\ o = arg[t])
      <4>1. inside[u][o] > 0 BY <3>2, <1>d, <1>f
      <4>2. PICK d \in Caches(u) : object[d] = o /\ owner[d] = u BY <4>1 DEF OwnerInv, InsideInv
      <4> QED BY <4>2, <1>d DEF Caches
    <3> QED BY <3>1, <3>2
  <2>4. StrayInv' BY <1>c, <1>d, <1>f DEF OwnerInv, StrayInv
  <2> QED BY <2>1, <2>2, <2>3, <2>4 DEF OwnerInv
<1> QED BY <1>1, <1>2, <1>3, <1>4, <1>5, <1>6

\* A tryLock() that fails: the thread leaves with its counts raised.
LEMMA TryLockFailsStep ==
    ASSUME SyncInv, NEW t \in Threads, TryLockFails(t)
    PROVE  SyncInv'
<1> USE SyncAssumption DEF SyncInv
<1>p. pc[t] = "mutex" BY DEF TryLockFails
<1>a. arg[t] \in Objects /\ data[t] \in Blocks
  <2>1. arg[t] \in Objects BY <1>p DEF WalkInv, WalkOf
  <2>2. data[t] \in Blocks BY <1>p DEF UseInv, UseOf
  <2> QED BY <2>1, <2>2
<1>b. owner[data[t]] = t => depth[data[t]] >= 1 BY <1>a DEF OwnerInv, DepthInv, DepthOf
<1>1. TypeOK'
  <2> USE DEF TryLockFails, Return, blockVars, mutexVars, cacheVars, walkVars, callVars
  <2>1. owner' \in [Blocks -> Threads \cup {None}] BY <1>a DEF TypeOK
  <2>5. depth' \in [Blocks -> Nat] BY <1>a, <1>b DEF TypeOK
  <2>2. inside' \in [Threads -> [Objects -> Nat]] BY <1>a DEF TypeOK
  <2>3. pc' \in [Threads -> PCs] BY DEF TypeOK, PCs
  <2>4. op' \in [Threads -> ClientOps \cup {None}] /\ arg' \in [Threads -> Objects \cup {None}]
        /\ data' \in [Threads -> Blocks \cup {None}] BY DEF TypeOK
  <2> QED BY <2>1, <2>2, <2>3, <2>4, <2>5 DEF TypeOK
<1>f. /\ list' = list /\ listLock' = listLock /\ object' = object /\ threadCount' = threadCount
      /\ fast' = fast /\ fastCount' = fastCount /\ cache' = cache
      /\ pos' = pos /\ firstUnused' = firstUnused
      /\ pc'[t] = "idle"
      /\ \A u \in Threads \ {t} : /\ pc'[u] = pc[u] /\ op'[u] = op[u] /\ arg'[u] = arg[u]
                                  /\ data'[u] = data[u] /\ inside'[u] = inside[u]
  BY DEF TryLockFails, Return, TypeOK, blockVars, cacheVars, walkVars, callVars
<1>d. owner' = owner /\ depth' = depth /\ inside' = inside /\ IsAcquire(t)
  BY DEF TryLockFails, mutexVars, IsAcquire
<1>2. NeverFatal' BY <1>f DEF NeverFatal
<1>3. OneBlockPerObject' BY <1>f DEF OneBlockPerObject
<1>c. \A u \in Threads : Caches(u)' = Caches(u) BY <1>f DEF Caches
<1>4. WalkInv'
  <2> SUFFICES ASSUME NEW u \in Threads PROVE WalkOf(u)' BY DEF WalkInv
  <2>1. WalkOf(u) /\ Elems(list)' = Elems(list) BY <1>f DEF WalkInv, Elems
  <2>2. CASE u = t BY <1>c, <1>f, <1>p, <2>1, <2>2 DEF WalkOf
  <2>3. CASE u # t BY <1>c, <1>f, <2>1, <2>3 DEF WalkOf
  <2> QED BY <2>2, <2>3
<1>5. UseInv'
  <2>1. \A d \in Blocks : Users(d)' = Users(d)
    BY <1>c, <1>f, <1>p DEF Users, Joined, IsAcquire
  <2>2. CountInv' BY <1>f, <2>1 DEF UseInv, CountInv
  <2>3. Elems(list)' = Elems(list) BY <1>f DEF Elems
  <2>4. ASSUME NEW u \in Threads PROVE UseOf(u)'
    <3>1. UseOf(u) BY DEF UseInv
    <3> QED BY <1>c, <1>f, <2>3, <3>1 DEF UseOf, IsAcquire
  <2> QED BY <1>f, <2>2, <2>3, <2>4 DEF UseInv
<1>6. OwnerInv'
  <2>1. LockCountInv'
    <3> SUFFICES ASSUME NEW u \in Threads, NEW d \in Blocks, d \in Caches(u)
                 PROVE  LockCount(u, d) >= inside'[u][object[d]] + IF Acquiring(u, d)' THEN 1 ELSE 0
      BY <1>c, <1>f DEF LockCountInv, LockCount
    <3>1. LockCount(u, d) >= inside[u][object[d]] + IF Acquiring(u, d) THEN 1 ELSE 0
      BY DEF OwnerInv, LockCountInv
    <3>2. object[d] \in Objects /\ LockCount(u, d) \in Nat /\ inside[u][object[d]] \in Nat
      BY CachedObject
    <3>3. u # t => (Acquiring(u, d)' <=> Acquiring(u, d)) BY <1>f DEF Acquiring, IsAcquire
    <3>5. ~Acquiring(t, d)' BY <1>f DEF Acquiring
    <3>6. inside'[u][object[d]] = inside[u][object[d]] BY <1>d
    <3> QED BY <3>1, <3>2, <3>3, <3>5, <3>6
  <2>2. DepthInv'
    <3> SUFFICES ASSUME NEW d \in Blocks
                 PROVE  DepthOf(d)'
      BY DEF DepthInv
    <3>1. DepthOf(d) BY DEF OwnerInv, DepthInv
    <3>2. \A u \in Threads : u # t => (Exiting(u, d)' <=> Exiting(u, d)) BY <1>f DEF Exiting
    <3>3. ~Exiting(t, d)' BY <1>f DEF Exiting
    <3>4. \A u \in Threads : d \in Caches(u) => inside[u][object[d]] \in Nat BY CachedObject
    <3>5. depth[d] \in Nat BY DEF TypeOK
    <3>6. ~Exiting(t, d) BY <1>d DEF Exiting, IsAcquire
    <3> QED BY <1>c, <1>d, <1>f, <3>1, <3>2, <3>3, <3>6 DEF DepthOf
  <2>3. InsideInv' BY <1>a, <1>c, <1>d, <1>f DEF OwnerInv, InsideInv, UseInv, Acquiring
  <2>4. StrayInv' BY <1>c, <1>d, <1>f DEF OwnerInv, StrayInv
  <2> QED BY <2>1, <2>2, <2>3, <2>4 DEF OwnerInv
<1> QED BY <1>1, <1>2, <1>3, <1>4, <1>5, <1>6

\* tryUnlock() of objc_sync_exit, by the owner of the mutex or by another thread.
LEMMA TryUnlockStep ==
    ASSUME SyncInv, NEW t \in Threads, TryUnlock(t)
    PROVE  SyncInv'
<1> USE SyncAssumption DEF SyncInv
<1>p. pc[t] = "mutex" BY DEF TryUnlock
<1>a. arg[t] \in Objects /\ data[t] \in Blocks
  <2>1. arg[t] \in Objects BY <1>p DEF WalkInv, WalkOf
  <2>2. data[t] \in Blocks BY <1>p DEF UseInv, UseOf
  <2> QED BY <2>1, <2>2
<1>b. owner[data[t]] = t => depth[data[t]] >= 1 BY <1>a DEF OwnerInv, DepthInv, DepthOf
<1>1. TypeOK'
  <2> USE DEF TryUnlock, Return, blockVars, mutexVars, cacheVars, walkVars, callVars
  <2>1. owner' \in [Blocks -> Threads \cup {None}]
    <3>1. owner' = owner \/ owner' = [owner EXCEPT ![data[t]] = None] OBVIOUS
    <3> QED BY <3>1, ZenonT(20) DEF TypeOK
  <2>5. depth' \in [Blocks -> Nat]
    <3>1. CASE owner[data[t]] = t
      <4>1. depth' = [depth EXCEPT ![data[t]] = depth[data[t]] - 1] BY <3>1
      <4>2. depth[data[t]] - 1 \in Nat BY <3>1, <1>a, <1>b DEF TypeOK
      <4> QED BY <4>1, <4>2, ZenonT(20) DEF TypeOK
    <3>2. CASE owner[data[t]] # t
      <4>1. depth' = depth BY <3>2
      <4> QED BY <4>1 DEF TypeOK
    <3> QED BY <3>1, <3>2
  <2>2. inside' \in [Threads -> [Objects -> Nat]] BY <1>a DEF TypeOK
  <2>3. pc' \in [Threads -> PCs] BY DEF TypeOK, PCs
  <2>4. op' \in [Threads -> ClientOps \cup {None}] /\ arg' \in [Threads -> Objects \cup {None}]
        /\ data' \in [Threads -> Blocks \cup {None}] BY DEF TypeOK
  <2> QED BY <2>1, <2>2, <2>3, <2>4, <2>5 DEF TypeOK
<1>f. /\ list' = list /\ listLock' = listLock /\ object' = object /\ threadCount' = threadCount
      /\ fast' = fast /\ fastCount' = fastCount /\ cache' = cache
      /\ pos' = pos /\ firstUnused' = firstUnused
      /\ pc'[t] = "idle"
      /\ \A u \in Threads \ {t} : /\ pc'[u] = pc[u] /\ op'[u] = op[u] /\ arg'[u] = arg[u]
                                  /\ data'[u] = data[u] /\ inside'[u] = inside[u]
  BY DEF TryUnlock, Return, TypeOK, blockVars, cacheVars, walkVars, callVars
<1>d. /\ inside' = inside /\ ~IsAcquire(t) /\ pc[t] = "mutex"
      /\ \A d \in Blocks \ {data[t]} : owner'[d] = owner[d] /\ depth'[d] = depth[d]
      /\ IF owner[data[t]] = t
         THEN /\ depth'[data[t]] = depth[data[t]] - 1
              /\ owner'[data[t]] = IF depth[data[t]] = 1 THEN None ELSE t
         ELSE owner'[data[t]] = owner[data[t]] /\ depth'[data[t]] = depth[data[t]]
  BY <1>a, <1>1, ZenonT(30) DEF TypeOK, TryUnlock, mutexVars
<1>stray. owner[data[t]] = t => Exiting(t, data[t])
  <2>1. op[t] \in {"exit", "strayExit"} BY <1>p, <1>d DEF WalkInv, WalkOf, IsAcquire, ClientOps
  <2>2. DepthOf(data[t]) BY <1>a DEF OwnerInv, DepthInv
  <2>3. op[t] = "strayExit" => owner[data[t]] # t
    BY <2>2, <1>p, <1>a DEF DepthOf, Exiting, OwnerInv, StrayInv
  <2> QED BY <1>p, <2>1, <2>3 DEF Exiting
<1>2. NeverFatal' BY <1>f DEF NeverFatal
<1>3. OneBlockPerObject' BY <1>f DEF OneBlockPerObject
<1>c. \A u \in Threads : Caches(u)' = Caches(u) BY <1>f DEF Caches
<1>4. WalkInv'
  <2> SUFFICES ASSUME NEW u \in Threads PROVE WalkOf(u)' BY DEF WalkInv
  <2>1. WalkOf(u) /\ Elems(list)' = Elems(list) BY <1>f DEF WalkInv, Elems
  <2>2. CASE u = t BY <1>c, <1>f, <1>p, <2>1, <2>2 DEF WalkOf
  <2>3. CASE u # t BY <1>c, <1>f, <2>1, <2>3 DEF WalkOf
  <2> QED BY <2>2, <2>3
<1>5. UseInv'
  <2>1. \A d \in Blocks : Users(d)' = Users(d)
    BY <1>c, <1>f, <1>p DEF Users, Joined, IsAcquire
  <2>2. CountInv' BY <1>f, <2>1 DEF UseInv, CountInv
  <2>3. Elems(list)' = Elems(list) BY <1>f DEF Elems
  <2>4. ASSUME NEW u \in Threads PROVE UseOf(u)'
    <3>1. UseOf(u) BY DEF UseInv
    <3> QED BY <1>c, <1>f, <2>3, <3>1 DEF UseOf, IsAcquire
  <2> QED BY <1>f, <2>2, <2>3, <2>4 DEF UseInv
<1>6. OwnerInv'
  <2>1. LockCountInv'
    <3> SUFFICES ASSUME NEW u \in Threads, NEW d \in Blocks, d \in Caches(u)
                 PROVE  LockCount(u, d) >= inside'[u][object[d]] + IF Acquiring(u, d)' THEN 1 ELSE 0
      BY <1>c, <1>f DEF LockCountInv, LockCount
    <3>1. LockCount(u, d) >= inside[u][object[d]] + IF Acquiring(u, d) THEN 1 ELSE 0
      BY DEF OwnerInv, LockCountInv
    <3>2. object[d] \in Objects /\ LockCount(u, d) \in Nat /\ inside[u][object[d]] \in Nat
      BY CachedObject
    <3>3. u # t => (Acquiring(u, d)' <=> Acquiring(u, d)) BY <1>f DEF Acquiring, IsAcquire
    <3>5. ~Acquiring(t, d)' BY <1>f DEF Acquiring
    <3> QED BY <1>a, <1>d, <1>f, <3>1, <3>2, <3>3, <3>5 DEF UseInv
  <2>2. DepthInv'
    <3> SUFFICES ASSUME NEW d \in Blocks
                 PROVE  DepthOf(d)'
      BY DEF DepthInv
    <3>1. DepthOf(d) BY DEF OwnerInv, DepthInv
    <3>2. \A u \in Threads : u # t => (Exiting(u, d)' <=> Exiting(u, d)) BY <1>f DEF Exiting
    <3>3. ~Exiting(t, d)' BY <1>f DEF Exiting
    <3>4. \A u \in Threads : d \in Caches(u) => inside[u][object[d]] \in Nat BY CachedObject
    <3>5. depth[d] \in Nat BY DEF TypeOK
    <3>6. d # data[t] => ~Exiting(t, d) BY DEF Exiting
    <3>7. CASE d # data[t] \/ owner[data[t]] # t
      <4>1. ~Exiting(t, d) BY <3>1, <3>6, <3>7 DEF DepthOf
      <4> QED BY <1>c, <1>d, <1>f, <3>1, <3>2, <3>3, <3>7, <4>1 DEF DepthOf
    <3>8. CASE d = data[t] /\ owner[d] = t
      <4>1. Exiting(t, d) BY <3>1, <3>8, <1>stray DEF Exiting
      <4>2. PICK n \in Nat : /\ n = IF d \in Caches(t) THEN inside[t][object[d]] ELSE 0
                             /\ depth[d] = n + 1
        BY <3>1, <3>4, <3>8, <4>1 DEF DepthOf
      <4>3. /\ depth'[d] = n /\ owner'[d] = (IF n = 0 THEN None ELSE t)
            /\ n = IF d \in Caches(t)' THEN inside'[t][object'[d]] ELSE 0
        <5>1. depth'[d] = depth[d] - 1 /\ owner'[d] = IF depth[d] = 1 THEN None ELSE t BY <1>d, <3>8
        <5>2. n = IF d \in Caches(t)' THEN inside'[t][object'[d]] ELSE 0 BY <1>c, <1>d, <1>f, <4>2
        <5> QED BY <4>2, <5>1, <5>2
      <4>4. \A u \in Threads : ~Exiting(u, d)' BY <3>1, <3>2, <3>3, <3>8 DEF DepthOf
      <4>5. CASE n = 0 BY <4>3, <4>4, <4>5 DEF DepthOf
      <4>6. CASE n # 0 BY <4>3, <4>4, <4>6 DEF DepthOf
      <4> QED BY <4>5, <4>6
    <3> QED BY <3>7, <3>8
  <2>3. InsideInv'
    <3> SUFFICES ASSUME NEW u \in Threads, NEW o \in Objects, inside[u][o] > 0
                 PROVE  \E d \in Caches(u) : object[d] = o /\ owner'[d] = u
      BY <1>c, <1>d, <1>f DEF InsideInv
    <3>1. PICK d \in Caches(u) : object[d] = o /\ owner[d] = u BY DEF OwnerInv, InsideInv
    <3>2. d \in Blocks BY DEF Caches
    <3>3. DepthOf(d) /\ depth[d] \in Nat /\ inside[u][o] \in Nat BY <3>2 DEF OwnerInv, DepthInv, TypeOK
    <3>4. CASE d # data[t] \/ u # t BY <3>1, <3>2, <3>4, <1>d
    <3>5. CASE d = data[t] /\ u = t
      <4>1. depth[d] = inside[u][o] + 1 BY <3>1, <3>3, <3>5, <1>stray DEF DepthOf, Exiting
      <4> QED BY <3>1, <3>2, <3>3, <3>5, <4>1, <1>d
    <3> QED BY <3>4, <3>5
  <2>4. StrayInv' BY <1>c, <1>d, <1>f DEF OwnerInv, StrayInv
  <2> QED BY <2>1, <2>2, <2>3, <2>4 DEF OwnerInv
<1> QED BY <1>1, <1>2, <1>3, <1>4, <1>5, <1>6

-----------------------------------------------------------------------------
(* The walk along the list.                                                *)

\* id2data takes the spinlock of the list.
LEMMA LockListStep ==
    ASSUME SyncInv, NEW t \in Threads, LockList(t)
    PROVE  SyncInv'
<1> USE SyncAssumption DEF SyncInv
<1>1. TypeOK' BY DEF LockList, TypeOK, PCs, mutexVars, cacheVars, walkVars, callVars
<1>f. /\ list' = list /\ object' = object /\ threadCount' = threadCount
      /\ owner' = owner /\ depth' = depth /\ inside' = inside
      /\ fast' = fast /\ fastCount' = fastCount /\ cache' = cache
      /\ pos' = pos /\ firstUnused' = firstUnused /\ op' = op /\ arg' = arg
      /\ listLock = None /\ listLock' = t
      /\ pc[t] = "lockList" /\ pc'[t] = "walk"
      /\ \A u \in Threads \ {t} : pc'[u] = pc[u] /\ data'[u] = data[u]
  BY DEF LockList, SpinlockFree, TypeOK, mutexVars, cacheVars, walkVars, callVars
<1>c. \A u \in Threads : Caches(u)' = Caches(u) BY <1>f DEF Caches
<1>2. NeverFatal' BY <1>f DEF NeverFatal
<1>3. OneBlockPerObject' BY <1>f DEF OneBlockPerObject
<1>r. Elems(list)' = Elems(list) BY <1>f DEF Elems
<1>4. WalkInv'
  <2> SUFFICES ASSUME NEW u \in Threads PROVE WalkOf(u)' BY DEF WalkInv
  <2>1. WalkOf(u) BY DEF WalkInv
  <2>2. CASE u = t BY <1>c, <1>f, <1>r, <2>1, <2>2 DEF WalkOf
  <2>3. CASE u # t BY <1>c, <1>f, <1>r, <2>1, <2>3 DEF WalkOf
  <2> QED BY <2>2, <2>3
<1>5. UseInv'
  <2>1. \A d \in Blocks : Users(d)' = Users(d) BY <1>c, <1>f DEF Users, Joined, IsAcquire
  <2>2. CountInv' BY <1>f, <2>1 DEF UseInv, CountInv
  <2>3. ASSUME NEW u \in Threads PROVE UseOf(u)'
    <3>1. UseOf(u) BY DEF UseInv
    <3> QED BY <1>c, <1>f, <1>r, <3>1 DEF UseOf, IsAcquire
  <2> QED BY <1>f, <1>r, <2>2, <2>3 DEF UseInv
<1>6. OwnerInv'
  <2>1. \A u \in Threads, d \in Blocks : /\ Acquiring(u, d)' <=> Acquiring(u, d)
                                         /\ Exiting(u, d)' <=> Exiting(u, d)
    BY <1>f DEF Acquiring, Exiting, IsAcquire
  <2>2. LockCountInv' /\ DepthInv' /\ InsideInv' BY <1>f, <2>1, OwnerFrame
  <2>3. StrayInv' BY <1>c, <1>f DEF OwnerInv, StrayInv
  <2> QED BY <2>2, <2>3 DEF OwnerInv
<1> QED BY <1>1, <1>2, <1>3, <1>4, <1>5, <1>6

\* id2data looks at the next block: it joins the block of its object, or notes
\* the first unused one.
LEMMA WalkStep ==
    ASSUME SyncInv, NEW t \in Threads, Walk(t)
    PROVE  SyncInv'
<1> USE SyncAssumption DEF SyncInv
<1> DEFINE p == list[pos[t]]
<1>p. pc[t] = "walk" /\ pos[t] \in 1..Len(list) BY DEF Walk, WalkInv, WalkOf, TypeOK
<1>a. p \in Blocks /\ p \in Elems(list)
  <2>1. list \in Seq(Blocks) BY DEF TypeOK
  <2> QED BY <1>p, <2>1 DEF Elems
<1>f. /\ list' = list /\ listLock' = listLock /\ object' = object
      /\ owner' = owner /\ depth' = depth /\ inside' = inside
      /\ fast' = fast /\ fastCount' = fastCount /\ cache' = cache
      /\ op' = op /\ arg' = arg
      /\ pc'[t] \in {"walk", "done"}
      /\ \A u \in Threads \ {t} : /\ pc'[u] = pc[u] /\ data'[u] = data[u]
                                  /\ pos'[u] = pos[u] /\ firstUnused'[u] = firstUnused[u]
  BY <1>p DEF Walk, TypeOK, mutexVars, cacheVars, walkVars, callVars
<1>c. \A u \in Threads : Caches(u)' = Caches(u) BY <1>f DEF Caches
<1>l. \A u \in Threads \ {t} : pc[u] \notin {"walk", "done"} BY <1>p DEF WalkInv, WalkOf
<1>r. Elems(list)' = Elems(list) BY <1>f DEF Elems
<1>w. WalkOf(t) BY DEF WalkInv
<1>2. NeverFatal' BY <1>f DEF NeverFatal
<1>3. OneBlockPerObject' BY <1>f DEF OneBlockPerObject
<1>6. OwnerInv'
  <2>1. \A u \in Threads, d \in Blocks : /\ Acquiring(u, d)' <=> Acquiring(u, d)
                                         /\ Exiting(u, d)' <=> Exiting(u, d)
    BY <1>f, <1>p DEF Acquiring, Exiting, IsAcquire
  <2>2. LockCountInv' /\ DepthInv' /\ InsideInv' BY <1>f, <2>1, OwnerFrame
  <2>3. StrayInv' BY <1>c, <1>f, <1>p DEF OwnerInv, StrayInv
  <2> QED BY <2>2, <2>3 DEF OwnerInv
<1>9. ASSUME NEW u \in Threads, u # t PROVE WalkOf(u)' /\ UseOf(u)'
  <2>1. WalkOf(u) /\ UseOf(u) BY DEF WalkInv, UseInv
  <2>2. WalkOf(u)' BY <1>c, <1>f, <1>l, <1>9, <2>1 DEF WalkOf
  <2>3. UseOf(u)' BY <1>c, <1>f, <1>r, <1>9, <2>1 DEF UseOf, IsAcquire
  <2> QED BY <2>2, <2>3
<1>7. CASE object[p] = arg[t]
  <2>f. /\ threadCount' = [threadCount EXCEPT ![p] = @ + 1]
        /\ data' = [data EXCEPT ![t] = p] /\ pc' = [pc EXCEPT ![t] = "done"]
        /\ pos' = pos /\ firstUnused' = firstUnused
    BY <1>7 DEF Walk, Join, walkVars
  <2>1. TypeOK'
    <3>1. threadCount' \in [Blocks -> Nat] BY <1>a, <2>f DEF TypeOK
    <3>2. data' \in [Threads -> Blocks \cup {None}] BY <1>a, <2>f DEF TypeOK
    <3>3. pc' \in [Threads -> PCs] BY <2>f DEF TypeOK, PCs
    <3> QED BY <1>f, <2>f, <3>1, <3>2, <3>3, ZenonT(20) DEF TypeOK
  <2>2. data'[t] = p /\ pc'[t] = "done" BY <2>f DEF TypeOK
  <2>3. WalkOf(t)' BY <1>c, <1>f, <1>p, <1>w, <2>2 DEF WalkOf
  <2>4. UseOf(t)'
    <3>1. UseOf(t) BY DEF UseInv
    <3>2. fast'[t] # None => fastCount'[t] > 0 /\ cache'[t][fast'[t]] = 0 BY <1>f, <3>1 DEF UseOf
    <3>3. Caches(t)' \subseteq Elems(list)' BY <1>c, <1>r, <3>1 DEF UseOf
    <3>4. data'[t] \in Elems(list)' /\ object'[data'[t]] = arg'[t] BY <1>7, <1>a, <1>f, <1>r, <2>2
    <3> QED BY <2>2, <3>2, <3>3, <3>4 DEF UseOf
  <2>5. CountInv'
    <3> SUFFICES ASSUME NEW d \in Blocks PROVE AtMost(threadCount'[d], Users(d)')
      BY DEF CountInv
    <3>1. AtMost(threadCount[d], Users(d)) /\ threadCount[d] \in Nat
      BY DEF UseInv, CountInv, TypeOK
    <3>3. CASE d = p
      <4>1. Users(d)' \subseteq Users(d) \cup {t} BY <1>c, <1>f DEF Users, Joined, IsAcquire
      <4>2. threadCount'[d] = threadCount[d] + 1 BY <3>3, <2>f DEF TypeOK
      <4>3. AtMost(threadCount[d] + 1, Users(d)') BY <3>1, <4>1, AtMostAdd
      <4> QED BY <4>2, <4>3
    <3>4. CASE d # p
      <4>1. Users(d)' \subseteq Users(d) BY <3>4, <1>c, <1>f, <2>2 DEF Users, Joined, IsAcquire
      <4>2. threadCount'[d] = threadCount[d] BY <3>4, <2>f DEF TypeOK
      <4>3. AtMost(threadCount[d], Users(d)') BY <3>1, <4>1, AtMostSub
      <4> QED BY <4>2, <4>3
    <3> QED BY <3>3, <3>4
  <2>6. WalkInv' BY <1>9, <2>3 DEF WalkInv
  <2>7. UseInv' BY <1>9, <1>f, <1>r, <2>4, <2>5 DEF UseInv
  <2> QED BY <1>2, <1>3, <1>6, <2>1, <2>6, <2>7
<1>8. CASE object[p] # arg[t]
  <2>f. /\ threadCount' = threadCount /\ data' = data /\ pc' = pc
        /\ pos' = [pos EXCEPT ![t] = @ + 1]
        /\ firstUnused' = [firstUnused EXCEPT ![t] =
                             IF @ = None /\ threadCount[p] = 0 THEN p ELSE @]
    BY <1>8 DEF Walk, Unused
  <2>1. TypeOK'
    <3>0. pos \in [Threads -> Nat] BY DEF TypeOK
    <3>1. pos' \in [Threads -> Nat] BY <2>f, <3>0
    <3>2. firstUnused' \in [Threads -> Blocks \cup {None}] BY <1>a, <2>f DEF TypeOK
    <3> QED BY <1>f, <2>f, <3>1, <3>2 DEF TypeOK
  <2>2. pos'[t] = pos[t] + 1 /\ firstUnused'[t] = IF firstUnused[t] = None /\ threadCount[p] = 0
                                                  THEN p ELSE firstUnused[t]
    BY <2>f DEF TypeOK
  <2>3. WalkOf(t)'
    <3>1. \A i \in 1..Len(list) : i < pos'[t] => object[list[i]] # arg[t]
      <4>1. \A i \in 1..Len(list) : i < pos[t] => object[list[i]] # arg[t] BY <1>p, <1>w DEF WalkOf
      <4>2. \A i \in 1..Len(list) : i < pos[t] + 1 => i < pos[t] \/ i = pos[t] BY <1>p
      <4> QED BY <1>8, <2>2, <4>1, <4>2
    <3>2. firstUnused'[t] # None =>
             firstUnused'[t] \in Elems(list) /\ threadCount[firstUnused'[t]] = 0
      <4>1. firstUnused[t] # None =>
               firstUnused[t] \in Elems(list) /\ threadCount[firstUnused[t]] = 0
        BY <1>p, <1>w DEF WalkOf
      <4>2. CASE firstUnused[t] = None /\ threadCount[p] = 0 BY <1>a, <2>2, <4>2
      <4>3. CASE ~(firstUnused[t] = None /\ threadCount[p] = 0)
        <5>1. firstUnused'[t] = firstUnused[t] BY <2>2, <4>3
        <5> QED BY <4>1, <5>1
      <4> QED BY <4>2, <4>3
    <3>3. pos'[t] >= 1 BY <1>p, <2>2
    <3>4. pc'[t] = "walk" /\ listLock' = t BY <1>f, <1>p, <1>w, <2>f DEF WalkOf
    <3>5. arg'[t] \in Objects /\ op'[t] \in ClientOps \ {"threadExit"} BY <1>f, <1>p, <1>w DEF WalkOf
    <3>6. op'[t] # "exit" /\ \A d \in Caches(t)' : object'[d] # arg'[t]
      BY <1>c, <1>f, <1>p, <1>w DEF WalkOf
    <3>7. /\ \A i \in 1..Len(list') : i < pos'[t] => object'[list'[i]] # arg'[t]
          /\ firstUnused'[t] # None =>
                firstUnused'[t] \in Elems(list)' /\ threadCount'[firstUnused'[t]] = 0
      BY <1>f, <1>r, <2>f, <3>1, <3>2
    <3> QED BY <3>3, <3>4, <3>5, <3>6, <3>7 DEF WalkOf
  <2>4. CountInv'
    <3>1. \A d \in Blocks : Users(d)' = Users(d) BY <1>c, <1>f, <2>f DEF Users, Joined, IsAcquire
    <3> QED BY <2>f, <3>1 DEF UseInv, CountInv
  <2>5. UseOf(t)'
    <3>1. UseOf(t) BY DEF UseInv
    <3> QED BY <1>c, <1>f, <1>p, <1>r, <2>f, <3>1 DEF UseOf, IsAcquire
  <2>6. WalkInv' BY <1>9, <2>3 DEF WalkInv
  <2>7. UseInv' BY <1>9, <1>f, <1>r, <2>4, <2>5 DEF UseInv
  <2> QED BY <1>2, <1>3, <1>6, <2>1, <2>6, <2>7
<1> QED BY <1>7, <1>8

\* The list holds blocks.
LEMMA ListedAreBlocks == ASSUME list \in Seq(Blocks) PROVE Elems(list) \subseteq Blocks
<1> SUFFICES ASSUME NEW e \in Elems(list) PROVE e \in Blocks OBVIOUS
<1>1. PICK i \in 1..Len(list) : e = list[i] BY DEF Elems
<1> QED BY <1>1

\* A block put in front of the list joins it.
LEMMA ElemsCons ==
    ASSUME NEW d \in Blocks, list \in Seq(Blocks)
    PROVE  Elems(<<d>> \o list) = Elems(list) \cup {d}
<1> DEFINE s == <<d>> \o list
<1>1. s \in Seq(Blocks) /\ Len(s) = Len(list) + 1 /\ Len(list) \in Nat OBVIOUS
<1>2. s[1] = d /\ \A i \in 1..Len(list) : s[i + 1] = list[i] OBVIOUS
<1>3. \A i \in 1..Len(s) : i = 1 \/ (i - 1 \in 1..Len(list) /\ s[i] = list[i - 1])
  <2> SUFFICES ASSUME NEW i \in 1..Len(s), i # 1
               PROVE  i - 1 \in 1..Len(list) /\ s[i] = list[i - 1] OBVIOUS
  <2>1. i - 1 \in 1..Len(list) /\ i = (i - 1) + 1 BY <1>1
  <2> QED BY <1>2, <2>1
<1>4. Elems(list) \cup {d} \subseteq Elems(s)
  <2>1. d \in Elems(s) BY <1>1, <1>2 DEF Elems
  <2>2. ASSUME NEW e \in Elems(list) PROVE e \in Elems(s)
    <3>1. PICK i \in 1..Len(list) : e = list[i] BY DEF Elems
    <3>2. i + 1 \in 1..Len(s) /\ s[i + 1] = e BY <1>1, <1>2, <3>1
    <3> QED BY <3>2 DEF Elems
  <2> QED BY <2>1, <2>2
<1>5. Elems(s) \subseteq Elems(list) \cup {d}
  <2> SUFFICES ASSUME NEW e \in Elems(s), e # d PROVE e \in Elems(list) OBVIOUS
  <2>1. PICK i \in 1..Len(s) : e = s[i] BY DEF Elems
  <2>2. i - 1 \in 1..Len(list) /\ e = list[i - 1] BY <1>2, <1>3, <2>1
  <2> QED BY <2>2 DEF Elems
<1> QED BY <1>4, <1>5

\* The block a walk ends up with for a new object has no user: its threadCount
\* was 0 when the walk passed it and only the holder of the spinlock raises it,
\* or it was never on the list.
LEMMA UnusedBlock ==
    ASSUME SyncInv, NEW t \in Threads, pc[t] = "walk", NEW d \in Blocks,
           IF firstUnused[t] # None THEN d = firstUnused[t] ELSE d \notin Elems(list)
    PROVE  Users(d) = {}
<1> SUFFICES ASSUME NEW u \in Users(d) PROVE FALSE OBVIOUS
<1> USE DEF SyncInv
<1>0. u \in Threads BY DEF Users
<1>1. CASE firstUnused[t] # None
  <2>1. threadCount[d] = 0 BY <1>1 DEF WalkInv, WalkOf
  <2>2. threadCount[d] >= 1 BY UserCounts
  <2> QED BY <2>1, <2>2
<1>2. CASE firstUnused[t] = None
  <2>1. d \notin Elems(list) BY <1>2
  <2>2. UseOf(u) BY <1>0 DEF UseInv
  <2>3. d \notin Caches(u) BY <2>1, <2>2 DEF UseOf
  <2>4. ~Joined(u, d) BY <2>1, <2>2 DEF UseOf, Joined
  <2> QED BY <2>3, <2>4 DEF Users
<1> QED BY <1>1, <1>2

\* id2data found no block of its object and takes an unused or a new one.
LEMMA WalkEndStep ==
    ASSUME SyncInv, NEW t \in Threads, WalkEnd(t)
    PROVE  SyncInv'
<1> USE SyncAssumption DEF SyncInv
<1>p. pc[t] = "walk" BY DEF WalkEnd
<1>w. WalkOf(t) BY DEF WalkInv
<1>f. /\ listLock' = listLock /\ owner' = owner /\ depth' = depth /\ inside' = inside
      /\ fast' = fast /\ fastCount' = fastCount /\ cache' = cache
      /\ pos' = pos /\ firstUnused' = firstUnused /\ op' = op /\ arg' = arg
      /\ pc' = [pc EXCEPT ![t] = "done"] /\ pc'[t] = "done"
      /\ \A u \in Threads \ {t} : pc'[u] = pc[u] /\ data'[u] = data[u]
  BY ZenonT(20) DEF WalkEnd, TypeOK, mutexVars, cacheVars, walkVars, callVars
<1>c. \A u \in Threads : Caches(u)' = Caches(u) BY <1>f DEF Caches
<1>l. \A u \in Threads \ {t} : pc[u] \notin {"walk", "done"} BY <1>p DEF WalkInv, WalkOf
<1>t. pc' \in [Threads -> PCs] BY <1>f DEF TypeOK, PCs
<1>2. NeverFatal' BY <1>f DEF NeverFatal
<1>o. \A u \in Threads, d \in Blocks : /\ Acquiring(u, d)' <=> Acquiring(u, d)
                                       /\ Exiting(u, d)' <=> Exiting(u, d)
  BY <1>f, <1>p DEF Acquiring, Exiting, IsAcquire
<1>7. CASE ~IsAcquire(t)
  <2>f. list' = list /\ object' = object /\ threadCount' = threadCount /\ data' = data
    BY <1>7 DEF WalkEnd
  <2>1. TypeOK' BY <1>f, <1>t, <2>f DEF TypeOK
  <2>3. OneBlockPerObject' BY <2>f DEF OneBlockPerObject
  <2>r. Elems(list)' = Elems(list) BY <2>f DEF Elems
  <2>4. WalkInv'
    <3> SUFFICES ASSUME NEW u \in Threads PROVE WalkOf(u)' BY DEF WalkInv
    <3>1. WalkOf(u) BY DEF WalkInv
    <3>2. CASE u = t BY <1>c, <1>f, <1>p, <2>f, <3>1, <3>2 DEF WalkOf
    <3>3. CASE u # t BY <1>c, <1>f, <1>l, <2>f, <3>1, <3>3 DEF WalkOf
    <3> QED BY <3>2, <3>3
  <2>5. UseInv'
    <3>1. \A d \in Blocks : Users(d)' = Users(d)
      BY <1>7, <1>c, <1>f, <1>p, <2>f DEF Users, Joined, IsAcquire
    <3>2. CountInv' BY <2>f, <3>1 DEF UseInv, CountInv
    <3>3. ASSUME NEW u \in Threads PROVE UseOf(u)'
      <4>1. UseOf(u) BY DEF UseInv
      <4>2. CASE u = t BY <1>7, <1>c, <1>f, <2>r, <4>1, <4>2 DEF UseOf, IsAcquire
      <4>3. CASE u # t BY <1>c, <1>f, <2>f, <2>r, <4>1, <4>3 DEF UseOf, IsAcquire
      <4> QED BY <4>2, <4>3
    <3> QED BY <2>f, <2>r, <3>2, <3>3 DEF UseInv
  <2>6. LockCountInv' /\ DepthInv' /\ InsideInv' BY <1>f, <1>o, <2>f, OwnerFrame
  <2>7. StrayInv' BY <1>c, <1>f, <1>p, <2>f DEF OwnerInv, StrayInv
  <2> QED BY <1>2, <2>1, <2>3, <2>4, <2>5, <2>6, <2>7 DEF OwnerInv
<1>8. CASE IsAcquire(t)
  <2>d. PICK d \in Blocks :
           /\ IF firstUnused[t] # None
              THEN d = firstUnused[t] /\ list' = list
              ELSE d \notin Elems(list) /\ list' = <<d>> \o list
           /\ object' = [object EXCEPT ![d] = arg[t]]
           /\ threadCount' = [threadCount EXCEPT ![d] = 1]
           /\ data' = [data EXCEPT ![t] = d]
    BY <1>8, ZenonT(20) DEF WalkEnd
  <2>a. arg[t] \in Objects BY <1>p, <1>w DEF WalkOf
  <2>f. /\ object'[d] = arg[t] /\ threadCount'[d] = 1 /\ data'[t] = d
        /\ \A e \in Blocks \ {d} : object'[e] = object[e] /\ threadCount'[e] = threadCount[e]
    BY <2>d DEF TypeOK
  <2>r. Elems(list)' = Elems(list) \cup {d}
    <3>1. CASE firstUnused[t] # None
      <4>1. d \in Elems(list) /\ list' = list BY <1>p, <1>w, <2>d, <3>1 DEF WalkOf
      <4>2. Elems(list)' = Elems(list) BY <4>1 DEF Elems
      <4> QED BY <4>1, <4>2
    <3>2. CASE firstUnused[t] = None
      <4>1. list' = <<d>> \o list BY <2>d, <3>2
      <4>2. Elems(list)' = Elems(<<d>> \o list) BY <4>1 DEF Elems
      <4> QED BY <4>2, ElemsCons DEF TypeOK
    <3> QED BY <3>1, <3>2
  <2>b. Elems(list) \subseteq Blocks BY ListedAreBlocks DEF TypeOK
  <2>n. \A e \in Elems(list) : object[e] # arg[t]
    <3> SUFFICES ASSUME NEW e \in Elems(list) PROVE object[e] # arg[t] OBVIOUS
    <3>1. PICK i \in 1..Len(list) : e = list[i] BY DEF Elems
    <3>2. i < pos[t] BY DEF WalkEnd, TypeOK
    <3> QED BY <1>p, <1>w, <3>1, <3>2 DEF WalkOf
  <2>e. IF firstUnused[t] # None THEN d = firstUnused[t] ELSE d \notin Elems(list) BY <2>d
  <2>u. Users(d) = {} BY <1>p, <2>e, UnusedBlock
  <2>v. \A u \in Threads : d \notin Caches(u) BY <2>u DEF Users
  <2>1. TypeOK'
    <3>0. list \in Seq(Blocks) BY DEF TypeOK
    <3>5. <<d>> \o list \in Seq(Blocks) BY <3>0
    <3>1. list' \in Seq(Blocks) BY <2>d, <3>0, <3>5, ZenonT(20)
    <3>2. object' \in [Blocks -> Objects \cup {None}] BY <2>a, <2>d DEF TypeOK
    <3>3. threadCount' \in [Blocks -> Nat] BY <2>d DEF TypeOK
    <3>4. data' \in [Threads -> Blocks \cup {None}] BY <2>d DEF TypeOK
    <3> QED BY <1>f, <1>t, <3>1, <3>2, <3>3, <3>4 DEF TypeOK
  <2>3. OneBlockPerObject' BY <2>b, <2>f, <2>n, <2>r DEF OneBlockPerObject
  <2>x. \A u \in Threads : \A e \in Caches(u) : object'[e] = object[e] BY <2>f, <2>v DEF Caches
  <2>4. WalkInv'
    <3> SUFFICES ASSUME NEW u \in Threads PROVE WalkOf(u)' BY DEF WalkInv
    <3>1. WalkOf(u) BY DEF WalkInv
    <3>2. CASE u = t BY <1>c, <1>f, <1>p, <2>x, <3>1, <3>2 DEF WalkOf
    <3>3. CASE u # t BY <1>c, <1>f, <1>l, <2>x, <3>1, <3>3 DEF WalkOf
    <3> QED BY <3>2, <3>3
  <2>5. CountInv'
    <3> SUFFICES ASSUME NEW e \in Blocks PROVE AtMost(threadCount'[e], Users(e)')
      BY DEF CountInv
    <3>1. CASE e = d
      <4>1. Users(e)' \subseteq {} \cup {t} BY <1>c, <1>f, <1>l, <2>v, <3>1 DEF Users, Joined, IsAcquire
      <4>2. AtMost(0 + 1, Users(e)') BY <4>1, AtMostEmpty, AtMostAdd
      <4> QED BY <2>f, <3>1, <4>2
    <3>2. CASE e # d
      <4>1. Users(e)' = Users(e) BY <1>c, <1>f, <1>l, <1>p, <2>f, <3>2 DEF Users, Joined, IsAcquire
      <4> QED BY <2>f, <3>2, <4>1 DEF UseInv, CountInv
    <3> QED BY <3>1, <3>2
  <2>6. ASSUME NEW u \in Threads PROVE UseOf(u)'
    <3>1. UseOf(u) BY DEF UseInv
    <3>2. Caches(u)' \subseteq Elems(list)' BY <1>c, <2>r, <3>1 DEF UseOf
    <3>3. CASE u = t BY <1>f, <2>f, <2>r, <3>1, <3>2, <3>3 DEF UseOf, IsAcquire
    <3>4. CASE u # t BY <1>c, <1>f, <1>l, <2>x, <3>1, <3>2, <3>4 DEF UseOf, IsAcquire
    <3> QED BY <3>3, <3>4
  <2>7. \A e \in Elems(list)' : object'[e] \in Objects BY <2>a, <2>b, <2>f, <2>r DEF UseInv
  <2>8. LockCountInv' /\ DepthInv' /\ InsideInv' BY <1>f, <1>o, <2>x, OwnerFrame
  <2>9. StrayInv' BY <1>8, <1>c, <1>f, <1>p, <2>x DEF OwnerInv, StrayInv, IsAcquire
  <2> QED BY <1>2, <2>1, <2>3, <2>4, <2>5, <2>6, <2>7, <2>8, <2>9 DEF OwnerInv, UseInv
<1> QED BY <1>7, <1>8

\* id2data releases the spinlock and enters the block in a cache.
LEMMA DoneStep ==
    ASSUME SyncInv, NEW t \in Threads, Done(t)
    PROVE  SyncInv'
<1> USE SyncAssumption DEF SyncInv
<1>d. PICK d : d = data[t] OBVIOUS
<1>p. pc[t] = "done" BY DEF Done
<1>w. WalkOf(t) /\ UseOf(t) BY DEF WalkInv, UseInv
<1>f. /\ list' = list /\ object' = object /\ threadCount' = threadCount
      /\ owner' = owner /\ depth' = depth /\ inside' = inside
      /\ listLock = t /\ listLock' = None
      /\ pos' = [pos EXCEPT ![t] = 1] /\ firstUnused' = [firstUnused EXCEPT ![t] = None]
      /\ pos'[t] = 1 /\ firstUnused'[t] = None
      /\ \A u \in Threads \ {t} : /\ pc'[u] = pc[u] /\ data'[u] = data[u]
                                  /\ op'[u] = op[u] /\ arg'[u] = arg[u]
                                  /\ pos'[u] = pos[u] /\ firstUnused'[u] = firstUnused[u]
                                  /\ fast'[u] = fast[u] /\ fastCount'[u] = fastCount[u]
                                  /\ cache'[u] = cache[u]
  BY <1>p, <1>w DEF Done, Return, TypeOK, mutexVars, cacheVars, callVars, WalkOf
<1>c. \A u \in Threads \ {t} : Caches(u)' = Caches(u) BY <1>f DEF Caches
<1>l. \A u \in Threads \ {t} : pc[u] \notin {"walk", "done"} BY <1>p DEF WalkInv, WalkOf
<1>t. pos' \in [Threads -> Nat] /\ firstUnused' \in [Threads -> Blocks \cup {None}]
  BY <1>f DEF TypeOK
<1>3. OneBlockPerObject' BY <1>f DEF OneBlockPerObject
<1>r. Elems(list)' = Elems(list) BY <1>f DEF Elems
<1>9. ASSUME NEW u \in Threads, u # t PROVE WalkOf(u)' /\ UseOf(u)'
  <2>1. WalkOf(u) /\ UseOf(u) BY DEF WalkInv, UseInv
  <2>2. WalkOf(u)' BY <1>c, <1>f, <1>l, <1>9, <2>1 DEF WalkOf
  <2>3. UseOf(u)' BY <1>c, <1>f, <1>r, <1>9, <2>1 DEF UseOf, IsAcquire
  <2> QED BY <2>2, <2>3
<1>o. \A u \in Threads \ {t}, e \in Blocks : /\ Acquiring(u, e)' <=> Acquiring(u, e)
                                             /\ Exiting(u, e)' <=> Exiting(u, e)
  BY <1>f DEF Acquiring, Exiting, IsAcquire
<1>7. CASE ~IsAcquire(t)
  <2>f. /\ fast' = fast /\ fastCount' = fastCount /\ cache' = cache
        /\ pc' = [pc EXCEPT ![t] = "idle"] /\ pc'[t] = "idle"
        /\ op' = [op EXCEPT ![t] = None] /\ arg' = [arg EXCEPT ![t] = None]
        /\ data' = [data EXCEPT ![t] = None]
    BY <1>7 DEF Done, Return, cacheVars, TypeOK
  <2>c. Caches(t)' = Caches(t) BY <2>f DEF Caches
  <2>1. TypeOK'
    <3>1. pc' \in [Threads -> PCs] BY <2>f DEF TypeOK, PCs
    <3>2. op' \in [Threads -> ClientOps \cup {None}] /\ arg' \in [Threads -> Objects \cup {None}]
          /\ data' \in [Threads -> Blocks \cup {None}] BY <2>f DEF TypeOK
    <3> QED BY <1>f, <1>t, <2>f, <3>1, <3>2 DEF TypeOK
  <2>2. NeverFatal' BY <1>f, <2>f DEF NeverFatal
  <2>3. WalkOf(t)' BY <1>f, <1>p, <2>f DEF WalkOf
  <2>4. UseOf(t)' BY <1>r, <1>w, <2>c, <2>f DEF UseOf
  <2>5. CountInv'
    <3>1. \A e \in Blocks : Users(e)' = Users(e)
      BY <1>7, <1>c, <1>f, <1>p, <2>c, <2>f DEF Users, Joined, IsAcquire
    <3> QED BY <1>f, <3>1 DEF UseInv, CountInv
  <2>6. \A u \in Threads, e \in Blocks : /\ Acquiring(u, e)' <=> Acquiring(u, e)
                                         /\ Exiting(u, e)' <=> Exiting(u, e)
    BY <1>o, <1>p, <2>f DEF Acquiring, Exiting
  <2>7. LockCountInv' /\ DepthInv' /\ InsideInv' BY <1>f, <2>6, <2>f, OwnerFrame
  <2>8. StrayInv'
    <3> SUFFICES ASSUME NEW u \in Threads, pc'[u] # "idle", op'[u] = "strayExit"
                 PROVE  /\ inside'[u][arg'[u]] = 0
                        /\ pc'[u] = "mutex" /\ data'[u] \in Caches(u)' => object'[data'[u]] = arg'[u]
      BY DEF StrayInv
    <3>1. u # t BY <2>f
    <3>2. /\ pc'[u] = pc[u] /\ op'[u] = op[u] /\ arg'[u] = arg[u] /\ data'[u] = data[u]
          /\ inside' = inside /\ object' = object
      BY <1>f, <3>1
    <3>3. Caches(u)' = Caches(u) BY <1>c, <3>1
    <3>4. /\ inside[u][arg[u]] = 0
          /\ pc[u] = "mutex" /\ data[u] \in Caches(u) => object[data[u]] = arg[u]
      BY <3>2 DEF OwnerInv, StrayInv
    <3> QED BY <3>2, <3>3, <3>4
  <2>9. WalkInv' /\ UseInv' BY <1>9, <1>f, <1>r, <2>3, <2>4, <2>5 DEF WalkInv, UseInv
  <2> QED BY <1>3, <2>1, <2>2, <2>7, <2>8, <2>9 DEF OwnerInv
<1>8. CASE IsAcquire(t)
  <2>d. d \in Blocks /\ d \in Elems(list) /\ object[d] = arg[t] /\ arg[t] \in Objects
    <3>1. d \in Elems(list) /\ object[d] = arg[t] BY <1>8, <1>d, <1>p, <1>w DEF UseOf
    <3>2. Elems(list) \subseteq Blocks BY ListedAreBlocks DEF TypeOK
    <3>3. arg[t] \in Objects BY <1>p, <1>w DEF WalkOf
    <3> QED BY <3>1, <3>2, <3>3
  <2>n. d \notin Caches(t) BY <1>p, <1>w, <2>d DEF WalkOf
  <2>z. inside[t][arg[t]] = 0
    <3>1. inside[t][arg[t]] \in Nat BY <2>d DEF TypeOK
    <3>2. ~(inside[t][arg[t]] > 0) BY <1>p, <1>w, <2>d DEF OwnerInv, InsideInv, WalkOf
    <3> QED BY <3>1, <3>2
  <2>f. /\ op' = op /\ arg' = arg /\ data' = data
        /\ pc' = [pc EXCEPT ![t] = "mutex"] /\ pc'[t] = "mutex"
    BY <1>8, <1>d, <2>d DEF Done, callVars, TypeOK
  <2>g. \/ /\ fast[t] = None /\ fast' = [fast EXCEPT ![t] = d]
           /\ fastCount' = [fastCount EXCEPT ![t] = 1] /\ cache' = cache
        \/ /\ fast[t] # None /\ cache' = [cache EXCEPT ![t][d] = 1]
           /\ fast' = fast /\ fastCount' = fastCount
    BY <1>8, <1>d DEF Done
  <2>h. \/ /\ fast[t] = None /\ fast'[t] = d /\ fastCount'[t] = 1 /\ cache'[t] = cache[t]
        \/ /\ fast[t] # None /\ cache'[t][d] = 1 /\ fast'[t] = fast[t] /\ fastCount'[t] = fastCount[t]
           /\ \A e \in Blocks \ {d} : cache'[t][e] = cache[t][e]
    BY <2>d, <2>g DEF TypeOK
  <2>y. fast[t] # d /\ cache[t][d] = 0
    <3>1. cache[t][d] \in Nat BY <2>d DEF TypeOK
    <3> QED BY <2>d, <2>n, <3>1 DEF Caches
  <2>c. Caches(t)' = Caches(t) \cup {d} BY <2>d, <2>h DEF Caches
  <2>k. LockCount(t, d)' = 1 /\ \A e \in Caches(t) : LockCount(t, e)' = LockCount(t, e)
    <3>1. LockCount(t, d)' = 1 BY <2>h, <2>y DEF LockCount
    <3>2. ASSUME NEW e \in Caches(t) PROVE LockCount(t, e)' = LockCount(t, e)
      <4>1. e \in Blocks /\ e # d /\ e # None BY <2>n DEF Caches
      <4>2. fast[t] = None => fast[t] # e BY <4>1
      <4> QED BY <2>h, <4>1, <4>2 DEF LockCount
    <3> QED BY <3>1, <3>2
  <2>1. TypeOK'
    <3>1. pc' \in [Threads -> PCs] BY <2>f DEF TypeOK, PCs
    <3>2. fast' \in [Threads -> Blocks \cup {None}] BY <2>d, <2>g, ZenonT(20) DEF TypeOK
    <3>5. fastCount \in [Threads -> Nat] /\ cache \in [Threads -> [Blocks -> Nat]] BY DEF TypeOK
    <3>3. fastCount' \in [Threads -> Nat] BY <2>g, <3>5
    <3>4. cache' \in [Threads -> [Blocks -> Nat]] BY <2>d, <2>g, <3>5
    <3> QED BY <1>f, <1>t, <2>f, <3>1, <3>2, <3>3, <3>4 DEF TypeOK
  <2>2. NeverFatal' BY <1>f, <2>f DEF NeverFatal
  <2>3. WalkOf(t)' BY <1>f, <1>p, <1>w, <2>f DEF WalkOf
  <2>4. UseOf(t)'
    <3>1. fast'[t] # None => fastCount'[t] > 0 /\ cache'[t][fast'[t]] = 0
      <4>1. CASE fast[t] = None /\ fast'[t] = d /\ fastCount'[t] = 1 /\ cache'[t] = cache[t]
        BY <2>y, <4>1
      <4>2. CASE /\ fast[t] # None /\ fast'[t] = fast[t] /\ fastCount'[t] = fastCount[t]
                 /\ \A e \in Blocks \ {d} : cache'[t][e] = cache[t][e]
        <5>1. fast[t] \in Blocks \ {d} BY <2>y, <4>2 DEF TypeOK
        <5>2. fastCount[t] > 0 /\ cache[t][fast[t]] = 0 BY <1>w, <4>2 DEF UseOf
        <5> QED BY <4>2, <5>1, <5>2
      <4> QED BY <2>h, <4>1, <4>2
    <3> QED BY <1>d, <1>f, <1>r, <1>w, <2>c, <2>d, <2>f, <3>1 DEF UseOf
  <2>5. CountInv'
    <3>1. \A e \in Blocks : Users(e)' = Users(e)
      <4> SUFFICES ASSUME NEW e \in Blocks, NEW u \in Threads
                   PROVE  (e \in Caches(u) \/ Joined(u, e))' <=> (e \in Caches(u) \/ Joined(u, e))
        BY DEF Users
      <4>1. CASE u = t
        <5>1. ~Joined(t, e)' BY <2>f DEF Joined
        <5>2. Joined(t, e) <=> e = d BY <1>8, <1>d, <1>p DEF Joined
        <5> QED BY <2>c, <4>1, <5>1, <5>2
      <4>2. CASE u # t
        <5>1. Joined(u, e)' <=> Joined(u, e) BY <1>o, <2>f, <4>2 DEF Joined, IsAcquire
        <5> QED BY <1>c, <4>2, <5>1
      <4> QED BY <4>1, <4>2
    <3> QED BY <1>f, <3>1 DEF UseInv, CountInv
  <2>9. WalkInv' /\ UseInv' BY <1>9, <1>f, <1>r, <2>3, <2>4, <2>5 DEF WalkInv, UseInv
  <2>6. LockCountInv'
    <3> SUFFICES ASSUME NEW u \in Threads, NEW e \in Blocks, e \in Caches(u)'
                 PROVE  LockCount(u, e)' >= inside'[u][object'[e]] + IF Acquiring(u, e)' THEN 1 ELSE 0
      BY DEF LockCountInv
    <3>1. CASE u = t /\ e = d BY <1>f, <2>d, <2>k, <2>z, <3>1
    <3>2. CASE ~(u = t /\ e = d)
      <4>1. e \in Caches(u) BY <1>c, <2>c, <3>2
      <4>2. LockCount(u, e)' = LockCount(u, e)
        <5>1. CASE u = t BY <2>k, <4>1, <5>1
        <5>2. CASE u # t BY <1>f, <5>2 DEF LockCount
        <5> QED BY <5>1, <5>2
      <4>3. Acquiring(u, e)' => Acquiring(u, e) BY <1>d, <1>o, <2>f, <3>2 DEF Acquiring
      <4>4. LockCount(u, e) >= inside[u][object[e]] + IF Acquiring(u, e) THEN 1 ELSE 0
        BY <4>1 DEF OwnerInv, LockCountInv
      <4>5. LockCount(u, e) \in Nat /\ inside[u][object[e]] \in Nat BY <4>1, CachedObject
      <4>6. inside'[u][object'[e]] = inside[u][object[e]] BY <1>f
      <4>7. CASE Acquiring(u, e)' BY <4>2, <4>3, <4>4, <4>6, <4>7
      <4>8. CASE ~Acquiring(u, e)' BY <4>2, <4>4, <4>5, <4>6, <4>8
      <4> QED BY <4>7, <4>8
    <3> QED BY <3>1, <3>2
  <2>7. DepthInv'
    <3> SUFFICES ASSUME NEW e \in Blocks, NEW u \in Threads
                 PROVE  /\ owner[e] = None => depth[e] = 0
                        /\ owner[e] = u =>
                              /\ depth[e] >= 1
                              /\ depth[e] = (IF e \in Caches(u)' THEN inside[u][object[e]] ELSE 0)
                                            + IF Exiting(u, e)' THEN 1 ELSE 0
                        /\ Exiting(u, e)' => owner[e] = u
      BY <1>f DEF DepthInv, DepthOf
    <3>1. DepthOf(e) BY DEF OwnerInv, DepthInv
    <3>2. Exiting(u, e)' <=> Exiting(u, e) BY <1>8, <1>o, <1>p, <2>f DEF Exiting, IsAcquire
    <3>3. CASE u = t /\ e = d
      <4>1. ~Exiting(t, d) BY <1>p DEF Exiting
      <4>2. owner[d] # t BY <2>n, <3>1, <3>3, <4>1 DEF DepthOf
      <4> QED BY <3>1, <3>2, <3>3, <4>1, <4>2 DEF DepthOf
    <3>4. CASE ~(u = t /\ e = d)
      <4>1. e \in Caches(u)' <=> e \in Caches(u) BY <1>c, <2>c, <3>4
      <4>2. e \in Caches(u) => inside[u][object[e]] \in Nat BY CachedObject
      <4> QED BY <3>1, <3>2, <4>1, <4>2 DEF DepthOf
    <3> QED BY <3>3, <3>4
  <2>8. InsideInv' BY <1>c, <1>f, <2>c DEF OwnerInv, InsideInv
  <2>10. StrayInv'
    <3> SUFFICES ASSUME NEW u \in Threads, pc'[u] # "idle", op'[u] = "strayExit"
                 PROVE  /\ inside'[u][arg'[u]] = 0
                        /\ pc'[u] = "mutex" /\ data'[u] \in Caches(u)' => object'[data'[u]] = arg'[u]
      BY DEF StrayInv
    <3>1. u # t BY <1>8, <2>f DEF IsAcquire
    <3> QED BY <1>c, <1>f, <3>1 DEF OwnerInv, StrayInv
  <2> QED BY <1>3, <2>1, <2>2, <2>6, <2>7, <2>8, <2>9, <2>10 DEF OwnerInv
<1> QED BY <1>7, <1>8
=============================================================================
