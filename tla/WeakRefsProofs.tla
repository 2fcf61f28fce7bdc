--------------------------- MODULE WeakRefsProofs ---------------------------
(***************************************************************************)
(* Proof that the weak variables, their registrations and the table locks  *)
(* stay consistent, for any sets of threads, objects and variables.        *)
(***************************************************************************)
EXTENDS WeakRefs, TLAPS

\* The provers' time limits, for slow machines.
USE SMTT(30), ZenonT(30)

\* A record update is beyond the types that the SMT translation infers. With this
\* fact at hand it infers none, which is quicker.
LEMMA Untyped == \A r : [r EXCEPT !.field = r.field] = [r EXCEPT !.field = r.field]
OBVIOUS

USE Untyped

\* WeakInv without what follows from the rest.
Core ==
  /\ TypeOK /\ RegistryExact /\ NoWeakError /\ RefusesOnlyItsOwn
  /\ \A t \in Threads : ArgumentsOf(t) /\ ObjectsOf(t)
  /\ NoCompany /\ LocksTaken /\ Clearable /\ HeldIsLive

\* A step of t leaves the call that u is in alone.
SameCall(u) ==
  /\ pc'[u] = pc[u] /\ op'[u] = op[u] /\ dst'[u] = dst[u] /\ src'[u] = src[u]
  /\ old'[u] = old[u] /\ new'[u] = new[u]

\* What holds of a thread u, next to a step of t.
CallOK(u) == ArgumentsOf(u) /\ ObjectsOf(u) /\ (\A a \in Tables : lock[a] = u => a \in Takes(u))

\* What a step of t leaves to another thread u: its call, the variables that the
\* call uses, its references, its deallocations and its locks.
LeavesAlone(u) ==
  /\ SameCall(u)
  /\ \A l \in Uses(u) : l \in inited' <=> l \in inited
  /\ holds'[u] = holds[u]
  /\ \A o \in Objects : deallocator[o] = u => deallocator'[o] = u
  /\ \A a \in Tables : lock'[a] = u => lock[a] = u

\* The thread that is left alone still has what its call relies on.
LEMMA OthersStay ==
  ASSUME Core, NEW u \in Threads, LeavesAlone(u)
  PROVE  CallOK(u)'
<1> USE DEF LeavesAlone, SameCall
<1>1. ArgumentsOf(u)'
  <2>1. ArgumentsOf(u) BY DEF Core
  <2> QED BY <2>1, WeakAssumption DEF ArgumentsOf, Uses, Core, TypeOK
<1>2. ObjectsOf(u)'
  <2>1. ObjectsOf(u) BY DEF Core
  <2>2. Storing(u)' = Storing(u) BY DEF Storing, HaveOld, HaveNew, Loading
  <2> QED BY <2>1, <2>2 DEF ObjectsOf, MayPass
<1>3. ASSUME NEW a \in Tables, lock'[a] = u PROVE a \in Takes(u)'
  <2>1. a \in Takes(u) BY <1>3 DEF Core, LocksTaken
  <2>2. Wanted(u)' = Wanted(u) BY DEF Wanted, HaveOld, HaveNew
  <2>3. First(u)' = First(u) BY <2>2 DEF First, FirstOf
  <2> QED BY <2>1, <2>2, <2>3 DEF Takes
<1> QED BY <1>1, <1>2, <1>3 DEF CallOK

\* The tables, the objects and the registrations agree.
TablesOK == TypeOK /\ RegistryExact /\ NoWeakError /\ Clearable /\ HeldIsLive

\* A step of t keeps Core if it leaves the others alone and t's own call is as it
\* should be.
LEMMA StepOfOne ==
  ASSUME Core, ~Aborted, NEW t \in Threads, TablesOK', CallOK(t)',
         \A u \in Threads \ {t} : LeavesAlone(u) /\ Compatible(t, u)',
         pc'[t] = "crashed" => deallocator'[new'[t]] = t
  PROVE  Core'
<1>1. \A u \in Threads : CallOK(u)' BY OthersStay
<1>2. RefusesOnlyItsOwn' BY DEF RefusesOnlyItsOwn, Aborted, LeavesAlone, SameCall
<1>3. NoCompany'
  <2> SUFFICES ASSUME NEW u \in Threads, NEW v \in Threads, u # v PROVE Compatible(u, v)'
    BY DEF NoCompany
  <2>1. CASE u = t BY <2>1
  <2>2. CASE v = t
    <3>1. Compatible(t, u)' BY <2>2
    <3> QED BY <3>1, <2>2 DEF Compatible
  <2>3. CASE u # t /\ v # t
    <3>1. SameCall(u) /\ SameCall(v) BY <2>3 DEF LeavesAlone
    <3>2. Compatible(u, v) BY DEF Core, NoCompany
    <3> QED BY <3>1, <3>2 DEF SameCall, Compatible, SharesOnly, Uses
  <2> QED BY <2>1, <2>2, <2>3
<1>4. LocksTaken' BY <1>1 DEF LocksTaken, CallOK
<1> QED BY <1>1, <1>2, <1>3, <1>4 DEF Core, TablesOK, CallOK

\* A thread in the same call on the same variables, or in none, has the company it had.
LEMMA SameCompany ==
  ASSUME Core, NEW t \in Threads, NEW u \in Threads \ {t}, SameCall(u),
         \/ op'[t] = op[t] /\ dst'[t] = dst[t] /\ src'[t] = src[t]
         \/ dst'[t] = None /\ src'[t] = None
  PROVE  Compatible(t, u)'
<1>1. Compatible(t, u) BY DEF Core, NoCompany
<1> QED BY <1>1 DEF SameCall, Compatible, SharesOnly, Uses

\* The tables that a store locks: one or two, and the first has the least address.
LEMMA WantedTables ==
  ASSUME TypeOK, NEW t \in Threads, Storing(t)
  PROVE  /\ Wanted(t) \subseteq Tables \cap Nat
         /\ First(t) \in Wanted(t)
         /\ \A b \in Second(t) : First(t) < b
<1>1. \E a, b \in Tables \cap Nat : Wanted(t) = {a, b}
  <2>1. TableOf[old[t]] \in Tables \cap Nat /\ TableOf[new[t]] \in Tables \cap Nat
    BY WeakAssumption DEF TypeOK, Tables, Values
  <2>2. HaveOld(t) \/ HaveNew(t) BY DEF Storing
  <2> QED BY <2>1, <2>2 DEF Wanted
<1>2. PICK a \in Tables \cap Nat, b \in Tables \cap Nat : Wanted(t) = {a, b} BY <1>1
<1>3. \E c \in Wanted(t) : \A d \in Wanted(t) : c <= d BY <1>2
<1>4. First(t) \in Wanted(t) /\ \A d \in Wanted(t) : First(t) <= d BY <1>3 DEF First, FirstOf
<1> QED BY <1>2, <1>4 DEF Second

(***************************************************************************)
(* The calls.                                                              *)
(***************************************************************************)
\* A call leaves the other threads alone, and begins with its arguments.
LEMMA EnterStep ==
  ASSUME Core, ~Aborted, NEW t \in Threads, NEW o \in AllOps,
         NEW d \in Locations \cup {None}, NEW s \in Locations \cup {None}, NEW n \in Values,
         Enter(t, o, d, s, n), CallOK(t)', \A u \in Threads \ {t} : Compatible(t, u)'
  PROVE  Core'
<1> USE DEF Enter, tableVars, lifeVars
<1>1. TypeOK' BY DEF Core, TypeOK, PCs
<1>2. TablesOK'
  <2>1. \A u \in Threads : HeldBy(u)' \subseteq HeldBy(u) \/ (u = t /\ n # Nil /\ o = "copy")
    BY DEF Core, TypeOK, HeldBy
  <2>2. o = "copy" => n = Nil
    BY WeakAssumption DEF CallOK, ObjectsOf, Core, TypeOK
  <2>3. HeldIsLive' BY <2>1, <2>2 DEF Core, HeldIsLive
  <2> QED BY <1>1, <2>3 DEF TablesOK, Core, RegistryExact, NoWeakError, Clearable
<1>3. \A u \in Threads \ {t} : LeavesAlone(u) BY DEF LeavesAlone, SameCall, Core, TypeOK
<1>4. pc'[t] # "crashed" BY DEF Core, TypeOK
<1> QED BY <1>2, <1>3, <1>4, StepOfOne

\* A thread in client code has no call and no lock.
LEMMA InClientCode ==
  ASSUME Core, NEW t \in Threads, pc[t] \in {"idle", "dealloc"}
  PROVE  /\ op[t] = None /\ dst[t] = None /\ src[t] = None /\ old[t] = Nil
         /\ \A a \in Tables : lock[a] # t
<1>1. ArgumentsOf(t) BY DEF Core
<1>2. Takes(t) = {} BY DEF Takes
<1> QED BY <1>1, <1>2 DEF ArgumentsOf, Core, LocksTaken

\* The variable of a call that wants it alone is used by nobody else.
LEMMA CallInitStep ==
  ASSUME Core, ~Aborted, NEW t \in Threads, NEW o \in AllOps, NEW l \in Locations, NEW n \in Values,
         CallInit(t, o, l, n)
  PROVE  Core'
<1> USE DEF CallInit, Enter, tableVars, lifeVars
<1>0. o # None /\ None \notin Locations /\ None \notin AllOps BY WeakAssumption
<1>1. CallOK(t)'
  <2>1. ArgumentsOf(t)' BY <1>0 DEF ArgumentsOf, Core, TypeOK
  <2>2. ObjectsOf(t)' BY <1>0, InClientCode DEF ObjectsOf, MayPass, Core, TypeOK
  <2> QED BY <2>1, <2>2, InClientCode DEF CallOK, Takes, Core, TypeOK
<1>2. \A u \in Threads \ {t} : Compatible(t, u)' BY <1>0 DEF Compatible, Uses, Alone, Core, TypeOK
<1> QED BY <1>1, <1>2, EnterStep, ZenonT(30)

\* A store shares its variable only with calls that allow company.
LEMMA CallStoreStep ==
  ASSUME Core, ~Aborted, NEW t \in Threads, NEW o \in AllOps, NEW l \in Locations, NEW n \in Values,
         CallStore(t, o, l, n)
  PROVE  Core'
<1> USE DEF CallStore, Enter, tableVars, lifeVars
<1>0. None \notin Locations /\ None \notin AllOps /\ Nil \in Values BY WeakAssumption DEF Values
<1>1. CallOK(t)'
  <2>1. ArgumentsOf(t)' BY <1>0, InClientCode DEF ArgumentsOf, AllOps, Core, TypeOK
  <2>2. ObjectsOf(t)' BY <1>0, InClientCode DEF ObjectsOf, MayPass, AllOps, Core, TypeOK
  <2> QED BY <2>1, <2>2, InClientCode DEF CallOK, Takes, Core, TypeOK
<1>2. \A u \in Threads \ {t} : Compatible(t, u)'
  BY <1>0 DEF Compatible, SharesOnly, Uses, Unowned, Shared, Core, TypeOK
<1> QED BY <1>0, <1>1, <1>2, EnterStep, ZenonT(30) DEF AllOps

\* objc_destroyWeak is alone with its variable.
LEMMA CallDestroyStep ==
  ASSUME Core, ~Aborted, NEW t \in Threads, NEW l \in Locations,
         CallDestroy(t, l)
  PROVE  Core'
<1> USE DEF CallDestroy, Enter, tableVars, lifeVars
<1>0. None \notin Locations /\ None \notin AllOps /\ Nil \in Values BY WeakAssumption DEF Values
<1>1. CallOK(t)'
  <2>1. ArgumentsOf(t)' BY <1>0, InClientCode DEF ArgumentsOf, AllOps, Core, TypeOK
  <2>2. ObjectsOf(t)' BY <1>0, InClientCode DEF ObjectsOf, MayPass, AllOps, Core, TypeOK
  <2> QED BY <2>1, <2>2, InClientCode DEF CallOK, Takes, Core, TypeOK
<1>2. \A u \in Threads \ {t} : Compatible(t, u)'
  BY <1>0 DEF Compatible, SharesOnly, Uses, Alone, Core, TypeOK
<1> QED BY <1>0, <1>1, <1>2, EnterStep, ZenonT(30) DEF AllOps

\* A load shares its variable only with calls that allow company.
LEMMA CallLoadStep ==
  ASSUME Core, ~Aborted, NEW t \in Threads, NEW l \in Locations,
         CallLoad(t, l)
  PROVE  Core'
<1> USE DEF CallLoad, Enter, tableVars, lifeVars
<1>0. None \notin Locations /\ None \notin AllOps /\ Nil \in Values BY WeakAssumption DEF Values
<1>1. CallOK(t)'
  <2>1. ArgumentsOf(t)' BY <1>0, InClientCode DEF ArgumentsOf, AllOps, Core, TypeOK
  <2>2. ObjectsOf(t)' BY <1>0, InClientCode DEF ObjectsOf, MayPass, AllOps, Core, TypeOK
  <2> QED BY <2>1, <2>2, InClientCode DEF CallOK, Takes, Core, TypeOK
<1>2. \A u \in Threads \ {t} : Compatible(t, u)'
  BY <1>0 DEF Compatible, SharesOnly, Uses, Unowned, Shared, Core, TypeOK
<1> QED BY <1>0, <1>1, <1>2, EnterStep, ZenonT(30) DEF AllOps

\* objc_copyWeak is alone with its destination, and reads its source in company.
LEMMA CallCopyStep ==
  ASSUME Core, ~Aborted, NEW t \in Threads, NEW d \in Locations, NEW s \in Locations,
         CallCopy(t, d, s)
  PROVE  Core'
<1> USE DEF CallCopy, Enter, tableVars, lifeVars
<1>0. None \notin Locations /\ None \notin AllOps /\ Nil \in Values BY WeakAssumption DEF Values
<1>1. CallOK(t)'
  <2>1. ArgumentsOf(t)' BY <1>0, InClientCode DEF ArgumentsOf, AllOps, Core, TypeOK
  <2>2. ObjectsOf(t)' BY <1>0, InClientCode DEF ObjectsOf, MayPass, AllOps, Core, TypeOK
  <2> QED BY <2>1, <2>2, InClientCode DEF CallOK, Takes, Core, TypeOK
<1>2. \A u \in Threads \ {t} : Compatible(t, u)'
  BY <1>0 DEF Compatible, SharesOnly, Uses, Alone, Unowned, Shared, Core, TypeOK
<1> QED BY <1>0, <1>1, <1>2, EnterStep, ZenonT(30) DEF AllOps

\* objc_moveWeak is alone with both of its variables.
LEMMA CallMoveStep ==
  ASSUME Core, ~Aborted, NEW t \in Threads, NEW d \in Locations, NEW s \in Locations,
         CallMove(t, d, s)
  PROVE  Core'
<1> USE DEF CallMove, Enter, tableVars, lifeVars
<1>0. None \notin Locations /\ None \notin AllOps /\ Nil \in Values BY WeakAssumption DEF Values
<1>1. CallOK(t)'
  <2>1. ArgumentsOf(t)' BY <1>0, InClientCode DEF ArgumentsOf, AllOps, Core, TypeOK
  <2>2. ObjectsOf(t)' BY <1>0, InClientCode DEF ObjectsOf, MayPass, AllOps, Core, TypeOK
  <2> QED BY <2>1, <2>2, InClientCode DEF CallOK, Takes, Core, TypeOK
<1>2. \A u \in Threads \ {t} : Compatible(t, u)'
  BY <1>0 DEF Compatible, SharesOnly, Uses, Alone, Core, TypeOK
<1> QED BY <1>0, <1>1, <1>2, EnterStep, ZenonT(30) DEF AllOps

(***************************************************************************)
(* Inside storeWeak: the locks.                                            *)
(***************************************************************************)
\* A step in t's call that touches no variable, table entry or object.
Quiet(t) ==
  /\ UNCHANGED <<tableVars, holds, lifeVars, op, dst, src, new>>
  /\ \A u \in Threads \ {t} : pc'[u] = pc[u] /\ old'[u] = old[u]
  /\ \A u \in Threads \ {t}, a \in Tables : lock'[a] = u => lock[a] = u

\* A step that changes only the caller's place, its snapshot and its locks keeps the
\* invariant if the caller itself is as it should be.
LEMMA QuietStep ==
  ASSUME Core, ~Aborted, NEW t \in Threads, Quiet(t), TypeOK', CallOK(t)',
         pc'[t] = "crashed" => deallocator[new[t]] = t
  PROVE  Core'
<1> USE DEF Quiet, tableVars, lifeVars
<1>1. TablesOK' BY DEF TablesOK, Core, RegistryExact, NoWeakError, Clearable, HeldIsLive, HeldBy
<1>2. ASSUME NEW u \in Threads \ {t} PROVE LeavesAlone(u) /\ Compatible(t, u)'
  <2>1. LeavesAlone(u) BY DEF LeavesAlone, SameCall
  <2> QED BY <2>1, SameCompany DEF LeavesAlone
<1> QED BY <1>1, <1>2, StepOfOne

\* The first table is taken in address order, and the second one waits.
LEMMA LockFirstStep ==
  ASSUME Core, ~Aborted, NEW t \in Threads, LockFirst(t)
  PROVE  Core'
<1> USE DEF LockFirst, tableVars, lifeVars, callVars
<1>1. Wanted(t) \subseteq Tables /\ First(t) \in Wanted(t) BY WantedTables DEF Core
<1>2. TypeOK' BY <1>1 DEF Core, TypeOK, PCs
<1>3. CallOK(t)'
  <2>1. ArgumentsOf(t) /\ ObjectsOf(t) BY DEF Core
  <2>2. ArgumentsOf(t)' BY <2>1 DEF ArgumentsOf, Core, TypeOK
  <2>3. Storing(t)' = Storing(t) BY DEF Storing, HaveOld, HaveNew, Loading
  <2>4. ObjectsOf(t)' BY <2>1, <2>3 DEF ObjectsOf, MayPass, Core, TypeOK
  <2>5. Wanted(t)' = Wanted(t) BY DEF Wanted, HaveOld, HaveNew
  <2>6. First(t)' = First(t) BY <2>5 DEF First, FirstOf
  <2>7. \A a \in Tables : lock[a] # t BY DEF Core, LocksTaken, Takes
  <2>8. \A a \in Tables : lock'[a] = t => a \in Takes(t)'
    BY <1>1, <2>5, <2>6, <2>7 DEF Takes, Core, TypeOK
  <2> QED BY <2>2, <2>4, <2>8 DEF CallOK
<1>4. Quiet(t) BY <1>1 DEF Quiet, Core, TypeOK
<1>5. pc'[t] # "crashed" BY DEF Core, TypeOK
<1> QED BY <1>2, <1>3, <1>4, <1>5, QuietStep

\* The other table of the two is taken.
LEMMA LockSecondStep ==
  ASSUME Core, ~Aborted, NEW t \in Threads, LockSecond(t)
  PROVE  Core'
<1> USE DEF LockSecond, tableVars, lifeVars, callVars
<1>0. ArgumentsOf(t) /\ ObjectsOf(t) BY DEF Core
<1>1. Wanted(t) \subseteq Tables /\ First(t) \in Wanted(t) BY <1>0, WantedTables DEF Core, ObjectsOf
<1>2. Second(t) \subseteq Wanted(t) BY DEF Second
<1>3. TypeOK' BY <1>1, <1>2 DEF Core, TypeOK, PCs
<1>4. CallOK(t)'
  <2>2. ArgumentsOf(t)' BY <1>0 DEF ArgumentsOf, Core, TypeOK
  <2>3. Storing(t)' = Storing(t) BY DEF Storing, HaveOld, HaveNew, Loading
  <2>4. ObjectsOf(t)' BY <1>0, <2>3 DEF ObjectsOf, MayPass, Core, TypeOK
  <2>5. Wanted(t)' = Wanted(t) BY DEF Wanted, HaveOld, HaveNew
  <2>7. \A a \in Tables : lock[a] = t => a = First(t) BY DEF Core, LocksTaken, Takes
  <2>8. \A a \in Tables : lock'[a] = t => a \in Takes(t)'
    BY <1>1, <1>2, <2>5, <2>7 DEF Takes, Core, TypeOK
  <2> QED BY <2>2, <2>4, <2>8 DEF CallOK
<1>5. Quiet(t) BY <1>1, <1>2 DEF Quiet, Core, TypeOK
<1>6. pc'[t] # "crashed" BY DEF Core, TypeOK
<1> QED BY <1>3, <1>4, <1>5, <1>6, QuietStep

\* Unlocking gives up all that a store holds, and nothing of anybody else.
LEMMA UnlockReleases ==
  ASSUME Core, NEW t \in Threads, pc[t] = "locked", Unlock(t)
  PROVE  /\ lock' \in [Tables -> Threads \cup {None}]
         /\ \A a \in Tables : lock'[a] # t
         /\ \A u \in Threads \ {t}, a \in Tables : lock'[a] = u => lock[a] = u
<1>1. \A a \in Tables : lock[a] = t => a \in Wanted(t) BY DEF Core, LocksTaken, Takes
<1> QED BY <1>1, WeakAssumption DEF Unlock, Core, TypeOK

\* storeWeak starts over, with no lock.
LEMMA RetryStep ==
  ASSUME Core, ~Aborted, NEW t \in Threads, Retry(t)
  PROVE  Core'
<1> USE DEF Retry, tableVars, lifeVars, callVars
<1>0. ArgumentsOf(t) /\ ObjectsOf(t) BY DEF Core
<1>1. TypeOK' BY UnlockReleases DEF Core, TypeOK, PCs
<1>2. CallOK(t)'
  <2>1. ArgumentsOf(t)' BY <1>0 DEF ArgumentsOf, Core, TypeOK
  <2>2. op[t] # "copy" BY DEF Changed, HaveOld
  <2>3. ObjectsOf(t)' BY <1>0, <2>2 DEF ObjectsOf, MayPass, Core, TypeOK
  <2> QED BY <2>1, <2>3, UnlockReleases DEF CallOK
<1>3. Quiet(t) BY UnlockReleases DEF Quiet, Core, TypeOK
<1>4. pc'[t] # "crashed" BY DEF Core, TypeOK
<1> QED BY <1>1, <1>2, <1>3, <1>4, QuietStep

\* The class is initialized without the locks.
LEMMA InitializeStep ==
  ASSUME Core, ~Aborted, NEW t \in Threads, Initialize(t)
  PROVE  Core'
<1> USE DEF Initialize, tableVars, lifeVars
<1>0. ArgumentsOf(t) /\ ObjectsOf(t) BY DEF Core
<1>1. TypeOK' BY UnlockReleases DEF Core, TypeOK, PCs
<1>2. CallOK(t)'
  <2>1. ArgumentsOf(t)' BY <1>0 DEF ArgumentsOf, Core, TypeOK
  <2>2. Storing(t) /\ Storing(t)' = Storing(t)
    BY <1>0 DEF ObjectsOf, Storing, HaveOld, HaveNew, Loading
  <2>3. HaveOld(t) => op[t] # "copy" BY DEF HaveOld
  <2>4. ObjectsOf(t)' BY <1>0, <2>2, <2>3 DEF ObjectsOf, MayPass, Core, TypeOK
  <2> QED BY <2>1, <2>4, UnlockReleases DEF CallOK
<1>3. Quiet(t) BY UnlockReleases DEF Quiet, Core, TypeOK
<1>4. pc'[t] # "crashed" BY DEF Core, TypeOK
<1> QED BY <1>1, <1>2, <1>3, <1>4, QuietStep

\* What is refused is being deallocated by the thread itself: what it holds is live.
LEMMA CrashStep ==
  ASSUME Core, ~Aborted, NEW t \in Threads, Crash(t)
  PROVE  Core'
<1> USE DEF Crash, tableVars, lifeVars, callVars
<1>0. ArgumentsOf(t) /\ ObjectsOf(t) BY DEF Core
<1>1. TypeOK' BY DEF Core, TypeOK, PCs
<1>2. CallOK(t)'
  <2>1. ArgumentsOf(t)' BY <1>0 DEF ArgumentsOf, Core, TypeOK
  <2>2. Storing(t)' = Storing(t) BY DEF Storing, HaveOld, HaveNew, Loading
  <2>3. ObjectsOf(t)' BY <1>0, <2>2 DEF ObjectsOf, MayPass, Core, TypeOK
  <2>4. Wanted(t)' = Wanted(t) BY DEF Wanted, HaveOld, HaveNew
  <2>5. \A a \in Tables : lock[a] = t => a \in Wanted(t) BY DEF Core, LocksTaken, Takes
  <2> QED BY <2>1, <2>3, <2>4, <2>5 DEF CallOK, Takes, Core, TypeOK
<1>3. Quiet(t) BY DEF Quiet, Core, TypeOK
<1>4. deallocator[new[t]] = t
  <2>1. new[t] \in Objects /\ life[new[t]] # "live" /\ op[t] \in {"init", "store", "copy"}
    BY DEF Crashes, Dying, Core, TypeOK, Values
  <2>2. new[t] \notin HeldBy(t) BY <2>1 DEF Core, HeldIsLive
  <2>3. op[t] # "copy" /\ new[t] \notin holds[t] BY <2>1, <2>2, WeakAssumption DEF HeldBy
  <2> QED BY <1>0, <2>1, <2>3, WeakAssumption DEF ObjectsOf, MayPass
<1> QED BY <1>1, <1>2, <1>3, <1>4, QuietStep

(***************************************************************************)
(* Returning from a call.                                                  *)
(***************************************************************************)
\* A thread that returns, with no lock, is in client code.
LEMMA ReturnOK ==
  ASSUME Core, NEW t \in Threads, Return(t), \A a \in Tables : lock'[a] # t
  PROVE  /\ CallOK(t)' /\ pc'[t] # "crashed" /\ HeldBy(t)' = holds'[t]
         /\ \A u \in Threads \ {t} : SameCall(u) /\ Compatible(t, u)'
<1> USE DEF Return
<1>0. None \notin AllOps BY WeakAssumption
<1>1. ArgumentsOf(t)' BY <1>0 DEF ArgumentsOf, Core, TypeOK, Home, AllOps
<1>2. ObjectsOf(t)' BY <1>0 DEF ObjectsOf, Core, TypeOK, Home, AllOps
<1>3. pc'[t] # "crashed" BY DEF Core, TypeOK, Home
<1>4. HeldBy(t)' = holds'[t] BY <1>0 DEF HeldBy, Core, TypeOK, AllOps
<1>5. \A u \in Threads \ {t} : SameCall(u) BY DEF SameCall, Core, TypeOK
<1>6. dst'[t] = None /\ src'[t] = None BY DEF Core, TypeOK
<1>7. \A u \in Threads \ {t} : Compatible(t, u)' BY <1>5, <1>6, SameCompany
<1> QED BY <1>1, <1>2, <1>3, <1>4, <1>5, <1>7 DEF CallOK

\* The types of the call's variables after a return.
LEMMA ReturnTypes ==
  ASSUME TypeOK, NEW t \in Threads, Return(t)
  PROVE  /\ pc' \in [Threads -> PCs] /\ op' \in [Threads -> AllOps \cup {None}]
         /\ dst' \in [Threads -> Locations \cup {None}] /\ src' \in [Threads -> Locations \cup {None}]
         /\ old' \in [Threads -> Values] /\ new' \in [Threads -> Values]
         /\ ready' \in [Threads -> BOOLEAN]
BY DEF TypeOK, Return, Home, PCs, Values

\* The variable that a call initializes is used by nobody else.
LEMMA OwnsDestination ==
  ASSUME Core, NEW t \in Threads, op[t] \in {"init", "initOrNil", "destroy", "copy", "move"},
         NEW u \in Threads \ {t}
  PROVE  dst[t] \notin Uses(u)
<1>1. ArgumentsOf(t) BY DEF Core
<1>2. dst[t] \in Locations /\ dst[t] # src[t]
  BY <1>1, WeakAssumption DEF ArgumentsOf, Core, TypeOK
<1>3. dst[t] \in Uses(t) /\ ~SharesOnly(t, dst[t]) BY <1>2, WeakAssumption DEF Uses, SharesOnly, Shared
<1>4. Compatible(t, u) BY DEF Core, NoCompany
<1> QED BY <1>3, <1>4 DEF Compatible

\* A fresh variable is given nil: no table changes.
LEMMA InitNilStep ==
  ASSUME Core, ~Aborted, NEW t \in Threads, InitNil(t), dst[t] \in Locations \ inited,
         op[t] \in {"init", "initOrNil", "copy", "move"}, pc[t] \in {"read", "first"}
  PROVE  Core'
<1> USE DEF InitNil, lifeVars
<1>1. \A a \in Tables : lock'[a] # t BY DEF Core, LocksTaken, Takes
<1>2. /\ CallOK(t)' /\ pc'[t] # "crashed" /\ HeldBy(t)' = holds[t]
      /\ \A u \in Threads \ {t} : SameCall(u) /\ Compatible(t, u)'
  BY <1>1, ReturnOK
<1>3. TypeOK' BY ReturnTypes DEF Core, TypeOK, Values
<1>4. RegistryExact' BY WeakAssumption DEF Core, RegistryExact, TypeOK
<1>5. HeldIsLive'
  <2>1. \A u \in Threads : HeldBy(u)' \subseteq HeldBy(u) BY <1>2 DEF HeldBy, SameCall
  <2> QED BY <2>1 DEF Core, HeldIsLive
<1>6. TablesOK' BY <1>3, <1>4, <1>5 DEF TablesOK, Core, NoWeakError, Clearable
<1>7. \A u \in Threads \ {t} : LeavesAlone(u) BY <1>2, OwnsDestination DEF LeavesAlone
<1> QED BY <1>2, <1>6, <1>7, StepOfOne

\* A load that finds nil or a dying object returns, and one that retains holds a
\* live object.
LEMMA LoadReturns ==
  ASSUME Core, ~Aborted, NEW t \in Threads, pc[t] \in {"read", "first"}, Return(t),
         UNCHANGED <<tableVars, lock, lifeVars>>,
         NEW got \in SUBSET {o \in Objects : life[o] = "live"},
         holds' = [holds EXCEPT ![t] = @ \cup got]
  PROVE  Core'
<1> USE DEF tableVars, lifeVars
<1>1. \A a \in Tables : lock'[a] # t BY DEF Core, LocksTaken, Takes
<1>2. /\ CallOK(t)' /\ pc'[t] # "crashed" /\ HeldBy(t)' = holds'[t]
      /\ \A u \in Threads \ {t} : SameCall(u) /\ Compatible(t, u)'
  BY <1>1, ReturnOK
<1>3. TypeOK' BY ReturnTypes DEF Core, TypeOK
<1>4. HeldIsLive'
  <2>1. HeldBy(t)' \subseteq HeldBy(t) \cup got BY <1>2 DEF HeldBy, Core, TypeOK
  <2>2. \A u \in Threads \ {t} : HeldBy(u)' \subseteq HeldBy(u)
    BY <1>2 DEF HeldBy, SameCall, Core, TypeOK
  <2> QED BY <2>1, <2>2 DEF Core, HeldIsLive
<1>5. TablesOK' BY <1>3, <1>4 DEF TablesOK, Core, RegistryExact, NoWeakError, Clearable
<1>6. \A u \in Threads \ {t} : LeavesAlone(u) BY <1>2 DEF LeavesAlone, Core, TypeOK
<1> QED BY <1>2, <1>5, <1>6, StepOfOne

(***************************************************************************)
(* Reads and loads.                                                        *)
(***************************************************************************)
\* The first look at the variable: it is nil, or there is something to lock.
LEMMA ReadStep ==
  ASSUME Core, ~Aborted, NEW t \in Threads, Read(t)
  PROVE  Core'
<1> USE DEF tableVars, lifeVars
<1>0. ArgumentsOf(t) /\ ObjectsOf(t) /\ pc[t] = "read" BY DEF Core, Read
<1>1. CASE op[t] \in {"init", "initOrNil", "copy", "move"} /\ InitNil(t)
  <2>1. dst[t] \in Locations \ inited BY <1>0, <1>1 DEF ArgumentsOf
  <2> QED BY <1>0, <1>1, <2>1, InitNilStep
<1>2. CASE Return(t) /\ UNCHANGED <<tableVars, lock, holds, lifeVars>>
  <2> DEFINE got == {}
  <2>1. got \in SUBSET {o \in Objects : life[o] = "live"} OBVIOUS
  <2>2. holds' = [holds EXCEPT ![t] = @ \cup got] BY <1>2 DEF Core, TypeOK
  <2> HIDE DEF got
  <2> QED BY <1>0, <1>2, <2>1, <2>2, LoadReturns, ZenonT(30)
<1> DEFINE seen == IF HaveOld(t) THEN value[dst[t]] ELSE IF src[t] # None THEN value[src[t]] ELSE new[t]
<1>3. CASE /\ seen # Nil \/ HaveOld(t)
           /\ old' = [old EXCEPT ![t] = IF op[t] \in {"init", "initOrNil"} THEN Nil ELSE seen]
           /\ pc' = [pc EXCEPT ![t] = "first"]
           /\ UNCHANGED <<tableVars, lock, holds, lifeVars, op, dst, src, new, ready>>
  <2>1. seen \in Values BY <1>0, WeakAssumption DEF ArgumentsOf, HaveOld, Core, TypeOK, AllOps
  <2>2. TypeOK' BY <1>3, <2>1 DEF Core, TypeOK, PCs, Values
  <2>3. Quiet(t) BY <1>3 DEF Quiet, Core, TypeOK
  <2>4. ArgumentsOf(t)' BY <1>0, <1>3 DEF ArgumentsOf, Core, TypeOK
  <2>5. pc'[t] = "first" /\ Storing(t)' = Storing(t)
    BY <1>3 DEF Storing, HaveOld, HaveNew, Loading, Core, TypeOK
  <2>6. ~Storing(t) => old'[t] # Nil
    <3> SUFFICES ASSUME ~Storing(t) PROVE old'[t] # Nil OBVIOUS
    <3>1. ~HaveOld(t) BY DEF Storing, Loading, HaveOld
    <3>2. op[t] \notin {"init", "initOrNil"} BY <3>1 DEF Storing, HaveOld, HaveNew, Loading
    <3> QED BY <1>3, <3>1, <3>2 DEF Core, TypeOK
  <2>7. ObjectsOf(t)' BY <1>0, <1>3, <2>5, <2>6 DEF ObjectsOf, MayPass, Core, TypeOK
  <2>8. \A a \in Tables : lock'[a] # t BY <1>0, <1>3 DEF Core, LocksTaken, Takes
  <2> QED BY <2>2, <2>3, <2>4, <2>5, <2>7, <2>8, QuietStep DEF CallOK
<1> QED BY <1>1, <1>2, <1>3 DEF Read

\* A load or a move that goes back to the first look, with no lock.
LEMMA LooksAgain ==
  ASSUME Core, ~Aborted, NEW t \in Threads, LockedRead(t), TypeOK',
         pc' = [pc EXCEPT ![t] = "read"],
         UNCHANGED <<tableVars, lock, holds, lifeVars, op, dst, src, old, new>>
  PROVE  Core'
<1> USE DEF LockedRead, tableVars, lifeVars
<1>0. ArgumentsOf(t) /\ ObjectsOf(t) BY DEF Core
<1>1. ArgumentsOf(t)' BY <1>0 DEF ArgumentsOf, Core, TypeOK
<1>2. op[t] = "copy" => new[t] = Nil BY DEF Storing, HaveNew, Loading
<1>3. ObjectsOf(t)' BY <1>0, <1>2 DEF ObjectsOf, MayPass, Core, TypeOK
<1>4. \A a \in Tables : lock'[a] # t BY DEF Core, LocksTaken, Takes
<1>5. Quiet(t) /\ pc'[t] # "crashed" BY DEF Quiet, Core, TypeOK
<1> QED BY <1>1, <1>3, <1>4, <1>5, QuietStep DEF CallOK

\* objc_loadWeakRetained finds another referent than it read, and starts again.
LEMMA ReadAgainStep ==
  ASSUME Core, ~Aborted, NEW t \in Threads, ReadAgain(t)
  PROVE  Core'
<1>1. TypeOK' BY DEF ReadAgain, Core, TypeOK, PCs, tableVars, lifeVars, callVars
<1> QED BY <1>1, LooksAgain, ZenonT(30) DEF ReadAgain, callVars

\* objc_loadWeakRetained lets +initialize run with the table unlocked, and starts again.
LEMMA LoadInitializeStep ==
  ASSUME Core, ~Aborted, NEW t \in Threads, LoadInitialize(t)
  PROVE  Core'
<1>1. TypeOK' BY DEF LoadInitialize, Core, TypeOK, PCs, tableVars, lifeVars
<1> QED BY <1>1, LooksAgain, ZenonT(30) DEF LoadInitialize

\* rootTryRetain: a load retains what is not being deallocated, and a copy keeps it.
LEMMA LoadStep ==
  ASSUME Core, ~Aborted, NEW t \in Threads, Load(t)
  PROVE  Core'
<1> USE DEF tableVars, lifeVars
<1>0. ArgumentsOf(t) /\ ObjectsOf(t) /\ pc[t] = "first" /\ ~Storing(t) /\ old[t] # Nil
  BY DEF Core, Load, LockedRead, ObjectsOf
<1>1. old[t] \in Objects BY <1>0 DEF Core, TypeOK, Values
<1>2. CASE /\ holds' = [holds EXCEPT ![t] = IF Dying(old[t]) THEN @ ELSE @ \cup {old[t]}]
           /\ Return(t) /\ UNCHANGED <<tableVars, lock, lifeVars>>
  <2> DEFINE got == IF Dying(old[t]) THEN {} ELSE {old[t]}
  <2>1. got \in SUBSET {o \in Objects : life[o] = "live"} BY <1>0, <1>1 DEF Dying
  <2>2. holds' = [holds EXCEPT ![t] = @ \cup got] BY <1>2, ZenonT(30) DEF Core, TypeOK
  <2> HIDE DEF got
  <2> QED BY <1>0, <1>2, <2>1, <2>2, LoadReturns, ZenonT(30)
<1>3. CASE op[t] = "copy" /\ InitNil(t)
  <2>1. dst[t] \in Locations \ inited BY <1>0, <1>3 DEF ArgumentsOf
  <2> QED BY <1>0, <1>3, <2>1, InitNilStep
<1>4. CASE /\ op[t] = "copy" /\ ~Dying(old[t])
           /\ new' = [new EXCEPT ![t] = old[t]] /\ old' = [old EXCEPT ![t] = Nil]
           /\ UNCHANGED <<tableVars, lock, holds, lifeVars, pc, op, dst, src, ready>>
  <2>1. life[old[t]] = "live" BY <1>0, <1>4 DEF Dying
  <2>2. TypeOK' BY <1>1, <1>4 DEF Core, TypeOK, Values
  <2>3. \A u \in Threads \ {t} : SameCall(u) BY <1>4 DEF SameCall, Core, TypeOK
  <2>4. HeldIsLive'
    <3>1. HeldBy(t)' \subseteq HeldBy(t) \cup {old[t]} BY <1>4 DEF HeldBy, Core, TypeOK
    <3>2. \A u \in Threads \ {t} : HeldBy(u)' \subseteq HeldBy(u) BY <1>4, <2>3 DEF HeldBy, SameCall
    <3> QED BY <1>1, <1>4, <2>1, <3>1, <3>2 DEF Core, HeldIsLive
  <2>5. TablesOK' BY <1>4, <2>2, <2>4 DEF TablesOK, Core, RegistryExact, NoWeakError, Clearable
  <2>6. \A u \in Threads \ {t} : LeavesAlone(u) BY <1>4, <2>3 DEF LeavesAlone
  <2>7. \A u \in Threads \ {t} : Compatible(t, u)' BY <1>4, <2>3, SameCompany
  <2>8. ArgumentsOf(t)' BY <1>0, <1>4 DEF ArgumentsOf, Core, TypeOK
  <2>9. ObjectsOf(t)' BY <1>0, <1>1, <1>4, WeakAssumption DEF ObjectsOf, Storing, HaveNew, Loading, Core, TypeOK
  <2>10. \A a \in Tables : lock'[a] # t BY <1>0, <1>4 DEF Core, LocksTaken, Takes
  <2> QED BY <1>0, <1>4, <2>5, <2>6, <2>7, <2>8, <2>9, <2>10, StepOfOne DEF CallOK
<1> QED BY <1>2, <1>3, <1>4 DEF Load

(***************************************************************************)
(* What changes registrations.                                             *)
(***************************************************************************)
\* The registration moves with the value, and the source, which nobody else uses,
\* is left nil.
LEMMA MoveStep ==
  ASSUME Core, ~Aborted, NEW t \in Threads, Move(t)
  PROVE  Core'
<1> USE DEF Move, LockedRead, lifeVars
<1>0. ArgumentsOf(t) /\ ObjectsOf(t) /\ old[t] # Nil /\ old[t] \in Objects
  BY DEF Core, ObjectsOf, TypeOK, Values
<1>1. src[t] \in inited /\ dst[t] \in Locations \ inited /\ src[t] # dst[t] /\ src[t] \in Locations
  BY <1>0 DEF ArgumentsOf, Core, TypeOK
<1>2. src[t] \in registered[old[t]] BY <1>0, <1>1 DEF Core, RegistryExact
<1>3. registered' = [registered EXCEPT ![old[t]] = (@ \ {src[t]}) \cup {dst[t]}]
  BY <1>0, ZenonT(30) DEF weak_register_no_lock, weak_unregister_no_lock, Core, TypeOK
<1>4. ~weakError' BY <1>0, <1>2 DEF Core, NoWeakError, Unknown, TypeOK
<1>5. \A a \in Tables : lock'[a] # t BY DEF Core, LocksTaken, Takes
<1>6. /\ CallOK(t)' /\ pc'[t] # "crashed" /\ HeldBy(t)' = holds[t]
      /\ \A u \in Threads \ {t} : SameCall(u) /\ Compatible(t, u)'
  BY <1>5, ReturnOK
<1>7. TypeOK'
  <2>1. value' \in [Locations -> Values] /\ inited' \subseteq Locations
    BY <1>0, <1>1 DEF Core, TypeOK, Values
  <2>2. registered' \in [Objects -> SUBSET Locations]
    <3>1. (registered[old[t]] \ {src[t]}) \cup {dst[t]} \in SUBSET Locations BY <1>0, <1>1 DEF Core, TypeOK
    <3> QED BY <1>3, <3>1, ZenonT(30) DEF Core, TypeOK
  <2> QED BY <1>4, <2>1, <2>2, ReturnTypes DEF Core, TypeOK
<1>8. RegistryExact'
  <2> SUFFICES ASSUME NEW o \in Objects PROVE registered'[o] = {l \in inited' : value'[l] = o}
    BY ZenonT(30) DEF RegistryExact
  <2>1. registered[o] = {l \in inited : value[l] = o} BY DEF Core, RegistryExact
  <2>2. value'[src[t]] = Nil /\ value'[dst[t]] = old[t]
        /\ \A l \in Locations \ {src[t], dst[t]} : value'[l] = value[l]
    BY <1>1 DEF Core, TypeOK
  <2>3. inited' = inited \cup {dst[t]} OBVIOUS
  <2>4. CASE o = old[t]
    <3>1. registered'[o] = (registered[o] \ {src[t]}) \cup {dst[t]} BY <1>3, <2>4 DEF Core, TypeOK
    <3> QED BY <1>0, <1>1, <2>1, <2>2, <2>3, <2>4, <3>1 DEF Core, TypeOK
  <2>5. CASE o # old[t]
    <3>1. registered'[o] = registered[o] BY <1>3, <2>5 DEF Core, TypeOK
    <3> QED BY <1>1, <2>1, <2>2, <2>3, <2>5, <3>1, WeakAssumption DEF Core, TypeOK
  <2> QED BY <2>4, <2>5, ZenonT(30)
<1>9. Clearable'
  <2>1. \A o \in Objects : registered'[o] # {} => registered[o] # {} BY <1>2, <1>3 DEF Core, TypeOK
  <2> QED BY <2>1 DEF Core, Clearable
<1>10. HeldIsLive'
  <2>1. \A u \in Threads : HeldBy(u)' \subseteq HeldBy(u) BY <1>6 DEF HeldBy, SameCall
  <2> QED BY <2>1 DEF Core, HeldIsLive
<1>11. TablesOK' BY <1>4, <1>7, <1>8, <1>9, <1>10 DEF TablesOK, NoWeakError
<1>12. \A u \in Threads \ {t} : LeavesAlone(u) BY <1>6, OwnsDestination DEF LeavesAlone
<1> QED BY <1>6, <1>11, <1>12, StepOfOne

\* Where a store commits: the variable is as the store believes, so that it is
\* registered for the old object and for no other one.
LEMMA BeforeCommit ==
  ASSUME Core, NEW t \in Threads, pc[t] = "locked", ~Changed(t)
  PROVE  /\ Storing(t) /\ ArgumentsOf(t) /\ ObjectsOf(t) /\ dst[t] \in Locations
         /\ HaveOld(t) => dst[t] \in inited /\ value[dst[t]] = old[t]
         /\ ~HaveOld(t) => dst[t] \notin inited /\ old[t] = Nil
         /\ \A o \in Objects : dst[t] \in registered[o] => o = old[t]
         /\ old[t] # Nil => dst[t] \in registered[old[t]]
<1>1. Storing(t) /\ ArgumentsOf(t) /\ ObjectsOf(t) BY DEF Core, ObjectsOf
<1>2. HaveOld(t) => dst[t] \in inited /\ value[dst[t]] = old[t]
  BY <1>1 DEF ArgumentsOf, HaveOld, Changed
<1>3. ~HaveOld(t) => dst[t] \in Locations \ inited /\ old[t] = Nil
  BY <1>1 DEF ArgumentsOf, ObjectsOf, Storing, HaveOld, HaveNew, Loading
<1>4. dst[t] \in Locations BY <1>2, <1>3 DEF Core, TypeOK
<1>5. \A o \in Objects : dst[t] \in registered[o] => o = old[t]
  BY <1>2, <1>3 DEF Core, RegistryExact
<1>6. old[t] # Nil => dst[t] \in registered[old[t]]
  BY <1>2, <1>3 DEF Core, RegistryExact, TypeOK, Values
<1> QED BY <1>1, <1>2, <1>3, <1>4, <1>5, <1>6

\* storeWeak replaces the registration with the value.
LEMMA CommitStep ==
  ASSUME Core, ~Aborted, NEW t \in Threads, Commit(t)
  PROVE  Core'
<1> USE DEF lifeVars
<1> DEFINE gone == weak_unregister_no_lock(registered, old[t], dst[t])
           n == Stored(t)
<1>0. pc[t] = "locked" /\ ~Changed(t) /\ Unlock(t) /\ UNCHANGED <<holds, lifeVars>> BY DEF Commit
<1>1. /\ Storing(t) /\ ArgumentsOf(t) /\ ObjectsOf(t) /\ dst[t] \in Locations
      /\ HaveOld(t) => dst[t] \in inited /\ value[dst[t]] = old[t]
      /\ ~HaveOld(t) => dst[t] \notin inited /\ old[t] = Nil
      /\ \A o \in Objects : dst[t] \in registered[o] => o = old[t]
      /\ old[t] # Nil => dst[t] \in registered[old[t]]
  BY <1>0, BeforeCommit
<1>2. n \in Values /\ (n # Nil => n \in Objects /\ life[n] = "live")
  BY DEF Stored, Dying, Core, TypeOK, Values
<1>3. gone \in [Objects -> SUBSET Locations]
      /\ \A o \in Objects : gone[o] = {l \in inited \ {dst[t]} : value[l] = o}
  <2>1. old[t] \in Objects \cup {Nil} BY DEF Core, TypeOK, Values
  <2>2. gone \in [Objects -> SUBSET Locations] /\ \A o \in Objects : gone[o] = registered[o] \ {dst[t]}
    <3>1. CASE old[t] = Nil
      <4>1. gone = registered BY <3>1 DEF weak_unregister_no_lock
      <4>2. \A o \in Objects : dst[t] \notin registered[o] BY <1>1, <3>1, WeakAssumption
      <4> QED BY <4>1, <4>2 DEF Core, TypeOK
    <3>2. CASE old[t] # Nil
      <4>1. gone = [registered EXCEPT ![old[t]] = @ \ {dst[t]}] BY <3>2 DEF weak_unregister_no_lock
      <4> HIDE DEF gone
      <4>2. registered[old[t]] \ {dst[t]} \in SUBSET Locations BY <2>1, <3>2 DEF Core, TypeOK
      <4> QED BY <1>1, <2>1, <3>2, <4>1, <4>2 DEF Core, TypeOK
    <3> QED BY <3>1, <3>2
  <2> HIDE DEF gone
  <2> QED BY <2>2 DEF Core, RegistryExact
<1>4. /\ registered' = IF HaveNew(t) THEN weak_register_no_lock(gone, n, dst[t]) ELSE gone
      /\ weakBit' = IF HaveNew(t) THEN weakBit \cup ({n} \ {Nil}) ELSE weakBit
      /\ value' = IF HaveNew(t) THEN [value EXCEPT ![dst[t]] = n] ELSE value
      /\ inited' = IF HaveNew(t) THEN inited \cup {dst[t]} ELSE inited \ {dst[t]}
  BY DEF Commit, setWeaklyReferenced_nolock
<1> HIDE DEF gone, n
<1>5. ~weakError' BY <1>1 DEF Commit, Core, NoWeakError, Unknown, TypeOK
<1>6. registered' \in [Objects -> SUBSET Locations] /\
      \A o \in Objects : registered'[o] = gone[o] \cup {l \in {dst[t]} : HaveNew(t) /\ o = n}
  <2>1. CASE ~HaveNew(t) BY <1>3, <1>4, <2>1
  <2>2. CASE HaveNew(t) /\ n = Nil BY <1>3, <1>4, <2>2, WeakAssumption DEF weak_register_no_lock
  <2>3. CASE HaveNew(t) /\ n # Nil
    <3>1. n \in Objects /\ registered' = [gone EXCEPT ![n] = @ \cup {dst[t]}]
      BY <1>2, <1>4, <2>3 DEF weak_register_no_lock
    <3>2. gone[n] \cup {dst[t]} \in SUBSET Locations BY <1>1, <1>3, <3>1
    <3> QED BY <1>3, <2>3, <3>1, <3>2
  <2> QED BY <2>1, <2>2, <2>3
<1>7. RegistryExact'
  <2> SUFFICES ASSUME NEW o \in Objects PROVE registered'[o] = {l \in inited' : value'[l] = o}
    BY DEF RegistryExact
  <2>1. CASE HaveNew(t)
    <3>1. value'[dst[t]] = n /\ (\A l \in Locations \ {dst[t]} : value'[l] = value[l])
          /\ inited' = (inited \ {dst[t]}) \cup {dst[t]}
      BY <1>1, <1>4, <2>1 DEF Core, TypeOK
    <3> QED BY <1>3, <1>6, <2>1, <3>1 DEF Core, TypeOK
  <2>2. CASE ~HaveNew(t) BY <1>3, <1>4, <1>6, <2>2
  <2> QED BY <2>1, <2>2
<1>8. Clearable'
  <2> SUFFICES ASSUME NEW o \in Objects, registered'[o] # {}
               PROVE  o \in weakBit' /\ life[o] # "freed"
    BY <1>0 DEF Core, Clearable
  <2>1. CASE HaveNew(t) /\ o = n BY <1>2, <1>4, <2>1, WeakAssumption
  <2>2. CASE gone[o] # {} BY <1>3, <1>4, <2>2 DEF Core, Clearable, RegistryExact
  <2> QED BY <1>6, <2>1, <2>2
<1>9. /\ lock' \in [Tables -> Threads \cup {None}]
      /\ \A a \in Tables : lock'[a] # t
      /\ \A u \in Threads \ {t}, a \in Tables : lock'[a] = u => lock[a] = u
  BY <1>0, UnlockReleases
<1>10. /\ CallOK(t)' /\ pc'[t] # "crashed" /\ HeldBy(t)' \subseteq HeldBy(t)
       /\ \A u \in Threads \ {t} : SameCall(u) /\ Compatible(t, u)'
       /\ pc' \in [Threads -> PCs] /\ op' \in [Threads -> AllOps \cup {None}]
       /\ dst' \in [Threads -> Locations \cup {None}] /\ src' \in [Threads -> Locations \cup {None}]
       /\ old' \in [Threads -> Values] /\ new' \in [Threads -> Values]
       /\ ready' \in [Threads -> BOOLEAN]
  <2>1. CASE op[t] = "copy"
    <3>1. pc' = [pc EXCEPT ![t] = "release"] /\ UNCHANGED callVars BY <2>1 DEF Commit
    <3>2. ArgumentsOf(t)'
      <4>1. HaveNew(t) BY <2>1 DEF HaveNew
      <4>2. src[t] \in inited' BY <1>1, <1>4, <2>1, <4>1 DEF ArgumentsOf
      <4> QED BY <1>1, <2>1, <3>1, <4>2 DEF ArgumentsOf, callVars, Core, TypeOK
    <3>3. ObjectsOf(t)'
      BY <1>1, <2>1, <3>1 DEF ObjectsOf, callVars, Storing, HaveOld, HaveNew, Loading, Core, TypeOK
    <3>4. \A u \in Threads \ {t} : SameCall(u) BY <3>1 DEF SameCall, callVars, Core, TypeOK
    <3>5. \A u \in Threads \ {t} : Compatible(t, u)' BY <3>1, <3>4, SameCompany DEF callVars
    <3>6. HeldBy(t)' = HeldBy(t) BY <1>0, <3>1 DEF HeldBy, callVars
    <3>7. pc'[t] = "release" /\ pc' \in [Threads -> PCs] BY <3>1 DEF Core, TypeOK, PCs
    <3> QED BY <1>9, <3>1, <3>2, <3>3, <3>4, <3>5, <3>6, <3>7 DEF CallOK, callVars, Core, TypeOK
  <2>2. CASE op[t] # "copy"
    <3>1. Return(t) BY <2>2 DEF Commit
    <3>2. holds'[t] \subseteq HeldBy(t) BY <1>0 DEF HeldBy
    <3> QED BY <1>9, <3>1, <3>2, ReturnOK, ReturnTypes DEF Core
  <2> QED BY <2>1, <2>2
<1>11. TypeOK'
  <2>1. value' \in [Locations -> Values] /\ inited' \subseteq Locations /\ weakBit' \subseteq Objects
    BY <1>1, <1>2, <1>4 DEF Core, TypeOK
  <2>2. weakError' \in BOOLEAN BY DEF Commit, Core, TypeOK, Unknown
  <2>3. UNCHANGED <<holds, life, deallocator>> BY <1>0
  <2> QED BY <1>6, <1>9, <1>10, <2>1, <2>2, <2>3 DEF Core, TypeOK
<1>12. HeldIsLive'
  <2>1. \A u \in Threads : HeldBy(u)' \subseteq HeldBy(u) BY <1>0, <1>10 DEF HeldBy, SameCall
  <2> QED BY <1>0, <2>1 DEF Core, HeldIsLive
<1>13. TablesOK' BY <1>5, <1>7, <1>8, <1>11, <1>12 DEF TablesOK, NoWeakError
<1>14. ASSUME NEW u \in Threads \ {t} PROVE LeavesAlone(u)
  <2>1. \A l \in Uses(u) : l \in inited' <=> l \in inited
    <3>1. CASE op[t] \in {"store", "storeOrNil"}
      BY <1>1, <1>4, <3>1 DEF HaveOld, HaveNew
    <3>2. CASE op[t] \in {"init", "initOrNil", "destroy", "copy"}
      BY <1>4, <3>2, OwnsDestination
    <3> QED BY <1>1, <3>1, <3>2 DEF Storing, HaveOld, HaveNew
  <2> QED BY <1>0, <1>9, <1>10, <2>1 DEF LeavesAlone
<1> QED BY <1>10, <1>13, <1>14, StepOfOne

(***************************************************************************)
(* Giving up references.                                                   *)
(***************************************************************************)
\* A thread that gives up a reference deallocates the object only if nobody holds
\* it any more; a deallocation that has begun is left alone.
LEMMA DropOK ==
  ASSUME Core, NEW t \in Threads, NEW o \in HeldBy(t), o \in Objects, NEW others, Drop(t, o, others),
         UNCHANGED <<registered, weakBit>>,
         HeldBy(t)' \subseteq HeldBy(t), o \in HeldBy(t)' => o \in others,
         \A u \in Threads \ {t} : HeldBy(u)' = HeldBy(u)
  PROVE  /\ life' \in [Objects -> {"live", "deallocating", "freed"}]
         /\ deallocator' \in [Objects -> Threads \cup {None}]
         /\ HeldIsLive' /\ Clearable'
         /\ \A u \in Threads, p \in Objects : deallocator[p] = u => deallocator'[p] = u
<1>0. None \notin Threads BY WeakAssumption
<1>1. life[o] = "live" /\ deallocator[o] = None
  BY DEF Core, HeldIsLive, Clearable
<1>2. CASE o \in others \/ \E u \in Threads \ {t} : o \in HeldBy(u)
  <2>1. UNCHANGED lifeVars BY <1>2 DEF Drop
  <2>2. HeldIsLive' BY <2>1 DEF lifeVars, Core, HeldIsLive
  <2> QED BY <2>1, <2>2 DEF lifeVars, Core, TypeOK, Clearable
<1>3. CASE ~(o \in others \/ \E u \in Threads \ {t} : o \in HeldBy(u))
  <2>1. /\ life' = [life EXCEPT ![o] = "deallocating"]
        /\ deallocator' = [deallocator EXCEPT ![o] = t] BY <1>3 DEF Drop
  <2>2. \A u \in Threads : o \notin HeldBy(u)' BY <1>3
  <2>3. HeldIsLive' BY <2>1, <2>2 DEF Core, HeldIsLive, TypeOK
  <2>4. Clearable' BY <1>0, <1>1, <2>1 DEF Core, Clearable, TypeOK
  <2>5. \A u \in Threads, p \in Objects : deallocator[p] = u => deallocator'[p] = u
    BY <1>0, <1>1, <2>1 DEF Core, TypeOK
  <2> QED BY <2>1, <2>3, <2>4, <2>5 DEF Core, TypeOK
<1> QED BY <1>2, <1>3

\* A client releases what it holds.
LEMMA ReleaseStep ==
  ASSUME Core, ~Aborted, NEW t \in Threads, NEW o \in Objects, Release(t, o)
  PROVE  Core'
<1> USE DEF Release, tableVars, callVars
<1>0. /\ op[t] = None /\ dst[t] = None /\ src[t] = None /\ old[t] = Nil /\ None # "copy"
      /\ \A a \in Tables : lock[a] # t
  BY InClientCode, WeakAssumption DEF AllOps
<1>1. HeldBy(t) = holds[t] /\ HeldBy(t)' = holds[t] \ {o} BY <1>0 DEF HeldBy, Core, TypeOK
<1>2. \A u \in Threads \ {t} : HeldBy(u)' = HeldBy(u) BY DEF HeldBy, Core, TypeOK
<1>3. /\ life' \in [Objects -> {"live", "deallocating", "freed"}]
      /\ deallocator' \in [Objects -> Threads \cup {None}]
      /\ HeldIsLive' /\ Clearable'
      /\ \A u \in Threads, p \in Objects : deallocator[p] = u => deallocator'[p] = u
  <2> DEFINE others == {}
  <2>1. Drop(t, o, others) /\ (o \in HeldBy(t)' => o \in others) BY <1>1
  <2> HIDE DEF others
  <2> QED BY <1>1, <1>2, <2>1, DropOK
<1>4. TypeOK' BY <1>3 DEF Core, TypeOK, PCs
<1>5. TablesOK' BY <1>3, <1>4 DEF TablesOK, Core, RegistryExact, NoWeakError
<1>6. pc'[t] \in {"idle", "dealloc"} BY DEF Core, TypeOK
<1>7. \A u \in Threads \ {t} : LeavesAlone(u) BY <1>3 DEF LeavesAlone, SameCall, Core, TypeOK
<1>8. \A u \in Threads \ {t} : Compatible(t, u)' BY <1>7, SameCompany DEF LeavesAlone
<1>9. CallOK(t)'
  <2>1. ArgumentsOf(t) BY DEF Core
  <2>2. ArgumentsOf(t)' BY <1>0, <1>6, <2>1, WeakAssumption DEF ArgumentsOf
  <2>3. ObjectsOf(t)' BY <1>0, <1>6, WeakAssumption DEF ObjectsOf, AllOps
  <2> QED BY <1>0, <2>2, <2>3 DEF CallOK
<1> QED BY <1>5, <1>6, <1>7, <1>8, <1>9, StepOfOne

\* objc_copyWeak releases the object that it loaded.
LEMMA CopyReleaseStep ==
  ASSUME Core, ~Aborted, NEW t \in Threads, CopyRelease(t)
  PROVE  Core'
<1> USE DEF CopyRelease, tableVars
<1>0. op[t] = "copy" /\ new[t] # Nil /\ new[t] \in Objects BY DEF Core, ObjectsOf, TypeOK, Values
<1>1. None # "copy" /\ None \notin AllOps BY WeakAssumption DEF AllOps
<1>2. HeldBy(t)' = holds[t] /\ HeldBy(t) = holds[t] \cup {new[t]}
  BY <1>0, <1>1 DEF HeldBy, Core, TypeOK
<1>3. \A u \in Threads \ {t} : SameCall(u) BY DEF SameCall, Core, TypeOK
<1>4. \A u \in Threads \ {t} : HeldBy(u)' = HeldBy(u) BY <1>3 DEF HeldBy, SameCall
<1>5. /\ life' \in [Objects -> {"live", "deallocating", "freed"}]
      /\ deallocator' \in [Objects -> Threads \cup {None}]
      /\ HeldIsLive' /\ Clearable'
      /\ \A u \in Threads, p \in Objects : deallocator[p] = u => deallocator'[p] = u
  BY <1>0, <1>2, <1>4, DropOK
<1>6. TypeOK' BY <1>5 DEF Core, TypeOK, PCs, Home, Values
<1>7. TablesOK' BY <1>5, <1>6 DEF TablesOK, Core, RegistryExact, NoWeakError
<1>8. pc'[t] \in {"idle", "dealloc"} /\ op'[t] = None /\ dst'[t] = None /\ src'[t] = None /\ old'[t] = Nil
  BY DEF Core, TypeOK, Home
<1>9. \A u \in Threads \ {t} : LeavesAlone(u) BY <1>3, <1>5 DEF LeavesAlone
<1>10. \A u \in Threads \ {t} : Compatible(t, u)' BY <1>3, <1>8, SameCompany
<1>11. CallOK(t)'
  <2>1. ArgumentsOf(t)' BY <1>1, <1>8 DEF ArgumentsOf, AllOps
  <2>2. ObjectsOf(t)' BY <1>1, <1>8 DEF ObjectsOf, AllOps
  <2>3. \A a \in Tables : lock'[a] # t BY DEF Core, LocksTaken, Takes
  <2> QED BY <2>1, <2>2, <2>3 DEF CallOK
<1> QED BY <1>7, <1>8, <1>9, <1>10, <1>11, StepOfOne

\* clearDeallocating sets to nil all the variables that hold the object.
LEMMA DeallocStep ==
  ASSUME Core, ~Aborted, NEW t \in Threads, NEW o \in Objects, Dealloc(t, o)
  PROVE  Core'
<1> USE DEF callVars
<1>0. /\ op[t] = None /\ dst[t] = None /\ src[t] = None /\ old[t] = Nil /\ None \notin AllOps \cup Threads
      /\ \A a \in Tables : lock[a] # t
  BY InClientCode, WeakAssumption DEF Dealloc
<1>1. life[o] = "deallocating" /\ deallocator[o] = t BY <1>0 DEF Dealloc, Core, Clearable
<1>2. registered[o] = {l \in inited : value[l] = o} /\ inited \subseteq Locations /\ o # Nil
  BY WeakAssumption DEF Core, RegistryExact, TypeOK
<1>3. /\ \A l \in Locations : value'[l] = IF l \in registered[o] THEN Nil ELSE value[l]
      /\ value' \in [Locations -> Values]
      /\ registered' = [registered EXCEPT ![o] = {}]
      /\ ~weakError'
  <2>1. CASE o \in weakBit
    <3>1. value' = [l \in Locations |-> IF l \in registered[o] /\ value[l] = o THEN Nil ELSE value[l]]
          /\ registered' = [registered EXCEPT ![o] = {}]
          /\ weakError' = (weakError \/ \E l \in registered[o] : value[l] \notin {o, Nil})
      BY <2>1 DEF Dealloc
    <3> QED BY <1>2, <3>1 DEF Core, TypeOK, NoWeakError, Values
  <2>2. CASE o \notin weakBit
    <3>1. registered[o] = {} BY <2>2 DEF Core, Clearable
    <3>2. UNCHANGED <<value, weakError, registered>> BY <2>2 DEF Dealloc
    <3> QED BY <3>1, <3>2 DEF Core, TypeOK, NoWeakError
  <2> QED BY <2>1, <2>2
<1>4. /\ life' = [life EXCEPT ![o] = "freed"]
      /\ weakBit' = weakBit \ {o} /\ deallocator' = [deallocator EXCEPT ![o] = None]
      /\ pc' = [pc EXCEPT ![t] = IF \E p \in Objects \ {o} : deallocator[p] = t THEN "dealloc" ELSE "idle"]
      /\ UNCHANGED <<inited, lock, holds, callVars>>
  BY DEF Dealloc
<1>5. TypeOK'
  <2>1. weakError' \in BOOLEAN BY ZenonT(30) DEF Dealloc, Core, TypeOK
  <2> QED BY <1>3, <1>4, <2>1 DEF Core, TypeOK, PCs
<1>6. RegistryExact' BY <1>2, <1>3, <1>4, WeakAssumption DEF Core, RegistryExact, TypeOK
<1>7. Clearable' BY <1>3, <1>4, <1>0 DEF Core, Clearable, TypeOK
<1>8. HeldIsLive'
  <2>1. \A u \in Threads : HeldBy(u)' = HeldBy(u) BY <1>4 DEF HeldBy
  <2>2. \A u \in Threads : o \notin HeldBy(u) BY <1>1 DEF Core, HeldIsLive
  <2> QED BY <1>4, <2>1, <2>2 DEF Core, HeldIsLive, TypeOK
<1>9. TablesOK' BY <1>3, <1>5, <1>6, <1>7, <1>8 DEF TablesOK, NoWeakError
<1>10. pc'[t] \in {"idle", "dealloc"} BY <1>4 DEF Core, TypeOK
<1>11. \A u \in Threads \ {t} : LeavesAlone(u) BY <1>1, <1>4 DEF LeavesAlone, SameCall, Core, TypeOK
<1>12. \A u \in Threads \ {t} : Compatible(t, u)' BY <1>4, <1>11, SameCompany DEF LeavesAlone
<1>13. CallOK(t)'
  <2>1. ArgumentsOf(t)' BY <1>0, <1>4, <1>10 DEF ArgumentsOf, AllOps
  <2>2. ObjectsOf(t)' BY <1>0, <1>4, <1>10 DEF ObjectsOf, AllOps
  <2> QED BY <1>0, <1>4, <2>1, <2>2 DEF CallOK
<1> QED BY <1>9, <1>10, <1>11, <1>12, <1>13, StepOfOne

(***************************************************************************)
(* The theorems.                                                           *)
(***************************************************************************)
\* No variable is registered, and nobody is in a call.
LEMMA InitCore == Init => Core
<1> SUFFICES ASSUME Init PROVE Core OBVIOUS
<1> USE DEF Init
<1>0. None \notin Threads /\ None \notin AllOps /\ Nil \in Values BY WeakAssumption DEF Values
<1>1. TypeOK BY <1>0, ZenonT(30) DEF TypeOK, PCs
<1>2. RegistryExact /\ NoWeakError /\ RefusesOnlyItsOwn
  BY DEF RegistryExact, NoWeakError, RefusesOnlyItsOwn
<1>3. \A t \in Threads : ArgumentsOf(t) /\ ObjectsOf(t)
  BY <1>0 DEF ArgumentsOf, ObjectsOf, AllOps
<1>4. NoCompany BY DEF NoCompany, Compatible, Uses
<1>5. LocksTaken BY <1>0 DEF LocksTaken
<1>6. Clearable BY DEF Clearable
<1>7. HeldIsLive
  <2>1. \A t \in Threads : HeldBy(t) \subseteq Objects BY <1>0 DEF HeldBy, AllOps
  <2> QED BY <2>1 DEF HeldIsLive
<1> QED BY <1>1, <1>2, <1>3, <1>4, <1>5, <1>6, <1>7 DEF Core

\* Core is about the variables only.
LEMMA StutterCore == ASSUME Core, UNCHANGED vars PROVE Core'
BY DEF Core, vars, TypeOK, RegistryExact, NoWeakError, RefusesOnlyItsOwn, ArgumentsOf, ObjectsOf,
   Storing, HaveOld, HaveNew, Loading, MayPass, NoCompany, Compatible, SharesOnly, Uses, LocksTaken,
   Takes, First, FirstOf, Wanted, Clearable, HeldIsLive, HeldBy

\* Core is inductive: every step of every thread keeps it.
LEMMA StepCore == ASSUME Core, [Next]_vars PROVE Core'
<1>1. CASE ~Aborted /\ \E t \in Threads : Call(t)
  <2>1. PICK t \in Threads : Call(t) BY <1>1
  <2> QED BY <1>1, <2>1, CallInitStep, CallStoreStep, CallDestroyStep, CallLoadStep, CallCopyStep,
             CallMoveStep, ReleaseStep DEF Call
<1>2. CASE ~Aborted /\ \E t \in Threads : Step(t)
  <2>1. PICK t \in Threads : Step(t) BY <1>2
  <2> QED BY <1>2, <2>1, ReadStep, LockFirstStep, LockSecondStep, RetryStep, InitializeStep, CrashStep,
             CommitStep, CopyReleaseStep, ReadAgainStep, LoadInitializeStep, LoadStep, MoveStep,
             DeallocStep DEF Step
<1>3. CASE UNCHANGED vars BY <1>3, StutterCore
<1> QED BY <1>1, <1>2, <1>3 DEF Next

\* Two threads that wait for each other would each hold a table below the one it
\* waits for: locks are taken in address order.
LEMMA CoreNoLockCycle == Core => NoLockCycle
<1> SUFFICES ASSUME Core, NEW t \in Threads, NEW u \in Threads, t # u,
                    NEW a \in WaitsFor(t), NEW b \in WaitsFor(u), lock[a] = u, lock[b] = t
             PROVE  FALSE
  BY DEF NoLockCycle
<1>1. ASSUME NEW v \in Threads, NEW c \in WaitsFor(v)
      PROVE  /\ c \in Tables \cap Nat /\ Storing(v)
             /\ pc[v] \in {"first", "second"}
             /\ pc[v] = "second" => First(v) < c
  <2>1. (pc[v] = "first" /\ Storing(v) /\ c = First(v)) \/ (pc[v] = "second" /\ c \in Second(v))
    BY <1>1 DEF WaitsFor
  <2>2. Storing(v) BY <2>1 DEF Core, ObjectsOf
  <2>3. Second(v) \subseteq Wanted(v) BY DEF Second
  <2> QED BY <2>1, <2>2, <2>3, WantedTables DEF Core
<1>2. a \in Takes(u) /\ b \in Takes(t) BY <1>1 DEF Core, LocksTaken
<1>3. pc[t] = "second" /\ pc[u] = "second" /\ a = First(u) /\ b = First(t) BY <1>1, <1>2 DEF Takes
<1>4. First(t) < a /\ First(u) < b /\ a \in Nat /\ b \in Nat BY <1>1, <1>3
<1> QED BY <1>3, <1>4

\* The inductive invariant holds in every reachable state.
LEMMA CoreAlways == Spec => []Core
BY InitCore, StepCore, PTL DEF Spec

\* For any threads, objects, variables and table addresses: the weak table
\* registers for an object exactly the weak variables that hold it, the runtime
\* reports no error, stores of two tables never wait for each other, and storeWeak
\* refuses only an object that the thread itself is deallocating.
THEOREM WeakInvariant == Spec => []WeakInv
<1>1. Core => WeakInv BY CoreNoLockCycle DEF Core, WeakInv
<1> QED BY <1>1, CoreAlways, PTL

\* No weak variable ever holds a freed object: when -dealloc frees an object,
\* the weak bit has told it to set to nil every variable that holds it.
THEOREM WeakNeverDangles == Spec => []NeverDangles
<1>1. Core => NeverDangles
  <2> SUFFICES ASSUME Core, NEW l \in inited, value[l] # Nil PROVE life[value[l]] # "freed"
    BY DEF NeverDangles
  <2>1. value[l] \in Objects BY DEF Core, TypeOK, Values
  <2>2. l \in registered[value[l]] BY <2>1 DEF Core, RegistryExact
  <2> QED BY <2>1, <2>2 DEF Core, Clearable
<1> QED BY <1>1, CoreAlways, PTL

\* What a thread holds, by its own references or by a weak load or copy, is not
\* being deallocated: rootTryRetain never resurrects an object.
THEOREM WeakHeldIsLive == Spec => []HeldIsLive
BY CoreAlways, PTL DEF Core
=============================================================================
