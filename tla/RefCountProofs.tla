--------------------------- MODULE RefCountProofs ---------------------------
(***************************************************************************)
(* Proof that the count of references survives every interleaving of       *)
(* retains, releases, weak loads and isa changes, for any set of threads   *)
(* and any widths of the two counts.                                       *)
(***************************************************************************)
EXTENDS RefCountSteps, FiniteSetTheorems

\* The provers' time limits, for slow machines.
USE SMTT(30), ZenonT(30)

USE Untyped

(***************************************************************************)
(* The number of references.                                               *)
(***************************************************************************)
\* A reference is a pair of a thread and a number up to what it holds.
LEMMA RefsMember ==
  ASSUME NEW f
  PROVE  \A x : x \in Refs(f) <=> \E t \in Threads : \E n \in 1..f[t] : x = <<t, n>>
BY DEF Refs

\* A bounded number of references is finite, and less than a side table can count.
LEMMA CountFew ==
  ASSUME NEW f \in [Threads -> Nat], \A t \in Threads : f[t] <= MaxOwn
  PROVE  IsFiniteSet(Refs(f)) /\ Cardinality(Refs(f)) \in Nat /\ Cardinality(Refs(f)) < PINNED
<1> DEFINE all == Threads \X (1..MaxOwn)
<1>1. MaxOwn \in Nat /\ SideMod \in Nat /\ SideMod = 2 * PINNED /\ PINNED \in Int
  BY RefCountAssumption DEF PINNED
<1>2. IsFiniteSet(1..MaxOwn) /\ Cardinality(1..MaxOwn) = MaxOwn
  <2>1. 1 \in Int /\ MaxOwn \in Int BY <1>1
  <2>2. IsFiniteSet(1..MaxOwn) /\ Cardinality(1..MaxOwn) = IF 1 > MaxOwn THEN 0 ELSE MaxOwn - 1 + 1
    BY <2>1, FS_Interval
  <2> QED BY <1>1, <2>2
<1>3. IsFiniteSet(all) /\ Cardinality(all) = Cardinality(Threads) * MaxOwn
  BY <1>2, FewReferences, FS_Product, ZenonT(30)
<1>4. Refs(f) \subseteq all
  <2> SUFFICES ASSUME NEW t \in Threads, NEW n \in 1..f[t] PROVE <<t, n>> \in all
    BY RefsMember
  <2>1. n \in 1..MaxOwn BY <1>1
  <2> QED BY <2>1
<1> HIDE DEF all
<1>5. IsFiniteSet(Refs(f)) /\ Cardinality(Refs(f)) <= Cardinality(all) BY <1>3, <1>4, FS_Subset
<1>6. Cardinality(Refs(f)) \in Nat /\ Cardinality(all) \in Nat BY <1>3, <1>5, FS_CardinalityType
<1> QED BY <1>1, <1>3, <1>5, <1>6, FewReferences

\* A reference more is one more: it is a new pair.
LEMMA CountUp ==
  ASSUME NEW f \in [Threads -> Nat], IsFiniteSet(Refs(f)), NEW t \in Threads,
         NEW g \in [Threads -> Nat], OneMore(f, g, t)
  PROVE  IsFiniteSet(Refs(g)) /\ Cardinality(Refs(g)) = Cardinality(Refs(f)) + 1
<1>1. \A u \in Threads : g[u] = IF u = t THEN f[u] + 1 ELSE f[u] BY DEF OneMore
<1> DEFINE x == <<t, f[t] + 1>>
<1>2. Refs(g) = Refs(f) \cup {x}
  <2>1. 1..g[t] = (1..f[t]) \cup {f[t] + 1} BY <1>1
  <2>2. ASSUME NEW y PROVE y \in Refs(g) <=> y \in Refs(f) \/ y = x
    <3>1. y \in Refs(g) <=> \E u \in Threads : \E n \in 1..g[u] : y = <<u, n>> BY RefsMember
    <3>2. y \in Refs(f) <=> \E u \in Threads : \E n \in 1..f[u] : y = <<u, n>> BY RefsMember
    <3>3. \A u \in Threads : \A n : n \in 1..g[u] <=> n \in 1..f[u] \/ (u = t /\ n = f[t] + 1)
      BY <1>1, <2>1
    <3> QED BY <3>1, <3>2, <3>3
  <2> QED BY <2>2
<1>3. x \notin Refs(f)
  <2>1. f[t] + 1 \notin 1..f[t] OBVIOUS
  <2> QED BY <2>1, RefsMember
<1> HIDE DEF x
<1>4. /\ IsFiniteSet(Refs(f) \cup {x})
      /\ Cardinality(Refs(f) \cup {x}) = Cardinality(Refs(f)) + 1
  BY <1>3, FS_AddElement
<1> QED BY <1>2, <1>4

\* A reference less is one less.
LEMMA CountDown ==
  ASSUME NEW f \in [Threads -> Nat], IsFiniteSet(Refs(f)), NEW t \in Threads, f[t] > 0,
         NEW g \in [Threads -> Nat], OneLess(f, g, t)
  PROVE  IsFiniteSet(Refs(g)) /\ Cardinality(Refs(g)) = Cardinality(Refs(f)) - 1
<1>1. OneMore(g, f, t) BY DEF OneMore, OneLess
<1>2. Refs(g) \subseteq Refs(f)
  <2>1. \A u \in Threads : g[u] <= f[u] /\ g[u] \in Nat /\ f[u] \in Nat BY DEF OneLess
  <2>2. \A u \in Threads : 1..g[u] \subseteq 1..f[u] BY <2>1
  <2>3. ASSUME NEW y \in Refs(g) PROVE y \in Refs(f)
    <3>1. PICK u \in Threads : \E n \in 1..g[u] : y = <<u, n>> BY RefsMember
    <3>2. \E n \in 1..f[u] : y = <<u, n>> BY <2>2, <3>1
    <3> QED BY <3>2, RefsMember
  <2> QED BY <2>3
<1>3. IsFiniteSet(Refs(g)) BY <1>2, FS_Subset
<1>4. Cardinality(Refs(f)) = Cardinality(Refs(g)) + 1 BY <1>1, <1>3, CountUp
<1>5. Cardinality(Refs(g)) \in Nat BY <1>3, FS_CardinalityType
<1> QED BY <1>3, <1>4, <1>5

\* Nobody holds a reference when there is none, and somebody who does is counted.
LEMMA CountNone ==
  ASSUME NEW f \in [Threads -> Nat], IsFiniteSet(Refs(f))
  PROVE  Cardinality(Refs(f)) = 0 <=> \A t \in Threads : f[t] = 0
<1>1. Cardinality(Refs(f)) = 0 <=> Refs(f) = {} BY FS_EmptySet
<1>2. ASSUME NEW t \in Threads, f[t] # 0 PROVE <<t, 1>> \in Refs(f)
  <2>1. 1 \in 1..f[t] BY <1>2
  <2> QED BY <2>1, RefsMember
<1>3. (\A t \in Threads : f[t] = 0) => Refs(f) = {} BY RefsMember
<1> QED BY <1>1, <1>2, <1>3, ZenonT(30)


\* So the steps may count.
LEMMA CountingHolds == CountingLaws
<1>1. ASSUME NEW f \in [Threads -> Nat], \A t \in Threads : f[t] <= MaxOwn
      PROVE  IsFiniteSet(Refs(f)) /\ Cardinality(Refs(f)) \in Nat /\ Cardinality(Refs(f)) < PINNED
  BY <1>1, CountFew
<1>2. ASSUME NEW f \in [Threads -> Nat], NEW g \in [Threads -> Nat], NEW t \in Threads,
             IsFiniteSet(Refs(f)), OneMore(f, g, t)
      PROVE  IsFiniteSet(Refs(g)) /\ Cardinality(Refs(g)) = Cardinality(Refs(f)) + 1
  BY <1>2, CountUp
<1>3. ASSUME NEW f \in [Threads -> Nat], NEW g \in [Threads -> Nat], NEW t \in Threads,
             IsFiniteSet(Refs(f)), f[t] > 0, OneLess(f, g, t)
      PROVE  IsFiniteSet(Refs(g)) /\ Cardinality(Refs(g)) = Cardinality(Refs(f)) - 1
  BY <1>3, CountDown
<1>4. ASSUME NEW f \in [Threads -> Nat], IsFiniteSet(Refs(f))
      PROVE  Cardinality(Refs(f)) = 0 <=> \A t \in Threads : f[t] = 0
  BY <1>4, CountNone
<1> QED BY <1>1, <1>2, <1>3, <1>4 DEF CountingLaws

(***************************************************************************)
(* The invariant.                                                          *)
(***************************************************************************)
\* A new object has one reference, and both kinds of isa count it.
LEMMA InitRefs ==
  ASSUME Init
  PROVE  /\ own \in [Threads -> Nat] /\ \A u \in Threads : own[u] <= MaxOwn
         /\ Cardinality(OwnedRefs) = 1
<1>1. PICK t \in Threads : own = [u \in Threads |-> IF u = t THEN 1 ELSE 0] BY DEF Init
<1>2. own \in [Threads -> Nat] /\ \A u \in Threads : own[u] <= MaxOwn
  BY <1>1, RefCountAssumption
<1> DEFINE z == [u \in Threads |-> 0]
<1>3. z \in [Threads -> Nat] /\ \A u \in Threads : z[u] <= MaxOwn /\ z[u] = 0
  BY RefCountAssumption
<1>4. OneMore(z, own, t) BY <1>1 DEF OneMore
<1> HIDE DEF z
<1>5. IsFiniteSet(Refs(z)) BY <1>3, CountFew
<1>6. Cardinality(Refs(z)) = 0 BY <1>3, <1>5, CountNone
<1>7. Cardinality(Refs(own)) = Cardinality(Refs(z)) + 1 BY <1>2, <1>3, <1>4, <1>5, CountUp
<1> QED BY <1>2, <1>6, <1>7, RefsOwned

\* The object is born with one reference, and nobody in a call.
LEMMA InitCore == ASSUME Init PROVE Core
<1> USE DEF Init
<1>0. None \notin Threads /\ None \notin AllOps BY Widths
<1>1. own \in [Threads -> Nat] /\ (\A u \in Threads : own[u] <= MaxOwn) /\ Cardinality(OwnedRefs) = 1
  BY InitRefs, ZenonT(30)
<1>2. isa \in Isas /\ (isa.extra_rc = IF isa.nonpointer THEN 1 ELSE 0) /\ ~isa.has_sidetable_rc
      /\ ~isa.weakly_referenced /\ (~isa.nonpointer => isa = RawIsa)
  <2>1. PICK b \in BOOLEAN : isa = initIsa(b) OBVIOUS
  <2>2. isa = [nonpointer |-> b, extra_rc |-> IF b THEN 1 ELSE 0, has_sidetable_rc |-> FALSE,
               weakly_referenced |-> FALSE]
    BY <2>1, ZenonT(30) DEF initIsa, RawIsa
  <2>3. 0 \in 0..ExtraMax /\ 1 \in 0..ExtraMax BY Widths
  <2>4. CASE b
    <3>1. isa = [nonpointer |-> TRUE, extra_rc |-> 1, has_sidetable_rc |-> FALSE,
                 weakly_referenced |-> FALSE]
      BY <2>2, <2>4
    <3> QED BY <2>3, <3>1 DEF Isas
  <2>5. CASE ~b
    <3>1. isa = RawIsa BY <2>2, <2>5, ZenonT(30) DEF RawIsa
    <3> QED BY <2>3, <3>1 DEF Isas, RawIsa
  <2> QED BY <2>4, <2>5
<1>3. NoEntry \in Sides /\ RawIsa \in Isas /\ NoBorrow \in Borrows
  BY Widths DEF NoEntry, Sides, RawIsa, Isas, NoBorrow, Borrows
<1>4. TypeOK BY <1>1, <1>2, <1>3, ZenonT(30) DEF TypeOK, PCs
<1>5. ~Splitting /\ ~Moving /\ InTransit = 0 BY DEF Splitting, Moving, Busy, InTransit
<1>6. SideOK
  <2>1. side.rc = 0 /\ ~side.deallocating /\ ~side.weak BY DEF NoEntry
  <2>2. 0 % RC_HALF = 0 /\ 0 < PINNED /\ ~(0 > 0) BY Widths
  <2> QED BY <1>2, <2>1, <2>2 DEF SideOK
<1>7. LifeOK BY DEF LifeOK, NoEntry
<1>8. CountOK
  <2>1. Total = (IF isa.nonpointer THEN isa.extra_rc ELSE 1) + side.rc + InTransit BY DEF Total, InTransit
  <2>2. Total = 1 BY <1>2, <1>5, <2>1 DEF NoEntry
  <2> QED BY <1>1, <2>2 DEF CountOK
<1>9. ASSUME NEW t \in Threads PROVE ThreadOK(t) /\ ~Changing(t)
  <2>1. pc[t] = "idle" /\ op[t] = None /\ newisa[t] = RawIsa /\ ~locked[t] /\ deallocator # t BY <1>0
  <2> USE DEF AllOps
  <2>2. Placed(t) BY <2>1 DEF Placed
  <2>3. Owns(t) BY <1>0, <1>1, <2>1 DEF Owns, Retaining
  <2>4. Sees(t) BY <2>1 DEF Sees
  <2>5. Deallocs(t) BY <2>1 DEF Deallocs
  <2> QED BY <1>0, <2>1, <2>2, <2>3, <2>4, <2>5 DEF ThreadOK, NeedsLock, Changing
<1> QED BY <1>4, <1>6, <1>7, <1>8, <1>9, CountingHolds DEF Core, FreedIsForgotten, OneChanger

\* Core is about the variables only.
LEMMA StutterCore == ASSUME Core, UNCHANGED vars PROVE Core'
<1> USE DEF vars
<1>1. TypeOK' /\ FreedIsForgotten' /\ OneChanger'
  BY DEF Core, TypeOK, FreedIsForgotten, OneChanger, Away, Changing
<1>2. Splitting' = Splitting /\ Moving' = Moving /\ Total' = Total /\ OwnedRefs' = OwnedRefs
  BY DEF Splitting, Moving, Busy, Total, Carried, OwnedRefs
<1>3. SideOK' /\ LifeOK' /\ CountOK' BY <1>2 DEF Core, SideOK, LifeOK, CountOK, Pinned, isDeallocating
<1>4. \A t \in Threads : ThreadOK(t)'
  BY DEF Core, ThreadOK, Placed, Owns, Sees, Deallocs, NeedsLock, Changing, isDeallocating
<1> QED BY <1>1, <1>3, <1>4 DEF Core

\* Core is inductive: every step of every thread keeps it.
LEMMA StepCore == ASSUME Core, [Next]_vars PROVE Core'
<1>1. CASE UNCHANGED vars BY <1>1, StutterCore
<1>2. CASE Finished BY <1>2, StutterCore DEF Finished
<1>3. ASSUME NEW t \in Threads, Call(t) PROVE Core'
  <2>1. CASE CallRetain(t) BY <2>1, CallRetainStep
  <2>2. CASE CallRelease(t) BY <2>2, CallReleaseStep
  <2>3. CASE CallLoadWeak(t) \/ CallInitWeak(t) BY <2>3, CallWeakStep
  <2>4. CASE \E o \in {"toNonpointer", "toRaw"} : CallChangeIsa(t, o) BY <2>4, CallChangeIsaStep
  <2>5. CASE \E u \in Threads : Give(t, u) BY <2>5, GiveStep
  <2> QED BY <1>3, <2>1, <2>2, <2>3, <2>4, <2>5 DEF Call
<1>4. ASSUME NEW t \in Threads, Step(t) PROVE Core'
  <2>1. CASE RetainRaw(t) BY <2>1, RetainRawStep
  <2>2. CASE TryRetainRaw(t) BY <2>2, TryRetainRawSucceeds, TryRetainRawFails
  <2>3. CASE RetainDying(t)
    <3>1. op[t] \in {"retain", "loadWeak"} BY <2>3 DEF RetainDying, At, Retaining
    <3> QED BY <2>3, <3>1, DyingSteps, RetainDyingFails
  <2>4. CASE RetainInline(t) BY <2>4, RetainInlineStep
  <2>5. CASE \/ RetainOverflow(t) \/ RetainAgain(t) \/ ReleaseAgain(t) \/ ReleaseUnderflow(t)
             \/ ReleaseLock(t) \/ ChangeIsaAgain(t) \/ SetWeaklyReferencedAgain(t)
    BY <2>5, ReloadSteps
  <2>6. CASE RetainLock(t) \/ ToRawLock(t) BY <2>6, LockSteps
  <2>7. CASE RetainSpill(t) BY <2>7, RetainSpillStep
  <2>8. CASE RetainAdd(t) BY <2>8, RetainAddStep
  <2>9. CASE ReleaseRaw(t) BY <2>9, ReleaseRawStep
  <2>10. CASE ReleaseDying(t) BY <2>10, DyingSteps
  <2>11. CASE ReleaseInline(t) BY <2>11, ReleaseInlineStep
  <2>12. CASE ReleaseBorrow(t) BY <2>12, ReleaseBorrowStep
  <2>13. CASE ReleaseStore(t) \/ ReleaseStoreAgain(t) BY <2>13, ReleaseStoreSteps
  <2>14. CASE ReleaseStoreFails(t) \/ ReleaseStoreAgainFails(t) BY <2>14, StoreFailsSteps
  <2>15. CASE ReleasePutBack(t) BY <2>15, ReleasePutBackStep
  <2>16. CASE KeepNonpointer(t) BY <2>16, KeepNonpointerStep
  <2>17. CASE KeepNonpointerAgain(t) BY <2>17, KeepNonpointerAgainStep
  <2>18. CASE ToRaw(t) BY <2>18, ToRawStep
  <2>19. CASE ToRawMove(t) BY <2>19, ToRawMoveStep
  <2>20. CASE RawToRaw(t) BY <2>20, RawToRawStep
  <2>21. CASE LoadWeakLock(t) BY <2>21, LoadWeakLockStep
  <2>22. CASE WeakUnlock(t) BY <2>22, WeakUnlockStep
  <2>23. CASE InitWeakLock(t) BY <2>23, InitWeakLockStep
  <2>24. CASE SetWeaklyReferenced(t) BY <2>24, SetWeaklyReferencedStep
  <2>25. CASE rootDealloc(t) BY <2>25, rootDeallocStep
  <2>26. CASE clearDeallocating(t) BY <2>26, clearDeallocatingStep
  <2>27. CASE Free(t) BY <2>27, FreeStep
  <2> QED
    BY <1>4, <2>1, <2>2, <2>3, <2>4, <2>5, <2>6, <2>7, <2>8, <2>9, <2>10, <2>11, <2>12, <2>13, <2>14,
       <2>15, <2>16, <2>17, <2>18, <2>19, <2>20, <2>21, <2>22, <2>23, <2>24, <2>25, <2>26, <2>27
    DEF Step
<1> QED BY <1>1, <1>2, <1>3, <1>4 DEF Next

\* The inductive invariant holds in every reachable state.
LEMMA CoreAlways == Spec => []Core
<1>1. Init => Core BY InitCore
<1>2. Core /\ [Next]_vars => Core' BY StepCore
<1> QED BY <1>1, <1>2, PTL DEF Spec

\* Core has the rest of the invariant, and what clients see.
LEMMA CoreImplies == ASSUME Core PROVE RefCountInv /\ CountsReferences /\ HeldIsLive
<1>1. SideTableHoldsHalves
  <2> SUFFICES ASSUME lock = None, isa.nonpointer, life = "live"
               PROVE  (isa.has_sidetable_rc <=> side.rc > 0) /\ side.rc % RC_HALF = 0
    BY DEF SideTableHoldsHalves
  <2>1. ~Splitting BY DEF Splitting, Busy
  <2> QED BY <2>1 DEF Core, SideOK, NoEntry
<1>2. LockHeld BY DEF LockHeld, Core, ThreadOK
<1>3. DeallocatesOnce
  <2> SUFFICES ASSUME NEW t \in Threads, pc[t] \in {"dealloc", "clear", "free"}
               PROVE  /\ deallocator = t /\ life = "deallocating"
                      /\ pc[t] \in {"dealloc", "clear"} => rootIsDeallocating
    BY DEF DeallocatesOnce
  <2>1. deallocator = t /\ life = "deallocating" BY Widths DEF Core, ThreadOK, Deallocs, LifeOK
  <2>2. ~Moving
    <3> SUFFICES ASSUME Moving PROVE FALSE OBVIOUS
    <3>1. lock \in Threads /\ pc[lock] = "move" BY DEF Moving, Busy, Core, TypeOK
    <3>2. Changing(lock) BY <3>1 DEF Core, ThreadOK, Placed, Changing
    <3> QED BY <2>1, <3>1, <3>2, ChangerFacts, Widths
  <2>3. isa.nonpointer => isDeallocating(isa) BY <2>1 DEF Core, LifeOK
  <2>4. ~isa.nonpointer /\ pc[t] # "free" => side.deallocating BY <2>1, <2>2 DEF Core, LifeOK
  <2> QED BY <2>1, <2>3, <2>4 DEF rootIsDeallocating
<1>4. CountsReferences
  <2> SUFFICES ASSUME life = "live", lock = None, ~Pinned(side)
               PROVE  rootRetainCount = Cardinality(OwnedRefs)
    BY DEF CountsReferences
  <2>1. InTransit = 0 BY DEF InTransit
  <2>2. Total = Cardinality(OwnedRefs) BY DEF Core, CountOK
  <2>3. isa.nonpointer /\ ~isa.has_sidetable_rc => side.rc = 0 BY DEF Core, SideOK, NoEntry
  <2> QED BY <2>1, <2>2, <2>3, CountFacts DEF rootRetainCount
<1>5. HeldIsLive BY DEF HeldIsLive, Core, ThreadOK, Deallocs
<1> QED BY <1>1, <1>2, <1>3, <1>4, <1>5 DEF Core, RefCountInv, ThreadOK

\* The counts keep their width, the side table is touched under its lock and holds
\* halves of the inline count, and -dealloc runs once and leaves nothing behind
\* (rootRetain, rootRelease, changeIsa, clearDeallocating), for any number of threads.
THEOREM RefCountInvariant == Spec => []RefCountInv
BY CoreAlways, CoreImplies, PTL

\* rootRetainCount is the number of references the program holds, whatever spills,
\* borrows and isa changes went before.
THEOREM RefCountCounts == Spec => []CountsReferences
BY CoreAlways, CoreImplies, PTL

\* No -dealloc begins while another thread holds the object (rootRelease,
\* rootTryRetain).
THEOREM RefCountHeldIsLive == Spec => []HeldIsLive
BY CoreAlways, CoreImplies, PTL

\* The spills, borrows, moves and retries of rootRetain, rootRelease and changeIsa
\* cannot be seen from outside: together they implement one count that goes up and
\* down by one, is pinned or begins the one deallocation.
THEOREM RefCountIsAtomic == Spec => CountIsAtomic
<1>1. Init => Abstract!Init
  <2> SUFFICES ASSUME Init PROVE Represented = 1 /\ life = "live" BY DEF Abstract!Init
  <2>1. Core /\ Cardinality(OwnedRefs) = 1 BY InitCore, InitRefs
  <2>2. life = "live" /\ ~Pinned(side) BY Widths DEF Init, NoEntry, Pinned
  <2> QED BY <2>1, <2>2, RepresentedIs DEF RepresentedOK
<1>2. Core /\ [Next]_vars => [Abstract!Next]_<<Represented, life>>
  <2> SUFFICES ASSUME Core, [Next]_vars PROVE [Abstract!Next]_<<Represented, life>> OBVIOUS
  <2>1. Shape BY ShapeOfStep
  <2>2. Core' BY StepCore
  <2> QED BY <2>1, <2>2, AbstractStep
<1> QED BY <1>1, <1>2, CoreAlways, PTL DEF Spec, CountIsAtomic, Abstract!Spec, Abstract!vars
=============================================================================
