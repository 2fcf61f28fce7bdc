--------------------------- MODULE RefCountSteps ----------------------------
(***************************************************************************)
(* Proof that the count of references survives every interleaving, first   *)
(* part: what the invariant says of the count, the calls, and a lemma for  *)
(* each step: those that change no count, the retains, the releases, the   *)
(* side table of a raw isa, the moves of the count, the end of the object, *)
(* and what each does to the abstract count.                               *)
(***************************************************************************)
EXTENDS RefCount, TLAPS

\* The provers' time limits, for slow machines.
USE SMTT(30), ZenonT(30)

(***************************************************************************)
(* Halves of the count.                                                    *)
(***************************************************************************)
\* Division by a half of the count leaves a remainder below it.
LEMMA DivMod ==
  ASSUME NEW h \in Nat \ {0}, NEW x \in Int
  PROVE  x = h * (x \div h) + (x % h) /\ (x % h) \in 0..(h - 1) /\ (x \div h) \in Int
OBVIOUS

\* One half or more is at least a half.
LEMMA AtLeastOne ==
  ASSUME NEW h \in Nat \ {0}, NEW d \in Int, d >= 1 PROVE h * d >= h
OBVIOUS

\* Quotient and remainder are unique.
LEMMA OneRemainder ==
  ASSUME NEW h \in Nat \ {0}, NEW q \in Int, NEW r \in 0..(h - 1), NEW p \in Int, NEW s \in 0..(h - 1),
         h * q + r = h * p + s
  PROVE  r = s
<1>1. h * (q - p) = s - r /\ h * (p - q) = r - s OBVIOUS
<1>2. CASE q - p >= 1 BY <1>1, <1>2, h * (q - p) >= h, AtLeastOne
<1>3. CASE p - q >= 1 BY <1>1, <1>3, h * (p - q) >= h, AtLeastOne
<1>4. CASE p = q BY <1>4
<1> QED BY <1>2, <1>3, <1>4

\* A number of halves leaves no remainder.
LEMMA Multiple ==
  ASSUME NEW h \in Nat \ {0}, NEW y \in Int, NEW q \in Int, y = h * q PROVE y % h = 0
<1> DEFINE d == y \div h
           m == y % h
<1>1. y = h * d + m /\ m \in 0..(h - 1) /\ d \in Int BY DivMod, ZenonT(30)
<1>2. 0 \in 0..(h - 1) OBVIOUS
<1>3. h * d + m = h * q + 0 BY <1>1
<1> HIDE DEF d, m
<1>4. m = 0 BY <1>1, <1>2, <1>3, OneRemainder, ZenonT(30)
<1> QED BY <1>4 DEF m

\* A half added to halves, or taken from them, leaves halves.
LEMMA Halves ==
  ASSUME NEW h \in Nat \ {0}, NEW x \in Nat, x % h = 0
  PROVE  (x + h) % h = 0 /\ (x - h) % h = 0 /\ (x > 0 => x >= h)
<1>1. x = h * (x \div h) /\ (x \div h) \in Int BY DivMod
<1>2. PICK q \in Int : x = h * q BY <1>1
<1>3. (x + h) % h = 0
  <2> DEFINE y == x + h
             p == q + 1
  <2>1. y \in Int /\ p \in Int /\ y = h * p BY <1>2
  <2> HIDE DEF y, p
  <2>2. y % h = 0 BY <2>1, Multiple
  <2> QED BY <2>2 DEF y
<1>4. (x - h) % h = 0
  <2> DEFINE y == x - h
             p == q - 1
  <2>1. y \in Int /\ p \in Int /\ y = h * p BY <1>2
  <2> HIDE DEF y, p
  <2>2. y % h = 0 BY <2>1, Multiple
  <2> QED BY <2>2 DEF y
<1>5. x > 0 => x >= h OBVIOUS
<1> QED BY <1>3, <1>4, <1>5

\* A record update is beyond the types that the SMT translation infers. With this
\* fact at hand it infers none, which is quicker.
LEMMA Untyped == \A r : [r EXCEPT !.field = r.field] = [r EXCEPT !.field = r.field]
OBVIOUS

USE Untyped

(***************************************************************************)
(* The number of references.                                               *)
(***************************************************************************)
Refs(f) == UNION {{t} \X (1..f[t]) : t \in Threads}

\* g is f with one reference more, or less, for t.
OneMore(f, g, t) == \A u \in Threads : g[u] = IF u = t THEN f[u] + 1 ELSE f[u]
OneLess(f, g, t) == \A u \in Threads : g[u] = IF u = t THEN f[u] - 1 ELSE f[u]

\* What the steps need of the number of references: it is finite and less than a
\* side table can count, it follows what the threads hold, and it is 0 when none
\* holds any. RefCountProofs derives it from the theorems on finite sets.
CountingLaws ==
  /\ \A f \in [Threads -> Nat] : (\A t \in Threads : f[t] <= MaxOwn) =>
       IsFiniteSet(Refs(f)) /\ Cardinality(Refs(f)) \in Nat /\ Cardinality(Refs(f)) < PINNED
  /\ \A f, g \in [Threads -> Nat] : \A t \in Threads : IsFiniteSet(Refs(f)) =>
       /\ OneMore(f, g, t) =>
            IsFiniteSet(Refs(g)) /\ Cardinality(Refs(g)) = Cardinality(Refs(f)) + 1
       /\ f[t] > 0 /\ OneLess(f, g, t) =>
            IsFiniteSet(Refs(g)) /\ Cardinality(Refs(g)) = Cardinality(Refs(f)) - 1
  /\ \A f \in [Threads -> Nat] : IsFiniteSet(Refs(f)) =>
       (Cardinality(Refs(f)) = 0 <=> \A t \in Threads : f[t] = 0)

\* A bounded number of references is finite, and less than a side table can count.
LEMMA RefsFew ==
  ASSUME CountingLaws, NEW f \in [Threads -> Nat], \A t \in Threads : f[t] <= MaxOwn
  PROVE  IsFiniteSet(Refs(f)) /\ Cardinality(Refs(f)) \in Nat /\ Cardinality(Refs(f)) < PINNED
BY DEF CountingLaws

\* A reference more is one more.
LEMMA RefsUp ==
  ASSUME CountingLaws, NEW f \in [Threads -> Nat], IsFiniteSet(Refs(f)), NEW t \in Threads,
         NEW g \in [Threads -> Nat], OneMore(f, g, t)
  PROVE  IsFiniteSet(Refs(g)) /\ Cardinality(Refs(g)) = Cardinality(Refs(f)) + 1
BY DEF CountingLaws

\* A reference less is one less.
LEMMA RefsDown ==
  ASSUME CountingLaws, NEW f \in [Threads -> Nat], IsFiniteSet(Refs(f)), NEW t \in Threads, f[t] > 0,
         NEW g \in [Threads -> Nat], OneLess(f, g, t)
  PROVE  IsFiniteSet(Refs(g)) /\ Cardinality(Refs(g)) = Cardinality(Refs(f)) - 1
BY DEF CountingLaws

\* There is no reference when nobody holds one, and somebody who does is counted.
LEMMA RefsNone ==
  ASSUME CountingLaws, NEW f \in [Threads -> Nat], IsFiniteSet(Refs(f))
  PROVE  Cardinality(Refs(f)) = 0 <=> \A t \in Threads : f[t] = 0
BY DEF CountingLaws

\* The references of the specification are those that own gives.
LEMMA RefsOwned == OwnedRefs = Refs(own) /\ OwnedRefs' = Refs(own')
BY DEF OwnedRefs, Refs

(***************************************************************************)
(* The invariant, by threads.                                              *)
(***************************************************************************)
\* The widths of the two counts, as the constants' assumption gives them.
LEMMA Widths ==
  /\ RC_HALF \in Nat /\ RC_HALF >= 2 /\ ExtraMax \in Nat /\ ExtraMax = 2 * RC_HALF - 1
  /\ PINNED \in Nat /\ PINNED >= 1 /\ SideMod \in Nat /\ SideMod = 2 * PINNED /\ MaxOwn \in Nat
  /\ None \notin Threads /\ None \notin AllOps
<1>1. RC_HALF \in Int /\ PINNED \in Int BY RefCountAssumption DEF RC_HALF, PINNED
<1> QED BY <1>1, RefCountAssumption

ThreadOK(t) == Placed(t) /\ Owns(t) /\ Sees(t) /\ Deallocs(t) /\ (NeedsLock(t) => lock = t)

\* RefCountInv without what follows from the rest.
Core ==
  /\ CountingLaws
  /\ TypeOK /\ FreedIsForgotten /\ OneChanger /\ SideOK /\ LifeOK /\ CountOK
  /\ \A t \in Threads : ThreadOK(t)

\* A step of t leaves the call that u is in alone.
SameThread(u) ==
  /\ pc'[u] = pc[u] /\ op'[u] = op[u] /\ own'[u] = own[u] /\ oldisa'[u] = oldisa[u]
  /\ newisa'[u] = newisa[u] /\ locked'[u] = locked[u] /\ borrow'[u] = borrow[u]

\* What u needs that a step of another thread leaves alone: a raw isa stays raw,
\* and under u's lock the isa, the side table and the weak variable stay.
Leaves(u) ==
  /\ SameThread(u)
  /\ deallocator' = u <=> deallocator = u
  /\ isa'.nonpointer => isa.nonpointer
  /\ Changing(u) => isa'.nonpointer = isa.nonpointer
  /\ lock = u =>
       /\ lock' = u /\ side' = side /\ location' = location
       /\ isa'.nonpointer = isa.nonpointer /\ isa'.has_sidetable_rc = isa.has_sidetable_rc
       /\ isa.weakly_referenced => isa'.weakly_referenced
  /\ pc[u] = "free" => ~location' /\ side' = NoEntry
  /\ own[u] > 0 /\ deallocator # u => life' = "live"

\* A step that leaves u what it needs keeps what the invariant says of u.
LEMMA OthersStay ==
  ASSUME Core, NEW u \in Threads, Leaves(u)
  PROVE  ThreadOK(u)'
<1> USE DEF Leaves, SameThread
<1>0. ThreadOK(u) BY DEF Core
<1>1. Placed(u)' BY <1>0 DEF ThreadOK, Placed
<1>2. Owns(u)' BY <1>0 DEF ThreadOK, Owns
<1>3. Sees(u)' BY <1>0 DEF ThreadOK, Sees, NeedsLock, Changing
<1>4. Deallocs(u)' BY <1>0 DEF ThreadOK, Deallocs
<1>5. (NeedsLock(u) => lock = u)' BY <1>0 DEF ThreadOK, NeedsLock
<1> QED BY <1>1, <1>2, <1>3, <1>4, <1>5 DEF ThreadOK

\* A step of t keeps Core if it leaves the others what they need, and t's own
\* call, the counts and the life of the object are as they should be.
LEMMA StepOfOne ==
  ASSUME Core, NEW t \in Threads, TypeOK', ThreadOK(t)', SideOK', LifeOK', CountOK',
         \A u \in Threads \ {t} : Leaves(u),
         Changing(t)' => Changing(t) \/ \A u \in Threads : ~Changing(u),
         life' = "freed" => ~location' /\ side' = NoEntry /\ \A u \in Threads : Away(u)'
  PROVE  Core'
<1>1. \A u \in Threads : ThreadOK(u)' BY OthersStay
<1>2. OneChanger'
  <2>1. \A u \in Threads \ {t} : Changing(u)' <=> Changing(u) BY DEF Leaves, SameThread, Changing
  <2>2. OneChanger BY DEF Core
  <2> QED BY <2>1, <2>2 DEF OneChanger
<1>3. FreedIsForgotten' BY DEF FreedIsForgotten
<1> QED BY <1>1, <1>2, <1>3 DEF Core

(***************************************************************************)
(* Steps that change no count.                                             *)
(***************************************************************************)
Heavy == {"add", "borrow", "again", "putback", "move"}
LockStep(t) == lock' = lock \/ (lock = t /\ lock' = None) \/ (lock = None /\ lock' = t)

\* What the lock's owner is doing is the same after a light step of t.
LEMMA LightStep ==
  ASSUME TypeOK, NEW t \in Threads, LockStep(t), pc[t] \notin Heavy, pc'[t] \notin Heavy,
         \A u \in Threads \ {t} : SameThread(u)
  PROVE  /\ Splitting' = Splitting /\ Moving' = Moving
         /\ (IF lock = None THEN 0 ELSE Carried(lock))' = IF lock = None THEN 0 ELSE Carried(lock)
<1>0. None \notin Threads BY Widths
<1>1. CASE lock' = lock /\ lock \in Threads \ {t}
  <2>1. pc'[lock'] = pc[lock] /\ borrow'[lock'] = borrow[lock] /\ oldisa'[lock'] = oldisa[lock] /\ lock # None
    BY <1>0, <1>1 DEF SameThread
  <2> QED BY <1>1, <2>1 DEF Splitting, Moving, Busy, Carried
<1>2. CASE lock \in {t, None} /\ lock' \in {t, None}
  BY <1>0, <1>2 DEF Splitting, Moving, Busy, Carried, Heavy
<1> QED BY <1>1, <1>2 DEF LockStep, TypeOK

\* A step that changes neither object nor references, and is no part of a spill, a
\* borrow or a move, keeps the invariant if the caller itself is as it should be.
LEMMA QuietStep ==
  ASSUME Core, NEW t \in Threads, UNCHANGED <<isa, side, location, life, deallocator, own>>,
         TypeOK', ThreadOK(t)', LockStep(t), pc[t] \notin Heavy, pc'[t] \notin Heavy, pc[t] # "free",
         \A u \in Threads \ {t} : SameThread(u),
         Changing(t)' => Changing(t) \/ \A u \in Threads : ~Changing(u),
         life = "freed" => Away(t)'
  PROVE  Core'
<1>0. None \notin Threads BY Widths
<1>1. /\ Splitting' = Splitting /\ Moving' = Moving
      /\ (IF lock = None THEN 0 ELSE Carried(lock))' = IF lock = None THEN 0 ELSE Carried(lock)
  BY LightStep DEF Core
<1>2. SideOK' BY <1>1 DEF Core, SideOK
<1>3. LifeOK' BY <1>1 DEF Core, LifeOK, SameThread, isDeallocating, TypeOK
<1>4. Total' = Total BY <1>1 DEF Total
<1>5. CountOK'
  <2>1. OwnedRefs' = OwnedRefs BY RefsOwned
  <2> QED BY <1>4, <2>1 DEF Core, CountOK, Pinned
<1>6. \A u \in Threads \ {t} : Leaves(u)
  BY <1>0 DEF Leaves, LockStep, Core, ThreadOK, Sees, Deallocs
<1>7. life' = "freed" => ~location' /\ side' = NoEntry /\ \A u \in Threads : Away(u)'
  BY DEF Core, FreedIsForgotten, Away, SameThread
<1> QED BY <1>2, <1>3, <1>5, <1>6, <1>7, StepOfOne

(***************************************************************************)
(* What the invariant says of the count.                                   *)
(***************************************************************************)
InTransit == IF lock = None THEN 0 ELSE Carried(lock)

\* What is in transit: half the count in a spill or a borrow, what extra_rc held in
\* a move, else nothing.
LEMMA TransitFacts ==
  ASSUME Core
  PROVE  /\ Splitting => InTransit = RC_HALF /\ isa.nonpointer /\ isa.has_sidetable_rc
         /\ Moving => ~isa.nonpointer
         /\ ~Splitting /\ ~Moving => InTransit = 0
         /\ InTransit \in Int
<1>1. lock = None \/ (lock \in Threads /\ lock # None /\ ThreadOK(lock))
  BY Widths DEF Core, TypeOK
<1>2. CASE lock = None BY <1>2 DEF Splitting, Moving, Busy, InTransit
<1>3. CASE lock \in Threads /\ lock # None /\ ThreadOK(lock)
  <2>1. Splitting => InTransit = RC_HALF /\ isa.nonpointer /\ isa.has_sidetable_rc
    BY <1>3 DEF Splitting, Busy, InTransit, Carried, ThreadOK, Sees
  <2>2. Moving => ~isa.nonpointer /\ InTransit = oldisa[lock].extra_rc - 1
    BY <1>3 DEF Moving, Busy, InTransit, Carried, ThreadOK, Sees
  <2>3. ~Splitting /\ ~Moving => InTransit = 0
    BY <1>3 DEF Splitting, Moving, Busy, InTransit, Carried
  <2>4. RC_HALF \in Int /\ oldisa[lock].extra_rc - 1 \in Int
    BY <1>3, Widths DEF Core, TypeOK, Isas
  <2> QED BY <2>1, <2>2, <2>3, <2>4
<1> QED BY <1>1, <1>2, <1>3

\* The references are fewer than PINNED, and Total is the sum of its parts.
LEMMA CountFacts ==
  ASSUME Core
  PROVE  /\ IsFiniteSet(OwnedRefs) /\ Cardinality(OwnedRefs) \in Nat /\ Cardinality(OwnedRefs) < PINNED
         /\ isa.extra_rc \in 0..ExtraMax /\ side.rc \in 0..(SideMod - 1)
         /\ isa.nonpointer => Total = isa.extra_rc + side.rc + InTransit /\ ~Pinned(side)
         /\ ~isa.nonpointer => Total = 1 + side.rc + InTransit
<1>1. own \in [Threads -> Nat] /\ \A t \in Threads : own[t] <= MaxOwn
  BY DEF Core, TypeOK, ThreadOK, Owns
<1>2. IsFiniteSet(OwnedRefs) /\ Cardinality(OwnedRefs) \in Nat /\ Cardinality(OwnedRefs) < PINNED
  <2>1. CountingLaws BY DEF Core
  <2> QED BY <1>1, <2>1, RefsFew, RefsOwned
<1>3. isa.extra_rc \in 0..ExtraMax /\ side.rc \in 0..(SideMod - 1) BY DEF Core, TypeOK, Isas, Sides
<1>4. isa.nonpointer => ~Pinned(side) BY <1>3, Widths DEF Core, SideOK, Pinned
<1>5. Total = (IF isa.nonpointer THEN isa.extra_rc ELSE 1) + side.rc + InTransit
  BY DEF Total, InTransit
<1> QED BY <1>2, <1>3, <1>4, <1>5

\* A live object with a nonpointer isa is not marked as deallocating.
LEMMA LiveIsNotDying ==
  ASSUME Core, life = "live", isa.nonpointer
  PROVE  ~isDeallocating(isa)
<1> SUFFICES ASSUME isDeallocating(isa) PROVE FALSE OBVIOUS
<1>1. isa.extra_rc = 0 /\ ~isa.has_sidetable_rc BY DEF isDeallocating
<1>2. side = NoEntry BY <1>1 DEF Core, SideOK
<1>3. side.rc = 0 BY <1>2 DEF NoEntry
<1>4. InTransit = 0 BY <1>1, TransitFacts
<1>5. Total > 0 BY CountFacts DEF Core, CountOK
<1> QED BY <1>1, <1>3, <1>4, <1>5, CountFacts

\* What a thread that holds the object, or runs its -dealloc, finds in the isa.
LEMMA LoadedIsa ==
  ASSUME Core, NEW t \in Threads, own[t] > 0 \/ deallocator = t, isa.nonpointer
  PROVE  isDeallocating(isa) <=> deallocator = t
<1>1. CASE deallocator = t
  <2>1. life = "deallocating" BY <1>1, Widths DEF Core, LifeOK
  <2> QED BY <1>1, <2>1 DEF Core, LifeOK
<1>2. CASE deallocator # t
  <2>1. life = "live" BY <1>2 DEF Core, ThreadOK, Deallocs
  <2> QED BY <1>2, <2>1, LiveIsNotDying
<1> QED BY <1>1, <1>2

\* Nobody is in the middle of a call on a freed object.
LEMMA NotFreed ==
  ASSUME Core, NEW t \in Threads,
         \/ ~Away(t)
         \/ own[t] > 0 \/ deallocator = t
  PROVE  life # "freed"
<1>1. ThreadOK(t) BY DEF Core
<1> QED BY <1>1, Widths DEF Core, FreedIsForgotten, ThreadOK, Deallocs, LifeOK

(***************************************************************************)
(* Calls.                                                                  *)
(***************************************************************************)
\* A call that begins on an object the caller holds, or deallocates, loads the isa.
LEMMA EnterStep ==
  ASSUME Core, NEW t \in Threads, NEW o \in AllOps, Enter(t, o),
         pc[t] \in {"idle", "dealloc"},
         o \in {"retain", "release", "toNonpointer", "toRaw"},
         own[t] > 0 \/ deallocator = t,
         o = "release" => own[t] > 0, o = "retain" => own[t] < MaxOwn,
         o \in {"toNonpointer", "toRaw"} => \A u \in Threads : ~Changing(u)
  PROVE  Core'
<1> USE DEF Enter, objectVars, lifeVars
<1>0. ThreadOK(t) BY DEF Core
<1>1. TypeOK' BY DEF Core, TypeOK, PCs
<1>2. pc'[t] = "loop" /\ op'[t] = o /\ oldisa'[t] = isa /\ ~locked[t] /\ newisa[t] = RawIsa
  BY <1>0, Widths DEF Core, TypeOK, ThreadOK, Placed, Sees, AllOps
<1>3. ThreadOK(t)'
  <2>1. Placed(t)' BY <1>2, Widths DEF Placed, AllOps
  <2>2. Owns(t)' BY <1>0, <1>2 DEF ThreadOK, Owns, Retaining
  <2>3. Sees(t)' BY <1>0, <1>2, LoadedIsa DEF ThreadOK, Sees
  <2>4. Deallocs(t)' BY <1>0, <1>2 DEF ThreadOK, Deallocs
  <2>5. (NeedsLock(t) => lock = t)' BY <1>2 DEF NeedsLock
  <2> QED BY <2>1, <2>2, <2>3, <2>4, <2>5 DEF ThreadOK
<1>4. \A u \in Threads \ {t} : SameThread(u) BY DEF SameThread, Core, TypeOK
<1>5. Changing(t)' => \A u \in Threads : ~Changing(u) BY <1>2 DEF Changing
<1>6. life # "freed" BY NotFreed
<1>7. pc[t] \notin Heavy /\ pc'[t] \notin Heavy /\ LockStep(t) BY <1>2 DEF Heavy, LockStep
<1> QED BY <1>1, <1>3, <1>4, <1>5, <1>6, <1>7, QuietStep

\* retain is called.
LEMMA CallRetainStep ==
  ASSUME Core, NEW t \in Threads, CallRetain(t) PROVE Core'
BY EnterStep DEF CallRetain, MayCall, AllOps

\* release is called.
LEMMA CallReleaseStep ==
  ASSUME Core, NEW t \in Threads, CallRelease(t) PROVE Core'
BY EnterStep DEF CallRelease, MayCall, AllOps

\* changeIsa is called, by one thread at a time.
LEMMA CallChangeIsaStep ==
  ASSUME Core, NEW t \in Threads, NEW o \in {"toNonpointer", "toRaw"}, CallChangeIsa(t, o) PROVE Core'
BY EnterStep DEF CallChangeIsa, MayCall, AllOps

\* objc_loadWeakRetained and objc_initWeak ask for the table lock.
LEMMA CallWeakStep ==
  ASSUME Core, NEW t \in Threads, CallLoadWeak(t) \/ CallInitWeak(t) PROVE Core'
<1> USE DEF CallLoadWeak, CallInitWeak, MayCall, objectVars, lifeVars, localVars
<1>0. ThreadOK(t) BY DEF Core
<1>1. TypeOK' BY DEF Core, TypeOK, PCs, AllOps
<1>2. /\ pc'[t] = "weakLock" /\ op'[t] \in {"loadWeak", "initWeak"} /\ ~locked[t] /\ newisa[t] = RawIsa
      /\ op'[t] = "loadWeak" => own[t] < MaxOwn
      /\ op'[t] = "initWeak" => pc[t] = "idle" /\ own[t] > 0
      /\ life # "freed"
  <2>1. op[t] = None /\ ~locked[t] /\ newisa[t] = RawIsa
    BY <1>0, Widths DEF ThreadOK, Placed, Sees, AllOps
  <2>2. life # "freed" BY NotFreed DEF Core, FreedIsForgotten
  <2> QED BY <2>1, <2>2 DEF Core, TypeOK
<1>3. ThreadOK(t)'
  <2>1. Placed(t)' BY <1>2, Widths DEF Placed, AllOps
  <2>2. Owns(t)' BY <1>0, <1>2 DEF ThreadOK, Owns, Retaining, Deallocs
  <2>3. Sees(t)' BY <1>0, <1>2 DEF Sees
  <2>4. Deallocs(t)' BY <1>0, <1>2 DEF ThreadOK, Deallocs
  <2>5. (NeedsLock(t) => lock = t)' BY <1>2 DEF NeedsLock
  <2> QED BY <2>1, <2>2, <2>3, <2>4, <2>5 DEF ThreadOK
<1>4. \A u \in Threads \ {t} : SameThread(u) BY DEF SameThread, Core, TypeOK
<1>5. ~Changing(t)' BY <1>2 DEF Changing
<1>7. pc[t] \notin Heavy /\ pc'[t] \notin Heavy /\ LockStep(t) BY <1>2 DEF Heavy, LockStep
<1> QED BY <1>1, <1>2, <1>3, <1>4, <1>5, <1>7, QuietStep

\* A reference that changes hands is still one reference.
LEMMA GiveKeeps ==
  ASSUME Core, NEW t \in Threads, NEW u \in Threads, Give(t, u)
  PROVE  /\ own' \in [Threads -> Nat] /\ own'[u] = own[u] + 1 /\ own'[t] = own[t] - 1
         /\ \A v \in Threads \ {t, u} : own'[v] = own[v]
         /\ Cardinality(OwnedRefs') = Cardinality(OwnedRefs)
<1> USE DEF Give
<1>1. own \in [Threads -> Nat] /\ own[t] > 0 BY DEF Core, TypeOK
<1> DEFINE mid == [own EXCEPT ![t] = @ - 1]
<1>2. mid \in [Threads -> Nat] /\ mid[u] = own[u] /\ mid[t] = own[t] - 1 BY <1>1
<1>3. own' = [mid EXCEPT ![u] = @ + 1] BY <1>1, ZenonT(30)
<1>4. own' \in [Threads -> Nat] /\ own'[u] = own[u] + 1 /\ own'[t] = own[t] - 1
      /\ \A v \in Threads \ {t, u} : own'[v] = own[v]
  BY <1>1, <1>2, <1>3
<1>5. Cardinality(OwnedRefs') = Cardinality(OwnedRefs)
  <2>1. IsFiniteSet(Refs(own)) /\ Cardinality(Refs(own)) \in Nat BY CountFacts, RefsOwned
  <2>2. OneLess(own, mid, t) /\ CountingLaws BY <1>1 DEF OneLess, Core
  <2>3. \A v \in Threads : own'[v] = IF v = u THEN mid[v] + 1 ELSE mid[v] BY <1>2, <1>3
  <2> HIDE DEF mid
  <2>4. IsFiniteSet(Refs(mid)) /\ Cardinality(Refs(mid)) = Cardinality(Refs(own)) - 1
    BY <1>1, <1>2, <2>1, <2>2, RefsDown
  <2>5. Cardinality(Refs(own')) = Cardinality(Refs(mid)) + 1
    <3> DEFINE g == own'
    <3>1. g \in [Threads -> Nat] /\ OneMore(mid, g, u) BY <1>4, <2>3 DEF OneMore
    <3> HIDE DEF g
    <3>2. Cardinality(Refs(g)) = Cardinality(Refs(mid)) + 1 BY <1>2, <2>2, <2>4, <3>1, RefsUp
    <3> QED BY <3>2 DEF g
  <2> QED BY <2>1, <2>4, <2>5, RefsOwned
<1> QED BY <1>4, <1>5

\* A thread gives a reference to another: what one loses the other gains.
LEMMA GiveStep ==
  ASSUME Core, NEW t \in Threads, NEW u \in Threads, Give(t, u) PROVE Core'
<1> USE DEF Give, objectVars, lifeVars, localVars
<1>0. ThreadOK(t) /\ ThreadOK(u) BY DEF Core
<1>1. own \in [Threads -> Nat] /\ own[t] > 0 BY DEF Core, TypeOK
<1>4. own' \in [Threads -> Nat] /\ own'[u] = own[u] + 1 /\ own'[t] = own[t] - 1
      /\ \A v \in Threads \ {t, u} : own'[v] = own[v]
  BY GiveKeeps, ZenonT(30)
<1>5. Cardinality(OwnedRefs') = Cardinality(OwnedRefs) BY GiveKeeps, ZenonT(30)
<1>6. TypeOK' BY <1>4 DEF Core, TypeOK
<1>7. op[t] = None /\ op[u] = None /\ deallocator # t /\ deallocator # u /\ life = "live"
  BY <1>0, <1>1, Widths DEF ThreadOK, Placed, Deallocs
<1>8. ASSUME NEW v \in Threads PROVE ThreadOK(v)'
  <2>0. ThreadOK(v) BY DEF Core
  <2>1. Placed(v)' BY <2>0 DEF ThreadOK, Placed
  <2>2. Owns(v)'
    <3>1. CASE v \in {t, u}
      <4>1. own'[v] <= MaxOwn BY <1>0, <1>1, <1>4, <3>1, Widths DEF ThreadOK, Owns, Core, TypeOK
      <4>2. op[v] = None /\ pc[v] = "idle" BY <1>7, <3>1
      <4> QED BY <4>1, <4>2, Widths DEF Owns, AllOps, Retaining
    <3>2. CASE v \notin {t, u} BY <1>4, <2>0, <3>2 DEF ThreadOK, Owns
    <3> QED BY <3>1, <3>2
  <2>3. Sees(v)' BY <2>0 DEF ThreadOK, Sees, Changing
  <2>4. Deallocs(v)' BY <1>7, <2>0 DEF ThreadOK, Deallocs
  <2>5. (NeedsLock(v) => lock = v)' BY <2>0 DEF ThreadOK, NeedsLock
  <2> QED BY <2>1, <2>2, <2>3, <2>4, <2>5 DEF ThreadOK
<1>9. SideOK' /\ LifeOK' /\ OneChanger' /\ FreedIsForgotten'
  BY <1>7 DEF Core, SideOK, LifeOK, OneChanger, Changing, FreedIsForgotten, Away, Splitting, Moving, Busy
<1>10. CountOK' BY <1>5 DEF Core, CountOK, Pinned, Total, Carried
<1> QED BY <1>6, <1>8, <1>9, <1>10 DEF Core

(***************************************************************************)
(* Inside the loops: the isa is loaded again, the lock is taken.           *)
(***************************************************************************)
\* A compare-and-swap that failed, a variant that starts again: the isa is loaded
\* again, perhaps under the lock.
LEMMA ReloadStep ==
  ASSUME Core, NEW t \in Threads, pc[t] = "loop", oldisa' = [oldisa EXCEPT ![t] = isa],
         UNCHANGED <<isa, side, location, life, deallocator, own, pc, op, newisa, borrow>>,
         full' \in [Threads -> BOOLEAN], locked' \in [Threads -> BOOLEAN],
         \A u \in Threads \ {t} : locked'[u] = locked[u],
         locked'[t] => lock' = t, lock' = lock \/ (lock = None /\ lock' = t)
  PROVE  Core'
<1>0. ThreadOK(t) BY DEF Core
<1>1. TypeOK' BY ZenonT(30) DEF Core, TypeOK
<1>2. oldisa'[t] = isa BY DEF Core, TypeOK
<1>3. ThreadOK(t)'
  <2>1. Placed(t)' BY <1>0 DEF ThreadOK, Placed
  <2>2. Owns(t)' BY <1>0 DEF ThreadOK, Owns
  <2>3. Sees(t)'
    <3>1. op[t] \in {"retain", "release"} => own[t] > 0 \/ deallocator = t BY <1>0 DEF ThreadOK, Owns
    <3>2. op[t] \in {"retain", "release"} /\ isa.nonpointer => (isDeallocating(isa) <=> deallocator = t)
      BY <3>1, LoadedIsa
    <3>3. deallocator = t /\ isa.nonpointer => isDeallocating(isa) BY LoadedIsa
    <3> QED BY <1>0, <1>2, <3>2, <3>3 DEF ThreadOK, Sees, Changing
  <2>4. Deallocs(t)' BY <1>0 DEF ThreadOK, Deallocs
  <2>5. (NeedsLock(t) => lock = t)' BY <1>0, Widths DEF ThreadOK, NeedsLock
  <2> QED BY <2>1, <2>2, <2>3, <2>4, <2>5 DEF ThreadOK
<1>4. \A u \in Threads \ {t} : SameThread(u) BY DEF SameThread, Core, TypeOK
<1>5. Changing(t)' => Changing(t) BY DEF Changing
<1>6. life # "freed" BY NotFreed DEF Away
<1>7. pc[t] \notin Heavy /\ pc'[t] \notin Heavy /\ LockStep(t) BY DEF Heavy, LockStep
<1> QED BY <1>1, <1>3, <1>4, <1>5, <1>6, <1>7, QuietStep

\* A failed exchange, a full count or an underflow sends the loop round again, the
\* isa loaded anew.
LEMMA ReloadSteps ==
  ASSUME Core, NEW t \in Threads,
         \/ RetainOverflow(t) \/ RetainAgain(t) \/ ReleaseAgain(t) \/ ReleaseUnderflow(t)
         \/ ReleaseLock(t) \/ ChangeIsaAgain(t) \/ SetWeaklyReferencedAgain(t)
  PROVE  Core'
<1> USE DEF objectVars, lifeVars, At
<1>0. ThreadOK(t) /\ full \in [Threads -> BOOLEAN] /\ locked \in [Threads -> BOOLEAN] BY DEF Core, TypeOK
<1>1. pc[t] = "loop" => (locked[t] \/ op[t] = "loadWeak" => lock = t) BY <1>0 DEF ThreadOK, NeedsLock
<1>2. CASE RetainOverflow(t) BY <1>0, <1>1, <1>2, ReloadStep, ZenonT(30) DEF RetainOverflow
<1>3. CASE RetainAgain(t)
  <2>1. locked'[t] => lock = t BY <1>0, <1>1, <1>3 DEF RetainAgain
  <2>2. locked' \in [Threads -> BOOLEAN] BY <1>0, <1>3 DEF RetainAgain, Carry
  <2> QED BY <1>0, <1>3, <2>1, <2>2, ReloadStep, ZenonT(30) DEF RetainAgain
<1>4. CASE ReleaseAgain(t) BY <1>0, <1>1, <1>4, ReloadStep, ZenonT(30) DEF ReleaseAgain
<1>5. CASE ReleaseUnderflow(t) BY <1>0, <1>1, <1>5, ReloadStep, ZenonT(30) DEF ReleaseUnderflow, Underflow
<1>6. CASE ReleaseLock(t) BY <1>0, <1>6, ReloadStep, ZenonT(30) DEF ReleaseLock, Underflow
<1>7. CASE ChangeIsaAgain(t) BY <1>0, <1>1, <1>7, ReloadStep, ZenonT(30) DEF ChangeIsaAgain
<1>8. CASE SetWeaklyReferencedAgain(t) BY <1>0, <1>1, <1>8, ReloadStep, ZenonT(30) DEF SetWeaklyReferencedAgain
<1> QED BY <1>2, <1>3, <1>4, <1>5, <1>6, <1>7, <1>8

\* The lock is taken with the old copy of the isa.
LEMMA LockSteps ==
  ASSUME Core, NEW t \in Threads, RetainLock(t) \/ ToRawLock(t)
  PROVE  Core'
<1> USE DEF RetainLock, ToRawLock, objectVars, lifeVars, At
<1>0. ThreadOK(t) BY DEF Core
<1>1. TypeOK' BY ZenonT(30) DEF Core, TypeOK
<1>2. lock = None /\ lock' = t /\ op[t] \in {"retain", "toRaw"} /\ pc[t] = "loop" OBVIOUS
<1>3. ThreadOK(t)'
  <2>1. Placed(t)' BY <1>0, <1>2 DEF ThreadOK, Placed
  <2>2. Owns(t)' BY <1>0 DEF ThreadOK, Owns
  <2>3. Sees(t)' BY <1>0, <1>2 DEF ThreadOK, Sees, Changing
  <2>4. Deallocs(t)' BY <1>0 DEF ThreadOK, Deallocs
  <2> QED BY <1>2, <2>1, <2>2, <2>3, <2>4 DEF ThreadOK
<1>4. \A u \in Threads \ {t} : SameThread(u) BY DEF SameThread, Core, TypeOK
<1>5. Changing(t)' => Changing(t) BY DEF Changing
<1>6. life # "freed" BY NotFreed DEF Away
<1>7. pc[t] \notin Heavy /\ pc'[t] \notin Heavy /\ LockStep(t) BY <1>2 DEF Heavy, LockStep
<1> QED BY <1>1, <1>3, <1>4, <1>5, <1>6, <1>7, QuietStep

\* changeIsa to another nonpointer class fails to store, and tries again.
LEMMA KeepNonpointerAgainStep ==
  ASSUME Core, NEW t \in Threads, KeepNonpointerAgain(t)
  PROVE  Core'
<1> USE DEF KeepNonpointerAgain, objectVars, lifeVars, At
<1>0. ThreadOK(t) BY DEF Core
<1>1. TypeOK' BY DEF Core, TypeOK
<1>2. oldisa'[t] = isa /\ newisa'[t] = oldisa[t] /\ op[t] = "toNonpointer" /\ pc[t] = "loop"
  BY DEF Core, TypeOK
<1>3. isa.nonpointer BY <1>0, <1>2, ZenonT(30) DEF ThreadOK, Sees, Changing
<1>4. ThreadOK(t)'
  <2>1. Placed(t)' BY <1>0 DEF ThreadOK, Placed
  <2>2. Owns(t)' BY <1>0 DEF ThreadOK, Owns
  <2>3. Sees(t)' BY <1>0, <1>2, <1>3, ZenonT(30) DEF ThreadOK, Sees, Changing
  <2>4. Deallocs(t)' BY <1>0 DEF ThreadOK, Deallocs
  <2>5. (NeedsLock(t) => lock = t)' BY <1>0 DEF ThreadOK, NeedsLock
  <2> QED BY <2>1, <2>2, <2>3, <2>4, <2>5 DEF ThreadOK
<1>5. \A u \in Threads \ {t} : SameThread(u) BY DEF SameThread, Core, TypeOK
<1>6. Changing(t)' => Changing(t) BY DEF Changing
<1>7. life # "freed" BY <1>2, NotFreed DEF Away
<1>8. pc[t] \notin Heavy /\ pc'[t] \notin Heavy /\ LockStep(t) BY <1>2 DEF Heavy, LockStep
<1> QED BY <1>1, <1>2, <1>4, <1>5, <1>6, <1>7, <1>8, QuietStep

(***************************************************************************)
(* Returning from a call.                                                  *)
(***************************************************************************)
\* A thread whose call is over, back in the client, in -dealloc or in the weak load.
LEMMA ReturnOK ==
  ASSUME Core, NEW t \in Threads, Forget(t),
         \/ pc' = [pc EXCEPT ![t] = Home(t)] /\ deallocator' = deallocator
         \/ pc' = [pc EXCEPT ![t] = "weakUnlock"] /\ deallocator' = deallocator
         \/ pc' = [pc EXCEPT ![t] = "crashed"] /\ deallocator' = deallocator
         \/ pc' = [pc EXCEPT ![t] = "dealloc"] /\ deallocator' = t,
         own'[t] <= MaxOwn, own'[t] > 0 /\ deallocator' # t => life' = "live"
  PROVE  /\ ThreadOK(t)' /\ ~Changing(t)' /\ pc'[t] \notin Heavy
         /\ pc'[t] \in {"idle", "dealloc", "weakUnlock", "crashed"}
         /\ pc' \in [Threads -> PCs] /\ op' \in [Threads -> AllOps \cup {None}]
         /\ oldisa' \in [Threads -> Isas] /\ newisa' \in [Threads -> Isas]
         /\ full' \in [Threads -> BOOLEAN] /\ locked' \in [Threads -> BOOLEAN]
         /\ borrow' \in [Threads -> Borrows]
         /\ \A u \in Threads \ {t} : own'[u] = own[u] => SameThread(u)
<1> USE DEF Forget, Home
<1>0. RawIsa \in Isas /\ NoBorrow \in Borrows BY Widths DEF RawIsa, Isas, NoBorrow, Borrows
<1>1. /\ pc' \in [Threads -> PCs] /\ op' \in [Threads -> AllOps \cup {None}]
      /\ oldisa' \in [Threads -> Isas] /\ newisa' \in [Threads -> Isas]
      /\ full' \in [Threads -> BOOLEAN] /\ locked' \in [Threads -> BOOLEAN]
      /\ borrow' \in [Threads -> Borrows]
  BY <1>0 DEF Core, TypeOK, PCs
<1>2. /\ pc'[t] \in {"idle", "dealloc", "weakUnlock", "crashed"}
      /\ op'[t] = None /\ newisa'[t] = RawIsa /\ ~locked'[t]
      /\ pc'[t] = "idle" => deallocator' # t
      /\ pc'[t] = "dealloc" => deallocator' = t
  BY DEF Core, TypeOK
<1>3. None \notin {"retain", "release", "initWeak", "toNonpointer", "toRaw", "loadWeak"}
  BY Widths DEF AllOps
<1>4. ThreadOK(t)'
  <2>1. Placed(t)' BY <1>2 DEF Placed
  <2>2. Owns(t)' BY <1>2, <1>3 DEF Owns, Retaining
  <2>3. Sees(t)' BY <1>2 DEF Sees
  <2>4. Deallocs(t)' BY <1>2 DEF Deallocs
  <2>5. (NeedsLock(t) => lock = t)' BY <1>2 DEF NeedsLock
  <2> QED BY <2>1, <2>2, <2>3, <2>4, <2>5 DEF ThreadOK
<1>5. ~Changing(t)' BY <1>2, <1>3 DEF Changing
<1>6. \A u \in Threads \ {t} : own'[u] = own[u] => SameThread(u) BY DEF SameThread, Core, TypeOK
<1> QED BY <1>1, <1>2, <1>4, <1>5, <1>6 DEF Heavy

\* A call that changed nothing returns, and unlocks the table if it holds it.
LEMMA QuietReturn ==
  ASSUME Core, NEW t \in Threads, Forget(t),
         UNCHANGED <<isa, side, location, life, deallocator, own>>,
         pc' \in {[pc EXCEPT ![t] = Home(t)], [pc EXCEPT ![t] = "weakUnlock"], [pc EXCEPT ![t] = "crashed"]},
         pc[t] \notin Heavy, pc[t] # "free", LockStep(t)
  PROVE  Core'
<1>0. ThreadOK(t) BY DEF Core
<1>1. own[t] <= MaxOwn /\ (own[t] > 0 /\ deallocator # t => life = "live")
  BY <1>0 DEF ThreadOK, Owns, Deallocs
<1>2. /\ ThreadOK(t)' /\ ~Changing(t)' /\ pc'[t] \notin Heavy
      /\ pc'[t] \in {"idle", "dealloc", "weakUnlock", "crashed"}
      /\ pc' \in [Threads -> PCs] /\ op' \in [Threads -> AllOps \cup {None}]
      /\ oldisa' \in [Threads -> Isas] /\ newisa' \in [Threads -> Isas]
      /\ full' \in [Threads -> BOOLEAN] /\ locked' \in [Threads -> BOOLEAN]
      /\ borrow' \in [Threads -> Borrows]
      /\ \A u \in Threads \ {t} : SameThread(u)
  BY <1>1, ReturnOK
<1>3. TypeOK' BY <1>2 DEF Core, TypeOK, LockStep
<1>4. life = "freed" => Away(t)'
  <2>1. life = "freed" => deallocator # t BY Widths DEF Core, LifeOK
  <2>2. deallocator # t => pc'[t] # "dealloc" BY DEF Home, Core, TypeOK
  <2> QED BY <1>2, <2>1, <2>2 DEF Away
<1> QED BY <1>2, <1>3, <1>4, QuietStep

\* changeIsa finds a nonpointer isa that may stay.
LEMMA KeepNonpointerStep ==
  ASSUME Core, NEW t \in Threads, KeepNonpointer(t) PROVE Core'
BY QuietReturn, ZenonT(30) DEF KeepNonpointer, At, Return, objectVars, lifeVars, LockStep, Heavy

\* A raw isa is replaced by a raw isa.
LEMMA RawToRawStep ==
  ASSUME Core, NEW t \in Threads, RawToRaw(t) PROVE Core'
<1> USE DEF RawToRaw, At, Return, lifeVars
<1>0. ThreadOK(t) BY DEF Core
<1>1. newisa[t] = RawIsa BY <1>0 DEF ThreadOK, Sees
<1>2. isa = RawIsa BY DEF Core, SideOK
<1>3. LockStep(t) BY <1>0 DEF ThreadOK, NeedsLock, UnlockIf, LockStep
<1> QED BY <1>1, <1>2, <1>3, QuietReturn, ZenonT(30) DEF Heavy

\* A try-retain of a dying object fails.
LEMMA RetainDyingFails ==
  ASSUME Core, NEW t \in Threads, RetainDying(t), op[t] = "loadWeak" PROVE Core'
<1> USE DEF RetainDying, At, EndRetain, ReturnTry, objectVars, lifeVars
<1>0. ThreadOK(t) BY DEF Core
<1>1. LockStep(t) BY <1>0 DEF ThreadOK, NeedsLock, UnlockIf, LockStep
<1> QED BY <1>1, QuietReturn DEF Heavy

\* sidetable_tryRetain refuses an object that is being deallocated.
LEMMA TryRetainRawFails ==
  ASSUME Core, NEW t \in Threads, TryRetainRaw(t), side.deallocating PROVE Core'
BY QuietReturn, ZenonT(30) DEF TryRetainRaw, At, ReturnTry, lifeVars, LockStep, Heavy

\* objc_loadWeakRetained unlocks the table, or aborts if it has lost the lock.
LEMMA WeakUnlockStep ==
  ASSUME Core, NEW t \in Threads, WeakUnlock(t) PROVE Core'
<1> USE DEF WeakUnlock, Return, objectVars, lifeVars
<1>1. LockStep(t) BY DEF LockStep
<1> QED BY <1>1, QuietReturn DEF Heavy

\* Under the lock the variable still holds the object, or the load is over.
LEMMA LoadWeakLockStep ==
  ASSUME Core, NEW t \in Threads, LoadWeakLock(t) PROVE Core'
<1> USE DEF LoadWeakLock, objectVars, lifeVars
<1>1. CASE ~location
  <2>1. LockStep(t) BY <1>1 DEF LockStep
  <2> QED BY <1>1, <2>1, QuietReturn DEF Return, Heavy
<1>2. CASE location
  <2>0. ThreadOK(t) BY DEF Core
  <2>1. TypeOK' BY <1>2 DEF Core, TypeOK, PCs
  <2>2. /\ pc'[t] = "loop" /\ op[t] = "loadWeak" /\ op' = op /\ oldisa'[t] = isa /\ lock' = t /\ lock = None
        /\ newisa' = newisa
    BY <1>2 DEF Core, TypeOK
  <2>3. ThreadOK(t)'
    <3>1. Placed(t)' BY <2>0, <2>2 DEF ThreadOK, Placed
    <3>2. Owns(t)' BY <1>2, <2>0, <2>2 DEF ThreadOK, Owns
    <3>3. deallocator = t /\ isa.nonpointer => isDeallocating(isa) BY LoadedIsa
    <3>4. Sees(t)' BY <1>2, <2>0, <2>2, <3>3 DEF ThreadOK, Sees, Changing
    <3>5. Deallocs(t)' BY <1>2, <2>0, <2>2 DEF ThreadOK, Deallocs
    <3> QED BY <2>2, <3>1, <3>2, <3>4, <3>5 DEF ThreadOK
  <2>4. \A u \in Threads \ {t} : SameThread(u) BY <1>2 DEF SameThread, Core, TypeOK
  <2>5. Changing(t)' => Changing(t) BY <2>2 DEF Changing
  <2>6. life # "freed" BY <1>2 DEF Core, FreedIsForgotten
  <2>7. pc[t] \notin Heavy /\ pc'[t] \notin Heavy /\ LockStep(t) BY <2>2 DEF Heavy, LockStep
  <2> QED BY <1>2, <2>1, <2>3, <2>4, <2>5, <2>6, <2>7, QuietStep
<1> QED BY <1>1, <1>2

\* An object that the thread holds is not refused.
LEMMA InitWeakLockStep ==
  ASSUME Core, NEW t \in Threads, InitWeakLock(t) PROVE Core'
<1> USE DEF InitWeakLock, objectVars, lifeVars
<1>0. ThreadOK(t) BY DEF Core
<1>1. own[t] > 0 /\ deallocator # t /\ life = "live" BY <1>0 DEF ThreadOK, Owns, Deallocs
<1>2. ~Moving BY DEF Moving, Busy
<1>3. ~rootIsDeallocating BY <1>1, <1>2, LiveIsNotDying DEF rootIsDeallocating, Core, LifeOK
<1>4. TypeOK' BY DEF Core, TypeOK, PCs
<1>5. pc'[t] = "loop" /\ op[t] = "initWeak" /\ oldisa'[t] = isa /\ lock' = t /\ lock = None
  BY <1>3 DEF Core, TypeOK
<1>6. ThreadOK(t)'
  <2>1. Placed(t)' BY <1>0, <1>5 DEF ThreadOK, Placed
  <2>2. Owns(t)' BY <1>0, <1>5 DEF ThreadOK, Owns, Retaining
  <2>3. Sees(t)' BY <1>0, <1>5 DEF ThreadOK, Sees, Changing
  <2>4. Deallocs(t)' BY <1>0, <1>5 DEF ThreadOK, Deallocs
  <2> QED BY <1>5, <2>1, <2>2, <2>3, <2>4 DEF ThreadOK
<1>7. \A u \in Threads \ {t} : SameThread(u) BY DEF SameThread, Core, TypeOK
<1>8. Changing(t)' => Changing(t) BY DEF Changing
<1>9. pc[t] \notin Heavy /\ pc'[t] \notin Heavy /\ LockStep(t) BY <1>5 DEF Heavy, LockStep
<1> QED BY <1>1, <1>4, <1>6, <1>7, <1>8, <1>9, QuietStep

\* rootDealloc: an object with nothing to clear has left nothing in the side table.
LEMMA rootDeallocStep ==
  ASSUME Core, NEW t \in Threads, rootDealloc(t) PROVE Core'
<1> USE DEF rootDealloc, objectVars, lifeVars, localVars
<1>0. ThreadOK(t) BY DEF Core
<1>1. TypeOK' BY DEF Core, TypeOK, PCs
<1>2. pc'[t] \in {"clear", "free"} /\ own[t] = 0 /\ pc[t] = "dealloc" /\ deallocator = t /\ op[t] = None
  BY <1>0 DEF Core, TypeOK, ThreadOK, Deallocs, Placed
<1>3. pc'[t] = "free" => ~location /\ side = NoEntry BY DEF Core, TypeOK, SideOK, LifeOK
<1>4. None \notin {"retain", "release", "initWeak", "toNonpointer", "toRaw", "loadWeak"}
  BY Widths DEF AllOps
<1>5. ThreadOK(t)'
  <2>1. Placed(t)' BY <1>0, <1>2 DEF ThreadOK, Placed
  <2>2. Owns(t)' BY <1>0, <1>2, <1>4 DEF ThreadOK, Owns, Retaining
  <2>3. Sees(t)' BY <1>0, <1>2, <1>4 DEF ThreadOK, Sees, Changing
  <2>4. Deallocs(t)' BY <1>0, <1>2, <1>3 DEF ThreadOK, Deallocs
  <2>5. (NeedsLock(t) => lock = t)' BY <1>2 DEF NeedsLock
  <2> QED BY <2>1, <2>2, <2>3, <2>4, <2>5 DEF ThreadOK
<1>6. \A u \in Threads \ {t} : SameThread(u) BY DEF SameThread, Core, TypeOK
<1>7. Changing(t)' => Changing(t) BY DEF Changing
<1>8. pc[t] \notin Heavy /\ pc'[t] \notin Heavy /\ LockStep(t) BY <1>2 DEF Heavy, LockStep
<1>9. life # "freed" BY <1>2, NotFreed
<1> QED BY <1>1, <1>2, <1>5, <1>6, <1>7, <1>8, <1>9, QuietStep

(***************************************************************************)
(* Steps that change a count.                                              *)
(***************************************************************************)
\* A retain that succeeds adds one reference to the caller's.
LEMMA HoldUp ==
  ASSUME Core, NEW t \in Threads, own[t] < MaxOwn, Hold(t, 1)
  PROVE  /\ own' \in [Threads -> Nat] /\ own'[t] = own[t] + 1 /\ own'[t] <= MaxOwn
         /\ \A u \in Threads \ {t} : own'[u] = own[u]
         /\ Cardinality(OwnedRefs') = Cardinality(OwnedRefs) + 1
         /\ Cardinality(OwnedRefs') \in Nat /\ Cardinality(OwnedRefs') < PINNED
<1>1. own \in [Threads -> Nat] /\ \A u \in Threads : own[u] <= MaxOwn
  BY DEF Core, TypeOK, ThreadOK, Owns
<1> DEFINE g == own'
<1>2. g \in [Threads -> Nat] /\ \A u \in Threads : g[u] = IF u = t THEN own[u] + 1 ELSE own[u]
  BY <1>1 DEF Hold
<1>3. \A u \in Threads : g[u] <= MaxOwn BY <1>1, <1>2, Widths
<1>4. IsFiniteSet(Refs(own)) /\ CountingLaws BY CountFacts, RefsOwned DEF Core
<1> HIDE DEF g
<1>5. Cardinality(Refs(g)) = Cardinality(Refs(own)) + 1
  <2>1. OneMore(own, g, t) BY <1>2 DEF OneMore
  <2> QED BY <1>1, <1>2, <1>4, <2>1, RefsUp
<1>6. Cardinality(Refs(g)) \in Nat /\ Cardinality(Refs(g)) < PINNED BY <1>2, <1>3, <1>4, RefsFew
<1> QED BY <1>2, <1>3, <1>5, <1>6, RefsOwned DEF g

\* A release takes one of the caller's references, and knows when it took the last.
LEMMA HoldDown ==
  ASSUME Core, NEW t \in Threads, own[t] > 0, Hold(t, -1)
  PROVE  /\ own' \in [Threads -> Nat] /\ own'[t] = own[t] - 1 /\ own'[t] <= MaxOwn
         /\ \A u \in Threads \ {t} : own'[u] = own[u]
         /\ Cardinality(OwnedRefs') = Cardinality(OwnedRefs) - 1 /\ Cardinality(OwnedRefs') \in Nat
         /\ Cardinality(OwnedRefs') = 0 => \A u \in Threads : own'[u] = 0
<1>1. own \in [Threads -> Nat] /\ \A u \in Threads : own[u] <= MaxOwn
  BY DEF Core, TypeOK, ThreadOK, Owns
<1> DEFINE g == own'
<1>2. g \in [Threads -> Nat] /\ \A u \in Threads : g[u] = IF u = t THEN own[u] - 1 ELSE own[u]
  BY <1>1 DEF Hold
<1>3. \A u \in Threads : g[u] <= MaxOwn BY <1>1, <1>2, Widths
<1>4. IsFiniteSet(Refs(own)) /\ CountingLaws BY CountFacts, RefsOwned DEF Core
<1> HIDE DEF g
<1>5. Cardinality(Refs(g)) = Cardinality(Refs(own)) - 1
  <2>1. OneLess(own, g, t) BY <1>2 DEF OneLess
  <2> QED BY <1>1, <1>2, <1>4, <2>1, RefsDown
<1>6. IsFiniteSet(Refs(g)) /\ Cardinality(Refs(g)) \in Nat BY <1>2, <1>3, <1>4, RefsFew
<1>7. Cardinality(Refs(g)) = 0 => \A u \in Threads : g[u] = 0 BY <1>2, <1>4, <1>6, RefsNone
<1> QED BY <1>2, <1>3, <1>5, <1>6, <1>7, RefsOwned DEF g

\* A step on a live object leaves the others what they need if it is made by the
\* lock's owner, or touches nothing that the lock protects.
LEMMA LiveLeaves ==
  ASSUME Core, NEW t \in Threads, life = "live", TypeOK', life' = "live", deallocator' = deallocator,
         \A u \in Threads \ {t} : SameThread(u),
         isa'.nonpointer => isa.nonpointer, isa.nonpointer /\ ~isa'.nonpointer => Changing(t),
         \/ lock \in {t, None}
         \/ /\ lock' = lock /\ side' = side /\ location' = location
            /\ isa'.nonpointer = isa.nonpointer /\ isa'.has_sidetable_rc = isa.has_sidetable_rc
            /\ isa.weakly_referenced => isa'.weakly_referenced
  PROVE  \A u \in Threads \ {t} : Leaves(u)
<1> SUFFICES ASSUME NEW u \in Threads \ {t} PROVE Leaves(u) OBVIOUS
<1>0. ThreadOK(u) /\ None \notin Threads BY Widths DEF Core
<1>1. pc[u] # "free" BY <1>0 DEF Core, LifeOK, ThreadOK, Deallocs
<1>2. Changing(u) => isa'.nonpointer = isa.nonpointer
  <2>1. Changing(u) => ~Changing(t) BY DEF Core, OneChanger
  <2>2. isa.nonpointer \in BOOLEAN /\ isa'.nonpointer \in BOOLEAN BY DEF Core, TypeOK, Isas
  <2> QED BY <2>1, <2>2
<1> QED BY <1>0, <1>1, <1>2 DEF Leaves

\* Steps of a release whose stores fail: it still carries what it borrowed.
LEMMA StoreFailsSteps ==
  ASSUME Core, NEW t \in Threads, ReleaseStoreFails(t) \/ ReleaseStoreAgainFails(t)
  PROVE  Core'
<1> USE DEF ReleaseStoreFails, ReleaseStoreAgainFails, objectVars, lifeVars, localVars
<1>0. ThreadOK(t) /\ pc[t] \in {"borrow", "again"} BY DEF Core
<1>1. lock = t /\ lock' = t /\ op[t] = "release" /\ own[t] > 0 /\ isa.nonpointer
  BY <1>0 DEF ThreadOK, NeedsLock, Placed, Owns, Sees
<1>2. TypeOK' BY DEF Core, TypeOK, PCs
<1>3. pc'[t] \in {"again", "putback"} BY DEF Core, TypeOK
<1>4. ThreadOK(t)'
  <2>1. Placed(t)' BY <1>0, <1>1, <1>3 DEF ThreadOK, Placed
  <2>2. Owns(t)' BY <1>0, <1>1, <1>3 DEF ThreadOK, Owns
  <2>3. Sees(t)' BY <1>0, <1>1, <1>3 DEF ThreadOK, Sees
  <2>4. Deallocs(t)' BY <1>0, <1>3 DEF ThreadOK, Deallocs
  <2> QED BY <1>1, <2>1, <2>2, <2>3, <2>4 DEF ThreadOK
<1>5. \A u \in Threads \ {t} : SameThread(u) BY DEF SameThread, Core, TypeOK
<1>6. lock # None /\ Splitting /\ Splitting' /\ ~Moving /\ ~Moving' /\ Carried(lock)' = Carried(lock)
  BY <1>0, <1>1, <1>3, Widths DEF Splitting, Moving, Busy, Carried
<1>7. life # "freed" BY <1>1, NotFreed
<1>8. SideOK' BY <1>6 DEF Core, SideOK
<1>9. LifeOK' BY <1>0, <1>3, <1>5, <1>6 DEF Core, LifeOK, SameThread, TypeOK
<1>10. CountOK'
  <2>1. Total' = Total BY <1>1, <1>6 DEF Total
  <2>2. OwnedRefs' = OwnedRefs BY RefsOwned
  <2> QED BY <2>1, <2>2 DEF Core, CountOK, Pinned
<1>11. \A u \in Threads \ {t} : Leaves(u) BY <1>1, <1>5, ZenonT(30) DEF Leaves, Core, ThreadOK, Deallocs
<1>12. Changing(t)' => Changing(t) BY DEF Changing
<1> QED BY <1>2, <1>4, <1>7, <1>8, <1>9, <1>10, <1>11, <1>12, StepOfOne

\* A retain that raises the inline count.
LEMMA RetainInlineStep ==
  ASSUME Core, NEW t \in Threads, RetainInline(t) PROVE Core'
<1> USE DEF RetainInline, At
<1>0. ThreadOK(t) /\ pc[t] = "loop" /\ op[t] \in Retaining /\ isa.nonpointer /\ ~isDeallocating(isa)
  BY DEF Core, Countable
<1>1. isa \in Isas /\ isa.extra_rc \in 0..ExtraMax /\ isa.extra_rc # ExtraMax
  BY DEF Core, TypeOK, Isas, Carry
<1>2. /\ isa' \in Isas /\ isa'.extra_rc = isa.extra_rc + 1 /\ isa'.nonpointer
      /\ isa'.has_sidetable_rc = isa.has_sidetable_rc /\ isa'.weakly_referenced = isa.weakly_referenced
  BY <1>0, <1>1, Widths DEF Isas
<1>3. life = "live"
  <2>1. life # "deallocating" BY <1>0 DEF Core, LifeOK
  <2>2. life # "freed" BY <1>0, NotFreed DEF Away
  <2> QED BY <2>1, <2>2 DEF Core, TypeOK
<1>4. own[t] < MaxOwn BY <1>0 DEF ThreadOK, Owns
<1>5. /\ own' \in [Threads -> Nat] /\ own'[t] = own[t] + 1 /\ own'[t] <= MaxOwn
      /\ \A u \in Threads \ {t} : own'[u] = own[u]
      /\ Cardinality(OwnedRefs') = Cardinality(OwnedRefs) + 1
      /\ Cardinality(OwnedRefs') \in Nat /\ Cardinality(OwnedRefs') < PINNED
  BY <1>4, HoldUp
<1>6. life' = life /\ deallocator' = deallocator BY DEF EndRetain, Return, ReturnTry, lifeVars
<1>7. /\ ThreadOK(t)' /\ ~Changing(t)' /\ pc'[t] \notin Heavy
      /\ pc'[t] \in {"idle", "dealloc", "weakUnlock", "crashed"}
      /\ pc' \in [Threads -> PCs] /\ op' \in [Threads -> AllOps \cup {None}]
      /\ oldisa' \in [Threads -> Isas] /\ newisa' \in [Threads -> Isas]
      /\ full' \in [Threads -> BOOLEAN] /\ locked' \in [Threads -> BOOLEAN]
      /\ borrow' \in [Threads -> Borrows]
      /\ \A u \in Threads \ {t} : SameThread(u)
  BY <1>3, <1>5, <1>6, ReturnOK DEF EndRetain, Return, ReturnTry
<1>8. LockStep(t)
  BY <1>0 DEF LockStep, UnlockRetain, UnlockIf, ThreadOK, NeedsLock
<1>9. TypeOK' BY <1>2, <1>5, <1>6, <1>7, <1>8 DEF Core, TypeOK, LockStep
<1>10. Splitting' = Splitting /\ Moving' = Moving /\ InTransit' = InTransit
  BY <1>0, <1>7, <1>8, LightStep DEF Core, Heavy, InTransit
<1>11. SideOK' BY <1>0, <1>2, <1>10 DEF Core, SideOK
<1>12. LifeOK' BY <1>0, <1>2, <1>3, <1>6, <1>10 DEF Core, LifeOK
<1>13. CountOK'
  <2>1. Total = isa.extra_rc + side.rc + InTransit /\ ~Pinned(side) BY <1>0, CountFacts
  <2>2. Total' = isa'.extra_rc + side.rc + InTransit' BY <1>2 DEF Total, InTransit
  <2>3. Total' = Total + 1 BY <1>1, <1>2, <1>10, <2>1, <2>2, CountFacts, TransitFacts
  <2>4. Total = Cardinality(OwnedRefs) /\ Total > 0 BY <1>3, <2>1 DEF Core, CountOK
  <2> QED BY <1>5, <2>3, <2>4, CountFacts DEF CountOK
<1>14. \A u \in Threads \ {t} : Leaves(u)
  BY <1>0, <1>2, <1>3, <1>6, <1>7, <1>8, <1>9, LiveLeaves, ZenonT(30) DEF LockStep
<1> QED BY <1>3, <1>6, <1>7, <1>9, <1>11, <1>12, <1>13, <1>14, StepOfOne

\* A call on a live object that does its work and returns.
LEMMA LiveReturn ==
  ASSUME Core, NEW t \in Threads, life = "live", UNCHANGED <<life, deallocator>>, Forget(t),
         pc' \in {[pc EXCEPT ![t] = Home(t)], [pc EXCEPT ![t] = "weakUnlock"]},
         own' \in [Threads -> Nat], own'[t] <= MaxOwn, \A u \in Threads \ {t} : own'[u] = own[u],
         isa' \in Isas, side' \in Sides, location' \in BOOLEAN, lock' \in Threads \cup {None},
         isa'.nonpointer => isa.nonpointer, isa.nonpointer /\ ~isa'.nonpointer => Changing(t),
         \/ lock \in {t, None}
         \/ /\ lock' = lock /\ side' = side /\ location' = location
            /\ isa'.nonpointer = isa.nonpointer /\ isa'.has_sidetable_rc = isa.has_sidetable_rc
            /\ isa.weakly_referenced => isa'.weakly_referenced,
         SideOK', LifeOK', CountOK'
  PROVE  Core'
<1>1. /\ ThreadOK(t)' /\ ~Changing(t)' /\ pc'[t] \notin Heavy
      /\ pc'[t] \in {"idle", "dealloc", "weakUnlock", "crashed"}
      /\ pc' \in [Threads -> PCs] /\ op' \in [Threads -> AllOps \cup {None}]
      /\ oldisa' \in [Threads -> Isas] /\ newisa' \in [Threads -> Isas]
      /\ full' \in [Threads -> BOOLEAN] /\ locked' \in [Threads -> BOOLEAN]
      /\ borrow' \in [Threads -> Borrows]
      /\ \A u \in Threads \ {t} : SameThread(u)
  BY ReturnOK
<1>2. TypeOK' BY <1>1 DEF Core, TypeOK
<1>3. \A u \in Threads \ {t} : Leaves(u) BY <1>1, <1>2, LiveLeaves
<1> QED BY <1>1, <1>2, <1>3, StepOfOne

\* A call that the -dealloc method itself makes, and that returns to it.
LEMMA DeallocReturn ==
  ASSUME Core, NEW t \in Threads, deallocator = t, UNCHANGED <<isa, location, life, deallocator>>, Forget(t),
         pc' = [pc EXCEPT ![t] = Home(t)], pc[t] # "free",
         own' \in [Threads -> Nat], own'[t] <= MaxOwn, \A u \in Threads \ {t} : own'[u] = own[u],
         side' \in Sides, lock' \in Threads \cup {None},
         lock \in {t, None} \/ (lock' = lock /\ side' = side),
         SideOK', LifeOK'
  PROVE  Core'
<1>0. life = "deallocating" /\ None \notin Threads BY Widths DEF Core, LifeOK
<1>1. /\ ThreadOK(t)' /\ ~Changing(t)'
      /\ pc' \in [Threads -> PCs] /\ op' \in [Threads -> AllOps \cup {None}]
      /\ oldisa' \in [Threads -> Isas] /\ newisa' \in [Threads -> Isas]
      /\ full' \in [Threads -> BOOLEAN] /\ locked' \in [Threads -> BOOLEAN]
      /\ borrow' \in [Threads -> Borrows]
      /\ \A u \in Threads \ {t} : SameThread(u)
  BY ReturnOK, ZenonT(30)
<1>2. TypeOK' BY <1>1 DEF Core, TypeOK
<1>3. CountOK' BY <1>0 DEF CountOK
<1>4. ASSUME NEW u \in Threads \ {t} PROVE Leaves(u)
  <2>1. ThreadOK(u) BY DEF Core
  <2>2. pc[u] # "free" /\ ~(own[u] > 0) BY <1>0, <2>1 DEF ThreadOK, Deallocs
  <2> QED BY <1>0, <1>1, <2>2 DEF Leaves
<1> QED BY <1>0, <1>1, <1>2, <1>3, <1>4, StepOfOne

\* The release that leaves no reference begins -dealloc.
LEMMA LastReturn ==
  ASSUME Core, NEW t \in Threads, life = "live", BeginDealloc(t), UNCHANGED location,
         own' \in [Threads -> Nat], \A u \in Threads : own'[u] = 0, \A u \in Threads \ {t} : own[u] = 0,
         isa' \in Isas, side' \in Sides, lock' \in Threads \cup {None},
         isa'.nonpointer = isa.nonpointer,
         \/ lock \in {t, None}
         \/ /\ lock' = lock /\ side' = side /\ isa'.has_sidetable_rc = isa.has_sidetable_rc
            /\ isa.weakly_referenced => isa'.weakly_referenced,
         SideOK', LifeOK'
  PROVE  Core'
<1>0. deallocator = None /\ None \notin Threads BY Widths DEF Core, LifeOK
<1>1. /\ ThreadOK(t)' /\ ~Changing(t)'
      /\ pc' \in [Threads -> PCs] /\ op' \in [Threads -> AllOps \cup {None}]
      /\ oldisa' \in [Threads -> Isas] /\ newisa' \in [Threads -> Isas]
      /\ full' \in [Threads -> BOOLEAN] /\ locked' \in [Threads -> BOOLEAN]
      /\ borrow' \in [Threads -> Borrows]
      /\ \A u \in Threads \ {t} : SameThread(u)
  <2>1. own'[t] <= MaxOwn /\ ~(own'[t] > 0) BY Widths
  <2>2. Forget(t) /\ pc' = [pc EXCEPT ![t] = "dealloc"] /\ deallocator' = t BY DEF BeginDealloc
  <2>3. \A u \in Threads \ {t} : own'[u] = own[u] OBVIOUS
  <2> QED BY <2>1, <2>2, <2>3, ReturnOK, ZenonT(30)
<1>2. TypeOK' BY <1>1 DEF Core, TypeOK, BeginDealloc
<1>3. CountOK' /\ life' # "freed" BY DEF CountOK, BeginDealloc
<1>4. ASSUME NEW u \in Threads \ {t} PROVE Leaves(u)
  <2>1. ThreadOK(u) BY DEF Core
  <2>2. pc[u] # "free" /\ ~(own[u] > 0) BY <1>0, <2>1 DEF ThreadOK, Deallocs
  <2> QED BY <1>0, <1>1, <2>2 DEF Leaves, BeginDealloc
<1> QED BY <1>1, <1>2, <1>3, <1>4, StepOfOne

\* A thread that takes part in counting, and does not run -dealloc, works on a live object.
LEMMA CountsLive ==
  ASSUME Core, NEW t \in Threads, op[t] \in {"retain", "release"} \/ pc[t] = "add", deallocator # t
  PROVE  life = "live"
BY DEF Core, ThreadOK, Owns, Deallocs

\* The spill: half of the inline count is on its way to the side table.
LEMMA RetainSpillStep ==
  ASSUME Core, NEW t \in Threads, RetainSpill(t) PROVE Core'
<1> USE DEF RetainSpill, At, lifeVars, localVars
<1>0. ThreadOK(t) /\ pc[t] = "loop" /\ op[t] \in Retaining /\ isa.nonpointer /\ ~isDeallocating(isa)
      /\ isa.extra_rc = ExtraMax
  BY DEF Core, Countable, Carry
<1>1. /\ isa' \in Isas /\ isa'.extra_rc = RC_HALF /\ isa'.nonpointer
      /\ isa'.has_sidetable_rc /\ isa'.weakly_referenced = isa.weakly_referenced
  <2>1. RC_HALF \in 0..ExtraMax BY Widths
  <2>2. isa \in Isas BY DEF Core, TypeOK
  <2> QED BY <1>0, <2>1, <2>2, ZenonT(30) DEF Isas
<1>2. lock = t /\ lock' = t BY <1>0 DEF ThreadOK, NeedsLock
<1>3. life = "live"
  <2>1. life # "deallocating" BY <1>0 DEF Core, LifeOK
  <2>2. life # "freed" BY <1>0, NotFreed DEF Away
  <2> QED BY <2>1, <2>2 DEF Core, TypeOK
<1>4. own[t] < MaxOwn BY <1>0 DEF ThreadOK, Owns
<1>5. /\ own' \in [Threads -> Nat] /\ own'[t] = own[t] + 1 /\ own'[t] <= MaxOwn
      /\ \A u \in Threads \ {t} : own'[u] = own[u]
      /\ Cardinality(OwnedRefs') = Cardinality(OwnedRefs) + 1
      /\ Cardinality(OwnedRefs') \in Nat /\ Cardinality(OwnedRefs') < PINNED
  BY <1>4, HoldUp
<1>6. TypeOK' BY <1>1, <1>5, ZenonT(30) DEF Core, TypeOK, PCs
<1>7. pc'[t] = "add" /\ \A u \in Threads \ {t} : SameThread(u) BY <1>5 DEF SameThread, Core, TypeOK
<1>8. own[t] \in Nat BY DEF Core, TypeOK
<1>9. ThreadOK(t)'
  <2>1. Placed(t)' BY <1>0, <1>7 DEF ThreadOK, Placed, Retaining
  <2>2. Owns(t)' BY <1>0, <1>5, <1>7, <1>8 DEF ThreadOK, Owns, Retaining
  <2>3. Sees(t)' BY <1>0, <1>1, <1>7, ZenonT(30) DEF ThreadOK, Sees, Retaining
  <2>4. Deallocs(t)' BY <1>3, <1>7, <1>0 DEF ThreadOK, Deallocs
  <2> QED BY <1>2, <2>1, <2>2, <2>3, <2>4 DEF ThreadOK
<1>10. ~Splitting /\ ~Moving /\ Splitting' /\ ~Moving' /\ InTransit' = RC_HALF /\ InTransit = 0
  BY <1>0, <1>2, <1>7, Widths DEF Splitting, Moving, Busy, InTransit, Carried
<1>11. SideOK' BY <1>0, <1>1, <1>10 DEF Core, SideOK
<1>12. LifeOK' BY <1>0, <1>1, <1>3, <1>10 DEF Core, LifeOK
<1>13. CountOK'
  <2>1. Total = isa.extra_rc + side.rc + InTransit /\ ~Pinned(side) BY <1>0, CountFacts
  <2>2. Total' = isa'.extra_rc + side.rc + InTransit' BY <1>1 DEF Total, InTransit
  <2>3. Total' = Total + 1 BY <1>0, <1>1, <1>10, <2>1, <2>2, CountFacts, Widths
  <2>4. Total = Cardinality(OwnedRefs) /\ Total > 0 BY <1>3, <2>1 DEF Core, CountOK
  <2> QED BY <1>5, <2>3, <2>4, CountFacts DEF CountOK
<1>14. \A u \in Threads \ {t} : Leaves(u) BY <1>0, <1>1, <1>2, <1>3, <1>6, <1>7, LiveLeaves, ZenonT(30)
<1>15. Changing(t)' => Changing(t) BY DEF Changing
<1> QED BY <1>3, <1>6, <1>9, <1>11, <1>12, <1>13, <1>14, <1>15, StepOfOne

(***************************************************************************)
(* Spills and borrows.                                                     *)
(***************************************************************************)
\* A thread in the middle of a spill or a borrow has half of the count of a live object.
LEMMA SplitFacts ==
  ASSUME Core, NEW t \in Threads, pc[t] \in {"add", "borrow", "again", "putback"}
  PROVE  /\ life = "live" /\ deallocator = None /\ lock = t /\ Splitting /\ ~Moving
         /\ isa.nonpointer /\ isa.has_sidetable_rc
         /\ side.rc \in Nat /\ side.rc % RC_HALF = 0 /\ side.rc + RC_HALF < PINNED
         /\ isa.extra_rc \in 0..ExtraMax
         /\ Cardinality(OwnedRefs) = isa.extra_rc + side.rc + RC_HALF
<1>0. ThreadOK(t) BY DEF Core
<1>1. lock = t /\ isa.nonpointer /\ isa.has_sidetable_rc BY <1>0 DEF ThreadOK, NeedsLock, Sees
<1>2. life = "live"
  <2>1. life # "deallocating" BY <1>1 DEF Core, LifeOK, isDeallocating
  <2>2. life # "freed" BY NotFreed DEF Away
  <2> QED BY <2>1, <2>2 DEF Core, TypeOK
<1>3. deallocator = None BY <1>2 DEF Core, LifeOK
<1>4. Splitting /\ ~Moving BY <1>1, Widths DEF Splitting, Moving, Busy
<1>5. InTransit = RC_HALF BY <1>4, TransitFacts
<1>6. Total = isa.extra_rc + side.rc + RC_HALF /\ ~Pinned(side) BY <1>1, <1>5, CountFacts
<1>7. Total = Cardinality(OwnedRefs) BY <1>2, <1>6 DEF Core, CountOK
<1>8. /\ side.rc \in Nat /\ isa.extra_rc \in 0..ExtraMax
      /\ Cardinality(OwnedRefs) \in Nat /\ Cardinality(OwnedRefs) < PINNED
  BY CountFacts
<1>9. side.rc % RC_HALF = 0 BY <1>1 DEF Core, SideOK
<1>10. side.rc + RC_HALF < PINNED BY <1>6, <1>7, <1>8, Widths
<1> QED BY <1>1, <1>2, <1>3, <1>4, <1>6, <1>7, <1>8, <1>9, <1>10

\* Half of the count is added to the side table: it does not overflow.
LEMMA AddHalf ==
  ASSUME Core, NEW t \in Threads, pc[t] \in {"add", "putback"},
         side' = sidetable_addExtraRC_nolock(side, RC_HALF)
  PROVE  /\ side' \in Sides /\ side'.present /\ side'.rc = side.rc + RC_HALF
         /\ side'.deallocating = side.deallocating /\ side'.weak = side.weak
         /\ side'.rc % RC_HALF = 0 /\ side'.rc < PINNED /\ side'.rc > 0
<1>0. /\ side.rc \in Nat /\ side.rc % RC_HALF = 0 /\ side.rc + RC_HALF < PINNED
  BY SplitFacts
<1>1. ~Pinned(side) /\ AddCarry(side, RC_HALF) = side.rc + RC_HALF BY <1>0, Widths DEF Pinned, AddCarry
<1>2. side' = [side EXCEPT !.present = TRUE, !.rc = side.rc + RC_HALF]
  BY <1>1 DEF sidetable_addExtraRC_nolock
<1>3. side \in Sides /\ side.rc + RC_HALF \in 0..(SideMod - 1) BY <1>0, Widths DEF Core, TypeOK
<1>4. (side.rc + RC_HALF) % RC_HALF = 0
  <2> DEFINE x == side.rc
             h == RC_HALF
  <2>1. h \in Nat \ {0} /\ x \in Nat /\ x % h = 0 BY <1>0, Widths
  <2> HIDE DEF x, h
  <2>2. (x + h) % h = 0 BY <2>1, Halves, ZenonT(30)
  <2> QED BY <2>2 DEF x, h
<1>5. /\ side' \in Sides /\ side'.present /\ side'.rc = side.rc + RC_HALF
      /\ side'.deallocating = side.deallocating /\ side'.weak = side.weak
  BY <1>2, <1>3, ZenonT(30) DEF Sides
<1>6. side'.rc < PINNED /\ side'.rc > 0 BY <1>0, <1>5, Widths
<1> QED BY <1>4, <1>5, <1>6

\* sidetable_addExtraRC_nolock gives the side table the half that the spill kept.
LEMMA RetainAddStep ==
  ASSUME Core, NEW t \in Threads, RetainAdd(t) PROVE Core'
<1> USE DEF RetainAdd
<1>0. ThreadOK(t) /\ pc[t] = "add" /\ op[t] \in Retaining BY DEF Core, ThreadOK, Placed
<1>1. /\ life = "live" /\ deallocator = None /\ lock = t /\ Splitting /\ ~Moving
      /\ isa.nonpointer /\ isa.has_sidetable_rc
      /\ side.rc \in Nat /\ isa.extra_rc \in 0..ExtraMax
      /\ Cardinality(OwnedRefs) = isa.extra_rc + side.rc + RC_HALF
  BY <1>0, SplitFacts
<1>2. /\ side' \in Sides /\ side'.present /\ side'.rc = side.rc + RC_HALF
      /\ side'.deallocating = side.deallocating /\ side'.weak = side.weak
      /\ side'.rc % RC_HALF = 0 /\ side'.rc < PINNED /\ side'.rc > 0
  BY <1>0, AddHalf
<1>3. /\ UNCHANGED <<life, deallocator>> /\ Forget(t)
      /\ pc' \in {[pc EXCEPT ![t] = Home(t)], [pc EXCEPT ![t] = "weakUnlock"]}
  BY DEF EndRetain, Return, ReturnTry, lifeVars
<1>4. lock' \in {t, None} BY <1>1 DEF UnlockRetain, UnlockIf
<1>5. pc'[t] \in {"idle", "dealloc", "weakUnlock"} BY <1>3 DEF Home, Core, TypeOK
<1>6. ~Splitting' /\ ~Moving' /\ InTransit' = 0
  BY <1>4, <1>5 DEF Splitting, Moving, Busy, InTransit, Carried
<1>7. SideOK' BY <1>1, <1>2, <1>6 DEF Core, SideOK
<1>8. LifeOK' BY <1>1, <1>3, <1>6 DEF Core, LifeOK
<1>9. CountOK'
  <2>1. Total' = isa.extra_rc + side'.rc + InTransit' BY <1>1 DEF Total, InTransit
  <2>2. Total' = Cardinality(OwnedRefs) /\ Total' > 0 BY <1>1, <1>2, <1>6, <2>1, Widths
  <2>3. OwnedRefs' = OwnedRefs BY RefsOwned
  <2> QED BY <2>2, <2>3 DEF CountOK
<1>10. own' \in [Threads -> Nat] /\ own'[t] <= MaxOwn /\ isa' \in Isas /\ location' \in BOOLEAN
  BY <1>0 DEF Core, TypeOK, ThreadOK, Owns
<1>11. lock' \in Threads \cup {None} BY <1>4
<1> QED BY <1>1, <1>2, <1>3, <1>7, <1>8, <1>9, <1>10, <1>11, LiveReturn

\* A release that could not store its borrowed half puts it back in the side table.
LEMMA ReleasePutBackStep ==
  ASSUME Core, NEW t \in Threads, ReleasePutBack(t) PROVE Core'
<1> USE DEF ReleasePutBack, lifeVars
<1>0. ThreadOK(t) /\ pc[t] = "putback" /\ op[t] = "release" /\ own[t] > 0 /\ own[t] <= MaxOwn
      /\ borrow[t].borrowed = RC_HALF
  BY DEF Core, ThreadOK, Placed, Owns, Sees
<1>1. /\ life = "live" /\ deallocator = None /\ lock = t /\ Splitting /\ ~Moving
      /\ isa.nonpointer /\ isa.has_sidetable_rc
      /\ side.rc \in Nat /\ isa.extra_rc \in 0..ExtraMax
      /\ Cardinality(OwnedRefs) = isa.extra_rc + side.rc + RC_HALF
  BY <1>0, SplitFacts
<1>2. /\ side' \in Sides /\ side'.present /\ side'.rc = side.rc + RC_HALF
      /\ side'.deallocating = side.deallocating /\ side'.weak = side.weak
      /\ side'.rc % RC_HALF = 0 /\ side'.rc < PINNED /\ side'.rc > 0
  BY <1>0, AddHalf
<1>3. TypeOK'
  <2>1. NoBorrow \in Borrows BY Widths DEF NoBorrow, Borrows
  <2> QED BY <1>2, <2>1 DEF Core, TypeOK, PCs
<1>4. pc'[t] = "loop" /\ oldisa'[t] = isa /\ op'[t] = "release" /\ newisa'[t] = newisa[t]
  BY <1>0 DEF Core, TypeOK
<1>5. newisa[t] = RawIsa BY <1>0 DEF ThreadOK, Sees
<1>6. ThreadOK(t)'
  <2>1. Placed(t)' BY <1>0, <1>4, Widths DEF ThreadOK, Placed, AllOps
  <2>2. Owns(t)' BY <1>0, <1>1, <1>4 DEF ThreadOK, Owns, Retaining
  <2>3. ~isDeallocating(isa) /\ deallocator # t BY <1>1, Widths DEF isDeallocating
  <2>4. Sees(t)' BY <1>4, <1>5, <2>3 DEF Sees, Changing
  <2>5. Deallocs(t)' BY <1>1, <1>4, Widths DEF Deallocs
  <2> QED BY <1>1, <2>1, <2>2, <2>4, <2>5 DEF ThreadOK
<1>7. ~Splitting' /\ ~Moving' /\ InTransit' = 0
  BY <1>1, <1>4 DEF Splitting, Moving, Busy, InTransit, Carried
<1>8. SideOK' BY <1>1, <1>2, <1>7 DEF Core, SideOK
<1>9. LifeOK' BY <1>1, <1>7 DEF Core, LifeOK
<1>10. CountOK'
  <2>1. Total' = isa.extra_rc + side'.rc + InTransit' BY <1>1 DEF Total, InTransit
  <2>2. Total' = Cardinality(OwnedRefs) /\ Total' > 0 BY <1>1, <1>2, <1>7, <2>1, Widths
  <2>3. OwnedRefs' = OwnedRefs BY RefsOwned
  <2> QED BY <2>2, <2>3 DEF CountOK
<1>11. \A u \in Threads \ {t} : SameThread(u) BY DEF SameThread, Core, TypeOK
<1>12. \A u \in Threads \ {t} : Leaves(u) BY <1>1, <1>3, <1>11, LiveLeaves
<1>13. ~Changing(t)' BY <1>4 DEF Changing
<1> QED BY <1>1, <1>3, <1>6, <1>8, <1>9, <1>10, <1>12, <1>13, StepOfOne

\* There is always a half to borrow: a release that sees the flag under the lock
\* finds a count in the side table.
LEMMA BorrowFinds ==
  ASSUME Core, NEW t \in Threads, ReleaseBorrow(t)
  PROVE  /\ life = "live" /\ lock = t /\ isa.nonpointer /\ isa.has_sidetable_rc
         /\ side.rc \in Nat /\ side.rc >= RC_HALF /\ side.rc < PINNED
         /\ (side.rc - RC_HALF) % RC_HALF = 0 /\ side.rc - RC_HALF \in 0..(SideMod - 1)
         /\ side \in Sides /\ side.present /\ ~side.deallocating /\ ~side.weak
         /\ side' = [side EXCEPT !.rc = side.rc - RC_HALF]
         /\ borrow' = [borrow EXCEPT ![t] = [borrowed |-> RC_HALF, remaining |-> side.rc - RC_HALF]]
         /\ pc' = [pc EXCEPT ![t] = "borrow"]
         /\ UNCHANGED <<isa, location, lock, life, deallocator, own, op, oldisa, newisa, full, locked>>
<1> USE DEF ReleaseBorrow, Underflow, At, lifeVars
<1>0. /\ ThreadOK(t) /\ pc[t] = "loop" /\ op[t] = "release" /\ locked[t] /\ own[t] > 0 /\ own[t] <= MaxOwn
      /\ oldisa[t].nonpointer /\ oldisa[t].extra_rc = 0 /\ oldisa[t].has_sidetable_rc
  BY DEF Core, ThreadOK, Owns, Countable, isDeallocating
<1>1. lock = t /\ isa.nonpointer /\ isa.has_sidetable_rc BY <1>0, ZenonT(30) DEF ThreadOK, NeedsLock, Sees
<1>2. ~Splitting /\ ~Moving /\ InTransit = 0
  BY <1>0, <1>1 DEF Splitting, Moving, Busy, InTransit, Carried
<1>3. life = "live"
  <2>1. life # "deallocating" BY <1>1 DEF Core, LifeOK, isDeallocating
  <2>2. life # "freed" BY <1>0, NotFreed DEF Away
  <2> QED BY <2>1, <2>2 DEF Core, TypeOK
<1>4. /\ side \in Sides /\ side.rc \in Nat /\ side.rc > 0 /\ side.present /\ side.rc < PINNED
      /\ side.rc % RC_HALF = 0 /\ ~side.deallocating /\ ~side.weak
  BY <1>1, <1>2, CountFacts DEF Core, SideOK, TypeOK
<1>5. side.rc >= RC_HALF /\ (side.rc - RC_HALF) % RC_HALF = 0
  <2> DEFINE x == side.rc
             h == RC_HALF
  <2>1. h \in Nat \ {0} /\ x \in Nat /\ x % h = 0 /\ x > 0 BY <1>4, Widths
  <2> HIDE DEF x, h
  <2>2. x >= h /\ (x - h) % h = 0 BY <2>1, Halves, ZenonT(30)
  <2> QED BY <2>2 DEF x, h
<1>6. (side.rc - RC_HALF) % SideMod = side.rc - RC_HALF /\ side.rc - RC_HALF \in 0..(SideMod - 1)
  <2> DEFINE y == side.rc - RC_HALF
  <2>1. y \in 0..(SideMod - 1) /\ SideMod \in Nat BY <1>4, <1>5, Widths
  <2> HIDE DEF y
  <2>2. y % SideMod = y BY <2>1
  <2> QED BY <2>1, <2>2 DEF y
<1>7. LET r == sidetable_subExtraRC_nolock(side, RC_HALF) IN
      /\ r.side = [side EXCEPT !.rc = side.rc - RC_HALF]
      /\ r.borrow = [borrowed |-> RC_HALF, remaining |-> side.rc - RC_HALF]
      /\ r.borrow.borrowed > 0
  BY <1>4, <1>6, Widths DEF sidetable_subExtraRC_nolock
<1>8. /\ side' = [side EXCEPT !.rc = side.rc - RC_HALF]
      /\ borrow' = [borrow EXCEPT ![t] = [borrowed |-> RC_HALF, remaining |-> side.rc - RC_HALF]]
      /\ pc' = [pc EXCEPT ![t] = "borrow"]
      /\ UNCHANGED <<isa, location, lock, life, deallocator, own, op, oldisa, newisa, full, locked>>
  BY <1>7
<1> QED BY <1>1, <1>3, <1>4, <1>5, <1>6, <1>8

\* The half that is borrowed is on its way.
LEMMA ReleaseBorrowStep ==
  ASSUME Core, NEW t \in Threads, ReleaseBorrow(t) PROVE Core'
<1>0. /\ ThreadOK(t) /\ pc[t] = "loop" /\ op[t] = "release" /\ locked[t] /\ own[t] > 0 /\ own[t] <= MaxOwn
      /\ oldisa[t].extra_rc = 0
  BY DEF Core, ThreadOK, Owns, ReleaseBorrow, Underflow, At
<1>1. lock = t /\ isa.nonpointer /\ isa.has_sidetable_rc BY BorrowFinds
<1>2. ~Splitting /\ ~Moving /\ InTransit = 0
  BY <1>0, <1>1 DEF Splitting, Moving, Busy, InTransit, Carried
<1>3. life = "live" BY BorrowFinds
<1>4. side \in Sides /\ side.rc \in Nat /\ side.present /\ side.rc < PINNED /\ ~side.deallocating /\ ~side.weak
  BY BorrowFinds
<1>5. side.rc >= RC_HALF /\ (side.rc - RC_HALF) % RC_HALF = 0 BY BorrowFinds
<1>6. side.rc - RC_HALF \in 0..(SideMod - 1) BY BorrowFinds
<1>8. /\ side' = [side EXCEPT !.rc = side.rc - RC_HALF]
      /\ borrow' = [borrow EXCEPT ![t] = [borrowed |-> RC_HALF, remaining |-> side.rc - RC_HALF]]
      /\ pc' = [pc EXCEPT ![t] = "borrow"]
      /\ UNCHANGED <<isa, location, lock, life, deallocator, own, op, oldisa, newisa, full, locked>>
  BY BorrowFinds
<1>9. /\ side' \in Sides /\ side'.rc = side.rc - RC_HALF /\ side'.present
      /\ ~side'.deallocating /\ ~side'.weak
  BY <1>4, <1>6, <1>8 DEF Sides
<1>10. TypeOK'
  <2>1. [borrowed |-> RC_HALF, remaining |-> side.rc - RC_HALF] \in Borrows
    BY <1>6, Widths DEF Borrows
  <2> QED BY <1>8, <1>9, <2>1 DEF Core, TypeOK, PCs
<1>11. pc'[t] = "borrow" /\ borrow'[t] = [borrowed |-> RC_HALF, remaining |-> side'.rc] /\ op'[t] = "release"
  BY <1>0, <1>8, <1>9 DEF Core, TypeOK
<1>12. ThreadOK(t)'
  <2>1. Placed(t)' BY <1>0, <1>8, <1>11, Widths DEF ThreadOK, Placed, AllOps
  <2>2. Owns(t)' BY <1>0, <1>8, <1>11 DEF ThreadOK, Owns, Retaining
  <2>3. newisa[t] = RawIsa BY <1>0 DEF ThreadOK, Sees
  <2>4. Sees(t)' BY <1>0, <1>1, <1>8, <1>11, <2>3 DEF Sees, Changing
  <2>5. Deallocs(t)' BY <1>3, <1>8, <1>11, Widths DEF Deallocs, Core, LifeOK
  <2> QED BY <1>1, <1>8, <2>1, <2>2, <2>4, <2>5 DEF ThreadOK
<1>13. Splitting' /\ ~Moving' /\ InTransit' = RC_HALF
  BY <1>1, <1>8, <1>11, Widths DEF Splitting, Moving, Busy, InTransit, Carried
<1>14. side'.rc < PINNED BY <1>4, <1>9, Widths
<1>15. SideOK' BY <1>1, <1>5, <1>8, <1>9, <1>13, <1>14 DEF Core, SideOK
<1>16. LifeOK' BY <1>1, <1>3, <1>8, <1>13 DEF Core, LifeOK
<1>17. CountOK'
  <2>1. Total = isa.extra_rc + side.rc + InTransit /\ ~Pinned(side) BY <1>1, CountFacts
  <2>2. Total' = isa.extra_rc + side'.rc + InTransit' BY <1>1, <1>8 DEF Total, InTransit
  <2>3. Total' = Total BY <1>2, <1>4, <1>9, <1>13, <2>1, <2>2, CountFacts, Widths
  <2>4. OwnedRefs' = OwnedRefs BY <1>8, RefsOwned
  <2> QED BY <1>3, <2>1, <2>3, <2>4 DEF Core, CountOK
<1>18. \A u \in Threads \ {t} : SameThread(u) BY <1>8 DEF SameThread, Core, TypeOK
<1>19. \A u \in Threads \ {t} : Leaves(u) BY <1>1, <1>3, <1>8, <1>10, <1>18, LiveLeaves, ZenonT(30)
<1>20. ~Changing(t)' BY <1>11 DEF Changing
<1> QED BY <1>3, <1>8, <1>10, <1>12, <1>15, <1>16, <1>17, <1>19, <1>20, StepOfOne

\* The borrowed half is inline again, less the reference that is released: the
\* count of a live object stays above zero, and no -dealloc begins here.
LEMMA StoreKeeps ==
  ASSUME Core, NEW t \in Threads, ReleaseStore(t) \/ ReleaseStoreAgain(t)
  PROVE  /\ pc[t] \in {"borrow", "again"} /\ own[t] > 0
         /\ isa.extra_rc + RC_HALF - 1 \in 1..ExtraMax
         /\ isa' \in Isas /\ isa'.extra_rc = isa.extra_rc + RC_HALF - 1 /\ isa'.nonpointer
         /\ isa'.has_sidetable_rc = (side.rc # 0) /\ isa'.weakly_referenced = isa.weakly_referenced
         /\ side' = (IF side.rc = 0 THEN NoEntry ELSE side) /\ side'.rc = side.rc
         /\ side' \in Sides /\ lock' = None /\ location' = location
         /\ Hold(t, -1) /\ Return(t)
<1>0. ThreadOK(t) /\ pc[t] \in {"borrow", "again"} /\ op[t] = "release" /\ own[t] > 0
      /\ borrow[t].borrowed = RC_HALF /\ borrow[t].remaining = side.rc
  BY DEF Core, ThreadOK, Placed, Owns, Sees, ReleaseStore, ReleaseStoreAgain
<1>1. /\ life = "live" /\ deallocator = None /\ lock = t /\ Splitting /\ ~Moving
      /\ isa.nonpointer /\ isa.has_sidetable_rc
      /\ side.rc \in Nat /\ isa.extra_rc \in 0..ExtraMax
      /\ Cardinality(OwnedRefs) = isa.extra_rc + side.rc + RC_HALF
  BY <1>0, SplitFacts
<1> DEFINE extra == isa.extra_rc + RC_HALF - 1
<1>2. StoreBorrowed(t, extra) /\ extra \in 0..ExtraMax /\ extra > 0
  <2>1. CASE ReleaseStore(t)
    <3>1. pc[t] = "borrow" /\ isa = oldisa[t] /\ StoreBorrowed(t, borrow[t].borrowed - 1)
      BY <2>1 DEF ReleaseStore, StoreBorrowed
    <3>2. isa.extra_rc = 0 BY <1>0, <3>1 DEF ThreadOK, Sees
    <3>3. extra = RC_HALF - 1 BY <3>2, Widths
    <3> QED BY <1>0, <3>1, <3>3, Widths
  <2>2. CASE ReleaseStoreAgain(t)
    <3>1. isa = oldisa[t] /\ StoreBorrowed(t, Resum(t)) /\ Resum(t) <= ExtraMax
      BY <2>2 DEF ReleaseStoreAgain, StoreBorrowed
    <3>2. extra = Resum(t) BY <1>0, <3>1 DEF Resum
    <3>3. extra > 0 /\ extra \in Int BY <1>1, Widths
    <3> QED BY <3>1, <3>2, <3>3, Widths
  <2> QED BY <2>1, <2>2
<1>3. isa \in Isas /\ side \in Sides /\ NoEntry \in Sides
  BY Widths DEF Core, TypeOK, NoEntry, Sides
<1>4. /\ isa' \in Isas /\ isa'.extra_rc = extra /\ isa'.nonpointer
      /\ isa'.has_sidetable_rc = (side.rc # 0) /\ isa'.weakly_referenced = isa.weakly_referenced
  <2>1. isa' = [isa EXCEPT !.extra_rc = extra, !.has_sidetable_rc = ~(side.rc = 0)]
    BY <1>0, <1>2 DEF StoreBorrowed
  <2> HIDE DEF extra
  <2> QED BY <1>1, <1>2, <1>3, <2>1, ZenonT(30) DEF Isas
<1>5. /\ side' = (IF side.rc = 0 THEN NoEntry ELSE side) /\ side'.rc = side.rc
      /\ side' \in Sides /\ lock' = None /\ location' = location
  BY <1>0, <1>2, <1>3 DEF StoreBorrowed, NoEntry
<1>6. Hold(t, -1) BY <1>2 DEF StoreBorrowed
<1>7. Return(t) BY <1>2, <1>4 DEF ReleaseStore, ReleaseStoreAgain, isDeallocating
<1> QED BY <1>0, <1>2, <1>4, <1>5, <1>6, <1>7

\* A release stores what is left of the borrowed half, at once or after a retry.
LEMMA ReleaseStoreSteps ==
  ASSUME Core, NEW t \in Threads, ReleaseStore(t) \/ ReleaseStoreAgain(t) PROVE Core'
<1>0. pc[t] \in {"borrow", "again"} /\ own[t] > 0 BY StoreKeeps
<1>1. /\ life = "live" /\ deallocator = None /\ lock = t /\ Splitting /\ ~Moving
      /\ isa.nonpointer /\ isa.has_sidetable_rc
      /\ side.rc \in Nat /\ isa.extra_rc \in 0..ExtraMax
      /\ Cardinality(OwnedRefs) = isa.extra_rc + side.rc + RC_HALF
  BY <1>0, SplitFacts
<1> DEFINE extra == isa.extra_rc + RC_HALF - 1
<1>2. extra \in 1..ExtraMax BY StoreKeeps
<1>4. /\ isa' \in Isas /\ isa'.extra_rc = extra /\ isa'.nonpointer
      /\ isa'.has_sidetable_rc = (side.rc # 0) /\ isa'.weakly_referenced = isa.weakly_referenced
  BY StoreKeeps
<1>5. /\ side' = (IF side.rc = 0 THEN NoEntry ELSE side) /\ side'.rc = side.rc
      /\ side' \in Sides /\ lock' = None /\ location' = location
  BY StoreKeeps
<1>6. Hold(t, -1) BY StoreKeeps
<1>7. Return(t) BY StoreKeeps
<1>8. /\ own' \in [Threads -> Nat] /\ own'[t] <= MaxOwn /\ \A u \in Threads \ {t} : own'[u] = own[u]
      /\ Cardinality(OwnedRefs') = Cardinality(OwnedRefs) - 1
  BY <1>0, <1>6, HoldDown
<1>9. /\ UNCHANGED <<life, deallocator>> /\ Forget(t)
      /\ pc' \in {[pc EXCEPT ![t] = Home(t)], [pc EXCEPT ![t] = "weakUnlock"]}
  BY <1>7 DEF Return, lifeVars
<1>10. ~Splitting' /\ ~Moving' /\ InTransit' = 0 BY <1>5 DEF Splitting, Moving, Busy, InTransit
<1>11. SideOK'
  <2>1. side.rc > 0 => side.present BY DEF Core, SideOK
  <2>2. ~side.deallocating /\ ~side.weak /\ side.rc % RC_HALF = 0 /\ side.rc < PINNED
    BY <1>1 DEF Core, SideOK
  <2>3. side.rc = 0 \/ side.rc > 0 BY <1>1
  <2>4. ~side'.deallocating /\ ~side'.weak /\ (side'.rc > 0 => side'.present)
    BY <1>5, <2>1, <2>2 DEF NoEntry
  <2> QED BY <1>4, <1>5, <2>2, <2>3, <2>4, ZenonT(30) DEF SideOK
<1>12. LifeOK' BY <1>1, <1>4, <1>5, <1>9, <1>10 DEF Core, LifeOK
<1>13. CountOK'
  <2>1. Total' = extra + side.rc + InTransit' BY <1>4, <1>5 DEF Total, InTransit
  <2>2. Total' = Cardinality(OwnedRefs) - 1 /\ Total' > 0 BY <1>1, <1>2, <1>10, <2>1, Widths
  <2> QED BY <1>8, <2>2 DEF CountOK
<1>14. location' \in BOOLEAN BY <1>5 DEF Core, TypeOK
<1> QED BY <1>1, <1>4, <1>5, <1>8, <1>9, <1>11, <1>12, <1>13, <1>14, LiveReturn, ZenonT(30)

\* A release that counts down inline, and the one that finds it was the last.
LEMMA ReleaseInlineStep ==
  ASSUME Core, NEW t \in Threads, ReleaseInline(t) PROVE Core'
<1> USE DEF ReleaseInline, At
<1>0. ThreadOK(t) /\ pc[t] = "loop" /\ op[t] = "release" /\ isa.nonpointer /\ isa = oldisa[t]
      /\ ~isDeallocating(isa) /\ own[t] > 0 /\ isa.extra_rc > 0
  BY DEF Core, Countable, ThreadOK, Owns
<1>1. deallocator # t BY <1>0 DEF ThreadOK, Sees
<1>2. life = "live" BY <1>0, <1>1, CountsLive
<1>3. /\ isa' \in Isas /\ isa'.extra_rc = isa.extra_rc - 1 /\ isa'.nonpointer
      /\ isa'.has_sidetable_rc = isa.has_sidetable_rc /\ isa'.weakly_referenced = isa.weakly_referenced
  BY <1>0, Widths DEF Isas, Core, TypeOK
<1>4. LockStep(t) /\ lock' \in Threads \cup {None} BY <1>0 DEF LockStep, UnlockIf, ThreadOK, NeedsLock, Core, TypeOK
<1>5. /\ own' \in [Threads -> Nat] /\ own'[t] <= MaxOwn /\ \A u \in Threads \ {t} : own'[u] = own[u]
      /\ Cardinality(OwnedRefs') = Cardinality(OwnedRefs) - 1 /\ Cardinality(OwnedRefs') \in Nat
      /\ Cardinality(OwnedRefs') = 0 => \A u \in Threads : own'[u] = 0
  BY <1>0, HoldDown
<1>6. /\ Total = isa.extra_rc + side.rc + InTransit /\ Total = Cardinality(OwnedRefs)
      /\ side.rc \in Nat /\ isa.extra_rc \in Nat /\ InTransit \in Int
  BY <1>0, <1>2, CountFacts, TransitFacts DEF Core, CountOK
<1>7. side \in Sides /\ location' \in BOOLEAN BY DEF Core, TypeOK
<1>8. pc'[t] \in {"idle", "dealloc"} /\ \A u \in Threads \ {t} : SameThread(u)
  BY <1>5 DEF BeginDealloc, Return, Forget, Home, Core, TypeOK, SameThread
<1>9. Splitting' = Splitting /\ Moving' = Moving /\ InTransit' = InTransit
  BY <1>0, <1>4, <1>8, LightStep DEF Core, Heavy, InTransit
<1>10. SideOK' BY <1>0, <1>3, <1>9 DEF Core, SideOK
<1>11. CASE isDeallocating(isa')
  <2>1. BeginDealloc(t) BY <1>11
  <2>2. isa.extra_rc = 1 /\ ~isa.has_sidetable_rc BY <1>0, <1>3, <1>6, <1>11 DEF isDeallocating
  <2>3. side.rc = 0 BY <1>0, <2>2 DEF Core, SideOK, NoEntry
  <2>4. InTransit = 0 BY <1>0, <2>2, TransitFacts
  <2>5. Cardinality(OwnedRefs') = 0 BY <1>5, <1>6, <2>2, <2>3, <2>4
  <2>6. LifeOK' BY <1>0, <1>3, <1>11, <2>1, Widths DEF Core, LifeOK, BeginDealloc
  <2>7. \A u \in Threads : own'[u] = 0 BY <1>5, <2>5, ZenonT(30)
  <2>8. \A u \in Threads \ {t} : own[u] = 0 BY <1>5, <2>7
  <2>9. lock \in {t, None} \/ lock' = lock BY <1>4 DEF LockStep
  <2> QED BY <1>0, <1>2, <1>3, <1>4, <1>5, <1>7, <1>10, <2>1, <2>6, <2>7, <2>8, <2>9, LastReturn, ZenonT(30)
<1>12. CASE ~isDeallocating(isa')
  <2>1. /\ UNCHANGED <<life, deallocator>> /\ Forget(t)
        /\ pc' \in {[pc EXCEPT ![t] = Home(t)], [pc EXCEPT ![t] = "weakUnlock"]}
    BY <1>12 DEF Return, lifeVars
  <2>2. LifeOK' BY <1>0, <1>2, <1>3, <1>9, <2>1 DEF Core, LifeOK
  <2>3. Total' = isa'.extra_rc + side.rc + InTransit' BY <1>3 DEF Total, InTransit
  <2>4. Total' = Total - 1 BY <1>3, <1>6, <1>9, <2>3
  <2>5. Total' > 0
    <3>1. isa'.extra_rc > 0 \/ isa.has_sidetable_rc BY <1>3, <1>6, <1>0, <1>12 DEF isDeallocating
    <3>2. InTransit >= 0 /\ (isa.has_sidetable_rc => InTransit > 0 \/ side.rc > 0)
      BY <1>0, TransitFacts, Widths DEF Core, SideOK
    <3> QED BY <1>3, <1>6, <1>9, <2>3, <3>1, <3>2
  <2>6. CountOK' BY <1>5, <1>6, <2>4, <2>5 DEF CountOK
  <2>7. lock \in {t, None} \/ lock' = lock BY <1>4 DEF LockStep
  <2> QED BY <1>0, <1>2, <1>3, <1>4, <1>5, <1>7, <1>10, <2>1, <2>2, <2>6, <2>7, LiveReturn, ZenonT(30)
<1> QED BY <1>11, <1>12

\* A call on a dying object, made by -dealloc: the count is left alone.
LEMMA DyingSteps ==
  ASSUME Core, NEW t \in Threads, (RetainDying(t) /\ op[t] = "retain") \/ ReleaseDying(t) PROVE Core'
<1> USE DEF RetainDying, ReleaseDying, At, objectVars
<1>0. ThreadOK(t) /\ pc[t] = "loop" /\ op[t] \in {"retain", "release"} /\ oldisa[t].nonpointer
      /\ isDeallocating(oldisa[t])
  BY DEF Core
<1>1. deallocator = t /\ t # None BY <1>0, Widths DEF ThreadOK, Sees
<1>2. Return(t) BY <1>0 DEF EndRetain
<1>3. own' \in [Threads -> Nat] /\ own'[t] <= MaxOwn /\ \A u \in Threads \ {t} : own'[u] = own[u]
  <2>1. CASE op[t] = "retain"
    <3>1. own[t] < MaxOwn BY <1>0, <2>1 DEF ThreadOK, Owns, Retaining
    <3>2. Hold(t, 1) BY <2>1
    <3> QED BY <3>1, <3>2, HoldUp
  <2>2. CASE op[t] = "release"
    <3>1. own[t] > 0 /\ Hold(t, -1) BY <1>0, <2>2 DEF ThreadOK, Owns, Retaining
    <3> QED BY <3>1, HoldDown
  <2> QED BY <1>0, <2>1, <2>2
<1>4. LockStep(t) /\ lock' \in Threads \cup {None} BY <1>0 DEF LockStep, UnlockIf, ThreadOK, NeedsLock, Core, TypeOK
<1>5. pc'[t] = "dealloc" /\ \A u \in Threads \ {t} : SameThread(u)
  BY <1>1, <1>2, <1>3 DEF Return, Forget, Home, Core, TypeOK, SameThread
<1>6. Splitting' = Splitting /\ Moving' = Moving
  BY <1>0, <1>4, <1>5, LightStep DEF Core, Heavy
<1>7. SideOK' BY <1>6 DEF Core, SideOK
<1>8. UNCHANGED <<life, deallocator>> /\ Forget(t) /\ pc' = [pc EXCEPT ![t] = Home(t)]
  BY <1>2 DEF Return, lifeVars
<1>9. LifeOK' BY <1>0, <1>1, <1>6, <1>8 DEF Core, LifeOK, isDeallocating
<1>10. side' \in Sides /\ (lock \in {t, None} \/ lock' = lock) BY <1>4 DEF LockStep, Core, TypeOK
<1> QED BY <1>0, <1>1, <1>3, <1>4, <1>7, <1>8, <1>9, <1>10, DeallocReturn, ZenonT(30)

(***************************************************************************)
(* The count in the side table.                                            *)
(***************************************************************************)
\* Nothing is on its way when a thread that is in the loop may touch the table.
LEMMA RawFacts ==
  ASSUME Core, NEW t \in Threads, pc[t] = "loop", ~oldisa[t].nonpointer, lock \in {t, None}
  PROVE  /\ ~isa.nonpointer /\ isa = RawIsa /\ isa \in Isas /\ ~Splitting /\ ~Moving
         /\ side \in Sides /\ side.rc \in 0..(SideMod - 1)
         /\ Total = 1 + side.rc
         /\ life = "live" => ~side.deallocating
         /\ life = "deallocating" => side.deallocating \/ pc[deallocator] = "free"
         /\ location => side.weak
         /\ side.rc > 0 \/ side.deallocating => side.present
<1>0. ThreadOK(t) BY DEF Core
<1>1. ~isa.nonpointer BY <1>0 DEF ThreadOK, Sees
<1>2. ~Splitting /\ ~Moving /\ InTransit = 0 BY DEF Splitting, Moving, Busy, InTransit, Carried
<1>3. Total = 1 + side.rc + InTransit /\ side.rc \in 0..(SideMod - 1) BY <1>1, CountFacts
<1>4. isa = RawIsa /\ (side.rc > 0 \/ side.deallocating => side.present) BY <1>1 DEF Core, SideOK
<1>5. side \in Sides /\ isa \in Isas BY DEF Core, TypeOK
<1> QED BY <1>1, <1>2, <1>3, <1>4, <1>5 DEF Core, LifeOK

\* sidetable_retain adds one to a side table that is not pinned.
LEMMA SideRetained ==
  ASSUME NEW s \in Sides, NEW r, r = sidetable_retain(s)
  PROVE  /\ r \in Sides /\ r.present /\ r.deallocating = s.deallocating /\ r.weak = s.weak
         /\ Pinned(s) => Pinned(r)
         /\ ~Pinned(s) => r.rc = s.rc + 1
<1>1. s.rc \in 0..(SideMod - 1) BY DEF Sides
<1>2. CASE Pinned(s)
  <2>1. r = [s EXCEPT !.present = TRUE, !.rc = s.rc] BY <1>2 DEF sidetable_retain
  <2> QED BY <1>2, <2>1, ZenonT(30) DEF Sides, Pinned
<1>3. CASE ~Pinned(s)
  <2>1. r = [s EXCEPT !.present = TRUE, !.rc = s.rc + 1] BY <1>3 DEF sidetable_retain
  <2>2. s.rc + 1 \in 0..(SideMod - 1) BY <1>1, <1>3, Widths DEF Pinned
  <2> QED BY <1>3, <2>1, <2>2, ZenonT(30) DEF Sides
<1> QED BY <1>2, <1>3

\* A retain of a live object with a raw isa: rootRetain's, or the try-retain of a weak load.
LEMMA RawRetained ==
  ASSUME Core, NEW t \in Threads, pc[t] = "loop", ~oldisa[t].nonpointer, lock \in {t, None},
         life = "live", own[t] < MaxOwn, Hold(t, 1), side' = sidetable_retain(side),
         UNCHANGED <<isa, location, life, deallocator>>, Forget(t),
         pc' \in {[pc EXCEPT ![t] = Home(t)], [pc EXCEPT ![t] = "weakUnlock"]}, lock' \in {t, None}
  PROVE  Core'
<1>1. /\ ~isa.nonpointer /\ isa = RawIsa /\ isa \in Isas /\ ~Splitting /\ ~Moving
      /\ side \in Sides /\ side.rc \in 0..(SideMod - 1)
      /\ Total = 1 + side.rc /\ ~side.deallocating
      /\ location => side.weak
  BY RawFacts
<1>2. /\ side' \in Sides /\ side'.present /\ side'.deallocating = side.deallocating /\ side'.weak = side.weak
      /\ Pinned(side) => Pinned(side')
      /\ ~Pinned(side) => side'.rc = side.rc + 1
  <2> DEFINE r == side'
  <2>1. r = sidetable_retain(side) OBVIOUS
  <2> HIDE DEF r
  <2>2. /\ r \in Sides /\ r.present /\ r.deallocating = side.deallocating /\ r.weak = side.weak
        /\ Pinned(side) => Pinned(r)
        /\ ~Pinned(side) => r.rc = side.rc + 1
    BY <1>1, <2>1, SideRetained
  <2> QED BY <2>2 DEF r
<1>3. /\ own' \in [Threads -> Nat] /\ own'[t] <= MaxOwn /\ \A u \in Threads \ {t} : own'[u] = own[u]
      /\ Cardinality(OwnedRefs') = Cardinality(OwnedRefs) + 1
  BY HoldUp
<1>4. pc'[t] \in {"idle", "dealloc", "weakUnlock"} BY DEF Home, Core, TypeOK
<1>5. ~Splitting' /\ ~Moving' /\ InTransit' = 0
  BY <1>4 DEF Splitting, Moving, Busy, InTransit, Carried
<1>6. SideOK' BY <1>1, <1>2 DEF SideOK
<1>7. LifeOK' BY <1>1, <1>2 DEF Core, LifeOK
<1>8. CountOK'
  <2> SUFFICES ASSUME ~Pinned(side') PROVE Total' = Cardinality(OwnedRefs') /\ Total' > 0 BY DEF CountOK
  <2>1. ~Pinned(side) /\ side'.rc = side.rc + 1 BY <1>2
  <2>2. Total' = 1 + side'.rc + InTransit' BY <1>1 DEF Total, InTransit
  <2>3. Total = Cardinality(OwnedRefs) BY <2>1 DEF Core, CountOK
  <2> QED BY <1>1, <1>3, <1>5, <2>1, <2>2, <2>3
<1>9. lock' \in Threads \cup {None} /\ location' \in BOOLEAN BY DEF Core, TypeOK
<1> QED BY <1>1, <1>2, <1>3, <1>6, <1>7, <1>8, <1>9, LiveReturn

\* retain of a raw isa counts in the side table.
LEMMA RetainRawStep ==
  ASSUME Core, NEW t \in Threads, RetainRaw(t) PROVE Core'
<1> USE DEF RetainRaw, At
<1>0. ThreadOK(t) /\ pc[t] = "loop" /\ op[t] = "retain" /\ ~oldisa[t].nonpointer BY DEF Core
<1>1. lock \in {t, None} /\ own[t] < MaxOwn /\ lock' = None
  BY <1>0 DEF ThreadOK, NeedsLock, Owns, Retaining
<1>2. UNCHANGED <<life, deallocator>> /\ Forget(t) /\ pc' = [pc EXCEPT ![t] = Home(t)]
  BY DEF Return, lifeVars
<1>3. CASE deallocator # t
  <2>1. life = "live" BY <1>0, <1>3, CountsLive
  <2> QED BY <1>0, <1>1, <1>2, <2>1, RawRetained, ZenonT(30)
<1>4. CASE deallocator = t
  <2>1. life = "deallocating" BY <1>4, Widths DEF Core, LifeOK
  <2>2. /\ ~isa.nonpointer /\ isa = RawIsa /\ side \in Sides /\ side.deallocating
        /\ location => side.weak
    BY <1>0, <1>1, <1>4, <2>1, RawFacts
  <2>3. side' \in Sides /\ side'.present /\ side'.deallocating /\ side'.weak = side.weak
    <3> DEFINE r == side'
    <3>1. r = sidetable_retain(side) OBVIOUS
    <3> HIDE DEF r
    <3>2. r \in Sides /\ r.present /\ r.deallocating = side.deallocating /\ r.weak = side.weak
      BY <2>2, <3>1, SideRetained, ZenonT(30)
    <3> QED BY <2>2, <3>2 DEF r
  <2>4. SideOK' BY <2>2, <2>3 DEF SideOK
  <2>5. LifeOK' BY <1>2, <2>1, <2>2, <2>3 DEF Core, LifeOK
  <2>6. own' \in [Threads -> Nat] /\ own'[t] <= MaxOwn /\ \A u \in Threads \ {t} : own'[u] = own[u]
    BY <1>1, HoldUp
  <2> QED BY <1>0, <1>1, <1>2, <1>4, <2>3, <2>4, <2>5, <2>6, DeallocReturn, ZenonT(30)
<1> QED BY <1>3, <1>4

\* A try-retain that succeeds had a live object: the variable still held it under
\* the lock, and the side table did not say that it was deallocating.
LEMMA TryRetainRawSucceeds ==
  ASSUME Core, NEW t \in Threads, TryRetainRaw(t), ~side.deallocating PROVE Core'
<1> USE DEF TryRetainRaw, At
<1>0. ThreadOK(t) /\ pc[t] = "loop" /\ op[t] = "loadWeak" /\ ~oldisa[t].nonpointer BY DEF Core
<1>1. lock = t /\ own[t] < MaxOwn /\ lock' = t /\ location
  BY <1>0 DEF ThreadOK, NeedsLock, Owns, Retaining, Sees
<1>2. UNCHANGED <<life, deallocator>> /\ Forget(t) /\ pc' = [pc EXCEPT ![t] = "weakUnlock"]
  BY DEF ReturnTry, lifeVars
<1>3. life = "live"
  <2>1. life # "freed" BY <1>0, NotFreed DEF Away
  <2>2. ASSUME life = "deallocating" PROVE FALSE
    <3>1. pc[deallocator] = "free" BY <1>0, <1>1, <2>2, RawFacts
    <3>2. deallocator \in Threads BY <2>2 DEF Core, LifeOK, TypeOK
    <3> QED BY <1>1, <3>1, <3>2 DEF Core, ThreadOK, Deallocs
  <2> QED BY <2>1, <2>2 DEF Core, TypeOK
<1> QED BY <1>0, <1>1, <1>2, <1>3, RawRetained, ZenonT(30)

\* A release of an object with a raw isa: by -dealloc itself, of a pinned count,
\* the last one, or one of several.
LEMMA ReleaseRawStep ==
  ASSUME Core, NEW t \in Threads, ReleaseRaw(t) PROVE Core'
<1> USE DEF ReleaseRaw, At
<1>0. ThreadOK(t) /\ pc[t] = "loop" /\ op[t] = "release" /\ ~oldisa[t].nonpointer BY DEF Core
<1>1. lock \in {t, None} /\ own[t] > 0 /\ lock' = None BY <1>0 DEF ThreadOK, NeedsLock, Owns
<1>2. /\ own' \in [Threads -> Nat] /\ own'[t] <= MaxOwn /\ \A u \in Threads \ {t} : own'[u] = own[u]
      /\ Cardinality(OwnedRefs') = Cardinality(OwnedRefs) - 1 /\ Cardinality(OwnedRefs') \in Nat
      /\ Cardinality(OwnedRefs') = 0 => \A u \in Threads : own'[u] = 0
  BY <1>1, HoldDown
<1>3. /\ ~isa.nonpointer /\ isa = RawIsa /\ isa \in Isas
      /\ side \in Sides /\ side.rc \in 0..(SideMod - 1) /\ Total = 1 + side.rc
      /\ location => side.weak
      /\ side.rc > 0 \/ side.deallocating => side.present
  BY <1>0, <1>1, RawFacts
<1>4. ~Splitting' /\ ~Moving' /\ InTransit' = 0 BY <1>1 DEF Splitting, Moving, Busy, InTransit
<1>5. ~LastRelease(side) =>
        /\ side' \in Sides /\ side'.present = side.present
        /\ side'.deallocating = side.deallocating /\ side'.weak = side.weak
        /\ side'.rc = IF Pinned(side) THEN side.rc ELSE (side.rc - 1) % SideMod
  <2>1. (side.rc - 1) % SideMod \in 0..(SideMod - 1)
    <3> DEFINE x == side.rc - 1
    <3>1. x \in Int /\ SideMod \in Nat \ {0} BY <1>3, Widths
    <3> HIDE DEF x
    <3>2. x % SideMod \in 0..(SideMod - 1) BY <3>1, DivMod
    <3> QED BY <3>2 DEF x
  <2> DEFINE n == IF Pinned(side) THEN side.rc ELSE (side.rc - 1) % SideMod
  <2>2. n \in 0..(SideMod - 1) BY <1>3, <2>1
  <2>3. ~LastRelease(side) => side' = [side EXCEPT !.rc = n] BY DEF sidetable_release
  <2> HIDE DEF n
  <2>4. ~LastRelease(side) =>
          /\ side' \in Sides /\ side'.present = side.present /\ side'.rc = n
          /\ side'.deallocating = side.deallocating /\ side'.weak = side.weak
    BY <1>3, <2>2, <2>3 DEF Sides
  <2> QED BY <2>4 DEF n
<1>6. lock' \in Threads \cup {None} /\ location' \in BOOLEAN BY <1>1 DEF Core, TypeOK
<1>7. CASE deallocator = t
  <2>1. life = "deallocating" BY <1>7, Widths DEF Core, LifeOK
  <2>2. side.deallocating BY <1>0, <1>1, <1>7, <2>1, RawFacts
  <2>3. ~LastRelease(side) BY <2>2 DEF LastRelease
  <2>4. UNCHANGED <<life, deallocator>> /\ Forget(t) /\ pc' = [pc EXCEPT ![t] = Home(t)]
    BY <2>3 DEF Return, lifeVars
  <2>5. SideOK' BY <1>3, <1>5, <2>2, <2>3 DEF SideOK
  <2>6. LifeOK' BY <1>3, <1>5, <2>1, <2>2, <2>3, <2>4, ZenonT(30) DEF Core, LifeOK
  <2> QED BY <1>0, <1>1, <1>2, <1>5, <1>6, <1>7, <2>3, <2>4, <2>5, <2>6, DeallocReturn, ZenonT(30)
<1>8. CASE deallocator # t
  <2>1. life = "live" BY <1>0, <1>8, CountsLive
  <2>2. ~side.deallocating BY <1>0, <1>1, <2>1, RawFacts
  <2>3. CASE LastRelease(side)
    <3>1. BeginDealloc(t) BY <2>3
    <3>2. side.rc = 0 /\ ~Pinned(side) BY <2>3, Widths DEF LastRelease, Pinned
    <3>3. side' = [side EXCEPT !.present = TRUE, !.deallocating = TRUE] BY <2>3 DEF sidetable_release
    <3>4. side' \in Sides /\ side'.present /\ side'.deallocating /\ side'.weak = side.weak
      BY <1>3, <3>3, ZenonT(30) DEF Sides
    <3>5. Cardinality(OwnedRefs) = 1 BY <1>3, <2>1, <3>2 DEF Core, CountOK
    <3>6. Cardinality(OwnedRefs') = 0 BY <1>2, <3>5
    <3>7. \A u \in Threads : own'[u] = 0 BY <1>2, <3>6, ZenonT(30)
    <3>8. \A u \in Threads \ {t} : own[u] = 0 BY <1>2, <3>7
    <3>9. SideOK' BY <1>3, <3>4 DEF SideOK
    <3>10. LifeOK' BY <1>3, <3>1, <3>4, Widths DEF LifeOK, BeginDealloc
    <3> QED BY <1>1, <1>2, <1>3, <1>6, <2>1, <3>1, <3>4, <3>7, <3>8, <3>9, <3>10, LastReturn
  <2>4. CASE ~LastRelease(side)
    <3>1. UNCHANGED <<life, deallocator>> /\ Forget(t) /\ pc' = [pc EXCEPT ![t] = Home(t)]
      BY <2>4 DEF Return, lifeVars
    <3>2. side.rc > 0 /\ side.present BY <1>3, <2>2, <2>4 DEF LastRelease
    <3>3. SideOK' BY <1>3, <1>5, <2>4, <3>2, ZenonT(30) DEF SideOK
    <3>4. LifeOK' BY <1>3, <1>5, <2>1, <2>2, <2>4, <3>1 DEF Core, LifeOK
    <3>5. CountOK'
      <4> SUFFICES ASSUME ~Pinned(side') PROVE Total' = Cardinality(OwnedRefs') /\ Total' > 0
        BY DEF CountOK
      <4>1. ~Pinned(side) BY <1>5, <2>4 DEF Pinned
      <4>2. (side.rc - 1) % SideMod = side.rc - 1
        <5> DEFINE x == side.rc - 1
        <5>1. x \in 0..(SideMod - 1) /\ SideMod \in Nat BY <1>3, <3>2, Widths
        <5> HIDE DEF x
        <5>2. x % SideMod = x BY <5>1
        <5> QED BY <5>2 DEF x
      <4>3. side'.rc = side.rc - 1 BY <1>5, <2>4, <4>1, <4>2
      <4>4. Total' = 1 + side'.rc + InTransit' BY <1>3 DEF Total, InTransit
      <4>5. Total = Cardinality(OwnedRefs) BY <2>1, <4>1 DEF Core, CountOK
      <4> QED BY <1>2, <1>3, <1>4, <3>2, <4>3, <4>4, <4>5
    <3> QED BY <1>1, <1>2, <1>3, <1>5, <1>6, <2>1, <2>4, <3>1, <3>3, <3>4, <3>5, LiveReturn, ZenonT(30)
  <2> QED BY <2>3, <2>4
<1> QED BY <1>7, <1>8

\* A step of the deallocating thread leaves the others what they need: nobody
\* holds the object any more.
LEMMA DyingLeaves ==
  ASSUME Core, NEW t \in Threads, deallocator = t, deallocator' \in {t, None},
         \A u \in Threads \ {t} : SameThread(u),
         isa'.nonpointer => isa.nonpointer, isa' = isa \/ Changing(t),
         \/ lock \in {t, None} /\ (lock = None => isa' = isa)
         \/ lock' = lock /\ side' = side /\ location' = location /\ isa' = isa
  PROVE  \A u \in Threads \ {t} : Leaves(u) /\ own[u] = 0 /\ pc[u] # "free"
<1> SUFFICES ASSUME NEW u \in Threads \ {t} PROVE Leaves(u) /\ own[u] = 0 /\ pc[u] # "free" OBVIOUS
<1>0. ThreadOK(u) /\ None \notin Threads /\ life = "deallocating" BY Widths DEF Core, LifeOK
<1>1. pc[u] # "free" /\ ~(own[u] > 0) /\ own[u] \in Nat BY <1>0 DEF ThreadOK, Deallocs, Core, TypeOK
<1>2. Changing(u) => isa' = isa BY DEF Core, OneChanger
<1> QED BY <1>0, <1>1, <1>2 DEF Leaves

(***************************************************************************)
(* From a nonpointer isa to a raw one.                                     *)
(***************************************************************************)
\* The thread that changes the isa of a dying object is the one that runs -dealloc.
LEMMA ChangerFacts ==
  ASSUME Core, NEW t \in Threads, Changing(t), pc[t] \in {"loop", "move"}
  PROVE  \/ life = "live" /\ deallocator = None
         \/ life = "deallocating" /\ deallocator = t
<1>1. life # "freed" BY NotFreed DEF Away
<1>2. ThreadOK(t) BY DEF Core
<1>3. own[t] > 0 \/ deallocator = t BY <1>2 DEF ThreadOK, Owns, Changing
<1>4. deallocator # t => life = "live" BY <1>2, <1>3 DEF ThreadOK, Deallocs
<1> QED BY <1>1, <1>4, Widths DEF Core, TypeOK, LifeOK

\* changeIsa makes the isa raw, the count it held still to be moved.
LEMMA ToRawStep ==
  ASSUME Core, NEW t \in Threads, ToRaw(t) PROVE Core'
<1> USE DEF ToRaw, At, lifeVars, localVars
<1>0. ThreadOK(t) /\ pc[t] = "loop" /\ op[t] = "toRaw" /\ locked[t] /\ isa.nonpointer /\ isa = oldisa[t]
  BY DEF Core
<1>1. lock = t /\ isa' = RawIsa /\ newisa[t] = RawIsa /\ RawIsa \in Isas /\ Changing(t)
  BY <1>0, Widths DEF ThreadOK, NeedsLock, Sees, RawIsa, Isas, Changing
<1>2. pc'[t] = "move" /\ \A u \in Threads \ {t} : SameThread(u) BY DEF Core, TypeOK, SameThread
<1>3. TypeOK' BY <1>1 DEF Core, TypeOK, PCs
<1>4. ~Splitting /\ InTransit = 0 BY <1>0, <1>1 DEF Splitting, Busy, InTransit, Carried
<1>5. Moving' /\ ~Splitting' /\ InTransit' = oldisa[t].extra_rc - 1
  BY <1>1, <1>2, Widths DEF Moving, Splitting, Busy, InTransit, Carried
<1>6. ~isa'.nonpointer /\ isa'.nonpointer = FALSE BY <1>1 DEF RawIsa
<1>7. \/ life = "live" /\ deallocator = None
      \/ life = "deallocating" /\ deallocator = t
  BY <1>0, <1>1, ChangerFacts
<1>8. ThreadOK(t)'
  <2>1. Placed(t)' BY <1>0, <1>2 DEF ThreadOK, Placed
  <2>2. Owns(t)' BY <1>0, <1>2 DEF ThreadOK, Owns, Retaining
  <2>3. side.rc < PINNED /\ (~isa.has_sidetable_rc => side.rc = 0)
    BY <1>0 DEF Core, SideOK, NoEntry
  <2>4. (location => isa.weakly_referenced) /\ (deallocator = t => isDeallocating(isa))
    BY <1>0, <1>7, Widths DEF Core, LifeOK
  <2>5. Sees(t)' BY <1>0, <1>1, <1>2, <1>6, <2>3, <2>4 DEF Sees
  <2>6. Deallocs(t)' BY <1>0, <1>2 DEF ThreadOK, Deallocs
  <2> QED BY <1>1, <2>1, <2>2, <2>5, <2>6 DEF ThreadOK
<1>9. SideOK' BY <1>1, <1>6 DEF Core, SideOK
<1>10. LifeOK' BY <1>5, <1>6 DEF Core, LifeOK
<1>11. CountOK'
  <2>1. Total = isa.extra_rc + side.rc + InTransit /\ ~Pinned(side) BY <1>0, CountFacts
  <2>2. Total' = 1 + side.rc + InTransit' BY <1>6 DEF Total, InTransit
  <2>3. Total' = Total BY <1>0, <1>4, <1>5, <2>1, <2>2, CountFacts
  <2>4. OwnedRefs' = OwnedRefs BY RefsOwned
  <2> QED BY <2>1, <2>3, <2>4 DEF Core, CountOK
<1>12. \A u \in Threads \ {t} : Leaves(u)
  <2>1. CASE life = "live" BY <1>0, <1>1, <1>2, <1>3, <1>6, <2>1, LiveLeaves
  <2>2. CASE deallocator = t BY <1>1, <1>2, <1>6, <2>2, Widths, DyingLeaves
  <2> QED BY <1>7, <2>1, <2>2
<1> QED BY <1>1, <1>3, <1>7, <1>8, <1>9, <1>10, <1>11, <1>12, StepOfOne

\* The count of the old isa arrives in the side table: all of it, or the count is
\* pinned there when the old isa had left all of its count in the table.
LEMMA ToRawMoveStep ==
  ASSUME Core, NEW t \in Threads, ToRawMove(t) PROVE Core'
<1> USE DEF ToRawMove
<1>0. ThreadOK(t) /\ pc[t] = "move" /\ op[t] = "toRaw" /\ Changing(t)
  BY DEF Core, ThreadOK, Placed, Changing
<1>1. lock = t /\ lock' = None /\ ~isa.nonpointer /\ isa = RawIsa
  BY <1>0 DEF ThreadOK, NeedsLock, Sees, Core, SideOK
<1>2. \/ life = "live" /\ deallocator = None
      \/ life = "deallocating" /\ deallocator = t
  BY <1>0, ChangerFacts
<1>3. /\ side.rc < PINNED /\ (~oldisa[t].has_sidetable_rc => side.rc = 0)
      /\ location => oldisa[t].weakly_referenced
      /\ deallocator = t => isDeallocating(oldisa[t])
  BY <1>0 DEF ThreadOK, Sees
<1>4. side.rc \in Nat /\ oldisa[t] \in Isas /\ oldisa[t].extra_rc \in Nat
  BY CountFacts DEF Core, TypeOK, Isas
<1> DEFINE x == oldisa[t].extra_rc
           d == (x - 1) % SideMod
           n == AddCarry(side, d)
<1>5. /\ side'.present /\ side'.rc = n /\ side'.deallocating = isDeallocating(oldisa[t])
      /\ side'.weak = oldisa[t].weakly_referenced
      /\ side' = [present |-> TRUE, rc |-> n, deallocating |-> isDeallocating(oldisa[t]),
                  weak |-> oldisa[t].weakly_referenced]
  BY DEF sidetable_moveExtraRC_nolock
<1>6. d \in 0..(SideMod - 1)
  <2> DEFINE y == x - 1
  <2>1. y \in Int /\ SideMod \in Nat \ {0} BY <1>4, Widths
  <2> HIDE DEF y
  <2>2. y % SideMod \in 0..(SideMod - 1) BY <2>1, DivMod
  <2> QED BY <2>2 DEF y
<1>7. x = 0 => d = SideMod - 1 BY Widths
<1>8. x > 0 /\ x <= SideMod => d = x - 1
  <2> SUFFICES ASSUME x > 0, x <= SideMod PROVE d = x - 1 OBVIOUS
  <2> DEFINE y == x - 1
  <2>1. y \in 0..(SideMod - 1) /\ SideMod \in Nat BY <1>4, Widths
  <2> HIDE DEF y
  <2>2. y % SideMod = y BY <2>1
  <2> QED BY <2>2 DEF y
<1> HIDE DEF x, d
<1>9. n \in 0..(SideMod - 1) BY <1>4, <1>6, Widths DEF AddCarry
<1> HIDE DEF n
<1>10. side' \in Sides
  <2>1. isDeallocating(oldisa[t]) \in BOOLEAN /\ oldisa[t].weakly_referenced \in BOOLEAN
    BY <1>4 DEF isDeallocating, Isas
  <2> QED BY <1>5, <1>9, <2>1 DEF Sides
<1>11. ~Splitting' /\ ~Moving' /\ InTransit' = 0 BY <1>1 DEF Splitting, Moving, Busy, InTransit
<1>12. SideOK' BY <1>1, <1>5 DEF SideOK
<1>13. UNCHANGED <<life, deallocator>> /\ Forget(t) /\ pc' = [pc EXCEPT ![t] = Home(t)]
  BY DEF Return, lifeVars
<1>14. own' \in [Threads -> Nat] /\ own'[t] <= MaxOwn /\ isa' \in Isas /\ location' \in BOOLEAN
       /\ lock' \in Threads \cup {None}
  BY <1>0, <1>1 DEF Core, TypeOK, ThreadOK, Owns
<1>15. CASE life = "live" /\ deallocator = None
  <2>1. InTransit = x - 1
    BY <1>0, <1>1, Widths DEF InTransit, Carried, x
  <2>2. ~Pinned(side) BY <1>3, <1>4, Widths DEF Pinned
  <2>3. Total = side.rc + x /\ Total = Cardinality(OwnedRefs) /\ Total > 0
    <3>1. Total = Cardinality(OwnedRefs) /\ Total > 0 BY <1>15, <2>2 DEF Core, CountOK
    <3>2. x \in Nat BY <1>4 DEF x
    <3>3. Total = 1 + side.rc + InTransit BY <1>1, CountFacts
    <3> QED BY <1>4, <2>1, <3>1, <3>2, <3>3
  <2>4. x \in Nat /\ side.rc + x < PINNED /\ x <= SideMod BY <1>4, <2>3, CountFacts, Widths DEF x
  <2>5. ~isDeallocating(oldisa[t]) BY <1>3, <1>4, <2>3 DEF isDeallocating, x
  <2>6. LifeOK' BY <1>1, <1>3, <1>5, <1>13, <1>15, <2>5 DEF LifeOK, RawIsa
  <2>7. CountOK'
    <3>1. CASE x = 0
      <4>1. n = PINNED BY <1>4, <1>7, <2>3, <3>1, Widths DEF n, AddCarry
      <4> QED BY <1>5, <4>1, Widths DEF CountOK, Pinned
    <3>2. CASE x > 0
      <4>1. d = x - 1 BY <1>8, <2>4, <3>2
      <4>2. n = side.rc + x - 1 BY <1>4, <2>4, <4>1, Widths DEF n, AddCarry
      <4>3. Total' = 1 + n + InTransit' BY <1>1, <1>5 DEF Total, InTransit
      <4>4. Total' = Total BY <1>4, <1>11, <2>3, <2>4, <4>2, <4>3
      <4>5. OwnedRefs' = OwnedRefs BY RefsOwned
      <4> QED BY <2>3, <4>4, <4>5 DEF CountOK
    <3> QED BY <2>4, <3>1, <3>2
  <2> QED BY <1>1, <1>10, <1>12, <1>13, <1>14, <1>15, <2>6, <2>7, LiveReturn, ZenonT(30)
<1>16. CASE life = "deallocating" /\ deallocator = t
  <2>1. LifeOK' BY <1>1, <1>3, <1>5, <1>13, <1>16, Widths DEF LifeOK, RawIsa
  <2> QED BY <1>0, <1>1, <1>10, <1>12, <1>13, <1>14, <1>16, <2>1, DeallocReturn, ZenonT(30)
<1> QED BY <1>2, <1>15, <1>16

(***************************************************************************)
(* The weak variable, and deallocation.                                    *)
(***************************************************************************)
\* setWeaklyReferenced_nolock marks the isa, or the side table, of a live object.
LEMMA SetWeaklyReferencedStep ==
  ASSUME Core, NEW t \in Threads, SetWeaklyReferenced(t) PROVE Core'
<1> USE DEF SetWeaklyReferenced, At
<1>0. ThreadOK(t) /\ pc[t] = "loop" /\ op[t] = "initWeak" BY DEF Core
<1>1. lock = t /\ lock' = None /\ own[t] > 0 /\ deallocator # t
  BY <1>0 DEF ThreadOK, NeedsLock, Owns
<1>2. life = "live" BY <1>0, <1>1 DEF ThreadOK, Deallocs
<1>3. ~Splitting /\ ~Moving /\ InTransit = 0
  BY <1>0, <1>1 DEF Splitting, Moving, Busy, InTransit, Carried
<1>4. ~Splitting' /\ ~Moving' /\ InTransit' = 0 BY <1>1 DEF Splitting, Moving, Busy, InTransit
<1>5. UNCHANGED <<life, deallocator>> /\ Forget(t) /\ pc' = [pc EXCEPT ![t] = Home(t)]
  BY DEF Return, lifeVars
<1>6. own' \in [Threads -> Nat] /\ own'[t] <= MaxOwn /\ lock' \in Threads \cup {None} /\ location' \in BOOLEAN
  BY <1>0, <1>1 DEF Core, TypeOK, ThreadOK, Owns
<1>7. isa \in Isas /\ side \in Sides BY DEF Core, TypeOK
<1>8. CASE oldisa[t].nonpointer
  <2>1. isa.nonpointer /\ side' = side BY <1>0, <1>8 DEF ThreadOK, Sees
  <2>2. /\ isa' \in Isas /\ isa'.extra_rc = isa.extra_rc /\ isa'.nonpointer
        /\ isa'.has_sidetable_rc = isa.has_sidetable_rc /\ isa'.weakly_referenced
    <3>1. CASE oldisa[t].weakly_referenced
      <4>1. isa' = isa /\ isa.weakly_referenced BY <1>0, <1>8, <3>1 DEF ThreadOK, Sees
      <4> QED BY <1>7, <2>1, <4>1
    <3>2. CASE ~oldisa[t].weakly_referenced
      <4>1. isa' = [isa EXCEPT !.weakly_referenced = TRUE] BY <1>8, <3>2
      <4> QED BY <1>7, <2>1, <4>1, ZenonT(30) DEF Isas
    <3> QED BY <3>1, <3>2
  <2>3. SideOK' BY <1>3, <1>4, <2>1, <2>2 DEF Core, SideOK
  <2>4. LifeOK' BY <1>2, <1>5, <2>1, <2>2 DEF Core, LifeOK
  <2>5. CountOK'
    <3>1. Total' = Total BY <1>3, <1>4, <2>1, <2>2 DEF Total, InTransit
    <3>2. OwnedRefs' = OwnedRefs BY RefsOwned
    <3> QED BY <1>2, <2>1, <3>1, <3>2 DEF Core, CountOK, Pinned
  <2> QED BY <1>1, <1>2, <1>5, <1>6, <1>7, <2>1, <2>2, <2>3, <2>4, <2>5, LiveReturn, ZenonT(30)
<1>9. CASE ~oldisa[t].nonpointer
  <2>1. ~isa.nonpointer /\ isa = RawIsa /\ ~side.deallocating
    BY <1>0, <1>1, <1>2, <1>9, RawFacts
  <2>2. side' = [side EXCEPT !.present = TRUE, !.weak = TRUE] /\ isa' = isa BY <1>9
  <2>3. side' \in Sides /\ side'.present /\ side'.weak /\ side'.rc = side.rc /\ ~side'.deallocating
    BY <1>7, <2>1, <2>2, ZenonT(30) DEF Sides
  <2>4. SideOK' BY <2>1, <2>2, <2>3 DEF SideOK
  <2>5. LifeOK' BY <1>2, <1>5, <2>1, <2>2, <2>3 DEF Core, LifeOK
  <2>6. CountOK'
    <3>1. Total' = Total BY <1>3, <1>4, <2>1, <2>2, <2>3 DEF Total, InTransit
    <3>2. OwnedRefs' = OwnedRefs BY RefsOwned
    <3> QED BY <1>2, <2>3, <3>1, <3>2 DEF Core, CountOK, Pinned
  <2> QED BY <1>1, <1>2, <1>5, <1>6, <1>7, <2>2, <2>3, <2>4, <2>5, <2>6, LiveReturn, ZenonT(30)
<1> QED BY <1>8, <1>9

\* Under the lock the bits say where to look: nothing is left of the object.
LEMMA clearDeallocatingStep ==
  ASSUME Core, NEW t \in Threads, clearDeallocating(t) PROVE Core'
<1> USE DEF clearDeallocating, lifeVars, localVars
<1>0. ThreadOK(t) /\ pc[t] = "clear" /\ op[t] = None /\ own[t] = 0 /\ deallocator = t /\ t # None
  BY Widths DEF Core, ThreadOK, Placed, Owns, Deallocs
<1>1. life = "deallocating" BY <1>0 DEF Core, LifeOK
<1>2. isa.nonpointer => ~isa.has_sidetable_rc /\ side = NoEntry
  BY <1>1 DEF Core, LifeOK, SideOK, isDeallocating
<1>3. lock = None => ~Moving BY DEF Moving, Busy
<1>4. ~location'
  BY <1>3, ZenonT(30) DEF Core, LifeOK, TypeOK
<1>5. side' = NoEntry BY <1>2
<1>6. location' \in BOOLEAN BY <1>4, ZenonT(30) DEF Core, TypeOK
<1>7. TypeOK'
  <2>1. NoEntry \in Sides BY Widths DEF NoEntry, Sides
  <2> QED BY <1>5, <1>6, <2>1 DEF Core, TypeOK, PCs
<1>8. pc'[t] = "free" /\ \A u \in Threads \ {t} : SameThread(u) BY DEF Core, TypeOK, SameThread
<1>9. ThreadOK(t)'
  <2>1. Placed(t)' BY <1>0, <1>8 DEF ThreadOK, Placed
  <2>2. Owns(t)' BY <1>0, <1>8, Widths DEF ThreadOK, Owns, Retaining, AllOps
  <2>3. newisa[t] = RawIsa BY <1>0 DEF ThreadOK, Sees
  <2>4. Sees(t)' BY <1>8, <2>3 DEF Sees
  <2>5. Deallocs(t)' BY <1>0, <1>4, <1>5, <1>8 DEF Deallocs
  <2>6. (NeedsLock(t) => lock = t)' BY <1>8 DEF NeedsLock
  <2> QED BY <2>1, <2>2, <2>4, <2>5, <2>6 DEF ThreadOK
<1>10. SideOK'
  <2>1. ~side'.deallocating /\ ~side'.weak /\ side'.rc = 0 BY <1>5 DEF NoEntry
  <2>2. 0 % RC_HALF = 0 /\ 0 < PINNED /\ ~(0 > 0) BY Widths
  <2> QED BY <1>2, <1>5, <2>1, <2>2 DEF Core, SideOK
<1>11. LifeOK' BY <1>0, <1>1, <1>4, <1>8 DEF Core, LifeOK
<1>12. CountOK' BY <1>1 DEF CountOK
<1>13. \A u \in Threads \ {t} : Leaves(u)
  BY <1>0, <1>8, DyingLeaves
<1>14. ~Changing(t)' BY <1>0, Widths DEF Changing, AllOps
<1> QED BY <1>1, <1>7, <1>9, <1>10, <1>11, <1>12, <1>13, <1>14, StepOfOne

\* The object is freed when no thread is anywhere near it.
LEMMA FreeStep ==
  ASSUME Core, NEW t \in Threads, Free(t) PROVE Core'
<1> USE DEF Free, objectVars, localVars
<1>0. ThreadOK(t) /\ pc[t] = "free" /\ op[t] = None /\ own[t] = 0 /\ deallocator = t /\ t # None
      /\ ~location /\ side = NoEntry
  BY Widths DEF Core, ThreadOK, Placed, Owns, Deallocs
<1>1. life = "deallocating" BY <1>0 DEF Core, LifeOK
<1>2. TypeOK' BY DEF Core, TypeOK, PCs
<1>3. pc'[t] = "idle" /\ \A u \in Threads \ {t} : SameThread(u) BY DEF Core, TypeOK, SameThread
<1>4. ThreadOK(t)'
  <2>1. Placed(t)' BY <1>0, <1>3 DEF ThreadOK, Placed
  <2>2. Owns(t)' BY <1>0, <1>3, Widths DEF ThreadOK, Owns, Retaining, AllOps
  <2>3. newisa[t] = RawIsa BY <1>0 DEF ThreadOK, Sees
  <2>4. Sees(t)' BY <1>3, <2>3 DEF Sees
  <2>5. Deallocs(t)' BY <1>0, <1>3 DEF Deallocs
  <2>6. (NeedsLock(t) => lock = t)' BY <1>3 DEF NeedsLock
  <2> QED BY <2>1, <2>2, <2>4, <2>5, <2>6 DEF ThreadOK
<1>5. SideOK' BY <1>0, <1>1 DEF Core, SideOK, LifeOK, isDeallocating
<1>6. LifeOK' BY <1>0 DEF LifeOK
<1>7. CountOK' BY DEF CountOK
<1>8. \A u \in Threads \ {t} : Leaves(u) /\ own[u] = 0 BY <1>0, <1>3, DyingLeaves
<1>9. ASSUME NEW u \in Threads PROVE Away(u)'
  <2>1. CASE u = t BY <1>3, <2>1 DEF Away
  <2>2. CASE u # t
    <3>1. pc'[u] = pc[u] /\ op'[u] = op[u] /\ own[u] = 0 /\ deallocator # u BY <1>0, <1>3, <1>8, <2>2 DEF SameThread
    <3>2. ThreadOK(u) /\ pc[u] \in PCs /\ op[u] \in AllOps \cup {None} BY DEF Core, TypeOK
    <3>3. op[u] \in {"loadWeak", None} BY <3>1, <3>2 DEF ThreadOK, Owns, AllOps
    <3>4. pc[u] # "loop"
      <4>1. pc[u] = "loop" => op[u] # None BY <3>2 DEF ThreadOK, Placed
      <4> QED BY <1>0, <3>2, <3>3, <4>1 DEF ThreadOK, Sees
    <3>5. pc[u] \notin {"add", "move", "borrow", "again", "putback", "dealloc", "clear", "free"}
      BY <3>1, <3>2, <3>3, Widths DEF ThreadOK, Placed, Owns, Deallocs, AllOps
    <3>6. pc[u] = "weakLock" => op[u] = "loadWeak" BY <3>2, <3>3 DEF ThreadOK, Placed
    <3> QED BY <3>1, <3>2, <3>4, <3>5, <3>6 DEF Away, PCs
  <2> QED BY <2>1, <2>2
<1>10. ~Changing(t)' BY <1>0, Widths DEF Changing, AllOps
<1> QED BY <1>0, <1>2, <1>4, <1>5, <1>6, <1>7, <1>8, <1>9, <1>10, StepOfOne

(***************************************************************************)
(* The count is atomic.                                                    *)
(***************************************************************************)
\* What a step does to the references, seen from outside: one more, one less, or
\* none; a pinned count stays pinned; the step that leaves none begins -dealloc.
Shape ==
  \/ /\ life' = life
     /\ life = "live" => /\ Cardinality(OwnedRefs') - Cardinality(OwnedRefs) \in {-1, 0, 1}
                         /\ Pinned(side) => Pinned(side')
  \/ /\ life = "live" /\ life' = "deallocating"
     /\ ~Pinned(side) /\ Cardinality(OwnedRefs) = 1
  \/ life = "deallocating" /\ life' = "freed"

\* A step that leaves the side table, the references and the life alone.
LEMMA ShapeQuiet == ASSUME Core, UNCHANGED <<side, life, own>> PROVE Shape
<1>1. OwnedRefs' = OwnedRefs BY RefsOwned
<1>2. Cardinality(OwnedRefs') - Cardinality(OwnedRefs) = 0 BY <1>1, CountFacts
<1> QED BY <1>2 DEF Shape, Pinned

\* A step that changes the references of one thread by at most one.
LEMMA ShapeHold ==
  ASSUME Core, NEW t \in Threads, life' = life,
         \/ own[t] < MaxOwn /\ Hold(t, 1)
         \/ own[t] > 0 /\ Hold(t, -1)
         \/ own' = own,
         life = "live" /\ Pinned(side) => Pinned(side')
  PROVE  Shape
<1>0. Cardinality(OwnedRefs) \in Nat BY CountFacts
<1>1. CASE own[t] < MaxOwn /\ Hold(t, 1)
  <2>1. Cardinality(OwnedRefs') = Cardinality(OwnedRefs) + 1 BY <1>1, HoldUp
  <2> QED BY <1>0, <2>1 DEF Shape
<1>2. CASE own[t] > 0 /\ Hold(t, -1)
  <2>1. Cardinality(OwnedRefs') = Cardinality(OwnedRefs) - 1 BY <1>2, HoldDown
  <2> QED BY <1>0, <2>1 DEF Shape
<1>3. CASE own' = own
  <2>1. OwnedRefs' = OwnedRefs BY <1>3, RefsOwned
  <2> QED BY <1>0, <2>1 DEF Shape
<1> QED BY <1>1, <1>2, <1>3

\* The steps of the retains that change a count.
LEMMA ShapeRetain ==
  ASSUME Core, NEW t \in Threads,
         \/ RetainRaw(t) \/ TryRetainRaw(t) \/ RetainDying(t) \/ RetainInline(t)
         \/ RetainSpill(t) \/ RetainAdd(t)
  PROVE  Shape
<1>0. ThreadOK(t) BY DEF Core
<1>1. life' = life
  BY ZenonT(30) DEF RetainRaw, TryRetainRaw, RetainDying, RetainInline, RetainSpill, RetainAdd, EndRetain, Return,
         ReturnTry, lifeVars
<1>2. pc[t] = "loop" /\ op[t] \in Retaining => own[t] < MaxOwn BY <1>0 DEF ThreadOK, Owns
<1>3. (own[t] < MaxOwn /\ Hold(t, 1)) \/ own' = own
  BY <1>2, ZenonT(30) DEF RetainRaw, TryRetainRaw, RetainDying, RetainInline, RetainSpill, RetainAdd, At, Retaining
<1>4. Pinned(side) => Pinned(side')
  <2>1. CASE side' = sidetable_retain(side)
    <3> DEFINE r == side'
    <3>1. r = sidetable_retain(side) /\ side \in Sides BY <2>1 DEF Core, TypeOK
    <3> HIDE DEF r
    <3>2. Pinned(side) => Pinned(r) BY <3>1, SideRetained
    <3> QED BY <3>2 DEF r
  <2>2. CASE RetainAdd(t)
    <3>1. pc[t] = "add" BY <2>2 DEF RetainAdd
    <3>2. isa.nonpointer BY <3>1, SplitFacts
    <3> QED BY <3>2, CountFacts
  <2>3. CASE side' = side BY <2>3
  <2> QED BY <2>1, <2>2, <2>3 DEF RetainRaw, TryRetainRaw, RetainDying, RetainInline, RetainSpill, objectVars
<1> QED BY <1>1, <1>3, <1>4, ShapeHold

\* The release of a raw isa.
LEMMA ShapeReleaseRaw ==
  ASSUME Core, NEW t \in Threads, ReleaseRaw(t) PROVE Shape
<1> USE DEF ReleaseRaw, At
<1>0. ThreadOK(t) /\ pc[t] = "loop" /\ op[t] = "release" BY DEF Core
<1>1. own[t] > 0 /\ lock \in {t, None} BY <1>0 DEF ThreadOK, NeedsLock, Owns
<1>2. CASE LastRelease(side)
  <2>1. ~side.deallocating /\ side.rc = 0 /\ life' = "deallocating" BY <1>2 DEF LastRelease, BeginDealloc
  <2>2. life = "live"
    <3>1. life # "freed" BY <1>1, NotFreed
    <3>2. deallocator # t
      <4>1. deallocator = t => life = "deallocating" BY Widths DEF Core, LifeOK
      <4> QED BY <1>0, <1>1, <2>1, <4>1, RawFacts
    <3> QED BY <1>0, <3>2, CountsLive
  <2>3. Total = 1 /\ ~Pinned(side) BY <1>0, <1>1, <2>1, RawFacts, Widths DEF Pinned
  <2> QED BY <2>1, <2>2, <2>3 DEF Core, CountOK, Shape
<1>3. CASE ~LastRelease(side)
  <2>1. life' = life BY <1>3 DEF Return, lifeVars
  <2>2. Pinned(side) => Pinned(side')
    <3>1. Pinned(side) => side' = [side EXCEPT !.rc = side.rc] BY <1>3 DEF sidetable_release
    <3>2. side \in Sides BY DEF Core, TypeOK
    <3>3. Pinned(side) => side'.rc = side.rc BY <3>1, <3>2 DEF Sides
    <3> QED BY <3>3 DEF Pinned
  <2> QED BY <1>1, <2>1, <2>2, ShapeHold
<1> QED BY <1>2, <1>3

\* The release that finds its count in the isa.
LEMMA ShapeReleaseInline ==
  ASSUME Core, NEW t \in Threads, ReleaseInline(t) PROVE Shape
<1> USE DEF ReleaseInline, At
<1>0. ThreadOK(t) /\ pc[t] = "loop" /\ op[t] = "release" /\ isa.nonpointer /\ isa = oldisa[t]
      /\ ~isDeallocating(isa) /\ own[t] > 0 /\ isa.extra_rc > 0
  BY DEF Core, Countable, ThreadOK, Owns
<1>1. CASE isDeallocating(isa')
  <2>1. life' = "deallocating" BY <1>1 DEF BeginDealloc
  <2>2. deallocator # t BY <1>0 DEF ThreadOK, Sees
  <2>3. life = "live" BY <1>0, <2>2, CountsLive
  <2>4. isa'.extra_rc = isa.extra_rc - 1 /\ isa'.has_sidetable_rc = isa.has_sidetable_rc
    BY DEF Core, TypeOK, Isas
  <2>5. isa.extra_rc = 1 /\ ~isa.has_sidetable_rc BY <1>1, <2>4, CountFacts DEF isDeallocating
  <2>6. side.rc = 0 BY <1>0, <2>5 DEF Core, SideOK, NoEntry
  <2>7. InTransit = 0 BY <1>0, <2>5, TransitFacts
  <2>8. Total = 1 /\ ~Pinned(side) BY <1>0, <2>5, <2>6, <2>7, CountFacts
  <2> QED BY <2>1, <2>3, <2>8 DEF Core, CountOK, Shape
<1>2. CASE ~isDeallocating(isa')
  <2>1. life' = life /\ side' = side BY <1>2 DEF Return, lifeVars
  <2> QED BY <1>0, <2>1, ShapeHold
<1> QED BY <1>1, <1>2

\* The steps of a borrow, of a move, of objc_initWeak and of -dealloc.
LEMMA ShapeOther ==
  ASSUME Core, NEW t \in Threads,
         \/ ReleaseDying(t) \/ ReleaseBorrow(t) \/ ReleaseStore(t) \/ ReleaseStoreAgain(t)
         \/ ReleasePutBack(t) \/ ToRawMove(t) \/ SetWeaklyReferenced(t) \/ clearDeallocating(t)
  PROVE  Shape
<1>0. ThreadOK(t) BY DEF Core
<1>1. CASE ReleaseDying(t)
  <2>1. own[t] > 0 /\ Hold(t, -1) /\ side' = side /\ life' = life
    BY <1>0, <1>1 DEF ThreadOK, Owns, ReleaseDying, At, Return, lifeVars, objectVars
  <2> QED BY <2>1, ShapeHold
<1>2. CASE ReleaseBorrow(t)
  <2>1. own' = own /\ life' = life /\ isa.nonpointer BY <1>2, BorrowFinds
  <2> QED BY <2>1, CountFacts, ShapeHold
<1>3. CASE ReleaseStore(t) \/ ReleaseStoreAgain(t)
  <2>1. own[t] > 0 /\ Hold(t, -1) /\ Return(t) /\ pc[t] \in {"borrow", "again"} BY <1>3, StoreKeeps
  <2>2. life' = life BY <2>1 DEF Return, lifeVars
  <2>3. isa.nonpointer BY <2>1, SplitFacts
  <2> QED BY <2>1, <2>2, <2>3, CountFacts, ShapeHold
<1>4. CASE ReleasePutBack(t)
  <2>1. own' = own /\ life' = life /\ pc[t] = "putback" BY <1>4 DEF ReleasePutBack, lifeVars
  <2>2. isa.nonpointer BY <2>1, SplitFacts
  <2> QED BY <2>1, <2>2, CountFacts, ShapeHold
<1>5. CASE ToRawMove(t)
  <2>1. own' = own /\ life' = life /\ pc[t] = "move" BY <1>5 DEF ToRawMove, Return, lifeVars
  <2>2. side.rc < PINNED BY <1>0, <2>1 DEF ThreadOK, Sees
  <2>3. ~Pinned(side) BY <2>2, CountFacts, Widths DEF Pinned
  <2> QED BY <2>1, <2>3, ShapeHold
<1>6. CASE SetWeaklyReferenced(t)
  <2>1. own' = own /\ life' = life BY <1>6 DEF SetWeaklyReferenced, Return, lifeVars
  <2>2. side' = side \/ side' = [side EXCEPT !.present = TRUE, !.weak = TRUE]
    BY <1>6 DEF SetWeaklyReferenced
  <2>3. side \in Sides BY DEF Core, TypeOK
  <2>4. side'.rc = side.rc BY <2>2, <2>3, ZenonT(30) DEF Sides
  <2> QED BY <2>1, <2>4, ShapeHold DEF Pinned
<1>7. CASE clearDeallocating(t)
  <2>1. own' = own /\ life' = life /\ pc[t] = "clear" BY <1>7 DEF clearDeallocating, lifeVars
  <2>2. deallocator = t BY <1>0, <2>1 DEF ThreadOK, Deallocs
  <2>3. life # "live" BY <2>2, Widths DEF Core, LifeOK
  <2> QED BY <2>1, <2>3, ShapeHold
<1> QED BY <1>1, <1>2, <1>3, <1>4, <1>5, <1>6, <1>7

\* Every step of the runtime has the shape.
LEMMA ShapeOfStep ==
  ASSUME Core, [Next]_vars PROVE Shape
<1> USE DEF objectVars, lifeVars, localVars
<1>1. CASE UNCHANGED vars BY <1>1, ShapeQuiet DEF vars
<1>2. CASE Finished BY <1>2, ShapeQuiet DEF Finished, vars
<1>3. ASSUME NEW t \in Threads, Call(t) PROVE Shape
  <2>1. CASE \E u \in Threads : Give(t, u)
    <3>1. Cardinality(OwnedRefs') = Cardinality(OwnedRefs) BY <2>1, GiveKeeps
    <3>2. life' = life /\ side' = side BY <2>1 DEF Give
    <3>3. Cardinality(OwnedRefs') - Cardinality(OwnedRefs) = 0 BY <3>1, CountFacts
    <3> QED BY <3>2, <3>3 DEF Shape
  <2>2. CASE CallLoadWeak(t) \/ CallInitWeak(t) BY <2>2, ShapeQuiet DEF CallLoadWeak, CallInitWeak
  <2>3. CASE CallRetain(t) \/ CallRelease(t) \/ \E o \in {"toNonpointer", "toRaw"} : CallChangeIsa(t, o)
    BY <2>3, ShapeQuiet DEF CallRetain, CallRelease, CallChangeIsa, Enter
  <2> QED BY <1>3, <2>1, <2>2, <2>3 DEF Call
<1>4. ASSUME NEW t \in Threads, Step(t) PROVE Shape
  <2>1. CASE \/ RetainRaw(t) \/ TryRetainRaw(t) \/ RetainDying(t) \/ RetainInline(t)
             \/ RetainSpill(t) \/ RetainAdd(t)
    BY <2>1, ShapeRetain
  <2>2. CASE ReleaseRaw(t) BY <2>2, ShapeReleaseRaw
  <2>3. CASE ReleaseInline(t) BY <2>3, ShapeReleaseInline
  <2>4. CASE \/ ReleaseDying(t) \/ ReleaseBorrow(t) \/ ReleaseStore(t) \/ ReleaseStoreAgain(t)
             \/ ReleasePutBack(t) \/ ToRawMove(t) \/ SetWeaklyReferenced(t) \/ clearDeallocating(t)
    BY <2>4, ShapeOther
  <2>5. CASE \/ RetainOverflow(t) \/ RetainAgain(t) \/ ReleaseAgain(t) \/ ReleaseUnderflow(t)
             \/ ReleaseLock(t) \/ ChangeIsaAgain(t) \/ SetWeaklyReferencedAgain(t)
             \/ RetainLock(t) \/ ToRawLock(t)
    BY <2>5, ShapeQuiet
    DEF RetainOverflow, RetainAgain, ReleaseAgain, ReleaseUnderflow, ReleaseLock, ChangeIsaAgain,
        SetWeaklyReferencedAgain, RetainLock, ToRawLock
  <2>6. CASE \/ ReleaseStoreFails(t) \/ ReleaseStoreAgainFails(t) \/ KeepNonpointer(t)
             \/ KeepNonpointerAgain(t) \/ ToRaw(t) \/ RawToRaw(t)
    BY <2>6, ShapeQuiet
    DEF ReleaseStoreFails, ReleaseStoreAgainFails, KeepNonpointer, KeepNonpointerAgain, ToRaw, RawToRaw, Return
  <2>7. CASE LoadWeakLock(t) \/ WeakUnlock(t) \/ InitWeakLock(t) \/ rootDealloc(t)
    BY <2>7, ShapeQuiet DEF LoadWeakLock, WeakUnlock, InitWeakLock, rootDealloc, Return
  <2>8. CASE Free(t)
    <3>1. life' = "freed" /\ pc[t] = "free" BY <2>8 DEF Free
    <3>2. life = "deallocating" BY <3>1, Widths DEF Core, ThreadOK, Deallocs, LifeOK
    <3> QED BY <3>1, <3>2 DEF Shape
  <2> QED BY <1>4, <2>1, <2>2, <2>3, <2>4, <2>5, <2>6, <2>7, <2>8 DEF Step
<1> QED BY <1>1, <1>2, <1>3, <1>4 DEF Next

\* What the refinement mapping says of the count.
RepresentedOK ==
  /\ life # "live" => Represented = 0
  /\ life = "live" /\ Pinned(side) => Represented = -1
  /\ life = "live" /\ ~Pinned(side) =>
       Represented = Cardinality(OwnedRefs) /\ Cardinality(OwnedRefs) > 0
  /\ Cardinality(OwnedRefs) \in Nat

\* The number that the isa and the side table stand for is that of the references.
LEMMA RepresentedIs == Core => RepresentedOK
<1> SUFFICES ASSUME Core PROVE RepresentedOK OBVIOUS
<1> QED BY CountFacts DEF RepresentedOK, Represented, Core, CountOK

\* The same of the next state.
LEMMA RepresentedNext == Core' => RepresentedOK'
BY RepresentedIs, PTL

\* Every step of the runtime is one step of the abstract count, or none.
LEMMA AbstractStep ==
  ASSUME Core, Core', Shape PROVE [Abstract!Next]_<<Represented, life>>
<1> USE DEF Abstract!Next, Abstract!Retain, Abstract!Release, Abstract!Pin, Abstract!Free, Abstract!Immortal
<1>0. life \in {"live", "deallocating", "freed"} BY DEF Core, TypeOK
<1> DEFINE n == Cardinality(OwnedRefs)
           m == Cardinality(OwnedRefs')
<1>1. /\ life # "live" => Represented = 0
      /\ life = "live" /\ Pinned(side) => Represented = -1
      /\ life = "live" /\ ~Pinned(side) => Represented = n /\ n > 0
      /\ n \in Nat
  BY RepresentedIs DEF RepresentedOK
<1>2. /\ life' # "live" => Represented' = 0
      /\ life' = "live" /\ Pinned(side') => Represented' = -1
      /\ life' = "live" /\ ~Pinned(side') => Represented' = m /\ m > 0
      /\ m \in Nat
  BY RepresentedNext DEF RepresentedOK
<1>3. CASE life' = life /\ (life = "live" => m - n \in {-1, 0, 1} /\ (Pinned(side) => Pinned(side')))
  <2> HIDE DEF n, m
  <2>1. CASE life # "live" BY <1>1, <1>2, <1>3, <2>1
  <2>2. CASE life = "live" /\ Pinned(side) BY <1>1, <1>2, <1>3, <2>2
  <2>3. CASE life = "live" /\ ~Pinned(side) /\ Pinned(side') BY <1>1, <1>2, <1>3, <2>3
  <2>4. CASE life = "live" /\ ~Pinned(side) /\ ~Pinned(side')
    <3>1. Represented = n /\ Represented' = m /\ n > 0 /\ m > 0 /\ n \in Nat /\ m \in Nat
      BY <1>1, <1>2, <1>3, <2>4
    <3>2. m = n \/ m = n + 1 \/ (m = n - 1 /\ n # 1) BY <1>3, <2>4, <3>1
    <3> QED BY <1>3, <2>4, <3>1, <3>2
  <2> QED BY <2>1, <2>2, <2>3, <2>4
<1>4. CASE life = "live" /\ life' = "deallocating" /\ ~Pinned(side) /\ n = 1
  <2> HIDE DEF n, m
  <2> QED BY <1>1, <1>2, <1>4
<1>5. CASE life = "deallocating" /\ life' = "freed" BY <1>1, <1>2, <1>5
<1> QED BY <1>3, <1>4, <1>5 DEF Shape

=============================================================================
