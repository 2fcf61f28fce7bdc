------------------------------ MODULE RefCount ------------------------------
(***************************************************************************)
(* The strong reference count of one object: an inline count in the isa    *)
(* word, changed by compare-and-swap, half of which spills to the side     *)
(* table under the table's lock when it overflows and is borrowed back     *)
(* when it underflows; the move of the whole count to the side table when  *)
(* the object's class needs a raw isa; the try-retain of a weak load, made *)
(* under the table lock; and deallocation, which clears the weak variable  *)
(* and the side table entry before it frees the object.                    *)
(*                                                                         *)
(* A loop iteration of the code is one step here: it works on the local    *)
(* copy oldisa and ends in the compare-and-swap, which fails when isa is   *)
(* no longer what was loaded.  The side table is only ever touched under   *)
(* its lock, so an access is merged with the unlock that follows it.       *)
(***************************************************************************)
EXTENDS Integers, FiniteSets

CONSTANTS
  Threads,
  None,
  ClientOps,         \* the calls the clients make, a subset of AllOps
  ExtraMax,          \* the largest value of isa.extra_rc: 2^19 - 1, or 2^8 - 1
  SideMod,           \* the count field of a side table word counts modulo this
  MaxOwn             \* bound: references one thread holds

AllOps == {"retain", "release", "loadWeak", "initWeak", "toNonpointer", "toRaw"}

RC_HALF == (ExtraMax + 1) \div 2
PINNED == SideMod \div 2

ASSUME RefCountAssumption ==
  /\ None \notin Threads \cup AllOps
  /\ ClientOps \subseteq AllOps
  /\ ExtraMax \in Nat /\ RC_HALF >= 2 /\ ExtraMax + 1 = 2 * RC_HALF
  /\ SideMod \in Nat \ {0} /\ SideMod = 2 * PINNED
  /\ MaxOwn \in Nat \ {0}

\* A program never holds as many references as the count field of a side table
\* word can tell (2^61 on 64-bit machines).
ASSUME FewReferences == IsFiniteSet(Threads) /\ Cardinality(Threads) * MaxOwn < PINNED

VARIABLES
  isa,          \* the isa word
  side,         \* the object's entry in the side table's refcnts map
  lock,         \* owner of the side table's lock
  location,     \* a __weak variable holds the object
  life,         \* "live", "deallocating" (-dealloc was called), "freed"
  deallocator,  \* the thread that runs -dealloc
  own,          \* own[t]: references thread t holds
  pc, op,       \* where thread t is, and in which call
  oldisa,       \* locals of rootRetain, rootRelease and changeIsa
  newisa,
  full,         \* variant == RRVariant::Full
  locked,       \* sideTableLocked
  borrow        \* result of sidetable_subExtraRC_nolock

objectVars == <<isa, side, location>>
lifeVars == <<life, deallocator>>
localVars == <<oldisa, newisa, full, locked, borrow>>
vars == <<isa, side, lock, location, life, deallocator, own, pc, op,
          oldisa, newisa, full, locked, borrow>>

Isas == [nonpointer : BOOLEAN, extra_rc : 0..ExtraMax,
         has_sidetable_rc : BOOLEAN, weakly_referenced : BOOLEAN]
Sides == [present : BOOLEAN, rc : 0..(SideMod - 1), deallocating : BOOLEAN, weak : BOOLEAN]
Borrows == [borrowed : 0..ExtraMax, remaining : 0..(SideMod - 1)]
PCs == {"idle", "loop", "add", "move", "borrow", "again", "putback",
        "weakLock", "weakUnlock", "dealloc", "clear", "free", "crashed"}

RawIsa == [nonpointer |-> FALSE, extra_rc |-> 0,
           has_sidetable_rc |-> FALSE, weakly_referenced |-> FALSE]
NoEntry == [present |-> FALSE, rc |-> 0, deallocating |-> FALSE, weak |-> FALSE]
NoBorrow == [borrowed |-> 0, remaining |-> 0]

\* The variables have their types: neither the inline count nor the count field of
\* the side table ever leaves its width.
TypeOK ==
  /\ isa \in Isas /\ side \in Sides
  /\ lock \in Threads \cup {None}
  /\ location \in BOOLEAN
  /\ life \in {"live", "deallocating", "freed"}
  /\ deallocator \in Threads \cup {None}
  /\ own \in [Threads -> Nat]
  /\ pc \in [Threads -> PCs]
  /\ op \in [Threads -> AllOps \cup {None}]
  /\ oldisa \in [Threads -> Isas] /\ newisa \in [Threads -> Isas]
  /\ full \in [Threads -> BOOLEAN] /\ locked \in [Threads -> BOOLEAN]
  /\ borrow \in [Threads -> Borrows]

(***************************************************************************)
(* The isa word and the side table entry.                                  *)
(***************************************************************************)
isDeallocating(i) == i.extra_rc = 0 /\ ~i.has_sidetable_rc

Pinned(s) == s.rc >= PINNED

\* addc of delta to the word: a carry out of it pins the count.
AddCarry(s, delta) == IF s.rc + delta >= SideMod THEN PINNED ELSE s.rc + delta

\* refcnts[this] creates the entry.
sidetable_addExtraRC_nolock(s, delta) ==
  [s EXCEPT !.present = TRUE, !.rc = IF Pinned(s) THEN @ ELSE AddCarry(s, delta)]

\* Borrowing all that is asked for, or nothing when there is no count.
sidetable_subExtraRC_nolock(s, delta) ==
  IF ~s.present \/ s.rc = 0
  THEN [side |-> s, borrow |-> NoBorrow]
  ELSE [side |-> [s EXCEPT !.rc = (@ - delta) % SideMod],
        borrow |-> [borrowed |-> delta, remaining |-> (s.rc - delta) % SideMod]]

\* extra_rc - 1 is computed in the width of the word.
sidetable_moveExtraRC_nolock(s, i) ==
  [present |-> TRUE, rc |-> AddCarry(s, (i.extra_rc - 1) % SideMod),
   deallocating |-> isDeallocating(i), weak |-> i.weakly_referenced]

sidetable_retain(s) ==
  [s EXCEPT !.present = TRUE, !.rc = IF Pinned(s) THEN @ ELSE @ + 1]

\* refcnt < SIDE_TABLE_DEALLOCATING: no count, and not deallocating yet.
LastRelease(s) == s.rc = 0 /\ ~s.deallocating

sidetable_release(s) ==
  IF LastRelease(s)
  THEN [s EXCEPT !.present = TRUE, !.deallocating = TRUE]
  ELSE [s EXCEPT !.rc = IF Pinned(s) THEN @ ELSE (@ - 1) % SideMod]

\* The retain count objc_object::rootRetainCount computes under the table lock.
rootRetainCount ==
  IF isa.nonpointer
  THEN isa.extra_rc + IF isa.has_sidetable_rc THEN side.rc ELSE 0
  ELSE 1 + side.rc

rootIsDeallocating == IF isa.nonpointer THEN isDeallocating(isa) ELSE side.deallocating

\* The references the program holds.
OwnedRefs == UNION {{t} \X (1..own[t]) : t \in Threads}

(***************************************************************************)
(* Calls and returns.                                                      *)
(***************************************************************************)
\* objc_object::initIsa, for a class with nonpointer instances and without.
initIsa(nonpointer) == [RawIsa EXCEPT !.nonpointer = nonpointer,
                                      !.extra_rc = IF nonpointer THEN 1 ELSE 0]

Init ==
  /\ isa \in {initIsa(b) : b \in BOOLEAN}
  /\ side = NoEntry /\ lock = None /\ location = FALSE
  /\ life = "live" /\ deallocator = None
  /\ \E t \in Threads : own = [u \in Threads |-> IF u = t THEN 1 ELSE 0]
  /\ pc = [t \in Threads |-> "idle"] /\ op = [t \in Threads |-> None]
  /\ oldisa = [t \in Threads |-> RawIsa] /\ newisa = [t \in Threads |-> RawIsa]
  /\ full = [t \in Threads |-> FALSE] /\ locked = [t \in Threads |-> FALSE]
  /\ borrow = [t \in Threads |-> NoBorrow]

\* A call returns to the client, or to the -dealloc method that made it.
Home(t) == IF deallocator = t THEN "dealloc" ELSE "idle"

\* The call's locals are dead once it returns.
Forget(t) ==
  /\ op' = [op EXCEPT ![t] = None]
  /\ oldisa' = [oldisa EXCEPT ![t] = RawIsa] /\ newisa' = [newisa EXCEPT ![t] = RawIsa]
  /\ full' = [full EXCEPT ![t] = FALSE] /\ locked' = [locked EXCEPT ![t] = FALSE]
  /\ borrow' = [borrow EXCEPT ![t] = NoBorrow]

Return(t) == pc' = [pc EXCEPT ![t] = Home(t)] /\ Forget(t) /\ UNCHANGED lifeVars

\* A try-retain returns to objc_loadWeakRetained, which unlocks the table.
ReturnTry(t) == pc' = [pc EXCEPT ![t] = "weakUnlock"] /\ Forget(t) /\ UNCHANGED lifeVars

\* performDealloc: -dealloc runs in the thread whose release was the last.
BeginDealloc(t) ==
  /\ pc' = [pc EXCEPT ![t] = "dealloc"]
  /\ life' = "deallocating" /\ deallocator' = t
  /\ Forget(t)

Hold(t, n) == own' = [own EXCEPT ![t] = @ + n]

\* sidetable_unlock when the call holds the lock.
UnlockIf(b) == lock' = IF b THEN None ELSE lock

\* A thread calls in from client code or from the -dealloc it runs, and holds
\* a reference or is deallocating.  The entry of the call is its LoadExclusive.
MayCall(t, o) ==
  /\ o \in ClientOps
  /\ pc[t] \in {"idle", "dealloc"}

Enter(t, o) ==
  /\ op' = [op EXCEPT ![t] = o]
  /\ pc' = [pc EXCEPT ![t] = "loop"]
  /\ oldisa' = [oldisa EXCEPT ![t] = isa]
  /\ UNCHANGED <<objectVars, lock, lifeVars, own, newisa, full, locked, borrow>>

\* A -dealloc method retains the dying object at most once at a time (a bound).
CallRetain(t) ==
  /\ MayCall(t, "retain") /\ (IF deallocator = t THEN own[t] = 0 ELSE own[t] > 0) /\ own[t] < MaxOwn
  /\ Enter(t, "retain")

CallRelease(t) ==
  /\ MayCall(t, "release") /\ own[t] > 0
  /\ Enter(t, "release")

Changing(t) == op[t] \in {"toNonpointer", "toRaw"}

\* object_setClass, to a class whose instances have nonpointer isas or to one
\* whose instances need a raw isa.  The client does not change the class of one
\* object from two threads at a time.
CallChangeIsa(t, o) ==
  /\ o \in {"toNonpointer", "toRaw"}
  /\ MayCall(t, o) /\ (own[t] > 0 \/ deallocator = t)
  /\ \A u \in Threads : ~Changing(u)
  /\ Enter(t, o)

\* objc_loadWeakRetained, whose first look at the variable finds the object.
CallLoadWeak(t) ==
  /\ MayCall(t, "loadWeak") /\ own[t] < MaxOwn
  /\ location
  /\ op' = [op EXCEPT ![t] = "loadWeak"] /\ pc' = [pc EXCEPT ![t] = "weakLock"]
  /\ UNCHANGED <<objectVars, lock, lifeVars, own, localVars>>

\* objc_initWeak of a fresh variable, by a thread that holds the object.
CallInitWeak(t) ==
  /\ MayCall(t, "initWeak") /\ pc[t] = "idle" /\ own[t] > 0
  /\ ~location /\ \A u \in Threads : op[u] # "initWeak"
  /\ op' = [op EXCEPT ![t] = "initWeak"] /\ pc' = [pc EXCEPT ![t] = "weakLock"]
  /\ UNCHANGED <<objectVars, lock, lifeVars, own, localVars>>

\* A thread hands one of its references to another.
Give(t, u) ==
  /\ t # u /\ pc[t] = "idle" /\ pc[u] = "idle"
  /\ own[t] > 0 /\ own[u] < MaxOwn
  /\ own' = [own EXCEPT ![t] = @ - 1, ![u] = @ + 1]
  /\ UNCHANGED <<objectVars, lock, lifeVars, pc, op, localVars>>

(***************************************************************************)
(* objc_object::rootRetain.                                                *)
(***************************************************************************)
At(t, ops) == pc[t] = "loop" /\ op[t] \in ops
Retaining == {"retain", "loadWeak"}
Carry(t) == oldisa[t].extra_rc = ExtraMax

\* A plain retain returns with the table unlocked; a try-retain never unlocks.
EndRetain(t) == IF op[t] = "loadWeak" THEN ReturnTry(t) ELSE Return(t)
UnlockRetain(t, holds) == UnlockIf(op[t] = "retain" /\ holds)

\* Raw isa: the count lives in the side table.
RetainRaw(t) ==
  /\ At(t, {"retain"}) /\ ~oldisa[t].nonpointer
  /\ locked[t] \/ lock = None
  /\ side' = sidetable_retain(side)
  /\ lock' = None
  /\ Hold(t, 1) /\ Return(t)
  /\ UNCHANGED <<isa, location>>

\* sidetable_tryRetain, under the lock of the weak load.
TryRetainRaw(t) ==
  /\ At(t, {"loadWeak"}) /\ ~oldisa[t].nonpointer
  /\ IF side.deallocating
     THEN UNCHANGED <<side, own>>
     ELSE side' = sidetable_retain(side) /\ Hold(t, 1)
  /\ ReturnTry(t)
  /\ UNCHANGED <<isa, location, lock>>

\* A deallocating object is not retained: a try-retain fails, and a retain made
\* by -dealloc itself returns self.  Either unlocks when sideTableLocked is set.
RetainDying(t) ==
  /\ At(t, Retaining) /\ oldisa[t].nonpointer /\ isDeallocating(oldisa[t])
  /\ UnlockIf(locked[t])
  /\ IF op[t] = "retain" THEN Hold(t, 1) ELSE UNCHANGED own
  /\ EndRetain(t)
  /\ UNCHANGED objectVars

Countable(t) == oldisa[t].nonpointer /\ ~isDeallocating(oldisa[t])

RetainInline(t) ==
  /\ At(t, Retaining) /\ Countable(t) /\ ~Carry(t)
  /\ isa = oldisa[t]
  /\ isa' = [isa EXCEPT !.extra_rc = @ + 1]
  /\ UnlockRetain(t, locked[t])
  /\ Hold(t, 1) /\ EndRetain(t)
  /\ UNCHANGED <<side, location>>

\* rootRetain_overflow: start again as the variant that can spill.
RetainOverflow(t) ==
  /\ At(t, Retaining) /\ Countable(t) /\ Carry(t) /\ ~full[t]
  /\ full' = [full EXCEPT ![t] = TRUE]
  /\ oldisa' = [oldisa EXCEPT ![t] = isa]
  /\ UNCHANGED <<objectVars, lock, lifeVars, own, pc, op, newisa, locked, borrow>>

RetainLock(t) ==
  /\ At(t, {"retain"}) /\ Countable(t) /\ Carry(t) /\ full[t] /\ ~locked[t]
  /\ lock = None /\ lock' = t
  /\ locked' = [locked EXCEPT ![t] = TRUE]
  /\ UNCHANGED <<objectVars, lifeVars, own, pc, op, oldisa, newisa, full, borrow>>

\* Mutant: a whole count stays inline.
RetainSpill_Whole(t) ==
  /\ At(t, Retaining) /\ Countable(t) /\ Carry(t) /\ full[t]
  /\ locked[t] \/ op[t] = "loadWeak"
  /\ isa = oldisa[t]
  /\ isa' = [isa EXCEPT !.has_sidetable_rc = TRUE]
  /\ pc' = [pc EXCEPT ![t] = "add"]
  /\ Hold(t, 1)
  /\ UNCHANGED <<side, location, lock, lifeVars, op, localVars>>

\* Half of the count stays inline; the other half is still to be added.
RetainSpill(t) ==
  /\ At(t, Retaining) /\ Countable(t) /\ Carry(t) /\ full[t]
  /\ locked[t] \/ op[t] = "loadWeak"
  /\ isa = oldisa[t]
  /\ isa' = [isa EXCEPT !.extra_rc = RC_HALF, !.has_sidetable_rc = TRUE]
  /\ pc' = [pc EXCEPT ![t] = "add"]
  /\ Hold(t, 1)
  /\ UNCHANGED <<side, location, lock, lifeVars, op, localVars>>

RetainAdd(t) ==
  /\ pc[t] = "add"
  /\ side' = sidetable_addExtraRC_nolock(side, RC_HALF)
  /\ UnlockRetain(t, TRUE)
  /\ EndRetain(t)
  /\ UNCHANGED <<isa, location, own>>

\* StoreExclusive fails and reloads oldisa.  sideTableLocked was set before the
\* attempt to spill, also by a try-retain, which has not locked anything.
RetainAgain(t) ==
  /\ At(t, Retaining) /\ Countable(t) /\ isa # oldisa[t]
  /\ Carry(t) => full[t] /\ (locked[t] \/ op[t] = "loadWeak")
  /\ oldisa' = [oldisa EXCEPT ![t] = isa]
  /\ locked' = [locked EXCEPT ![t] = @ \/ Carry(t)]
  /\ UNCHANGED <<objectVars, lock, lifeVars, own, pc, op, newisa, full, borrow>>

(***************************************************************************)
(* objc_object::rootRelease.                                               *)
(***************************************************************************)
ReleaseRaw(t) ==
  /\ At(t, {"release"}) /\ ~oldisa[t].nonpointer
  /\ locked[t] \/ lock = None
  /\ side' = sidetable_release(side)
  /\ lock' = None
  /\ Hold(t, -1)
  /\ IF LastRelease(side) THEN BeginDealloc(t) ELSE Return(t)
  /\ UNCHANGED <<isa, location>>

ReleaseDying(t) ==
  /\ At(t, {"release"}) /\ oldisa[t].nonpointer /\ isDeallocating(oldisa[t])
  /\ UnlockIf(locked[t])
  /\ Hold(t, -1) /\ Return(t)
  /\ UNCHANGED objectVars

\* Mutant: the last release does not deallocate.
ReleaseInline_Forgets(t) ==
  /\ At(t, {"release"}) /\ Countable(t) /\ oldisa[t].extra_rc > 0
  /\ isa = oldisa[t]
  /\ isa' = [isa EXCEPT !.extra_rc = @ - 1]
  /\ UnlockIf(locked[t])
  /\ Hold(t, -1) /\ Return(t)
  /\ UNCHANGED <<side, location>>

ReleaseInline(t) ==
  /\ At(t, {"release"}) /\ Countable(t) /\ oldisa[t].extra_rc > 0
  /\ isa = oldisa[t]
  /\ isa' = [isa EXCEPT !.extra_rc = @ - 1]
  /\ UnlockIf(locked[t])
  /\ Hold(t, -1)
  /\ IF isDeallocating(isa') THEN BeginDealloc(t) ELSE Return(t)
  /\ UNCHANGED <<side, location>>

ReleaseAgain(t) ==
  /\ At(t, {"release"}) /\ Countable(t) /\ oldisa[t].extra_rc > 0
  /\ isa # oldisa[t]
  /\ oldisa' = [oldisa EXCEPT ![t] = isa]
  /\ UNCHANGED <<objectVars, lock, lifeVars, own, pc, op, newisa, full, locked, borrow>>

Underflow(t) == At(t, {"release"}) /\ Countable(t) /\ oldisa[t].extra_rc = 0

\* rootRelease_underflow: start again as the variant that can borrow.
ReleaseUnderflow(t) ==
  /\ Underflow(t) /\ ~full[t]
  /\ full' = [full EXCEPT ![t] = TRUE]
  /\ oldisa' = [oldisa EXCEPT ![t] = isa]
  /\ UNCHANGED <<objectVars, lock, lifeVars, own, pc, op, newisa, locked, borrow>>

\* Mutant: the isa is not loaded again under the lock.
ReleaseLock_Stale(t) ==
  /\ Underflow(t) /\ full[t] /\ ~locked[t]
  /\ lock = None /\ lock' = t
  /\ locked' = [locked EXCEPT ![t] = TRUE]
  /\ UNCHANGED <<objectVars, lifeVars, own, pc, op, oldisa, newisa, full, borrow>>

\* The isa is loaded again once the lock is held.
ReleaseLock(t) ==
  /\ Underflow(t) /\ full[t] /\ ~locked[t]
  /\ lock = None /\ lock' = t
  /\ locked' = [locked EXCEPT ![t] = TRUE]
  /\ oldisa' = [oldisa EXCEPT ![t] = isa]
  /\ UNCHANGED <<objectVars, lifeVars, own, pc, op, newisa, full, borrow>>

\* With nothing to borrow the code goes on to deallocate.
ReleaseBorrow(t) ==
  /\ Underflow(t) /\ full[t] /\ locked[t]
  /\ LET r == sidetable_subExtraRC_nolock(side, RC_HALF) IN
     /\ side' = r.side
     /\ IF r.borrow.borrowed > 0
        THEN /\ borrow' = [borrow EXCEPT ![t] = r.borrow]
             /\ pc' = [pc EXCEPT ![t] = "borrow"]
             /\ UNCHANGED <<lock, lifeVars, own, op, oldisa, newisa, full, locked>>
        ELSE lock' = None /\ Hold(t, -1) /\ BeginDealloc(t)
  /\ UNCHANGED <<isa, location>>

\* Mutant: has_sidetable_rc is never cleared.
StoreBorrowed_KeepsFlag(t, extra) ==
  /\ isa = oldisa[t]
  /\ isa' = [isa EXCEPT !.extra_rc = extra]
  /\ side' = IF borrow[t].remaining = 0 THEN NoEntry ELSE side
  /\ lock' = None
  /\ Hold(t, -1)
  /\ UNCHANGED location

\* The borrowed count is stored inline, less the reference released; an entry
\* left without a count is erased.
StoreBorrowed(t, extra) ==
  LET empty == borrow[t].remaining = 0 IN
  /\ isa = oldisa[t]
  /\ isa' = [isa EXCEPT !.extra_rc = extra, !.has_sidetable_rc = ~empty]
  /\ side' = IF empty THEN NoEntry ELSE side
  /\ lock' = None
  /\ Hold(t, -1)
  /\ UNCHANGED location

ReleaseStore(t) ==
  /\ pc[t] = "borrow"
  /\ StoreBorrowed(t, borrow[t].borrowed - 1)
  /\ Return(t)

\* The first store fails, perhaps for want of the reservation only.
ReleaseStoreFails(t) ==
  /\ pc[t] = "borrow"
  /\ oldisa' = [oldisa EXCEPT ![t] = isa]
  /\ pc' = [pc EXCEPT ![t] = IF isa.nonpointer THEN "again" ELSE "putback"]
  /\ UNCHANGED <<objectVars, lock, lifeVars, own, op, newisa, full, locked, borrow>>

\* The second store adds the borrowed count to what is there by now.
Resum(t) == oldisa[t].extra_rc + borrow[t].borrowed - 1

ReleaseStoreAgain(t) ==
  /\ pc[t] = "again" /\ Resum(t) <= ExtraMax
  /\ StoreBorrowed(t, Resum(t))
  /\ IF isDeallocating(isa') THEN BeginDealloc(t) ELSE Return(t)

ReleaseStoreAgainFails(t) ==
  /\ pc[t] = "again"
  /\ pc' = [pc EXCEPT ![t] = "putback"]
  /\ UNCHANGED <<objectVars, lock, lifeVars, own, op, localVars>>

\* Mutant: the borrowed count is not put back.
ReleasePutBack_Lost(t) ==
  /\ pc[t] = "putback"
  /\ borrow' = [borrow EXCEPT ![t] = NoBorrow]
  /\ oldisa' = [oldisa EXCEPT ![t] = isa]
  /\ pc' = [pc EXCEPT ![t] = "loop"]
  /\ UNCHANGED <<isa, side, location, lock, lifeVars, own, op, newisa, full, locked>>

ReleasePutBack(t) ==
  /\ pc[t] = "putback"
  /\ side' = sidetable_addExtraRC_nolock(side, borrow[t].borrowed)
  /\ borrow' = [borrow EXCEPT ![t] = NoBorrow]
  /\ oldisa' = [oldisa EXCEPT ![t] = isa]
  /\ pc' = [pc EXCEPT ![t] = "loop"]
  /\ UNCHANGED <<isa, location, lock, lifeVars, own, op, newisa, full, locked>>

(***************************************************************************)
(* objc_object::changeIsa.  The class bits are left out.                   *)
(***************************************************************************)
\* nonpointer -> nonpointer.
KeepNonpointer(t) ==
  /\ At(t, {"toNonpointer"}) /\ oldisa[t].nonpointer
  /\ isa = oldisa[t]
  /\ Return(t)
  /\ UNCHANGED <<objectVars, lock, own>>

\* newisa keeps what the failed attempt put there.
KeepNonpointerAgain(t) ==
  /\ At(t, {"toNonpointer"}) /\ oldisa[t].nonpointer /\ isa # oldisa[t]
  /\ newisa' = [newisa EXCEPT ![t] = oldisa[t]]
  /\ oldisa' = [oldisa EXCEPT ![t] = isa]
  /\ UNCHANGED <<objectVars, lock, lifeVars, own, pc, op, full, locked, borrow>>

\* nonpointer -> raw pointer, under the table lock.
ToRawLock(t) ==
  /\ At(t, {"toRaw"}) /\ oldisa[t].nonpointer /\ ~locked[t]
  /\ lock = None /\ lock' = t
  /\ locked' = [locked EXCEPT ![t] = TRUE]
  /\ UNCHANGED <<objectVars, lifeVars, own, pc, op, oldisa, newisa, full, borrow>>

ToRaw(t) ==
  /\ At(t, {"toRaw"}) /\ oldisa[t].nonpointer /\ locked[t]
  /\ isa = oldisa[t]
  /\ isa' = newisa[t]
  /\ pc' = [pc EXCEPT ![t] = "move"]
  /\ UNCHANGED <<side, location, lock, lifeVars, own, op, localVars>>

\* The retain count of the isa that was replaced goes to the side table.
ToRawMove(t) ==
  /\ pc[t] = "move"
  /\ side' = sidetable_moveExtraRC_nolock(side, oldisa[t])
  /\ lock' = None
  /\ Return(t)
  /\ UNCHANGED <<isa, location, own>>

\* raw pointer -> raw pointer: only the class bits of newisa are set.
RawToRaw(t) ==
  /\ At(t, {"toNonpointer", "toRaw"}) /\ ~oldisa[t].nonpointer
  /\ isa = oldisa[t]
  /\ isa' = newisa[t]
  /\ UnlockIf(locked[t])
  /\ Return(t)
  /\ UNCHANGED <<side, location, own>>

ChangeIsaAgain(t) ==
  /\ \/ At(t, {"toNonpointer", "toRaw"}) /\ ~oldisa[t].nonpointer
     \/ At(t, {"toRaw"}) /\ oldisa[t].nonpointer /\ locked[t]
  /\ isa # oldisa[t]
  /\ oldisa' = [oldisa EXCEPT ![t] = isa]
  /\ UNCHANGED <<objectVars, lock, lifeVars, own, pc, op, newisa, full, locked, borrow>>

(***************************************************************************)
(* Weak references: objc_loadWeakRetained, objc_initWeak.                  *)
(***************************************************************************)
\* The table is locked and the variable looked at again: the object may have
\* been deallocated since, and then the variable is nil.
LoadWeakLock(t) ==
  /\ pc[t] = "weakLock" /\ op[t] = "loadWeak" /\ lock = None
  /\ IF location
     THEN /\ lock' = t
          /\ oldisa' = [oldisa EXCEPT ![t] = isa]
          /\ pc' = [pc EXCEPT ![t] = "loop"]
          /\ UNCHANGED <<lifeVars, op, newisa, full, locked, borrow>>
     ELSE Return(t) /\ UNCHANGED lock
  /\ UNCHANGED <<objectVars, own>>

\* weak_register_no_lock refuses a deallocating object with a fatal error.
InitWeakLock(t) ==
  /\ pc[t] = "weakLock" /\ op[t] = "initWeak" /\ lock = None
  /\ lock' = t
  /\ oldisa' = [oldisa EXCEPT ![t] = isa]
  /\ pc' = [pc EXCEPT ![t] = IF rootIsDeallocating THEN "crashed" ELSE "loop"]
  /\ UNCHANGED <<objectVars, lifeVars, own, op, newisa, full, locked, borrow>>

\* Unlocking a lock that the thread does not own is fatal.
WeakUnlock(t) ==
  /\ pc[t] = "weakUnlock"
  /\ IF lock = t
     THEN lock' = None /\ Return(t)
     ELSE pc' = [pc EXCEPT ![t] = "crashed"] /\ Forget(t) /\ UNCHANGED <<lock, lifeVars>>
  /\ UNCHANGED <<objectVars, own>>

\* setWeaklyReferenced_nolock, then the variable is set and the table unlocked.
SetWeaklyReferenced(t) ==
  /\ At(t, {"initWeak"})
  /\ \/ /\ ~oldisa[t].nonpointer
        /\ side' = [side EXCEPT !.present = TRUE, !.weak = TRUE] /\ UNCHANGED isa
     \/ /\ oldisa[t].nonpointer /\ oldisa[t].weakly_referenced
        /\ UNCHANGED <<isa, side>>
     \/ /\ oldisa[t].nonpointer /\ ~oldisa[t].weakly_referenced /\ isa = oldisa[t]
        /\ isa' = [isa EXCEPT !.weakly_referenced = TRUE] /\ UNCHANGED side
  /\ location' = TRUE
  /\ lock' = None
  /\ Return(t)
  /\ UNCHANGED own

SetWeaklyReferencedAgain(t) ==
  /\ At(t, {"initWeak"}) /\ oldisa[t].nonpointer /\ ~oldisa[t].weakly_referenced
  /\ isa # oldisa[t]
  /\ oldisa' = [oldisa EXCEPT ![t] = isa]
  /\ UNCHANGED <<objectVars, lock, lifeVars, own, pc, op, newisa, full, locked, borrow>>

(***************************************************************************)
(* Deallocation.                                                           *)
(***************************************************************************)
\* rootDealloc: -dealloc has balanced its own retains.  An object with neither
\* weak references nor a side table entry is freed at once, unless it has
\* associated objects or C++ destructors, which are not modelled.
rootDealloc(t) ==
  /\ pc[t] = "dealloc" /\ own[t] = 0
  /\ \/ pc' = [pc EXCEPT ![t] = "clear"]
     \/ /\ isa.nonpointer /\ ~isa.weakly_referenced /\ ~isa.has_sidetable_rc
        /\ pc' = [pc EXCEPT ![t] = "free"]
  /\ UNCHANGED <<objectVars, lock, lifeVars, own, op, localVars>>

\* clearDeallocating: weak variables are cleared and the entry erased under the lock.
clearDeallocating(t) ==
  /\ pc[t] = "clear"
  /\ IF isa.nonpointer /\ ~isa.weakly_referenced /\ ~isa.has_sidetable_rc
     THEN UNCHANGED <<side, location>>
     ELSE /\ lock = None
          /\ location' = (location /\ ~(IF isa.nonpointer THEN isa.weakly_referenced ELSE side.weak))
          /\ side' = IF isa.nonpointer /\ ~isa.has_sidetable_rc THEN side ELSE NoEntry
  /\ pc' = [pc EXCEPT ![t] = "free"]
  /\ UNCHANGED <<isa, lock, lifeVars, own, op, localVars>>

Free(t) ==
  /\ pc[t] = "free"
  /\ life' = "freed" /\ deallocator' = None
  /\ pc' = [pc EXCEPT ![t] = "idle"]
  /\ UNCHANGED <<objectVars, lock, own, op, localVars>>

Call(t) ==
  \/ CallRetain(t) \/ CallRelease(t) \/ CallLoadWeak(t) \/ CallInitWeak(t)
  \/ \E o \in {"toNonpointer", "toRaw"} : CallChangeIsa(t, o)
  \/ \E u \in Threads : Give(t, u)

\* The steps of a call that is under way, and of -dealloc.
Step(t) ==
  \/ RetainRaw(t) \/ TryRetainRaw(t) \/ RetainDying(t) \/ RetainInline(t)
  \/ RetainOverflow(t) \/ RetainLock(t) \/ RetainSpill(t) \/ RetainAdd(t) \/ RetainAgain(t)
  \/ ReleaseRaw(t) \/ ReleaseDying(t) \/ ReleaseInline(t) \/ ReleaseAgain(t)
  \/ ReleaseUnderflow(t) \/ ReleaseLock(t) \/ ReleaseBorrow(t)
  \/ ReleaseStore(t) \/ ReleaseStoreFails(t) \/ ReleaseStoreAgain(t)
  \/ ReleaseStoreAgainFails(t) \/ ReleasePutBack(t)
  \/ KeepNonpointer(t) \/ KeepNonpointerAgain(t) \/ ToRawLock(t) \/ ToRaw(t)
  \/ ToRawMove(t) \/ RawToRaw(t) \/ ChangeIsaAgain(t)
  \/ LoadWeakLock(t) \/ WeakUnlock(t) \/ InitWeakLock(t) \/ SetWeaklyReferenced(t) \/ SetWeaklyReferencedAgain(t)
  \/ rootDealloc(t) \/ clearDeallocating(t) \/ Free(t)

\* Nobody holds the object and nothing is under way, or the process has aborted.
Finished ==
  /\ \/ \A t \in Threads : pc[t] = "idle" /\ own[t] = 0
     \/ \E t \in Threads : pc[t] = "crashed"
  /\ UNCHANGED vars

Next == Finished \/ \E t \in Threads : Call(t) \/ Step(t)

Spec == Init /\ [][Next]_vars

\* The scheduler runs every thread that is inside the runtime, the table lock is
\* granted to a thread that keeps asking for it, a compare-and-swap that is tried
\* again and again succeeds, and a -dealloc method balances its retains and ends
\* in rootDealloc, however many weak variables it loads in between.
FairSpec ==
  /\ Spec
  /\ \A t \in Threads :
       /\ SF_vars(Step(t))
       /\ SF_vars(ReleaseStore(t) \/ ReleaseStoreAgain(t))
       /\ SF_vars(deallocator = t /\ CallRelease(t)) /\ SF_vars(rootDealloc(t))

(***************************************************************************)
(* Properties.                                                             *)
(***************************************************************************)
\* Whenever the table is unlocked, the retain count that rootRetainCount would
\* report is the number of references the program holds: no interleaving of
\* retains, releases, spills, borrows and isa changes loses or invents one.
\* (A pinned count has given up counting.)
CountsReferences ==
  life = "live" /\ lock = None /\ ~Pinned(side) => rootRetainCount = Cardinality(OwnedRefs)

\* An object that a thread holds - by a retain, or by a weak load that
\* succeeded - has not begun -dealloc.
HeldIsLive == \A t \in Threads : own[t] > 0 /\ deallocator # t => life = "live"

\* -dealloc runs in one thread, of an object that is marked as deallocating
\* (the assertions at rootRelease's deallocate label).
DeallocatesOnce ==
  \A t \in Threads :
    /\ pc[t] \in {"dealloc", "clear", "free"} => deallocator = t /\ life = "deallocating"
    /\ pc[t] \in {"dealloc", "clear"} => rootIsDeallocating

\* Once the object is freed no thread is at a point where it will touch it, no
\* weak variable holds it and it has left nothing behind in the side table.
Away(t) == \/ pc[t] \in {"idle", "weakUnlock", "crashed"}
           \/ pc[t] = "weakLock" /\ op[t] = "loadWeak"
FreedIsForgotten == life = "freed" => ~location /\ side = NoEntry /\ \A t \in Threads : Away(t)

\* Outside the lock, has_sidetable_rc says whether the side table holds a part
\* of an inline count, and that part can be borrowed in halves without underflow.
SideTableHoldsHalves ==
  lock = None /\ isa.nonpointer /\ life = "live" =>
    /\ isa.has_sidetable_rc <=> side.rc > 0
    /\ side.rc % RC_HALF = 0

\* A call that believes it locked the table, or runs under its caller's lock,
\* holds the lock.
NeedsLock(t) ==
  \/ pc[t] \in {"add", "move", "borrow", "again", "putback"}
  \/ pc[t] = "loop" /\ (locked[t] \/ op[t] \in {"loadWeak", "initWeak"})
LockHeld == \A t \in Threads : NeedsLock(t) => lock = t

\* objc_loadWeakRetained still holds the table lock when the try-retain it made
\* under that lock returns.
TryRetainKeepsLock == \A t \in Threads : pc[t] = "weakUnlock" => lock = t

\* The references the representation stands for: what the isa and the side table
\* count, and what the thread in the middle of a spill, a borrow or a move carries.
Carried(t) ==
  IF pc[t] = "add" THEN RC_HALF
  ELSE IF pc[t] \in {"borrow", "again", "putback"} THEN borrow[t].borrowed
  ELSE IF pc[t] = "move" THEN oldisa[t].extra_rc - 1 ELSE 0
Total == (IF isa.nonpointer THEN isa.extra_rc ELSE 1) + side.rc
         + IF lock = None THEN 0 ELSE Carried(lock)
Represented == IF life # "live" THEN 0 ELSE IF Pinned(side) THEN -1 ELSE Total

\* The owner of the table lock is at one of these points.
Busy(pcs) == lock # None /\ pc[lock] \in pcs
Splitting == Busy({"add", "borrow", "again", "putback"})
Moving == Busy({"move"})

\* In which call a thread is at which point.
Placed(t) ==
  /\ op[t] = None <=> pc[t] \in {"idle", "dealloc", "clear", "free", "weakUnlock", "crashed"}
  /\ pc[t] = "add" => op[t] \in Retaining
  /\ pc[t] \in {"borrow", "again", "putback"} => op[t] = "release"
  /\ pc[t] = "move" => op[t] = "toRaw"
  /\ pc[t] = "weakLock" => op[t] \in {"loadWeak", "initWeak"}
  /\ locked[t] => pc[t] \in {"loop", "add", "move", "borrow", "again", "putback"}

\* The references a thread needs for the call it is in.
Owns(t) ==
  /\ own[t] <= MaxOwn
  /\ pc[t] \in {"loop", "weakLock"} /\ op[t] \in Retaining => own[t] < MaxOwn
  /\ op[t] \in {"release", "initWeak"} \/ pc[t] = "add" => own[t] > 0
  /\ op[t] \in {"retain", "toNonpointer", "toRaw"} => own[t] > 0 \/ deallocator = t
  /\ op[t] = "initWeak" => deallocator # t
  /\ pc[t] \in {"clear", "free"} => own[t] = 0

\* What a thread's copy of the isa tells of the isa: a raw isa is final, an object
\* that is held is not dying, and under the lock neither has_sidetable_rc nor the
\* kind of the isa changes.
Sees(t) ==
  /\ pc[t] = "loop" =>
       /\ isa.nonpointer => oldisa[t].nonpointer
       /\ op[t] \in {"retain", "release"} /\ oldisa[t].nonpointer =>
            (isDeallocating(oldisa[t]) <=> deallocator = t)
       /\ op[t] = "loadWeak" /\ oldisa[t].nonpointer /\ deallocator = t => isDeallocating(oldisa[t])
       /\ op[t] = "release" /\ locked[t] =>
            /\ oldisa[t].nonpointer = isa.nonpointer
            /\ oldisa[t].has_sidetable_rc = isa.has_sidetable_rc
       /\ op[t] = "initWeak" /\ oldisa[t].nonpointer =>
            isa.nonpointer /\ (oldisa[t].weakly_referenced => isa.weakly_referenced)
       /\ op[t] = "loadWeak" => location
       /\ Changing(t) => oldisa[t].nonpointer = isa.nonpointer
  /\ newisa[t] # RawIsa => pc[t] = "loop" /\ op[t] = "toNonpointer" /\ oldisa[t].nonpointer
  /\ pc[t] \in {"add", "borrow", "again", "putback"} => isa.nonpointer /\ isa.has_sidetable_rc
  /\ pc[t] \in {"borrow", "again", "putback"} =>
       borrow[t] = [borrowed |-> RC_HALF, remaining |-> side.rc]
  /\ pc[t] = "borrow" => oldisa[t].extra_rc = 0
  /\ pc[t] = "move" =>
       /\ ~isa.nonpointer
       /\ side.rc < PINNED /\ (~oldisa[t].has_sidetable_rc => side.rc = 0)
       /\ location => oldisa[t].weakly_referenced
       /\ deallocator = t => isDeallocating(oldisa[t])

OneChanger == \A t, u \in Threads : Changing(t) /\ Changing(u) => t = u

\* With a nonpointer isa the side table has halves of the count and nothing else,
\* and has_sidetable_rc announces them; a raw isa has no fields.
SideOK ==
  /\ side.rc > 0 \/ side.deallocating => side.present
  /\ isa.nonpointer =>
       /\ ~side.deallocating /\ ~side.weak /\ side.rc % RC_HALF = 0 /\ side.rc < PINNED
       /\ ~isa.has_sidetable_rc => side = NoEntry
       /\ isa.has_sidetable_rc /\ ~Splitting => side.rc > 0
  /\ ~isa.nonpointer => isa = RawIsa

\* A thread that runs -dealloc, and one that holds the object.
Deallocs(t) ==
  /\ pc[t] \in {"dealloc", "clear", "free"} => deallocator = t
  /\ deallocator = t => pc[t] # "idle"
  /\ pc[t] = "free" => ~location /\ side = NoEntry
  /\ own[t] > 0 /\ deallocator # t => life = "live"

\* The word that counts also says whether the object is dying, and the weak bit is
\* where clearDeallocating looks for it.
LifeOK ==
  /\ life = "deallocating" <=> deallocator # None
  /\ life = "deallocating" /\ isa.nonpointer => isDeallocating(isa)
  /\ ~isa.nonpointer /\ ~Moving =>
       /\ life = "live" => ~side.deallocating
       /\ life = "deallocating" => side.deallocating \/ pc[deallocator] = "free"
  /\ location => IF isa.nonpointer THEN isa.weakly_referenced ELSE Moving \/ side.weak

\* The representation counts the references, and a live object has some.
CountOK == life = "live" /\ ~Pinned(side) => Total = Cardinality(OwnedRefs) /\ Total > 0

\* What rootRetain, rootRelease and the _nolock functions assert of one another:
\* the counts keep their width, the table is locked where it is touched, the side
\* table holds halves, -dealloc runs once, of an object marked for it, and what
\* it frees is forgotten everywhere; with what the calls under way rely on, this
\* is inductive.
RefCountInv ==
  /\ TypeOK /\ SideTableHoldsHalves /\ LockHeld /\ DeallocatesOnce /\ FreedIsForgotten
  /\ \A t \in Threads : Placed(t) /\ Owns(t) /\ Sees(t) /\ Deallocs(t)
  /\ OneChanger /\ SideOK /\ LifeOK /\ CountOK

\* An object that nobody holds is deallocated and freed (rootRelease), unless its
\* count was pinned or the process has aborted.
UnheldIsFreed ==
  OwnedRefs = {} ~> life = "freed" \/ Pinned(side) \/ \E t \in Threads : pc[t] = "crashed"

\* Every step of the runtime is a step of the abstract count, or leaves it alone.
Abstract == INSTANCE StrongCount WITH count <- Represented, life <- life
CountIsAtomic == Abstract!Spec
=============================================================================
