------------------------------ MODULE WeakRefs ------------------------------
(***************************************************************************)
(* __weak variables: objc_storeWeak and its relatives, objc_moveWeak,      *)
(* objc_copyWeak, weak loads, and the clearing of weak variables when      *)
(* their object is deallocated.  Every object's registrations are kept in  *)
(* the side table of its address, under that table's lock; a store that    *)
(* replaces one object by another holds two tables, taken in address       *)
(* order.  The variable itself is read without a lock and looked at again  *)
(* once the lock is held.                                                  *)
(*                                                                         *)
(* Strong references are the atomic ones of StrongCount (which RefCount    *)
(* implements): a thread holds an object or not, and the release that      *)
(* leaves nobody holding it deallocates it.  The table of an object is the *)
(* set of the variables registered for it; its hash tables are left out.  *)
(***************************************************************************)
EXTENDS Naturals, FiniteSets

CONSTANTS
  Threads,
  Objects,
  Locations,     \* the addresses of __weak variables
  Nil, None,
  TableOf,       \* SideTables(): [Objects \cup {Nil} -> Nat], the table's address
  ClientOps      \* the calls the clients make, a subset of AllOps

AllOps == {"init", "initOrNil", "store", "storeOrNil", "destroy", "load", "copy", "move"}

ASSUME WeakAssumption ==
  /\ Nil \notin Objects /\ None \notin Threads \cup Locations \cup AllOps
  /\ TableOf \in [Objects \cup {Nil} -> Nat]
  /\ ClientOps \subseteq AllOps

VARIABLES
  value,       \* value[l]: what the variable at l holds
  inited,      \* the locations that are initialized weak variables
  registered,  \* registered[o]: o's entry in its weak_table
  weakBit,     \* weakly_referenced, in the isa or in the side table
  lock,        \* lock[a]: owner of the side table at address a
  holds,       \* holds[t]: objects that t has a strong reference to
  life,        \* life[o]: "live", "deallocating", "freed"
  deallocator, \* deallocator[o]: the thread that runs o's -dealloc
  pc, op,      \* where t is, and in which call
  dst, src,    \* its arguments
  old,         \* oldObj in storeWeak, obj in loadWeakRetained and moveWeak
  new,         \* newObj
  ready,       \* newObj's class is known to be initialized
  weakError    \* objc_weak_error() was called

tableVars == <<value, inited, registered, weakBit, weakError>>
lifeVars == <<life, deallocator>>
callVars == <<op, dst, src, old, new, ready>>
vars == <<value, inited, registered, weakBit, lock, holds, life, deallocator,
          pc, op, dst, src, old, new, ready, weakError>>

Tables == {TableOf[o] : o \in Objects \cup {Nil}}
Values == Objects \cup {Nil}
PCs == {"idle", "read", "first", "second", "locked", "release", "dealloc", "crashed"}

\* Every variable has its type.
TypeOK ==
  /\ value \in [Locations -> Values] /\ inited \subseteq Locations
  /\ registered \in [Objects -> SUBSET Locations] /\ weakBit \subseteq Objects
  /\ lock \in [Tables -> Threads \cup {None}]
  /\ holds \in [Threads -> SUBSET Objects]
  /\ life \in [Objects -> {"live", "deallocating", "freed"}]
  /\ deallocator \in [Objects -> Threads \cup {None}]
  /\ pc \in [Threads -> PCs] /\ op \in [Threads -> AllOps \cup {None}]
  /\ dst \in [Threads -> Locations \cup {None}] /\ src \in [Threads -> Locations \cup {None}]
  /\ old \in [Threads -> Values] /\ new \in [Threads -> Values]
  /\ ready \in [Threads -> BOOLEAN] /\ weakError \in BOOLEAN

\* Each object is held by the thread that created it.
Init ==
  /\ value = [l \in Locations |-> Nil] /\ inited = {}
  /\ registered = [o \in Objects |-> {}] /\ weakBit = {}
  /\ lock = [a \in Tables |-> None]
  /\ \E creator \in [Objects -> Threads] :
       holds = [t \in Threads |-> {o \in Objects : creator[o] = t}]
  /\ life = [o \in Objects |-> "live"] /\ deallocator = [o \in Objects |-> None]
  /\ pc = [t \in Threads |-> "idle"] /\ op = [t \in Threads |-> None]
  /\ dst = [t \in Threads |-> None] /\ src = [t \in Threads |-> None]
  /\ old = [t \in Threads |-> Nil] /\ new = [t \in Threads |-> Nil]
  /\ ready = [t \in Threads |-> FALSE] /\ weakError = FALSE

(***************************************************************************)
(* weak_register_no_lock, weak_unregister_no_lock, weak_clear_no_lock.     *)
(***************************************************************************)
\* An unregistered variable is reported.
weak_unregister_no_lock(r, o, l) == IF o = Nil THEN r ELSE [r EXCEPT ![o] = @ \ {l}]
Unknown(r, o, l) == o # Nil /\ r[o] # {} /\ l \notin r[o]

weak_register_no_lock(r, o, l) == IF o = Nil THEN r ELSE [r EXCEPT ![o] = @ \cup {l}]

\* Mutant: the bit is never set.
setWeaklyReferenced_nolock_Skips(o) == weakBit
setWeaklyReferenced_nolock(o) == weakBit \cup ({o} \ {Nil})

\* A deallocating object is refused: fatally, or by storing nil instead.
Dying(o) == o # Nil /\ life[o] # "live"
Crashes(t) == op[t] \in {"init", "store", "copy"} /\ Dying(new[t])
Stored(t) == IF Dying(new[t]) THEN Nil ELSE new[t]

(***************************************************************************)
(* Calls.  Only objc_storeWeak and weak loads may run concurrently on one  *)
(* variable; the other calls own the variables that they initialize,       *)
(* destroy or move.                                                        *)
(***************************************************************************)
Uses(t) == {dst[t], src[t]} \ {None}
Shared == {"store", "storeOrNil", "load"}

\* Nobody else is in a call on l, or only in calls that allow company.
Alone(l) == \A u \in Threads : l \notin Uses(u)
Unowned(l) == \A u \in Threads :
                l \in Uses(u) => op[u] \in Shared \/ (op[u] = "copy" /\ src[u] = l)

\* What t may pass as a new object: one that it holds, one whose -dealloc it
\* runs, or nil.
MayPass(t, o) ==
  o \in {Nil} \cup holds[t] \cup {p \in Objects : deallocator[p] = t}

Enter(t, o, d, s, n) ==
  /\ o \in ClientOps /\ pc[t] \in {"idle", "dealloc"} /\ op[t] = None
  /\ op' = [op EXCEPT ![t] = o]
  /\ dst' = [dst EXCEPT ![t] = d] /\ src' = [src EXCEPT ![t] = s]
  /\ new' = [new EXCEPT ![t] = n]
  /\ pc' = [pc EXCEPT ![t] = "read"]
  /\ UNCHANGED <<tableVars, lock, holds, lifeVars, old, ready>>

\* objc_initWeak and objc_initWeakOrNil, of a fresh variable.
CallInit(t, o, l, n) ==
  /\ o \in {"init", "initOrNil"} /\ l \notin inited /\ Alone(l)
  /\ MayPass(t, n)
  /\ Enter(t, o, l, None, n)

CallStore(t, o, l, n) ==
  /\ o \in {"store", "storeOrNil"} /\ l \in inited /\ Unowned(l)
  /\ MayPass(t, n)
  /\ Enter(t, o, l, None, n)

CallDestroy(t, l) == l \in inited /\ Alone(l) /\ Enter(t, "destroy", l, None, Nil)

CallLoad(t, l) == l \in inited /\ Unowned(l) /\ Enter(t, "load", None, l, Nil)

CallCopy(t, d, s) ==
  /\ d \notin inited /\ Alone(d) /\ s \in inited /\ Unowned(s)
  /\ Enter(t, "copy", d, s, Nil)

CallMove(t, d, s) ==
  /\ d \notin inited /\ Alone(d) /\ s \in inited /\ Alone(s)
  /\ Enter(t, "move", d, s, Nil)

Home(t) == IF \E o \in Objects : deallocator[o] = t THEN "dealloc" ELSE "idle"

Return(t) ==
  /\ pc' = [pc EXCEPT ![t] = Home(t)]
  /\ op' = [op EXCEPT ![t] = None]
  /\ dst' = [dst EXCEPT ![t] = None] /\ src' = [src EXCEPT ![t] = None]
  /\ old' = [old EXCEPT ![t] = Nil] /\ new' = [new EXCEPT ![t] = Nil]
  /\ ready' = [ready EXCEPT ![t] = FALSE]

(***************************************************************************)
(* Strong references.                                                      *)
(***************************************************************************)
\* objc_copyWeak holds the object it copies until it returns.
HeldBy(t) == holds[t] \cup IF op[t] = "copy" THEN {new[t]} \ {Nil} ELSE {}

\* t gives up the only reference to o: it deallocates o.
Drop(t, o, others) ==
  IF o \in others \/ \E u \in Threads \ {t} : o \in HeldBy(u)
  THEN UNCHANGED lifeVars
  ELSE life' = [life EXCEPT ![o] = "deallocating"] /\ deallocator' = [deallocator EXCEPT ![o] = t]

Release(t, o) ==
  /\ pc[t] \in {"idle", "dealloc"} /\ o \in holds[t]
  /\ holds' = [holds EXCEPT ![t] = @ \ {o}]
  /\ Drop(t, o, {})
  /\ pc' = [pc EXCEPT ![t] = IF life' = life THEN @ ELSE "dealloc"]
  /\ UNCHANGED <<tableVars, lock, callVars>>

\* clearDeallocating: under the table's lock the variables that still hold the
\* object are set to nil, one that holds another object is reported.
Dealloc(t, o) ==
  /\ pc[t] = "dealloc" /\ deallocator[o] = t
  /\ IF o \in weakBit
     THEN /\ lock[TableOf[o]] = None
          /\ value' = [l \in Locations |-> IF l \in registered[o] /\ value[l] = o THEN Nil ELSE value[l]]
          /\ weakError' = (weakError \/ \E l \in registered[o] : value[l] \notin {o, Nil})
          /\ registered' = [registered EXCEPT ![o] = {}]
     ELSE UNCHANGED <<value, weakError, registered>>
  /\ life' = [life EXCEPT ![o] = "freed"]
  /\ weakBit' = weakBit \ {o} /\ deallocator' = [deallocator EXCEPT ![o] = None]
  /\ pc' = [pc EXCEPT ![t] = IF \E p \in Objects \ {o} : deallocator[p] = t THEN "dealloc" ELSE "idle"]
  /\ UNCHANGED <<inited, lock, holds, callVars>>

(***************************************************************************)
(* storeWeak<haveOld, haveNew>.                                            *)
(***************************************************************************)
HaveOld(t) == op[t] \in {"store", "storeOrNil", "destroy"}
HaveNew(t) == op[t] \in {"store", "storeOrNil", "init", "initOrNil", "copy"}

\* Loads, and the load that begins a copy.
Loading(t) == op[t] = "load" \/ (op[t] = "copy" /\ new[t] = Nil)

\* *location = nil for a fresh variable that is given nil.
InitNil(t) ==
  /\ value' = [value EXCEPT ![dst[t]] = Nil]
  /\ inited' = inited \cup {dst[t]}
  /\ Return(t)
  /\ UNCHANGED <<registered, weakBit, weakError, lock, holds, lifeVars>>

\* The variable is read without a lock.
Read(t) ==
  /\ pc[t] = "read"
  /\ LET seen == IF HaveOld(t) THEN value[dst[t]] ELSE IF src[t] # None THEN value[src[t]] ELSE new[t] IN
     \/ /\ seen = Nil /\ op[t] \in {"init", "initOrNil", "copy", "move"}
        /\ InitNil(t)
     \/ /\ seen = Nil /\ op[t] = "load"
        /\ Return(t) /\ UNCHANGED <<tableVars, lock, holds, lifeVars>>
     \/ /\ seen # Nil \/ HaveOld(t)
        /\ old' = [old EXCEPT ![t] = IF op[t] \in {"init", "initOrNil"} THEN Nil ELSE seen]
        /\ pc' = [pc EXCEPT ![t] = "first"]
        /\ UNCHANGED <<tableVars, lock, holds, lifeVars, op, dst, src, new, ready>>

\* The tables of the old and the new value, nil's included, by address.
Wanted(t) == (IF HaveOld(t) THEN {TableOf[old[t]]} ELSE {}) \cup
             (IF HaveNew(t) THEN {TableOf[new[t]]} ELSE {})
FirstOf(s) == CHOOSE a \in s : \A b \in s : a <= b
First(t) == FirstOf(Wanted(t))
Second(t) == Wanted(t) \ {First(t)}

Storing(t) == (HaveOld(t) \/ HaveNew(t)) /\ ~Loading(t)

LockFirst(t) ==
  /\ pc[t] = "first" /\ Storing(t)
  /\ lock[First(t)] = None
  /\ lock' = [lock EXCEPT ![First(t)] = t]
  /\ pc' = [pc EXCEPT ![t] = IF Second(t) = {} THEN "locked" ELSE "second"]
  /\ UNCHANGED <<tableVars, holds, lifeVars, callVars>>

LockSecond(t) ==
  /\ pc[t] = "second"
  /\ \E a \in Second(t) : lock[a] = None /\ lock' = [lock EXCEPT ![a] = t]
  /\ pc' = [pc EXCEPT ![t] = "locked"]
  /\ UNCHANGED <<tableVars, holds, lifeVars, callVars>>

Unlock(t) == lock' = [a \in Tables |-> IF a \in Wanted(t) THEN None ELSE lock[a]]

\* Mutant: the variable is not looked at again under the locks.
Changed_Never(t) == FALSE

Changed(t) == HaveOld(t) /\ value[dst[t]] # old[t]

\* The old value changed underneath: start over.
Retry(t) ==
  /\ pc[t] = "locked" /\ Changed(t)
  /\ Unlock(t)
  /\ pc' = [pc EXCEPT ![t] = "read"]
  /\ UNCHANGED <<tableVars, holds, lifeVars, callVars>>

\* The new object's class must be initialized first, without the locks.
Initialize(t) ==
  /\ pc[t] = "locked" /\ ~Changed(t) /\ HaveNew(t) /\ new[t] # Nil /\ ~ready[t]
  /\ Unlock(t)
  /\ ready' = [ready EXCEPT ![t] = TRUE]
  /\ pc' = [pc EXCEPT ![t] = IF HaveOld(t) THEN "read" ELSE "first"]
  /\ UNCHANGED <<tableVars, holds, lifeVars, op, dst, src, old, new>>

Crash(t) ==
  /\ pc[t] = "locked" /\ ~Changed(t) /\ Crashes(t)
  /\ pc' = [pc EXCEPT ![t] = "crashed"]
  /\ UNCHANGED <<tableVars, lock, holds, lifeVars, callVars>>

\* The old registration is replaced by the new one and the variable set; what
\* objc_destroyWeak leaves in the storage is no longer a weak variable.
Commit(t) ==
  /\ pc[t] = "locked" /\ ~Changed(t) /\ ~Crashes(t)
  /\ LET gone == weak_unregister_no_lock(registered, old[t], dst[t]) IN
     registered' = IF HaveNew(t) THEN weak_register_no_lock(gone, Stored(t), dst[t]) ELSE gone
  /\ weakError' = (weakError \/ Unknown(registered, old[t], dst[t]))
  /\ weakBit' = IF HaveNew(t) THEN setWeaklyReferenced_nolock(Stored(t)) ELSE weakBit
  /\ value' = IF HaveNew(t) THEN [value EXCEPT ![dst[t]] = Stored(t)] ELSE value
  /\ inited' = IF HaveNew(t) THEN inited \cup {dst[t]} ELSE inited \ {dst[t]}
  /\ Unlock(t)
  /\ IF op[t] = "copy"
     THEN pc' = [pc EXCEPT ![t] = "release"] /\ UNCHANGED callVars
     ELSE Return(t)
  /\ UNCHANGED <<holds, lifeVars>>

\* objc_copyWeak releases the object it loaded, which may be the last reference.
CopyRelease(t) ==
  /\ pc[t] = "release"
  /\ Drop(t, new[t], holds[t])
  /\ pc' = [pc EXCEPT ![t] = IF life' = life THEN Home(t) ELSE "dealloc"]
  /\ op' = [op EXCEPT ![t] = None]
  /\ dst' = [dst EXCEPT ![t] = None] /\ src' = [src EXCEPT ![t] = None]
  /\ old' = [old EXCEPT ![t] = Nil] /\ new' = [new EXCEPT ![t] = Nil]
  /\ ready' = [ready EXCEPT ![t] = FALSE]
  /\ UNCHANGED <<tableVars, lock, holds>>

(***************************************************************************)
(* objc_loadWeakRetained and objc_moveWeak, each under one table's lock.   *)
(***************************************************************************)
LockedRead(t) == pc[t] = "first" /\ ~Storing(t) /\ lock[TableOf[old[t]]] = None

ReadAgain(t) ==
  /\ LockedRead(t) /\ value[src[t]] # old[t]
  /\ pc' = [pc EXCEPT ![t] = "read"]
  /\ UNCHANGED <<tableVars, lock, holds, lifeVars, callVars>>

\* The slow case: the class must be initialized first, without the lock.
LoadInitialize(t) ==
  /\ LockedRead(t) /\ Loading(t) /\ value[src[t]] = old[t] /\ ~ready[t]
  /\ ready' = [ready EXCEPT ![t] = TRUE]
  /\ pc' = [pc EXCEPT ![t] = "read"]
  /\ UNCHANGED <<tableVars, lock, holds, lifeVars, op, dst, src, old, new>>

\* Mutant: the load retains without asking whether the object is deallocating.
Load_Blind(t) ==
  /\ LockedRead(t) /\ Loading(t) /\ value[src[t]] = old[t]
  /\ \/ /\ op[t] = "load"
        /\ holds' = [holds EXCEPT ![t] = @ \cup {old[t]}]
        /\ Return(t) /\ UNCHANGED <<tableVars, lock, lifeVars>>
     \/ /\ op[t] = "copy"
        /\ new' = [new EXCEPT ![t] = old[t]] /\ old' = [old EXCEPT ![t] = Nil]
        /\ UNCHANGED <<tableVars, lock, holds, lifeVars, pc, op, dst, src, ready>>

\* rootTryRetain fails once the object is deallocating.
Load(t) ==
  /\ LockedRead(t) /\ Loading(t) /\ value[src[t]] = old[t]
  /\ \/ /\ op[t] = "load"
        /\ holds' = [holds EXCEPT ![t] = IF Dying(old[t]) THEN @ ELSE @ \cup {old[t]}]
        /\ Return(t) /\ UNCHANGED <<tableVars, lock, lifeVars>>
     \/ /\ op[t] = "copy" /\ Dying(old[t])
        /\ InitNil(t)
     \/ /\ op[t] = "copy" /\ ~Dying(old[t])
        /\ new' = [new EXCEPT ![t] = old[t]] /\ old' = [old EXCEPT ![t] = Nil]
        /\ UNCHANGED <<tableVars, lock, holds, lifeVars, pc, op, dst, src, ready>>

\* The registration moves, of a deallocating object too.
Move(t) ==
  /\ LockedRead(t) /\ op[t] = "move" /\ value[src[t]] = old[t]
  /\ registered' = weak_register_no_lock(weak_unregister_no_lock(registered, old[t], src[t]), old[t], dst[t])
  /\ weakError' = (weakError \/ Unknown(registered, old[t], src[t]))
  /\ value' = [value EXCEPT ![dst[t]] = old[t], ![src[t]] = Nil]
  /\ inited' = inited \cup {dst[t]}
  /\ Return(t)
  /\ UNCHANGED <<weakBit, lock, holds, lifeVars>>

Call(t) ==
  \/ \E o \in AllOps, l \in Locations, n \in Values : CallInit(t, o, l, n) \/ CallStore(t, o, l, n)
  \/ \E l \in Locations : CallDestroy(t, l) \/ CallLoad(t, l)
  \/ \E d, s \in Locations : CallCopy(t, d, s) \/ CallMove(t, d, s)
  \/ \E o \in Objects : Release(t, o)

Step(t) ==
  \/ Read(t) \/ LockFirst(t) \/ LockSecond(t) \/ Retry(t) \/ Initialize(t) \/ Crash(t) \/ Commit(t)
  \/ CopyRelease(t) \/ ReadAgain(t) \/ LoadInitialize(t) \/ Load(t) \/ Move(t)
  \/ \E o \in Objects : Dealloc(t, o)

\* _objc_fatal ends the process.
Aborted == \E t \in Threads : pc[t] = "crashed"

Next ==
  \/ ~Aborted /\ \E t \in Threads : Call(t) \/ Step(t)
  \/ Aborted /\ UNCHANGED vars

Spec == Init /\ [][Next]_vars

(***************************************************************************)
(* Properties.                                                             *)
(***************************************************************************)
\* The weak table registers for an object exactly the weak variables that hold
\* it: storeWeak, moveWeak and weak_clear never let the two come apart.
RegistryExact ==
  \A o \in Objects : registered[o] = {l \in inited : value[l] = o}

\* No weak variable holds a freed object: rootDealloc does not skip the clearing
\* of an object that a variable refers to.
NeverDangles == \A l \in inited : value[l] # Nil => life[value[l]] # "freed"

\* The runtime never complains about a weak variable that clients used correctly.
NoWeakError == ~weakError

\* What a thread holds, by weak loads as well, is not being deallocated.
HeldIsLive == \A t \in Threads, o \in Objects : o \in HeldBy(t) => life[o] = "live"

\* A fatal refusal hits only a thread that stores the object whose -dealloc it
\* runs: an object that the caller, or objc_copyWeak, holds is never refused.
RefusesOnlyItsOwn == \A t \in Threads : pc[t] = "crashed" => deallocator[new[t]] = t

\* Stores that need two tables never wait for each other.
WaitsFor(t) == CASE pc[t] = "first" /\ Storing(t) -> {First(t)}
                 [] pc[t] = "second" -> Second(t)
                 [] OTHER -> {}
NoLockCycle ==
  \A t, u \in Threads : t # u =>
    ~(\E a \in WaitsFor(t), b \in WaitsFor(u) : lock[a] = u /\ lock[b] = t)

\* A thread is in a call or in client code, and a call has its arguments: the
\* variable it initializes is not yet one, the others are; a copy reads nothing
\* more once it has its object.
ArgumentsOf(t) ==
  /\ op[t] = None <=> pc[t] \in {"idle", "dealloc"}
  /\ op[t] = None => dst[t] = None /\ src[t] = None /\ old[t] = Nil
  /\ op[t] \in {"store", "storeOrNil", "destroy"} => dst[t] \in inited /\ src[t] = None
  /\ op[t] \in {"init", "initOrNil"} => dst[t] \in Locations \ inited /\ src[t] = None
  /\ op[t] = "load" => src[t] \in inited /\ dst[t] = None
  /\ op[t] \in {"copy", "move"} =>
       /\ src[t] \in inited /\ dst[t] \in Locations \ {src[t]}
       /\ pc[t] = "release" \/ dst[t] \notin inited

\* What a call knows at each point of the objects it works on: a load or a move
\* locks the table of an object, a store that replaces nothing has no old object,
\* and the new object of a store is held or being deallocated by the thread.
ObjectsOf(t) ==
  /\ pc[t] \in {"second", "locked", "crashed"} => Storing(t)
  /\ pc[t] = "first" /\ ~Storing(t) => old[t] # Nil
  /\ pc[t] = "release" => op[t] = "copy" /\ new[t] # Nil
  /\ op[t] = "copy" /\ pc[t] = "read" => new[t] = Nil
  /\ op[t] \in {"init", "initOrNil"} \/ (op[t] = "copy" /\ new[t] # Nil) => old[t] = Nil
  /\ op[t] \in {"init", "initOrNil", "store", "storeOrNil"} => MayPass(t, new[t])

\* Two calls on one variable are calls that allow company.
SharesOnly(t, l) == op[t] \in Shared \/ (op[t] = "copy" /\ src[t] = l)
Compatible(t, u) == \A l \in Uses(t) \cap Uses(u) : SharesOnly(t, l) /\ SharesOnly(u, l)
NoCompany == \A t, u \in Threads : t # u => Compatible(t, u)

\* A thread owns only table locks that its store has taken.
Takes(t) == IF pc[t] = "second" THEN {First(t)}
            ELSE IF pc[t] \in {"locked", "crashed"} THEN Wanted(t) ELSE {}
LocksTaken == \A t \in Threads, a \in Tables : lock[a] = t => a \in Takes(t)

\* An object is being deallocated by one thread; the registrations that rootDealloc
\* has to clear are announced by the weak bit, and a freed object has none.
Clearable ==
  \A o \in Objects :
    /\ deallocator[o] # None <=> life[o] = "deallocating"
    /\ registered[o] # {} => o \in weakBit /\ life[o] # "freed"

\* The types, the registry and no complaint - storeWeak and moveWeak looked at the
\* variable again under the locks before they touched its registration -, no
\* deadlock of stores, and no refusal of an object that the caller may use; with
\* what the calls under way rely on, this is inductive.
WeakInv ==
  /\ TypeOK /\ RegistryExact /\ NoWeakError /\ NoLockCycle /\ RefusesOnlyItsOwn
  /\ \A t \in Threads : ArgumentsOf(t) /\ ObjectsOf(t)
  /\ NoCompany /\ LocksTaken /\ Clearable /\ HeldIsLive
=============================================================================
