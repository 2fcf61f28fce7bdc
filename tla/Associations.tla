---------------------------- MODULE Associations ----------------------------
(***************************************************************************)
(* Associated objects (objc-references.mm) and the part of object          *)
(* destruction that removes them.  The table is protected by               *)
(* AssociationsManagerLock, one step per critical section; values are      *)
(* retained, copied and released outside of it, has_assoc is set outside   *)
(* of it, and the -dealloc of a released value and the C++ destructors of  *)
(* a dying object are client code that calls in again.                     *)
(*                                                                         *)
(* Each object also has one strong atomic property (objc-accessors.mm):    *)
(* its slot is protected by PropertyLocks, and the same values go through  *)
(* both, retained and released outside of the locks in the same way.       *)
(*                                                                         *)
(* Each thread has a call stack of frames; user code runs when the stack   *)
(* is empty or its top is the -dealloc of a value ("dealloc") or the C++   *)
(* destruction of an object ("cxx").                                       *)
(***************************************************************************)
EXTENDS Naturals, FiniteSets, Sequences, SequencesExt, FiniteSetsExt, Functions

CONSTANTS
    Threads, Hosts, Keys, Values, None,
    Owned,          \* the values the program begins with; -copy makes the others
    Policies,       \* the policies clients use
    MaxCalls,       \* bound: calls of the interface
    MaxDepth        \* bound: stack frames of calls made by client code

VARIABLES
    associations,   \* AssociationsHashMap: Host -> (Key -> ObjcAssociation)
    has_assoc,      \* the bit in each object's isa
    slots,          \* the property of each object
    hostState,      \* "live", "dying" or "freed"
    rc,             \* retain count of each value
    client,         \* values the program still owns a reference to
    pool,           \* autoreleased values of each thread
    stack,
    touchedFreed,   \* a retain or release reached a freed value
    calls

vars == <<associations, slots, has_assoc, hostState, rc, client, pool, stack, touchedFreed, calls>>

(* objc_AssociationPolicy: how the setter takes the value, whether the     *)
(* getter retains and autoreleases it, and the SYSTEM_OBJECT bit.          *)
PolicyBits == [setter: {"assign", "retain", "copy"}, getter: {"read", "retain"}, system: BOOLEAN]
ASSIGN == [setter |-> "assign", getter |-> "read", system |-> FALSE]
RETAIN_NONATOMIC == [setter |-> "retain", getter |-> "read", system |-> FALSE]
RETAIN == [setter |-> "retain", getter |-> "retain", system |-> FALSE]
COPY == [setter |-> "copy", getter |-> "retain", system |-> FALSE]
RETAIN_SYSTEM == [RETAIN EXCEPT !.system = TRUE]

ObjcAssociation == [value: Values, policy: PolicyBits]
NoAssociation == [value |-> None, policy |-> ASSIGN]

Pcs == {"acquire", "getProperty", "setProperty", "swap", "store", "note", "release", "got", "test", "take", "drop", "dealloc",
        "destruct", "cxx", "clear", "free"}

(* refs: associations still to be released.  deallocating: the object is   *)
(* being destroyed and was marked when the flags were read.                *)
Frame(pc, h, k, a) == [pc |-> pc, host |-> h, key |-> k, assoc |-> a, refs |-> {}, deallocating |-> FALSE]

Init ==
    /\ associations = [h \in Hosts |-> <<>>]
    /\ slots = [h \in Hosts |-> None]
    /\ has_assoc = [h \in Hosts |-> FALSE]
    /\ hostState = [h \in Hosts |-> "live"]
    /\ rc = [v \in Values |-> IF v \in Owned THEN 1 ELSE 0]
    /\ client = Owned
    /\ pool = [t \in Threads |-> <<>>]
    /\ stack = [t \in Threads |-> <<>>]
    /\ touchedFreed = FALSE
    /\ calls = 0

Top(t) == Last(stack[t])
At(t, pc) == stack[t] # <<>> /\ Top(t).pc = pc
Goto(t, frame) == stack' = [stack EXCEPT ![t] = Append(Front(@), frame)]
Return(t) == stack' = [stack EXCEPT ![t] = Front(@)]
(* Return, then continue in the frames of callees.                         *)
Replace(t, frames) == stack' = [stack EXCEPT ![t] = Front(@) \o frames]

(* Nobody but its own C++ destructors uses an object that is being destroyed. *)
InUserCode(t) == stack[t] # <<>> => Top(t).pc \in {"dealloc", "cxx"}
Dying(t, h) == \E i \in DOMAIN stack[t]: stack[t][i].pc = "cxx" /\ stack[t][i].host = h
MayUse(t, h) == hostState[h] = "live" \/ (hostState[h] = "dying" /\ Dying(t, h))
InUse(h) == \E t \in Threads: \E i \in DOMAIN stack[t]: stack[t][i].host = h
Passed(v) == \E t \in Threads: \E i \in DOMAIN stack[t]:
    stack[t][i].pc \in {"acquire", "setProperty"} /\ stack[t][i].assoc.value = v

Held(policy) == policy.setter \in {"retain", "copy"}

(* objc_retain and objc_release of a value.                                *)
Retain(v) ==
    /\ rc' = [rc EXCEPT ![v] = @ + 1]
    /\ touchedFreed' = (touchedFreed \/ rc[v] = 0)
Release(v) ==
    /\ rc' = [rc EXCEPT ![v] = IF @ = 0 THEN 0 ELSE @ - 1]
    /\ touchedFreed' = (touchedFreed \/ rc[v] = 0)
DeallocFrames(v) == IF rc[v] = 1 THEN <<Frame("dealloc", None, None, [NoAssociation EXCEPT !.value = v])>>
                                 ELSE <<>>
Unowned == <<rc, touchedFreed>>

(* Client code enters the interface.                                       *)
Enter(t, h, frame) ==
    /\ InUserCode(t) /\ MayUse(t, h)
    /\ calls < MaxCalls /\ Len(stack[t]) < MaxDepth
    /\ calls' = calls + 1
    /\ stack' = [stack EXCEPT ![t] = Append(@, frame)]
    /\ UNCHANGED <<associations, slots, has_assoc, hostState, client, pool, Unowned>>

-----------------------------------------------------------------------------
(* objc_getAssociatedObject: the value is copied and retained under the    *)
(* lock and autoreleased after it.                                         *)
Lookup(h, k) == IF k \in DOMAIN associations[h] THEN associations[h][k] ELSE NoAssociation

Got_Later(t, a) ==
    Goto(t, [Top(t) EXCEPT !.pc = "got", !.assoc = a]) /\ UNCHANGED Unowned

Got(t, a) ==
    /\ Goto(t, [Top(t) EXCEPT !.pc = "got", !.assoc = a])
    /\ IF a.value # None /\ a.policy.getter = "retain" THEN Retain(a.value) ELSE UNCHANGED Unowned

Get(t, h, k) == k \in Keys /\ Enter(t, h, Frame("test", h, k, NoAssociation))

get_associative_reference(t) ==
    /\ At(t, "test") /\ Top(t).key # None
    /\ Got(t, Lookup(Top(t).host, Top(t).key))
    /\ UNCHANGED <<associations, slots, has_assoc, hostState, client, pool, calls>>

autoreleaseReturnedValue(t) ==
    LET a == Top(t).assoc IN
    /\ At(t, "got")
    /\ Return(t)
    /\ pool' = IF a.value # None /\ a.policy.getter = "retain"
                  THEN [pool EXCEPT ![t] = Append(@, a.value)] ELSE pool
    /\ UNCHANGED <<associations, slots, has_assoc, hostState, client, Unowned, calls>>

-----------------------------------------------------------------------------
(* objc_setAssociatedObject; value None is nil.                            *)
Set(t, h, k, v, policy) ==
    /\ v # None => v \in client
    /\ Enter(t, h, Frame("acquire", h, k, [value |-> v, policy |-> policy]))

(* The new value is retained, or copied: -copy returns the value itself,   *)
(* retained, or a new object.                                              *)
Acquire(t, next) ==
    LET a == Top(t).assoc IN
    \/ /\ a.value = None \/ ~Held(a.policy)
       /\ Goto(t, [Top(t) EXCEPT !.pc = next])
       /\ UNCHANGED Unowned
    \/ /\ a.value # None /\ Held(a.policy)
       /\ Goto(t, [Top(t) EXCEPT !.pc = next])
       /\ Retain(a.value)
    \/ /\ a.value # None /\ a.policy.setter = "copy"
       /\ \E new \in Values \ client:
             /\ rc[new] = 0 /\ \A h \in Hosts: \A k \in DOMAIN associations[h]: associations[h][k].value # new
             /\ \A u \in Threads: \A i \in DOMAIN stack[u]: stack[u][i].assoc.value # new
             /\ Goto(t, [Top(t) EXCEPT !.pc = next, !.assoc.value = new])
             /\ rc' = [rc EXCEPT ![new] = 1]
             /\ UNCHANGED touchedFreed

acquireValue(t) ==
    /\ At(t, "acquire") /\ Acquire(t, "store")
    /\ UNCHANGED <<associations, slots, has_assoc, hostState, client, pool, calls>>

(* The critical section: establish, replace or erase, and keep the old     *)
(* association for its release.                                            *)
Stored(h, k, a) ==
    IF a.value = None
       THEN [associations EXCEPT ![h] = Restrict(@, DOMAIN @ \ {k})]
       ELSE [associations EXCEPT ![h] = [x \in DOMAIN @ \cup {k} |-> IF x = k THEN a ELSE @[x]]]

set_associative_reference_NoSwap(t) ==
    LET frame == Top(t) IN
    /\ At(t, "store")
    /\ associations' = Stored(frame.host, frame.key, frame.assoc)
    /\ Goto(t, [frame EXCEPT !.pc = IF frame.assoc.value # None /\ associations[frame.host] = <<>>
                                       THEN "note" ELSE "release",
                             !.assoc = NoAssociation])
    /\ UNCHANGED <<slots, has_assoc, hostState, client, pool, Unowned, calls>>

set_associative_reference(t) ==
    LET frame == Top(t) IN
    /\ At(t, "store")
    /\ associations' = Stored(frame.host, frame.key, frame.assoc)
    /\ Goto(t, [frame EXCEPT !.pc = IF frame.assoc.value # None /\ associations[frame.host] = <<>>
                                       THEN "note" ELSE "release",
                             !.assoc = Lookup(frame.host, frame.key)])
    /\ UNCHANGED <<slots, has_assoc, hostState, client, pool, Unowned, calls>>

setHasAssociatedObjects(t) ==
    /\ At(t, "note")
    /\ has_assoc' = [has_assoc EXCEPT ![Top(t).host] = TRUE]
    /\ Goto(t, [Top(t) EXCEPT !.pc = "release"])
    /\ UNCHANGED <<associations, slots, hostState, client, pool, Unowned, calls>>

releaseHeldValue(t) ==
    LET a == Top(t).assoc IN
    /\ At(t, "release")
    /\ IF a.value # None /\ Held(a.policy)
          THEN Release(a.value) /\ Replace(t, DeallocFrames(a.value))
          ELSE Return(t) /\ UNCHANGED Unowned
    /\ UNCHANGED <<associations, slots, has_assoc, hostState, client, pool, calls>>

-----------------------------------------------------------------------------
(* objc_removeAssociatedObjects does nothing without has_assoc.            *)
RemoveAll(t, h) == Enter(t, h, Frame("test", h, None, NoAssociation))

removeAssociatedObjects(t) ==
    /\ At(t, "test") /\ Top(t).key = None
    /\ IF has_assoc[Top(t).host] THEN Goto(t, [Top(t) EXCEPT !.pc = "take"]) ELSE Return(t)
    /\ UNCHANGED <<associations, slots, has_assoc, hostState, client, pool, Unowned, calls>>

Kept(frame) == {k \in DOMAIN associations[frame.host]:
                   ~frame.deallocating /\ associations[frame.host][k].policy.system}

Take(t, kept, dropped) ==
    LET h == Top(t).host IN
    /\ associations' = [associations EXCEPT ![h] = Restrict(@, kept)]
    /\ Goto(t, [Top(t) EXCEPT !.pc = "drop",
                              !.refs = {<<k, associations[h][k]>> : k \in dropped}])
    /\ UNCHANGED <<slots, has_assoc, hostState, client, pool, Unowned, calls>>

remove_associations(t) ==
    LET h == Top(t).host IN
    /\ At(t, "take")
    /\ Take(t, Kept(Top(t)), DOMAIN associations[h] \ Kept(Top(t)))

DropRef(t) ==
    LET refs == Top(t).refs
        normal == {r \in refs: ~r[2].policy.system}
    IN  /\ At(t, "drop")
        /\ \/ /\ refs = {} /\ Return(t) /\ UNCHANGED Unowned
           \/ \E r \in IF normal # {} THEN normal ELSE refs:
                 LET rest == [Top(t) EXCEPT !.refs = @ \ {r}] IN
                 IF Held(r[2].policy)
                    THEN Release(r[2].value) /\ Replace(t, <<rest>> \o DeallocFrames(r[2].value))
                    ELSE Goto(t, rest) /\ UNCHANGED Unowned
        /\ UNCHANGED <<associations, slots, has_assoc, hostState, client, pool, calls>>

-----------------------------------------------------------------------------
(* objc_getProperty: retained under the lock, autoreleased after it.       *)
GetProperty(t, h) == Enter(t, h, Frame("getProperty", h, None, NoAssociation))

objc_getProperty(t) ==
    /\ At(t, "getProperty")
    /\ Got(t, [value |-> slots[Top(t).host], policy |-> RETAIN])
    /\ UNCHANGED <<associations, slots, has_assoc, hostState, client, pool, calls>>

(* objc_setProperty: a setter that does not copy looks at the slot without *)
(* the lock and leaves the value it finds there; otherwise the value is    *)
(* retained or copied, and swapped with the old one under the lock.        *)
SetProperty(t, h, v, policy) ==
    /\ v # None => v \in client
    /\ Enter(t, h, Frame("setProperty", h, None, [value |-> v, policy |-> policy]))

reallySetProperty(t) ==
    LET a == Top(t).assoc
        same == a.policy.setter = "retain" /\ slots[Top(t).host] = a.value
    IN  /\ At(t, "setProperty")
        /\ \/ same /\ Return(t) /\ UNCHANGED Unowned
           \/ ~same /\ Acquire(t, "swap")
        /\ UNCHANGED <<associations, slots, has_assoc, hostState, client, pool, calls>>

SwapProperty(t) ==
    LET frame == Top(t) IN
    /\ At(t, "swap")
    /\ slots' = [slots EXCEPT ![frame.host] = frame.assoc.value]
    /\ Goto(t, [frame EXCEPT !.pc = "release", !.assoc = [value |-> slots[frame.host], policy |-> RETAIN]])
    /\ UNCHANGED <<associations, has_assoc, hostState, client, pool, Unowned, calls>>

-----------------------------------------------------------------------------
(* The last reference to an object goes: objc_destructInstance reads the   *)
(* flags, runs the C++ destructors, then removes the associations.         *)
Dispose(t, h) ==
    /\ InUserCode(t) /\ hostState[h] = "live" /\ ~InUse(h)
    /\ hostState' = [hostState EXCEPT ![h] = "dying"]
    /\ stack' = [stack EXCEPT ![t] = Append(@, Frame("destruct", h, None, NoAssociation))]
    /\ UNCHANGED <<associations, slots, has_assoc, client, pool, Unowned, calls>>

destructInstance(t) ==
    /\ At(t, "destruct")
    /\ Goto(t, [Top(t) EXCEPT !.pc = "cxx", !.deallocating = has_assoc[Top(t).host]])
    /\ UNCHANGED <<associations, slots, has_assoc, hostState, client, pool, Unowned, calls>>

(* .cxx_destruct, which the compiler generates, releases the property.     *)
cxx_destruct(t) ==
    LET h == Top(t).host IN
    /\ At(t, "cxx") /\ slots[h] # None
    /\ slots' = [slots EXCEPT ![h] = None]
    /\ stack' = [stack EXCEPT ![t] = Append(@, Frame("release", h, None, [value |-> slots[h], policy |-> RETAIN]))]
    /\ UNCHANGED <<associations, has_assoc, hostState, client, pool, Unowned, calls>>

cxxDestructDone(t) ==
    LET frame == Top(t) IN
    /\ At(t, "cxx") /\ slots[frame.host] = None
    /\ IF frame.deallocating
          THEN Replace(t, <<[frame EXCEPT !.pc = "free"], [frame EXCEPT !.pc = "take"]>>)
          ELSE Goto(t, [frame EXCEPT !.pc = "free"])
    /\ UNCHANGED <<associations, slots, has_assoc, hostState, client, pool, Unowned, calls>>

Free(t) ==
    /\ At(t, "free")
    /\ hostState' = [hostState EXCEPT ![Top(t).host] = "freed"]
    /\ Return(t)
    /\ UNCHANGED <<associations, slots, has_assoc, client, pool, Unowned, calls>>

-----------------------------------------------------------------------------
(* The rest of the program: -dealloc of a value ends, the program gives up *)
(* a value, an autorelease pool is drained.                                *)
DeallocEnds(t) ==
    /\ At(t, "dealloc")
    /\ Return(t)
    /\ UNCHANGED <<associations, slots, has_assoc, hostState, client, pool, Unowned, calls>>

GiveUp(t, v) ==
    /\ stack[t] = <<>> /\ v \in client /\ ~Passed(v)
    /\ client' = client \ {v}
    /\ Release(v)
    /\ stack' = [stack EXCEPT ![t] = DeallocFrames(v)]
    /\ UNCHANGED <<associations, slots, has_assoc, hostState, pool, calls>>

Drain(t) ==
    /\ stack[t] = <<>> /\ pool[t] # <<>>
    /\ Release(Head(pool[t]))
    /\ pool' = [pool EXCEPT ![t] = Tail(@)]
    /\ stack' = [stack EXCEPT ![t] = DeallocFrames(Head(pool[t]))]
    /\ UNCHANGED <<associations, slots, has_assoc, hostState, client, calls>>

Idle == (\A t \in Threads: stack[t] = <<>>) /\ UNCHANGED vars

Step(t) ==
    \/ get_associative_reference(t) \/ autoreleaseReturnedValue(t)
    \/ acquireValue(t) \/ set_associative_reference(t) \/ setHasAssociatedObjects(t)
    \/ releaseHeldValue(t) \/ removeAssociatedObjects(t) \/ remove_associations(t) \/ DropRef(t)
    \/ objc_getProperty(t) \/ reallySetProperty(t) \/ SwapProperty(t)
    \/ destructInstance(t) \/ cxx_destruct(t) \/ cxxDestructDone(t) \/ Free(t) \/ DeallocEnds(t)

Next ==
    \/ \E t \in Threads: Step(t) \/ Drain(t)
    \/ \E t \in Threads, h \in Hosts, k \in Keys: Get(t, h, k)
    \/ \E t \in Threads, h \in Hosts, k \in Keys, v \in Values \cup {None}, p \in Policies: Set(t, h, k, v, p)
    \/ \E t \in Threads, h \in Hosts: RemoveAll(t, h) \/ Dispose(t, h) \/ GetProperty(t, h)
    \/ \E t \in Threads, h \in Hosts, v \in Values \cup {None}, p \in {RETAIN, COPY}: SetProperty(t, h, v, p)
    \/ \E t \in Threads, v \in Values: GiveUp(t, v)
    \/ Idle

Spec == Init /\ [][Next]_vars

-----------------------------------------------------------------------------
(* Properties                                                              *)

(* The variables have the types of their declarations; an association in   *)
(* the table has a value.                                                  *)
TypeOK ==
    /\ \A h \in Hosts: DOMAIN associations[h] \subseteq Keys
                       /\ \A k \in DOMAIN associations[h]: associations[h][k] \in ObjcAssociation
    /\ slots \in [Hosts -> Values \cup {None}] /\ has_assoc \in [Hosts -> BOOLEAN]
    /\ hostState \in [Hosts -> {"live", "dying", "freed"}]
    /\ rc \in [Values -> Nat] /\ client \subseteq Values
    /\ \A t \in Threads: pool[t] \in Seq(Values)
    /\ \A t \in Threads: \A i \in DOMAIN stack[t]: stack[t][i].pc \in Pcs
    /\ touchedFreed \in BOOLEAN /\ calls \in 0..MaxCalls

(* The references to a value: properties, strong associations, the ones a call    *)
(* has taken or has yet to release, autoreleased ones, and the program's own.     *)
Strong(a, v) == a.value = v /\ Held(a.policy)
FrameRefs(f, v) ==
    (IF f.pc \in {"store", "note", "swap", "release"} /\ Strong(f.assoc, v) THEN 1 ELSE 0)
    + (IF f.pc = "got" /\ f.assoc.value = v /\ f.assoc.policy.getter = "retain" THEN 1 ELSE 0)
    + Cardinality({r \in f.refs: Strong(r[2], v)})
References(v) ==
    (IF v \in client THEN 1 ELSE 0)
    + Cardinality({h \in Hosts: slots[h] = v})
    + Cardinality({hk \in Hosts \X Keys: hk[2] \in DOMAIN associations[hk[1]]
                                         /\ Strong(associations[hk[1]][hk[2]], v)})
    + MapThenSumSet(LAMBDA t: Cardinality({i \in DOMAIN pool[t]: pool[t][i] = v}), Threads)
    + MapThenSumSet(LAMBDA t: MapThenSumSet(LAMBDA i: FrameRefs(stack[t][i], v), DOMAIN stack[t]), Threads)

(* No value is leaked or over-released: its retain count is the number of         *)
(* references to it, whatever calls are under way on other threads or further     *)
(* down the stack.                                                                *)
CountsExact == \A v \in Values: rc[v] = References(v)

(* Neither a getter nor a setter ever retains or releases a value that another    *)
(* thread's replacement has already freed.                                        *)
NeverTouchesFreed == ~touchedFreed

(* An object with associations is marked, or the call that made the first one is  *)
(* about to mark it, so that destroying the object cannot miss them.              *)
MarkedIfAssociated ==
    \A h \in Hosts: associations[h] # <<>> /\ hostState[h] = "live" =>
       has_assoc[h] \/ \E t \in Threads: \E i \in DOMAIN stack[t]:
                          stack[t][i].pc = "note" /\ stack[t][i].host = h

(* objc_destructInstance "Removes associative references": nothing is left in the *)
(* table for an object that is freed, whose address the next object may get,      *)
(* unless its own C++ destructors made its very first association.                *)
DestructRemoves ==
    \A t \in Threads: At(t, "free") /\ associations[Top(t).host] # <<>> =>
       has_assoc[Top(t).host] /\ ~Top(t).deallocating

(* The table and the calls under way agree: the types, no touch of a freed value, *)
(* a mark on every object that _object_remove_associations must visit, and        *)
(* nothing left of an object that is gone.                                        *)
AssociationsInv == TypeOK /\ NeverTouchesFreed /\ MarkedIfAssociated /\ DestructRemoves
=============================================================================
