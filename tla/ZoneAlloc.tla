----------------------------- MODULE ZoneAlloc ------------------------------
(***************************************************************************)
(* The zone allocator (objc-zalloc.mm): packed elements of slabs that are  *)
(* never returned to malloc, kept on a lock-free stack, AtomicQueue.  The  *)
(* head of the stack and a generation number form one pair, exchanged by   *)
(* a double-width compare-and-swap; the pair is first read without         *)
(* atomicity, so its two words may come from different moments, and        *)
(* head->next is read from an element that another thread may have taken,  *)
(* zeroed, or filled with its own data.                                    *)
(*                                                                         *)
(* The first word of an element is its link while it is free; the other    *)
(* words are one value, zero or dirty.                                     *)
(***************************************************************************)
EXTENDS Naturals, FiniteSets, Sequences, Functions

CONSTANTS
    Threads,
    Slabs,          \* bound: the slabs calloc can hand over
    NElem,          \* n_elem, elements of a slab
    MaxCalls,       \* bound: calls of alloc and free
    Null,           \* nullptr, and a zero word
    Data            \* what a client writes into its element

ASSUME NElemAssumption == NElem \in Nat \ {0, 1}
ASSUME SlabsAssumption == IsFiniteSet(Slabs) /\ Null \notin Slabs \X (0 .. NElem - 1)

VARIABLES
    head, gen,      \* AtomicQueue: the pair
    next,           \* first word of each element
    buf,            \* the rest of each element
    slabs,          \* slabs in use
    held,           \* elements the program has been given and not freed
    pc,
    l1,             \* the thread's copy of the pair
    unread,         \* words of the pair still to be read into l1
    l2,             \* the new head a pop would install
    list,           \* the elements a push would install
    result,         \* what alloc returns
    calls

queue == <<head, gen>>
memory == <<next, buf>>
locals == <<l1, unread, l2, list, result>>
vars == <<queue, memory, slabs, held, pc, locals, calls>>

Last(s) == s[Len(s)]
Elements == Slabs \X (0 .. NElem - 1)
Pcs == {"idle", "load", "next", "exchange", "memset", "slow", "link", "publish"}
NoPair == [head |-> Null, gen |-> 0]

Init ==
    /\ head = Null /\ gen = 0
    /\ next = [e \in Elements |-> Null] /\ buf = [e \in Elements |-> Null]
    /\ slabs = {} /\ held = {}
    /\ pc = [t \in Threads |-> "idle"]
    /\ l1 = [t \in Threads |-> NoPair]
    /\ unread = [t \in Threads |-> {}]
    /\ l2 = [t \in Threads |-> Null]
    /\ list = [t \in Threads |-> <<>>]
    /\ result = [t \in Threads |-> Null]
    /\ calls = 0

-----------------------------------------------------------------------------
(* A call begins with the non-atomic read of the pair: two loads, in       *)
(* either order.  A pop is a call with no list.                            *)
Begin(t, l, r) ==
    /\ pc' = [pc EXCEPT ![t] = "load"]
    /\ unread' = [unread EXCEPT ![t] = {"head", "gen"}]
    /\ list' = [list EXCEPT ![t] = l]
    /\ result' = [result EXCEPT ![t] = r]
    /\ l1' = [l1 EXCEPT ![t] = NoPair]
    /\ UNCHANGED l2

Loop(t) == IF list[t] = <<>> THEN "next" ELSE "link"

Load(t, word) ==
    /\ pc[t] = "load" /\ word \in unread[t]
    /\ l1' = [l1 EXCEPT ![t][word] = IF word = "head" THEN head ELSE gen]
    /\ unread' = [unread EXCEPT ![t] = @ \ {word}]
    /\ pc' = [pc EXCEPT ![t] = IF unread'[t] = {} THEN Loop(t) ELSE "load"]
    /\ UNCHANGED <<queue, memory, slabs, held, l2, list, result, calls>>

(* compare_exchange_weak: it may fail although the pair is the expected    *)
(* one, and a failure loads the whole pair at once.                        *)
Matches_HeadOnly(t) == head = l1[t].head
Matches(t) == head = l1[t].head /\ gen = l1[t].gen

Installs_SameGen(t, h) == head' = h /\ gen' = l1[t].gen
Installs(t, h) == head' = h /\ gen' = l1[t].gen + 1

Fails_KeepsPair(t) ==
    /\ pc[t] \in {"exchange", "publish"}
    /\ pc' = [pc EXCEPT ![t] = Loop(t)]
    /\ UNCHANGED <<queue, memory, slabs, held, locals, calls>>

Fails(t) ==
    /\ pc[t] \in {"exchange", "publish"}
    /\ l1' = [l1 EXCEPT ![t] = [head |-> head, gen |-> gen]]
    /\ pc' = [pc EXCEPT ![t] = Loop(t)]
    /\ UNCHANGED <<queue, memory, slabs, held, unread, l2, list, result, calls>>

-----------------------------------------------------------------------------
(* AtomicQueue::pop                                                        *)
ReadNext(t) ==
    /\ pc[t] = "next"
    /\ \/ /\ l1[t].head = Null
          /\ pc' = [pc EXCEPT ![t] = "slow"]
          /\ UNCHANGED l2
       \/ /\ l1[t].head # Null
          /\ l2' = [l2 EXCEPT ![t] = next[l1[t].head]]
          /\ pc' = [pc EXCEPT ![t] = "exchange"]
    /\ UNCHANGED <<queue, memory, slabs, held, l1, unread, list, result, calls>>

Popped(t) ==
    /\ pc[t] = "exchange" /\ Matches(t)
    /\ Installs(t, l2[t])
    /\ result' = [result EXCEPT ![t] = l1[t].head]
    /\ pc' = [pc EXCEPT ![t] = "memset"]
    /\ UNCHANGED <<memory, slabs, held, l1, unread, l2, list, calls>>

(* AtomicQueue::push_list                                                  *)
Link(t) ==
    /\ pc[t] = "link"
    /\ next' = [next EXCEPT ![Last(list[t])] = l1[t].head]
    /\ pc' = [pc EXCEPT ![t] = "publish"]
    /\ UNCHANGED <<queue, buf, slabs, held, locals, calls>>

Returns(t) ==
    /\ pc' = [pc EXCEPT ![t] = "idle"]
    /\ l1' = [l1 EXCEPT ![t] = NoPair] /\ l2' = [l2 EXCEPT ![t] = Null]
    /\ held' = IF result[t] = Null THEN held ELSE held \cup {result[t]}
    /\ result' = [result EXCEPT ![t] = Null]
    /\ list' = [list EXCEPT ![t] = <<>>]

Pushed(t) ==
    /\ pc[t] = "publish" /\ Matches(t)
    /\ Installs(t, Head(list[t]))
    /\ Returns(t)
    /\ UNCHANGED <<memory, slabs, unread, calls>>

-----------------------------------------------------------------------------
(* Zone::alloc: pop, or allocate a slab; a popped element's link is        *)
(* zeroed before it is returned.                                           *)
Alloc(t) ==
    /\ pc[t] = "idle" /\ calls < MaxCalls
    /\ calls' = calls + 1
    /\ Begin(t, <<>>, Null)
    /\ UNCHANGED <<queue, memory, slabs, held>>

ZeroLink(t) ==
    /\ pc[t] = "memset"
    /\ next' = [next EXCEPT ![result[t]] = Null]
    /\ Returns(t)
    /\ UNCHANGED <<queue, buf, slabs, unread, calls>>

(* calloc hands over a slab that is not in use; which one does not matter. *)
Calloc == CHOOSE s \in Slabs: s \notin slabs

(* Zone::alloc_slow: slab[0] is returned, the others are linked and pushed. *)
SlabList(s) == [i \in 1 .. NElem - 1 |-> <<s, i>>]

alloc_slow(t) ==
    /\ pc[t] = "slow" /\ slabs # Slabs
    /\ LET slab == Calloc IN
        /\ slabs' = slabs \cup {slab}
        /\ next' = [e \in Elements |-> IF e[1] = slab /\ e[2] \in 1 .. NElem - 2
                                       THEN <<slab, e[2] + 1>> ELSE next[e]]
        /\ Begin(t, SlabList(slab), <<slab, 0>>)
    /\ UNCHANGED <<queue, buf, held, calls>>

(* Zone::free: everything but the link is zeroed, and the element pushed.  *)
free_KeepsBuf(t, e) ==
    /\ pc[t] = "idle" /\ e \in held /\ calls < MaxCalls
    /\ calls' = calls + 1
    /\ held' = held \ {e}
    /\ Begin(t, <<e>>, Null)
    /\ UNCHANGED <<queue, memory, slabs>>

free(t, e) ==
    /\ pc[t] = "idle" /\ e \in held /\ calls < MaxCalls
    /\ calls' = calls + 1
    /\ held' = held \ {e}
    /\ buf' = [buf EXCEPT ![e] = Null]
    /\ Begin(t, <<e>>, Null)
    /\ UNCHANGED <<queue, next, slabs>>

(* The client fills an element it was given.                               *)
Fill(e) ==
    /\ e \in held
    /\ next' = [next EXCEPT ![e] = Data]
    /\ buf' = [buf EXCEPT ![e] = Data]
    /\ UNCHANGED <<queue, slabs, held, pc, locals, calls>>

Progress(t) ==
    \/ \E word \in {"head", "gen"}: Load(t, word)
    \/ ReadNext(t) \/ Link(t) \/ ZeroLink(t) \/ alloc_slow(t)
Exchange(t) == Popped(t) \/ Pushed(t)

Next ==
    \/ \E t \in Threads:
        \/ Alloc(t) \/ Progress(t) \/ Exchange(t) \/ Fails(t)
        \/ \E e \in Elements: free(t, e)
    \/ \E e \in Elements: Fill(e)

Spec == Init /\ [][Next]_vars

(* A thread in a call keeps running.  A compare-and-swap that keeps        *)
(* finding the pair it expects does not fail spuriously for ever.          *)
FairSpec ==
    /\ Spec
    /\ \A t \in Threads: WF_vars(Progress(t) \/ Fails(t)) /\ SF_vars(Exchange(t))

-----------------------------------------------------------------------------
(* The walk of the links from head, Words being what a link can hold.  A   *)
(* walk that never ends repeats elements.                                  *)
Words == Elements \cup {Null, Data}
Step == [walk \in Seq(Words) |->
    IF Last(walk) \in Elements THEN Append(walk, next[Last(walk)]) ELSE walk]
WalkTo[k \in Nat] == IF k = 0 THEN <<head>> ELSE Step[WalkTo[k - 1]]
Walk == WalkTo[Cardinality(Elements)]

(* The elements on the list, newest first, as memory has them.             *)
FreeList == SubSeq(Walk, 1, Len(Walk) - 1)

(* Elements that a call in progress has taken off the list or is about to  *)
(* put on it.                                                              *)
InCall(t) == Range(list[t]) \cup ({result[t]} \ {Null})
Out == held \cup UNION {InCall(t): t \in Threads}

(* The types of the variables.                                             *)
TypeOK ==
    /\ head \in Elements \cup {Null} /\ gen \in Nat
    /\ next \in [Elements -> Words] /\ buf \in [Elements -> {Null, Data}]
    /\ slabs \subseteq Slabs /\ held \subseteq Elements
    /\ pc \in [Threads -> Pcs]
    /\ l1 \in [Threads -> [head: Elements \cup {Null}, gen: Nat]]
    /\ unread \in [Threads -> SUBSET {"head", "gen"}]
    /\ l2 \in [Threads -> Words]
    /\ list \in [Threads -> Seq(Elements)]
    /\ result \in [Threads -> Elements \cup {Null}]

(* What a call has in hand: a list to push that is linked up, the last of  *)
(* it to the head it expects to replace; or, in a pop, the head it expects *)
(* with a link that is right if that head is still there.                  *)
CallOK(t) ==
    /\ l1[t].gen <= gen
    /\ IsInjective(list[t]) /\ result[t] \notin Range(list[t])
    /\ pc[t] \in {"link", "publish"} => list[t] # <<>>
    /\ pc[t] \notin {"load", "link", "publish"} => list[t] = <<>>
    /\ list[t] = <<>> => (result[t] # Null <=> pc[t] = "memset")
    /\ \A i \in 1 .. Len(list[t]) - 1: next[list[t][i]] = list[t][i + 1]
    /\ pc[t] = "publish" => next[Last(list[t])] = l1[t].head
    /\ list[t] # <<>> /\ result[t] # Null => next[result[t]] = Null
    /\ pc[t] = "exchange" => l1[t].head # Null
    /\ pc[t] = "exchange" /\ Matches(t) => l2[t] = next[l1[t].head]

(* An element is zero outside its link unless the program holds it, and    *)
(* all zero in a slab that calloc has not handed over.                     *)
Zeroed ==
    /\ \A e \in Elements \ held: buf[e] = Null
    /\ \A e \in Elements: e[1] \notin slabs => next[e] = Null

(* No element is in two calls, or in a call and held by the program.       *)
Disjoint ==
    /\ \A t \in Threads: InCall(t) \cap held = {}
    /\ \A t, u \in Threads: t # u => InCall(t) \cap InCall(u) = {}

(* The list in memory repeats no element and ends in nullptr; every        *)
(* element of a slab in use is on it, in one call or held by the program,  *)
(* and in only one of these: pop, push_list, alloc_slow and free lose      *)
(* none and hand none out twice.                                           *)
ZoneInv ==
    /\ TypeOK /\ Disjoint /\ Zeroed
    /\ \A t \in Threads: CallOK(t)
    /\ Last(Walk) = Null
    /\ LET inMemory == FreeList IN
        /\ IsInjective(inMemory)
        /\ Out \cap Range(inMemory) = {}
        /\ Out \cup Range(inMemory) = slabs \X (0 .. NElem - 1)

(* objc-zalloc.h: "This allocator returns always zeroed memory", although  *)
(* free writes the link after zeroing the rest and other threads' pushes   *)
(* write links of elements on their way to the list.                       *)
AllocatesZeroed == [][\A e \in Elements:
    e \in held' \ held => next'[e] = Null /\ buf'[e] = Null]_vars

(* The queue is a stack whose pushes and pops happen in one step, the      *)
(* successful compare-and-swap: no interleaving of the non-atomic reads,   *)
(* the reads of stale links and reused heads shows.                        *)
Lifo == INSTANCE LifoPool WITH stack <- FreeList, out <- Out
IsStack == Lifo!Spec

(* Every alloc and free returns.                                           *)
CallsReturn == \A t \in Threads: []<>(pc[t] = "idle")
=============================================================================
