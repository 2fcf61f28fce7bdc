---------------------------- MODULE MethodLookup ----------------------------
(***************************************************************************)
(* The class tree of objc-runtime-new.mm and what is derived from it: the  *)
(* method caches, filled from the method lists of a class and of its       *)
(* superclasses and from the superclasses' caches, and the flag by which a *)
(* class says that nobody overrides retain/release (the RR scanner).       *)
(* Classes are realized on their first message; categories, new methods,   *)
(* swizzles, class_setSuperclass and class pairs change the tree while     *)
(* messages are being looked up.                                           *)
(*                                                                         *)
(* Every change, and every search with the filling of the cache after it,  *)
(* is made in one hold of runtimeLock, and is one step.  A lookup drops    *)
(* the lock to realize a Swift class, to send +initialize and to call the  *)
(* resolver; these are the values of pc.  A class stands for itself and    *)
(* its metaclass.                                                          *)
(***************************************************************************)
EXTENDS Naturals, Sequences, FiniteSets, SequencesExt, FiniteSetsExt

CONSTANTS
    Threads,
    Classes, NSObject,
    Swift,              \* the classes realized by the Swift runtime
    Pairs,              \* the addresses objc_allocateClassPair returns
    Selectors, RR,      \* RR: the selectors the scanner finds interesting
    Imps, Builtin,      \* Builtin: NSObject's own implementation of RR
    Forward,            \* _objc_msgForward_impcache
    Nil,
    Hierarchies,        \* the superclasses the images may give the classes
    Bases,              \* the methods they may give a class
    Categories,         \* and a category
    MaxChanges          \* bound on the changes to classes and methods

ASSUME MethodLookupAssumption ==
    /\ NSObject \in Classes /\ Swift \subseteq Classes /\ Pairs \subseteq Classes
    /\ NSObject \notin Swift \cup Pairs /\ RR \subseteq Selectors
    /\ MaxChanges \in Nat /\ Hierarchies \subseteq [Classes -> Classes \cup {Nil}]
    /\ Bases \cup Categories \subseteq [Selectors -> Imps \cup {Nil}]
    /\ {Forward, Builtin, Nil} \cap Imps = {} /\ Nil \notin Classes \cup {Forward, Builtin}

VARIABLES
    superclass,
    realized,           \* RW_REALIZED
    subclasses,         \* firstSubclass and nextSiblingClass, as a set
    methods,            \* the method lists of a class, first the one searched first
    unattached,         \* unattachedCategories, oldest first
    cache,
    info,               \* RW_INITIALIZING, RW_INITIALIZED of a class
    pair,               \* RW_CONSTRUCTING, RW_CONSTRUCTED of a class pair
    default,            \* the classes with FAST_HAS_DEFAULT_RR
    swizzled,           \* NSObjectSwizzledMask
    changes,
    call,               \* the lookup of each thread
    wrong               \* a lookup ended with another implementation than the one in force

tree == <<superclass, realized, subclasses>>
vars == <<tree, methods, unattached, cache, info, pair, default, swizzled, changes, call, wrong>>

-----------------------------------------------------------------------------
(* Method lists: a list gives some selectors an implementation; age counts *)
(* the lists the class was given before it.                                *)
NewList(c, imps) == [age |-> Len(methods[c]) + Len(unattached[c]), imps |-> imps]
Single(sel, imp) == [s \in Selectors |-> IF s = sel THEN imp ELSE Nil]
ContainsAny(lists, sels) == \E i \in DOMAIN lists, s \in sels: lists[i].imps[s] # Nil

(* The first list of c that implements sel.                                *)
Implementing(c, sel) == {i \in DOMAIN methods[c]: methods[c][i].imps[sel] # Nil}
getMethodNoSuper_nolock(c, sel) ==
    IF Implementing(c, sel) = {} THEN Nil ELSE methods[c][Min(Implementing(c, sel))].imps[sel]

(* c and its superclasses, upwards.                                        *)
Chain(c) ==
    LET up[n \in Nat] ==
            IF n = 0 THEN <<c>>
            ELSE LET below == up[n - 1]
                 IN  IF superclass[Last(below)] = Nil THEN below ELSE Append(below, superclass[Last(below)])
    IN  up[Cardinality(Classes)]
Supers(c) == ToSet(Chain(c))

(* foreach_realized_class_and_subclass: the classes visited from top when  *)
(* the block lets the enumeration descend from the classes of Into only.   *)
Visited(top, Into) ==
    LET down[n \in Nat] ==
            IF n = 0 THEN {top}
            ELSE down[n - 1] \cup UNION {subclasses[c]: c \in down[n - 1] \cap Into}
    IN  down[Cardinality(Classes)]

-----------------------------------------------------------------------------
(* The search of lookUpImpOrForward.  A class's lists come before its      *)
(* superclass; a superclass's cache comes before its lists, and a forward  *)
(* entry in it ends the search like the end of the chain.                  *)
Search(c, sel) ==
    LET chain == Chain(c)
        cached(i) == IF i = 1 THEN Nil ELSE cache[chain[i]][sel]
        at(i) == IF cached(i) # Nil THEN cached(i) ELSE getMethodNoSuper_nolock(chain[i], sel)
        hits == {i \in DOMAIN chain: at(i) # Nil}
    IN  IF hits = {} THEN Forward ELSE at(Min(hits))

(* What the method lists say, whatever is cached.                          *)
Implementation(c, sel) ==
    LET chain == Chain(c)
        hits == {i \in DOMAIN chain: getMethodNoSuper_nolock(chain[i], sel) # Nil}
    IN  IF hits = {} THEN Forward ELSE getMethodNoSuper_nolock(chain[Min(hits)], sel)

IsInitialized(c) == info[c] = "initialized"

(* cache_t::insert caches nothing before +initialize is done.              *)
Filled(c, sel, imp) ==
    IF IsInitialized(c) THEN [cache EXCEPT ![c][sel] = imp] ELSE cache

EmptyCache == [s \in Selectors |-> Nil]
Erased(flushed) == [c \in Classes |-> IF c \in flushed THEN EmptyCache ELSE cache[c]]
shouldFlush(c, sel, imp) == cache[c][sel] = imp

-----------------------------------------------------------------------------
(* The scanner's flag.  setCustomRecursively leaves subclasses that are    *)
(* not initialized to setInitialized, and stops at a custom class.         *)
setCustomRecursively(c) ==
    LET goes == {d \in default: d = c \/ IsInitialized(d)}
    IN  default \ (Visited(c, goes) \cap goes)

scanAddedMethodLists(c, lists) ==
    IF IsInitialized(c) /\ c \in default /\ ContainsAny(lists, RR)
    THEN setCustomRecursively(c) ELSE default

setNSObjectSwizzled ==
    IF IsInitialized(NSObject) THEN setCustomRecursively(NSObject) ELSE default

(* adjustCustomFlagsForMethodChange: the method of c for one of sels got   *)
(* another implementation.                                                 *)
adjustCustomFlags(c, sels) ==
    IF c = NSObject /\ sels \cap RR # {} /\ ~swizzled
    THEN swizzled' = TRUE /\ default' = setNSObjectSwizzled
    ELSE UNCHANGED <<swizzled, default>>

(* scanAddedClassImpl, for a class about to be marked initialized.         *)
IsCustom(c) ==
    \/ swizzled
    \/ c = NSObject /\ ContainsAny(Front(methods[c]), RR)
    \/ c # NSObject /\ (superclass[c] = Nil \/ superclass[c] \notin default)
    \/ c # NSObject /\ ContainsAny(methods[c], RR)

-----------------------------------------------------------------------------
(* realizeClassWithoutSwift: c and its unrealized superclasses are linked  *)
(* into the tree, their caches empty, their categories attached, newest    *)
(* first.  (Their flags are custom until setInitialized.)                  *)
realizeClassWithoutSwift(c) ==
    LET new == Supers(c) \ realized
    IN  /\ realized' = realized \cup new
        /\ subclasses' = [s \in Classes |-> subclasses[s] \cup {d \in new: superclass[d] = s}]
        /\ methods' = [d \in Classes |->
                          IF d \in new THEN Reverse(unattached[d]) \o methods[d] ELSE methods[d]]
        /\ unattached' = [d \in Classes |-> IF d \in new THEN <<>> ELSE unattached[d]]
        /\ cache' = Erased(new)
        /\ UNCHANGED <<superclass, info, pair, default, swizzled, changes>>

Idle == [pc |-> "idle", cls |-> Nil, sel |-> Nil, nocache |-> FALSE, resolver |-> FALSE]
Go(t, pc) == call' = [call EXCEPT ![t].pc = pc] /\ UNCHANGED wrong
Returns(t, c, sel, imp) ==
    /\ call' = [call EXCEPT ![t] = Idle]
    /\ wrong' = (wrong \/ imp # Implementation(c, sel))

CanBeMessaged(c) == c \in Pairs => pair[c] = "constructed"

-----------------------------------------------------------------------------
Init ==
    /\ superclass \in Hierarchies
    /\ realized = {}
    /\ subclasses = [c \in Classes |-> {}]
    /\ \E base \in [Classes -> Bases]:
          methods = [c \in Classes |-> <<[age |-> 0, imps |->
              IF c = NSObject THEN [s \in Selectors |-> IF s \in RR THEN Builtin ELSE Nil]
              ELSE IF c \in Pairs THEN EmptyCache ELSE base[c]]>>]
    /\ unattached = [c \in Classes |-> <<>>]
    /\ cache = [c \in Classes |-> EmptyCache]
    /\ info = [c \in Classes |-> "none"]
    /\ pair = [c \in Pairs |-> "free"]
    /\ default = {}
    /\ swizzled = FALSE
    /\ changes = 0
    /\ call = [t \in Threads |-> Idle]
    /\ wrong = FALSE

-----------------------------------------------------------------------------
(* A message.  objc_msgSend takes a cached implementation; else it calls   *)
(* lookUpImpOrForward, which will not cache the first messages of a class. *)
objc_msgSend(t, c, sel) ==
    /\ call[t].pc = "idle"
    /\ CanBeMessaged(c)
    /\ IF cache[c][sel] # Nil
       THEN Returns(t, c, sel, cache[c][sel])
       ELSE /\ call' = [call EXCEPT ![t] = [pc |-> "lookup", cls |-> c, sel |-> sel,
                                           nocache |-> ~IsInitialized(c), resolver |-> TRUE]]
            /\ UNCHANGED wrong
    /\ UNCHANGED <<tree, methods, unattached, cache, info, pair, default, swizzled, changes>>

(* The search with the lock held: its result is cached and returned, or    *)
(* the resolver is called, once, with the lock dropped.                    *)
SearchAndFill(t) ==
    LET c == call[t].cls
        sel == call[t].sel
        imp == Search(c, sel)
    IN  /\ IF imp = Forward /\ call[t].resolver
           THEN /\ call' = [call EXCEPT ![t].pc = "resolve", ![t].resolver = FALSE]
                /\ UNCHANGED <<cache, wrong>>
           ELSE /\ Returns(t, c, sel, imp)
                /\ cache' = IF call[t].nocache THEN cache ELSE Filled(c, sel, imp)
        /\ UNCHANGED <<tree, methods, unattached, info, pair, default, swizzled, changes>>

(* lookUpImpOrForward, and realizeAndInitializeIfNeeded_locked in it.      *)
lookUpImpOrForward(t) ==
    LET c == call[t].cls
    IN  /\ call[t].pc = "lookup"
        /\ \/ /\ c \notin realized /\ c \in Swift
              /\ Go(t, "swift")
              /\ UNCHANGED <<tree, methods, unattached, cache, info, pair, default, swizzled, changes>>
           \/ /\ c \notin realized /\ c \notin Swift
              /\ realizeClassWithoutSwift(c)
              /\ Go(t, "initialize")
           \/ /\ c \in realized /\ ~IsInitialized(c)
              /\ Go(t, "initialize")
              /\ UNCHANGED <<tree, methods, unattached, cache, info, pair, default, swizzled, changes>>
           \/ /\ IsInitialized(c)
              /\ SearchAndFill(t)

(* The Swift runtime realizes the class, unless another thread had it done. *)
realizeSwiftClass(t) ==
    /\ call[t].pc = "swift"
    /\ realizeClassWithoutSwift(call[t].cls)
    /\ Go(t, "lookup")

(* objc_getClass and the like realize a class too, by the same two ways.   *)
look_up_class(c) ==
    /\ c \notin realized /\ c \notin Pairs
    /\ realizeClassWithoutSwift(c)
    /\ UNCHANGED <<call, wrong>>

(* initializeNonMetaClass has returned: the class is initialized, or this  *)
(* thread is the one initializing it.                                      *)
Initialized(t) ==
    /\ call[t].pc = "initialize"
    /\ info[call[t].cls] # "none"
    /\ SearchAndFill(t)

(* resolveInstanceMethod: the class's resolver, if there is one, may add   *)
(* the method to the class.                                                *)
ResolverDeclines(t) ==
    /\ call[t].pc = "resolve"
    /\ \E pc \in {"resolved", "retry"}: Go(t, pc)
    /\ UNCHANGED <<tree, methods, unattached, cache, info, pair, default, swizzled, changes>>

(* Its result is cached, good or bad (lookUpImpOrNilTryCache) ...          *)
CacheResult(t) ==
    LET c == call[t].cls
        sel == call[t].sel
    IN  /\ call[t].pc = "resolved"
        /\ Go(t, "retry")
        /\ cache' = IF cache[c][sel] # Nil THEN cache ELSE Filled(c, sel, Search(c, sel))
        /\ UNCHANGED <<tree, methods, unattached, info, pair, default, swizzled, changes>>

(* ... and the lookup starts again, without a resolver.                    *)
lookUpImpOrForwardTryCache(t) ==
    LET c == call[t].cls
        sel == call[t].sel
    IN  /\ call[t].pc = "retry"
        /\ IF IsInitialized(c) /\ cache[c][sel] # Nil
           THEN Returns(t, c, sel, cache[c][sel])
           ELSE /\ call' = [call EXCEPT ![t].pc = "lookup", ![t].nocache = @ \/ ~IsInitialized(c)]
                /\ UNCHANGED wrong
        /\ UNCHANGED <<tree, methods, unattached, cache, info, pair, default, swizzled, changes>>

-----------------------------------------------------------------------------
(* +initialize, superclass first, for a waiting message; the order in      *)
(* which threads run it is the subject of Initialize.                      *)
BeginInitialize(c) ==
    /\ \E t \in Threads: call[t].pc = "initialize" /\ c \in Supers(call[t].cls)
    /\ info[c] = "none"
    /\ superclass[c] # Nil => info[superclass[c]] # "none"
    /\ info' = [info EXCEPT ![c] = "initializing"]
    /\ UNCHANGED <<tree, methods, unattached, cache, pair, default, swizzled, changes, call, wrong>>

setInitialized(c) ==
    /\ info[c] = "initializing"
    /\ superclass[c] # Nil => IsInitialized(superclass[c])
    /\ default' = IF IsCustom(c) THEN default ELSE default \cup {c}
    /\ info' = [info EXCEPT ![c] = "initialized"]
    /\ UNCHANGED <<tree, methods, unattached, cache, pair, swizzled, changes, call, wrong>>

-----------------------------------------------------------------------------
Change == changes < MaxChanges /\ changes' = changes + 1

(* Mutant: only the caches of the class itself are erased.                 *)
AttachToExisting_ClassOnly(c, imps) ==
    /\ methods' = [methods EXCEPT ![c] = <<NewList(c, imps)>> \o @]
    /\ default' = scanAddedMethodLists(c, <<NewList(c, imps)>>)
    /\ cache' = Erased({c})
    /\ UNCHANGED <<tree, unattached, info, pair, swizzled>>

(* A new list goes in front of the others, and every cache below the class *)
(* is erased: addMethods_finish, and attachCategories with ATTACH_EXISTING. *)
AttachToExisting(c, imps) ==
    /\ methods' = [methods EXCEPT ![c] = <<NewList(c, imps)>> \o @]
    /\ default' = scanAddedMethodLists(c, <<NewList(c, imps)>>)
    /\ cache' = Erased(Visited(c, Classes))
    /\ UNCHANGED <<tree, unattached, info, pair, swizzled>>

(* The i-th list of c gets imp for sel; the caches of the classes in       *)
(* reach that hold the old implementation are erased.                      *)
_method_setImplementation(c, i, sel, imp, reach) ==
    /\ methods' = [methods EXCEPT ![c][i].imps[sel] = imp]
    /\ cache' = Erased({d \in reach: shouldFlush(d, sel, methods[c][i].imps[sel])})
    /\ adjustCustomFlags(c, {sel})
    /\ UNCHANGED <<tree, unattached, info, pair>>

addMethod(c, sel, imp, replace) ==
    \/ /\ Implementing(c, sel) = {}
       /\ AttachToExisting(c, Single(sel, imp))
    \/ /\ Implementing(c, sel) # {} /\ replace
       /\ _method_setImplementation(c, Min(Implementing(c, sel)), sel, imp, Visited(c, Classes))
    \/ /\ Implementing(c, sel) # {} /\ ~replace
       /\ UNCHANGED <<tree, methods, unattached, cache, info, pair, default, swizzled>>

class_addMethod(c, sel, imp) ==
    Change /\ c \in realized /\ addMethod(c, sel, imp, FALSE) /\ UNCHANGED <<call, wrong>>
class_replaceMethod(c, sel, imp) ==
    Change /\ c \in realized /\ addMethod(c, sel, imp, TRUE) /\ UNCHANGED <<call, wrong>>
ResolverAdds(t, imp) ==
    /\ call[t].pc = "resolve"
    /\ Change /\ addMethod(call[t].cls, call[t].sel, imp, FALSE)
    /\ Go(t, "resolved")

(* A Method is a list's implementation of a selector; its class is unknown *)
(* to the function it is passed to.                                        *)
Methods == {m \in realized \X (1 .. MaxChanges + 1) \X Selectors:
               m[2] \in DOMAIN methods[m[1]] /\ methods[m[1]][m[2]].imps[m[3]] # Nil}
ImpOf(m) == methods[m[1]][m[2]].imps[m[3]]

method_setImplementation(m, imp) ==
    /\ Change
    /\ _method_setImplementation(m[1], m[2], m[3], imp, realized)
    /\ UNCHANGED <<call, wrong>>

method_exchangeImplementations(m1, m2) ==
    /\ Change
    /\ methods' = [methods EXCEPT ![m1[1]][m1[2]].imps[m1[3]] = ImpOf(m2),
                                  ![m2[1]][m2[2]].imps[m2[3]] = ImpOf(m1)]
    /\ cache' = Erased({d \in realized: shouldFlush(d, m1[3], ImpOf(m1)) \/ shouldFlush(d, m2[3], ImpOf(m2))})
    /\ adjustCustomFlags(NSObject, {m[3]: m \in {n \in {m1, m2}: n[1] = NSObject}})
    /\ UNCHANGED <<tree, unattached, info, pair, call, wrong>>

(* A category of an image just loaded.                                     *)
load_categories_nolock(c, imps) ==
    /\ Change
    /\ c \notin Pairs
    /\ \/ c \in realized /\ AttachToExisting(c, imps)
       \/ /\ c \notin realized
          /\ unattached' = [unattached EXCEPT ![c] = Append(@, NewList(c, imps))]
          /\ UNCHANGED <<tree, methods, cache, info, pair, default, swizzled>>
    /\ UNCHANGED <<call, wrong>>

-----------------------------------------------------------------------------
(* Mutant: a class keeps its flag under its new superclass.                *)
scanAddedSubClass_Keeps(c, s) == default

(* scanAddedSubClass, of addSubclass.                                      *)
scanAddedSubClass(c, s) ==
    IF s \notin default /\ c \in default THEN setCustomRecursively(c) ELSE default

(* Mutant: the caches of the class and its subclasses are not flushed.     *)
class_setSuperclass_NoFlush(c, s) ==
    /\ Change
    /\ {c, s} \subseteq realized /\ superclass[c] # Nil /\ c \notin Supers(s)
    /\ superclass' = [superclass EXCEPT ![c] = s]
    /\ subclasses' = [d \in Classes |-> (subclasses[d] \ {c}) \cup (IF d = s THEN {c} ELSE {})]
    /\ default' = scanAddedSubClass(c, s)
    /\ UNCHANGED <<realized, methods, unattached, cache, info, pair, swizzled, call, wrong>>

class_setSuperclass(c, s) ==
    /\ Change
    /\ {c, s} \subseteq realized /\ superclass[c] # Nil /\ c \notin Supers(s)
    /\ superclass' = [superclass EXCEPT ![c] = s]
    /\ subclasses' = [d \in Classes |-> (subclasses[d] \ {c}) \cup (IF d = s THEN {c} ELSE {})]
    /\ default' = scanAddedSubClass(c, s)
    /\ cache' = Erased(Visited(c, Classes))
    /\ UNCHANGED <<realized, methods, unattached, info, pair, swizzled, call, wrong>>

verifySuperclass(s) == s \in realized /\ (s \in Pairs => pair[s] = "constructed")

objc_allocateClassPair(c, s) ==
    /\ pair[c] = "free" /\ verifySuperclass(s)
    /\ pair' = [pair EXCEPT ![c] = "constructing"]
    /\ realized' = realized \cup {c}
    /\ superclass' = [superclass EXCEPT ![c] = s]
    /\ subclasses' = [subclasses EXCEPT ![s] = @ \cup {c}]
    /\ cache' = Erased({c})
    /\ UNCHANGED <<methods, unattached, info, default, swizzled, changes, call, wrong>>

objc_registerClassPair(c) ==
    /\ pair[c] = "constructing"
    /\ pair' = [pair EXCEPT ![c] = "constructed"]
    /\ UNCHANGED <<tree, methods, unattached, cache, info, default, swizzled, changes, call, wrong>>

(* The caller's part: a class it disposes of has no subclasses and no      *)
(* instances left to be messaged.  What was freed is as good as new.       *)
objc_disposeClassPair(c) ==
    /\ pair[c] # "free" /\ subclasses[c] = {} /\ \A t \in Threads: call[t].cls # c
    /\ pair' = [pair EXCEPT ![c] = "free"]
    /\ realized' = realized \ {c}
    /\ subclasses' = [subclasses EXCEPT ![superclass[c]] = @ \ {c}]
    /\ superclass' = [superclass EXCEPT ![c] = Nil]
    /\ methods' = [methods EXCEPT ![c] = <<[age |-> 0, imps |-> EmptyCache]>>]
    /\ cache' = Erased({c})
    /\ info' = [info EXCEPT ![c] = "none"]
    /\ default' = default \ {c}
    /\ UNCHANGED <<unattached, swizzled, changes, call, wrong>>

-----------------------------------------------------------------------------
Lookups(t) ==
    \/ \E c \in Classes, sel \in Selectors: objc_msgSend(t, c, sel)
    \/ lookUpImpOrForward(t) \/ realizeSwiftClass(t) \/ Initialized(t)
    \/ ResolverDeclines(t) \/ CacheResult(t) \/ lookUpImpOrForwardTryCache(t)
    \/ \E imp \in Imps: ResolverAdds(t, imp)

Next ==
    \/ \E t \in Threads: Lookups(t)
    \/ \E c \in Classes: look_up_class(c) \/ BeginInitialize(c) \/ setInitialized(c)
    \/ \E c \in Classes, sel \in Selectors, imp \in Imps:
          class_addMethod(c, sel, imp) \/ class_replaceMethod(c, sel, imp)
    \/ \E m \in Methods, imp \in Imps: method_setImplementation(m, imp)
    \/ \E m1, m2 \in Methods: m1 # m2 /\ method_exchangeImplementations(m1, m2)
    \/ \E c \in Classes, imps \in Categories: load_categories_nolock(c, imps)
    \/ \E c, s \in Classes: class_setSuperclass(c, s)
    \/ \E c \in Pairs:
          objc_registerClassPair(c) \/ objc_disposeClassPair(c) \/ \E s \in Classes: objc_allocateClassPair(c, s)

Spec == Init /\ [][Next]_vars

-----------------------------------------------------------------------------
(* The flag that lets objc_retain skip the message is never left on a      *)
(* class whose retain is not NSObject's own, nor below one without it.     *)
DefaultIsBuiltin ==
    \A c \in default:
        /\ \A sel \in RR: Implementation(c, sel) = Builtin
        /\ c # NSObject => superclass[c] \in default

(* The tree is what the superclass pointers say: the subclass lists of the *)
(* realized classes hold every realized class once, under its superclass,  *)
(* which is realized too; a realized class has no category left unattached *)
(* and its lists are searched newest first.  The default-retain flag       *)
(* follows the tree.                                                       *)
TreeInv ==
    /\ DefaultIsBuiltin
    /\ default \subseteq realized /\ swizzled \in BOOLEAN /\ changes \in 0 .. MaxChanges
    /\ \A c \in Classes:
          /\ subclasses[c] = {d \in realized: superclass[d] = c}
          /\ info[c] # "none" => c \in realized
          /\ c \in realized => unattached[c] = <<>> /\ (superclass[c] # Nil => superclass[c] \in realized)
          /\ \A i \in DOMAIN methods[c]: methods[c][i].age = Len(methods[c]) - i
          /\ \A i \in DOMAIN unattached[c]: unattached[c][i].age = Len(methods[c]) + i - 1

(* A cache never disagrees with the method lists: an entry is what a search *)
(* of the lists of the class and its superclasses finds now, a forward      *)
(* entry only where they find nothing, whatever categories, methods,        *)
(* swizzles and superclasses came after it was filled.                      *)
CachesAgree ==
    \A c \in Classes, sel \in Selectors:
        cache[c][sel] # Nil => cache[c][sel] = Implementation(c, sel)

(* A message gets the implementation that is in force when its lookup      *)
(* ends, and is forwarded only when there is none.                         *)
GetsItsMethod == ~wrong
=============================================================================
