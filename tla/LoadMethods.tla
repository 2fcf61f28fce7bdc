---------------------------- MODULE LoadMethods -----------------------------
(***************************************************************************)
(* +load (objc-loadmethod.mm and load_images, unmap_image): the classes    *)
(* and categories of an image that is being mapped are queued, and the     *)
(* outermost load_images on the thread that holds loadMethodLock calls     *)
(* their +load methods.  A +load method is client code that opens and      *)
(* closes further images.                                                  *)
(*                                                                         *)
(* Each thread has a call stack: call_load_methods in its class loop       *)
(* ("classes") or its category loop ("categories") with the detached list, *)
(* the +load methods ("body") that run inside it, and the pop of its       *)
(* autorelease pool ("pop"), which runs -dealloc methods.                  *)
(***************************************************************************)
EXTENDS Naturals, Sequences, SequencesExt

CONSTANTS
    Threads, Images, Classes, Categories,
    None,               \* no thread; no superclass; an entry that was removed
    NonlazyClasses,     \* the class list of each image, in order
    NonlazyCategories,  \* the category list of each image, in order
    Super, CategoryClass,
    Needs,              \* the images an image depends on
    MaxOpens            \* bound: images opened

VARIABLES
    mapped,                 \* images that dyld has mapped and announced
    RW_LOADED,              \* classes that were scheduled
    loadable_classes, loadable_categories,
    loading,
    loadMethodLock,
    stack,
    called,                 \* +load calls of each class and category since it was mapped
    ended,                  \* the ones that have returned
    late,                   \* images opened since the loops ended, by the pop of the pool
    again,                  \* +loads called by an entry that an unmapped image left behind
    strayLoad,              \* a +load of an unmapped image was called
    crashed,                \* an entry that an unmapped image left behind was followed
    opens

vars == <<mapped, RW_LOADED, loadable_classes, loadable_categories, loading, loadMethodLock,
          stack, called, ended, late, again, strayLoad, crashed, opens>>

Loadable == Classes \cup Categories
ImageOf(x) == CHOOSE i \in Images: x \in Range(NonlazyClasses[i]) \cup Range(NonlazyCategories[i])
Contents(i) == Range(NonlazyClasses[i]) \cup Range(NonlazyCategories[i])

Init ==
    /\ mapped = {} /\ RW_LOADED = {}
    /\ loadable_classes = <<>> /\ loadable_categories = <<>>
    /\ loading = FALSE /\ loadMethodLock = None
    /\ stack = [t \in Threads |-> <<>>]
    /\ called = [x \in Loadable |-> 0] /\ ended = {}
    /\ late = {} /\ again = {}
    /\ strayLoad = FALSE /\ crashed = FALSE /\ opens = 0

Top(t) == Last(stack[t])
At(t, pc) == ~crashed /\ stack[t] # <<>> /\ Top(t).pc = pc
Frame(pc, list) == [pc |-> pc, list |-> list]
Goto(t, frame) == stack' = [stack EXCEPT ![t] = Append(Front(@), frame)]
InUserCode(t) == ~crashed /\ (stack[t] # <<>> => Top(t).pc \in {"body", "pop"})
LockFree(t) == loadMethodLock \in {None, t}

-----------------------------------------------------------------------------
(* schedule_class_load: the class after its superclasses, up to the first  *)
(* one that was scheduled before.                                          *)
schedule_class_load_Down(scheduled, cls) == IF cls \in scheduled THEN <<>> ELSE <<cls>>

schedule_class_load(scheduled, cls) ==
    LET chain[c \in Classes \cup {None}] ==
            IF c = None \/ c \in scheduled THEN <<>> ELSE chain[Super[c]] \o <<c>>
    IN  chain[cls]

(* prepare_load_methods queues the classes of the image and its categories. *)
prepare_load_methods(i) ==
    LET schedule(queue, cls) == queue \o schedule_class_load(RW_LOADED \cup Range(queue), cls)
        new == FoldLeft(schedule, <<>>, NonlazyClasses[i])
    IN  /\ RW_LOADED' = RW_LOADED \cup Range(new)
        /\ loadable_classes' = loadable_classes \o new
        /\ loadable_categories' = loadable_categories \o NonlazyCategories[i]

load_images(t, i) ==
    /\ InUserCode(t) /\ i \notin mapped /\ Needs[i] \subseteq mapped
    /\ opens < MaxOpens /\ LockFree(t)
    /\ opens' = opens + 1
    /\ mapped' = mapped \cup {i}
    /\ prepare_load_methods(i)
    /\ IF loading
          THEN /\ late' = IF At(t, "pop") THEN late \cup {i} ELSE late
               /\ UNCHANGED <<stack, loading, loadMethodLock>>
          ELSE /\ stack' = [stack EXCEPT ![t] = Append(@, Frame("classes", <<>>))]
               /\ loading' = TRUE /\ loadMethodLock' = t /\ UNCHANGED late
    /\ UNCHANGED <<called, ended, again, strayLoad, crashed>>

(* What an image that is unmapped leaves in a detached list: the address of *)
(* its class or category and of the +load method.                          *)
LeftBy(x) == [left |-> x]

(* A +load method is called, of an image that is mapped or is not.         *)
CallLoad(t, x, rest) ==
    /\ called' = [called EXCEPT ![x] = @ + 1]
    /\ strayLoad' = (strayLoad \/ ImageOf(x) \notin mapped)
    /\ stack' = [stack EXCEPT ![t] = Front(@) \o <<rest, Frame("body", <<x>>)>>]
    /\ UNCHANGED <<again, crashed>>

(* An address that was left behind: the program jumps into memory that is   *)
(* gone, unless the image is mapped again, at the same address.             *)
FollowLeft(t, x, rest) ==
    \/ /\ crashed' = TRUE
       /\ UNCHANGED <<called, stack, again, strayLoad>>
    \/ /\ ImageOf(x) \in mapped
       /\ called' = [called EXCEPT ![x] = @ + 1] /\ again' = again \cup {x}
       /\ stack' = [stack EXCEPT ![t] = Front(@) \o <<rest, Frame("body", <<x>>)>>]
       /\ UNCHANGED <<strayLoad, crashed>>

(* The next entry of a detached list: nil, a +load, or what is left of one. *)
CallEntry(t) ==
    LET x == Head(Top(t).list)
        rest == [Top(t) EXCEPT !.list = Tail(@)]
    IN  \/ x = None /\ Goto(t, rest) /\ UNCHANGED <<called, again, strayLoad, crashed>>
        \/ x \in Loadable /\ CallLoad(t, x, rest)
        \/ \E y \in Loadable: x = LeftBy(y) /\ FollowLeft(t, y, rest)

(* call_class_loads: detach the list, call every entry that is not nil.    *)
call_class_loads(t) ==
    /\ At(t, "classes") /\ Top(t).list # <<>> /\ CallEntry(t)
    /\ UNCHANGED <<mapped, RW_LOADED, loadable_classes, loadable_categories, loading,
                   loadMethodLock, ended, late, opens>>

(* The class loop runs until there are no more classes, then the           *)
(* categories are detached.                                                *)
DetachClasses(t) ==
    /\ At(t, "classes") /\ Top(t).list = <<>>
    /\ IF loadable_classes # <<>>
          THEN /\ Goto(t, Frame("classes", loadable_classes))
               /\ loadable_classes' = <<>> /\ UNCHANGED loadable_categories
          ELSE /\ Goto(t, Frame("categories", loadable_categories))
               /\ loadable_categories' = <<>> /\ UNCHANGED loadable_classes
    /\ UNCHANGED <<mapped, RW_LOADED, loading, loadMethodLock, called, ended, late, again,
                   strayLoad, crashed, opens>>

(* call_category_loads: every class is loadable, so no entry is put back.  *)
call_category_loads(t) ==
    /\ At(t, "categories") /\ Top(t).list # <<>> /\ CallEntry(t)
    /\ UNCHANGED <<mapped, RW_LOADED, loadable_classes, loadable_categories, loading,
                   loadMethodLock, ended, late, opens>>

(* call_load_methods goes round again, or pops its pool.                    *)
call_load_methods_Stays(t) ==
    /\ At(t, "categories") /\ Top(t).list = <<>>
    /\ Goto(t, Frame("classes", <<>>))
    /\ UNCHANGED <<mapped, RW_LOADED, loadable_classes, loadable_categories, loading,
                   loadMethodLock, called, ended, late, again, strayLoad, crashed, opens>>

call_load_methods(t) ==
    /\ At(t, "categories") /\ Top(t).list = <<>>
    /\ IF loadable_classes # <<>> \/ loadable_categories # <<>>
          THEN Goto(t, Frame("classes", <<>>)) /\ UNCHANGED late
          ELSE Goto(t, Frame("pop", <<>>)) /\ late' = {}
    /\ UNCHANGED <<mapped, RW_LOADED, loadable_classes, loadable_categories, loading,
                   loadMethodLock, called, ended, again, strayLoad, crashed, opens>>

(* The pool is popped: call_load_methods returns without another look at   *)
(* the queues, and load_images unlocks.                                    *)
PoolPopped(t) ==
    /\ At(t, "pop")
    /\ stack' = [stack EXCEPT ![t] = Front(@)]
    /\ loading' = FALSE /\ loadMethodLock' = None
    /\ UNCHANGED <<mapped, RW_LOADED, loadable_classes, loadable_categories, called, ended,
                   late, again, strayLoad, crashed, opens>>

LoadEnds(t) ==
    /\ At(t, "body")
    /\ ended' = ended \cup Range(Top(t).list)
    /\ stack' = [stack EXCEPT ![t] = Front(@)]
    /\ UNCHANGED <<mapped, RW_LOADED, loadable_classes, loadable_categories, loading,
                   loadMethodLock, called, late, again, strayLoad, crashed, opens>>

-----------------------------------------------------------------------------
(* unmap_image: the first entry of a class or category in its queue becomes *)
(* nil.  Lists that call_load_methods has detached are not searched.        *)
Removed(queue, gone) ==
    [n \in DOMAIN queue |->
        IF queue[n] \in gone /\ \A j \in 1..(n - 1): queue[j] # queue[n] THEN None ELSE queue[n]]

(* Clients close an image only when none of its +load methods is running.   *)
Running(i) == \E t \in Threads: \E n \in DOMAIN stack[t]:
    stack[t][n].pc = "body" /\ Range(stack[t][n].list) \cap Contents(i) # {}

Unmap(t, i) ==
    LET left(frame) ==
            [frame EXCEPT !.list = [n \in DOMAIN @ |-> IF @[n] \in Contents(i) THEN LeftBy(@[n])
                                                                              ELSE @[n]]]
    IN
    /\ InUserCode(t) /\ i \in mapped /\ LockFree(t)
    /\ \A j \in mapped: i \notin Needs[j]
    /\ ~Running(i)
    /\ mapped' = mapped \ {i} /\ late' = late \ {i}
    /\ RW_LOADED' = RW_LOADED \ Range(NonlazyClasses[i])
    /\ called' = [x \in Loadable |-> IF x \in Contents(i) THEN 0 ELSE called[x]]
    /\ ended' = ended \ Contents(i) /\ again' = again \ Contents(i)
    /\ stack' = [u \in Threads |-> [n \in DOMAIN stack[u] |-> left(stack[u][n])]]
    /\ UNCHANGED <<loading, loadMethodLock, strayLoad, crashed, opens>>

unmap_image_Queued(t, i) ==
    Unmap(t, i) /\ UNCHANGED <<loadable_classes, loadable_categories>>

unmap_image(t, i) ==
    /\ Unmap(t, i)
    /\ loadable_classes' = Removed(loadable_classes, Contents(i))
    /\ loadable_categories' = Removed(loadable_categories, Contents(i))

(* No image is being loaded, or the process is gone.                       *)
Idle == (crashed \/ \A t \in Threads: stack[t] = <<>>) /\ UNCHANGED vars

Proceed(t) ==
    \/ call_class_loads(t) \/ DetachClasses(t) \/ call_category_loads(t)
    \/ call_load_methods(t) \/ PoolPopped(t) \/ LoadEnds(t)

Next ==
    \/ Idle
    \/ \E t \in Threads, i \in Images: load_images(t, i) \/ unmap_image(t, i)
    \/ \E t \in Threads: Proceed(t)

Spec == Init /\ [][Next]_vars

(* +load and -dealloc methods return, and the thread that calls them goes on. *)
Fairness == \A t \in Threads: WF_vars(Proceed(t))
FairSpec == Spec /\ Fairness

-----------------------------------------------------------------------------
(* Properties                                                              *)

(* The variables have the types of their declarations; loading says that some     *)
(* call of call_load_methods is under way, and its thread holds the lock.         *)
TypeOK ==
    /\ mapped \subseteq Images /\ RW_LOADED \subseteq Classes
    /\ loadable_classes \in Seq(Classes \cup {None})
    /\ loadable_categories \in Seq(Categories \cup {None})
    /\ \A t \in Threads: \A n \in DOMAIN stack[t]:
          stack[t][n].pc \in (IF n = 2 THEN {"body"} ELSE {"classes", "categories", "pop"})
          /\ stack[t][n].list \in Seq(Loadable \cup {None} \cup {LeftBy(x): x \in Loadable})
    /\ called \in [Loadable -> Nat] /\ ended \subseteq Loadable
    /\ late \subseteq mapped /\ again \subseteq Loadable
    /\ strayLoad \in BOOLEAN /\ crashed \in BOOLEAN /\ opens \in 0..MaxOpens
    /\ loading = \E t \in Threads: stack[t] # <<>>
    /\ \A t \in Threads: stack[t] # <<>> => loadMethodLock = t

(* "Class +load methods are called superclass-first", once, even when a +load     *)
(* opens images with further subclasses.  Only an entry that an unmapped image    *)
(* left in a detached list is called out of turn.                                 *)
SuperclassFirst ==
    \A c \in Classes \ again: called[c] <= 1 /\ (called[c] = 1 /\ Super[c] # None => Super[c] \in ended)

(* "Category +load methods are not called until after the parent class's +load",  *)
(* even when both come with an image that a category's +load opens.               *)
CategoryAfterClass ==
    \A k \in Categories \ again: called[k] <= 1 /\ (called[k] = 1 => CategoryClass[k] \in ended)

(* Both orders of call_load_methods, over every image a +load may open.           *)
LoadsInOrder == SuperclassFirst /\ CategoryAfterClass

(* "No +load method is forgotten because it was added during a +load call": when  *)
(* the outermost call has returned, every +load of every mapped image has been    *)
(* called, or its image was opened by a -dealloc while that call popped its pool. *)
(* Those +loads are not called before some other image is opened, and none of     *)
(* them is dropped from the queues until then.                                    *)
NoneForgotten ==
    LET waiting == Range(loadable_classes) \cup Range(loadable_categories) IN
    loadMethodLock = None =>
        \A i \in mapped: Contents(i) \subseteq ended \cup (IF i \in late THEN waiting ELSE {})

(* A +load is never called for a class or category whose image was unmapped while *)
(* it waited in a queue (remove_class_from_loadable_list: "it is now no longer    *)
(* loadable because its image is being unmapped").  The lists that                *)
(* call_load_methods has detached are out of its reach: LeftBy.                   *)
NeverLoadsUnmapped == ~strayLoad

(* The queues and the lock of load_images are consistent, also across unmapping   *)
(* and across images that a -dealloc opens.                                       *)
LoadInv == TypeOK /\ NeverLoadsUnmapped /\ NoneForgotten

(* Every load_images that takes the lock gives it back, so that images opened on  *)
(* other threads get their turn, unless it follows an entry into an image that is *)
(* gone.                                                                          *)
LoadingEnds == loading ~> (~loading \/ crashed)
=============================================================================
