----------------------------- MODULE Initialize -----------------------------
(***************************************************************************)
(* +initialize (objc-initialize.mm): the first message to a class makes    *)
(* the sending thread initialize it, superclasses first, while every other *)
(* thread that messages it waits.  A +initialize method is client code: it *)
(* messages other classes, and so starts further initializations on the    *)
(* same thread, before it returns or throws.                               *)
(*                                                                         *)
(* Each thread has a call stack of frames.  A frame is one activation of   *)
(* lookUpImpOrForward ("message", "deliver"), of initializeNonMetaClass    *)
(* (the other pcs, in the order of the code), or of                        *)
(* _objc_addWillInitializeClassFunc ("telling").  classInitLock is a       *)
(* variable only because _finishInitializing marks several classes under   *)
(* it while other threads read the class bits without it; the other        *)
(* critical sections are one step each.                                    *)
(***************************************************************************)
EXTENDS Naturals, FiniteSets, Sequences, SequencesExt

CONSTANTS
    Threads, Classes, Funcs,
    None,               \* no thread, no superclass
    Super,              \* the superclass of each class, None for a root
    Sends,              \* the classes the +initialize of each class may message
    Trivial,            \* roots, and classes whose +initialize is the root's or empty
    Throwing,           \* classes whose +initialize may throw
    MaxMessages         \* bound: messages a thread sends from outside +initialize

VARIABLES
    state,                  \* RW_INITIALIZING and RW_INITIALIZED of each class
    list,                   \* _objc_initializing_classes of each thread
    pendingInitializeMap,   \* finished classes that wait for their superclass
    willInitializeFuncs,
    classInitLock,          \* the thread inside _finishInitializing, or None
    waiting,                \* threads blocked in classInitLock.wait()
    stack, throwing,        \* the control state of each thread
    alive, MultithreadedForkChild,
    fatal,                  \* the _objc_fatal that ended the process, or "no"
    sent, told,             \* +initialize calls of a class, classes told to a func
    budget                  \* messages each thread may still send

vars == <<state, list, pendingInitializeMap, willInitializeFuncs, classInitLock, waiting,
          stack, throwing, alive, MultithreadedForkChild, fatal, sent, told, budget>>

ClassBits == {"clear", "initializing", "initialized"}
Calls == {"message", "deliver"}
Steps == {"super", "claim", "record", "telling", "call", "running", "finish", "marking",
          "test", "testDone", "wait", "forked"}
Fatals == {"no", "already", "not", "buggy", "fork"}

Frames == [pc: Calls \cup Steps, cls: Classes \cup {None}, sends: SUBSET Classes,
           funcs: Seq(Funcs), todo: Seq(Classes)]

Frame(pc, c) == [pc |-> pc, cls |-> c, sends |-> {}, funcs |-> <<>>, todo |-> <<>>]

isInitialized(c) == state[c] = "initialized"
isInitializing(c) == state[c] = "initializing"
SuperDone(c) == Super[c] = None \/ (Super[c] # None /\ isInitialized(Super[c]))

Init ==
    /\ state = [c \in Classes |-> "clear"]
    /\ list = [t \in Threads |-> {}]
    /\ pendingInitializeMap = [c \in Classes |-> <<>>]
    /\ willInitializeFuncs = <<>>
    /\ classInitLock = None
    /\ waiting = {}
    /\ stack = [t \in Threads |-> <<>>]
    /\ throwing = [t \in Threads |-> FALSE]
    /\ alive = Threads
    /\ MultithreadedForkChild = FALSE
    /\ fatal = "no"
    /\ sent = [c \in Classes |-> 0]
    /\ told = [f \in Funcs |-> [c \in Classes |-> 0]]
    /\ budget = [t \in Threads |-> MaxMessages]

(* Control: the frame at the top of the stack, and what happens to it.     *)
Top(t) == Last(stack[t])
At(t, pc) == fatal = "no" /\ ~throwing[t] /\ stack[t] # <<>> /\ Top(t).pc = pc
Goto(t, frame) == stack' = [stack EXCEPT ![t] = Append(Front(@), frame)]
Call(t, frame, callee) == stack' = [stack EXCEPT ![t] = Front(@) \o <<frame, callee>>]
Return(t) == stack' = [stack EXCEPT ![t] = Front(@)]
Next_pc(t, pc) == [Top(t) EXCEPT !.pc = pc]

Die(why) ==
    /\ fatal' = why
    /\ UNCHANGED <<state, list, pendingInitializeMap, willInitializeFuncs, classInitLock, waiting,
                   stack, throwing, alive, MultithreadedForkChild, sent, told, budget>>

CallState == <<throwing, alive, MultithreadedForkChild, fatal, sent, told, budget>>
ClassState == <<state, list, pendingInitializeMap, willInitializeFuncs, classInitLock, waiting>>

-----------------------------------------------------------------------------
(* Client code: a message to a class, from outside or from a +initialize.  *)
Message(t, c) ==
    /\ fatal = "no" /\ t \in alive /\ ~throwing[t]
    /\ stack[t] = <<>> /\ budget[t] > 0
    /\ budget' = [budget EXCEPT ![t] = @ - 1]
    /\ stack' = [stack EXCEPT ![t] = <<Frame("message", c)>>]
    /\ UNCHANGED <<ClassState, throwing, alive, MultithreadedForkChild, fatal, sent, told>>

BodyMessages(t) ==
    /\ At(t, "running")
    /\ \E c \in Top(t).sends:
          Call(t, [Top(t) EXCEPT !.sends = @ \ {c}], Frame("message", c))
    /\ UNCHANGED <<ClassState, CallState>>

(* lookUpImpOrForward initializes the class unless it is initialized; the  *)
(* method is called when initializeNonMetaClass has returned.              *)
lookUpImpOrForward(t) ==
    /\ At(t, "message")
    /\ IF isInitialized(Top(t).cls)
          THEN Goto(t, Next_pc(t, "deliver"))
          ELSE Call(t, Next_pc(t, "deliver"), Frame("super", Top(t).cls))
    /\ UNCHANGED <<ClassState, CallState>>

Deliver(t) ==
    /\ At(t, "deliver")
    /\ Return(t)
    /\ UNCHANGED <<ClassState, CallState>>

-----------------------------------------------------------------------------
(* initializeNonMetaClass: the superclass first.                           *)
InitializeSuper_Skipped(t) ==
    /\ At(t, "super")
    /\ Goto(t, Next_pc(t, "claim"))
    /\ UNCHANGED <<ClassState, CallState>>

InitializeSuper(t) ==
    /\ At(t, "super")
    /\ IF SuperDone(Top(t).cls)
          THEN Goto(t, Next_pc(t, "claim"))
          ELSE Call(t, Next_pc(t, "claim"), Frame("super", Super[Top(t).cls]))
    /\ UNCHANGED <<ClassState, CallState>>

(* Set RW_INITIALIZING and copy the will-initialize functions, under the lock. *)
(* (Without the lock the test and the assignment are not one step.)        *)
setInitializing_Unlocked(t) ==
    LET c == Top(t).cls IN
    /\ At(t, "claim")
    /\ \/ Goto(t, [Top(t) EXCEPT !.pc = "record", !.funcs = willInitializeFuncs])
          /\ ~isInitialized(c) /\ state' = [state EXCEPT ![c] = "initializing"]
       \/ Goto(t, Next_pc(t, "test"))
          /\ (isInitialized(c) \/ isInitializing(c)) /\ UNCHANGED state
    /\ UNCHANGED <<list, pendingInitializeMap, willInitializeFuncs, classInitLock, waiting, CallState>>

setInitializing(t) ==
    LET c == Top(t).cls IN
    /\ At(t, "claim") /\ classInitLock = None
    /\ IF ~isInitialized(c) /\ ~isInitializing(c)
          THEN /\ state' = [state EXCEPT ![c] = "initializing"]
               /\ Goto(t, [Top(t) EXCEPT !.pc = "record", !.funcs = willInitializeFuncs])
          ELSE /\ Goto(t, Next_pc(t, "test"))
               /\ UNCHANGED state
    /\ UNCHANGED <<list, pendingInitializeMap, willInitializeFuncs, classInitLock, waiting, CallState>>

(* _setThisThreadIsInitializingClass, which refuses a duplicate.           *)
SetThisThread(t, pc) ==
    LET c == Top(t).cls IN
    IF c \in list[t]
       THEN Die("already")
       ELSE /\ list' = [list EXCEPT ![t] = @ \cup {c}]
            /\ Goto(t, Next_pc(t, pc))
            /\ UNCHANGED <<state, pendingInitializeMap, willInitializeFuncs, classInitLock,
                           waiting, CallState>>

Record(t) ==
    /\ At(t, "record")
    /\ SetThisThread(t, IF MultithreadedForkChild THEN "forked" ELSE "telling")

(* The copied will-initialize functions are called, then +initialize.      *)
Tell(t, f, c) == told' = [told EXCEPT ![f][c] = @ + 1]

TellNext(t) ==
    LET frame == Top(t) IN
    /\ At(t, "telling") /\ frame.cls # None
    /\ IF frame.funcs = <<>>
          THEN Goto(t, Next_pc(t, "call")) /\ UNCHANGED told
          ELSE Goto(t, [frame EXCEPT !.funcs = Tail(@)]) /\ Tell(t, Head(frame.funcs), frame.cls)
    /\ UNCHANGED <<ClassState, throwing, alive, MultithreadedForkChild, fatal, sent, budget>>

(* callInitialize is itself a message to the class.                        *)
callInitialize(t) ==
    LET c == Top(t).cls IN
    /\ At(t, "call")
    /\ Call(t, [Next_pc(t, "running") EXCEPT !.sends = Sends[c]], Frame("message", c))
    /\ sent' = [sent EXCEPT ![c] = @ + 1]
    /\ UNCHANGED <<ClassState, throwing, alive, MultithreadedForkChild, fatal, told, budget>>

(* The method returns or throws; @finally runs in either case.             *)
BodyEnds(t) ==
    /\ At(t, "running")
    /\ Goto(t, Next_pc(t, "finish"))
    /\ throwing' \in {throwing} \cup (IF Top(t).cls \in Throwing
                                         THEN {[throwing EXCEPT ![t] = TRUE]} ELSE {})
    /\ UNCHANGED <<ClassState, alive, MultithreadedForkChild, fatal, sent, told, budget>>

Finishing(t, pc) == fatal = "no" /\ stack[t] # <<>> /\ Top(t).pc = pc

(* lockAndFinishInitializing: mark the class, or leave it to the thread    *)
(* that finishes its superclass.                                           *)
lockAndFinishInitializing_Now(t) ==
    LET c == Top(t).cls IN
    /\ Finishing(t, "finish") /\ classInitLock = None
    /\ classInitLock' = t
    /\ Goto(t, [Top(t) EXCEPT !.pc = "marking", !.todo = <<c>>])
    /\ UNCHANGED <<state, list, pendingInitializeMap, willInitializeFuncs, waiting, CallState>>

lockAndFinishInitializing(t) ==
    LET c == Top(t).cls IN
    /\ Finishing(t, "finish") /\ classInitLock = None
    /\ IF SuperDone(c)
          THEN /\ classInitLock' = t
               /\ Goto(t, [Top(t) EXCEPT !.pc = "marking", !.todo = <<c>>])
               /\ UNCHANGED pendingInitializeMap
          ELSE /\ pendingInitializeMap' = [pendingInitializeMap EXCEPT ![Super[c]] = <<c>> \o @]
               /\ Return(t)
               /\ UNCHANGED classInitLock
    /\ UNCHANGED <<state, list, willInitializeFuncs, waiting, CallState>>

(* _finishInitializing marks one class, wakes the waiters and goes on with *)
(* the subclasses that were pending on it, depth first.                    *)
Marked(t, notify, rest) ==
    LET c == Head(Top(t).todo) IN
    IF c \notin list[t]
       THEN Die("not")
       ELSE /\ state' = [state EXCEPT ![c] = "initialized"]
            /\ waiting' = IF notify THEN {} ELSE waiting
            /\ list' = [list EXCEPT ![t] = @ \ {c}]
            /\ pendingInitializeMap' = [pendingInitializeMap EXCEPT ![c] = <<>>]
            /\ IF rest = <<>>
                  THEN classInitLock' = None /\ Return(t)
                  ELSE Goto(t, [Top(t) EXCEPT !.todo = rest]) /\ UNCHANGED classInitLock
            /\ UNCHANGED <<willInitializeFuncs, CallState>>

finishInitializing_Silent(t) ==
    LET c == Head(Top(t).todo) IN
    Finishing(t, "marking") /\ Marked(t, FALSE, pendingInitializeMap[c] \o Tail(Top(t).todo))

finishInitializing(t) ==
    LET c == Head(Top(t).todo) IN
    Finishing(t, "marking") /\ Marked(t, TRUE, pendingInitializeMap[c] \o Tail(Top(t).todo))

(* An exception leaves the frames of the runtime; a +initialize body, or   *)
(* the client's outermost code, may catch it.                              *)
Unwind(t) ==
    /\ fatal = "no" /\ throwing[t]
    /\ \/ /\ stack[t] # <<>> /\ Top(t).pc \in {"claim", "deliver"}
          /\ Return(t) /\ UNCHANGED throwing
       \/ /\ stack[t] # <<>> /\ Top(t).pc = "running"
          /\ Goto(t, Next_pc(t, "finish")) /\ UNCHANGED throwing
       \/ /\ stack[t] # <<>> => Top(t).pc = "running"
          /\ throwing' = [throwing EXCEPT ![t] = FALSE] /\ UNCHANGED stack
    /\ UNCHANGED <<ClassState, alive, MultithreadedForkChild, fatal, sent, told, budget>>

-----------------------------------------------------------------------------
(* RW_INITIALIZING could not be set.  The two bits are read without the    *)
(* lock, RW_INITIALIZING first.                                            *)
TestInitializing_Returns(t) ==
    LET c == Top(t).cls IN
    /\ At(t, "test")
    /\ IF isInitializing(c) THEN Return(t) ELSE Goto(t, Next_pc(t, "testDone"))
    /\ UNCHANGED <<ClassState, CallState>>

TestInitializing(t) ==
    LET c == Top(t).cls IN
    /\ At(t, "test")
    /\ CASE ~isInitializing(c) ->
              Goto(t, Next_pc(t, "testDone")) /\ UNCHANGED <<ClassState, CallState>>
         [] isInitializing(c) /\ c \in list[t] ->
              Return(t) /\ UNCHANGED <<ClassState, CallState>>
         [] isInitializing(c) /\ c \notin list[t] /\ ~MultithreadedForkChild ->
              Goto(t, Next_pc(t, "wait")) /\ UNCHANGED <<ClassState, CallState>>
         [] OTHER -> SetThisThread(t, "forked")

TestInitialized(t) ==
    /\ At(t, "testDone")
    /\ IF isInitialized(Top(t).cls)
          THEN Return(t) /\ UNCHANGED <<ClassState, CallState>>
          ELSE Die("buggy")

(* waitForInitializeToComplete tests the bit under the lock.               *)
waitForInitializeToComplete(t) ==
    /\ At(t, "wait") /\ t \notin waiting /\ classInitLock = None
    /\ IF isInitialized(Top(t).cls)
          THEN Return(t) /\ UNCHANGED waiting
          ELSE waiting' = waiting \cup {t} /\ UNCHANGED stack
    /\ UNCHANGED <<state, list, pendingInitializeMap, willInitializeFuncs, classInitLock, CallState>>

(* performForkChildInitialize skips a trivial +initialize, else halts.     *)
performForkChildInitialize(t) ==
    /\ At(t, "forked")
    /\ IF Top(t).cls \in Trivial
          THEN Goto(t, Next_pc(t, "finish")) /\ UNCHANGED <<ClassState, CallState>>
          ELSE Die("fork")

-----------------------------------------------------------------------------
addWillInitializeClassFunc(t, f) ==
    /\ fatal = "no" /\ t \in alive /\ ~throwing[t]
    /\ stack[t] = <<>> /\ f \notin Range(willInitializeFuncs)
    /\ classInitLock = None
    /\ willInitializeFuncs' = Append(willInitializeFuncs, f)
    /\ stack' = [stack EXCEPT ![t] =
          <<[Frame("telling", None) EXCEPT
                !.funcs = <<f>>,
                !.sends = {c \in Classes: isInitializing(c) \/ isInitialized(c)}]>>]
    /\ UNCHANGED <<state, list, pendingInitializeMap, classInitLock, waiting, CallState>>

TellExisting(t) ==
    LET frame == Top(t) IN
    /\ At(t, "telling") /\ frame.cls = None
    /\ \/ /\ frame.sends = {}
          /\ Return(t) /\ UNCHANGED told
       \/ \E c \in frame.sends:
             /\ Goto(t, [frame EXCEPT !.sends = @ \ {c}])
             /\ Tell(t, Head(frame.funcs), c)
    /\ UNCHANGED <<ClassState, throwing, alive, MultithreadedForkChild, fatal, sent, budget>>

(* fork() from client code.  The fork handlers hold every lock, and the    *)
(* model follows the child, in which only the forking thread exists.       *)
Fork(t) ==
    /\ fatal = "no" /\ alive = Threads /\ ~throwing[t]
    /\ stack[t] # <<>> => Top(t).pc = "running"
    /\ classInitLock = None
    /\ alive' = {t}
    /\ MultithreadedForkChild' = TRUE
    /\ stack' = [u \in Threads |-> IF u = t THEN stack[t] ELSE <<>>]
    /\ list' = [u \in Threads |-> IF u = t THEN list[t] ELSE {}]
    /\ throwing' = [u \in Threads |-> FALSE]
    /\ waiting' = {}
    /\ UNCHANGED <<state, pendingInitializeMap, willInitializeFuncs, classInitLock,
                   fatal, sent, told, budget>>

(* The process is over, or its clients have nothing left to do.            *)
Finished ==
    /\ fatal # "no" \/ \A t \in Threads: stack[t] = <<>> /\ ~throwing[t]
    /\ UNCHANGED vars

Step(t) ==
    \/ BodyMessages(t) \/ lookUpImpOrForward(t) \/ Deliver(t)
    \/ InitializeSuper(t) \/ setInitializing(t) \/ Record(t) \/ TellNext(t) \/ callInitialize(t)
    \/ BodyEnds(t) \/ lockAndFinishInitializing(t) \/ finishInitializing(t) \/ Unwind(t)
    \/ TestInitializing(t) \/ TestInitialized(t) \/ waitForInitializeToComplete(t)
    \/ performForkChildInitialize(t) \/ TellExisting(t)

Next ==
    \/ \E t \in Threads: Step(t) \/ Fork(t)
    \/ \E t \in Threads, c \in Classes: Message(t, c)
    \/ \E t \in Threads, f \in Funcs: addWillInitializeClassFunc(t, f)
    \/ Finished

(* Every thread that can run does, and +initialize methods end.            *)
Fairness == \A t \in Threads: WF_vars(Step(t))

Spec == Init /\ [][Next]_vars
FairSpec == Spec /\ Fairness

-----------------------------------------------------------------------------
(* Properties                                                              *)

Busy(t, pc, c) == \E i \in DOMAIN stack[t]: stack[t][i].pc = pc /\ stack[t][i].cls = c

(* The variables have the types of their declarations, and classInitLock is held  *)
(* across steps exactly by the thread that is inside _finishInitializing.         *)
TypeOK ==
    /\ state \in [Classes -> ClassBits]
    /\ list \in [Threads -> SUBSET Classes]
    /\ \A c \in Classes: pendingInitializeMap[c] \in Seq(Classes)
    /\ willInitializeFuncs \in Seq(Funcs)
    /\ waiting \subseteq alive /\ alive \subseteq Threads
    /\ \A t \in Threads: stack[t] \in Seq(Frames)
    /\ throwing \in [Threads -> BOOLEAN]
    /\ MultithreadedForkChild \in BOOLEAN /\ fatal \in Fatals
    /\ sent \in [Classes -> Nat] /\ told \in [Funcs -> [Classes -> Nat]]
    /\ budget \in [Threads -> 0..MaxMessages]
    /\ \A t \in Threads: classInitLock = t <=> stack[t] # <<>> /\ Top(t).pc = "marking"

(* "The initializing+initialized part of the class hierarchy will be a contiguous *)
(* subtree starting at the root" (the deadlock note of objc-initialize.mm), and a *)
(* class is marked initialized only when its superclass is.                       *)
Contiguous ==
    \A c \in Classes: Super[c] # None =>
       /\ state[c] # "clear" => state[Super[c]] # "clear"
       /\ isInitialized(c) => isInitialized(Super[c])

(* A class that is initializing belongs to one thread: the one that set the bit   *)
(* and has it on, or is about to put it on, its list.  In a fork child the class  *)
(* of a thread that no longer exists belongs to nobody.                           *)
OneInitializer ==
    \A c \in Classes:
       LET owners == {t \in Threads: c \in list[t] \/ Busy(t, "record", c)} IN
       /\ state[c] # "initializing" => owners = {}
       /\ state[c] = "initializing" =>
             Cardinality(owners) \in (IF MultithreadedForkChild THEN {0, 1} ELSE {1})

(* A method is called only when the class and all its superclasses are            *)
(* initialized, or are being initialized by the calling thread.                   *)
Ready(t, c) == isInitialized(c) \/ c \in list[t]
ReadyWhenDelivered ==
    \A t \in Threads: At(t, "deliver") =>
       LET c == Top(t).cls IN
       Ready(t, c) /\ (Super[c] # None => Ready(t, Super[c]))

(* +initialize is sent to a class once, and never before the superclass has at    *)
(* least begun its own on the same thread or completed it.                        *)
SentOnceSuperFirst ==
    \A c \in Classes:
       /\ sent[c] <= 1
       /\ ~MultithreadedForkChild /\ isInitialized(c) => sent[c] = 1
       /\ sent[c] = 1 /\ Super[c] # None =>
             isInitialized(Super[c]) \/ \E t \in Threads: {c, Super[c]} \subseteq list[t]
             \/ MultithreadedForkChild

(* The checks that halt the process on an inconsistency of the runtime's own      *)
(* lists never fire: a subclass whose marking was left to the thread that         *)
(* finishes the superclass is on the list of that same thread.                    *)
NeverBuggy == fatal \in {"no", "fork"}

(* When +initialize methods message only their own subclasses and superclasses, a *)
(* thread that is initializing some class never blocks, so that threads cannot    *)
(* wait for one another (the OmniWeb deadlock of the note).                       *)
InitializersNeverWait ==
    \A t \in Threads: stack[t] # <<>> /\ Top(t).pc = "wait" => list[t] = {}

(* In a fork child nothing waits for a class that a thread of the parent was      *)
(* initializing.                                                                  *)
ChildNeverBlocks ==
    MultithreadedForkChild => \A t \in Threads: stack[t] # <<>> => Top(t).pc # "wait"

(* A will-initialize function is called at most once for a class, and once it is  *)
(* registered and its first calls are made, it has been called for every class    *)
(* whose +initialize has begun.                                                   *)
Registering(f) == \E t \in Threads: \E i \in DOMAIN stack[t]:
    stack[t][i].pc = "telling" /\ stack[t][i].cls = None /\ stack[t][i].funcs = <<f>>
ToldOnce ==
    \A f \in Funcs, c \in Classes:
       /\ told[f][c] <= 1
       /\ f \in Range(willInitializeFuncs) /\ ~Registering(f) /\ sent[c] > 0 /\ ~MultithreadedForkChild
             => told[f][c] = 1

(* The bookkeeping of initializeNonMetaClass: the types, the contiguous tree, one *)
(* initializer per class, none of the conditions that halt the process, and the   *)
(* will-initialize functions told.                                                *)
InitializeInv ==
    TypeOK /\ Contiguous /\ OneInitializer /\ NeverBuggy /\ ChildNeverBlocks /\ ToldOnce

(* Every message a thread sends returns: the class ends up initialized, or the    *)
(* process has halted.                                                            *)
MessagesReturn ==
    \A t \in Threads: stack[t] # <<>> ~> (stack[t] = <<>> \/ fatal # "no")
=============================================================================
