--------------------------- MODULE AutoreleasePool ---------------------------
(***************************************************************************)
(* One thread's autorelease pools: AutoreleasePoolPage and the hand-off of *)
(* autoreleased return values through thread-local storage.                *)
(*                                                                         *)
(* The pool is a stack of entries, kept in a chain of pages of PageSize    *)
(* entries; a pool token is the place of the boundary that opened the      *)
(* pool.  Popping releases what is above the token, and every release may  *)
(* run client code (a -dealloc) that autoreleases, pushes and pops in its  *)
(* turn, so the calls of the runtime nest: stack holds the frames of the   *)
(* client code and of the runtime calls that are waiting for it.           *)
(***************************************************************************)
EXTENDS Naturals, Sequences, FiniteSets

CONSTANTS
  Objects,
  Custom,              \* objects whose class overrides -autorelease
  Nil, Wild,
  maxCount,            \* AutoreleasePoolEntry::maxCount
  Settings,            \* the builds and environments a process may start with
  PoolsWhileBlocked,   \* an overridden -autorelease uses pools of its own
  DestructorRounds,    \* PTHREAD_DESTRUCTOR_ITERATIONS
  MaxCalls, MaxDepth   \* bounds: autoreleases and pushes; frames under a -dealloc

ASSUME PoolAssumption ==
  /\ {Nil, Wild} \cap Objects = {} /\ Nil # Wild /\ Custom \subseteq Objects
  /\ maxCount \in Nat
  /\ Settings \subseteq [PageSize : Nat \ {0, 1}, Coalescing : {"lru", "last", "none"}, Elision : BOOLEAN,
                         DebugPoolAllocation : BOOLEAN, DebugMissingPools : BOOLEAN,
                         Uninitialized : SUBSET Objects]
  /\ PoolsWhileBlocked \in BOOLEAN
  /\ DestructorRounds \in Nat \ {0} /\ MaxCalls \in Nat /\ MaxDepth \in Nat \ {0}

VARIABLES
  setting,  \* how the runtime was built, what the environment says, which classes are not initialized
  pages,  \* the pages from the coldest to the last child, each a stack of entries
  hot,    \* hotPage_: index of a page, 0 for nil, or Placeholder
  parked, \* the pages of a thread that is exiting, while its slot for them is cleared
  tls,    \* ReturnAutoreleaseInfo
  uninit, \* objects whose class has not been sent +initialize
  stack,  \* the calls in progress, innermost last
  owed,   \* owed[o]: releases of o that autoreleases have promised
  calls   \* autoreleases and pushes made so far

vars == <<setting, pages, hot, parked, tls, uninit, stack, owed, calls>>

\* The entries of a page, OBJC_DISABLE_AUTORELEASE_COALESCING and _LRU, HAS_RETURNADDR_AUTORELEASE_ELISION,
\* OBJC_DEBUG_POOL_ALLOCATION, OBJC_DEBUG_MISSING_POOLS.
PageSize == setting.PageSize
Coalescing == setting.Coalescing
Elision == setting.Elision
DebugPoolAllocation == setting.DebugPoolAllocation
DebugMissingPools == setting.DebugMissingPools

Placeholder == 99
Boundary == [obj |-> Nil, count |-> 0]

Entries == [obj : Objects \cup {Nil, Wild}, count : 0..maxCount]

\* The bits of the blocked info are all set: read as an info they are those of
\* a wild object that came from rootAutorelease.
Empty == [kind |-> "empty", obj |-> Nil, root |-> FALSE]
Blocked == [kind |-> "blocked", obj |-> Wild, root |-> TRUE]
Info(o, root) == [kind |-> "object", obj |-> o, root |-> root]

(***************************************************************************)
(* The frames.  "client" is client code: tokens are the pools it opened,   *)
(* and n = 1 if it is an overridden -autorelease of obj that has not       *)
(* called super yet.  A pop goes through "drain", "until", "release",      *)
(* "kill"; "move" waits for an overridden -autorelease and "init" for a    *)
(* +initialize, then they do todo with obj.  A thread that exits goes      *)
(* through "exit", "exitDrain", "exitKill" and "exitTLS", stop times.      *)
(***************************************************************************)
Frame(at) == [at |-> at, tokens |-> <<>>, page |-> 0, stop |-> 0, obj |-> Nil, n |-> 0,
              back |-> "none", todo |-> "none"]
Override(o) == [Frame("client") EXCEPT !.obj = o, !.n = 1]
\* Mutant: the pop stops one entry below the boundary.
Popping_Low(k) == [Frame("drain") EXCEPT !.page = k[1], !.stop = IF k[2] > 1 THEN k[2] - 1 ELSE k[2]]

Popping(k) == [Frame("drain") EXCEPT !.page = k[1], !.stop = k[2]]

top == stack[Len(stack)]
Replace(f) == [stack EXCEPT ![Len(stack)] = f]
Under == SubSeq(stack, 1, Len(stack) - 1)

\* The variables have their types, no page holds more than PageSize entries, and
\* the hot page is one of the chain (AutoreleasePoolPage).
TypeOK ==
  /\ pages \in Seq(Seq(Entries)) /\ \A i \in DOMAIN pages : Len(pages[i]) <= PageSize
  /\ hot \in {0, Placeholder} \cup DOMAIN pages /\ parked \in Seq(Seq(Entries)) /\ uninit \subseteq Objects
  /\ tls \in [kind : {"empty", "blocked", "object"}, obj : Objects \cup {Nil, Wild}, root : BOOLEAN]
  /\ \A i \in DOMAIN stack :
       /\ stack[i].at \in {"client", "drain", "until", "release", "kill", "move", "init",
                          "exit", "exitDrain", "exitKill", "exitTLS", "exited"}
       /\ stack[i].n \in 0..(maxCount + 1)
  /\ owed \in [Objects -> 0..MaxCalls] /\ calls \in 0..MaxCalls

Init ==
  /\ setting \in Settings
  /\ pages = <<>> /\ hot = 0 /\ parked = <<>> /\ tls = Empty
  /\ uninit = setting.Uninitialized
  /\ stack = <<Frame("client")>>
  /\ owed = [o \in Objects |-> 0] /\ calls = 0

(***************************************************************************)
(* Adding to the pool.  p is a record of pages and hot; the result also    *)
(* has the place of the new entry.                                         *)
(***************************************************************************)
Pool == [pages |-> pages, hot |-> hot]

\* Mutant: entries are merged across a pool boundary.
Mergeable_Across(s, o) ==
  {i \in 1..Len(s) : s[i].obj = o /\ s[i].count < maxCount /\ i > 1 /\ i + 3 >= Len(s)}

\* The places of page s where an autorelease of o is only counted.
Mergeable(s, o) ==
  {i \in 1..Len(s) :
     /\ s[i].obj = o /\ s[i].count < maxCount
     /\ \/ /\ Coalescing = "lru" /\ i > 1 /\ i + 3 >= Len(s)
           /\ \A j \in i..Len(s) : s[j] # Boundary
        \/ Coalescing = "last" /\ i = Len(s)}

\* The merged entry moves to the top.
add(s, o) ==
  IF o # Nil /\ Mergeable(s, o) # {}
  THEN LET i == CHOOSE i \in Mergeable(s, o) : \A j \in Mergeable(s, o) : j <= i IN
       SubSeq(s, 1, i - 1) \o SubSeq(s, i + 1, Len(s)) \o <<[s[i] EXCEPT !.count = @ + 1]>>
  ELSE Append(s, [obj |-> o, count |-> 0])

AddTo(ps, i, o) ==
  LET s == add(ps[i], o) IN
  [pages |-> [ps EXCEPT ![i] = s], hot |-> i, at |-> <<i, Len(s)>>, leaks |-> FALSE]

\* Mutant: a new page even if there is an empty child.
autoreleaseFullPage_New(p, o) == AddTo(Append(p.pages, <<>>), Len(p.pages) + 1, o)

\* The next page that is not full, a new one if there is none.
autoreleaseFullPage(p, o) ==
  LET open == {i \in (p.hot + 1)..Len(p.pages) : Len(p.pages[i]) < PageSize} IN
  IF open = {} THEN AddTo(Append(p.pages, <<>>), Len(p.pages) + 1, o)
  ELSE AddTo(p.pages, CHOOSE i \in open : \A j \in open : i <= j, o)

autoreleaseNoPage(p, o) ==
  CASE p.hot = Placeholder -> AddTo(<<<<Boundary>>>>, 1, o)
    [] p.hot = 0 /\ o # Nil /\ DebugMissingPools ->
         [pages |-> p.pages, hot |-> 0, at |-> <<0, 0>>, leaks |-> TRUE]
    [] p.hot = 0 /\ o = Nil /\ ~DebugPoolAllocation ->
         [pages |-> p.pages, hot |-> Placeholder, at |-> <<0, 0>>, leaks |-> FALSE]
    [] OTHER -> AddTo(<<<<>>>>, 1, o)

HasPage(p) == p.hot \notin {0, Placeholder}

autoreleaseFast(p, o) ==
  IF ~HasPage(p) THEN autoreleaseNoPage(p, o)
  ELSE IF Len(p.pages[p.hot]) < PageSize THEN AddTo(p.pages, p.hot, o)
  ELSE autoreleaseFullPage(p, o)

\* A boundary starts a new page when pools are debugged.
PushBoundary(p) ==
  IF DebugPoolAllocation /\ HasPage(p) THEN autoreleaseFullPage(p, Nil) ELSE autoreleaseFast(p, Nil)

(***************************************************************************)
(* The return value in TLS.  What is found there is moved to the pool      *)
(* before anything else: todo says what the caller does next, in client    *)
(* frame f on top of the frames under.                                     *)
(***************************************************************************)
\* The pool after an autorelease of o, or unchanged if there is none.
Moved(p, o) == IF o = Nil THEN [pages |-> p.pages, hot |-> p.hot, leaks |-> FALSE] ELSE autoreleaseFast(p, o)

\* todo, with the pool at p: set the TLS, push a boundary, autorelease, or nothing.
\* An object that is returned or autoreleased has its class initialized first: its
\* +initialize is client code, and starts with nothing in the TLS.
Then(todo, next, under, f, p) ==
  LET q == IF todo = "push" THEN PushBoundary(p) ELSE p
      g == IF todo = "push" THEN [f EXCEPT !.tokens = Append(@, q.at)] ELSE f
  IN
  /\ pages' = q.pages /\ hot' = q.hot /\ uninit' = uninit \ {next}
  /\ tls' = IF todo \in {"setRoot", "setReturn"} /\ next \notin uninit THEN Info(next, todo = "setRoot") ELSE Empty
  /\ stack' = under \o
       (CASE next \in uninit -> <<g, [Frame("init") EXCEPT !.todo = todo, !.obj = next, !.n = 1], Frame("client")>>
          [] next \notin uninit /\ todo = "autorelease" -> <<g, Override(next)>>
          [] OTHER -> <<g>>)

\* +initialize returned: what it left in the TLS is overwritten, and its release is
\* never made; if the class overrides -autorelease it is sent that instead.
InitDone ==
  /\ top.at = "init"
  /\ IF top.todo = "autorelease"
     THEN stack' = Append(Under, Override(top.obj)) /\ UNCHANGED <<tls, owed>>
     ELSE /\ stack' = Under /\ tls' = Info(top.obj, top.todo = "setRoot")
          /\ owed' = IF tls.kind = "object" THEN [owed EXCEPT ![tls.obj] = @ - 1] ELSE owed
  /\ UNCHANGED <<pages, hot, uninit, calls>>

\* In client frame f.  The blocked info is not recognized.
moveTLSAutoreleaseToPool(info, f, todo, next, promised) ==
  IF ~info.root /\ info.obj \in Custom
  THEN /\ tls' = Blocked
       /\ stack' = Under \o <<f, [Frame("move") EXCEPT !.todo = todo, !.obj = next,
                                                    !.n = IF next = Nil THEN 0 ELSE 1], Override(info.obj)>>
       /\ owed' = promised /\ UNCHANGED <<pages, hot, uninit>>
  ELSE LET p == Moved(Pool, info.obj) IN
       /\ Then(todo, next, Under, f, p)
       /\ owed' = IF p.leaks THEN [promised EXCEPT ![info.obj] = @ - 1] ELSE promised

Promise(o) == [owed EXCEPT ![o] = @ + 1]

\* The overridden -autorelease returned: the TLS is cleared.
MoveDone ==
  /\ top.at = "move"
  /\ Then(top.todo, top.obj, SubSeq(stack, 1, Len(stack) - 2), stack[Len(stack) - 1], Pool)
  /\ UNCHANGED <<owed, calls>>

\* rootAutorelease: into the TLS, or into the pool if elision is off or blocked.
rootAutorelease(o, f, promised) ==
  IF ~Elision \/ tls.kind = "blocked"
  THEN LET p == autoreleaseFast(Pool, o) IN
       /\ pages' = p.pages /\ hot' = p.hot
       /\ stack' = Replace(f) /\ owed' = IF p.leaks THEN [promised EXCEPT ![o] = @ - 1] ELSE promised
       /\ UNCHANGED <<tls, uninit>>
  ELSE moveTLSAutoreleaseToPool(tls, f, "setRoot", o, promised)

(***************************************************************************)
(* Client code.                                                            *)
(***************************************************************************)
Client == top.at = "client"
Bounded == calls < MaxCalls /\ calls' = calls + 1

\* The message to an overridden -autorelease initializes the class.
objc_autorelease(o, promised) ==
  IF o \in Custom
  THEN stack' = Append(stack, Override(o)) /\ owed' = promised /\ uninit' = uninit \ {o}
       /\ UNCHANGED <<pages, hot, tls>>
  ELSE rootAutorelease(o, top, promised)

Autorelease(o) == Client /\ Bounded /\ objc_autorelease(o, Promise(o))

\* [super autorelease] in an override.
SuperAutorelease ==
  /\ Client /\ top.n = 1
  /\ rootAutorelease(top.obj, [top EXCEPT !.n = 0], owed)
  /\ UNCHANGED calls

\* objc_autoreleaseReturnValue; a caller that does not claim gets a real
\* -autorelease if the class overrides it.  (Without Elision a return that is
\* claimed leaves no trace.)
ReturnValue(o, claims) ==
  /\ Client /\ Bounded
  /\ IF ~Elision \/ tls.kind = "blocked" THEN objc_autorelease(o, Promise(o))
     ELSE moveTLSAutoreleaseToPool(tls, top, IF o \in Custom /\ ~claims THEN "autorelease" ELSE "setReturn",
                                   o, Promise(o))

\* objc_retainAutoreleasedReturnValue: the object in the TLS becomes the
\* caller's, or is moved to the pool when the return addresses do not match.
Claim ==
  /\ Client /\ tls.kind = "object"
  /\ tls' = Empty /\ owed' = [owed EXCEPT ![tls.obj] = @ - 1]
  /\ UNCHANGED <<pages, hot, stack, calls>>

ClaimFails ==
  /\ Client /\ tls.kind = "object"
  /\ moveTLSAutoreleaseToPool(tls, top, "none", Nil, owed)
  /\ UNCHANGED calls

MayUsePools == PoolsWhileBlocked \/ \A i \in DOMAIN stack : stack[i].at # "move"

Push ==
  /\ Client /\ Bounded /\ MayUsePools
  /\ moveTLSAutoreleaseToPool(tls, top, "push", Nil, owed)

\* A pop of any pool that this code opened also ends the later ones.
Pop ==
  /\ Client
  /\ \E i \in DOMAIN top.tokens :
       stack' = Replace([top EXCEPT !.tokens = SubSeq(@, 1, i - 1)]) \o <<Popping(top.tokens[i])>>
  /\ UNCHANGED <<pages, hot, tls, owed, calls>>

\* A -dealloc or an override returns.
Return ==
  /\ Client /\ Len(stack) > 1 /\ top.n = 0 /\ (DebugPoolAllocation => top.tokens = <<>>)
  /\ stack' = Under
  /\ UNCHANGED <<pages, hot, tls, owed, calls>>

(***************************************************************************)
(* Popping.                                                                *)
(***************************************************************************)
Releasing(o, n, back) == [top EXCEPT !.at = "release", !.obj = o, !.n = n, !.back = back]

\* releaseReturnAutoreleaseTLS clears the TLS before it releases; the wild
\* object looks like a tagged pointer, whose release does nothing.
ReleaseTLS(back) ==
  /\ tls.kind # "empty" /\ tls' = Empty
  /\ stack' = IF tls.kind = "object" THEN Replace(Releasing(tls.obj, 1, back)) ELSE stack
  /\ UNCHANGED <<pages, hot, owed, calls>>

Drain == top.at \in {"drain", "exitDrain", "exitTLS"} /\ ReleaseTLS(top.at)

\* The token's page; the boundary must still be there, except at the start of
\* the coldest page.
Valid(i, k) == (i = 1 /\ k = 1) \/ (i \in DOMAIN pages /\ k \in DOMAIN pages[i] /\ pages[i][k] = Boundary)

pop ==
  /\ top.at = "drain" /\ tls.kind = "empty"
  /\ \/ top.page = 0 /\ ~HasPage(Pool) /\ hot' = 0 /\ stack' = Under
     \/ top.page = 0 /\ HasPage(Pool) /\ stack' = Replace([top EXCEPT !.at = "until", !.page = 1, !.stop = 1])
        /\ UNCHANGED hot
     \/ top.page # 0 /\ Valid(top.page, top.stop) /\ stack' = Replace([top EXCEPT !.at = "until"])
        /\ UNCHANGED hot
     \/ top.page # 0 /\ ~Valid(top.page, top.stop) /\ stack' = Under /\ UNCHANGED hot
  /\ UNCHANGED <<pages, tls, owed, calls>>

AtStop == Len(pages[top.page]) = top.stop - 1

\* The hottest page at or below the hot page that is not empty.
Hottest == CHOOSE i \in 1..hot : pages[i] # <<>> /\ \A j \in (i + 1)..hot : pages[j] = <<>>

\* Mutants: the additional autoreleases are not released; the loop stays on the
\* token's page.
releaseUntil_Once ==
  /\ top.at = "until" /\ ~AtStop
  /\ hot' = Hottest
  /\ LET s == pages[hot'] e == s[Len(s)] IN
     /\ pages' = [pages EXCEPT ![hot'] = SubSeq(s, 1, Len(s) - 1)]
     /\ stack' = IF e.obj = Nil THEN stack ELSE Replace(Releasing(e.obj, 1, "until"))
  /\ UNCHANGED <<tls, owed, calls>>

releaseUntil ==
  /\ top.at = "until" /\ ~AtStop
  /\ hot' = Hottest
  /\ LET s == pages[hot'] e == s[Len(s)] IN
     /\ pages' = [pages EXCEPT ![hot'] = SubSeq(s, 1, Len(s) - 1)]
     /\ stack' = IF e.obj = Nil THEN stack
                 ELSE IF e.obj = Wild THEN <<Frame("exited")>> \* its top bits are cut off: a crash
                 ELSE Replace(Releasing(e.obj, e.count + 1, "until"))
  /\ UNCHANGED <<tls, owed, calls>>

UntilTLS == top.at = "until" /\ AtStop /\ ReleaseTLS("until")

UntilDone ==
  /\ top.at = "until" /\ AtStop /\ tls.kind = "empty"
  /\ hot' = top.page
  /\ stack' = Replace([top EXCEPT !.at = "kill"])
  /\ UNCHANGED <<pages, tls, owed, calls>>

\* One objc_release; its -dealloc, if there is one, is client code.
Release ==
  /\ top.at = "release"
  /\ owed' = [owed EXCEPT ![top.obj] = @ - 1]
  /\ LET f == IF top.n = 1 THEN [top EXCEPT !.at = top.back, !.obj = Nil, !.n = 0, !.back = "none"]
              ELSE [top EXCEPT !.n = @ - 1] IN
     \/ stack' = Replace(f)
     \/ Len(stack) < MaxDepth /\ calls < MaxCalls /\ stack' = Replace(f) \o <<Frame("client")>>
  /\ UNCHANGED <<pages, hot, tls, calls>>

\* What is left of the pages after the children from page i on are deleted.
kill(i) == SubSeq(pages, 1, i - 1)

\* An empty child is kept if the page is more than half full.
popPage ==
  /\ top.at = "kill"
  /\ LET i == top.page s == pages[i] IN
     CASE DebugPoolAllocation /\ s = <<>> -> pages' = kill(i) /\ hot' = i - 1
       [] ~(DebugPoolAllocation /\ s = <<>>) /\ DebugMissingPools /\ s = <<>> /\ i = 1 ->
            pages' = kill(i) /\ hot' = 0
       [] OTHER -> /\ pages' = IF i = Len(pages) THEN pages
                               ELSE IF Len(s) < PageSize \div 2 THEN kill(i + 1)
                               ELSE IF i + 1 < Len(pages) THEN kill(i + 2) ELSE pages
                   /\ UNCHANGED hot
  /\ stack' = Under
  /\ UNCHANGED <<tls, owed, calls>>

(***************************************************************************)
(* The end of the thread.  _pthread_tsd_cleanup clears a slot that is not   *)
(* null and calls its destructor with what was there: HotPageDealloc for    *)
(* the pages, then TlsDealloc for the TLS, in DestructorRounds rounds.      *)
(***************************************************************************)
ThreadExit ==
  /\ Client /\ Len(stack) = 1
  /\ stack' = <<[Frame("exit") EXCEPT !.stop = DestructorRounds]>>
  /\ UNCHANGED <<pages, hot, parked, tls, owed, calls>>

\* HotPageDealloc drains the TLS: a -dealloc finds no page, and may make one.
ExitPages ==
  /\ top.at = "exit"
  /\ IF hot = 0 THEN stack' = Replace([top EXCEPT !.at = "exitTLS"]) /\ UNCHANGED <<pages, hot, parked>>
     ELSE /\ stack' = Replace([top EXCEPT !.at = "exitDrain", !.page = hot])
          /\ parked' = pages /\ pages' = <<>> /\ hot' = 0
  /\ UNCHANGED <<tls, owed, calls>>

Count(ps, o) == Cardinality({x \in (DOMAIN ps) \X (1..PageSize) \X (0..maxCount) :
                  x[2] <= Len(ps[x[1]]) /\ ps[x[1]][x[2]].obj = o /\ x[3] <= ps[x[1]][x[2]].count})

\* The pages are reinstated, over those a -dealloc has made, and all pools popped.
ExitPop ==
  /\ top.at = "exitDrain" /\ tls.kind = "empty"
  /\ IF top.page = Placeholder
     THEN stack' = Replace([top EXCEPT !.at = "exitTLS"]) /\ UNCHANGED <<pages, hot, parked, owed>>
     ELSE /\ pages' = parked /\ hot' = top.page /\ parked' = <<>>
          /\ owed' = [o \in Objects |-> owed[o] - Count(pages, o)]
          /\ stack' = Replace([top EXCEPT !.at = "exitKill"]) \o
                        (IF parked[1] # <<>> THEN <<Popping(<<1, 1>>)>> ELSE <<>>)
  /\ UNCHANGED <<tls, calls>>

ExitKill ==
  /\ top.at = "exitKill"
  /\ pages' = (IF DebugMissingPools \/ DebugPoolAllocation THEN pages ELSE <<>>) /\ hot' = 0
  /\ stack' = Replace([top EXCEPT !.at = "exitTLS"])
  /\ UNCHANGED <<parked, tls, owed, calls>>

\* TlsDealloc has drained the TLS.
ExitRound ==
  /\ top.at = "exitTLS" /\ tls.kind = "empty"
  /\ stack' = IF top.stop = 1 \/ hot = 0 THEN <<Frame("exited")>>
              ELSE <<[Frame("exit") EXCEPT !.stop = top.stop - 1]>>
  /\ UNCHANGED <<pages, hot, parked, tls, owed, calls>>

Exited == top.at = "exited" /\ UNCHANGED <<pages, hot, parked, tls, stack, owed, calls>>

Next ==
  /\ \/ /\ \/ \E o \in Objects : Autorelease(o) \/ \E claims \in BOOLEAN : ReturnValue(o, claims)
           \/ SuperAutorelease \/ ClaimFails \/ Push \/ MoveDone \/ InitDone
        /\ UNCHANGED parked
     \/ /\ \/ Claim \/ Pop \/ Return
           \/ Drain \/ pop \/ releaseUntil \/ UntilTLS \/ UntilDone \/ Release \/ popPage
        /\ UNCHANGED <<parked, uninit>>
     \/ /\ ThreadExit \/ ExitPages \/ ExitPop \/ ExitKill \/ ExitRound \/ Exited
        /\ UNCHANGED uninit
  /\ UNCHANGED setting

Spec == Init /\ [][Next]_vars

(***************************************************************************)
(* Properties.                                                             *)
(***************************************************************************)
InPool(o) == Count(pages, o) + Count(parked, o)
InCalls(o) == Cardinality({x \in (DOMAIN stack) \X (1..(maxCount + 1)) :
               stack[x[1]].obj = o /\ x[2] <= stack[x[1]].n})

\* Every autorelease is pending once: in the pool, in the TLS or in a call that
\* is about to deliver it; none is lost or doubled by merging entries, changing
\* pages, or handing over return values.  The releases the code gives up are taken
\* off owed where it does so: an autorelease without a pool under DebugMissingPools
\* (autoreleaseNoPage), a return value that a +initialize leaves in the TLS
\* (InitDone), and pages made while a thread's own are out of its slot (ExitPop).
Conserved ==
  \A o \in Objects : owed[o] = InPool(o) + InCalls(o) + IF tls.obj = o THEN 1 ELSE 0

\* Pages above the hot page hold nothing (the DEBUG assertions of releaseUntil and
\* of the destructor), and no page is out of reach.
NothingAboveHot ==
  IF HasPage(Pool) THEN \A i \in (hot + 1)..Len(pages) : pages[i] = <<>> ELSE pages = <<>>

\* The boundary of a pool that is still open is where its token says, so no pop
\* of it is a bad pop.
TokensValid ==
  \A i \in DOMAIN stack : \A j \in DOMAIN stack[i].tokens :
    LET k == stack[i].tokens[j] IN
    \/ k[1] = 0 /\ hot = Placeholder
    \/ \E i1 \in DOMAIN pages, i2 \in 1..PageSize :
         /\ <<i1, i2>> = (IF k[1] = 0 THEN <<1, 1>> ELSE k)
         /\ i2 <= Len(pages[i1]) /\ pages[i1][i2] = Boundary

\* The shape of the page chain: the types, where entries may be, and where the
\* pools begin.
PoolInv == TypeOK /\ NothingAboveHot /\ TokensValid

\* releaseUntil never runs off the coldest page, and skips at most one empty
\* page ("I think this `while` can be `if`, but I can't prove it").
IfSuffices ==
  top.at = "until" /\ ~AtStop /\ pages[hot] = <<>> => hot > 1 /\ pages[hot - 1] # <<>>

Open == UNION {{stack[i].tokens[j] : j \in DOMAIN stack[i].tokens} : i \in DOMAIN stack}
Below(k) == IF k[1] = 0 THEN <<>>
            ELSE Append(SubSeq(pages, 1, k[1] - 1), SubSeq(pages[k[1]], 1, k[2] - 1))

\* What was autoreleased before a pool was pushed is left alone, and not added
\* to, until the pool is popped.
BelowUntouched == [][\A k \in Open : k \in Open' => Below(k)' = Below(k)]_vars
=============================================================================
