# The objc4 runtime in TLA+

This directory specifies the concurrent core of the Objective-C runtime
(objc4-866.9, `src/objc4-objc4-866.9-M芯片/runtime/`; paths below are relative to
that directory). The other directories under `src/` (xnu, dyld, Libc, libdispatch,
libplatform, libpthread, libclosure) are the sources the runtime is built against;
what the runtime relies on from them appears in the modules as guards or as
external definitions.

`PROJECT.json` lists every component, run, mutant, theorem, finding and hazard,
and maps each definition to the lines it models.

## The system

| Part | State | Operations | What is hard | Module |
| --- | --- | --- | --- | --- |
| Reference counting (`objc-object.h`, `NSObject.mm`) | isa word with an inline count, side table entry, table lock, weak bit | retain, release, try-retain, isa change, dealloc | compare-and-swap loops that also spill to and borrow from a locked table; the last release racing weak loads | `RefCount`, `StrongCount` |
| `@synchronized` (`objc-sync.mm`) | list of SyncData blocks, two caches per thread, recursive mutexes | enter, try-enter, exit, thread exit | blocks are reused while threads read them with no lock; a count that is raised under a lock and lowered without it | `ObjcSync` |
| Weak variables (`NSObject.mm`, `objc-weak.mm`) | variables, registrations per object, one lock per side table | store, init, destroy, load, copy, move, clear | a variable read before and after its table is locked; two tables locked at once; stores racing deallocation | `WeakRefs` |
| Autorelease pools (`NSObject.mm`) | page chain, hot page, thread-local return value | autorelease, return, claim, push, pop, thread exit | every release runs client code that re-enters the pool while it is being drained | `AutoreleasePool` |
| `+initialize` (`objc-initialize.mm`) | class bits, per-thread lists, pending map, one monitor | first message, recursion, finish, wait, throw, fork | a thread waits for another inside client code; classes finish before their superclasses | `Initialize` |
| Associated objects and atomic properties (`objc-references.mm`, `objc-accessors.mm`) | table, `has_assoc` bit, property slot, retain counts of the values | get, set, remove, destroy the object | retains and releases outside the lock; the bit set after the table | `Associations` |
| `+load` (`objc-loadmethod.mm`) | two queues, detached lists, image list | map, call, unmap | `+load` methods open and close images while the queue is being drained | `LoadMethods` |
| Method cache (`objc-cache.mm`, `Messengers.subproj`) | buckets, mask, count, garbage list | message send, slow path, method change, flush, collect | searches take no lock: readers of memory that a writer replaces, and that a collector frees | `MethodCache` |
| Weak tables (`objc-weak.mm`) | open-addressing tables of objects and of variables, inline slots | register, unregister, clear, grow, compact | removals leave holes, searches end at the largest displacement, a search that comes round aborts | `WeakTable` |
| Class tree, categories and method lookup (`objc-runtime-new.mm`) | superclasses, subclass lists, method lists, caches, forward entries, default-retain flags | message, realize, attach, add, swizzle, resolve, re-parent, allocate and dispose of a pair | derived state (caches, flags) that every change must invalidate, while lookups drop the lock in the middle | `MethodLookup` |
| Zone allocator (`objc-zalloc.mm`) | stack of free elements, generation, slabs | alloc, free | a lock-free stack whose pop reads the link of an element it does not own | `ZoneAlloc`, `LifoPool` |

How the parts meet: every part that releases an object uses the count of
`RefCount`; `StrongCount` is the promise it makes to them (a retain and a release
are atomic, and exactly one release deallocates), and the run `refcount`
shows that `RefCount` implements it. `WeakRefs`, `Associations` and
`AutoreleasePool` use that abstract count. `WeakRefs` sees the weak table as a
relation between objects and variables, and `WeakTable` shows that the hash tables
hold exactly that relation (`ListsItsVariables`). A weak store may have to
initialize the class first (`WeakRefs`, `ready`). `MethodCache` is the cache of one
class, read without locks; `MethodLookup` is the caches of a class tree, each
treated as a function, and what fills and flushes them. How threads wait for
`+initialize` is in `Initialize`; `MethodLookup` has only the three states of a
class and `MethodCache` starts with the class initialized.

## The modules

A thread is a program counter and its locals, one action per access to shared
memory, or a stack of frames where client code re-enters the runtime. Client
code is nondeterministic within what it is allowed to do; where the code relies
on a convention of its clients, a guard or a constant says so.

**ObjcSync.** One stripe of `sDataLists`. `object`, `threadCount`,
`owner`/`depth` are the fields of a block; `fast`, `fastCount` and `cache` are the
two per-thread caches; `inside` is the client's view. `id2data` is split at the
spinlock, at each block of the walk and at `done:`, so that the unlocked
decrement of `threadCount` and the unlocked cache hits interleave with the walk.

**RefCount / StrongCount.** One object. `oldisa` and `newisa` are the locals of the
compare-and-swap loops; an iteration of a loop is one step, which works on the
value loaded earlier and fails if the isa has changed since. `ExtraMax` is the largest inline count and `SideMod` the width of
the side table's count field. Calls of `object_setClass` on the object do not
overlap. A count that no longer fits is pinned; in `StrongCount` that is the step
`Pin`, after which the object is immortal.

**WeakRefs.** Several objects, weak variables and side tables. `storeWeak` reads the
old value, takes one or two table locks in address order, looks again and
retries, waits for the class to be initialized, registers and stores.
`objc_loadWeakRetained`, `objc_copyWeak`, `objc_moveWeak` and the clearing at
deallocation are done in the same way.

**AutoreleasePool.** One thread. Pages hold `PageSize` entries; an entry is an
object with a repeat count (`maxCount`). Frames on `stack` are calls in
progress; a release may start client code that pushes, pops and autoreleases. A
pool token is a place in the page chain. `owed` counts the releases
promised. `setting` is the build and the environment (page size, coalescing, return-value
hand-off, the two debugging options, the objects whose class has yet to run
`+initialize`), chosen at the start. `+initialize` of such a class is client code too,
which runs before the return value is stored. An exiting thread runs the two
destructors of its keys, as libpthread does: a slot is cleared before its destructor
is called, and there are up to `DestructorRounds` rounds (`parked` is what a round
still has to pass to a destructor). With `PoolsWhileBlocked` an overridden `-autorelease` may use pools of its own (see
"Where the code departs from its comments").

**Initialize.** Each thread has a stack of activations of `lookUpImpOrForward`,
`initializeNonMetaClass` and client code. `Sends` says which classes a
`+initialize` messages, `Throwing` which may throw. The process may fork at any
time; the model then follows the child. `classInitLock` is a variable only where it is held across steps.

**Associations.** One step per critical section of `AssociationsManager`; the
retain or copy before it, the `has_assoc` store and the release after it are
steps of their own. `-dealloc` of values and C++ destructors re-enter. Each object
also has an atomic property in `slots`: the getter retains under `PropertyLocks`,
the setter compares, retains or copies before it takes the lock, and releases the
old value after it.

**LoadMethods.** Images with classes and categories, dependencies between images,
`+load` methods that open and close images, a second thread that opens images.
`call_load_methods` ends with the pop of its autorelease pool, whose `-dealloc` methods
are client code as well (frame `pop`; `late` are the images opened there). An image
may be closed while its `+load` calls are in a detached list: the entries become
`LeftBy`, and following one ends the process (`crashed`) or, if the image is mapped
again, calls its `+load` (`again`).

**MethodCache.** One class. `build`, chosen at the start, is what the preprocessor
settles: `Packed` is arm64 (mask and buckets are one word, a bucket is one store,
the search goes down, small caches fill up completely), otherwise x86_64 (two
words, two stores, upward search to an end marker). `Restartable` says how the
collector deals with searches: the kernel resets them, or the collector looks at
one PC after the other. With restartable ranges a signal makes a search miss, also
the one in `shouldFlush`; `missed` are the selectors whose change found nothing to flush
for that reason, since the cache was last emptied. The superclass walk and the method resolver are one
lookup under `runtimeLock`; the class is initialized.

**MethodLookup.** A class tree. What is done in one hold of `runtimeLock` is one
step; a lookup drops the lock to have a Swift class realized, to send
`+initialize` and to call the resolver. Method lists are sequences, searched from
the front; `unattached` are the categories of classes not yet realized. `cache` is a
function from selectors to implementations, a forward entry included; `default`
is the set of classes that carry `FAST_HAS_DEFAULT_RR`. A class stands for itself
and its metaclass. `age` in a method list is there for the property that lists are
searched newest first, `wrong` records that a lookup returned something else than
the method lists hold. `shouldFlush` always finds a cached method here: the signal
of `MethodCache` is left out.

**WeakTable.** One side table's weak table under its lock: one step per operation.
Slots, `max_hash_displacement`, `num_refs`, growth at three quarters and compaction
are the code's; the hash functions are chosen at the start. An entry whose
referrers are out of line is tested for emptiness through the union's inline words
(`objc-weak.mm:360-370`), so that it may stay after its last referrer has gone;
`IsSpent` does the same.

**ZoneAlloc / LifoPool.** `head` and `gen` are the pair that the compare-and-swap
exchanges; it is first read in two loads, in either order, and `unread` are the
words of it that a thread has yet to load. The first word of an element is its link; a client overwrites it. `gen`
is not bounded: a wrap of 2^64 within one call is not modelled. `LifoPool` is a
stack with atomic push and pop.

## The runs

Passing runs. Bounds are the constants of the `.cfg` of the same line.

| Run | Config | What it asks |
| --- | --- | --- |
| `sync_all_calls` | `ObjcSync.cfg` | Two threads, two objects, every client behaviour: mutual exclusion, one block per object, no fatal error, a balanced exit succeeds, nobody waits on the mutex of another object, a cached block keeps its object |
| `refcount` | `RefCount.cfg` | Two threads, every call: inline plus side count is the number of references, a held object is live, one deallocation, nothing left in the side table afterwards, the lock is held where `_nolock` functions run; refinement of `StrongCount`; liveness: an object that nobody holds is freed |
| `weak_variables` | `WeakRefs.cfg` | The registrations are exactly the variables that point to the object, no variable dangles, no cycle of table locks, `objc_weak_error` is not reached; a fatal refusal hits only a thread that stores the object whose `-dealloc` it runs |
| `autorelease_pools` | `AutoreleasePool.cfg` | Every promised release is in a page, in thread-local storage or in a frame, exactly once; a pop touches nothing below its token; pages above the hot one are empty; tokens stay valid, also through `+initialize` and thread exit (the releases the code gives up are listed below); the `while` that skips empty pages in `releaseUntil` skips at most one ("I think this `while` can be `if`, but I can't prove it"). In five settings of the build and the environment |
| `initialize` | `Initialize.cfg` | Superclass first, one initializer, nobody is given a class that is not ready, a thread that initializes never blocks, a fork child never waits for a thread it does not have, a will-initialize function hears of each class once; liveness: every message returns |
| `associations` | `Associations.cfg` | Retain counts are exact, through associations and properties; no freed value is retained or released, the `has_assoc` bit covers the table, destruction empties it |
| `load_order` | `LoadMethods.cfg` | Superclass before class, class before category, nothing forgotten (an image that the pop of the pool opened waits in the queues), nothing queued is called after its image was unmapped, loading ends |
| `method_cache` | `MethodCache.cfg` | Both builds: a search reads no freed or foreign memory, goes only forward (so it ends, also in a cache with no empty bucket), a hit is the right method, a cached method is found, no stale method once the change has returned (unless a signal hid the entry from `shouldFlush`), an insert finds a bucket, no bucket array is leaked, and with restartable ranges the garbage is bounded |
| `method_lookup` | `MethodLookup.cfg` | Caches, forward entries and default-retain flags agree with the method lists after every change; a message gets the method in force when its lookup ends; subclass lists and superclass pointers agree; lists are searched newest first |
| `weak_table` | `WeakTable.cfg` | The tables list exactly the variables that hold an object, each once; whatever was inserted is found; no search comes round |
| `zone_allocator` | `ZoneAlloc.cfg` | No element is lost or handed out twice, the free list is a stack (refinement of `LifoPool`), memory is handed out zeroed; liveness: every call returns |

Each module has one invariant that gathers its types and the facts its functions
assert of one another (`SyncInv`, `RefCountInv`, `WeakInv`, `PoolInv`,
`InitializeInv`, `AssociationsInv`, `LoadInv`, `CacheInv`, `TreeInv`, `WeakTableInv`,
`ZoneInv`); its conjuncts are defined and explained one by one. The other
properties say what callers rely on. `SyncInv`, `RefCountInv`, `WeakInv` and
`ZoneInv` hold the inductive invariants of the proofs below, conjunct by conjunct, so
that the same runs check those on small instances. `CacheInv` does not: what its proof
adds (`BucketsOK`, `Reads`, `Writes` in `MethodCacheSteps`; `Filled`, `HasRoom`, `Arrays` in
`MethodCacheProofs`) is proved and not checked by the run.

### Bounds

- Threads: two suffice for each pair of racing steps, and a compare-and-swap of one
  thread can fail twice because of two calls of the other. `method_lookup` has one
  thread that looks up: the changes, the realization of classes by
  `look_up_class` and the progress of `+initialize` are steps of other threads.
- `ExtraMax = 3`: the inline count holds 0..3, half is 2, so with six references
  (`MaxOwn = 3`, two threads) spilling, borrowing, putting back and a second spill
  all happen. `SideMod = 32` is larger than any count reached, so the pinned bit is
  set only by the wrap in `sidetable_moveExtraRC_nolock` (below).
- Weak variables: two objects in two side tables are what it takes to lock two
  tables in either order; `objc_initWeak` and `objc_storeWeakOrNil` are left out of
  the run since each combines what two other calls in it do.
- Pages of 2 to 4 entries and `maxCount = 1`: pages and repeat counts are filled and
  overflow, an emptied page is kept as a spare; larger ones only delay that.
  `MaxCalls` and `MaxDepth` bound the client. Within six calls an exiting thread
  comes to a second round of destructors, not to a third, so that nothing is left
  over after the last round.
- Four classes in a chain: a class whose superclass waits for a superclass.
- Four images and seven openings: dependencies, reopening after a close, and
  opening from inside `+load`.
- Cache sizes 2, 4 and 8 with three selectors that collide: growth, wrap-around, a
  full cache, and a cache at its maximum size. Without restartable ranges the
  collector may be refused for ever and the run can use up its three bucket
  arrays, so deadlock is not checked there; `GarbageBounded` says that with them it
  does not happen.
- A root class, a Swift class and a class pair, two selectors of which one is the
  scanner's, two changes: a category and a swizzle, or a new method and a
  re-parented class, in either order around realization, initialization, a lookup
  and the resolver.
- Weak tables that start with 2 slots instead of 64, and two inline referrers
  instead of four; three objects and four variables with colliding hashes. The
  table of objects grows to 4 slots and shrinks again, that of variables grows
  to 8, and entries go out of line.
- Zones: slabs of three elements and five calls, enough for an element to be
  popped and freed again while another thread holds a copy of the pair.
- Otherwise deadlock is checked, except in `ObjcSync`, where clients can lock two
  objects in opposite order and a thread may end while it holds a lock, and in
  `zone_allocator` and `method_lookup`, where the bounded number of calls or changes
  is used up.
- Symmetry is used for safety runs only, never with a liveness property.

### Fairness

- `RefCount`: strong fairness of each thread's steps inside a call (the
  scheduler runs it, and the table lock is granted to a thread that keeps asking),
  strong fairness of the compare-and-swap of a releasing thread (the loop is
  lock-free, not wait-free: without it one thread can starve), and that a
  `-dealloc` balances its retains and reaches `rootDealloc`, however many weak
  variables it loads in between.
- `Initialize`: weak fairness of each thread: it is scheduled, and `+initialize`
  methods return or throw. Waiting threads are woken by `notifyAll`.
- `LoadMethods`: weak fairness of each thread: `+load` methods return, and so do the
  `-dealloc` methods that the pop of the pool runs.
- `ZoneAlloc`: weak fairness of each thread inside a call, strong fairness of its
  compare-and-swap: the loop is lock-free, and without it one thread can starve.

That a search of a method cache ends is stated without fairness, as progress of
each probe (`SearchAdvances`).

Apart from that no fairness is assumed of clients: they need not start calls.

## Where the code departs from its comments

The run `refcount_try_retain_unlocks` checks a statement that the code makes about
itself, and TLC violates it: an overflowing try-retain whose store fails, and
which then finds the object deallocating, unlocks its caller's side table. The
quotation and the line are under `findings` in `PROJECT.json`.

A second one is excluded from `autorelease_pools` by `PoolsWhileBlocked = FALSE`.
`moveTLSAutoreleaseToPool` (`NSObject.mm:1140`) does not recognize the marker that
blocks the hand-off while `-autorelease` is sent: when an overridden
`-autorelease` pushes a pool of its own, the marker is taken for an object, added
to the pool and cleared. The default `-autorelease` may then put the moved object
back into thread-local storage, which the outer `moveTLSAutoreleaseToPool` clears
when it ends (`:1153`): that release is lost. With `PoolsWhileBlocked = TRUE` TLC
violates `Conserved` in six steps. `PROJECT.json` does not list it as a finding,
because no run of the project checks it.

Other departures shaped the modules. These are part of the behaviours that the
passing runs explore, and the properties hold in spite of them:

- `sidetable_moveExtraRC_nolock` (`NSObject.mm:1576`) with an inline count of zero
  wraps and pins the count: `CountsReferences` and `UnheldIsFreed` except pinned
  objects.
- A failed `objc_sync_try_enter` leaves its `lockCount` and `threadCount` behind
  (`objc-sync.mm:316`), and an exit by a thread that is not inside leaves
  `threadCount` too high (`:217`): the counters are upper bounds in `SyncInv`.
- A pop of the last object in thread-local storage may merge an object
  autoreleased meanwhile into an entry of the enclosing pool (`NSObject.mm:948`).
- The first association of an object, made by its C++ destructor, outlives it
  (`objc-runtime-new.mm:8565`): `DestructRemoves` excepts it.
- `objc_removeAssociatedObjects` returns early while another thread has yet to set
  `has_assoc` (`objc-runtime.mm:665`).
- What a `+initialize` leaves in thread-local storage is overwritten by the return
  value it was run for (`objc-object.h:1580`, `:1593`), and that release is lost.
- At thread exit a `-dealloc` that runs before the pages are popped finds no hot page
  and starts a new one, which is then dropped (`NSObject.mm:1423`, `:1432`).
  `Conserved` takes the releases of these two paths, and those left after the last round
  of destructors, off what is owed.
- `call_load_methods` looks at its queues for the last time (`objc-loadmethod.mm:360`)
  before it pops its pool (`:362`) and clears `loading` (`:364`): the `+load` methods
  of an image opened by a `-dealloc` in between stay queued until some image is
  opened later, although "that call will handle all loadable classes, even those
  generated while it was running" (`:316`). `NoneForgotten` says that they are still in
  the queues.
- A `+load` list that is detached is not searched when an image is closed
  (`objc-loadmethod.mm:189`): an entry is followed into an image that is gone, or is called
  out of turn when it is back. `LoadsInOrder` excepts such a call.
- A signal inside `cache_getImp` makes `shouldFlush` (`objc-cache.mm:539`) skip the
  flush: `FreshAfterChange` excepts the selector until the cache is next emptied.
- A fork child initializes a class without telling the will-initialize functions
  (`objc-initialize.mm:530`): `ToldOnce` is about the parent.

These are excluded by a guard, as misuse by a client or as an event that is not
modelled:

- Overlapping `object_setClass` calls on one object: `changeIsa` keeps a stale
  `newisa` between attempts (`objc-object.h:432`).
- In `MethodLookup` alone, a signal inside `cache_getImp` (`objc-cache.mm:539`).
- A `-dealloc` that sets associations on an object whose own associations are
  being dropped.
- `OBJC_DEBUG_MISSING_POOLS` together with a return value in thread-local storage:
  a nested pop can delete the page an outer pop still uses (`NSObject.mm:1215`);
  the run has that option without the hand-off.

## The proofs

Five components are proved correct for every value of their constants: any sets of
threads, objects, variables, selectors and blocks, any widths and sizes. Every
safety property that `sync_all_calls`, `refcount`, `weak_variables`,
`method_cache` and `zone_allocator` check is a theorem, and so are the two
refinements. In each proof an inductive invariant comes first, with a lemma per
action, then its consequences.

| Modules | Theorems | Assumptions on the constants |
| --- | --- | --- |
| `ObjcSyncSteps`, `ObjcSyncProofs` | `SyncInvariant`, `SyncExcludes`, `SyncNeverFatal`, `SyncOneBlock`, `SyncBalancedExit`, `SyncWaits`, `SyncCachedBlocks` | `SyncAssumption`: the constants are distinct from `None`, the bounds are natural numbers |
| `RefCountSteps`, `RefCountProofs` | `RefCountInvariant`, `RefCountCounts`, `RefCountHeldIsLive`, `RefCountIsAtomic` | `RefCountAssumption`: the inline count holds two halves of at least 2, and the pinned bit is the top bit of the side table's count; `FewReferences`: the program holds fewer references than the side table can count |
| `WeakRefsProofs` | `WeakInvariant`, `WeakNeverDangles`, `WeakHeldIsLive` | `WeakAssumption`: side tables are ordered by address, `Nil` is no object |
| `MethodCacheSteps`, `MethodCacheProofs` | `CacheInvariant`, `CacheHitIsRight`, `CacheFreshAfterChange`, `CacheSearchAdvances`; on the way `CacheSearchesAllocated`, `CacheNeverBad`, `CacheFindable`, `CacheNothingLost` | `CacheAssumption`: the markers are no selectors, hashes are natural numbers; `BuildsAssumption`: a cache starts with 2 buckets or more and `garbage_threshold` is not zero; `MemoryAssumption`: `malloc` has as many arrays as the threshold lets pile up |
| `ZoneAllocProofs` | `ZoneInvariant`, `ZoneAllocatesZeroed`, `ZoneIsStack` | `NElemAssumption`: a slab has two elements or more; `SlabsAssumption`: finitely many slabs |

**ObjcSync.** The properties are not inductive. That no fatal error is reached, for
example, needs that a block cached by a thread has a positive `threadCount`,
although other threads decrement it with no lock. The inductive invariant is

    SyncInv == TypeOK /\ NeverFatal /\ OneBlockPerObject /\ WalkInv /\ UseInv /\ OwnerInv

- `WalkInv`: what a thread inside the spinlock knows of the blocks it has passed:
  none of them has its object, and `firstUnused` is still unused (only the
  holder of the spinlock makes a block used).
- `UseInv`: cached blocks are on the list, the block a thread is about to lock or
  to cache has the object it was asked for, and `threadCount` covers the users of
  a block (`CountInv`). The last part says that there are at most `threadCount`
  users (`AtMost`), by an injection, which needs no cardinality and no finite set
  of threads. It is an inequality since failed try-enters and stray exits leave
  counts too high.
- `OwnerInv`: the cached lock count covers what the client holds and is acquiring;
  the depth of a mutex is what its owner holds plus the exit under way; a thread
  inside an object caches the object's block and owns its mutex.

`ObjcSyncSteps` has the steps of the mutex and those under the spinlock,
`ObjcSyncProofs` those of the caches, the invariant and its consequences.
`SyncCachedBlocks` is an action property.

**RefCount.** The number of references is the cardinality of a set of pairs
(`Refs`), so that one more and one less are lemmas about finite sets
(`CountingLaws`). The invariant `Core` says, besides the types: what the inline
count, the side table and the count in transit between them add up to
(`CountOK`); that the side table holds multiples of the half that spills and
borrows move (`SideOK`), which is why a borrow never finds less than it asks for;
what the isa bits say of the state of the object (`LifeOK`); and for each thread
what the isa it loaded still tells it (`ThreadOK`), which differs between a thread
that has the table's lock and one that has not. `RefCountSteps` has the lemma of
every step, `RefCountProofs` the counting and the theorems. `RefCountIsAtomic` is the refinement
of `StrongCount`: each action is a step of the atomic count or a stutter, with
`Pin` for the count that wraps.

**WeakRefs.** `Core` adds to `RegistryExact` (the registrations are exactly the
variables that point to the object) what each call in progress relies on: that
its variable is used by no call that does not allow company (`NoCompany`), that a
thread owns only the locks its store has taken (`LocksTaken`), that the weak bit
announces what a deallocation has to clear (`Clearable`). A lemma says what a step has to leave alone for another
thread's call to stay valid (`OthersStay`); each action then only shows that it
does.

**MethodCache.** Three invariants. `Core` is inductive by itself (`MethodCacheSteps`),
the other two are with its help (`MethodCacheProofs`):

- `Core`: buckets that a search can still reach are allocated, and are not among
  the garbage that a collector has found nobody to use; a larger mask is only
  published after the larger buckets; an entry's implementation is one its selector
  has had, and no older than the last change that returned, unless its selector is
  in `missed`, which only restartable ranges make possible. This is what
  makes an unlocked search that mixes an old mask with new buckets, or reads an
  entry in two loads, harmless.
- `Room`: entries lie where a search for them passes no vacant bucket
  (`Reachable`), `_occupied` counts them, and there is a vacant bucket whenever
  `insert` looks for one: the fill ratio keeps one, and where a small cache may be
  filled completely the check of the capacity does. It rests on lemmas about
  `cache_hash` and `cache_next`: the probes visit every slot (`SlotsCover`), and the
  slots before the n-th are those a search for it passes (`PassedSlots`).
- `NothingLost`: every allocated array is the cache's, garbage, or in the hands of the
  writer; the garbage that reached the threshold is being collected. From it
  follows `GarbageBounded`.

`CacheSearchAdvances` is an action property: the distance from the hash grows with
every probe.

**ZoneAlloc.** `ZoneInv` speaks of the list that a walk along the links finds. The
invariant of the proof has the list as a sequence instead,

    \E S : Chain(S, head, next) /\ Accounts(S, slabs, Out)

and a thread whose generation is still the current one has a link that agrees with
that sequence. A lemma shows that the walk finds `S`, and `ZoneIsStack` that each
step pushes to it, pops from it or leaves it alone.

Only model-checked:

- Liveness (`UnheldIsFreed`, `CallsReturn`, `MessagesReturn`, `LoadingEnds`): fairness
  and `ENABLED` are beyond the proof system.
- `AutoreleasePool` and `Associations`: their properties equate counts with sums over
  frames, pages and tables (`Conserved`, `CountsExact`), which takes induction over
  data.
- `Initialize`, `LoadMethods` and `MethodLookup`: threads are stacks of frames, and
  the properties follow chains of superclasses, dependencies and method lists
  of any length.
- `WeakTable`: sequential probing, deletion and rehashing, stated with folds.

## What is left out

Weak memory is not modelled: each access is sequentially consistent, except that
the stores of a method cache happen in the order in which the code issues them
with its barriers. Allocation does not fail. The wording of messages,
debugging output and tracing are left out. Each module says at its head what
it abstracts.

Not modelled, with the reason for each part under `components` in `PROJECT.json`:

- Image mapping reads Mach-O sections and fixes references up at launch; the
  queues it fills are in `LoadMethods`, the categories it brings in `MethodLookup`.
- `objc_copyStruct` and `objc_copyCppObjectAtomic` are one copy between `lockTwo`
  and `unlockTwo`, whose order by address `WeakRefs` has (`NoLockCycle`). Nonatomic
  properties promise nothing to concurrent callers.
- Preoptimized caches and the shared cache's tables are built elsewhere and only
  read here. The messengers of other processors are variants of the two in
  `MethodCache`.
- Block trampolines, selectors, `hashtable2.mm` and `maptable.mm` are sequential
  structures, used under a lock.
- Exceptions, introspection, type encodings, layouts, logging and environment
  variables have no protocol between threads.
- Lock order at `fork` is a fixed list of locks taken and released in `objc-os.mm`;
  its effect on `+initialize` is in `Initialize`.

One observation of the reading, outside the modules: `addSubclass` passes
`RW_HAS_CXX_CTOR` and `RW_HAS_CXX_DTOR` on to the class that it links and not to the
subclasses that class already has, so `class_setSuperclass` can leave a subclass
without a flag that `objc-runtime-new.h:508` describes as "class or superclass has
.cxx_construct/.cxx_destruct implementation". No run checks this.
