-------------------------- MODULE MethodCacheSteps --------------------------
(***************************************************************************)
(* Proof that the searches of objc_msgSend, which take no lock, are safe   *)
(* while other threads fill, flush, grow and collect the cache: for any    *)
(* number of threads, selectors and bucket arrays, in every build. First   *)
(* part: what the searches rely on, and that every step keeps it.          *)
(***************************************************************************)
EXTENDS MethodCache, WellFoundedInduction, TLAPS

\* The provers' time limits, for slow machines.
USE SMTT(30), ZenonT(30)

-----------------------------------------------------------------------------
(* Arithmetic.                                                             *)

(* A hash is below the capacity.                                           *)
LEMMA ModRange == ASSUME NEW m \in Nat, NEW x \in Nat PROVE x % (m + 1) \in 0 .. m
OBVIOUS

(* Division leaves a remainder below the divisor.                          *)
LEMMA DivMod ==
  ASSUME NEW h \in Nat \ {0}, NEW x \in Int
  PROVE  x = h * (x \div h) + (x % h) /\ (x % h) \in 0 .. (h - 1) /\ (x \div h) \in Int
OBVIOUS

(* The bucket after the last is the first.                                 *)
LEMMA ModNext ==
  ASSUME NEW m \in Nat, NEW i \in 0 .. m
  PROVE  (i + 1) % (m + 1) = IF i = m THEN 0 ELSE i + 1
<1> DEFINE h == m + 1
<1>1. h \in Nat \ {0} OBVIOUS
<1>2. CASE i = m
  <2> DEFINE q == h \div h
             y == h % h
  <2> HIDE DEF h
  <2>1. h = h * q + y /\ y \in 0 .. (h - 1) /\ q \in Int BY <1>1, DivMod
  <2> HIDE DEF q, y
  <2>2. CASE q >= 1
    <3>1. h * q >= h BY <1>1, <2>1, <2>2
    <3>2. y = 0 BY <1>1, <2>1, <3>1
    <3> QED BY <1>2, <3>2 DEF h, y
  <2>3. CASE q <= 0
    <3>1. h * q <= 0 BY <1>1, <2>1, <2>3
    <3> QED BY <1>1, <2>1, <3>1
  <2> QED BY <2>1, <2>2, <2>3
<1>3. CASE i # m
  <2>1. i + 1 < h /\ i + 1 \in Nat BY <1>3
  <2> HIDE DEF h
  <2>2. (i + 1) % h = i + 1 BY <1>1, <2>1
  <2> QED BY <1>3, <2>2 DEF h
<1> QED BY <1>2, <1>3

(* A part of a capacity is no larger than the capacity.                    *)
LEMMA FillRatio ==
  ASSUME NEW n \in Nat
  PROVE  (n * 7) \div 8 <= n /\ (n * 3) \div 4 <= n /\ (n * 7) \div 8 \in Int /\ (n * 3) \div 4 \in Int
OBVIOUS

(* A set of numbers has a least member.                                    *)
LEMMA Least ==
  ASSUME NEW T, T \subseteq Nat, T # {}
  PROVE  \E x \in T : \A y \in T : x <= y
<1>1. PICK x \in T : \A y \in T : ~(<<y, x>> \in OpToRel(<, Nat))
  BY NatLessThanWellFounded, WFMin, ZenonT(30)
<1>2. ASSUME NEW y \in T PROVE x <= y
  <2>1. ~(<<y, x>> \in OpToRel(<, Nat)) BY <1>1, ZenonT(30)
  <2>2. ~(y < x) BY <2>1 DEF OpToRel
  <2> QED BY <2>2
<1> QED BY <1>2

\* A record update is beyond the types that the SMT translation infers. With this
\* fact at hand it infers none, which is quicker.
LEMMA Untyped == \A x : [x EXCEPT !.field = x.field] = [x EXCEPT !.field = x.field]
OBVIOUS

USE Untyped

-----------------------------------------------------------------------------
(* The slots that insert tries.                                            *)

(* The n-th slot: down from the hash on arm64, up on x86_64, around the    *)
(* end of the buckets.                                                     *)
Slot(h, m, n) ==
    IF Packed THEN IF n <= h THEN h - n ELSE h + m + 1 - n
              ELSE IF h + n <= m THEN h + n ELSE h + n - (m + 1)

(* The hash of a selector is a slot.                                       *)
LEMMA HashRange ==
  ASSUME NEW sel \in Selectors, NEW m \in Nat
  PROVE  cache_hash(sel, m) \in 0 .. m
<1>1. Value[sel] \in Nat BY CacheAssumption
<1> QED BY <1>1, ModRange, ZenonT(30) DEF cache_hash

(* A slot is within the mask.                                              *)
LEMMA SlotRange ==
  ASSUME NEW m \in Nat, NEW h \in 0 .. m, NEW n \in 0 .. m
  PROVE  Slot(h, m, n) \in 0 .. m
BY DEF Slot

(* cache_next leads from a slot to the next one.                           *)
LEMMA SlotNext ==
  ASSUME NEW m \in Nat, NEW h \in 0 .. m, NEW n \in 1 .. m
  PROVE  cache_next(Slot(h, m, n - 1), m) = Slot(h, m, n)
<1> DEFINE i == Slot(h, m, n - 1)
<1>1. i \in 0 .. m BY SlotRange
<1>2. CASE Packed BY <1>2 DEF cache_next, Slot
<1>3. CASE ~Packed
  <2>1. (i + 1) % (m + 1) = IF i = m THEN 0 ELSE i + 1
    <3> HIDE DEF i
    <3> QED BY <1>1, ModNext
  <2>2. cache_next(i, m) = (i + 1) % (m + 1) BY <1>3 DEF cache_next
  <2>3. (IF i = m THEN 0 ELSE i + 1) = Slot(h, m, n) BY <1>3 DEF Slot
  <2> HIDE DEF i
  <2>4. cache_next(i, m) = Slot(h, m, n) BY <2>1, <2>2, <2>3
  <2> QED BY <2>4 DEF i
<1> QED BY <1>2, <1>3

(* The slots in closed form.                                               *)
LEMMA PathIsSlot ==
  ASSUME NEW sel \in Selectors, NEW m \in Nat
  PROVE  \A n \in 0 .. m : Path(sel, m)[n] = Slot(cache_hash(sel, m), m, n)
<1> DEFINE h == cache_hash(sel, m)
           f == [n \in 0 .. m |-> Slot(h, m, n)]
           Rec(g) == [n \in 0 .. m |-> IF n = 0 THEN h ELSE cache_next(g[n - 1], m)]
           P == Path(sel, m)
<1>0. h \in 0 .. m BY HashRange, ZenonT(30)
<1>1. f = Rec(f)
  <2>1. ASSUME NEW n \in 0 .. m
        PROVE  Slot(h, m, n) = IF n = 0 THEN h ELSE cache_next(f[n - 1], m)
    <3> HIDE DEF h
    <3>1. CASE n = 0 BY <1>0, <3>1 DEF Slot
    <3>2. CASE n # 0
      <4>1. n \in 1 .. m /\ n - 1 \in 0 .. m BY <3>2
      <4>2. f[n - 1] = Slot(h, m, n - 1) BY <4>1
      <4> QED BY <1>0, <3>2, <4>1, <4>2, SlotNext
    <3> QED BY <3>1, <3>2
  <2> QED BY <2>1, ZenonT(30)
<1>2. P = Rec(P)
  <2>1. \E g : g = Rec(g) BY <1>1, ZenonT(30)
  <2>2. P = CHOOSE g : g = Rec(g) BY DEF Path
  <2> QED BY <2>1, <2>2, ZenonT(30)
<1> HIDE DEF P
<1> DEFINE T == {n \in 0 .. m : P[n] # f[n]}
<1>3. T = {}
  <2> SUFFICES ASSUME T # {} PROVE FALSE OBVIOUS
  <2>1. PICK n \in T : \A y \in T : n <= y
    <3>1. T \subseteq Nat OBVIOUS
    <3> HIDE DEF T
    <3> QED BY <3>1, Least, ZenonT(30)
  <2>2. n \in 0 .. m /\ P[n] # f[n] OBVIOUS
  <2> HIDE DEF h, f
  <2>3. P[n] = IF n = 0 THEN h ELSE cache_next(P[n - 1], m) BY <1>2, <2>2
  <2>4. f[n] = IF n = 0 THEN h ELSE cache_next(f[n - 1], m) BY <1>1, <2>2
  <2>5. n # 0 BY <2>2, <2>3, <2>4
  <2>6. n - 1 \in 0 .. m /\ n - 1 \notin T BY <2>1, <2>2, <2>5
  <2>7. P[n - 1] = f[n - 1] BY <2>6
  <2> QED BY <2>2, <2>3, <2>4, <2>7
<1>4. ASSUME NEW n \in 0 .. m PROVE P[n] = Slot(h, m, n) BY <1>3, ZenonT(30)
<1> QED BY <1>4 DEF P

-----------------------------------------------------------------------------
(* The inductive invariant, without what follows from it or needs a bound. *)

(* BufferOK bucket by bucket, and of the empty buckets too.                *)
BucketsOK(b) ==
    /\ \E n \in 1 .. MAX_CACHE_SIZE :
          /\ DOMAIN mem[b] = 0 .. n - 1
          /\ \A i \in 0 .. n - 1 : mem[b][i].sel = End <=> ~Packed /\ b # Empty /\ i = n - 1
    /\ \A i \in DOMAIN mem[b] :
          LET e == mem[b][i] IN
          /\ e \in [sel: Selectors \cup {Nil, End}, imp: Imps \cup {None}]
          /\ e.sel \in Selectors => e.imp \in {e.sel} \X (0 .. imps[e.sel])

(* What a search relies on: on x86_64 a mask that is not too large for the *)
(* buckets that follow it, on arm64 one that goes with its buckets; entries*)
(* that are not older than the message; and an entry that stays as it is   *)
(* once it was found.                                                      *)
Reads(t) ==
    /\ pc[t] \in {"loadBuckets", "compare", "classify", "hit", "slow", "return"} => r[t].sel \in Selectors
    /\ r[t].sel \in Selectors => r[t].since <= settled[r[t].sel]
    /\ pc[t] \in {"loadBuckets", "classify", "hit"} => ~Packed
    /\ At(t, "loadBuckets") => r[t].mask <= mask
    /\ Dereferences(t) =>
          /\ Packed => 0 .. r[t].mask \subseteq DOMAIN mem[r[t].buckets] /\ r[t].i <= r[t].mask
          /\ \A i \in DOMAIN mem[r[t].buckets]: mem[r[t].buckets][i].sel = r[t].sel =>
                mem[r[t].buckets][i].imp[2] >= r[t].since
    /\ At(t, "hit") => Here(t).sel = r[t].sel

(* What the thread that holds runtimeLock relies on: the implementation it *)
(* looked up is the one in force; the buckets it is about to set are empty,*)
(* in use by nobody and not smaller than the old ones; the ones it throws  *)
(* away are not garbage yet; and a thread that the collector has passed is *)
(* not searching garbage.                                                  *)
Writes(t) ==
    /\ pc[t] \in Locked <=> runtimeLock = t
    /\ pc[t] \in Locked /\ r[t].op = "insert" =>
          r[t].sel \in Selectors /\ r[t].imp = <<r[t].sel, imps[r[t].sel]>>
    /\ pc[t] \in {"insert", "place", "setSel"} => r[t].op = "insert"
    /\ At(t, "erase") => r[t].op # "insert"
    /\ pc[t] \in {"place", "setSel", "free", "collect"} /\ r[t].op = "insert" => buckets # Empty
    /\ pc[t] \in {"erase", "setBuckets"} /\ r[t].op = "change" => r[t].sel \in Selectors
    /\ pc[t] \in {"setBuckets", "setMask"} =>
          /\ r[t].buckets \in DOMAIN mem \ garbage
          /\ \A i \in DOMAIN mem[r[t].buckets]: mem[r[t].buckets][i].sel \notin Selectors
          /\ 0 .. r[t].mask \subseteq DOMAIN mem[r[t].buckets] /\ r[t].mask >= mask
          /\ r[t].op = "insert" => r[t].buckets # Empty
    /\ At(t, "setBuckets") => r[t].buckets # buckets /\ r[t].old \in {None, buckets}
    /\ At(t, "setMask") => r[t].buckets = buckets
    /\ pc[t] \in {"setBuckets", "setMask", "free"} /\ r[t].old # None =>
          r[t].old \in DOMAIN mem \ (garbage \cup {Empty}) /\ (~At(t, "setBuckets") => r[t].old # buckets)
    /\ At(t, "free") => r[t].old # None
    /\ At(t, "setSel") => r[t].i \in DOMAIN mem[buckets] /\ mem[buckets][r[t].i].sel = Nil /\ occupied > 0
    /\ At(t, "collect") =>
          \A u \in Threads \ (r[t].unchecked \cup {t}): Dereferences(u) => r[u].buckets \notin garbage

(* The bucket that a search is about to read exists.                       *)
Allocated(t) ==
    Dereferences(t) => r[t].buckets \in DOMAIN mem /\ r[t].i \in DOMAIN mem[r[t].buckets]

(* What a send is about to call.                                           *)
Returns(t) ==
    At(t, "return") => r[t].imp \in {r[t].sel} \X (0 .. MaxChanges) /\ r[t].imp[2] >= r[t].since

ThreadOK(t) == Allocated(t) /\ Reads(t) /\ Returns(t) /\ Writes(t)
SharedOK ==
    /\ \A b \in DOMAIN mem : BucketsOK(b)
    /\ CacheOK /\ EntriesFresh
    /\ \A s \in Selectors : settled[s] <= imps[s]
Core == TypeOK /\ SharedOK /\ \A t \in Threads : ThreadOK(t)

(* What the build gives.                                                   *)
LEMMA BuildFacts ==
  ASSUME TypeOK
  PROVE  /\ Packed \in BOOLEAN /\ Restartable \in BOOLEAN
         /\ INIT_CACHE_SIZE \in Nat \ {0} /\ MAX_CACHE_SIZE \in Nat \ {0}
         /\ INIT_CACHE_SIZE <= MAX_CACHE_SIZE /\ garbage_threshold \in Nat \ {0}
<1>1. BuildOK(build) BY BuildsAssumption DEF TypeOK
<1> QED BY <1>1 DEF BuildOK, Packed, Restartable, INIT_CACHE_SIZE, MAX_CACHE_SIZE, garbage_threshold

(* The names that the preprocessor settles change with the build only.     *)
LEMMA SameBuild ==
  ASSUME build' = build
  PROVE  /\ Packed' = Packed /\ Restartable' = Restartable
         /\ INIT_CACHE_SIZE' = INIT_CACHE_SIZE /\ MAX_CACHE_SIZE' = MAX_CACHE_SIZE
         /\ garbage_threshold' = garbage_threshold
BY DEF Packed, Restartable, INIT_CACHE_SIZE, MAX_CACHE_SIZE, garbage_threshold

(* So do the types of the registers.                                       *)
LEMMA SameRegisters == ASSUME build' = build PROVE RegisterSet' = RegisterSet
BY SameBuild, ZenonT(30) DEF RegisterSet

(* The markers are no selectors.                                           *)
LEMMA Markers == Nil \notin Selectors /\ End \notin Selectors /\ Nil # End /\ Empty \notin Buffers
BY CacheAssumption DEF Nil, End, Empty

(* The registers of a thread that is idle.                                 *)
LEMMA RegistersType == ASSUME TypeOK PROVE Registers \in RegisterSet
<1>1. MAX_CACHE_SIZE \in Nat \ {0} BY BuildFacts
<1>2. 0 \in 0 .. MaxChanges BY CacheAssumption
<1> QED BY <1>1, <1>2 DEF Registers, RegisterSet

(* A step of a thread that holds no lock, before and after it, changes     *)
(* nothing but its own program counter and registers.                      *)
LEMMA ReaderStep ==
  ASSUME Core, NEW t \in Threads, ReadOnly, build' = build,
         NEW l \in Pcs \ Locked, pc' = [pc EXCEPT ![t] = l], pc[t] \notin Locked,
         NEW x \in RegisterSet, r' = [r EXCEPT ![t] = x],
         Allocated(t)', Reads(t)', Returns(t)',
         Dereferences(t)' => \/ x.buckets \notin garbage
                             \/ Dereferences(t) /\ x.buckets = r[t].buckets
  PROVE  Core'
<1> USE DEF ReadOnly, cache, trash, methods
<1>0. TypeOK /\ pc \in [Threads -> Pcs] /\ r \in [Threads -> RegisterSet] BY DEF Core, TypeOK
<1>1. pc'[t] = l /\ r'[t] = x BY <1>0
<1>2. \A u \in Threads \ {t} : pc'[u] = pc[u] /\ r'[u] = r[u] BY <1>0
<1>3. TypeOK'
  <2>1. RegisterSet' = RegisterSet BY SameRegisters
  <2>2. r' \in [Threads -> RegisterSet] /\ pc' \in [Threads -> Pcs] BY <1>0
  <2> QED BY <1>0, <2>1, <2>2, SameBuild DEF TypeOK
<1>4. SharedOK'
  <2>1. \A b \in DOMAIN mem : BucketsOK(b)'
    <3>1. \A b \in DOMAIN mem : BucketsOK(b) BY DEF Core, SharedOK
    <3> QED BY <3>1, SameBuild DEF BucketsOK
  <2>2. Entries' = Entries BY DEF Entries
  <2>3. CacheOK'
    <3>1. \A w \in Threads : At(w, "setMask") => At(w, "setMask")'
      BY <1>1, <1>2 DEF At, Locked
    <3> QED BY <2>2, <3>1 DEF Core, SharedOK, CacheOK
  <2>4. EntriesFresh'
    <3>1. \A s : Changing(s) => Changing(s)'
      <4> SUFFICES ASSUME NEW s, NEW w \in Threads, pc[w] \in {"erase", "setBuckets"},
                          r[w].op = "change", r[w].sel = s
                   PROVE  Changing(s)'
        BY DEF Changing
      <4>1. w # t BY DEF Locked
      <4> QED BY <4>1, <1>2 DEF Changing
    <3> QED BY <2>2, <3>1 DEF Core, SharedOK, EntriesFresh
  <2> QED BY <2>1, <2>3, <2>4 DEF Core, SharedOK
<1>5. ASSUME NEW u \in Threads PROVE ThreadOK(u)'
  <2>0. ThreadOK(u) /\ ThreadOK(t) BY DEF Core
  <2>1. CASE u = t
    <3>1. l \notin {"insert", "place", "setSel", "free", "collect", "erase", "setBuckets", "setMask"}
      BY DEF Locked
    <3>2. runtimeLock # t BY <2>0 DEF ThreadOK, Writes
    <3>3. Writes(t)' BY <1>1, <3>1, <3>2 DEF Writes, At
    <3> QED BY <2>1, <3>3 DEF ThreadOK
  <2>2. CASE u # t
    <3>0. pc'[u] = pc[u] /\ r'[u] = r[u] BY <1>2, <2>2
    <3>1. Allocated(u)' BY <2>0, <3>0 DEF ThreadOK, Allocated, Dereferences
    <3>2. Reads(u)'
      BY <2>0, <3>0, SameBuild DEF ThreadOK, Reads, Dereferences, At, Here
    <3>3. Returns(u)' BY <2>0, <3>0 DEF ThreadOK, Returns, At
    <3>4. Writes(u)'
      <4>1. ASSUME pc[u] = "collect", NEW v \in Threads \ (r[u].unchecked \cup {u}), Dereferences(v)'
            PROVE  r'[v].buckets \notin garbage
        <5>1. CASE v # t
          BY <1>2, <2>0, <4>1, <5>1 DEF ThreadOK, Writes, At, Dereferences
        <5>2. CASE v = t
          BY <1>1, <2>0, <4>1, <5>2 DEF ThreadOK, Writes, At
        <5> QED BY <5>1, <5>2
      <4>2. Writes(u) BY <2>0 DEF ThreadOK
      <4> QED BY <3>0, <4>1, <4>2 DEF Writes, At
    <3> QED BY <3>1, <3>2, <3>3, <3>4 DEF ThreadOK
  <2> QED BY <2>1, <2>2
<1> QED BY <1>3, <1>4, <1>5 DEF Core

-----------------------------------------------------------------------------
(* The searches.                                                           *)

(* The entries of a buffer that a search reads.                            *)
LEMMA BufferFacts ==
  ASSUME Core, NEW b \in DOMAIN mem
  PROVE  /\ BucketsOK(b)
         /\ DOMAIN mem[b] \subseteq Nat /\ 0 \in DOMAIN mem[b]
         /\ \A i \in DOMAIN mem[b] : mem[b][i].sel \in Selectors \cup {Nil, End}
                                  /\ mem[b][i].imp \in Imps \cup {None}
<1>1. BucketsOK(b) BY DEF Core, SharedOK
<1>2. PICK n \in 1 .. MAX_CACHE_SIZE : DOMAIN mem[b] = 0 .. n - 1 BY <1>1 DEF BucketsOK
<1>3. MAX_CACHE_SIZE \in Nat BY BuildFacts DEF Core
<1>4. n \in Nat /\ n >= 1 BY <1>3
<1>5. DOMAIN mem[b] \subseteq Nat /\ 0 \in DOMAIN mem[b] BY <1>2, <1>4
<1> QED BY <1>1, <1>5 DEF BucketsOK

(* A search that ends, with an implementation or without.                  *)
LEMMA LeaveStep ==
  ASSUME Core, NEW t \in Threads, ReadOnly, build' = build, NEW l, NEW imp,
         Critical(t), Leave(t, l, imp), imp \in Imps \cup {None},
         \/ l = "slow"
         \/ l = "return" /\ imp \in {r[t].sel} \X (0 .. MaxChanges) /\ imp[2] >= r[t].since
  PROVE  Core'
<1> DEFINE x == [Registers EXCEPT !.sel = r[t].sel, !.since = r[t].since, !.imp = imp]
<1>0. TypeOK /\ r[t] \in RegisterSet /\ pc \in [Threads -> Pcs] /\ r \in [Threads -> RegisterSet]
  BY DEF Core, TypeOK
<1>1. x \in RegisterSet BY <1>0, RegistersType, ZenonT(30) DEF RegisterSet
<1>2. x.sel = r[t].sel /\ x.since = r[t].since /\ x.imp = imp BY DEF Registers
<1>3. r' = [r EXCEPT ![t] = x] /\ pc' = [pc EXCEPT ![t] = l] BY DEF Leave, Goto
<1>4. l \in Pcs \ Locked /\ pc[t] \notin Locked BY DEF Critical, Pcs, Locked
<1> HIDE DEF x
<1>5. pc'[t] = l /\ r'[t] = x BY <1>0, <1>3
<1>6. ~Dereferences(t)' /\ Allocated(t)' BY <1>5 DEF Dereferences, Allocated
<1>7. Returns(t)' BY <1>2, <1>5 DEF Returns, At
<1>8. Reads(t)'
  <2>1. Reads(t) BY DEF Core, ThreadOK
  <2>2. settled' = settled BY DEF ReadOnly, methods
  <2>3. r[t].sel \in Selectors BY <2>1 DEF Reads, Critical
  <2> QED BY <1>2, <1>5, <1>6, <2>1, <2>2, <2>3 DEF Reads, At
<1> QED BY <1>1, <1>3, <1>4, <1>6, <1>7, <1>8, ReaderStep, ZenonT(30)

(* A search that goes on, within its buckets.                              *)
LEMMA ProbeStep ==
  ASSUME Core, NEW t \in Threads, ReadOnly, build' = build, NEW i, NEW w \in BOOLEAN,
         Dereferences(t), Probe(t, i, w), i \in DOMAIN mem[r[t].buckets],
         Packed => i <= r[t].mask
  PROVE  Core'
<1> DEFINE x == [r[t] EXCEPT !.i = i, !.wrapped = w]
<1>0. TypeOK /\ r[t] \in RegisterSet /\ pc \in [Threads -> Pcs] /\ r \in [Threads -> RegisterSet]
  BY DEF Core, TypeOK
<1>a. Allocated(t) /\ Reads(t) BY DEF Core, ThreadOK
<1>b. i \in Nat BY <1>a, BufferFacts DEF Allocated
<1>1. x \in RegisterSet BY <1>0, <1>b, ZenonT(30) DEF RegisterSet
<1>2. x.sel = r[t].sel /\ x.since = r[t].since /\ x.mask = r[t].mask /\ x.buckets = r[t].buckets
      /\ x.i = i
  BY <1>0 DEF RegisterSet
<1>3. r' = [r EXCEPT ![t] = x] /\ pc' = [pc EXCEPT ![t] = "compare"] BY <1>0, ZenonT(30) DEF Probe, Goto
<1>4. "compare" \in Pcs \ Locked /\ pc[t] \notin Locked BY DEF Dereferences, Pcs, Locked
<1> HIDE DEF x
<1>5. pc'[t] = "compare" /\ r'[t] = x BY <1>0, <1>3
<1>6. mem' = mem /\ settled' = settled BY DEF ReadOnly, methods
<1>7. Allocated(t)' BY <1>2, <1>5, <1>6, <1>a DEF Allocated
<1>8. Returns(t)' BY <1>5 DEF Returns, At
<1>9. Reads(t)'
  BY <1>2, <1>5, <1>6, <1>a, SameBuild DEF Reads, At, Dereferences
<1> QED BY <1>1, <1>2, <1>3, <1>4, <1>7, <1>8, <1>9, ReaderStep, ZenonT(30)

(* A search that finds its selector has an implementation of it that is    *)
(* not older than the send.                                                *)
LEMMA HitStep ==
  ASSUME Core, NEW t \in Threads, ReadOnly, build' = build, Dereferences(t),
         Here(t).sel = r[t].sel, Hit(t)
  PROVE  Core'
<1>0. Allocated(t) /\ Reads(t) BY DEF Core, ThreadOK
<1> DEFINE b == r[t].buckets
           e == mem[b][r[t].i]
<1>1. b \in DOMAIN mem /\ r[t].i \in DOMAIN mem[b] /\ r[t].sel \in Selectors
  BY <1>0 DEF Allocated, Reads, Dereferences
<1>2. e.sel = r[t].sel /\ Here(t).imp = e.imp BY DEF Here
<1>3. e.imp \in {e.sel} \X (0 .. imps[e.sel]) BY <1>1, <1>2, BufferFacts DEF BucketsOK
<1>4. imps[e.sel] \in 0 .. MaxChanges BY <1>1, <1>2 DEF Core, TypeOK
<1>5. e.imp[2] >= r[t].since BY <1>0, <1>1, <1>2 DEF Reads
<1> HIDE DEF e
<1>6. 0 .. imps[e.sel] \subseteq 0 .. MaxChanges BY <1>4, CacheAssumption
<1>7. e.imp \in {r[t].sel} \X (0 .. MaxChanges) BY <1>2, <1>3, <1>6
<1>8. e.imp \in Imps BY <1>1, <1>7 DEF Imps
<1>9. Critical(t) BY DEF Critical, Dereferences
<1> QED BY <1>2, <1>5, <1>7, <1>8, <1>9, LeaveStep DEF Hit

(* A search that misses.                                                   *)
LEMMA MissStep ==
  ASSUME Core, NEW t \in Threads, ReadOnly, build' = build, Critical(t), Miss(t)
  PROVE  Core'
BY LeaveStep DEF Miss

(* objc_msgSend reads the mask, on arm64 with the buckets.                 *)
LEMMA MsgSendStep ==
  ASSUME Core, NEW t \in Threads, NEW sel \in Selectors, objc_msgSend(t, sel), build' = build
  PROVE  Core'
<1> DEFINE h == cache_hash(sel, mask)
           y == [Registers EXCEPT !.sel = sel, !.since = settled[sel], !.mask = mask]
           z == [y EXCEPT !.buckets = buckets, !.first = h, !.i = h]
<1>0. TypeOK /\ pc \in [Threads -> Pcs] /\ r \in [Threads -> RegisterSet] BY DEF Core, TypeOK
<1>1. /\ mask \in 0 .. MAX_CACHE_SIZE - 1 /\ mask \in Nat /\ settled[sel] \in 0 .. MaxChanges
      /\ buckets \in DOMAIN mem \ garbage /\ buckets \in Buffers \cup {Empty}
      /\ 0 .. mask \subseteq DOMAIN mem[buckets]
  BY DEF Core, TypeOK, SharedOK, CacheOK
<1>2. h \in 0 .. mask /\ h \in Nat BY <1>1, HashRange
<1>3. pc[t] \notin Locked BY DEF objc_msgSend, At, Locked
<1>4. ReadOnly BY DEF objc_msgSend
<1>5. mem' = mem /\ settled' = settled /\ mask' = mask BY <1>4 DEF ReadOnly, methods, cache
<1>6. settled[sel] <= settled[sel] BY <1>1, CacheAssumption
<1> HIDE DEF h
<1>7. CASE Packed
  <2>1. r' = [r EXCEPT ![t] = z] /\ pc' = [pc EXCEPT ![t] = "compare"]
    BY <1>7 DEF objc_msgSend, Goto, h
  <2>2. z \in RegisterSet BY <1>0, <1>1, <1>2, RegistersType, ZenonT(30) DEF RegisterSet
  <2>3. z.sel = sel /\ z.since = settled[sel] /\ z.mask = mask /\ z.buckets = buckets /\ z.i = h
    BY DEF Registers
  <2> HIDE DEF z
  <2>4. pc'[t] = "compare" /\ r'[t] = z BY <1>0, <2>1
  <2>5. "compare" \in Pcs \ Locked BY DEF Pcs, Locked
  <2>6. Allocated(t)' BY <1>1, <1>2, <1>5, <2>3, <2>4 DEF Allocated
  <2>7. Returns(t)' BY <2>4 DEF Returns, At
  <2>8. ASSUME NEW i \in DOMAIN mem[buckets], mem[buckets][i].sel = sel
        PROVE  mem[buckets][i].imp[2] >= settled[sel]
    BY <2>8 DEF Core, SharedOK, EntriesFresh, Entries
  <2>9. h <= mask BY <1>1, <1>2
  <2>10. Reads(t)'
    BY <1>1, <1>5, <1>6, <1>7, <2>3, <2>4, <2>8, <2>9, SameBuild DEF Reads, At, Dereferences
  <2> QED BY <1>1, <1>3, <1>4, <2>1, <2>2, <2>3, <2>5, <2>6, <2>7, <2>10, ReaderStep, ZenonT(30)
<1>8. CASE ~Packed
  <2>1. r' = [r EXCEPT ![t] = y] /\ pc' = [pc EXCEPT ![t] = "loadBuckets"]
    BY <1>8 DEF objc_msgSend, Goto
  <2>2. y \in RegisterSet BY <1>0, <1>1, RegistersType, ZenonT(30) DEF RegisterSet
  <2>3. y.sel = sel /\ y.since = settled[sel] /\ y.mask = mask BY DEF Registers
  <2> HIDE DEF y
  <2>4. pc'[t] = "loadBuckets" /\ r'[t] = y BY <1>0, <2>1
  <2>5. "loadBuckets" \in Pcs \ Locked BY DEF Pcs, Locked
  <2>6. ~Dereferences(t)' /\ Allocated(t)' BY <2>4 DEF Allocated, Dereferences
  <2>7. Returns(t)' BY <2>4 DEF Returns, At
  <2>8. mask <= mask BY <1>1
  <2>9. Reads(t)'
    BY <1>5, <1>6, <1>8, <2>3, <2>4, <2>6, <2>8, SameBuild DEF Reads, At
  <2> QED BY <1>3, <1>4, <2>1, <2>2, <2>5, <2>6, <2>7, <2>9, ReaderStep, ZenonT(30)
<1> QED BY <1>7, <1>8

(* x86_64 loads the buckets after the mask.  The hash lies within them,    *)
(* because masks never shrink.                                             *)
LEMMA LoadBucketsStep ==
  ASSUME Core, NEW t \in Threads, LoadBuckets(t), build' = build
  PROVE  Core'
<1> DEFINE h == cache_hash(r[t].sel, r[t].mask)
           x == [r[t] EXCEPT !.buckets = buckets, !.i = h]
<1>0. TypeOK /\ pc \in [Threads -> Pcs] /\ r \in [Threads -> RegisterSet] /\ r[t] \in RegisterSet
  BY DEF Core, TypeOK
<1>1. /\ mask \in 0 .. MAX_CACHE_SIZE - 1 /\ mask \in Nat
      /\ buckets \in DOMAIN mem \ garbage /\ buckets \in Buffers \cup {Empty}
      /\ 0 .. mask \subseteq DOMAIN mem[buckets]
  BY DEF Core, TypeOK, SharedOK, CacheOK
<1>2. Reads(t) /\ pc[t] = "loadBuckets" BY DEF Core, ThreadOK, LoadBuckets, At
<1>3. /\ r[t].sel \in Selectors /\ r[t].since <= settled[r[t].sel] /\ ~Packed
      /\ r[t].mask <= mask /\ r[t].mask \in Nat /\ r[t].since \in Nat /\ settled[r[t].sel] \in Nat
  <2>1. r[t].sel \in Selectors BY <1>2 DEF Reads
  <2>2. r[t].since <= settled[r[t].sel] /\ ~Packed /\ r[t].mask <= mask BY <1>2, <2>1 DEF Reads, At
  <2>3. settled[r[t].sel] \in 0 .. MaxChanges /\ r[t].since \in 0 .. MaxChanges
        /\ r[t].mask \in 0 .. MAX_CACHE_SIZE - 1
    BY <1>0, <2>1 DEF TypeOK, RegisterSet
  <2> QED BY <2>1, <2>2, <2>3
<1>4. h \in 0 .. r[t].mask BY <1>3, HashRange
<1> HIDE DEF h
<1>5. h \in DOMAIN mem[buckets] /\ h \in Nat BY <1>1, <1>3, <1>4
<1>6. pc[t] \notin Locked /\ "compare" \in Pcs \ Locked BY <1>2 DEF Locked, Pcs
<1>7. ReadOnly BY DEF LoadBuckets
<1>8. mem' = mem /\ settled' = settled BY <1>7 DEF ReadOnly, methods
<1>9. r' = [r EXCEPT ![t] = x] /\ pc' = [pc EXCEPT ![t] = "compare"]
  BY <1>0, ZenonT(30) DEF LoadBuckets, Goto, h
<1>10. x \in RegisterSet BY <1>0, <1>1, <1>5, ZenonT(30) DEF RegisterSet
<1>11. x.sel = r[t].sel /\ x.since = r[t].since /\ x.buckets = buckets /\ x.i = h
  BY <1>0 DEF RegisterSet
<1> HIDE DEF x
<1>12. pc'[t] = "compare" /\ r'[t] = x BY <1>0, <1>9
<1>13. Allocated(t)' BY <1>1, <1>5, <1>8, <1>11, <1>12 DEF Allocated
<1>14. Returns(t)' BY <1>12 DEF Returns, At
<1>15. ASSUME NEW i \in DOMAIN mem[buckets], mem[buckets][i].sel = r[t].sel
       PROVE  mem[buckets][i].imp[2] >= r[t].since
  <2>1. i \in Entries BY <1>3, <1>15 DEF Entries
  <2>2. mem[buckets][i].imp[2] >= settled[r[t].sel] BY <1>15, <2>1 DEF Core, SharedOK, EntriesFresh
  <2>3. mem[buckets][i].imp \in {r[t].sel} \X (0 .. imps[r[t].sel])
    BY <1>1, <1>3, <1>15, BufferFacts DEF BucketsOK
  <2>4. mem[buckets][i].imp[2] \in Int BY <2>3
  <2> QED BY <1>3, <2>2, <2>4
<1>16. Reads(t)'
  BY <1>3, <1>8, <1>11, <1>12, <1>15, SameBuild DEF Reads, At, Dereferences
<1> QED BY <1>1, <1>6, <1>7, <1>9, <1>10, <1>11, <1>13, <1>14, <1>16, ReaderStep, ZenonT(30)

(* Where a search is within its buckets.                                   *)
LEMMA SearchFacts ==
  ASSUME Core, NEW t \in Threads, Dereferences(t)
  PROVE  /\ r[t].buckets \in DOMAIN mem /\ r[t].i \in DOMAIN mem[r[t].buckets]
         /\ DOMAIN mem[r[t].buckets] \subseteq Nat /\ 0 \in DOMAIN mem[r[t].buckets]
         /\ r[t].sel \in Selectors /\ r[t].mask \in Nat /\ r[t].i \in Nat /\ r[t].first \in Nat
         /\ r[t].wrapped \in BOOLEAN
         /\ Packed => 0 .. r[t].mask \subseteq DOMAIN mem[r[t].buckets] /\ r[t].i <= r[t].mask
<1>1. Allocated(t) /\ Reads(t) BY DEF Core, ThreadOK
<1>2. r[t].buckets \in DOMAIN mem /\ r[t].i \in DOMAIN mem[r[t].buckets] BY <1>1 DEF Allocated
<1>3. r[t] \in RegisterSet BY DEF Core, TypeOK
<1>4. r[t].mask \in 0 .. MAX_CACHE_SIZE - 1 /\ r[t].first \in Nat /\ r[t].i \in Nat
      /\ r[t].wrapped \in BOOLEAN
  BY <1>3 DEF RegisterSet
<1>5. r[t].mask \in Nat BY <1>4
<1>6. r[t].sel \in Selectors BY <1>1 DEF Reads, Dereferences
<1>7. Packed => 0 .. r[t].mask \subseteq DOMAIN mem[r[t].buckets] /\ r[t].i <= r[t].mask
  BY <1>1 DEF Reads
<1> QED BY <1>2, <1>4, <1>5, <1>6, <1>7, BufferFacts

(* arm64 goes down and around, within the mask.                            *)
LEMMA ComparePackedStep ==
  ASSUME Core, NEW t \in Threads, ComparePacked(t), build' = build
  PROVE  Core'
<1>0. Dereferences(t) /\ Critical(t) /\ ReadOnly /\ Packed
  BY DEF ComparePacked, At, Dereferences, Critical
<1>1. /\ 0 .. r[t].mask \subseteq DOMAIN mem[r[t].buckets] /\ r[t].i <= r[t].mask
      /\ r[t].mask \in Nat /\ r[t].i \in Nat /\ r[t].first \in Nat
  BY <1>0, SearchFacts
<1>2. CASE Here(t).sel = r[t].sel /\ Hit(t) BY <1>0, <1>2, HitStep
<1>3. CASE Miss(t) BY <1>0, <1>3, MissStep
<1>4. ASSUME NEW w \in BOOLEAN, r[t].i > 0, Probe(t, r[t].i - 1, w) PROVE Core'
  <2>1. r[t].i - 1 \in 0 .. r[t].mask /\ r[t].i - 1 <= r[t].mask BY <1>1, <1>4
  <2> QED BY <1>0, <1>1, <1>4, <2>1, ProbeStep
<1>5. CASE Probe(t, r[t].mask, TRUE)
  <2>1. r[t].mask \in 0 .. r[t].mask /\ r[t].mask <= r[t].mask BY <1>1
  <2> QED BY <1>0, <1>1, <1>5, <2>1, ProbeStep, ZenonT(30)
<1>6. r[t].i > r[t].first + 1 => r[t].i > 0 BY <1>1
<1> QED BY <1>2, <1>3, <1>4, <1>5, <1>6, ZenonT(30) DEF ComparePacked

(* x86_64 compares the selector, and keeps its place.                      *)
LEMMA CompareStep ==
  ASSUME Core, NEW t \in Threads, Compare(t), build' = build
  PROVE  Core'
<1> DEFINE l == IF Here(t).sel = r[t].sel THEN "hit" ELSE "classify"
<1>0. TypeOK /\ pc \in [Threads -> Pcs] /\ r \in [Threads -> RegisterSet] /\ r[t] \in RegisterSet
  BY DEF Core, TypeOK
<1>1. Dereferences(t) /\ ReadOnly /\ ~Packed /\ pc[t] \notin Locked
  BY DEF Compare, At, Dereferences, Locked
<1>2. pc' = [pc EXCEPT ![t] = l] /\ r' = [r EXCEPT ![t] = r[t]] BY <1>0 DEF Compare, Goto
<1>3. l \in Pcs \ Locked BY DEF Pcs, Locked
<1>4. pc'[t] = l /\ r' = r BY <1>0 DEF Compare, Goto
<1>5. mem' = mem /\ settled' = settled BY <1>1 DEF ReadOnly, methods
<1>6. Allocated(t) /\ Reads(t) BY DEF Core, ThreadOK
<1>7. l \in {"hit", "classify"} /\ (l = "hit" => Here(t).sel = r[t].sel) OBVIOUS
<1> HIDE DEF l
<1>8. Allocated(t)' BY <1>1, <1>4, <1>5, <1>6 DEF Allocated
<1>9. Returns(t)' BY <1>4, <1>7 DEF Returns, At
<1>10. Here(t)' = Here(t) BY <1>4, <1>5 DEF Here
<1>11. Reads(t)'
  <2>1. r[t].sel \in Selectors BY <1>1, SearchFacts
  <2> QED BY <1>1, <1>4, <1>5, <1>6, <1>7, <1>10, <2>1, SameBuild DEF Reads, At
<1> QED BY <1>0, <1>1, <1>2, <1>3, <1>8, <1>9, <1>11, ReaderStep, ZenonT(30)

(* A bucket that is neither vacant nor the end marker has a next one.      *)
LEMMA NextBucket ==
  ASSUME Core, NEW t \in Threads, Dereferences(t), ~Packed, Here(t).sel \notin {Nil, End}
  PROVE  r[t].i + 1 \in DOMAIN mem[r[t].buckets]
<1> DEFINE b == r[t].buckets
           i == r[t].i
<1>1. b \in DOMAIN mem /\ i \in DOMAIN mem[b] /\ i \in Nat BY SearchFacts
<1>2. mem[b][i].sel \notin {Nil, End} BY DEF Here
<1>3. b # Empty
  <2> SUFFICES ASSUME b = Empty PROVE FALSE OBVIOUS
  <2>1. mem[Empty] = [j \in 0 .. MAX_CACHE_SIZE - 1 |-> Vacant] BY DEF Core, TypeOK
  <2> QED BY <1>1, <1>2, <2>1 DEF Vacant, Bucket
<1>4. PICK n \in 1 .. MAX_CACHE_SIZE :
         DOMAIN mem[b] = 0 .. n - 1 /\ \A j \in 0 .. n - 1 : mem[b][j].sel = End <=> j = n - 1
  BY <1>1, <1>3, BufferFacts DEF BucketsOK
<1>5. n \in Nat
  <2>1. MAX_CACHE_SIZE \in Nat BY BuildFacts DEF Core
  <2> QED BY <2>1
<1>6. i # n - 1 BY <1>1, <1>2, <1>4
<1> HIDE DEF b, i
<1>7. i + 1 \in 0 .. n - 1 BY <1>1, <1>4, <1>5, <1>6
<1> QED BY <1>4, <1>7 DEF b, i

(* x86_64 goes up to the end marker and around once.                       *)
LEMMA ClassifyStep ==
  ASSUME Core, NEW t \in Threads, Classify(t), build' = build
  PROVE  Core'
<1>0. Dereferences(t) /\ Critical(t) /\ ReadOnly /\ pc[t] = "classify"
  BY DEF Classify, At, Dereferences, Critical
<1>1. ~Packed BY <1>0 DEF Core, ThreadOK, Reads
<1>2. 0 \in DOMAIN mem[r[t].buckets] /\ r[t].wrapped \in BOOLEAN BY <1>0, SearchFacts
<1>3. CASE Miss(t) BY <1>0, <1>3, MissStep
<1>4. CASE Probe(t, 0, TRUE) BY <1>0, <1>1, <1>2, <1>4, ProbeStep, ZenonT(30)
<1>5. CASE Here(t).sel \notin {Nil, End} /\ Probe(t, r[t].i + 1, r[t].wrapped)
  BY <1>0, <1>1, <1>2, <1>5, NextBucket, ProbeStep
<1> QED BY <1>3, <1>4, <1>5, ZenonT(30) DEF Classify

(* The implementation is loaded from the entry that was found.             *)
LEMMA CacheHitStep ==
  ASSUME Core, NEW t \in Threads, CacheHit(t), build' = build
  PROVE  Core'
<1>0. Dereferences(t) /\ ReadOnly /\ pc[t] = "hit" /\ Hit(t) BY DEF CacheHit, At, Dereferences
<1>1. Here(t).sel = r[t].sel BY <1>0 DEF Core, ThreadOK, Reads, At
<1> QED BY <1>0, <1>1, HitStep

(* The send calls what it found, and is over.                              *)
LEMMA CallImpStep ==
  ASSUME Core, NEW t \in Threads, CallImp(t), build' = build
  PROVE  Core'
<1>0. TypeOK /\ pc \in [Threads -> Pcs] /\ r \in [Threads -> RegisterSet] BY DEF Core, TypeOK
<1>1. ReadOnly /\ pc[t] \notin Locked BY DEF CallImp, At, Locked
<1>2. pc' = [pc EXCEPT ![t] = "idle"] /\ r' = [r EXCEPT ![t] = Registers] BY DEF CallImp, Goto
<1>3. "idle" \in Pcs \ Locked /\ Registers \in RegisterSet BY <1>0, RegistersType DEF Pcs, Locked
<1>4. pc'[t] = "idle" /\ r'[t] = Registers BY <1>0, <1>2
<1>5. ~Dereferences(t)' /\ Allocated(t)' /\ Returns(t)'
  BY <1>4 DEF Dereferences, Allocated, Returns, At
<1>6. Reads(t)' BY <1>4, <1>5, Markers DEF Reads, At, Registers
<1> QED BY <1>1, <1>2, <1>3, <1>5, <1>6, ReaderStep, ZenonT(30)

(* A signal sends a search to the slow path.                               *)
LEMMA InterruptedStep ==
  ASSUME Core, NEW t \in Threads, Interrupted(t), build' = build
  PROVE  Core'
BY MissStep DEF Interrupted

-----------------------------------------------------------------------------
(* The writers.                                                            *)

(* What a writer may do to buckets that another thread is searching: fill  *)
(* a vacant one with an implementation that is in force.                   *)
Kept(b) ==
    /\ b \in DOMAIN mem' /\ DOMAIN mem'[b] = DOMAIN mem[b]
    /\ \A i \in DOMAIN mem[b] :
          \/ mem'[b][i] = mem[b][i]
          \/ /\ mem[b][i].sel \notin Selectors
             /\ mem'[b][i].sel \in Selectors =>
                   mem'[b][i].imp[2] >= settled'[mem'[b][i].sel] /\ mem'[b][i].imp[2] \in Nat

(* Only the thread with the lock is in a locked section.                   *)
LEMMA Exclusive ==
  ASSUME Core, NEW t \in Threads, runtimeLock \in {None, t}, NEW u \in Threads \ {t}
  PROVE  pc[u] \notin Locked
<1>1. None \notin Threads BY CacheAssumption
<1>2. Writes(u) BY DEF Core, ThreadOK
<1> QED BY <1>1, <1>2 DEF Writes

(* What a step of a writer leaves to the other threads.                    *)
LEMMA OthersKeep ==
  ASSUME Core, build' = build, settled' \in [Selectors -> Nat],
         \A s \in Selectors : settled'[s] >= settled[s],
         mask' \in Nat, mask' >= mask,
         NEW u \in Threads, pc[u] \notin Locked, pc'[u] = pc[u], r'[u] = r[u], runtimeLock' # u,
         Dereferences(u) => Kept(r[u].buckets)
  PROVE  ThreadOK(u)'
<1>0. Allocated(u) /\ Reads(u) /\ Returns(u) BY DEF Core, ThreadOK
<1>1. /\ r[u] \in RegisterSet /\ r[u].since \in Nat /\ r[u].mask \in Nat /\ mask \in Nat
      /\ settled \in [Selectors -> Nat]
  <2>1. r[u] \in RegisterSet /\ mask \in 0 .. MAX_CACHE_SIZE - 1 /\ settled \in [Selectors -> 0 .. MaxChanges]
    BY DEF Core, TypeOK
  <2>2. r[u].since \in 0 .. MaxChanges /\ r[u].mask \in 0 .. MAX_CACHE_SIZE - 1
    BY <2>1 DEF RegisterSet
  <2> QED BY <2>1, <2>2
<1>2. Dereferences(u)' <=> Dereferences(u) BY DEF Dereferences
<1>3. Allocated(u)' BY <1>0, <1>2 DEF Allocated, Kept
<1>4. Returns(u)' BY <1>0 DEF Returns, At
<1>5. r[u].sel \in Selectors => r[u].since <= settled'[r[u].sel]
  <2>1. ASSUME r[u].sel \in Selectors PROVE r[u].since <= settled'[r[u].sel]
    <3>1. r[u].since <= settled[r[u].sel] /\ settled'[r[u].sel] >= settled[r[u].sel]
      BY <1>0, <2>1 DEF Reads
    <3>2. settled[r[u].sel] \in Nat /\ settled'[r[u].sel] \in Nat BY <1>1, <2>1
    <3> QED BY <1>1, <3>1, <3>2
  <2> QED BY <2>1
<1>6. At(u, "loadBuckets") => r[u].mask <= mask'
  <2>1. At(u, "loadBuckets") => r[u].mask <= mask BY <1>0 DEF Reads
  <2> QED BY <1>1, <2>1
<1>7. ASSUME Dereferences(u)
      PROVE  /\ DOMAIN mem'[r[u].buckets] = DOMAIN mem[r[u].buckets]
             /\ \A i \in DOMAIN mem[r[u].buckets] : mem'[r[u].buckets][i].sel = r[u].sel =>
                   mem'[r[u].buckets][i].imp[2] >= r[u].since
             /\ Here(u).sel = r[u].sel => Here(u)' = Here(u)
  <2>1. Kept(r[u].buckets) /\ r[u].sel \in Selectors /\ r[u].i \in DOMAIN mem[r[u].buckets]
    BY <1>7, SearchFacts
  <2>2. ASSUME NEW i \in DOMAIN mem[r[u].buckets], mem'[r[u].buckets][i].sel = r[u].sel
        PROVE  mem'[r[u].buckets][i].imp[2] >= r[u].since
    <3>1. CASE mem'[r[u].buckets][i] = mem[r[u].buckets][i]
      BY <1>0, <1>7, <2>2, <3>1 DEF Reads
    <3>2. CASE mem'[r[u].buckets][i] # mem[r[u].buckets][i]
      <4> DEFINE n == mem'[r[u].buckets][i].imp[2]
      <4>1. n >= settled'[r[u].sel] /\ n \in Nat BY <2>1, <2>2, <3>2 DEF Kept
      <4>2. settled'[r[u].sel] \in Nat BY <2>1
      <4> HIDE DEF n
      <4>3. n >= r[u].since BY <1>1, <1>5, <2>1, <4>1, <4>2
      <4> QED BY <4>3 DEF n
    <3> QED BY <3>1, <3>2
  <2>3. Here(u).sel = r[u].sel => Here(u)' = Here(u) BY <2>1 DEF Here, Kept
  <2> QED BY <2>1, <2>2, <2>3 DEF Kept
<1>8. Reads(u)'
  BY <1>0, <1>2, <1>5, <1>6, <1>7, SameBuild DEF Reads, At, Dereferences
<1>9. Writes(u)' BY DEF Writes, At, Locked
<1> QED BY <1>3, <1>4, <1>8, <1>9 DEF ThreadOK

(* A thread in a locked section searches nothing and calls nothing.        *)
LEMMA LockedThread ==
  ASSUME NEW u, pc[u] \in Locked \cup {"idle", "relock"},
         r[u].sel \in Selectors => r[u].since <= settled[r[u].sel]
  PROVE  Allocated(u) /\ Reads(u) /\ Returns(u) /\ ~Dereferences(u)
BY DEF Allocated, Reads, Returns, Dereferences, At, Locked

(* A step of the thread that has the lock, takes it or returns it.         *)
LEMMA WriterStep ==
  ASSUME Core, NEW t \in Threads, build' = build,
         runtimeLock \in {None, t}, runtimeLock' \in {None, t},
         NEW l, pc' = [pc EXCEPT ![t] = l], NEW x, r' = [r EXCEPT ![t] = x],
         TypeOK', SharedOK', ThreadOK(t)',
         \A s \in Selectors : settled'[s] >= settled[s], mask' >= mask,
         \A u \in Threads \ {t} : Dereferences(u) => Kept(r[u].buckets)
  PROVE  Core'
<1>1. pc \in [Threads -> Pcs] /\ r \in [Threads -> RegisterSet] BY DEF Core, TypeOK
<1>2. \A u \in Threads \ {t} : pc'[u] = pc[u] /\ r'[u] = r[u] BY <1>1
<1>3. settled' \in [Selectors -> Nat] /\ mask' \in Nat
  <2>1. settled' \in [Selectors -> 0 .. MaxChanges] /\ mask' \in 0 .. MAX_CACHE_SIZE' - 1
    BY DEF TypeOK
  <2> QED BY <2>1
<1>4. ASSUME NEW u \in Threads \ {t} PROVE ThreadOK(u)'
  <2>1. pc[u] \notin Locked BY Exclusive
  <2>2. runtimeLock' # u BY CacheAssumption
  <2> QED BY <1>2, <1>3, <2>1, <2>2, OthersKeep
<1> QED BY <1>4 DEF Core

(* Buckets that are not touched are kept.                                  *)
LEMMA KeptSame ==
  ASSUME Core, mem' = mem, NEW u \in Threads, Dereferences(u)
  PROVE  Kept(r[u].buckets)
BY SearchFacts DEF Kept

(* Without the lock, or elsewhere, no change has yet to flush.             *)
LEMMA NotChanging ==
  ASSUME Core, NEW t \in Threads, runtimeLock \in {None, t},
         pc[t] \in {"erase", "setBuckets"} => r[t].op # "change", NEW s
  PROVE  ~Changing(s)
<1>1. \A u \in Threads \ {t} : pc[u] \notin Locked BY Exclusive
<1> QED BY <1>1 DEF Changing, Locked

(* A step of a writer that changes only its own registers.                 *)
LEMMA QuietStep ==
  ASSUME Core, NEW t \in Threads, build' = build, UNCHANGED <<mem, cache, trash, methods>>,
         runtimeLock \in {None, t}, runtimeLock' = t, pc[t] # "setMask",
         NEW l \in Locked, pc' = [pc EXCEPT ![t] = l],
         NEW x \in RegisterSet, r' = [r EXCEPT ![t] = x],
         x.sel \in Selectors => x.since <= settled[x.sel],
         Writes(t)',
         Entries = {} \/ \A s : Changing(s) => Changing(s)'
  PROVE  Core'
<1> USE DEF cache, trash, methods
<1>0. TypeOK /\ pc \in [Threads -> Pcs] /\ r \in [Threads -> RegisterSet] BY DEF Core, TypeOK
<1>1. pc'[t] = l /\ r'[t] = x BY <1>0
<1>2. TypeOK'
  <2>1. RegisterSet' = RegisterSet BY SameRegisters
  <2>2. r' \in [Threads -> RegisterSet] /\ pc' \in [Threads -> Pcs] BY <1>0 DEF Pcs
  <2>3. runtimeLock' \in Threads \cup {None} OBVIOUS
  <2> QED BY <1>0, <2>1, <2>2, <2>3, SameBuild DEF TypeOK
<1>3. Entries' = Entries BY DEF Entries
<1>4. SharedOK'
  <2>1. \A b \in DOMAIN mem : BucketsOK(b)'
    <3>1. \A b \in DOMAIN mem : BucketsOK(b) BY DEF Core, SharedOK
    <3> QED BY <3>1, SameBuild DEF BucketsOK
  <2>2. CacheOK'
    <3>1. \A w \in Threads : ~At(w, "setMask")
      BY Exclusive DEF At, Locked
    <3> QED BY <1>3, <3>1 DEF Core, SharedOK, CacheOK
  <2>3. EntriesFresh' BY <1>3 DEF Core, SharedOK, EntriesFresh
  <2> QED BY <2>1, <2>2, <2>3 DEF Core, SharedOK
<1>5. ThreadOK(t)'
  <2>1. (Allocated(t) /\ Reads(t) /\ Returns(t))'
    BY <1>1 DEF Allocated, Reads, Returns, Dereferences, At, Locked
  <2> QED BY <2>1 DEF ThreadOK
<1>6. \A s \in Selectors : settled'[s] >= settled[s]
  <2>1. settled \in [Selectors -> 0 .. MaxChanges] BY <1>0 DEF TypeOK
  <2> QED BY <2>1
<1>7. mask' >= mask
  <2>1. mask \in 0 .. MAX_CACHE_SIZE - 1 BY <1>0 DEF TypeOK
  <2> QED BY <2>1
<1> QED BY <1>2, <1>4, <1>5, <1>6, <1>7, KeptSame, WriterStep, ZenonT(30)

(* The slow path looks the implementation up with the lock held.           *)
LEMMA LookUpStep ==
  ASSUME Core, NEW t \in Threads, lookUpImpOrForward(t), build' = build
  PROVE  Core'
<1> DEFINE x == [Registers EXCEPT !.op = "insert", !.sel = r[t].sel,
                                  !.since = r[t].since, !.imp = lookUpImp(t)]
<1>0. TypeOK /\ pc \in [Threads -> Pcs] /\ r \in [Threads -> RegisterSet] /\ r[t] \in RegisterSet
      /\ imps \in [Selectors -> 0 .. MaxChanges]
  BY DEF Core, TypeOK
<1>1. Reads(t) /\ pc[t] = "slow" BY DEF Core, ThreadOK, lookUpImpOrForward, At
<1>2. r[t].sel \in Selectors /\ r[t].since <= settled[r[t].sel] BY <1>1 DEF Reads
<1>3. lookUpImp(t) = <<r[t].sel, imps[r[t].sel]>> /\ lookUpImp(t) \in Imps
  BY <1>0, <1>2 DEF lookUpImp, Imps
<1>4. x \in RegisterSet BY <1>0, <1>3, RegistersType, ZenonT(30) DEF RegisterSet
<1>5. x.op = "insert" /\ x.sel = r[t].sel /\ x.since = r[t].since /\ x.imp = lookUpImp(t)
  BY DEF Registers
<1>6. /\ pc' = [pc EXCEPT ![t] = "insert"] /\ r' = [r EXCEPT ![t] = x]
      /\ UNCHANGED <<mem, cache, trash, methods>> /\ runtimeLock = None /\ runtimeLock' = t
  BY DEF lookUpImpOrForward, Goto, Lock
<1> HIDE DEF x
<1>7. pc'[t] = "insert" /\ r'[t] = x /\ imps' = imps BY <1>0, <1>6 DEF methods
<1>8. Writes(t)' BY <1>2, <1>3, <1>5, <1>6, <1>7 DEF Writes, At, Locked
<1>9. \A s : ~Changing(s) BY <1>1, <1>6, NotChanging
<1>10. "insert" \in Locked BY DEF Locked
<1> QED BY <1>1, <1>2, <1>4, <1>5, <1>6, <1>8, <1>9, <1>10, QuietStep, ZenonT(30)

(* A flush of all caches starts.                                           *)
LEMMA FlushStep ==
  ASSUME Core, NEW t \in Threads, _objc_flush_caches(t), build' = build
  PROVE  Core'
<1> DEFINE x == [Registers EXCEPT !.op = "flush"]
<1>0. TypeOK /\ pc \in [Threads -> Pcs] /\ r \in [Threads -> RegisterSet] BY DEF Core, TypeOK
<1>1. x \in RegisterSet BY <1>0, RegistersType DEF RegisterSet
<1>2. x.op = "flush" /\ x.sel = Nil BY DEF Registers
<1>3. /\ pc' = [pc EXCEPT ![t] = "erase"] /\ r' = [r EXCEPT ![t] = x] /\ pc[t] = "idle"
      /\ UNCHANGED <<mem, cache, trash, methods>> /\ runtimeLock = None /\ runtimeLock' = t
  BY DEF _objc_flush_caches, Goto, Lock, At
<1> HIDE DEF x
<1>4. pc'[t] = "erase" /\ r'[t] = x BY <1>0, <1>3
<1>5. Writes(t)' BY <1>2, <1>3, <1>4 DEF Writes, At, Locked
<1>6. \A s : ~Changing(s) BY <1>3, NotChanging
<1>7. "erase" \in Locked BY DEF Locked
<1> QED BY <1>1, <1>2, <1>3, <1>5, <1>6, <1>7, Markers, QuietStep, ZenonT(30)

(* The collection at the end of a flush starts with all threads to check.  *)
LEMMA CollectALotStep ==
  ASSUME Core, NEW t \in Threads, CollectALot(t), build' = build
  PROVE  Core'
<1> DEFINE x == [Registers EXCEPT !.op = "collectALot", !.unchecked = Threads \ {t}]
<1>0. TypeOK /\ pc \in [Threads -> Pcs] /\ r \in [Threads -> RegisterSet] BY DEF Core, TypeOK
<1>1. x \in RegisterSet BY <1>0, RegistersType, ZenonT(30) DEF RegisterSet
<1>2. x.op = "collectALot" /\ x.sel = Nil /\ x.unchecked = Threads \ {t} BY DEF Registers
<1>3. /\ pc' = [pc EXCEPT ![t] = "collect"] /\ r' = [r EXCEPT ![t] = x] /\ pc[t] = "relock"
      /\ UNCHANGED <<mem, cache, trash, methods>> /\ runtimeLock = None /\ runtimeLock' = t
  BY DEF CollectALot, Goto, Lock, At
<1> HIDE DEF x
<1>4. pc'[t] = "collect" /\ r'[t] = x BY <1>0, <1>3
<1>5. Writes(t)' BY <1>2, <1>3, <1>4 DEF Writes, At, Locked
<1>6. \A s : ~Changing(s) BY <1>3, NotChanging
<1>7. "collect" \in Locked BY DEF Locked
<1> QED BY <1>1, <1>2, <1>3, <1>5, <1>6, <1>7, Markers, QuietStep, ZenonT(30)

(* The thread in a locked section.                                         *)
LEMMA Holder ==
  ASSUME Core, NEW t \in Threads, pc[t] \in Locked
  PROVE  /\ runtimeLock = t /\ Writes(t) /\ r[t] \in RegisterSet /\ ~Dereferences(t)
         /\ r[t].sel \in Selectors => r[t].since <= settled[r[t].sel]
         /\ pc \in [Threads -> Pcs] /\ r \in [Threads -> RegisterSet]
         /\ \A u \in Threads \ {t} : pc[u] \notin Locked
<1>1. Writes(t) /\ Reads(t) BY DEF Core, ThreadOK
<1>2. runtimeLock = t BY <1>1 DEF Writes
<1>3. \A u \in Threads \ {t} : pc[u] \notin Locked BY <1>2, Exclusive
<1> QED BY <1>1, <1>2, <1>3 DEF Core, TypeOK, Reads, Dereferences, Locked

(* Buckets with entries are the class's own.                               *)
LEMMA OwnBuckets ==
  ASSUME Core, NEW t \in Threads, pc[t] \in Locked \ {"setMask"}, occupied # 0
  PROVE  buckets # Empty
<1>1. \A u \in Threads : ~At(u, "setMask") BY Holder DEF At, Locked
<1> QED BY <1>1 DEF Core, SharedOK, CacheOK

(* eraseNolock puts the shared empty buckets in place of full ones.        *)
LEMMA EraseStep ==
  ASSUME Core, NEW t \in Threads, eraseNolock(t), build' = build
  PROVE  Core'
<1>0. pc[t] = "erase" /\ pc[t] \in Locked /\ UNCHANGED <<mem, cache, trash, methods, runtimeLock>>
  BY DEF eraseNolock, At, Locked
<1>1. /\ runtimeLock = t /\ Writes(t) /\ r[t] \in RegisterSet
      /\ r[t].sel \in Selectors => r[t].since <= settled[r[t].sel]
      /\ pc \in [Threads -> Pcs] /\ r \in [Threads -> RegisterSet]
      /\ \A u \in Threads \ {t} : pc[u] \notin Locked
  BY <1>0, Holder
<1>2. mem' = mem /\ buckets' = buckets /\ mask' = mask /\ garbage' = garbage /\ runtimeLock' = t
      /\ imps' = imps
  BY <1>0, <1>1 DEF cache, trash, methods
<1>3. r[t].op # "insert" /\ (r[t].op = "change" => r[t].sel \in Selectors) BY <1>0, <1>1 DEF Writes, At
<1>4. CASE occupied > 0
  <2> DEFINE x == [r[t] EXCEPT !.buckets = Empty, !.mask = mask, !.old = buckets]
  <2>1. pc' = [pc EXCEPT ![t] = "setBuckets"] /\ r' = [r EXCEPT ![t] = x]
    BY <1>1, <1>4, ZenonT(30) DEF eraseNolock, Goto
  <2>2. /\ buckets \in DOMAIN mem \ garbage /\ mask \in 0 .. MAX_CACHE_SIZE - 1
        /\ DOMAIN mem \subseteq Buffers \cup {Empty} /\ Empty \notin garbage
        /\ mem[Empty] = [i \in 0 .. MAX_CACHE_SIZE - 1 |-> Vacant] /\ occupied \in Nat
    BY DEF Core, TypeOK
  <2>a. Empty \in DOMAIN mem
    BY <2>2 DEF Core, TypeOK
  <2>3. buckets # Empty
    <3>1. occupied # 0 BY <1>4, <2>2
    <3> QED BY <1>0, <3>1, OwnBuckets
  <2>4. x \in RegisterSet BY <1>1, <2>2, <2>3, ZenonT(30) DEF RegisterSet
  <2>5. x.sel = r[t].sel /\ x.since = r[t].since /\ x.op = r[t].op
        /\ x.buckets = Empty /\ x.mask = mask /\ x.old = buckets
    BY <1>1 DEF RegisterSet
  <2> HIDE DEF x
  <2>6. pc'[t] = "setBuckets" /\ r'[t] = x BY <1>1, <2>1
  <2>7. 0 .. mask \subseteq DOMAIN mem[Empty] /\ mask >= mask
    <3>1. MAX_CACHE_SIZE \in Nat BY BuildFacts DEF Core
    <3>2. 0 .. mask \subseteq 0 .. MAX_CACHE_SIZE - 1 /\ mask >= mask BY <2>2, <3>1
    <3> QED BY <2>2, <3>2
  <2>8. \A i \in DOMAIN mem[Empty] : mem[Empty][i].sel \notin Selectors
    BY <2>2, Markers DEF Vacant, Bucket
  <2>9. Writes(t)'
    BY <1>2, <1>3, <2>2, <2>a, <2>3, <2>5, <2>6, <2>7, <2>8, ZenonT(30) DEF Writes, At, Locked
  <2>10. \A s : Changing(s) => Changing(s)'
    BY <1>1, <2>5, <2>6 DEF Changing, Locked
  <2>11. "setBuckets" \in Locked BY DEF Locked
  <2> QED BY <1>0, <1>1, <1>2, <2>1, <2>4, <2>5, <2>9, <2>10, <2>11, QuietStep, ZenonT(30)
<1>5. CASE ~(occupied > 0)
  <2>1. pc' = [pc EXCEPT ![t] = "unlock"] /\ r' = [r EXCEPT ![t] = r[t]]
    BY <1>1, <1>5 DEF eraseNolock, Goto
  <2>2. pc'[t] = "unlock" /\ r'[t] = r[t] BY <1>1, <2>1
  <2>3. Writes(t)' BY <1>2, <1>3, <2>2 DEF Writes, At, Locked
  <2>4. occupied \in Nat BY DEF Core, TypeOK
  <2>5. occupied = 0 BY <1>5, <2>4
  <2>6. Entries = {} BY <2>5 DEF Core, SharedOK, CacheOK
  <2>7. "unlock" \in Locked BY DEF Locked
  <2> QED BY <1>0, <1>1, <1>2, <2>1, <2>3, <2>6, <2>7, QuietStep, ZenonT(30)
<1> QED BY <1>4, <1>5

(* The collector looks at a thread.  One that is in no search is passed;   *)
(* when it searches again, it is with the current buckets.                 *)
LEMMA CheckThreadStep ==
  ASSUME Core, NEW t \in Threads, NEW v \in Threads, CheckThread(t, v), build' = build
  PROVE  Core'
<1>0. pc[t] = "collect" /\ pc[t] \in Locked /\ UNCHANGED <<mem, cache, trash, methods, runtimeLock>>
  BY DEF CheckThread, At, Locked
<1>1. /\ runtimeLock = t /\ Writes(t) /\ r[t] \in RegisterSet /\ ~Dereferences(t)
      /\ r[t].sel \in Selectors => r[t].since <= settled[r[t].sel]
      /\ pc \in [Threads -> Pcs] /\ r \in [Threads -> RegisterSet]
      /\ \A u \in Threads \ {t} : pc[u] \notin Locked
  BY <1>0, Holder
<1>2. mem' = mem /\ buckets' = buckets /\ garbage' = garbage /\ runtimeLock' = t /\ imps' = imps
  BY <1>0, <1>1 DEF cache, trash, methods
<1>3. \A s : ~Changing(s) BY <1>0, <1>1, NotChanging
<1>4. ASSUME NEW l \in {"collect", "place", "unlock"}, NEW S \in SUBSET Threads,
             pc' = [pc EXCEPT ![t] = l], r' = [r EXCEPT ![t] = [r[t] EXCEPT !.unchecked = S]],
             l = "place" => r[t].op = "insert",
             l = "collect" => \A u \in Threads \ (S \cup {t}) : Dereferences(u) => r[u].buckets \notin garbage
      PROVE  Core'
  <2> DEFINE x == [r[t] EXCEPT !.unchecked = S]
  <2>1. x \in RegisterSet BY <1>1 DEF RegisterSet
  <2>2. x.sel = r[t].sel /\ x.since = r[t].since /\ x.op = r[t].op /\ x.imp = r[t].imp
        /\ x.unchecked = S
    BY <1>1 DEF RegisterSet
  <2>3. r' = [r EXCEPT ![t] = x] BY <1>4
  <2> HIDE DEF x
  <2>4. pc'[t] = l /\ r'[t] = x BY <1>1, <1>4, <2>3
  <2>5. \A u \in Threads \ {t} : pc'[u] = pc[u] /\ r'[u] = r[u] BY <1>1, <1>4
  <2>6. l = "collect" => \A u \in Threads \ (S \cup {t}) : Dereferences(u)' => r'[u].buckets \notin garbage
    BY <1>4, <2>5 DEF Dereferences
  <2>7. Writes(t)'
    BY <1>0, <1>1, <1>2, <1>4, <2>2, <2>4, <2>6 DEF Writes, At, Locked
  <2>8. l \in Locked BY DEF Locked
  <2> QED BY <1>0, <1>1, <1>2, <1>3, <1>4, <2>1, <2>2, <2>3, <2>7, <2>8, QuietStep, ZenonT(30)
<1>5. pc = [pc EXCEPT ![t] = "collect"] BY <1>0, <1>1
<1>6. PICK busy \in {TRUE, Critical(v)} :
        \/ ~busy /\ r' = [r EXCEPT ![t] = [r[t] EXCEPT !.unchecked = r[t].unchecked \ {v}]] /\ pc' = pc
        \/ r' = [r EXCEPT ![t] = [r[t] EXCEPT !.unchecked = Threads \ {t}]] /\ pc' = pc
        \/ /\ r' = [r EXCEPT ![t] = [r[t] EXCEPT !.unchecked = {}]]
           /\ pc' = [pc EXCEPT ![t] = AfterFree(t)]
  BY <1>1, ZenonT(30) DEF CheckThread, Goto
<1>7. CASE ~busy /\ r' = [r EXCEPT ![t] = [r[t] EXCEPT !.unchecked = r[t].unchecked \ {v}]] /\ pc' = pc
  <2>1. r[t].unchecked \ {v} \in SUBSET Threads BY <1>1 DEF RegisterSet
  <2>2. ~Dereferences(v) BY <1>6, <1>7, ZenonT(30) DEF Critical, Dereferences
  <2>3. \A u \in Threads \ ((r[t].unchecked \ {v}) \cup {t}) : Dereferences(u) => r[u].buckets \notin garbage
    BY <1>0, <1>1, <2>2 DEF Writes, At
  <2>4. r' = [r EXCEPT ![t] = [r[t] EXCEPT !.unchecked = r[t].unchecked \ {v}]] BY <1>7
  <2>5. pc' = [pc EXCEPT ![t] = "collect"] BY <1>5, <1>7
  <2> QED BY <1>4, <2>1, <2>3, <2>4, <2>5, ZenonT(30)
<1>8. CASE r' = [r EXCEPT ![t] = [r[t] EXCEPT !.unchecked = Threads \ {t}]] /\ pc' = pc
  <2>1. pc' = [pc EXCEPT ![t] = "collect"] BY <1>5, <1>8
  <2>2. Threads \ {t} \in SUBSET Threads OBVIOUS
  <2>3. Threads \ ((Threads \ {t}) \cup {t}) = {} OBVIOUS
  <2> QED BY <1>4, <1>8, <2>1, <2>2, <2>3, ZenonT(30)
<1>9. CASE /\ r' = [r EXCEPT ![t] = [r[t] EXCEPT !.unchecked = {}]]
           /\ pc' = [pc EXCEPT ![t] = AfterFree(t)]
  <2>1. AfterFree(t) \in {"collect", "place", "unlock"} /\ AfterFree(t) # "collect"
        /\ (AfterFree(t) = "place" => r[t].op = "insert")
    BY DEF AfterFree
  <2>2. {} \in SUBSET Threads OBVIOUS
  <2> QED BY <1>4, <1>9, <2>1, <2>2, ZenonT(30)
<1> QED BY <1>6, <1>7, <1>8, <1>9

-----------------------------------------------------------------------------
(* Filling the cache.                                                      *)

(* Buckets that are not touched keep their shape while implementations get *)
(* newer.                                                                  *)
LEMMA SameBuffer ==
  ASSUME Core, build' = build, imps' \in [Selectors -> Nat], \A s \in Selectors : imps[s] <= imps'[s],
         NEW b \in DOMAIN mem, mem'[b] = mem[b]
  PROVE  BucketsOK(b)'
<1>1. BucketsOK(b) BY BufferFacts
<1>2. ASSUME NEW s \in Selectors PROVE {s} \X (0 .. imps[s]) \subseteq {s} \X (0 .. imps'[s])
  <2>1. imps[s] \in 0 .. MaxChanges BY DEF Core, TypeOK
  <2>2. 0 .. imps[s] \subseteq 0 .. imps'[s] BY <2>1
  <2> QED BY <2>2
<1>3. \A i \in DOMAIN mem[b] :
        /\ mem[b][i] \in [sel: Selectors \cup {Nil, End}, imp: Imps \cup {None}]
        /\ mem[b][i].sel \in Selectors => mem[b][i].imp \in {mem[b][i].sel} \X (0 .. imps'[mem[b][i].sel])
  BY <1>1, <1>2 DEF BucketsOK
<1>4. \E n \in 1 .. MAX_CACHE_SIZE :
        /\ DOMAIN mem[b] = 0 .. n - 1
        /\ \A i \in 0 .. n - 1: mem[b][i].sel = End <=> ~Packed /\ b # Empty /\ i = n - 1
  BY <1>1 DEF BucketsOK
<1> QED BY <1>3, <1>4, SameBuild DEF BucketsOK

(* The cache in use stays as it is.                                        *)
LEMMA SameCache ==
  ASSUME Core, NEW t \in Threads, pc[t] \in Locked \ {"setMask"},
         UNCHANGED <<cache, methods>>, mem'[buckets] = mem[buckets],
         \A s : ~Changing(s)
  PROVE  CacheOK' /\ EntriesFresh' /\ \A s \in Selectors : settled'[s] <= imps'[s]
<1> USE DEF cache, methods
<1>1. Entries' = Entries BY DEF Entries
<1>2. \A u \in Threads : ~At(u, "setMask") BY Holder DEF At, Locked
<1>3. CacheOK' BY <1>1, <1>2 DEF Core, SharedOK, CacheOK
<1>4. EntriesFresh' BY <1>1 DEF Core, SharedOK, EntriesFresh
<1> QED BY <1>3, <1>4 DEF Core, SharedOK

(* What stays the same in the type invariant.                              *)
LEMMA NumbersStay ==
  ASSUME Core, UNCHANGED <<cache, methods>>
  PROVE  /\ imps' \in [Selectors -> Nat] /\ \A s \in Selectors : imps[s] <= imps'[s]
         /\ \A s \in Selectors : settled'[s] >= settled[s] /\ mask' >= mask
<1>1. imps \in [Selectors -> 0 .. MaxChanges] /\ settled \in [Selectors -> 0 .. MaxChanges]
      /\ mask \in 0 .. MAX_CACHE_SIZE - 1
  BY DEF Core, TypeOK
<1>2. imps' = imps /\ settled' = settled /\ mask' = mask BY DEF cache, methods
<1> QED BY <1>1, <1>2

(* Buckets as allocateBuckets makes them.                                  *)
LEMMA NewBuckets ==
  ASSUME TypeOK, NEW n \in 1 .. MAX_CACHE_SIZE
  PROVE  /\ DOMAIN allocateBuckets(n) = 0 .. n - 1
         /\ \A i \in 0 .. n - 1 :
              /\ allocateBuckets(n)[i] \in [sel: Selectors \cup {Nil, End}, imp: Imps \cup {None}]
              /\ allocateBuckets(n)[i].sel \notin Selectors
              /\ allocateBuckets(n)[i].sel = End <=> ~Packed /\ i = n - 1
BY Markers, BuildFacts DEF allocateBuckets, Vacant, Bucket

(* New buckets are allocated, for the writer alone.                        *)
LEMMA ReallocateStep ==
  ASSUME Core, NEW t \in Threads, pc[t] = "insert", NEW n \in 1 .. MAX_CACHE_SIZE, n - 1 >= mask,
         NEW old \in {None, buckets}, buckets # Empty \/ old = None,
         reallocate(t, n, old), UNCHANGED <<cache, trash, methods, runtimeLock>>, build' = build
  PROVE  Core'
<1> USE DEF cache, trash, methods
<1>0. pc[t] \in Locked \ {"setMask"} /\ pc[t] \in Locked BY DEF Locked
<1>1. /\ runtimeLock = t /\ Writes(t) /\ r[t] \in RegisterSet /\ ~Dereferences(t)
      /\ r[t].sel \in Selectors => r[t].since <= settled[r[t].sel]
      /\ pc \in [Threads -> Pcs] /\ r \in [Threads -> RegisterSet]
  BY <1>0, Holder
<1>2. PICK b \in Buffers \ DOMAIN mem :
        /\ mem' = [y \in DOMAIN mem \cup {b} |-> IF y = b THEN allocateBuckets(n) ELSE mem[y]]
        /\ r' = [r EXCEPT ![t].buckets = b, ![t].mask = n - 1, ![t].old = old]
        /\ pc' = [pc EXCEPT ![t] = "setBuckets"]
  BY ZenonT(30) DEF reallocate, Goto
<1>3. DOMAIN mem' = DOMAIN mem \cup {b} /\ mem'[b] = allocateBuckets(n)
      /\ \A y \in DOMAIN mem : mem'[y] = mem[y]
  BY <1>2
<1>4. TypeOK /\ MAX_CACHE_SIZE \in Nat \ {0} /\ n \in Nat /\ n - 1 \in 0 .. MAX_CACHE_SIZE - 1
  <2>1. TypeOK BY DEF Core
  <2>2. MAX_CACHE_SIZE \in Nat \ {0} BY <2>1, BuildFacts
  <2> QED BY <2>1, <2>2
<1>5. /\ buckets \in DOMAIN mem \ garbage /\ garbage \subseteq DOMAIN mem \ {Empty}
      /\ Empty \in DOMAIN mem /\ DOMAIN mem \subseteq Buffers \cup {Empty}
      /\ b # Empty /\ b # buckets /\ b \notin garbage
  BY <1>4, Markers DEF TypeOK
<1> DEFINE x == [r[t] EXCEPT !.buckets = b, !.mask = n - 1, !.old = old]
<1>6. x \in RegisterSet BY <1>1, <1>4, <1>5, ZenonT(30) DEF RegisterSet
<1>7. x.sel = r[t].sel /\ x.since = r[t].since /\ x.op = r[t].op /\ x.imp = r[t].imp
      /\ x.buckets = b /\ x.mask = n - 1 /\ x.old = old
  BY <1>1 DEF RegisterSet
<1>8. r' = [r EXCEPT ![t] = x] BY <1>1, <1>2, ZenonT(30)
<1> HIDE DEF x
<1>9. pc'[t] = "setBuckets" /\ r'[t] = x BY <1>1, <1>2, <1>8, ZenonT(30)
<1>10. TypeOK'
  <2>1. RegisterSet' = RegisterSet BY SameRegisters
  <2>2. r' \in [Threads -> RegisterSet] /\ pc' \in [Threads -> Pcs]
    BY <1>1, <1>2, <1>6, <1>8, ZenonT(30) DEF Pcs, Locked
  <2>3. mem'[Empty] = [i \in 0 .. MAX_CACHE_SIZE - 1 |-> Vacant] BY <1>3, <1>4, <1>5 DEF TypeOK
  <2> QED BY <1>3, <1>4, <1>5, <2>1, <2>2, <2>3, SameBuild DEF TypeOK
<1>11. DOMAIN mem'[b] = 0 .. n - 1 /\ \A i \in DOMAIN mem'[b] : mem'[b][i].sel \notin Selectors
  BY <1>3, <1>4, NewBuckets
<1>12. \A y \in DOMAIN mem' : BucketsOK(y)'
  <2>1. ASSUME NEW y \in DOMAIN mem PROVE BucketsOK(y)'
    BY <1>3, SameBuffer, NumbersStay
  <2>2. BucketsOK(b)'
    <3>1. Packed' <=> Packed BY DEF Packed
    <3>2. \A i \in 0 .. n - 1 : mem'[b][i].sel = End <=> ~Packed' /\ b # Empty /\ i = n - 1
      BY <1>3, <1>4, <1>5, <3>1, NewBuckets
    <3>3. n \in 1 .. MAX_CACHE_SIZE' BY SameBuild
    <3>4. \A i \in 0 .. n - 1 : mem'[b][i].sel \notin Selectors
            /\ mem'[b][i] \in [sel: Selectors \cup {Nil, End}, imp: Imps \cup {None}]
      BY <1>3, <1>4, NewBuckets
    <3> QED BY <1>11, <3>2, <3>3, <3>4 DEF BucketsOK
  <2> QED BY <1>3, <2>1, <2>2
<1>13. \A s : ~Changing(s) BY <1>0, <1>1, NotChanging
<1>14. SharedOK' BY <1>0, <1>3, <1>5, <1>12, <1>13, SameCache DEF SharedOK
<1>15. 0 .. n - 1 = 0 .. x.mask BY <1>7
<1>16. r[t].op = "insert" /\ r[t].sel \in Selectors /\ r[t].imp = <<r[t].sel, imps[r[t].sel]>>
  BY <1>0, <1>1 DEF Writes, At
<1>17. Writes(t)'
  BY <1>1, <1>3, <1>5, <1>7, <1>9, <1>11, <1>15, <1>16 DEF Writes, At, Locked
<1>18. ThreadOK(t)'
  <2>1. (Allocated(t) /\ Reads(t) /\ Returns(t))'
    BY <1>1, <1>7, <1>9 DEF Allocated, Reads, Returns, Dereferences, At
  <2> QED BY <1>17, <2>1 DEF ThreadOK
<1>19. \A u \in Threads \ {t} : Dereferences(u) => Kept(r[u].buckets)
  BY <1>3, SearchFacts DEF Kept
<1>20. (\A s \in Selectors : settled'[s] >= settled[s]) /\ mask' >= mask
  <2>1. settled \in [Selectors -> 0 .. MaxChanges] /\ mask \in 0 .. MAX_CACHE_SIZE - 1 BY <1>4 DEF TypeOK
  <2> QED BY <2>1
<1> QED BY <1>1, <1>2, <1>8, <1>10, <1>14, <1>18, <1>19, <1>20, WriterStep, ZenonT(30)

(* The smaller of two numbers.                                             *)
LEMMA MinOfTwo ==
  ASSUME NEW a \in Nat, NEW b \in Nat
  PROVE  Min({a, b}) \in {a, b} /\ Min({a, b}) <= a /\ Min({a, b}) <= b
<1>1. \E x \in {a, b} : \A y \in {a, b} : x <= y
  <2>1. CASE a <= b BY <2>1
  <2>2. CASE ~(a <= b) BY <2>2
  <2> QED BY <2>1, <2>2
<1>2. Min({a, b}) \in {a, b} /\ \A y \in {a, b} : Min({a, b}) <= y
  BY <1>1 DEF Min
<1> QED BY <1>2

(* The sizes that insert asks for hold the old mask.                       *)
LEMMA SizesGrow ==
  ASSUME Core
  PROVE  /\ (IF capacity = 0 THEN INIT_CACHE_SIZE ELSE capacity) \in 1 .. MAX_CACHE_SIZE
         /\ (IF capacity = 0 THEN INIT_CACHE_SIZE ELSE capacity) - 1 >= mask
         /\ Larger \in 1 .. MAX_CACHE_SIZE /\ Larger - 1 >= mask
<1>1. /\ INIT_CACHE_SIZE \in Nat \ {0} /\ MAX_CACHE_SIZE \in Nat \ {0}
      /\ INIT_CACHE_SIZE <= MAX_CACHE_SIZE /\ mask \in 0 .. MAX_CACHE_SIZE - 1
  BY BuildFacts DEF Core, TypeOK
<1>2. CASE mask = 0
  <2>1. capacity = 0 BY <1>2 DEF capacity
  <2> QED BY <1>1, <1>2, <2>1 DEF Larger
<1>3. CASE mask # 0
  <2>1. capacity = mask + 1 /\ capacity # 0 /\ capacity \in 1 .. MAX_CACHE_SIZE /\ capacity * 2 \in Nat
    BY <1>1, <1>3 DEF capacity
  <2> DEFINE m == Min({capacity * 2, MAX_CACHE_SIZE})
  <2>2. m \in {capacity * 2, MAX_CACHE_SIZE} /\ m <= MAX_CACHE_SIZE BY <1>1, <2>1, MinOfTwo
  <2>3. Larger = m BY <2>1 DEF Larger
  <2> HIDE DEF m
  <2>4. m \in 1 .. MAX_CACHE_SIZE /\ m - 1 >= mask BY <1>1, <2>1, <2>2
  <2>5. capacity - 1 >= mask BY <1>1, <2>1
  <2> QED BY <2>1, <2>3, <2>4, <2>5
<1> QED BY <1>2, <1>3

(* insert goes on to a bucket, or to new buckets.                          *)
LEMMA InsertStep ==
  ASSUME Core, NEW t \in Threads, insert(t), build' = build
  PROVE  Core'
<1>0. pc[t] = "insert" /\ pc[t] \in Locked /\ UNCHANGED <<cache, trash, methods, runtimeLock>>
      /\ pc[t] \in Locked \ {"setMask"}
  BY DEF insert, At, Locked
<1>1. /\ runtimeLock = t /\ Writes(t) /\ r[t] \in RegisterSet
      /\ r[t].sel \in Selectors => r[t].since <= settled[r[t].sel]
      /\ pc \in [Threads -> Pcs] /\ r \in [Threads -> RegisterSet]
  BY <1>0, Holder
<1>2. ~isConstantEmptyCache => buckets # Empty BY <1>0, OwnBuckets DEF isConstantEmptyCache
<1>3. CASE isConstantEmptyCache
  <2>1. reallocate(t, IF capacity = 0 THEN INIT_CACHE_SIZE ELSE capacity, None)
    BY <1>3 DEF insert
  <2> QED BY <1>0, <2>1, SizesGrow, ReallocateStep
<1>4. CASE ~isConstantEmptyCache /\ ~FitsCapacity(occupied + 1)
  <2>1. reallocate(t, Larger, buckets) BY <1>4 DEF insert
  <2> QED BY <1>0, <1>2, <1>4, <2>1, SizesGrow, ReallocateStep
<1>5. CASE ~isConstantEmptyCache /\ FitsCapacity(occupied + 1)
  <2>1. pc' = [pc EXCEPT ![t] = "place"] /\ r' = [r EXCEPT ![t] = r[t]] /\ mem' = mem /\ r' = r
    BY <1>1, <1>5 DEF insert, Goto
  <2>2. pc'[t] = "place" BY <1>1, <2>1
  <2>3. buckets' = buckets /\ imps' = imps /\ runtimeLock' = t BY <1>0, <1>1 DEF cache, methods
  <2>4. r[t].op = "insert" /\ r[t].sel \in Selectors /\ r[t].imp = <<r[t].sel, imps[r[t].sel]>>
    BY <1>0, <1>1 DEF Writes, At
  <2>5. Writes(t)' BY <1>2, <1>5, <2>1, <2>2, <2>3, <2>4 DEF Writes, At, Locked
  <2>6. \A s : ~Changing(s) BY <1>0, <1>1, NotChanging
  <2>7. "place" \in Locked BY DEF Locked
  <2>8. UNCHANGED <<mem, cache, trash, methods>> BY <1>0, <2>1
  <2> QED BY <1>0, <1>1, <2>1, <2>3, <2>5, <2>6, <2>7, <2>8, QuietStep, ZenonT(30)
<1> QED BY <1>3, <1>4, <1>5

(* The buckets, and on arm64 the mask with them, are replaced.             *)
LEMMA SetStep ==
  ASSUME Core, NEW t \in Threads, pc[t] \in {"setBuckets", "setMask"},
         UNCHANGED <<mem, trash, imps, settled, runtimeLock, r>>, build' = build,
         missed' \subseteq missed,
         NEW l, pc' = [pc EXCEPT ![t] = l], buckets' = r[t].buckets,
         \/ mask' = r[t].mask /\ occupied' = 0 /\ l = AfterSet(t)
         \/ mask' = mask /\ occupied' = occupied /\ l = "setMask" /\ pc[t] = "setBuckets"
  PROVE  Core'
<1> USE DEF trash
<1>0. pc[t] \in Locked BY DEF Locked
<1>1. /\ runtimeLock = t /\ Writes(t) /\ r[t] \in RegisterSet /\ ~Dereferences(t)
      /\ r[t].sel \in Selectors => r[t].since <= settled[r[t].sel]
      /\ pc \in [Threads -> Pcs] /\ r \in [Threads -> RegisterSet]
  BY <1>0, Holder
<1>2. /\ r[t].buckets \in DOMAIN mem \ garbage
      /\ \A i \in DOMAIN mem[r[t].buckets]: mem[r[t].buckets][i].sel \notin Selectors
      /\ 0 .. r[t].mask \subseteq DOMAIN mem[r[t].buckets] /\ r[t].mask >= mask
      /\ r[t].op = "insert" => r[t].buckets # Empty
      /\ r[t].op = "insert" => r[t].sel \in Selectors /\ r[t].imp = <<r[t].sel, imps[r[t].sel]>>
      /\ r[t].old # None => r[t].old \in DOMAIN mem \ (garbage \cup {Empty})
      /\ r[t].old # None => r[t].old # r[t].buckets
  BY <1>0, <1>1 DEF Writes, At
<1>3. mask \in 0 .. MAX_CACHE_SIZE - 1 /\ r[t].mask \in 0 .. MAX_CACHE_SIZE - 1 /\ occupied \in Nat
      /\ mask \in Nat /\ r[t].mask \in Nat
  <2>1. mask \in 0 .. MAX_CACHE_SIZE - 1 /\ r[t].mask \in 0 .. MAX_CACHE_SIZE - 1 /\ occupied \in Nat
    BY <1>1 DEF Core, TypeOK, RegisterSet
  <2> QED BY <2>1
<1>4. /\ mask' \in 0 .. MAX_CACHE_SIZE - 1 /\ occupied' \in Nat /\ mask' >= mask
      /\ 0 .. mask' \subseteq DOMAIN mem[r[t].buckets] /\ mask' <= r[t].mask
  <2>1. CASE mask' = r[t].mask /\ occupied' = 0 BY <1>2, <1>3, <2>1
  <2>2. CASE mask' = mask /\ occupied' = occupied
    <3>1. 0 .. mask \subseteq 0 .. r[t].mask /\ mask >= mask BY <1>2, <1>3
    <3> QED BY <1>2, <1>3, <2>2, <3>1
  <2> QED BY <2>1, <2>2
<1>5. l \in {"setMask", "free", "place", "unlock"}
      /\ (l = "free" => r[t].old # None) /\ (l = "place" => r[t].op = "insert")
  BY DEF AfterSet
<1>6. pc'[t] = l /\ r' = r BY <1>1
<1>7. TypeOK'
  <2>1. RegisterSet' = RegisterSet BY SameRegisters
  <2>2. pc' \in [Threads -> Pcs] BY <1>1, <1>5 DEF Pcs, Locked
  <2> QED BY <1>1, <1>2, <1>4, <2>1, <2>2, SameBuild DEF Core, TypeOK
<1>8. SharedOK'
  <2>1. \A b \in DOMAIN mem : BucketsOK(b)'
    <3>1. \A b \in DOMAIN mem : BucketsOK(b) BY DEF Core, SharedOK
    <3> QED BY <3>1, SameBuild DEF BucketsOK
  <2>2. Entries' = {} BY <1>2 DEF Entries
  <2>3. occupied' = 0 \/ At(t, "setMask")' BY <1>6 DEF At
  <2>4. CacheOK' BY <1>4, <2>2, <2>3 DEF CacheOK
  <2>5. EntriesFresh' BY <2>2 DEF EntriesFresh
  <2> QED BY <2>1, <2>4, <2>5 DEF Core, SharedOK
<1>9. ThreadOK(t)'
  <2>1. (Allocated(t) /\ Reads(t) /\ Returns(t))'
    BY <1>1, <1>5, <1>6 DEF Allocated, Reads, Returns, Dereferences, At
  <2>2. r[t].mask >= mask' BY <1>3, <1>4
  <2>3. Writes(t)'
    BY <1>1, <1>2, <1>5, <1>6, <2>2 DEF Writes, At, Locked
  <2> QED BY <2>1, <2>3 DEF ThreadOK
<1>10. \A s \in Selectors : settled'[s] >= settled[s]
  <2>1. settled \in [Selectors -> 0 .. MaxChanges] BY DEF Core, TypeOK
  <2> QED BY <2>1
<1>11. r' = [r EXCEPT ![t] = r[t]] BY <1>1
<1> QED BY <1>1, <1>4, <1>7, <1>8, <1>9, <1>10, <1>11, KeptSame, WriterStep, ZenonT(30)

(* setBucketsAndMask, in one store or two.                                 *)
LEMMA SetBucketsStep ==
  ASSUME Core, NEW t \in Threads, SetBuckets(t) \/ SetMask(t), build' = build
  PROVE  Core'
<1>0. /\ missed' \subseteq missed
      /\ UNCHANGED <<mem, trash, imps, settled, runtimeLock, r>>
  BY DEF SetBuckets, SetMask, methods
<1>1. CASE SetMask(t) BY <1>0, <1>1, SetStep, ZenonT(30) DEF SetMask, At, Goto
<1>2. CASE SetBuckets(t)
  <2>1. CASE Packed BY <1>0, <1>2, <2>1, SetStep DEF SetBuckets, At, Goto
  <2>2. CASE ~Packed BY <1>0, <1>2, <2>2, SetStep DEF SetBuckets, At, Goto
  <2> QED BY <2>1, <2>2
<1> QED BY <1>1, <1>2

(* A vacant bucket is written: its implementation only, or all of it with  *)
(* the implementation that the writer looked up.                           *)
LEMMA StoreStep ==
  ASSUME Core, NEW t \in Threads, pc[t] \in {"place", "setSel"}, build' = build,
         NEW i \in DOMAIN mem[buckets], mem[buckets][i].sel = Nil,
         NEW e, mem' = [mem EXCEPT ![buckets][i] = e],
         \/ e.sel = Nil /\ e \in [sel: {Nil}, imp: Imps]
         \/ e = Bucket(r[t].sel, r[t].imp),
         NEW l \in {"unlock", "setSel"}, pc' = [pc EXCEPT ![t] = l],
         l = "setSel" => e.sel = Nil,
         r' = [r EXCEPT ![t].i = i],
         occupied' \in Nat \ {0}, UNCHANGED <<buckets, mask, trash, methods, runtimeLock>>
  PROVE  Core'
<1> USE DEF trash, methods
<1>0. pc[t] \in Locked BY DEF Locked
<1>1. /\ runtimeLock = t /\ Writes(t) /\ r[t] \in RegisterSet /\ ~Dereferences(t)
      /\ r[t].sel \in Selectors => r[t].since <= settled[r[t].sel]
      /\ pc \in [Threads -> Pcs] /\ r \in [Threads -> RegisterSet]
      /\ \A u \in Threads \ {t} : pc[u] \notin Locked
  BY <1>0, Holder
<1>2. /\ r[t].op = "insert" /\ buckets # Empty
      /\ r[t].sel \in Selectors /\ r[t].imp = <<r[t].sel, imps[r[t].sel]>>
  BY <1>0, <1>1 DEF Writes, At
<1>3. TypeOK /\ buckets \in DOMAIN mem BY DEF Core, TypeOK
<1>4. /\ imps \in [Selectors -> 0 .. MaxChanges] /\ settled \in [Selectors -> 0 .. MaxChanges]
      /\ imps[r[t].sel] \in Nat /\ settled[r[t].sel] \in Nat /\ settled[r[t].sel] <= imps[r[t].sel]
      /\ r[t].imp \in Imps
  BY <1>2, <1>3 DEF Core, TypeOK, SharedOK, Imps
<1>5. /\ DOMAIN mem' = DOMAIN mem /\ \A b \in DOMAIN mem \ {buckets} : mem'[b] = mem[b]
      /\ DOMAIN mem'[buckets] = DOMAIN mem[buckets] /\ mem'[buckets][i] = e
      /\ \A j \in DOMAIN mem[buckets] \ {i} : mem'[buckets][j] = mem[buckets][j]
  BY <1>3
<1>6. /\ e \in [sel: Selectors \cup {Nil, End}, imp: Imps \cup {None}]
      /\ e.sel \in Selectors => e.sel = r[t].sel /\ e.imp = <<e.sel, imps[e.sel]>>
      /\ e.sel # End
  BY <1>2, <1>4, Markers DEF Bucket
<1> DEFINE x == [r[t] EXCEPT !.i = i]
<1>7. i \in Nat BY <1>3, BufferFacts
<1>8. x \in RegisterSet /\ r' = [r EXCEPT ![t] = x] BY <1>1, <1>7 DEF RegisterSet
<1>9. x.sel = r[t].sel /\ x.since = r[t].since /\ x.op = r[t].op /\ x.imp = r[t].imp /\ x.i = i
  BY <1>1 DEF RegisterSet
<1> HIDE DEF x
<1>10. pc'[t] = l /\ r'[t] = x BY <1>1, <1>8
<1>11. TypeOK'
  <2>1. RegisterSet' = RegisterSet BY SameRegisters
  <2>2. r' \in [Threads -> RegisterSet] /\ pc' \in [Threads -> Pcs] BY <1>1, <1>8 DEF Pcs, Locked
  <2>3. mem'[Empty] = mem[Empty] BY <1>2, <1>3, <1>5, ZenonT(30) DEF TypeOK
  <2> QED BY <1>3, <1>5, <2>1, <2>2, <2>3, SameBuild DEF TypeOK
<1>12. ASSUME e.sel \in Selectors
       PROVE  e.imp \in {e.sel} \X (0 .. imps[e.sel]) /\ e.imp[2] = imps[e.sel]
              /\ e.imp[2] >= settled[e.sel] /\ e.imp[2] \in Nat
  BY <1>2, <1>4, <1>6, <1>12
<1>13. ASSUME NEW b \in DOMAIN mem PROVE BucketsOK(b)'
  <2>1. CASE b # buckets
    <3>1. imps' \in [Selectors -> Nat] /\ \A s \in Selectors : imps[s] <= imps'[s] BY <1>4
    <3> QED BY <1>5, <2>1, <3>1, SameBuffer
  <2>2. CASE b = buckets
    <3>1. PICK n \in 1 .. MAX_CACHE_SIZE :
            /\ DOMAIN mem[b] = 0 .. n - 1
            /\ \A j \in 0 .. n - 1: mem[b][j].sel = End <=> ~Packed /\ j = n - 1
      BY <1>2, <2>2, BufferFacts DEF BucketsOK
    <3>2. \A j \in 0 .. n - 1: mem'[b][j].sel = End <=> ~Packed /\ j = n - 1
      BY <1>5, <1>6, <2>2, <3>1, Markers
    <3>3. BucketsOK(b) BY BufferFacts
    <3>4. \A j \in DOMAIN mem[b] :
            /\ mem'[b][j] \in [sel: Selectors \cup {Nil, End}, imp: Imps \cup {None}]
            /\ mem'[b][j].sel \in Selectors => mem'[b][j].imp \in {mem'[b][j].sel} \X (0 .. imps[mem'[b][j].sel])
      BY <1>5, <1>6, <1>12, <2>2, <3>3 DEF BucketsOK
    <3>5. b # Empty BY <1>2, <2>2
    <3> QED BY <1>5, <2>2, <3>1, <3>2, <3>4, <3>5, SameBuild DEF BucketsOK
  <2> QED BY <2>1, <2>2
<1>14. SharedOK'
  <2>1. \A s : ~Changing(s) BY <1>0, <1>1, NotChanging
  <2>2. CacheOK' BY <1>2, <1>5 DEF Core, SharedOK, CacheOK
  <2>3. ASSUME NEW j \in DOMAIN mem[buckets], mem'[buckets][j].sel \in Selectors
        PROVE  /\ mem'[buckets][j].imp[2] >= settled[mem'[buckets][j].sel]
               /\ \/ mem'[buckets][j].imp[2] = imps[mem'[buckets][j].sel]
                  \/ mem'[buckets][j].sel \in missed
    <3>1. CASE j = i BY <1>5, <1>12, <2>3, <3>1
    <3>2. CASE j # i
      <4>1. mem'[buckets][j] = mem[buckets][j] BY <1>5, <3>2
      <4>2. j \in Entries BY <2>3, <4>1 DEF Entries
      <4> QED BY <2>1, <4>1, <4>2 DEF Core, SharedOK, EntriesFresh
    <3> QED BY <3>1, <3>2
  <2>4. EntriesFresh' BY <1>5, <2>3 DEF EntriesFresh, Entries
  <2> QED BY <1>5, <1>13, <2>2, <2>4 DEF Core, SharedOK
<1>15. ThreadOK(t)'
  <2>1. (Allocated(t) /\ Reads(t) /\ Returns(t))'
    BY <1>1, <1>9, <1>10 DEF Allocated, Reads, Returns, Dereferences, At
  <2>2. occupied' > 0 OBVIOUS
  <2>3. Writes(t)'
    BY <1>1, <1>2, <1>5, <1>9, <1>10, <2>2 DEF Writes, At, Locked
  <2> QED BY <2>1, <2>3 DEF ThreadOK
<1>16. ASSUME NEW u \in Threads \ {t}, Dereferences(u) PROVE Kept(r[u].buckets)
  <2>1. r[u].buckets \in DOMAIN mem BY <1>16, SearchFacts
  <2>2. CASE r[u].buckets # buckets BY <1>5, <2>1, <2>2 DEF Kept
  <2>3. CASE r[u].buckets = buckets
    <3>1. mem[buckets][i].sel \notin Selectors BY Markers
    <3> QED BY <1>5, <1>12, <2>1, <2>3, <3>1 DEF Kept
  <2> QED BY <2>2, <2>3
<1>17. (\A s \in Selectors : settled'[s] >= settled[s]) /\ mask' >= mask
  <2>1. settled \in [Selectors -> 0 .. MaxChanges] /\ mask \in 0 .. MAX_CACHE_SIZE - 1 BY <1>3 DEF TypeOK
  <2> QED BY <2>1
<1> QED BY <1>1, <1>8, <1>11, <1>14, <1>15, <1>16, <1>17, WriterStep, ZenonT(30)

(* insert takes the first bucket on the path of its selector that is vacant*)
(* or has the selector already.                                            *)
LEMMA PlaceStep ==
  ASSUME Core, NEW t \in Threads, Place(t), build' = build
  PROVE  Core'
<1> DEFINE sel == r[t].sel
           free == Slots(buckets, sel, mask, {Nil, sel})
           n == Min(free)
           i == Path(sel, mask)[n]
<1>0. pc[t] = "place" /\ pc[t] \in Locked BY DEF Place, At, Locked
<1>1. /\ runtimeLock = t /\ Writes(t) /\ r[t] \in RegisterSet
      /\ r[t].sel \in Selectors => r[t].since <= settled[r[t].sel]
      /\ pc \in [Threads -> Pcs] /\ r \in [Threads -> RegisterSet]
  BY <1>0, Holder
<1>2. /\ r[t].op = "insert" /\ buckets # Empty /\ sel \in Selectors
      /\ r[t].imp = <<sel, imps[sel]>>
  BY <1>0, <1>1 DEF Writes, At
<1>3. UNCHANGED <<buckets, mask, trash, methods, runtimeLock>> BY DEF Place
<1>4. ASSUME NEW l \in {"bad_cache", "unlock"}, pc' = [pc EXCEPT ![t] = l],
             UNCHANGED <<mem, occupied, r>>
      PROVE  Core'
  <2>1. UNCHANGED <<mem, cache, trash, methods>> /\ runtimeLock' = t /\ imps' = imps
    BY <1>1, <1>3, <1>4 DEF cache, methods
  <2>2. r' = [r EXCEPT ![t] = r[t]] /\ pc'[t] = l /\ r' = r BY <1>1, <1>4
  <2>3. Writes(t)' BY <1>2, <2>1, <2>2 DEF Writes, At, Locked
  <2>4. \A s : ~Changing(s) BY <1>0, <1>1, NotChanging
  <2>5. l \in Locked BY DEF Locked
  <2> QED BY <1>0, <1>1, <1>4, <2>1, <2>2, <2>3, <2>4, <2>5, QuietStep, ZenonT(30)
<1>5. CASE free = {} BY <1>4, <1>5 DEF Place, Goto
<1>6. CASE free # {} /\ mem[buckets][i].sel = sel BY <1>4, <1>6 DEF Place, Goto
<1>7. CASE free # {} /\ mem[buckets][i].sel # sel
  <2>1. mask \in Nat /\ occupied \in Nat /\ 0 .. mask \subseteq DOMAIN mem[buckets]
        /\ imps \in [Selectors -> 0 .. MaxChanges] /\ buckets \in DOMAIN mem
    <3>1. mask \in 0 .. MAX_CACHE_SIZE - 1 BY DEF Core, TypeOK
    <3> QED BY <3>1 DEF Core, TypeOK, SharedOK, CacheOK
  <2>2. n \in free
    <3>1. free \subseteq Nat BY <2>1 DEF Slots
    <3> HIDE DEF free
    <3>2. \E z \in free : \A y \in free : z <= y BY <1>7, <3>1, Least
    <3> QED BY <3>2 DEF Min
  <2>3. n \in 0 .. mask /\ mem[buckets][i].sel \in {Nil, sel} BY <2>2, ZenonT(30) DEF Slots
  <2>4. i \in 0 .. mask
    <3> HIDE DEF n, sel
    <3>1. cache_hash(sel, mask) \in 0 .. mask BY <1>2, <2>1, HashRange
    <3>2. Path(sel, mask)[n] = Slot(cache_hash(sel, mask), mask, n)
      BY <1>2, <2>1, <2>3, PathIsSlot
    <3>3. Slot(cache_hash(sel, mask), mask, n) \in 0 .. mask
      <4> DEFINE h == cache_hash(sel, mask)
      <4>1. h \in 0 .. mask BY <3>1
      <4> HIDE DEF h
      <4>2. Slot(h, mask, n) \in 0 .. mask BY <2>1, <2>3, <4>1, SlotRange
      <4> QED BY <4>2 DEF h
    <3> QED BY <3>2, <3>3
  <2>5. i \in DOMAIN mem[buckets] /\ mem[buckets][i].sel = Nil BY <1>7, <2>1, <2>3, <2>4
  <2>6. occupied' = occupied + 1 /\ r' = [r EXCEPT ![t].i = i] BY <1>7 DEF Place
  <2>7. occupied' \in Nat \ {0} BY <2>1, <2>6
  <2>8. CASE Packed
    <3>1. mem' = [mem EXCEPT ![buckets][i] = Bucket(sel, r[t].imp)] /\ pc' = [pc EXCEPT ![t] = "unlock"]
      BY <1>7, <2>8 DEF Place, Goto
    <3> HIDE DEF i
    <3> QED BY <1>0, <1>3, <2>5, <2>6, <2>7, <3>1, StoreStep, ZenonT(30)
  <2>9. CASE ~Packed
    <3> DEFINE e == [mem[buckets][i] EXCEPT !.imp = r[t].imp]
    <3>1. mem' = [mem EXCEPT ![buckets][i] = e] /\ pc' = [pc EXCEPT ![t] = "setSel"]
      BY <1>7, <2>1, <2>5, <2>9, ZenonT(30) DEF Place, Goto, FirstStore
    <3>2. r[t].imp \in Imps BY <1>2, <2>1 DEF Imps
    <3>3. mem[buckets][i] \in [sel: Selectors \cup {Nil, End}, imp: Imps \cup {None}]
      BY <2>1, <2>5, BufferFacts DEF BucketsOK
    <3>4. e.sel = Nil /\ e \in [sel: {Nil}, imp: Imps] BY <2>5, <3>2, <3>3, ZenonT(30)
    <3> HIDE DEF i, e
    <3> QED BY <1>0, <1>3, <2>5, <2>6, <2>7, <3>1, <3>4, StoreStep, ZenonT(30)
  <2> QED BY <2>8, <2>9
<1> QED BY <1>5, <1>6, <1>7

(* The selector follows the implementation.                                *)
LEMMA SetSelStep ==
  ASSUME Core, NEW t \in Threads, SetSel(t), build' = build
  PROVE  Core'
<1>0. pc[t] = "setSel" /\ pc[t] \in Locked /\ UNCHANGED <<cache, trash, methods, runtimeLock, r>>
  BY DEF SetSel, At, Locked
<1>1. Writes(t) /\ r \in [Threads -> RegisterSet] /\ r[t] \in RegisterSet BY <1>0, Holder
<1>2. r[t].i \in DOMAIN mem[buckets] /\ mem[buckets][r[t].i].sel = Nil /\ occupied > 0
  BY <1>0, <1>1 DEF Writes, At
<1>3. r[t] = [r[t] EXCEPT !.i = r[t].i] BY <1>1 DEF RegisterSet
<1>4. r' = [r EXCEPT ![t].i = r[t].i] BY <1>0, <1>1, <1>3
<1>5. occupied' \in Nat \ {0}
  <2>1. occupied \in Nat /\ occupied' = occupied BY <1>0 DEF Core, TypeOK, cache
  <2> QED BY <1>2, <2>1
<1>6. mem' = [mem EXCEPT ![buckets][r[t].i] = Bucket(r[t].sel, r[t].imp)]
      /\ pc' = [pc EXCEPT ![t] = "unlock"]
  BY DEF SetSel, Goto
<1>7. UNCHANGED <<buckets, mask, trash, methods, runtimeLock>> BY <1>0 DEF cache
<1> QED BY <1>0, <1>2, <1>4, <1>5, <1>6, <1>7, StoreStep, ZenonT(30)

-----------------------------------------------------------------------------
(* Changes of methods, and collection.                                     *)

(* A method changes.  Its entry, if it has one, stays until the flush, or  *)
(* is missed.                                                              *)
LEMMA ChangeStep ==
  ASSUME Core, NEW t \in Threads, NEW sel \in Selectors, method_setImplementation(t, sel),
         build' = build
  PROVE  Core'
<1>p. PICK found \in Finds(sel) :
        /\ pc' = [pc EXCEPT ![t] = IF found THEN "erase" ELSE "unlock"]
        /\ missed' = IF shouldFlush(sel) /\ ~found THEN missed \cup {sel} ELSE missed
  BY ZenonT(30) DEF method_setImplementation, Goto
<1> DEFINE x == [Registers EXCEPT !.op = "change", !.sel = sel]
           l == IF found THEN "erase" ELSE "unlock"
<1>0. /\ pc[t] = "idle" /\ runtimeLock = None /\ runtimeLock' = t /\ imps[sel] < MaxChanges
      /\ imps' = [imps EXCEPT ![sel] = imps[sel] + 1]
      /\ r' = [r EXCEPT ![t] = x] /\ pc' = [pc EXCEPT ![t] = l]
      /\ UNCHANGED <<mem, cache, trash, settled>>
  BY <1>p DEF method_setImplementation, At, Lock
<1>1. mem' = mem /\ buckets' = buckets /\ mask' = mask /\ occupied' = occupied /\ garbage' = garbage
      /\ garbage_size' = garbage_size /\ settled' = settled
  BY <1>0 DEF cache, trash
<1>2. TypeOK /\ pc \in [Threads -> Pcs] /\ r \in [Threads -> RegisterSet]
      /\ imps \in [Selectors -> 0 .. MaxChanges] /\ settled \in [Selectors -> 0 .. MaxChanges]
  BY DEF Core, TypeOK
<1>3. x \in RegisterSet BY <1>2, RegistersType, ZenonT(30) DEF RegisterSet
<1>4. x.op = "change" /\ x.sel = sel /\ x.since = 0 BY DEF Registers
<1>5. /\ l \in {"erase", "unlock"} /\ (shouldFlush(sel) => l = "erase" \/ sel \in missed')
      /\ missed \subseteq missed' /\ missed' \subseteq Selectors /\ (missed' # {} => Restartable)
  <2>1. missed \subseteq Selectors /\ (missed # {} => Restartable) BY <1>2 DEF TypeOK
  <2>2. shouldFlush(sel) /\ ~found => Restartable
    <3>1. found = shouldFlush(sel) \/ Restartable BY ZenonT(30) DEF Finds
    <3> QED BY <3>1, ZenonT(30)
  <2> QED BY <1>p, <2>1, <2>2
<1> HIDE DEF x, l
<1>6. pc'[t] = l /\ r'[t] = x BY <1>0, <1>2
<1>7. imps' \in [Selectors -> 0 .. MaxChanges]
  <2>1. imps[sel] + 1 \in 0 .. MaxChanges BY <1>0, <1>2, CacheAssumption
  <2> QED BY <1>0, <1>2, <2>1
<1>8. ASSUME NEW s \in Selectors PROVE imps[s] <= imps'[s] /\ settled[s] <= imps'[s]
  <2>1. imps[s] \in Nat /\ settled[s] \in Nat /\ settled[s] <= imps[s] BY <1>2 DEF Core, SharedOK
  <2>2. imps'[s] = IF s = sel THEN imps[s] + 1 ELSE imps[s] BY <1>0, <1>2
  <2> QED BY <2>1, <2>2
<1>9. TypeOK'
  <2>1. RegisterSet' = RegisterSet BY SameRegisters
  <2>2. r' \in [Threads -> RegisterSet] /\ pc' \in [Threads -> Pcs]
    BY <1>0, <1>2, <1>3, <1>5 DEF Pcs, Locked
  <2> QED BY <1>0, <1>1, <1>2, <1>5, <1>7, <2>1, <2>2, SameBuild DEF TypeOK
<1>10. SharedOK'
  <2>1. ASSUME NEW b \in DOMAIN mem PROVE BucketsOK(b)'
    <3>1. imps' \in [Selectors -> Nat] BY <1>7
    <3> QED BY <1>1, <1>8, <3>1, SameBuffer
  <2>2. \A u \in Threads : ~At(u, "setMask") BY <1>0, Exclusive DEF At, Locked
  <2>3. Entries' = Entries BY <1>1 DEF Entries
  <2>4. CacheOK' BY <1>1, <2>2, <2>3 DEF Core, SharedOK, CacheOK
  <2>5. \A s : ~Changing(s) BY <1>0, NotChanging
  <2>6. ASSUME NEW i \in Entries
        PROVE  \/ mem[buckets][i].imp[2] = imps'[mem[buckets][i].sel] \/ Changing(mem[buckets][i].sel)'
               \/ mem[buckets][i].sel \in missed'
    <3>1. mem[buckets][i].sel \in Selectors /\ i \in DOMAIN mem[buckets] BY DEF Entries
    <3>2. mem[buckets][i].imp[2] = imps[mem[buckets][i].sel] \/ mem[buckets][i].sel \in missed
      BY <2>5 DEF Core, SharedOK, EntriesFresh
    <3>3. CASE mem[buckets][i].sel \in missed BY <1>5, <3>3
    <3>4. CASE mem[buckets][i].sel # sel BY <1>0, <1>2, <1>5, <3>1, <3>2, <3>4
    <3>5. CASE mem[buckets][i].sel = sel /\ mem[buckets][i].imp[2] = imps[sel]
      <4>1. shouldFlush(sel)
        <5>1. buckets \in DOMAIN mem BY <1>2 DEF TypeOK
        <5>2. mem[buckets][i] \in [sel: Selectors \cup {Nil, End}, imp: Imps \cup {None}]
              /\ mem[buckets][i].imp \in {sel} \X (0 .. imps[sel])
          BY <3>1, <3>5, <5>1 DEF Core, SharedOK, BucketsOK
        <5>3. mem[buckets][i].imp = <<sel, imps[sel]>> BY <3>5, <5>2
        <5>4. mem[buckets][i] = Bucket(sel, <<sel, imps[sel]>>) BY <3>5, <5>2, <5>3 DEF Bucket
        <5> QED BY <3>1, <5>4 DEF shouldFlush
      <4>2. CASE l = "erase"
        <5>1. pc'[t] = "erase" /\ r'[t].op = "change" /\ r'[t].sel = sel BY <1>4, <1>6, <4>2
        <5>2. Changing(sel)' BY <5>1 DEF Changing
        <5>3. Changing(mem[buckets][i].sel)' <=> Changing(sel)' BY <1>1, <3>5 DEF Changing
        <5> QED BY <5>2, <5>3
      <4> QED BY <1>5, <3>5, <4>1, <4>2
    <3> QED BY <3>2, <3>3, <3>4, <3>5
  <2>7. EntriesFresh' BY <1>1, <2>3, <2>6 DEF Core, SharedOK, EntriesFresh
  <2> QED BY <1>1, <1>8, <2>1, <2>4, <2>7 DEF SharedOK
<1>11. ThreadOK(t)'
  <2>1. 0 <= settled[sel] BY <1>2
  <2>2. (Allocated(t) /\ Reads(t) /\ Returns(t))'
    BY <1>1, <1>4, <1>5, <1>6, <2>1 DEF Allocated, Reads, Returns, Dereferences, At
  <2>3. Writes(t)' BY <1>0, <1>4, <1>5, <1>6 DEF Writes, At, Locked
  <2> QED BY <2>2, <2>3 DEF ThreadOK
<1>12. (\A s \in Selectors : settled'[s] >= settled[s]) /\ mask' >= mask
  <2>1. mask \in 0 .. MAX_CACHE_SIZE - 1 BY <1>2 DEF TypeOK
  <2> QED BY <1>1, <1>2, <2>1
<1> QED BY <1>0, <1>1, <1>9, <1>10, <1>11, <1>12, KeptSame, WriterStep, ZenonT(30)

(* The lock is released: the changes have taken effect, but for those whose *)
(* entry was missed.                                                       *)
LEMMA UnlockStep ==
  ASSUME Core, NEW t \in Threads, Unlock(t), build' = build
  PROVE  Core'
<1>0. pc[t] = "unlock" /\ pc[t] \in Locked /\ runtimeLock' = None
      /\ settled' = [s \in Selectors |-> IF s \in missed THEN settled[s] ELSE imps[s]]
      /\ UNCHANGED <<mem, cache, trash, imps, missed>>
  BY DEF Unlock, At, Locked
<1>1. /\ runtimeLock = t /\ Writes(t) /\ r[t] \in RegisterSet
      /\ r[t].sel \in Selectors => r[t].since <= settled[r[t].sel]
      /\ pc \in [Threads -> Pcs] /\ r \in [Threads -> RegisterSet]
      /\ \A u \in Threads \ {t} : pc[u] \notin Locked
  BY <1>0, Holder
<1>2. mem' = mem /\ buckets' = buckets /\ mask' = mask /\ occupied' = occupied /\ garbage' = garbage
      /\ garbage_size' = garbage_size
  BY <1>0 DEF cache, trash
<1>3. TypeOK /\ imps \in [Selectors -> 0 .. MaxChanges] /\ settled \in [Selectors -> 0 .. MaxChanges]
      /\ None \notin Threads
  BY CacheAssumption DEF Core, TypeOK
<1>4. /\ settled' \in [Selectors -> 0 .. MaxChanges]
      /\ \A s \in Selectors : settled'[s] >= settled[s] /\ settled'[s] <= imps[s]
  <2>1. ASSUME NEW s \in Selectors
        PROVE  settled'[s] >= settled[s] /\ settled'[s] <= imps[s] /\ settled'[s] \in 0 .. MaxChanges
    <3>1. settled[s] <= imps[s] /\ settled[s] \in 0 .. MaxChanges /\ imps[s] \in 0 .. MaxChanges
      BY <1>3 DEF Core, SharedOK
    <3>2. settled'[s] = IF s \in missed THEN settled[s] ELSE imps[s] BY <1>0
    <3> QED BY <3>1, <3>2
  <2> QED BY <1>0, <2>1
<1>5. SharedOK'
  <2>1. \A b \in DOMAIN mem : BucketsOK(b)'
    <3>1. \A b \in DOMAIN mem : BucketsOK(b) BY DEF Core, SharedOK
    <3> QED BY <1>0, <1>2, <3>1, SameBuild DEF BucketsOK
  <2>2. Entries' = Entries BY <1>2 DEF Entries
  <2>3. \A u \in Threads : ~At(u, "setMask") BY <1>0, <1>1 DEF At, Locked
  <2>4. CacheOK' BY <1>2, <2>2, <2>3 DEF Core, SharedOK, CacheOK
  <2>5. \A s : ~Changing(s) BY <1>0, <1>1, NotChanging
  <2>6. ASSUME NEW i \in Entries
        PROVE  /\ mem[buckets][i].imp[2] >= settled'[mem[buckets][i].sel]
               /\ mem[buckets][i].imp[2] = imps[mem[buckets][i].sel] \/ mem[buckets][i].sel \in missed
    <3>1. mem[buckets][i].sel \in Selectors BY DEF Entries
    <3>2. /\ mem[buckets][i].imp[2] = imps[mem[buckets][i].sel] \/ mem[buckets][i].sel \in missed
          /\ mem[buckets][i].imp[2] >= settled[mem[buckets][i].sel]
      BY <2>5 DEF Core, SharedOK, EntriesFresh
    <3>3. CASE mem[buckets][i].sel \in missed
      <4>1. settled'[mem[buckets][i].sel] = settled[mem[buckets][i].sel] BY <1>0, <3>1, <3>3
      <4> QED BY <3>2, <3>3, <4>1
    <3>4. CASE mem[buckets][i].sel \notin missed
      <4>1. settled'[mem[buckets][i].sel] = imps[mem[buckets][i].sel] BY <1>0, <3>1, <3>4
      <4>2. imps[mem[buckets][i].sel] \in 0 .. MaxChanges BY <1>3, <3>1
      <4>3. imps[mem[buckets][i].sel] >= imps[mem[buckets][i].sel] BY <4>2
      <4> QED BY <3>2, <3>4, <4>1, <4>3
    <3> QED BY <3>3, <3>4
  <2>7. EntriesFresh' BY <1>0, <1>2, <2>2, <2>6 DEF EntriesFresh
  <2> QED BY <1>0, <1>2, <1>4, <2>1, <2>4, <2>7 DEF SharedOK
<1>6. mask' >= mask
  <2>1. mask \in 0 .. MAX_CACHE_SIZE - 1 BY <1>3 DEF TypeOK
  <2> QED BY <1>2, <2>1
<1>7. ASSUME NEW l \in {"return", "relock", "idle"}, NEW x \in RegisterSet,
             pc' = [pc EXCEPT ![t] = l], r' = [r EXCEPT ![t] = x],
             x.sel \in Selectors => x.since <= settled'[x.sel],
             l = "return" => /\ x.sel \in Selectors /\ x.imp \in {x.sel} \X (0 .. MaxChanges)
                             /\ x.imp[2] >= x.since
      PROVE  Core'
  <2>1. pc'[t] = l /\ r'[t] = x BY <1>1, <1>7
  <2>2. TypeOK'
    <3>1. RegisterSet' = RegisterSet BY SameRegisters
    <3>2. r' \in [Threads -> RegisterSet] /\ pc' \in [Threads -> Pcs] BY <1>1, <1>7 DEF Pcs
    <3> QED BY <1>0, <1>2, <1>3, <1>4, <3>1, <3>2, SameBuild DEF TypeOK
  <2>3. ThreadOK(t)'
    <3>1. (Allocated(t) /\ Returns(t) /\ ~Dereferences(t))'
      BY <1>7, <2>1 DEF Allocated, Returns, Dereferences, At
    <3>2. Reads(t)' BY <1>0, <1>7, <2>1, <3>1 DEF Reads, At
    <3>3. Writes(t)' BY <1>0, <1>3, <2>1 DEF Writes, At, Locked
    <3> QED BY <3>1, <3>2, <3>3 DEF ThreadOK
  <2> QED BY <1>0, <1>1, <1>2, <1>4, <1>5, <1>6, <1>7, <2>2, <2>3, KeptSame, WriterStep, ZenonT(30)
<1>8. CASE r[t].op = "insert"
  <2> DEFINE x == [Registers EXCEPT !.sel = r[t].sel, !.since = r[t].since, !.imp = r[t].imp]
  <2>1. r' = [r EXCEPT ![t] = x] /\ pc' = [pc EXCEPT ![t] = "return"] BY <1>8 DEF Unlock, Leave, Goto
  <2>2. x \in RegisterSet BY <1>1, <1>3, RegistersType, ZenonT(30) DEF RegisterSet
  <2>3. x.sel = r[t].sel /\ x.since = r[t].since /\ x.imp = r[t].imp BY DEF Registers
  <2>4. r[t].sel \in Selectors /\ r[t].imp = <<r[t].sel, imps[r[t].sel]>>
    BY <1>0, <1>1, <1>8 DEF Writes
  <2>5. r[t].since \in Nat /\ settled[r[t].sel] \in Nat /\ imps[r[t].sel] \in Nat
        /\ settled[r[t].sel] <= imps[r[t].sel] /\ imps[r[t].sel] \in 0 .. MaxChanges
    <3>1. r[t].since \in 0 .. MaxChanges BY <1>1 DEF RegisterSet
    <3> QED BY <1>3, <2>4, <3>1 DEF Core, SharedOK
  <2>6. r[t].since <= settled'[r[t].sel] /\ imps[r[t].sel] >= r[t].since
    <3>1. settled'[r[t].sel] >= settled[r[t].sel] /\ settled'[r[t].sel] \in 0 .. MaxChanges BY <1>4, <2>4
    <3>2. r[t].since <= settled[r[t].sel] BY <1>1, <2>4
    <3> QED BY <2>5, <3>1, <3>2
  <2>7. r[t].imp \in {r[t].sel} \X (0 .. MaxChanges) /\ r[t].imp[2] = imps[r[t].sel] BY <2>4, <2>5
  <2> HIDE DEF x
  <2> QED BY <1>7, <2>1, <2>2, <2>3, <2>4, <2>6, <2>7, ZenonT(30)
<1>9. CASE r[t].op # "insert"
  <2>1. r' = [r EXCEPT ![t] = Registers] BY <1>9 DEF Unlock
  <2>2. pc' = [pc EXCEPT ![t] = "relock"] \/ pc' = [pc EXCEPT ![t] = "idle"]
    BY <1>9 DEF Unlock, Goto
  <2>3. Registers \in RegisterSet /\ Registers.sel \notin Selectors
    BY <1>3, RegistersType, Markers DEF Registers
  <2> QED BY <1>7, <2>1, <2>2, <2>3, ZenonT(30)
<1> QED BY <1>8, <1>9

(* The size of an array of buckets.                                        *)
LEMMA CapacityType ==
  ASSUME Core, NEW b \in DOMAIN mem
  PROVE  /\ CapacityOf(b) \in Nat /\ \A i \in DOMAIN mem[b] : i < CapacityOf(b)
<1>1. PICK n \in 1 .. MAX_CACHE_SIZE : DOMAIN mem[b] = 0 .. n - 1 BY BufferFacts DEF BucketsOK
<1>2. n \in Nat \ {0}
  <2>1. MAX_CACHE_SIZE \in Nat BY BuildFacts DEF Core
  <2> QED BY <2>1
<1>3. \E x \in 0 .. n - 1 : \A y \in 0 .. n - 1 : x >= y
  <2>1. n - 1 \in 0 .. n - 1 /\ \A y \in 0 .. n - 1 : n - 1 >= y BY <1>2
  <2> QED BY <2>1
<1>4. Max(0 .. n - 1) \in 0 .. n - 1 /\ \A y \in 0 .. n - 1 : Max(0 .. n - 1) >= y
  BY <1>3 DEF Max
<1> DEFINE m == Max(0 .. n - 1)
<1>5. CapacityOf(b) = m + 1 BY <1>1 DEF CapacityOf
<1> HIDE DEF m
<1>6. m \in 0 .. n - 1 /\ \A y \in 0 .. n - 1 : m >= y BY <1>4 DEF m
<1>7. m + 1 \in Nat /\ \A y \in 0 .. n - 1 : y < m + 1 BY <1>2, <1>6
<1> QED BY <1>1, <1>5, <1>7

(* Buckets that were replaced become garbage.                              *)
LEMMA CollectFreeStep ==
  ASSUME Core, NEW t \in Threads, collect_free(t), build' = build
  PROVE  Core'
<1>0. /\ pc[t] = "free" /\ pc[t] \in Locked /\ pc[t] \in Locked \ {"setMask"}
      /\ garbage' = garbage \cup {r[t].old} /\ garbage_size' = garbage_size + CapacityOf(r[t].old)
      /\ UNCHANGED <<mem, cache, methods, runtimeLock>>
  BY DEF collect_free, At, Locked
<1>1. /\ runtimeLock = t /\ Writes(t) /\ r[t] \in RegisterSet /\ ~Dereferences(t)
      /\ r[t].sel \in Selectors => r[t].since <= settled[r[t].sel]
      /\ pc \in [Threads -> Pcs] /\ r \in [Threads -> RegisterSet]
  BY <1>0, Holder
<1>2. /\ r[t].old \in DOMAIN mem \ (garbage \cup {Empty}) /\ r[t].old # buckets
      /\ r[t].op = "insert" => buckets # Empty
      /\ r[t].op = "insert" => r[t].sel \in Selectors /\ r[t].imp = <<r[t].sel, imps[r[t].sel]>>
  BY <1>0, <1>1 DEF Writes, At
<1>3. mem' = mem /\ buckets' = buckets /\ mask' = mask /\ occupied' = occupied
      /\ imps' = imps /\ settled' = settled /\ missed' = missed /\ runtimeLock' = t
  BY <1>0, <1>1 DEF cache, methods
<1>4. \A s : ~Changing(s) BY <1>0, <1>1, NotChanging
<1>5. garbage_size' \in Nat
  <2>1. garbage_size \in Nat BY DEF Core, TypeOK
  <2>2. CapacityOf(r[t].old) \in Nat BY <1>2, CapacityType
  <2> QED BY <1>0, <2>1, <2>2
<1>6. SharedOK'
  <2>1. ASSUME NEW b \in DOMAIN mem PROVE BucketsOK(b)'
    BY <1>0, <1>3, SameBuffer, NumbersStay
  <2> QED BY <1>0, <1>3, <1>4, <2>1, SameCache DEF SharedOK
<1>7. (\A s \in Selectors : settled'[s] >= settled[s]) /\ mask' >= mask
  <2>1. settled \in [Selectors -> 0 .. MaxChanges] /\ mask \in 0 .. MAX_CACHE_SIZE - 1
    BY DEF Core, TypeOK
  <2> QED BY <1>3, <2>1
<1>8. ASSUME NEW l \in {"collect", "place", "unlock"}, NEW S \in SUBSET Threads,
             pc' = [pc EXCEPT ![t] = l], r' = [r EXCEPT ![t] = [r[t] EXCEPT !.unchecked = S]],
             l = "place" => r[t].op = "insert", l = "collect" => S = Threads \ {t}
      PROVE  Core'
  <2> DEFINE x == [r[t] EXCEPT !.unchecked = S]
  <2>1. x \in RegisterSet BY <1>1 DEF RegisterSet
  <2>2. x.sel = r[t].sel /\ x.since = r[t].since /\ x.op = r[t].op /\ x.imp = r[t].imp
        /\ x.unchecked = S
    BY <1>1 DEF RegisterSet
  <2>3. r' = [r EXCEPT ![t] = x] BY <1>8
  <2> HIDE DEF x
  <2>4. pc'[t] = l /\ r'[t] = x BY <1>1, <1>8, <2>3
  <2>5. TypeOK'
    <3>1. RegisterSet' = RegisterSet BY SameRegisters
    <3>2. r' \in [Threads -> RegisterSet] /\ pc' \in [Threads -> Pcs]
      BY <1>1, <1>8, <2>1, <2>3 DEF Pcs, Locked
    <3>3. TypeOK BY DEF Core
    <3> QED BY <1>0, <1>2, <1>3, <1>5, <3>1, <3>2, <3>3, SameBuild DEF TypeOK
  <2>6. ThreadOK(t)'
    <3>1. (Allocated(t) /\ Reads(t) /\ Returns(t))'
      BY <1>1, <1>3, <2>2, <2>4 DEF Allocated, Reads, Returns, Dereferences, At
    <3>2. l = "collect" => Threads \ (S \cup {t}) = {} BY <1>8
    <3>3. Writes(t)'
      BY <1>2, <1>3, <1>8, <2>2, <2>4, <3>2 DEF Writes, At, Locked
    <3> QED BY <3>1, <3>3 DEF ThreadOK
  <2> QED BY <1>1, <1>3, <1>6, <1>7, <1>8, <2>3, <2>5, <2>6, KeptSame, WriterStep, ZenonT(30)
<1>9. CASE garbage_size' < garbage_threshold
  <2>1. pc' = [pc EXCEPT ![t] = AfterFree(t)] /\ r' = r BY <1>9 DEF collect_free, Goto
  <2>2. r[t] = [r[t] EXCEPT !.unchecked = r[t].unchecked] /\ r[t].unchecked \in SUBSET Threads
    BY <1>1 DEF RegisterSet
  <2>3. r' = [r EXCEPT ![t] = [r[t] EXCEPT !.unchecked = r[t].unchecked]] BY <1>1, <2>1, <2>2
  <2>4. AfterFree(t) \in {"collect", "place", "unlock"} /\ AfterFree(t) # "collect"
        /\ (AfterFree(t) = "place" => r[t].op = "insert")
    BY DEF AfterFree
  <2> QED BY <1>8, <2>1, <2>2, <2>3, <2>4, ZenonT(30)
<1>10. CASE ~(garbage_size' < garbage_threshold)
  <2>1. pc' = [pc EXCEPT ![t] = "collect"]
        /\ r' = [r EXCEPT ![t] = [r[t] EXCEPT !.unchecked = Threads \ {t}]]
    BY <1>1, <1>10 DEF collect_free, Goto
  <2>2. Threads \ {t} \in SUBSET Threads OBVIOUS
  <2> QED BY <1>8, <2>1, <2>2, ZenonT(30)
<1> QED BY <1>9, <1>10

(* The garbage is freed.                                                   *)
LEMMA DisposeShared ==
  ASSUME Core, NEW t \in Threads, pc[t] = "collect", Dispose, r' = r, build' = build,
         pc' \in [Threads -> Pcs], pc'[t] = AfterFree(t)
  PROVE  /\ TypeOK' /\ SharedOK' /\ Writes(t)' /\ runtimeLock' = t
         /\ DOMAIN mem' = DOMAIN mem \ garbage /\ \A b \in DOMAIN mem' : mem'[b] = mem[b]
<1>0. pc[t] \in Locked /\ pc[t] \in Locked \ {"setMask"} BY DEF Locked
<1>1. /\ runtimeLock = t /\ Writes(t) /\ r \in [Threads -> RegisterSet]
  BY <1>0, Holder
<1>2. /\ r[t].op = "insert" => buckets # Empty
      /\ r[t].op = "insert" => r[t].sel \in Selectors /\ r[t].imp = <<r[t].sel, imps[r[t].sel]>>
  BY <1>0, <1>1 DEF Writes, At
<1>3. DOMAIN mem' = DOMAIN mem \ garbage /\ \A b \in DOMAIN mem' : mem'[b] = mem[b]
  BY DEF Dispose
<1>4. /\ buckets' = buckets /\ mask' = mask /\ occupied' = occupied /\ garbage' = {} /\ garbage_size' = 0
      /\ imps' = imps /\ settled' = settled /\ missed' = missed /\ runtimeLock' = t
      /\ UNCHANGED <<cache, methods>>
  BY <1>1 DEF Dispose, cache, methods
<1>5. TypeOK BY DEF Core
<1>6. TypeOK'
  <2>1. RegisterSet' = RegisterSet BY SameRegisters
  <2>2. mem'[Empty] = mem[Empty] /\ Empty \in DOMAIN mem' BY <1>3, <1>5, ZenonT(30) DEF TypeOK
  <2> QED BY <1>1, <1>3, <1>4, <1>5, <2>1, <2>2, SameBuild DEF TypeOK
<1>7. SharedOK'
  <2>1. ASSUME NEW b \in DOMAIN mem' PROVE BucketsOK(b)'
    BY <1>3, <1>4, SameBuffer, NumbersStay
  <2>2. mem'[buckets] = mem[buckets] BY <1>3, <1>5 DEF TypeOK
  <2>3. \A s : ~Changing(s) BY <1>0, <1>1, NotChanging
  <2> QED BY <1>0, <1>4, <2>1, <2>2, <2>3, SameCache DEF SharedOK
<1>8. Writes(t)'
  BY <1>2, <1>4 DEF Writes, At, Locked, AfterFree
<1> QED BY <1>3, <1>4, <1>6, <1>7, <1>8

(* All other threads were seen outside their searches: nobody searches     *)
(* garbage any more.                                                       *)
LEMMA CollectStep ==
  ASSUME Core, NEW t \in Threads, Collect(t), build' = build
  PROVE  Core'
<1>0. pc[t] = "collect" /\ pc[t] \in Locked /\ r' = r /\ Dispose /\ r[t].unchecked = {}
      /\ pc' = [pc EXCEPT ![t] = AfterFree(t)]
  BY DEF Collect, At, Locked, Goto
<1>1. /\ runtimeLock = t /\ Writes(t) /\ ~Dereferences(t)
      /\ r[t].sel \in Selectors => r[t].since <= settled[r[t].sel]
      /\ pc \in [Threads -> Pcs] /\ r \in [Threads -> RegisterSet]
  BY <1>0, Holder
<1>2. AfterFree(t) \in {"place", "unlock"} BY DEF AfterFree
<1>3. pc' \in [Threads -> Pcs] /\ pc'[t] = AfterFree(t) BY <1>0, <1>1, <1>2 DEF Pcs, Locked
<1>4. /\ TypeOK' /\ SharedOK' /\ Writes(t)' /\ runtimeLock' = t
      /\ DOMAIN mem' = DOMAIN mem \ garbage /\ \A b \in DOMAIN mem' : mem'[b] = mem[b]
  BY <1>0, <1>3, DisposeShared
<1>5. settled' = settled /\ mask' = mask /\ UNCHANGED <<cache, methods>> BY <1>0 DEF Dispose, cache, methods
<1>6. ThreadOK(t)'
  <2>1. (Allocated(t) /\ Reads(t) /\ Returns(t))'
    BY <1>0, <1>1, <1>2, <1>3, <1>5 DEF Allocated, Reads, Returns, Dereferences, At
  <2> QED BY <1>4, <2>1 DEF ThreadOK
<1>7. ASSUME NEW u \in Threads \ {t}, Dereferences(u) PROVE Kept(r[u].buckets)
  <2>1. r[u].buckets \notin garbage BY <1>0, <1>1, <1>7 DEF Writes, At
  <2>2. r[u].buckets \in DOMAIN mem BY <1>7, SearchFacts
  <2> QED BY <1>4, <2>1, <2>2 DEF Kept
<1>8. (\A s \in Selectors : settled'[s] >= settled[s]) /\ mask' >= mask
  <2>1. settled \in [Selectors -> 0 .. MaxChanges] /\ mask \in 0 .. MAX_CACHE_SIZE - 1
    BY DEF Core, TypeOK
  <2> QED BY <1>5, <2>1
<1>9. r' = [r EXCEPT ![t] = r[t]] BY <1>0, <1>1
<1> QED BY <1>0, <1>1, <1>4, <1>6, <1>7, <1>8, <1>9, WriterStep, ZenonT(30)

(* The kernel sends every search to the slow path, and the garbage goes.   *)
LEMMA CollectRestartingStep ==
  ASSUME Core, NEW t \in Threads, CollectRestarting(t), build' = build
  PROVE  Core'
<1>0. /\ pc[t] = "collect" /\ pc[t] \in Locked /\ r' = r /\ Dispose
      /\ pc' = [u \in Threads |-> IF u = t THEN AfterFree(t) ELSE IF Critical(u) THEN "slow" ELSE pc[u]]
  BY DEF CollectRestarting, At, Locked
<1>1. /\ runtimeLock = t /\ Writes(t) /\ ~Dereferences(t)
      /\ r[t].sel \in Selectors => r[t].since <= settled[r[t].sel]
      /\ pc \in [Threads -> Pcs] /\ r \in [Threads -> RegisterSet]
      /\ \A u \in Threads \ {t} : pc[u] \notin Locked
  BY <1>0, Holder
<1>2. AfterFree(t) \in {"place", "unlock"} BY DEF AfterFree
<1>3. pc' \in [Threads -> Pcs] /\ pc'[t] = AfterFree(t) BY <1>0, <1>1, <1>2 DEF Pcs, Locked
<1>4. TypeOK' /\ SharedOK' /\ Writes(t)' /\ runtimeLock' = t BY <1>0, <1>3, DisposeShared
<1>5. settled' = settled /\ mask' = mask BY <1>0 DEF Dispose, cache, methods
<1>6. ThreadOK(t)'
  <2>1. (Allocated(t) /\ Reads(t) /\ Returns(t))'
    BY <1>0, <1>1, <1>2, <1>3, <1>5 DEF Allocated, Reads, Returns, Dereferences, At
  <2> QED BY <1>4, <2>1 DEF ThreadOK
<1>7. ASSUME NEW u \in Threads \ {t} PROVE ThreadOK(u)'
  <2>1. ThreadOK(u) /\ runtimeLock' # u BY <1>4 DEF Core
  <2>2. CASE Critical(u)
    <3>1. pc'[u] = "slow" BY <1>0, <2>2
    <3>2. (Allocated(u) /\ Returns(u))' BY <3>1 DEF Allocated, Returns, Dereferences, At
    <3>3. r[u].sel \in Selectors /\ r[u].since <= settled[r[u].sel]
      BY <2>1, <2>2 DEF ThreadOK, Reads, Critical
    <3>4. Reads(u)' BY <1>0, <1>5, <3>1, <3>3 DEF Reads, At, Dereferences
    <3>5. Writes(u)' BY <2>1, <3>1 DEF Writes, At, Locked
    <3> QED BY <3>2, <3>4, <3>5 DEF ThreadOK
  <2>3. CASE ~Critical(u)
    <3>1. pc'[u] = pc[u] /\ r'[u] = r[u] /\ pc[u] \notin Locked BY <1>0, <1>1, <2>3
    <3>2. ~Dereferences(u) BY <2>3 DEF Critical, Dereferences
    <3>3. settled \in [Selectors -> 0 .. MaxChanges] /\ mask \in 0 .. MAX_CACHE_SIZE - 1
      BY DEF Core, TypeOK
    <3>4. settled' \in [Selectors -> Nat] /\ (\A s \in Selectors : settled'[s] >= settled[s])
          /\ mask' \in Nat /\ mask' >= mask
      BY <1>5, <3>3
    <3> QED BY <2>1, <3>1, <3>2, <3>4, OthersKeep
  <2> QED BY <2>2, <2>3
<1> QED BY <1>4, <1>6, <1>7 DEF Core

-----------------------------------------------------------------------------
(* The invariant holds.                                                    *)

(* An empty cache, with nobody in it.                                      *)
LEMMA CoreInit == ASSUME Init PROVE Core
<1> USE DEF Init
<1>1. /\ INIT_CACHE_SIZE \in Nat \ {0} /\ MAX_CACHE_SIZE \in Nat \ {0}
      /\ 0 \in 0 .. MAX_CACHE_SIZE - 1 /\ 0 .. 0 \subseteq 0 .. MAX_CACHE_SIZE - 1
      /\ MAX_CACHE_SIZE \in 1 .. MAX_CACHE_SIZE
  <2>1. BuildOK(build) BY BuildsAssumption
  <2>2. INIT_CACHE_SIZE \in Nat \ {0} /\ MAX_CACHE_SIZE \in Nat /\ MAX_CACHE_SIZE >= INIT_CACHE_SIZE
    BY <2>1 DEF BuildOK, INIT_CACHE_SIZE, MAX_CACHE_SIZE
  <2> QED BY <2>2
<1>2. 0 \in 0 .. MaxChanges BY CacheAssumption
<1>3. DOMAIN mem = {Empty} /\ mem[Empty] = [i \in 0 .. MAX_CACHE_SIZE - 1 |-> Vacant] OBVIOUS
<1>4. Registers \in RegisterSet BY <1>1, <1>2 DEF Registers, RegisterSet
<1>5. TypeOK
  <2>1. pc \in [Threads -> Pcs] /\ r \in [Threads -> RegisterSet] BY <1>4 DEF Pcs
  <2> QED BY <1>1, <1>2, <1>3, <2>1 DEF TypeOK
<1>6. Vacant.sel \notin Selectors /\ Vacant.sel # End
      /\ Vacant \in [sel: Selectors \cup {Nil, End}, imp: Imps \cup {None}]
  BY Markers DEF Vacant, Bucket
<1>7. SharedOK
  <2>1. BucketsOK(Empty) BY <1>1, <1>3, <1>6 DEF BucketsOK
  <2>2. Entries = {} BY <1>3, <1>6 DEF Entries
  <2>3. CacheOK BY <1>1, <1>3, <2>2 DEF CacheOK
  <2>4. EntriesFresh BY <2>2 DEF EntriesFresh
  <2> QED BY <1>3, <2>1, <2>3, <2>4 DEF SharedOK
<1>8. ASSUME NEW t \in Threads PROVE ThreadOK(t)
  <2>1. pc[t] = "idle" /\ r[t] = Registers /\ Registers.sel \notin Selectors /\ runtimeLock # t
    BY Markers, CacheAssumption DEF Registers
  <2>2. Allocated(t) /\ Reads(t) /\ Returns(t)
    BY <2>1 DEF Allocated, Reads, Returns, Dereferences, At
  <2>3. Writes(t) BY <2>1 DEF Writes, At, Locked
  <2> QED BY <2>2, <2>3 DEF ThreadOK
<1> QED BY <1>5, <1>7, <1>8 DEF Core

(* Nothing happens.                                                        *)
LEMMA CoreStutter == ASSUME Core, UNCHANGED vars PROVE Core'
<1> USE DEF vars, cache, trash, methods
<1>1. TypeOK'
  <2>1. RegisterSet' = RegisterSet BY SameRegisters
  <2> QED BY <2>1, SameBuild DEF Core, TypeOK
<1>2. SharedOK'
  <2>1. \A b \in DOMAIN mem : BucketsOK(b)'
    <3>1. \A b \in DOMAIN mem : BucketsOK(b) BY DEF Core, SharedOK
    <3> QED BY <3>1, SameBuild DEF BucketsOK
  <2>2. Entries' = Entries BY DEF Entries
  <2>3. CacheOK' BY <2>2 DEF Core, SharedOK, CacheOK, At
  <2>4. \A s : Changing(s) => Changing(s)' BY DEF Changing
  <2>5. EntriesFresh' BY <2>2, <2>4 DEF Core, SharedOK, EntriesFresh
  <2> QED BY <2>1, <2>3, <2>5 DEF Core, SharedOK
<1>3. ASSUME NEW t \in Threads PROVE ThreadOK(t)'
  <2>1. ThreadOK(t) BY DEF Core
  <2>2. (Allocated(t) /\ Returns(t))' BY <2>1 DEF ThreadOK, Allocated, Returns, Dereferences, At
  <2>3. Reads(t)' BY <2>1, SameBuild DEF ThreadOK, Reads, Dereferences, At, Here
  <2>4. Writes(t)' BY <2>1 DEF ThreadOK, Writes, Dereferences, At
  <2> QED BY <2>2, <2>3, <2>4 DEF ThreadOK
<1> QED BY <1>1, <1>2, <1>3 DEF Core

(* Every step keeps the invariant.                                         *)
LEMMA CoreStep == ASSUME Core, [Next]_vars PROVE Core'
<1>1. CASE UNCHANGED vars BY <1>1, CoreStutter
<1>2. ASSUME NEW t \in Threads, Step(t), build' = build PROVE Core'
  <2>1. ASSUME NEW sel \in Selectors, objc_msgSend(t, sel) \/ method_setImplementation(t, sel)
        PROVE  Core'
    BY <1>2, <2>1, MsgSendStep, ChangeStep
  <2>2. CASE _objc_flush_caches(t) BY <1>2, <2>2, FlushStep
  <2>3. CASE Search(t)
    BY <1>2, <2>3, LoadBucketsStep, ComparePackedStep, CompareStep, ClassifyStep, CacheHitStep,
       CallImpStep DEF Search
  <2>4. CASE Interrupted(t) BY <1>2, <2>4, InterruptedStep
  <2>5. CASE lookUpImpOrForward(t) BY <1>2, <2>5, LookUpStep
  <2>6. CASE Write(t)
    <3>1. ASSUME NEW u \in Threads, CheckThread(t, u) PROVE Core' BY <1>2, <3>1, CheckThreadStep
    <3>2. CASE insert(t) BY <1>2, <3>2, InsertStep
    <3>3. CASE SetBuckets(t) \/ SetMask(t) BY <1>2, <3>3, SetBucketsStep
    <3>4. CASE Place(t) BY <1>2, <3>4, PlaceStep
    <3>5. CASE SetSel(t) BY <1>2, <3>5, SetSelStep
    <3>6. CASE eraseNolock(t) BY <1>2, <3>6, EraseStep
    <3>7. CASE Unlock(t) BY <1>2, <3>7, UnlockStep
    <3>8. CASE collect_free(t) BY <1>2, <3>8, CollectFreeStep
    <3>9. CASE CollectRestarting(t) BY <1>2, <3>9, CollectRestartingStep
    <3>10. CASE Collect(t) BY <1>2, <3>10, CollectStep
    <3> QED BY <2>6, <3>1, <3>2, <3>3, <3>4, <3>5, <3>6, <3>7, <3>8, <3>9, <3>10 DEF Write
  <2>7. CASE CollectALot(t) BY <1>2, <2>7, CollectALotStep
  <2> QED BY <1>2, <2>1, <2>2, <2>3, <2>4, <2>5, <2>6, <2>7 DEF Step
<1> QED BY <1>1, <1>2 DEF Next

=============================================================================
