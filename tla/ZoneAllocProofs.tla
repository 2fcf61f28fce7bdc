-------------------------- MODULE ZoneAllocProofs ---------------------------
(***************************************************************************)
(* Proof that the lock-free stack of the zone allocator is a stack, for    *)
(* any number of threads, slabs and elements: the generation number makes  *)
(* up for the torn read of the pair and for the reuse of elements.         *)
(***************************************************************************)
EXTENDS ZoneAlloc, SequenceTheorems, FiniteSetTheorems, WellFoundedInduction, TLAPS

\* The provers' time limits, for slow machines.
USE SMTT(30), ZenonT(30)

(* The links nx lead from h through the elements of S, in order, to        *)
(* nullptr.                                                                *)
Chain(S, h, nx) ==
    /\ S \in Seq(Elements) /\ IsInjective(S)
    /\ h = IF S = <<>> THEN Null ELSE S[1]
    /\ \A i \in 1 .. Len(S) : nx[S[i]] = IF i = Len(S) THEN Null ELSE S[i + 1]

(* The inductive invariant, with the free list as a sequence that the      *)
(* links lead through instead of what a walk finds.                        *)
Accounts(S, slabsInUse, outside) ==
    /\ outside \cap Range(S) = {}
    /\ outside \cup Range(S) = slabsInUse \X (0 .. NElem - 1)
Core ==
    /\ TypeOK /\ Disjoint /\ Zeroed
    /\ \A t \in Threads : CallOK(t)
    /\ \E S : Chain(S, head, next) /\ Accounts(S, slabs, Out)

-----------------------------------------------------------------------------
(* Counting elements.                                                      *)

(* A set of numbers has a least member.                                    *)
LEMMA Least ==
  ASSUME NEW T, T \subseteq Nat, T # {}
  PROVE  \E x \in T : \A y \in T : x <= y
<1>1. PICK x \in T : \A y \in T : ~(<<y, x>> \in OpToRel(<, Nat))
  BY NatLessThanWellFounded, WFMin, ZenonT(30)
<1>2. ASSUME NEW y \in T PROVE x <= y
  <2>1. ~(<<y, x>> \in OpToRel(<, Nat))
    BY <1>1, ZenonT(30)
  <2>2. ~(y < x)
    BY <2>1 DEF OpToRel
  <2> QED BY <2>2
<1> QED BY <1>2

(* There are finitely many elements.                                       *)
LEMMA ElementsFinite == IsFiniteSet(Elements) /\ Cardinality(Elements) \in Nat
<1>1. IsFiniteSet(0 .. NElem - 1)
  BY NElemAssumption, FS_Interval
<1>2. IsFiniteSet(Elements)
  BY <1>1, SlabsAssumption, FS_Product, ZenonT(30) DEF Elements
<1> QED BY <1>2, FS_CardinalityType

(* A list that repeats no element is no longer than the set of elements.   *)
LEMMA ShortList ==
  ASSUME NEW S \in Seq(Elements), IsInjective(S)
  PROVE  Len(S) <= Cardinality(Elements)
<1>1. Len(S) \in Nat /\ DOMAIN S = 1 .. Len(S) /\ S \in [1 .. Len(S) -> Elements]
  BY LenProperties
<1>2. S \in Injection(1 .. Len(S), Elements)
  BY <1>1 DEF IsInjective, Injection
<1>3. Cardinality(1 .. Len(S)) <= Cardinality(Elements)
  BY <1>2, ElementsFinite, FS_Injection
<1>4. Cardinality(1 .. Len(S)) = Len(S)
  BY <1>1, FS_Interval
<1> QED BY <1>3, <1>4

\* A record update is beyond the types that the SMT translation infers. With this
\* fact at hand it infers none, which is quicker.
LEMMA Untyped == \A r : [r EXCEPT !.field = r.field] = [r EXCEPT !.field = r.field]
OBVIOUS

USE Untyped

-----------------------------------------------------------------------------
(* The walk from head.                                                     *)

(* The first k words of a list that a chain makes, with nullptr at its     *)
(* end.                                                                    *)
Prefix(S, k) == SubSeq(Append(S, Null), 1, IF k <= Len(S) THEN k + 1 ELSE Len(S) + 1)

(* Prefixes are walks whose last word is known.                            *)
LEMMA PrefixFacts ==
  ASSUME NEW S \in Seq(Elements), NEW k \in Nat
  PROVE  /\ Prefix(S, k) \in Seq(Words)
         /\ Len(Prefix(S, k)) = IF k <= Len(S) THEN k + 1 ELSE Len(S) + 1
         /\ \A i \in 1 .. Len(Prefix(S, k)) :
                Prefix(S, k)[i] = IF i <= Len(S) THEN S[i] ELSE Null
<1> DEFINE W == Append(S, Null)
           n == IF k <= Len(S) THEN k + 1 ELSE Len(S) + 1
<1>0. Len(S) \in Nat
  BY LenProperties
<1>1. S \in Seq(Words) /\ Null \in Words
  BY DEF Words
<1>2. W \in Seq(Words) /\ Len(W) = Len(S) + 1
  BY <1>1, AppendProperties
<1>3. \A i \in 1 .. Len(S) + 1 : W[i] = IF i <= Len(S) THEN S[i] ELSE Null
  BY <1>0, <1>1, AppendProperties
<1>4. n \in 0 .. Len(W) /\ n \in Nat
  BY <1>0, <1>2
<1> HIDE DEF W, n
<1>5. SubSeq(W, 1, n) \in Seq(Words) /\ Len(SubSeq(W, 1, n)) = n
  BY <1>2, <1>4, SubSeqProperties
<1>6. \A i \in 1 .. n : SubSeq(W, 1, n)[i] = W[i]
  BY <1>2, <1>4, SubSeqProperties
<1>7. Prefix(S, k) = SubSeq(W, 1, n)
  BY DEF Prefix, W, n
<1>8. \A i \in 1 .. n : W[i] = IF i <= Len(S) THEN S[i] ELSE Null
  BY <1>0, <1>2, <1>3, <1>4
<1> QED BY <1>5, <1>6, <1>7, <1>8 DEF n

(* One step of the walk takes a prefix to the next one.                    *)
LEMMA PrefixStep ==
  ASSUME NEW S, Chain(S, head, next), NEW k \in Nat \ {0}
  PROVE  Step[Prefix(S, k - 1)] = Prefix(S, k)
<1> DEFINE P == Prefix(S, k - 1)
           Q == Prefix(S, k)
<1>0. S \in Seq(Elements) /\ Len(S) \in Nat /\ k - 1 \in Nat /\ k \in Nat
  BY LenProperties DEF Chain
<1>1. /\ P \in Seq(Words)
      /\ Len(P) = IF k - 1 <= Len(S) THEN k ELSE Len(S) + 1
      /\ \A i \in 1 .. Len(P) : P[i] = IF i <= Len(S) THEN S[i] ELSE Null
  BY <1>0, PrefixFacts
<1>2. /\ Q \in Seq(Words)
      /\ Len(Q) = IF k <= Len(S) THEN k + 1 ELSE Len(S) + 1
      /\ \A i \in 1 .. Len(Q) : Q[i] = IF i <= Len(S) THEN S[i] ELSE Null
  BY <1>0, PrefixFacts
<1> HIDE DEF P, Q
<1>3. Step[P] = IF Last(P) \in Elements THEN Append(P, next[Last(P)]) ELSE P
  BY <1>1 DEF Step
<1>4. Last(P) = P[Len(P)] /\ Len(P) \in 1 .. Len(S) + 1
  BY <1>0, <1>1 DEF Last
<1>5. CASE k <= Len(S)
  <2>1. Len(P) = k /\ Last(P) = S[k] /\ S[k] \in Elements
    BY <1>0, <1>1, <1>4, <1>5, ElementOfSeq
  <2>2. next[S[k]] = IF k = Len(S) THEN Null ELSE S[k + 1]
    BY <1>0, <1>5 DEF Chain
  <2>3. next[S[k]] \in Words
    BY <1>0, <1>5, <2>2, ElementOfSeq DEF Words
  <2>4. Append(P, next[S[k]]) \in Seq(Words) /\ Len(Append(P, next[S[k]])) = k + 1
    BY <1>1, <2>1, <2>3, AppendProperties
  <2>5. \A i \in 1 .. k + 1 : Append(P, next[S[k]])[i] = IF i <= k THEN P[i] ELSE next[S[k]]
    BY <1>0, <1>1, <2>1, <2>3, AppendProperties
  <2>6. \A i \in 1 .. k + 1 : Append(P, next[S[k]])[i] = Q[i]
    <3> HIDE Untyped
    <3> QED BY <1>0, <1>1, <1>2, <1>5, <2>1, <2>2, <2>5
  <2>7. Len(Q) = k + 1
    BY <1>2, <1>5
  <2>8. Append(P, next[S[k]]) = Q
    BY <1>2, <2>4, <2>6, <2>7, SeqEqual
  <2> QED BY <1>3, <2>1, <2>8 DEF P, Q
<1>6. CASE k > Len(S)
  <2>1. Len(P) = Len(S) + 1 /\ Len(Q) = Len(S) + 1
    BY <1>0, <1>1, <1>2, <1>6
  <2>2. Last(P) = Null /\ Null \notin Elements
    BY <1>0, <1>1, <1>4, <2>1, SlabsAssumption DEF Elements
  <2>3. \A i \in 1 .. Len(P) : P[i] = Q[i]
    BY <1>1, <1>2, <2>1
  <2>4. P = Q
    BY <1>1, <1>2, <2>1, <2>3, SeqEqual
  <2> QED BY <1>3, <2>2, <2>4 DEF P, Q
<1> QED BY <1>0, <1>5, <1>6

(* The walk takes the prefixes one after the other, and no other way.      *)
LEMMA WalkPrefixes ==
  ASSUME NEW S, Chain(S, head, next)
  PROVE  \A k \in Nat : WalkTo[k] = Prefix(S, k)
<1> DEFINE f == [k \in Nat |-> Prefix(S, k)]
           Rec(g) == [k \in Nat |-> IF k = 0 THEN <<head>> ELSE Step[g[k - 1]]]
<1>1. Prefix(S, 0) = <<head>>
  <2>1. S \in Seq(Elements) /\ Len(S) \in Nat
    BY LenProperties DEF Chain
  <2>2. /\ Prefix(S, 0) \in Seq(Words)
        /\ Len(Prefix(S, 0)) = 1
        /\ Prefix(S, 0)[1] = IF 1 <= Len(S) THEN S[1] ELSE Null
    <3> DEFINE P == Prefix(S, 0)
    <3>1. /\ P \in Seq(Words)
          /\ Len(P) = IF 0 <= Len(S) THEN 0 + 1 ELSE Len(S) + 1
          /\ \A i \in 1 .. Len(P) : P[i] = IF i <= Len(S) THEN S[i] ELSE Null
      BY <2>1, PrefixFacts, ZenonT(30)
    <3> HIDE DEF P
    <3>2. Len(P) = 1
      BY <2>1, <3>1
    <3> QED BY <3>1, <3>2 DEF P
  <2>3. head = IF 1 <= Len(S) THEN S[1] ELSE Null
    BY <2>1, EmptySeq DEF Chain
  <2> QED BY <2>2, <2>3
<1>2. f = Rec(f)
  <2>1. ASSUME NEW k \in Nat PROVE f[k] = IF k = 0 THEN <<head>> ELSE Step[f[k - 1]]
    <3>1. CASE k = 0
      BY <1>1, <3>1
    <3>2. CASE k # 0
      BY <3>2, PrefixStep
    <3> QED BY <3>1, <3>2
  <2> QED BY <2>1, ZenonT(30)
<1>3. WalkTo = Rec(WalkTo)
  <2>1. \E g : g = Rec(g)
    BY <1>2, ZenonT(30)
  <2>2. WalkTo = CHOOSE g : g = Rec(g)
    BY DEF WalkTo
  <2> QED BY <2>1, <2>2
<1> DEFINE T == {k \in Nat : WalkTo[k] # f[k]}
<1>4. T = {}
  <2> SUFFICES ASSUME T # {} PROVE FALSE
    OBVIOUS
  <2>1. PICK m \in T : \A y \in T : m <= y
    BY Least, ZenonT(30)
  <2>2. m # 0
    BY <1>1, <1>3, <2>1
  <2>3. m - 1 \in Nat /\ m - 1 \notin T
    BY <2>1, <2>2
  <2>4. WalkTo[m - 1] = f[m - 1]
    BY <2>3
  <2>5. WalkTo[m] = Step[WalkTo[m - 1]]
    BY <1>3, <2>2
  <2>6. f[m] = Step[f[m - 1]]
    BY <1>2, <2>2
  <2> QED BY <2>1, <2>4, <2>5, <2>6
<1> QED BY <1>4, ZenonT(30)

(* What a walk finds when the links make a chain.                          *)
LEMMA WalkFinds ==
  ASSUME NEW S, Chain(S, head, next)
  PROVE  FreeList = S /\ Last(Walk) = Null
<1>0. S \in Seq(Elements) /\ IsInjective(S) /\ Len(S) \in Nat
  BY LenProperties DEF Chain
<1>1. Len(S) <= Cardinality(Elements) /\ Cardinality(Elements) \in Nat
  BY <1>0, ShortList, ElementsFinite
<1>2. Walk = Prefix(S, Cardinality(Elements))
  BY <1>1, WalkPrefixes DEF Walk
<1>3. /\ Walk \in Seq(Words) /\ Len(Walk) = Len(S) + 1
      /\ \A i \in 1 .. Len(S) + 1 : Walk[i] = IF i <= Len(S) THEN S[i] ELSE Null
  BY <1>0, <1>1, <1>2, PrefixFacts
<1>4. Last(Walk) = Null
  BY <1>0, <1>3 DEF Last
<1>5. /\ FreeList \in Seq(Words) /\ Len(FreeList) = Len(S)
      /\ \A i \in 1 .. Len(S) : FreeList[i] = Walk[i]
  BY <1>0, <1>3, SubSeqProperties DEF FreeList
<1>6. S \in Seq(Words)
  BY <1>0 DEF Words
<1>7. FreeList = S
  BY <1>0, <1>3, <1>5, <1>6, SeqEqual
<1> QED BY <1>4, <1>7


-----------------------------------------------------------------------------
(* What pops and pushes do to a chain.                                     *)

(* Links of elements off the chain do not matter to it.                    *)
LEMMA ChainKeeps ==
  ASSUME NEW S, NEW h, NEW nx, NEW ny, Chain(S, h, nx),
         \A e \in Range(S) : ny[e] = nx[e]
  PROVE  Chain(S, h, ny)
<1>1. S \in Seq(Elements) /\ DOMAIN S = 1 .. Len(S)
  BY LenProperties DEF Chain
<1>2. \A i \in 1 .. Len(S) : S[i] \in Range(S)
  BY <1>1 DEF Range
<1> QED BY <1>1, <1>2, ZenonT(30) DEF Chain

(* The head of a chain is nullptr or its first element.                    *)
LEMMA ChainHead ==
  ASSUME NEW S, NEW h, NEW nx, Chain(S, h, nx)
  PROVE  /\ h \in Elements \cup {Null}
         /\ S = <<>> <=> h = Null
         /\ S # <<>> => h \in Range(S)
<1>0. S \in Seq(Elements) /\ Len(S) \in Nat /\ DOMAIN S = 1 .. Len(S)
  BY LenProperties DEF Chain
<1>1. CASE S = <<>>
  BY <1>1 DEF Chain
<1>2. CASE S # <<>>
  <2>1. Len(S) >= 1
    BY <1>0, <1>2, EmptySeq
  <2>2. h = S[1]
    BY <1>2 DEF Chain
  <2>3. S[1] \in Elements
    BY <1>0, <2>1, ElementOfSeq
  <2>4. S[1] \in Range(S)
    BY <1>0, <2>1 DEF Range
  <2> QED BY <1>2, <2>2, <2>3, <2>4, SlabsAssumption DEF Elements
<1> QED BY <1>1, <1>2

(* A pop leaves the rest of the chain.                                     *)
LEMMA ChainPop ==
  ASSUME NEW S, NEW h, NEW nx, Chain(S, h, nx), h # Null
  PROVE  /\ S # <<>> /\ Head(S) = h
         /\ Chain(Tail(S), nx[h], nx)
         /\ Range(S) = Range(Tail(S)) \cup {h}
         /\ h \notin Range(Tail(S))
<1>1. S # <<>>
  BY ChainHead
<1>2. S \in Seq(Elements) /\ Len(S) \in Nat \ {0} /\ DOMAIN S = 1 .. Len(S)
  BY <1>1, LenProperties, EmptySeq DEF Chain
<1>3. /\ Head(S) = S[1]
      /\ Tail(S) \in Seq(Elements) /\ Len(Tail(S)) = Len(S) - 1
      /\ \A i \in 1 .. Len(S) - 1 : Tail(S)[i] = S[i + 1]
  BY <1>1, <1>2, HeadTailProperties
<1>4. h = S[1]
  BY <1>1 DEF Chain
<1>5. DOMAIN Tail(S) = 1 .. Len(S) - 1
  BY <1>3, LenProperties
<1> DEFINE T == Tail(S)
<1> HIDE DEF T
<1>6. T \in Seq(Elements) /\ Len(T) = Len(S) - 1 /\ DOMAIN T = 1 .. Len(S) - 1
      /\ \A i \in 1 .. Len(S) - 1 : T[i] = S[i + 1]
  BY <1>3, <1>5 DEF T
<1>7. \A a, b \in 1 .. Len(S) : S[a] = S[b] => a = b
  BY <1>2, ZenonT(30) DEF Chain, IsInjective
<1>8. IsInjective(T)
  <2> SUFFICES ASSUME NEW a \in 1 .. Len(S) - 1, NEW b \in 1 .. Len(S) - 1, T[a] = T[b]
               PROVE  a = b
    BY <1>6 DEF IsInjective
  <2>1. S[a + 1] = S[b + 1] /\ a + 1 \in 1 .. Len(S) /\ b + 1 \in 1 .. Len(S)
    BY <1>2, <1>6
  <2>2. a + 1 = b + 1
    BY <1>7, <2>1
  <2> QED BY <2>2
<1>9. nx[h] = IF T = <<>> THEN Null ELSE T[1]
  <2>1. nx[h] = IF 1 = Len(S) THEN Null ELSE S[2]
    <3>1. 1 \in 1 .. Len(S) /\ 1 + 1 = 2
      BY <1>2
    <3>2. nx[S[1]] = IF 1 = Len(S) THEN Null ELSE S[1 + 1]
      BY <3>1, ZenonT(30) DEF Chain
    <3> QED BY <1>4, <3>1, <3>2
  <2>2. CASE Len(S) = 1
    <3>1. T = <<>>
      BY <1>6, <2>2, EmptySeq
    <3> QED BY <2>1, <2>2, <3>1
  <2>3. CASE Len(S) # 1
    <3>1. T # <<>> /\ T[1] = S[2]
      BY <1>2, <1>6, <2>3, EmptySeq
    <3> QED BY <2>1, <2>3, <3>1
  <2> QED BY <2>2, <2>3
<1>10. ASSUME NEW i \in 1 .. Len(T) PROVE nx[T[i]] = IF i = Len(T) THEN Null ELSE T[i + 1]
  <2>1. i + 1 \in 1 .. Len(S) /\ T[i] = S[i + 1]
    BY <1>2, <1>6
  <2>2. nx[S[i + 1]] = IF i + 1 = Len(S) THEN Null ELSE S[(i + 1) + 1]
    BY <2>1 DEF Chain
  <2>3. CASE i = Len(T)
    BY <1>2, <1>6, <2>1, <2>2, <2>3
  <2>4. CASE i # Len(T)
    <3>0. Len(S) \in Nat /\ Len(T) = Len(S) - 1
      BY <1>2, <1>6
    <3>1. i + 1 \in 1 .. Len(S) - 1 /\ i + 1 # Len(S)
      BY <2>4, <3>0
    <3>2. T[i + 1] = S[(i + 1) + 1]
      BY <1>6, <3>1
    <3> QED BY <2>1, <2>2, <2>4, <3>1, <3>2
  <2> QED BY <2>3, <2>4
<1>11. Chain(T, nx[h], nx)
  BY <1>6, <1>8, <1>9, <1>10 DEF Chain
<1>12. Range(S) = Range(T) \cup {h}
  <2>1. ASSUME NEW i \in 1 .. Len(S) PROVE S[i] \in Range(T) \cup {h}
    <3>1. CASE i = 1
      BY <3>1, <1>4
    <3>2. CASE i # 1
      <4>1. i - 1 \in DOMAIN T /\ T[i - 1] = S[i]
        BY <1>2, <1>6, <3>2
      <4> QED BY <4>1 DEF Range
    <3> QED BY <3>1, <3>2
  <2>2. \A i \in DOMAIN T : i + 1 \in DOMAIN S /\ T[i] = S[i + 1]
    BY <1>2, <1>6
  <2> QED BY <1>2, <1>4, <2>1, <2>2 DEF Range
<1>13. h \notin Range(T)
  <2> SUFFICES ASSUME NEW i \in DOMAIN T, T[i] = h PROVE FALSE
    BY DEF Range
  <2>1. i + 1 \in 1 .. Len(S) /\ S[i + 1] = S[1] /\ 1 \in 1 .. Len(S)
    BY <1>2, <1>4, <1>6
  <2>2. i + 1 = 1
    BY <1>7, <2>1
  <2> QED BY <1>2, <1>6, <2>2
<1> QED BY <1>1, <1>3, <1>4, <1>11, <1>12, <1>13 DEF T

(* A place beyond a of a sequence of length a + b, and not its last.       *)
LEMMA Beyond ==
  ASSUME NEW a \in Nat, NEW b \in Nat, NEW i \in Nat, i > a, i <= a + b, i # a + b
  PROVE  i + 1 \in 1 .. a + b /\ ~(i + 1 <= a) /\ (i + 1) - a = (i - a) + 1 /\ i - a # b
OBVIOUS

(* A push puts a linked list before the chain.                             *)
LEMMA ChainPush ==
  ASSUME NEW S, NEW h, NEW nx, Chain(S, h, nx),
         NEW L \in Seq(Elements), L # <<>>, IsInjective(L),
         Range(L) \cap Range(S) = {},
         \A i \in 1 .. Len(L) - 1 : nx[L[i]] = L[i + 1],
         nx[Last(L)] = h
  PROVE  /\ Chain(L \o S, Head(L), nx)
         /\ Range(L \o S) = Range(L) \cup Range(S)
<1>1. /\ S \in Seq(Elements) /\ Len(S) \in Nat /\ DOMAIN S = 1 .. Len(S)
      /\ Len(L) \in Nat \ {0} /\ DOMAIN L = 1 .. Len(L)
  BY LenProperties, EmptySeq DEF Chain
<1> DEFINE C == L \o S
<1>2. /\ C \in Seq(Elements) /\ Len(C) = Len(L) + Len(S)
      /\ \A i \in 1 .. Len(L) + Len(S) : C[i] = IF i <= Len(L) THEN L[i] ELSE S[i - Len(L)]
  BY <1>1, ConcatProperties
<1>3. Range(C) = Range(L) \cup Range(S)
  BY <1>1, RangeConcatenation
<1> HIDE DEF C
<1>4. C # <<>> /\ C[1] = L[1] /\ Head(L) = L[1] /\ DOMAIN C = 1 .. Len(L) + Len(S)
  BY <1>1, <1>2, EmptySeq, LenProperties, HeadTailProperties
<1>5. \A i \in 1 .. Len(L) : L[i] \in Range(L)
  BY <1>1 DEF Range
<1>6. \A i \in 1 .. Len(S) : S[i] \in Range(S)
  BY <1>1 DEF Range
<1>7. ASSUME NEW a \in DOMAIN C, NEW b \in DOMAIN C, C[a] = C[b] PROVE a = b
  <2>1. \A i, j \in 1 .. Len(L) : L[i] = L[j] => i = j
    BY <1>1 DEF IsInjective
  <2>2. \A i, j \in 1 .. Len(S) : S[i] = S[j] => i = j
    BY <1>1, ZenonT(30) DEF IsInjective, Chain
  <2>3. CASE a <= Len(L) /\ b <= Len(L)
    BY <1>1, <1>2, <1>4, <1>7, <2>1, <2>3
  <2>4. CASE a > Len(L) /\ b > Len(L)
    <3>1. C[a] = S[a - Len(L)] /\ C[b] = S[b - Len(L)]
          /\ a - Len(L) \in 1 .. Len(S) /\ b - Len(L) \in 1 .. Len(S)
      BY <1>1, <1>2, <1>4, <2>4
    <3>2. a - Len(L) = b - Len(L)
      BY <1>7, <2>2, <3>1, ZenonT(30)
    <3> QED BY <1>1, <1>4, <3>2
  <2>5. CASE a <= Len(L) /\ b > Len(L)
    <3>1. C[a] = L[a] /\ C[b] = S[b - Len(L)] /\ a \in 1 .. Len(L) /\ b - Len(L) \in 1 .. Len(S)
      BY <1>1, <1>2, <1>4, <2>5
    <3> QED BY <1>5, <1>6, <1>7, <3>1, ZenonT(30)
  <2>6. CASE a > Len(L) /\ b <= Len(L)
    <3>1. C[b] = L[b] /\ C[a] = S[a - Len(L)] /\ b \in 1 .. Len(L) /\ a - Len(L) \in 1 .. Len(S)
      BY <1>1, <1>2, <1>4, <2>6
    <3> QED BY <1>5, <1>6, <1>7, <3>1
  <2> QED BY <1>1, <1>4, <2>3, <2>4, <2>5, <2>6
<1>8. ASSUME NEW i \in 1 .. Len(C) PROVE nx[C[i]] = IF i = Len(C) THEN Null ELSE C[i + 1]
  <2>0. Len(C) = Len(L) + Len(S) /\ Len(L) \in Nat /\ Len(S) \in Nat
    BY <1>1, <1>2
  <2>9. i \in Nat /\ i >= 1 /\ i <= Len(L) + Len(S)
    BY <2>0
  <2>1. CASE i < Len(L)
    BY <1>1, <1>2, <2>1
  <2>2. CASE i = Len(L)
    <3>1. nx[C[i]] = h
      BY <1>1, <1>2, <2>2 DEF Last
    <3>2. CASE S = <<>>
      <4>1. Len(S) = 0 /\ h = Null
        BY <3>2 DEF Chain
      <4> QED BY <1>1, <1>2, <2>2, <3>1, <4>1
    <3>3. CASE S # <<>>
      <4>1. Len(S) > 0
        BY <1>1, <3>3, EmptySeq
      <4>2. h = S[1]
        BY <3>3 DEF Chain
      <4>3. i + 1 \in 1 .. Len(L) + Len(S) /\ ~(i + 1 <= Len(L)) /\ (i + 1) - Len(L) = 1 /\ i # Len(C)
        BY <2>0, <2>2, <4>1
      <4>4. C[i + 1] = S[(i + 1) - Len(L)]
        BY <1>2, <4>3
      <4>5. C[i + 1] = S[1]
        BY <4>3, <4>4
      <4> QED BY <3>1, <4>2, <4>3, <4>5
    <3> QED BY <3>2, <3>3
  <2>3. CASE i > Len(L)
    <3> DEFINE j == i - Len(L)
    <3>1. j \in 1 .. Len(S) /\ C[i] = S[j]
      BY <1>1, <1>2, <2>3
    <3>2. nx[S[j]] = IF j = Len(S) THEN Null ELSE S[j + 1]
      BY <3>1, ZenonT(30) DEF Chain
    <3>3. CASE i = Len(C)
      BY <1>1, <1>2, <3>1, <3>2, <3>3
    <3>4. CASE i # Len(C)
      <4>1. i + 1 \in 1 .. Len(L) + Len(S) /\ ~(i + 1 <= Len(L)) /\ (i + 1) - Len(L) = j + 1 /\ j # Len(S)
        <5>1. i # Len(L) + Len(S)
          BY <2>0, <3>4
        <5> QED BY <2>0, <2>3, <2>9, <5>1, Beyond, ZenonT(30)
      <4>2. C[i + 1] = S[(i + 1) - Len(L)]
        BY <1>2, <4>1
      <4>3. C[i + 1] = S[j + 1]
        BY <4>1, <4>2
      <4> HIDE DEF j
      <4> QED BY <3>1, <3>2, <3>4, <4>1, <4>3
    <3> QED BY <3>3, <3>4
  <2> QED BY <2>0, <2>1, <2>2, <2>3
<1>9. Chain(C, Head(L), nx)
  BY <1>2, <1>4, <1>7, <1>8 DEF Chain, IsInjective
<1> QED BY <1>3, <1>9 DEF C


-----------------------------------------------------------------------------
(* What a step of one thread leaves alone.                                 *)

(* What thread u has in hand is the same after the step.                   *)
Leaves(u) ==
    /\ pc'[u] = pc[u] /\ l1'[u] = l1[u] /\ l2'[u] = l2[u]
    /\ list'[u] = list[u] /\ result'[u] = result[u]

(* The elements of a call are elements.                                    *)
LEMMA InCallElements ==
  ASSUME TypeOK, NEW u \in Threads
  PROVE  /\ InCall(u) \subseteq Elements
         /\ list[u] \in Seq(Elements) /\ Len(list[u]) \in Nat /\ DOMAIN list[u] = 1 .. Len(list[u])
         /\ \A i \in 1 .. Len(list[u]) : list[u][i] \in InCall(u) /\ list[u][i] \in Range(list[u])
         /\ list[u] # <<>> => Len(list[u]) >= 1 /\ Last(list[u]) \in Range(list[u])
         /\ result[u] \in Elements \cup {Null}
         /\ result[u] # Null => result[u] \in InCall(u)
<1>1. list[u] \in Seq(Elements) /\ result[u] \in Elements \cup {Null}
  BY DEF TypeOK
<1>2. Len(list[u]) \in Nat /\ DOMAIN list[u] = 1 .. Len(list[u])
  BY <1>1, LenProperties
<1>3. \A i \in 1 .. Len(list[u]) : list[u][i] \in Elements
  BY <1>1, ElementOfSeq
<1>4. \A i \in 1 .. Len(list[u]) : list[u][i] \in Range(list[u])
  BY <1>2 DEF Range
<1>5. Range(list[u]) \subseteq Elements
  BY <1>2, <1>3 DEF Range
<1>6. list[u] # <<>> => Len(list[u]) >= 1
  BY <1>1, <1>2, EmptySeq
<1>7. list[u] # <<>> => Last(list[u]) \in Range(list[u])
  BY <1>2, <1>4, <1>6 DEF Last
<1> QED BY <1>1, <1>2, <1>4, <1>5, <1>6, <1>7 DEF InCall

(* A call that the step leaves alone stays right if the links it relies on *)
(* do, and the pair keeps its value or gets a new generation: the pair the *)
(* call expects is then not there any more.                                *)
LEMMA OtherCall ==
  ASSUME TypeOK, NEW u \in Threads, CallOK(u), Leaves(u),
         \A e \in InCall(u) : next'[e] = next[e],
         gen' \in Nat,
         \/ gen' > gen
         \/ gen' = gen /\ head' = head /\ (head # Null => next'[head] = next[head])
  PROVE  CallOK(u)' /\ InCall(u)' = InCall(u)
<1>0. l1[u].gen \in Nat /\ gen \in Nat
  BY DEF TypeOK
<1>1. InCall(u)' = InCall(u)
  BY DEF InCall, Leaves
<1>2. \A i \in 1 .. Len(list[u]) : next'[list[u][i]] = next[list[u][i]]
  BY InCallElements
<1>3. list[u] # <<>> => next'[Last(list[u])] = next[Last(list[u])]
  BY InCallElements DEF InCall
<1>4. result[u] # Null => next'[result[u]] = next[result[u]]
  BY InCallElements
<1>5. (l1[u].gen <= gen)' /\ (IsInjective(list[u]) /\ result[u] \notin Range(list[u]))'
  BY <1>0 DEF CallOK, Leaves
<1>6. \A i \in 1 .. Len(list'[u]) - 1 : next'[list'[u][i]] = list'[u][i + 1]
  <2>1. \A i \in 1 .. Len(list[u]) - 1 : next[list[u][i]] = list[u][i + 1]
    BY DEF CallOK
  <2>2. \A i \in 1 .. Len(list[u]) - 1 : i \in 1 .. Len(list[u])
    BY InCallElements
  <2> QED BY <1>2, <2>1, <2>2 DEF Leaves
<1>7. (pc[u] = "exchange" /\ Matches(u) => l2[u] = next[l1[u].head])'
  <2> SUFFICES ASSUME pc'[u] = "exchange", Matches(u)' PROVE l2'[u] = next'[l1'[u].head]
    OBVIOUS
  <2>1. gen' = l1[u].gen /\ head' = l1[u].head
    BY DEF Matches, Leaves
  <2>2. ~(gen' > gen)
    BY <1>0, <2>1 DEF CallOK
  <2>3. Matches(u) /\ pc[u] = "exchange" /\ l1[u].head # Null
    BY <2>1, <2>2 DEF Matches, Leaves, CallOK
  <2> QED BY <2>1, <2>2, <2>3 DEF CallOK, Leaves
<1> QED BY <1>1, <1>3, <1>4, <1>5, <1>6, <1>7 DEF CallOK, Leaves

(* How a step of thread t moves elements between its call, the program and *)
(* a set N that no one had.                                                *)
LEMMA Shares ==
  ASSUME NEW t \in Threads, Disjoint, \A u \in Threads \ {t} : InCall(u)' = InCall(u),
         NEW N, N \cap Out = {},
         held' \cup InCall(t)' \subseteq held \cup InCall(t) \cup N,
         InCall(t)' \cap held' = {}
  PROVE  /\ Disjoint'
         /\ Out' = (Out \ (held \cup InCall(t))) \cup (held' \cup InCall(t)')
<1>1. \A u \in Threads : InCall(u) \subseteq Out
  BY DEF Out
<1>2. \A u \in Threads \ {t} : InCall(u) \cap (held \cup InCall(t)) = {}
  BY DEF Disjoint
<1>3. \A u \in Threads \ {t} : InCall(u) \cap (held' \cup InCall(t)') = {}
  BY <1>1, <1>2
<1>4. \A u, v \in Threads \ {t} : u # v => InCall(u) \cap InCall(v) = {}
  BY DEF Disjoint
<1>5. \A u \in Threads : InCall(u)' \cap held' = {}
  BY <1>3
<1>6. \A u, v \in Threads : u # v => InCall(u)' \cap InCall(v)' = {}
  BY <1>3, <1>4
<1>7. Disjoint'
  BY <1>5, <1>6 DEF Disjoint
<1>8. Out' = (Out \ (held \cup InCall(t))) \cup (held' \cup InCall(t)')
  <2> DEFINE R == UNION {InCall(u) : u \in Threads \ {t}}
  <2>1. Out = R \cup held \cup InCall(t)
    BY DEF Out
  <2>2. R \cap (held \cup InCall(t)) = {}
    BY <1>2
  <2>3. UNION {InCall(u)' : u \in Threads} = R \cup InCall(t)'
    OBVIOUS
  <2>4. Out' = R \cup held' \cup InCall(t)'
    BY <2>3 DEF Out
  <2> HIDE DEF R
  <2> QED BY <2>1, <2>2, <2>4
<1> QED BY <1>7, <1>8

(* A step of thread t that does all this keeps the invariant, but for the  *)
(* chain.                                                                  *)
LEMMA OneCall ==
  ASSUME Core, NEW t \in Threads, TypeOK', Zeroed', CallOK(t)',
         \A u \in Threads \ {t} : Leaves(u),
         \A u \in Threads \ {t} : \A e \in InCall(u) : next'[e] = next[e],
         \/ gen' > gen
         \/ gen' = gen /\ head' = head /\ (head # Null => next'[head] = next[head]),
         NEW N, N \cap Out = {},
         held' \cup InCall(t)' \subseteq held \cup InCall(t) \cup N,
         InCall(t)' \cap held' = {},
         \E S : Chain(S, head', next')
                /\ Accounts(S, slabs', (Out \ (held \cup InCall(t))) \cup (held' \cup InCall(t)'))
  PROVE  Core'
<1>1. TypeOK /\ Disjoint /\ gen' \in Nat
  BY DEF Core, TypeOK
<1>2. \A u \in Threads \ {t} : CallOK(u)' /\ InCall(u)' = InCall(u)
  BY <1>1, OtherCall DEF Core
<1>3. Disjoint' /\ Out' = (Out \ (held \cup InCall(t))) \cup (held' \cup InCall(t)')
  BY <1>1, <1>2, Shares
<1>4. \A u \in Threads : CallOK(u)'
  BY <1>2
<1>5. \E S : Chain(S, head', next') /\ Accounts(S, slabs', Out')
  BY <1>3
<1> QED BY <1>3, <1>4, <1>5, ZenonT(30) DEF Core, Chain, Accounts, Elements


-----------------------------------------------------------------------------
(* The steps of a call that only touch its locals.                         *)

(* A step that touches no shared variable, and neither the list nor the    *)
(* result of its call.                                                     *)
LEMMA QuietStep ==
  ASSUME Core, NEW t \in Threads, TypeOK', CallOK(t)',
         UNCHANGED <<queue, memory, slabs, held, list, result>>,
         \A u \in Threads \ {t} : Leaves(u)
  PROVE  Core' /\ head' = head /\ next' = next /\ Out' = Out
<1>1. /\ head' = head /\ gen' = gen /\ next' = next /\ buf' = buf /\ slabs' = slabs
      /\ held' = held /\ list' = list /\ result' = result
  BY DEF queue, memory
<1>2. Zeroed'
  BY <1>1 DEF Core, Zeroed
<1>3. InCall(t)' = InCall(t)
  BY <1>1 DEF InCall
<1>4. InCall(t) \cap held = {}
  BY DEF Core, Disjoint
<1>5. held \cup InCall(t) \subseteq Out
  BY DEF Out
<1>6. Out = (Out \ (held \cup InCall(t))) \cup (held' \cup InCall(t)')
  BY <1>1, <1>3, <1>5
<1>7. \E S : Chain(S, head', next')
             /\ Accounts(S, slabs', (Out \ (held \cup InCall(t))) \cup (held' \cup InCall(t)'))
  BY <1>1, <1>6 DEF Core
<1>8. {} \cap Out = {} /\ held' \cup InCall(t)' \subseteq held \cup InCall(t) \cup {}
  BY <1>1, <1>3
<1>9. InCall(t)' \cap held' = {}
  BY <1>1, <1>3, <1>4
<1>10. Core'
  BY <1>1, <1>2, <1>7, <1>8, <1>9, OneCall, ZenonT(30)
<1>11. Out' = Out
  BY <1>1 DEF Out, InCall
<1> QED BY <1>1, <1>10, <1>11

(* Where a call goes on after it has read the pair.                        *)
LEMMA LoopIs ==
  ASSUME NEW t \in Threads
  PROVE  Loop(t) \in {"next", "link"} /\ (Loop(t) = "link" <=> list[t] # <<>>)
BY DEF Loop

(* Either word of the pair is read.                                        *)
LEMMA LoadStep ==
  ASSUME Core, NEW t \in Threads, NEW word \in {"head", "gen"}, Load(t, word)
  PROVE  Core' /\ head' = head /\ next' = next /\ Out' = Out
<1>1. TypeOK /\ CallOK(t)
  BY DEF Core
<1>2. /\ head' = head /\ gen' = gen /\ next' = next /\ buf' = buf /\ slabs' = slabs
      /\ held' = held /\ list' = list /\ result' = result /\ l2' = l2
  BY DEF Load, queue, memory
<1>3. l1' \in [Threads -> [head: Elements \cup {Null}, gen: Nat]] /\ l1'[t].gen <= gen
  <2>0. l1 \in [Threads -> [head: Elements \cup {Null}, gen: Nat]] /\ l1[t].gen <= gen
        /\ head \in Elements \cup {Null} /\ gen \in Nat
    BY <1>1 DEF TypeOK, CallOK
  <2>1. CASE word = "head"
    <3>1. l1' = [l1 EXCEPT ![t].head = head]
      BY <2>1, ZenonT(30) DEF Load
    <3> QED BY <2>0, <3>1
  <2>2. CASE word = "gen"
    <3>1. l1' = [l1 EXCEPT ![t].gen = gen]
      BY <2>2, ZenonT(30) DEF Load
    <3> QED BY <2>0, <3>1
  <2> QED BY <2>1, <2>2
<1>4. unread' \in [Threads -> SUBSET {"head", "gen"}]
  BY <1>1 DEF Load, TypeOK
<1>5. pc' \in [Threads -> Pcs] /\ pc'[t] \in {"load", Loop(t)}
  BY <1>1, LoopIs DEF Load, TypeOK, Pcs
<1>6. TypeOK'
  BY <1>1, <1>2, <1>3, <1>4, <1>5 DEF TypeOK, Words, Elements
<1>7. pc[t] = "load"
  BY DEF Load
<1>8. pc'[t] \in {"load", "next", "link"} /\ (pc'[t] = "link" => list[t] # <<>>)
      /\ (pc'[t] = "next" => list[t] = <<>>)
  BY <1>5, LoopIs
<1>9. CallOK(t)'
  BY <1>1, <1>2, <1>3, <1>7, <1>8 DEF CallOK
<1>10. \A u \in Threads \ {t} : Leaves(u)
  BY <1>1, <1>2 DEF Load, Leaves, TypeOK
<1> QED BY <1>2, <1>6, <1>9, <1>10, QuietStep DEF queue, memory

(* A failed exchange takes the whole pair.                                 *)
LEMMA FailsStep ==
  ASSUME Core, NEW t \in Threads, Fails(t)
  PROVE  Core' /\ head' = head /\ next' = next /\ Out' = Out
<1>1. TypeOK /\ CallOK(t)
  BY DEF Core
<1>2. /\ head' = head /\ gen' = gen /\ next' = next /\ buf' = buf /\ slabs' = slabs
      /\ held' = held /\ list' = list /\ result' = result /\ l2' = l2 /\ unread' = unread
  BY DEF Fails, queue, memory
<1>3. l1' \in [Threads -> [head: Elements \cup {Null}, gen: Nat]] /\ l1'[t].gen <= gen
  BY <1>1 DEF Fails, TypeOK
<1>5. pc' \in [Threads -> Pcs] /\ pc'[t] = Loop(t)
  BY <1>1, LoopIs DEF Fails, TypeOK, Pcs
<1>6. TypeOK'
  BY <1>1, <1>2, <1>3, <1>5 DEF TypeOK, Words, Elements
<1>7. pc[t] \in {"exchange", "publish"}
  BY DEF Fails
<1>8. pc'[t] \in {"next", "link"} /\ (pc'[t] = "link" <=> list[t] # <<>>)
  BY <1>5, LoopIs
<1>9. CallOK(t)'
  BY <1>1, <1>2, <1>3, <1>7, <1>8 DEF CallOK
<1>10. \A u \in Threads \ {t} : Leaves(u)
  BY <1>1, <1>2 DEF Fails, Leaves, TypeOK
<1> QED BY <1>2, <1>6, <1>9, <1>10, QuietStep DEF queue, memory

(* A pop finds the list empty, or reads the link of the head it expects.   *)
LEMMA ReadNextStep ==
  ASSUME Core, NEW t \in Threads, ReadNext(t)
  PROVE  Core' /\ head' = head /\ next' = next /\ Out' = Out
<1>1. TypeOK /\ CallOK(t)
  BY DEF Core
<1>2. /\ head' = head /\ gen' = gen /\ next' = next /\ buf' = buf /\ slabs' = slabs
      /\ held' = held /\ list' = list /\ result' = result /\ l1' = l1 /\ unread' = unread
  BY DEF ReadNext, queue, memory
<1>3. l2' \in [Threads -> Words]
  BY <1>1, ZenonT(30) DEF ReadNext, TypeOK
<1>4. \/ pc'[t] = "slow"
      \/ pc'[t] = "exchange" /\ l1[t].head # Null /\ l2'[t] = next[l1[t].head]
  BY <1>1 DEF ReadNext, TypeOK
<1>5. pc' \in [Threads -> Pcs]
  BY <1>1, ZenonT(30) DEF ReadNext, TypeOK, Pcs
<1>6. TypeOK'
  BY <1>1, <1>2, <1>3, <1>5 DEF TypeOK, Words, Elements
<1>7. pc[t] = "next"
  BY DEF ReadNext
<1>9. CallOK(t)'
  BY <1>1, <1>2, <1>4, <1>7 DEF CallOK
<1>10. \A u \in Threads \ {t} : Leaves(u)
  BY <1>1, <1>2 DEF ReadNext, Leaves, TypeOK
<1> QED BY <1>2, <1>6, <1>9, <1>10, QuietStep DEF queue, memory

(* alloc begins a pop.                                                     *)
LEMMA AllocStep ==
  ASSUME Core, NEW t \in Threads, Alloc(t)
  PROVE  Core' /\ head' = head /\ next' = next /\ Out' = Out
<1>1. TypeOK /\ CallOK(t)
  BY DEF Core
<1>2. /\ head' = head /\ gen' = gen /\ next' = next /\ buf' = buf /\ slabs' = slabs
      /\ held' = held /\ l2' = l2
  BY DEF Alloc, Begin, queue, memory
<1>3. pc[t] = "idle" /\ list[t] = <<>> /\ result[t] = Null
  BY <1>1 DEF Alloc, CallOK
<1>4. list' = list /\ result' = result
  BY <1>1, <1>3 DEF Alloc, Begin, TypeOK
<1>5. /\ pc' \in [Threads -> Pcs] /\ pc'[t] = "load"
      /\ l1' \in [Threads -> [head: Elements \cup {Null}, gen: Nat]] /\ l1'[t].gen = 0
      /\ unread' \in [Threads -> SUBSET {"head", "gen"}]
  BY <1>1 DEF Alloc, Begin, TypeOK, Pcs, NoPair
<1>6. TypeOK'
  BY <1>1, <1>2, <1>4, <1>5 DEF TypeOK, Words, Elements
<1>7. gen \in Nat
  BY <1>1 DEF TypeOK
<1>9. CallOK(t)'
  BY <1>1, <1>2, <1>3, <1>4, <1>5, <1>7 DEF CallOK
<1>10. \A u \in Threads \ {t} : Leaves(u)
  BY <1>1, <1>2, <1>4 DEF Alloc, Begin, Leaves, TypeOK
<1> QED BY <1>2, <1>4, <1>6, <1>9, <1>10, QuietStep DEF queue, memory


-----------------------------------------------------------------------------
(* The steps that move elements or change links.                           *)

(* Where elements are: a call's and the program's are in slabs in use and  *)
(* not on the chain, whose head has its link.                              *)
LEMMA Places ==
  ASSUME Core, NEW S, Chain(S, head, next), Accounts(S, slabs, Out)
  PROVE  /\ Out \subseteq slabs \X (0 .. NElem - 1) /\ Out \cap Range(S) = {}
         /\ Range(S) \subseteq slabs \X (0 .. NElem - 1)
         /\ held \subseteq Out
         /\ \A u \in Threads : InCall(u) \subseteq Out
         /\ head # Null => head \notin Out
         /\ slabs \X (0 .. NElem - 1) \subseteq Elements
<1>1. held \subseteq Out /\ \A u \in Threads : InCall(u) \subseteq Out
  BY DEF Out
<1>2. head # Null => head \in Range(S)
  BY ChainHead
<1>3. slabs \subseteq Slabs
  BY DEF Core, TypeOK
<1> QED BY <1>1, <1>2, <1>3 DEF Accounts, Elements

(* The exchange of a pop takes the head off the chain.                     *)
LEMMA PoppedStep ==
  ASSUME Core, NEW t \in Threads, Popped(t),
         NEW S, Chain(S, head, next), Accounts(S, slabs, Out)
  PROVE  /\ Core' /\ S # <<>> /\ Out' = Out \cup {Head(S)}
         /\ Chain(Tail(S), head', next') /\ Accounts(Tail(S), slabs', Out')
<1>1. TypeOK /\ CallOK(t) /\ Disjoint /\ Zeroed
  BY DEF Core
<1>2. /\ next' = next /\ buf' = buf /\ slabs' = slabs /\ held' = held /\ list' = list
      /\ l1' = l1 /\ l2' = l2 /\ unread' = unread
  BY DEF Popped, memory
<1>3. pc[t] = "exchange" /\ Matches(t) /\ head = l1[t].head /\ head # Null /\ l2[t] = next[head]
      /\ list[t] = <<>> /\ result[t] = Null /\ l1[t].gen = gen
  BY <1>1 DEF Popped, CallOK, Matches
<1>4. head' = next[head] /\ gen' = gen + 1 /\ gen \in Nat
  BY <1>1, <1>3 DEF Popped, Installs, TypeOK
<1>5. /\ S # <<>> /\ Head(S) = head /\ Chain(Tail(S), next[head], next)
      /\ Range(S) = Range(Tail(S)) \cup {head} /\ head \notin Range(Tail(S))
  BY <1>3, ChainPop
<1>6. next[head] \in Elements \cup {Null} /\ head \in Elements
  BY <1>1, <1>3, <1>5, ChainHead DEF TypeOK
<1>7. /\ result' \in [Threads -> Elements \cup {Null}] /\ result'[t] = head
      /\ pc' \in [Threads -> Pcs] /\ pc'[t] = "memset"
  BY <1>1, <1>3, <1>6 DEF Popped, TypeOK, Pcs
<1>8. TypeOK'
  BY <1>1, <1>2, <1>4, <1>6, <1>7 DEF TypeOK, Words, Elements
<1>9. Zeroed'
  BY <1>1, <1>2 DEF Zeroed
<1>10. CallOK(t)'
  BY <1>1, <1>2, <1>3, <1>4, <1>7 DEF CallOK, IsInjective, Range
<1>11. \A u \in Threads \ {t} : Leaves(u)
  BY <1>1, <1>2 DEF Popped, Leaves, TypeOK
<1>12. InCall(t) = {} /\ InCall(t)' = {head}
  BY <1>2, <1>3, <1>7 DEF InCall, Range
<1>13. {head} \cap Out = {} /\ held \subseteq Out
  BY <1>3, Places
<1>14. InCall(t)' \cap held' = {} /\ held' \cup InCall(t)' \subseteq held \cup InCall(t) \cup {head}
  BY <1>2, <1>12, <1>13
<1> DEFINE O == (Out \ (held \cup InCall(t))) \cup (held' \cup InCall(t)')
<1>15. O = Out \cup {head}
  BY <1>2, <1>12, <1>13
<1>16. Accounts(Tail(S), slabs', O) /\ Chain(Tail(S), head', next')
  BY <1>2, <1>4, <1>5, <1>13, <1>15 DEF Accounts
<1>17. Core'
  <2>1. gen' > gen /\ \A u \in Threads \ {t} : \A e \in InCall(u) : next'[e] = next[e]
    BY <1>2, <1>4
  <2>2. \E X : Chain(X, head', next') /\ Accounts(X, slabs', O)
    BY <1>16
  <2> QED BY <1>8, <1>9, <1>10, <1>11, <1>13, <1>14, <2>1, <2>2, OneCall, ZenonT(30)
<1>18. Out' = O
  <2>1. \A u \in Threads \ {t} : InCall(u)' = InCall(u)
    BY <1>11 DEF Leaves, InCall
  <2> QED BY <1>1, <1>13, <1>14, <2>1, Shares, ZenonT(30)
<1> QED BY <1>5, <1>15, <1>16, <1>17, <1>18

(* A push links the last element of its list to the head it expects.       *)
LEMMA LinkStep ==
  ASSUME Core, NEW t \in Threads, Link(t),
         NEW S, Chain(S, head, next), Accounts(S, slabs, Out)
  PROVE  Core' /\ Out' = Out /\ Chain(S, head', next')
<1> DEFINE e == Last(list[t])
           L == list[t]
<1>1. TypeOK /\ CallOK(t) /\ Disjoint /\ Zeroed
  BY DEF Core
<1>2. /\ head' = head /\ gen' = gen /\ buf' = buf /\ slabs' = slabs /\ held' = held
      /\ list' = list /\ result' = result /\ l1' = l1 /\ l2' = l2 /\ unread' = unread
  BY DEF Link, queue, locals
<1>3. pc[t] = "link" /\ L # <<>>
  BY <1>1 DEF Link, CallOK
<1>4. /\ L \in Seq(Elements) /\ Len(L) \in Nat \ {0} /\ DOMAIN L = 1 .. Len(L)
      /\ e \in Range(L) /\ e \in InCall(t) /\ e \in Elements /\ e = L[Len(L)]
  BY <1>1, <1>3, InCallElements DEF InCall, Last
<1>5. next \in [Elements -> Words] /\ l1[t].head \in Words
  BY <1>1 DEF TypeOK, Words
<1>6. /\ next' \in [Elements -> Words] /\ next'[e] = l1[t].head
      /\ \A x \in Elements \ {e} : next'[x] = next[x]
  BY <1>4, <1>5 DEF Link
<1>7. pc' \in [Threads -> Pcs] /\ pc'[t] = "publish"
  BY <1>1 DEF Link, TypeOK, Pcs
<1>8. TypeOK'
  BY <1>1, <1>2, <1>6, <1>7 DEF TypeOK, Words, Elements
<1>9. e \in Out /\ e[1] \in slabs
  BY <1>4, Places DEF Elements
<1>10. Zeroed'
  BY <1>1, <1>2, <1>6, <1>9 DEF Zeroed, Elements
<1>11. \A i \in 1 .. Len(L) - 1 : next'[L[i]] = L[i + 1]
  <2> SUFFICES ASSUME NEW i \in 1 .. Len(L) - 1 PROVE next'[L[i]] = L[i + 1]
    OBVIOUS
  <2>1. i \in 1 .. Len(L) /\ i # Len(L) /\ Len(L) \in 1 .. Len(L)
    BY <1>4
  <2>2. L[i] # L[Len(L)]
    BY <1>1, <1>4, <2>1 DEF CallOK, IsInjective
  <2>3. L[i] \in Elements
    BY <1>4, <2>1, ElementOfSeq
  <2>4. next[L[i]] = L[i + 1]
    BY <1>1 DEF CallOK
  <2> QED BY <1>4, <1>6, <2>2, <2>3, <2>4
<1>12. result[t] # Null => next'[result[t]] = next[result[t]]
  BY <1>1, <1>4, <1>6 DEF CallOK, TypeOK
<1>13. CallOK(t)'
  BY <1>1, <1>2, <1>3, <1>6, <1>7, <1>11, <1>12 DEF CallOK
<1>14. \A u \in Threads \ {t} : Leaves(u)
  BY <1>1, <1>2 DEF Link, Leaves, TypeOK
<1>15. \A u \in Threads \ {t} : \A x \in InCall(u) : next'[x] = next[x]
  BY <1>1, <1>4, <1>6, InCallElements DEF Disjoint
<1>16. head # Null => next'[head] = next[head]
  BY <1>1, <1>6, <1>9, Places DEF TypeOK
<1>17. InCall(t)' = InCall(t) /\ InCall(t) \cap held = {} /\ held \cup InCall(t) \subseteq Out
  BY <1>1, <1>2, Places DEF InCall, Disjoint
<1>18. \A x \in Range(S) : next'[x] = next[x]
  BY <1>6, <1>9, Places
<1>19. Chain(S, head', next')
  BY <1>2, <1>18, ChainKeeps
<1> DEFINE O == (Out \ (held \cup InCall(t))) \cup (held' \cup InCall(t)')
<1>20. O = Out /\ Accounts(S, slabs', O)
  BY <1>2, <1>17
<1>21. {} \cap Out = {} /\ held' \cup InCall(t)' \subseteq held \cup InCall(t) \cup {}
       /\ InCall(t)' \cap held' = {}
  BY <1>2, <1>17
<1>22. Core'
  <2>1. gen' = gen /\ head' = head /\ (head # Null => next'[head] = next[head])
    BY <1>2, <1>16
  <2>2. \E X : Chain(X, head', next') /\ Accounts(X, slabs', O)
    BY <1>19, <1>20
  <2> QED BY <1>8, <1>10, <1>13, <1>14, <1>15, <1>21, <2>1, <2>2, OneCall, ZenonT(30)
<1>23. Out' = Out
  <2>1. \A u \in Threads \ {t} : InCall(u)' = InCall(u)
    BY <1>14 DEF Leaves, InCall
  <2> QED BY <1>1, <1>20, <1>21, <2>1, Shares, ZenonT(30)
<1> QED BY <1>19, <1>22, <1>23


(* What a returning call leaves in its locals, and to the program.         *)
LEMMA ReturnsIs ==
  ASSUME TypeOK, Zeroed, NEW t \in Threads, Returns(t)
  PROVE  /\ pc' \in [Threads -> Pcs] /\ pc'[t] = "idle"
         /\ l1' \in [Threads -> [head: Elements \cup {Null}, gen: Nat]] /\ l1'[t].gen = 0
         /\ l2' \in [Threads -> Words]
         /\ list' \in [Threads -> Seq(Elements)] /\ list'[t] = <<>>
         /\ result' \in [Threads -> Elements \cup {Null}] /\ result'[t] = Null
         /\ held' = held \cup ({result[t]} \ {Null}) /\ held' \subseteq Elements
         /\ InCall(t)' = {}
         /\ \A u \in Threads \ {t} : Leaves(u)
<1>1. pc' \in [Threads -> Pcs] /\ pc'[t] = "idle"
  BY DEF TypeOK, Returns, Pcs
<1>2. l1' \in [Threads -> [head: Elements \cup {Null}, gen: Nat]] /\ l1'[t].gen = 0
  BY DEF TypeOK, Returns, NoPair
<1>3. l2' \in [Threads -> Words]
  BY DEF TypeOK, Returns, Words
<1>4. list' \in [Threads -> Seq(Elements)] /\ list'[t] = <<>>
  BY EmptySeq DEF TypeOK, Returns
<1>5. result' \in [Threads -> Elements \cup {Null}] /\ result'[t] = Null
  BY DEF TypeOK, Returns
<1>6. held' = held \cup ({result[t]} \ {Null})
  BY DEF Returns
<1>7. held \subseteq Elements /\ result[t] \in Elements \cup {Null}
  BY DEF TypeOK
<1>8. InCall(t)' = {}
  BY <1>4, <1>5 DEF InCall, Range
<1>9. \A u \in Threads \ {t} : Leaves(u)
  BY DEF Leaves, Returns, TypeOK
<1> QED BY <1>1, <1>2, <1>3, <1>4, <1>5, <1>6, <1>7, <1>8, <1>9

(* A call that has returned has nothing in hand.                           *)
LEMMA Idle ==
  ASSUME NEW t \in Threads, gen' \in Nat, pc'[t] = "idle", l1'[t].gen = 0,
         list'[t] = <<>>, result'[t] = Null
  PROVE  CallOK(t)'
BY DEF CallOK, IsInjective, Range

(* The exchange of a push puts its list on the chain.                      *)
LEMMA PushedStep ==
  ASSUME Core, NEW t \in Threads, Pushed(t),
         NEW S, Chain(S, head, next), Accounts(S, slabs, Out)
  PROVE  /\ Core' /\ Out' = Out \ Range(list[t]) /\ Range(list[t]) \subseteq Out
         /\ list[t] \in Seq(Elements) /\ list[t] # <<>> /\ IsInjective(list[t])
         /\ Chain(list[t] \o S, head', next') /\ Accounts(list[t] \o S, slabs', Out')
<1> DEFINE L == list[t]
<1>1. TypeOK /\ CallOK(t) /\ Disjoint /\ Zeroed
  BY DEF Core
<1>2. next' = next /\ buf' = buf /\ slabs' = slabs /\ unread' = unread
  BY DEF Pushed, memory
<1>3. pc[t] = "publish" /\ L # <<>> /\ head = l1[t].head /\ next[Last(L)] = head /\ IsInjective(L)
      /\ result[t] \notin Range(L) /\ l1[t].gen = gen
      /\ \A i \in 1 .. Len(L) - 1 : next[L[i]] = L[i + 1]
  BY <1>1 DEF Pushed, Matches, CallOK
<1>4. head' = Head(L) /\ gen' = gen + 1 /\ gen \in Nat
  BY <1>1, <1>3 DEF Pushed, Installs, TypeOK
<1>5. /\ pc' \in [Threads -> Pcs] /\ pc'[t] = "idle"
      /\ l1' \in [Threads -> [head: Elements \cup {Null}, gen: Nat]] /\ l1'[t].gen = 0
      /\ l2' \in [Threads -> Words]
      /\ list' \in [Threads -> Seq(Elements)] /\ list'[t] = <<>>
      /\ result' \in [Threads -> Elements \cup {Null}] /\ result'[t] = Null
      /\ held' = held \cup ({result[t]} \ {Null}) /\ held' \subseteq Elements
      /\ InCall(t)' = {}
      /\ \A u \in Threads \ {t} : Leaves(u)
  BY <1>1, ReturnsIs DEF Pushed
<1>6. L \in Seq(Elements) /\ Range(L) \subseteq InCall(t) /\ InCall(t) = Range(L) \cup ({result[t]} \ {Null})
  BY <1>1, InCallElements DEF InCall
<1>7. Out \cap Range(S) = {} /\ held \subseteq Out /\ InCall(t) \subseteq Out
  BY Places
<1>8. Chain(L \o S, head', next') /\ Range(L \o S) = Range(L) \cup Range(S)
  <2>1. Range(L) \cap Range(S) = {}
    BY <1>6, <1>7
  <2> HIDE DEF L
  <2> QED BY <1>2, <1>3, <1>4, <1>6, <2>1, ChainPush
<1>9. TypeOK'
  <2>1. head' \in Elements \cup {Null}
    BY <1>8, ChainHead
  <2> QED BY <1>1, <1>2, <1>4, <1>5, <2>1 DEF TypeOK, Words, Elements
<1>10. Zeroed'
  BY <1>1, <1>2, <1>5 DEF Zeroed
<1>11. CallOK(t)'
  <2>1. gen' \in Nat
    BY <1>4
  <2> QED BY <1>5, <2>1, Idle, ZenonT(30)
<1>12. {} \cap Out = {} /\ held' \cup InCall(t)' \subseteq held \cup InCall(t) \cup {}
       /\ InCall(t)' \cap held' = {}
  BY <1>5, <1>6
<1> DEFINE O == (Out \ (held \cup InCall(t))) \cup (held' \cup InCall(t)')
<1>13. held \cap InCall(t) = {}
  BY <1>1 DEF Disjoint
<1>14. O = Out \ Range(L)
  BY <1>3, <1>5, <1>6, <1>7, <1>13
<1>15. Accounts(L \o S, slabs', O)
  BY <1>2, <1>6, <1>7, <1>8, <1>14 DEF Accounts
<1>16. Core'
  <2>1. gen' > gen /\ \A u \in Threads \ {t} : \A e \in InCall(u) : next'[e] = next[e]
    BY <1>2, <1>4
  <2>2. \E X : Chain(X, head', next') /\ Accounts(X, slabs', O)
    BY <1>8, <1>15
  <2>3. \A u \in Threads \ {t} : Leaves(u)
    BY <1>5
  <2> QED BY <1>9, <1>10, <1>11, <1>12, <2>1, <2>2, <2>3, OneCall, ZenonT(30)
<1>17. Out' = O
  <2>1. \A u \in Threads \ {t} : InCall(u)' = InCall(u)
    BY <1>5 DEF Leaves, InCall
  <2> QED BY <1>1, <1>12, <2>1, Shares, ZenonT(30)
<1> QED BY <1>3, <1>6, <1>7, <1>8, <1>14, <1>15, <1>16, <1>17

(* alloc zeroes the link of what it popped, and returns it.                *)
LEMMA ZeroLinkStep ==
  ASSUME Core, NEW t \in Threads, ZeroLink(t),
         NEW S, Chain(S, head, next), Accounts(S, slabs, Out)
  PROVE  Core' /\ Out' = Out /\ Chain(S, head', next')
<1> DEFINE e == result[t]
<1>1. TypeOK /\ CallOK(t) /\ Disjoint /\ Zeroed
  BY DEF Core
<1>2. head' = head /\ gen' = gen /\ buf' = buf /\ slabs' = slabs /\ unread' = unread
  BY DEF ZeroLink, queue
<1>3. pc[t] = "memset" /\ list[t] = <<>> /\ e # Null
  BY <1>1 DEF ZeroLink, CallOK
<1>4. /\ pc' \in [Threads -> Pcs] /\ pc'[t] = "idle"
      /\ l1' \in [Threads -> [head: Elements \cup {Null}, gen: Nat]] /\ l1'[t].gen = 0
      /\ l2' \in [Threads -> Words]
      /\ list' \in [Threads -> Seq(Elements)] /\ list'[t] = <<>>
      /\ result' \in [Threads -> Elements \cup {Null}] /\ result'[t] = Null
      /\ held' = held \cup ({result[t]} \ {Null}) /\ held' \subseteq Elements
      /\ InCall(t)' = {}
      /\ \A u \in Threads \ {t} : Leaves(u)
  BY <1>1, ReturnsIs DEF ZeroLink
<1>5. InCall(t) = {e} /\ e \in Elements
  BY <1>1, <1>3 DEF InCall, Range, TypeOK
<1>6. /\ next' \in [Elements -> Words] /\ next'[e] = Null
      /\ \A x \in Elements \ {e} : next'[x] = next[x]
  BY <1>1, <1>5 DEF ZeroLink, TypeOK, Words
<1>7. TypeOK'
  BY <1>1, <1>2, <1>4, <1>6 DEF TypeOK, Words, Elements
<1>8. Zeroed'
  BY <1>1, <1>2, <1>4, <1>6, ZenonT(30) DEF Zeroed
<1>9. gen \in Nat /\ CallOK(t)'
  BY <1>1, <1>2, <1>4, Idle DEF TypeOK
<1>10. \A u \in Threads \ {t} : \A x \in InCall(u) : next'[x] = next[x]
  BY <1>1, <1>5, <1>6, InCallElements DEF Disjoint
<1>11. e \in Out /\ Out \cap Range(S) = {} /\ held \cup {e} \subseteq Out /\ (head # Null => head \notin Out)
       /\ Range(S) \subseteq Elements
  BY <1>5, Places
<1>12. head # Null => next'[head] = next[head]
  BY <1>1, <1>6, <1>11 DEF TypeOK
<1>13. Chain(S, head', next')
  <2>1. \A x \in Range(S) : next'[x] = next[x]
    BY <1>6, <1>11
  <2> QED BY <1>2, <2>1, ChainKeeps
<1> DEFINE O == (Out \ (held \cup InCall(t))) \cup (held' \cup InCall(t)')
<1>14. O = Out /\ Accounts(S, slabs', O)
  <2>1. O = Out
    BY <1>3, <1>4, <1>5, <1>11
  <2> HIDE DEF O
  <2> QED BY <1>2, <2>1
<1>15. {} \cap Out = {} /\ held' \cup InCall(t)' \subseteq held \cup InCall(t) \cup {}
       /\ InCall(t)' \cap held' = {}
  BY <1>3, <1>4, <1>5
<1>16. Core'
  <2>1. gen' = gen /\ head' = head /\ (head # Null => next'[head] = next[head])
    BY <1>2, <1>12
  <2>2. \E X : Chain(X, head', next') /\ Accounts(X, slabs', O)
    BY <1>13, <1>14
  <2>3. \A u \in Threads \ {t} : Leaves(u)
    BY <1>4
  <2> QED BY <1>7, <1>8, <1>9, <1>10, <1>15, <2>1, <2>2, <2>3, OneCall, ZenonT(30)
<1>17. Out' = Out
  <2>1. \A u \in Threads \ {t} : InCall(u)' = InCall(u)
    BY <1>4 DEF Leaves, InCall
  <2> QED BY <1>1, <1>14, <1>15, <2>1, Shares, ZenonT(30)
<1> QED BY <1>13, <1>16, <1>17


(* A new slab: a list of all but its first element, linked but for the     *)
(* last one.                                                               *)
LEMMA SlabListIs ==
  ASSUME NEW s \in Slabs
  PROVE  /\ SlabList(s) \in Seq(Elements) /\ Len(SlabList(s)) = NElem - 1
         /\ IsInjective(SlabList(s)) /\ SlabList(s) # <<>>
         /\ \A i \in 1 .. NElem - 1 : SlabList(s)[i] = <<s, i>>
         /\ Range(SlabList(s)) = {s} \X (1 .. NElem - 1)
<1>0. NElem - 1 \in Nat \ {0}
  BY NElemAssumption
<1>1. \A i \in 1 .. NElem - 1 : <<s, i>> \in Elements
  BY NElemAssumption DEF Elements
<1>2. SlabList(s) \in [1 .. NElem - 1 -> Elements]
  BY <1>1 DEF SlabList
<1>3. SlabList(s) \in Seq(Elements) /\ Len(SlabList(s)) = NElem - 1
  BY <1>0, <1>2
<1>4. DOMAIN SlabList(s) = 1 .. NElem - 1 /\ \A i \in 1 .. NElem - 1 : SlabList(s)[i] = <<s, i>>
  BY DEF SlabList
<1>5. IsInjective(SlabList(s))
  BY <1>4 DEF IsInjective
<1>6. SlabList(s) # <<>>
  BY <1>0, <1>3, ZenonT(30)
<1>7. Range(SlabList(s)) = {s} \X (1 .. NElem - 1)
  <2>1. Range(SlabList(s)) = {<<s, i>> : i \in 1 .. NElem - 1}
    BY <1>4, ZenonT(30) DEF Range
  <2> QED BY <2>1
<1> QED BY <1>3, <1>4, <1>5, <1>6, <1>7

(* alloc_slow takes a slab, keeps its first element and goes on to push    *)
(* the others.                                                             *)
LEMMA alloc_slowStep ==
  ASSUME Core, NEW t \in Threads, alloc_slow(t),
         NEW S, Chain(S, head, next), Accounts(S, slabs, Out)
  PROVE  /\ Core' /\ Chain(S, head', next')
         /\ \E s \in Slabs \ slabs : Out' = Out \cup ({s} \X (0 .. NElem - 1))
<1> DEFINE s == Calloc
           N == {s} \X (0 .. NElem - 1)
           L == SlabList(s)
           r == <<s, 0>>
<1>1. TypeOK /\ CallOK(t) /\ Disjoint /\ Zeroed
  BY DEF Core
<1>2. head' = head /\ gen' = gen /\ buf' = buf /\ held' = held /\ l2' = l2
  BY DEF alloc_slow, queue, Begin
<1>3. s \in Slabs /\ s \notin slabs
  <2>1. slabs \subseteq Slabs /\ slabs # Slabs
    BY <1>1 DEF alloc_slow, TypeOK
  <2>2. \E x \in Slabs : x \notin slabs
    BY <2>1
  <2> QED BY <2>2 DEF Calloc
<1>4. pc[t] = "slow" /\ list[t] = <<>> /\ result[t] = Null
  BY <1>1 DEF alloc_slow, CallOK
<1>5. /\ slabs' = slabs \cup {s} /\ Begin(t, L, r)
      /\ next' = [e \in Elements |-> IF e[1] = s /\ e[2] \in 1 .. NElem - 2
                                     THEN <<s, e[2] + 1>> ELSE next[e]]
  BY DEF alloc_slow
<1> HIDE DEF s
<1>6. /\ L \in Seq(Elements) /\ Len(L) = NElem - 1 /\ IsInjective(L) /\ L # <<>>
      /\ \A i \in 1 .. NElem - 1 : L[i] = <<s, i>>
      /\ Range(L) = {s} \X (1 .. NElem - 1)
  BY <1>3, SlabListIs
<1> HIDE DEF L
<1>7. /\ NElem - 1 \in Nat \ {0} /\ NElem \in Nat
      /\ \A i \in 0 .. NElem - 1 : <<s, i>> \in Elements
  BY <1>3, NElemAssumption DEF Elements
<1>8. r \in Elements /\ r \notin Range(L) /\ r # Null /\ Range(L) \cup {r} = N
  <2>1. r \in Elements
    BY <1>7
  <2>2. r # Null
    BY <2>1, SlabsAssumption DEF Elements
  <2>3. r \notin Range(L) /\ Range(L) \cup {r} = N
    BY <1>6, <1>7
  <2> QED BY <2>1, <2>2, <2>3
<1>9. /\ pc' \in [Threads -> Pcs] /\ pc'[t] = "load"
      /\ unread' \in [Threads -> SUBSET {"head", "gen"}]
      /\ l1' \in [Threads -> [head: Elements \cup {Null}, gen: Nat]] /\ l1'[t].gen = 0
      /\ list' \in [Threads -> Seq(Elements)] /\ list'[t] = L
      /\ result' \in [Threads -> Elements \cup {Null}] /\ result'[t] = r
      /\ \A u \in Threads \ {t} : Leaves(u)
  <2>1. /\ pc' \in [Threads -> Pcs] /\ pc'[t] = "load"
        /\ unread' \in [Threads -> SUBSET {"head", "gen"}]
    BY <1>1, <1>5 DEF Begin, TypeOK, Pcs
  <2>2. l1' \in [Threads -> [head: Elements \cup {Null}, gen: Nat]] /\ l1'[t].gen = 0
    BY <1>1, <1>5 DEF Begin, TypeOK, NoPair
  <2>3. list' \in [Threads -> Seq(Elements)] /\ list'[t] = L
    BY <1>1, <1>5, <1>6 DEF Begin, TypeOK
  <2>4. result' \in [Threads -> Elements \cup {Null}] /\ result'[t] = r
    BY <1>1, <1>5, <1>8 DEF Begin, TypeOK
  <2>5. \A u \in Threads \ {t} : Leaves(u)
    BY <1>1, <1>5 DEF Begin, TypeOK, Leaves
  <2> QED BY <2>1, <2>2, <2>3, <2>4, <2>5
<1>10. \A e \in Elements : e \notin N => next'[e] = next[e]
  <2> SUFFICES ASSUME NEW e \in Elements, e \notin N PROVE next'[e] = next[e]
    OBVIOUS
  <2>1. e[1] # s
    BY DEF Elements
  <2> QED BY <1>5, <2>1
<1>11. \A i \in 1 .. NElem - 2 : next'[<<s, i>>] = <<s, i + 1>>
  BY <1>5, <1>7
<1>12. next'[r] = Null
  BY <1>1, <1>3, <1>5, <1>8 DEF Zeroed
<1>13. next' \in [Elements -> Words]
  <2>1. \A e \in Elements : e[1] = s /\ e[2] \in 1 .. NElem - 2 => <<s, e[2] + 1>> \in Words
    BY <1>7 DEF Words
  <2> QED BY <1>1, <1>5, <2>1 DEF TypeOK
<1>14. TypeOK'
  BY <1>1, <1>2, <1>3, <1>5, <1>9, <1>13, ZenonT(30) DEF TypeOK, Words, Elements
<1>15. Zeroed'
  <2>1. \A e \in Elements : e[1] \notin slabs' => e \notin N /\ e[1] \notin slabs
    BY <1>5
  <2> QED BY <1>1, <1>2, <1>10, <2>1 DEF Zeroed
<1>16. CallOK(t)'
  <2>1. \A i \in 1 .. Len(L) - 1 : next'[L[i]] = L[i + 1]
    <3> SUFFICES ASSUME NEW i \in 1 .. Len(L) - 1 PROVE next'[L[i]] = L[i + 1]
      OBVIOUS
    <3>1. i \in 1 .. NElem - 2 /\ i \in 1 .. NElem - 1 /\ i + 1 \in 1 .. NElem - 1
      BY <1>6, <1>7
    <3> QED BY <1>6, <1>11, <3>1, ZenonT(30)
  <2>2. gen \in Nat
    BY <1>1 DEF TypeOK
  <2> QED BY <1>2, <1>6, <1>8, <1>9, <1>12, <2>1, <2>2 DEF CallOK
<1>17. InCall(t) = {} /\ InCall(t)' = N
  BY <1>4, <1>8, <1>9 DEF InCall, Range
<1>18. /\ Out \subseteq slabs \X (0 .. NElem - 1) /\ held \subseteq Out
       /\ \A u \in Threads : InCall(u) \subseteq Out
       /\ Range(S) \subseteq slabs \X (0 .. NElem - 1)
       /\ slabs \X (0 .. NElem - 1) \subseteq Elements
  BY Places
<1>19. N \cap Out = {} /\ N \cap Range(S) = {} /\ N \cap (slabs \X (0 .. NElem - 1)) = {}
  BY <1>3, <1>18
<1> HIDE DEF N
<1>20. \A u \in Threads \ {t} : \A x \in InCall(u) : next'[x] = next[x]
  BY <1>10, <1>18, <1>19
<1>21. \A x \in Range(S) : next'[x] = next[x]
  BY <1>10, <1>18, <1>19
<1>22. head # Null => next'[head] = next[head]
  BY <1>21, ChainHead
<1>23. Chain(S, head', next')
  BY <1>2, <1>21, ChainKeeps
<1> DEFINE O == (Out \ (held \cup InCall(t))) \cup (held' \cup InCall(t)')
<1>24. O = Out \cup N
  BY <1>2, <1>17, <1>18
<1>25. Accounts(S, slabs', O)
  <2>1. slabs' \X (0 .. NElem - 1) = (slabs \X (0 .. NElem - 1)) \cup N
    BY <1>5 DEF N
  <2> HIDE DEF O
  <2> QED BY <1>19, <1>24, <2>1 DEF Accounts
<1>26. held' \cup InCall(t)' \subseteq held \cup InCall(t) \cup N /\ InCall(t)' \cap held' = {}
  BY <1>2, <1>17, <1>18, <1>19
<1>27. Core'
  <2>1. gen' = gen /\ head' = head /\ (head # Null => next'[head] = next[head])
    BY <1>2, <1>22
  <2>2. \E X : Chain(X, head', next') /\ Accounts(X, slabs', O)
    BY <1>23, <1>25
  <2>3. \A u \in Threads \ {t} : Leaves(u)
    BY <1>9
  <2> QED BY <1>14, <1>15, <1>16, <1>19, <1>20, <1>26, <2>1, <2>2, <2>3, OneCall
<1>28. Out' = O
  <2>1. \A u \in Threads \ {t} : InCall(u)' = InCall(u)
    BY <1>9 DEF Leaves, InCall
  <2> QED BY <1>1, <1>19, <1>26, <2>1, Shares
<1> QED BY <1>3, <1>23, <1>24, <1>27, <1>28 DEF N


(* free zeroes an element but for its link, and goes on to push it.        *)
LEMMA freeStep ==
  ASSUME Core, NEW t \in Threads, NEW e \in Elements, free(t, e),
         NEW S, Chain(S, head, next), Accounts(S, slabs, Out)
  PROVE  Core' /\ Out' = Out /\ Chain(S, head', next')
<1>1. TypeOK /\ CallOK(t) /\ Disjoint /\ Zeroed
  BY DEF Core
<1>2. head' = head /\ gen' = gen /\ next' = next /\ slabs' = slabs /\ l2' = l2
  BY DEF free, queue, Begin
<1>3. pc[t] = "idle" /\ list[t] = <<>> /\ result[t] = Null /\ e \in held
  BY <1>1 DEF free, CallOK
<1>4. held' = held \ {e} /\ held' \subseteq Elements /\ buf' \in [Elements -> {Null, Data}]
      /\ \A x \in Elements : buf'[x] = IF x = e THEN Null ELSE buf[x]
  BY <1>1 DEF free, TypeOK
<1>5. <<e>> \in Seq(Elements) /\ Range(<<e>>) = {e} /\ IsInjective(<<e>>) /\ <<e>> # <<>>
  BY DEF Range, IsInjective
<1>6. /\ pc' \in [Threads -> Pcs] /\ pc'[t] = "load"
      /\ unread' \in [Threads -> SUBSET {"head", "gen"}]
      /\ l1' \in [Threads -> [head: Elements \cup {Null}, gen: Nat]] /\ l1'[t].gen = 0
      /\ list' \in [Threads -> Seq(Elements)] /\ list'[t] = <<e>>
      /\ result' \in [Threads -> Elements \cup {Null}] /\ result'[t] = Null
      /\ \A u \in Threads \ {t} : Leaves(u)
  <2>0. Begin(t, <<e>>, Null)
    BY DEF free
  <2>1. /\ pc' \in [Threads -> Pcs] /\ pc'[t] = "load"
        /\ unread' \in [Threads -> SUBSET {"head", "gen"}]
    BY <1>1, <2>0 DEF Begin, TypeOK, Pcs
  <2>2. l1' \in [Threads -> [head: Elements \cup {Null}, gen: Nat]] /\ l1'[t].gen = 0
    BY <1>1, <2>0 DEF Begin, TypeOK, NoPair
  <2>3. list' \in [Threads -> Seq(Elements)] /\ list'[t] = <<e>>
    BY <1>1, <2>0, <1>5 DEF Begin, TypeOK
  <2>4. result' \in [Threads -> Elements \cup {Null}] /\ result'[t] = Null
    BY <1>1, <2>0 DEF Begin, TypeOK
  <2>5. \A u \in Threads \ {t} : Leaves(u)
    BY <1>1, <2>0 DEF Begin, TypeOK, Leaves
  <2> QED BY <2>1, <2>2, <2>3, <2>4, <2>5
<1>7. TypeOK'
  BY <1>1, <1>2, <1>4, <1>6 DEF TypeOK, Words, Elements
<1>8. Zeroed'
  BY <1>1, <1>2, <1>4 DEF Zeroed
<1>9. CallOK(t)'
  <2>1. gen \in Nat /\ Null \notin Range(<<e>>) /\ Len(<<e>>) = 1
    BY <1>1, <1>5, SlabsAssumption, ZenonT(30) DEF TypeOK, Elements
  <2>2. \A i \in 1 .. Len(list'[t]) - 1 : next'[list'[t][i]] = list'[t][i + 1]
    BY <1>6
  <2> QED BY <1>2, <1>5, <1>6, <2>1, <2>2 DEF CallOK
<1>10. InCall(t) = {} /\ InCall(t)' = {e}
  BY <1>3, <1>5, <1>6 DEF InCall, Range
<1>11. held \subseteq Out
  BY Places
<1> DEFINE O == (Out \ (held \cup InCall(t))) \cup (held' \cup InCall(t)')
<1>12. O = Out
  BY <1>3, <1>4, <1>10, <1>11
<1>13. {} \cap Out = {} /\ held' \cup InCall(t)' \subseteq held \cup InCall(t) \cup {}
       /\ InCall(t)' \cap held' = {}
  BY <1>3, <1>4, <1>10
<1>14. Chain(S, head', next') /\ Accounts(S, slabs', O)
  <2> HIDE DEF O
  <2> QED BY <1>2, <1>12
<1>15. Core'
  <2>1. gen' = gen /\ head' = head /\ (head # Null => next'[head] = next[head])
    BY <1>2
  <2>2. \E X : Chain(X, head', next') /\ Accounts(X, slabs', O)
    BY <1>14
  <2>3. \A u \in Threads \ {t} : Leaves(u) /\ \A x \in InCall(u) : next'[x] = next[x]
    BY <1>2, <1>6
  <2> QED BY <1>7, <1>8, <1>9, <1>13, <2>1, <2>2, <2>3, OneCall, ZenonT(30)
<1>16. Out' = Out
  <2>1. \A u \in Threads \ {t} : InCall(u)' = InCall(u)
    BY <1>6 DEF Leaves, InCall
  <2> QED BY <1>1, <1>12, <1>13, <2>1, Shares, ZenonT(30)
<1> QED BY <1>14, <1>15, <1>16

(* The program writes into an element it holds.                            *)
LEMMA FillStep ==
  ASSUME Core, NEW e \in Elements, Fill(e),
         NEW S, Chain(S, head, next), Accounts(S, slabs, Out)
  PROVE  Core' /\ Out' = Out /\ Chain(S, head', next')
<1>1. TypeOK /\ Disjoint /\ Zeroed /\ \A u \in Threads : CallOK(u)
  BY DEF Core
<1>2. /\ head' = head /\ gen' = gen /\ slabs' = slabs /\ held' = held /\ pc' = pc /\ l1' = l1
      /\ l2' = l2 /\ list' = list /\ result' = result /\ unread' = unread
  BY DEF Fill, queue, locals
<1>3. e \in held
  BY DEF Fill
<1>4. /\ next' \in [Elements -> Words] /\ buf' \in [Elements -> {Null, Data}]
      /\ \A x \in Elements \ {e} : next'[x] = next[x] /\ buf'[x] = buf[x]
  BY <1>1 DEF Fill, TypeOK, Words
<1>5. TypeOK'
  BY <1>1, <1>2, <1>4 DEF TypeOK, Words, Elements
<1>6. /\ e \in Out /\ Out \subseteq slabs \X (0 .. NElem - 1) /\ Out \cap Range(S) = {}
      /\ Range(S) \subseteq Elements /\ (head # Null => head \notin Out)
  BY <1>3, Places
<1>7. Zeroed'
  <2>1. e[1] \in slabs
    BY <1>6
  <2> QED BY <1>1, <1>2, <1>3, <1>4, <2>1 DEF Zeroed
<1>8. \A u \in Threads : CallOK(u)' /\ InCall(u)' = InCall(u)
  <2> SUFFICES ASSUME NEW u \in Threads PROVE CallOK(u)' /\ InCall(u)' = InCall(u)
    OBVIOUS
  <2>1. \A x \in InCall(u) : next'[x] = next[x]
    BY <1>1, <1>3, <1>4, InCallElements DEF Disjoint
  <2>2. head # Null => next'[head] = next[head]
    BY <1>1, <1>4, <1>6 DEF TypeOK
  <2>3. Leaves(u) /\ gen' \in Nat
    BY <1>1, <1>2 DEF Leaves, TypeOK
  <2> QED BY <1>1, <1>2, <2>1, <2>2, <2>3, OtherCall
<1>9. Out' = Out /\ Disjoint'
  <2>1. Out' = Out
    BY <1>2, <1>8 DEF Out
  <2>2. Disjoint'
    BY <1>1, <1>2, <1>8 DEF Disjoint
  <2> QED BY <2>1, <2>2
<1>10. Chain(S, head', next')
  <2>1. \A x \in Range(S) : next'[x] = next[x]
    BY <1>4, <1>6
  <2> QED BY <1>2, <2>1, ChainKeeps
<1>11. Accounts(S, slabs', Out')
  BY <1>2, <1>9
<1>12. Core'
  <2>1. \E X : Chain(X, head', next') /\ Accounts(X, slabs', Out')
    BY <1>10, <1>11
  <2> QED BY <1>5, <1>7, <1>8, <1>9, <2>1 DEF Core, Chain, Accounts, Elements
<1> QED BY <1>9, <1>10, <1>12


-----------------------------------------------------------------------------
(* The invariant.                                                          *)

(* At first there is no slab and no call.                                  *)
LEMMA InitCore == Init => Core
<1> SUFFICES ASSUME Init PROVE Core
  OBVIOUS
<1>1. TypeOK
  BY DEF Init, TypeOK, Words, Pcs, NoPair
<1>2. \A t \in Threads : InCall(t) = {} /\ list[t] = <<>> /\ result[t] = Null
  BY DEF Init, InCall, Range
<1>3. \A t \in Threads : CallOK(t)
  BY DEF Init, CallOK, NoPair, IsInjective, Range
<1>4. Disjoint /\ Zeroed
  BY <1>2 DEF Disjoint, Zeroed, Init
<1>5. Out = {}
  BY <1>2 DEF Out, Init
<1>6. Chain(<<>>, head, next)
  BY DEF Chain, Init, IsInjective
<1>7. Accounts(<<>>, slabs, Out)
  BY <1>5 DEF Accounts, Init, Range
<1> QED BY <1>1, <1>3, <1>4, <1>6, <1>7 DEF Core

(* What a step does to the chain and to the elements off it.               *)
ChainStep(S) ==
    \/ Chain(S, head', next') /\ Out' = Out
    \/ S # <<>> /\ Chain(Tail(S), head', next') /\ Out' = Out \cup {Head(S)}
    \/ \E L \in Seq(Elements) :
        /\ L # <<>> /\ IsInjective(L) /\ Range(L) \subseteq Out
        /\ Chain(L \o S, head', next') /\ Out' = Out \ Range(L)
    \/ /\ Chain(S, head', next')
       /\ \E s \in Slabs \ slabs : Out' = Out \cup ({s} \X (0 .. NElem - 1))

(* Every step keeps the invariant, and pushes, pops, grows or leaves alone *)
(* the chain.                                                              *)
LEMMA StepCore ==
  ASSUME Core, [Next]_vars, NEW S, Chain(S, head, next), Accounts(S, slabs, Out)
  PROVE  Core' /\ ChainStep(S)
<1>1. ASSUME NEW t \in Threads, Alloc(t) PROVE Core' /\ ChainStep(S)
  BY <1>1, AllocStep DEF ChainStep
<1>2. ASSUME NEW t \in Threads, NEW word \in {"head", "gen"}, Load(t, word) PROVE Core' /\ ChainStep(S)
  BY <1>2, LoadStep DEF ChainStep
<1>3. ASSUME NEW t \in Threads, ReadNext(t) PROVE Core' /\ ChainStep(S)
  BY <1>3, ReadNextStep DEF ChainStep
<1>4. ASSUME NEW t \in Threads, Link(t) PROVE Core' /\ ChainStep(S)
  BY <1>4, LinkStep DEF ChainStep
<1>5. ASSUME NEW t \in Threads, ZeroLink(t) PROVE Core' /\ ChainStep(S)
  BY <1>5, ZeroLinkStep DEF ChainStep
<1>6. ASSUME NEW t \in Threads, alloc_slow(t) PROVE Core' /\ ChainStep(S)
  BY <1>6, alloc_slowStep DEF ChainStep
<1>7. ASSUME NEW t \in Threads, Popped(t) PROVE Core' /\ ChainStep(S)
  BY <1>7, PoppedStep DEF ChainStep
<1>8. ASSUME NEW t \in Threads, Pushed(t) PROVE Core' /\ ChainStep(S)
  BY <1>8, PushedStep DEF ChainStep
<1>9. ASSUME NEW t \in Threads, Fails(t) PROVE Core' /\ ChainStep(S)
  BY <1>9, FailsStep DEF ChainStep
<1>10. ASSUME NEW t \in Threads, NEW e \in Elements, free(t, e) PROVE Core' /\ ChainStep(S)
  BY <1>10, freeStep DEF ChainStep
<1>11. ASSUME NEW e \in Elements, Fill(e) PROVE Core' /\ ChainStep(S)
  BY <1>11, FillStep DEF ChainStep
<1>12. CASE UNCHANGED vars
  <2>1. /\ head' = head /\ gen' = gen /\ next' = next /\ buf' = buf /\ slabs' = slabs
        /\ held' = held /\ pc' = pc /\ l1' = l1 /\ unread' = unread /\ l2' = l2
        /\ list' = list /\ result' = result
    BY <1>12 DEF vars, queue, memory, locals
  <2>2. Out' = Out /\ Disjoint' /\ Zeroed' /\ TypeOK'
    <3>1. \A u \in Threads : InCall(u)' = InCall(u)
      BY <2>1 DEF InCall
    <3>2. Out' = Out
      BY <2>1, <3>1 DEF Out
    <3>3. Disjoint'
      BY <2>1, <3>1 DEF Core, Disjoint
    <3>4. Zeroed'
      BY <2>1 DEF Core, Zeroed
    <3>5. TypeOK'
      BY <2>1 DEF Core, TypeOK, Words, Elements
    <3> QED BY <3>2, <3>3, <3>4, <3>5
  <2>3. \A t \in Threads : CallOK(t)'
    BY <2>1 DEF Core, CallOK, Matches
  <2>4. Chain(S, head', next') /\ Accounts(S, slabs', Out')
    BY <2>1, <2>2
  <2>5. \E X : Chain(X, head', next') /\ Accounts(X, slabs', Out')
    BY <2>4
  <2>6. Core'
    BY <2>2, <2>3, <2>5 DEF Core, Chain, Accounts, Elements
  <2> QED BY <2>2, <2>4, <2>6 DEF ChainStep
<1> QED BY <1>1, <1>2, <1>3, <1>4, <1>5, <1>6, <1>7, <1>8, <1>9, <1>10, <1>11, <1>12
        DEF Next, Progress, Exchange

(* The chain and what it leaves out account for every element, always.     *)
LEMMA CoreAlways == Spec => []Core
<1>1. Core /\ [Next]_vars => Core'
  <2> SUFFICES ASSUME Core, [Next]_vars PROVE Core'
    OBVIOUS
  <2>1. PICK S : Chain(S, head, next) /\ Accounts(S, slabs, Out)
    BY DEF Core
  <2> QED BY <2>1, StepCore
<1> QED BY InitCore, <1>1, PTL DEF Spec

(* The invariant on the list as a walk finds it follows from the one on    *)
(* the chain.                                                              *)
LEMMA CoreIsInv == Core => ZoneInv
<1> SUFFICES ASSUME Core PROVE ZoneInv
  OBVIOUS
<1>1. PICK S : Chain(S, head, next) /\ Accounts(S, slabs, Out)
  BY DEF Core
<1>2. FreeList = S /\ Last(Walk) = Null
  BY <1>1, WalkFinds
<1>3. IsInjective(S)
  BY <1>1 DEF Chain
<1>4. Out \cap Range(S) = {} /\ Out \cup Range(S) = slabs \X (0 .. NElem - 1)
  BY <1>1 DEF Accounts
<1> QED BY <1>2, <1>3, <1>4 DEF Core, ZoneInv

(* pop, push_list, alloc_slow and free lose no element and hand none out   *)
(* twice, however many threads call them: every element of a slab in use   *)
(* is on the list in memory, which ends in nullptr and repeats nothing, in *)
(* one call, or held by the program, and in only one of these.             *)
THEOREM ZoneInvariant == Spec => []ZoneInv
BY CoreAlways, CoreIsInv, PTL


-----------------------------------------------------------------------------
(* What alloc returns.                                                     *)

(* An element handed to the program is zero.                               *)
LEMMA ZeroedStep ==
  ASSUME Core, Next, NEW e \in Elements, e \in held' \ held
  PROVE  next'[e] = Null /\ buf'[e] = Null
<1>0. TypeOK /\ Zeroed /\ \A t \in Threads : CallOK(t)
  BY DEF Core
<1>1. buf[e] = Null
  BY <1>0 DEF Zeroed
<1>2. ASSUME NEW t \in Threads, ZeroLink(t) PROVE next'[e] = Null /\ buf'[e] = Null
  <2>1. e = result[t] /\ buf' = buf
    BY <1>2 DEF ZeroLink, Returns
  <2>2. next'[e] = Null
    BY <1>0, <1>2, <2>1 DEF ZeroLink, TypeOK
  <2> QED BY <1>1, <2>1, <2>2
<1>3. ASSUME NEW t \in Threads, Pushed(t) PROVE next'[e] = Null /\ buf'[e] = Null
  <2>1. e = result[t] /\ result[t] # Null /\ buf' = buf /\ next' = next /\ pc[t] = "publish"
    BY <1>3 DEF Pushed, Returns, memory
  <2>2. next[e] = Null
    BY <1>0, <2>1 DEF CallOK
  <2> QED BY <1>1, <2>1, <2>2
<1>4. held' \subseteq held \/ \E t \in Threads : ZeroLink(t) \/ Pushed(t)
  BY ZenonT(30) DEF Next, Progress, Exchange, Alloc, Load, ReadNext, Link, alloc_slow, Popped, Fails, free, Fill
<1> QED BY <1>2, <1>3, <1>4

(* objc-zalloc.h: "This allocator returns always zeroed memory".           *)
THEOREM ZoneAllocatesZeroed == Spec => AllocatesZeroed
<1>1. Core /\ [Next]_vars =>
        [\A e \in Elements : e \in held' \ held => next'[e] = Null /\ buf'[e] = Null]_vars
  BY ZeroedStep
<1> QED BY CoreAlways, <1>1, PTL DEF Spec, AllocatesZeroed

-----------------------------------------------------------------------------
(* The queue is a stack.                                                   *)

(* WalkFinds, of this state and of the next.                               *)
LEMMA WalkIs == \A S : Chain(S, head, next) => FreeList = S
BY WalkFinds

(* The same of the next state.                                             *)
LEMMA WalkIsNext == \A S : Chain(S, head', next') => FreeList' = S
<1>1. (\A S : Chain(S, head, next) => FreeList = S)'
  BY WalkIs, PTL
<1> QED BY <1>1 DEF Chain, Elements

(* A list put before a stack is found again as what the stack grew by.     *)
LEMMA GrownBy ==
  ASSUME NEW L \in Seq(Elements), NEW S \in Seq(Elements), L # <<>>
  PROVE  /\ Len(L \o S) > Len(S)
         /\ SubSeq(L \o S, 1, Len(L \o S) - Len(S)) = L
<1>1. Len(L) \in Nat \ {0} /\ Len(S) \in Nat
  BY EmptySeq, LenProperties
<1>2. /\ L \o S \in Seq(Elements) /\ Len(L \o S) = Len(L) + Len(S)
      /\ \A i \in 1 .. Len(L) + Len(S) : (L \o S)[i] = IF i <= Len(L) THEN L[i] ELSE S[i - Len(L)]
  BY <1>1, ConcatProperties
<1> DEFINE C == L \o S
           T == SubSeq(C, 1, Len(L))
<1>3. Len(C) - Len(S) = Len(L) /\ Len(C) > Len(S)
  BY <1>1, <1>2
<1>4. \A i \in 1 .. Len(L) : C[i] = L[i]
  BY <1>1, <1>2
<1>5. C \in Seq(Elements) /\ Len(L) \in 0 .. Len(C)
  BY <1>1, <1>2
<1> HIDE DEF C
<1>6. T \in Seq(Elements) /\ Len(T) = Len(L) /\ \A i \in 1 .. Len(L) : T[i] = C[i]
  BY <1>1, <1>5, SubSeqProperties
<1>7. T = L
  BY <1>4, <1>6, SeqEqual, ZenonT(30)
<1> QED BY <1>3, <1>7 DEF C

(* Every step of the queue is a step of the stack, or none.                *)
LEMMA StackStep ==
  ASSUME Core, [Next]_vars
  PROVE  [Lifo!Next]_<<FreeList, Out>>
<1>1. PICK S : Chain(S, head, next) /\ Accounts(S, slabs, Out)
  BY DEF Core
<1>2. FreeList = S /\ S \in Seq(Elements) /\ Out \cap Range(S) = {}
      /\ Out \cup Range(S) = slabs \X (0 .. NElem - 1)
  BY <1>1, WalkIs DEF Chain, Accounts
<1>3. ChainStep(S)
  BY <1>1, StepCore
<1>4. CASE Chain(S, head', next') /\ Out' = Out
  <2>1. FreeList' = FreeList
    BY <1>2, <1>4, WalkIsNext
  <2> QED BY <1>4, <2>1
<1>5. CASE S # <<>> /\ Chain(Tail(S), head', next') /\ Out' = Out \cup {Head(S)}
  <2>1. FreeList' = Tail(S)
    BY <1>5, WalkIsNext, ZenonT(30)
  <2>2. Lifo!Pop
    BY <1>2, <1>5, <2>1 DEF Lifo!Pop
  <2> QED BY <2>2 DEF Lifo!Next
<1>6. ASSUME NEW L \in Seq(Elements), L # <<>>, IsInjective(L), Range(L) \subseteq Out,
             Chain(L \o S, head', next'), Out' = Out \ Range(L)
      PROVE  Lifo!Next
  <2>1. FreeList' = L \o S
    BY <1>6, WalkIsNext, ZenonT(30)
  <2>2. Len(L \o S) > Len(S) /\ SubSeq(L \o S, 1, Len(L \o S) - Len(S)) = L
    BY <1>2, <1>6, GrownBy
  <2>3. Lifo!PushList(L)
    BY <1>2, <1>6, <2>1 DEF Lifo!PushList, Lifo!Range, Lifo!IsInjective, Range, IsInjective
  <2>4. Lifo!Push
    BY <1>2, <2>1, <2>2, <2>3, ZenonT(30) DEF Lifo!Push
  <2> QED BY <2>4 DEF Lifo!Next
<1>7. ASSUME Chain(S, head', next'), NEW s \in Slabs \ slabs,
             Out' = Out \cup ({s} \X (0 .. NElem - 1))
      PROVE  Lifo!Next
  <2>1. FreeList' = S
    BY <1>7, WalkIsNext
  <2>2. Lifo!Slab(s) = {s} \X (0 .. NElem - 1) /\ Lifo!Known = slabs \X (0 .. NElem - 1)
    BY <1>2 DEF Lifo!Slab, Lifo!Known, Lifo!Range, Range
  <2>3. Lifo!Slab(s) \cap Lifo!Known = {}
    BY <2>2
  <2>4. Lifo!Grow(s)
    BY <1>2, <1>7, <2>1, <2>2, <2>3 DEF Lifo!Grow
  <2> QED BY <2>4 DEF Lifo!Next
<1> QED BY <1>3, <1>4, <1>5, <1>6, <1>7 DEF ChainStep

(* AtomicQueue is a stack: the queue with its non-atomic reads, stale      *)
(* links and reused elements implements one on which a list is pushed, or  *)
(* the newest element popped, in one step.                                 *)
THEOREM ZoneIsStack == Spec => IsStack
<1>1. Init => Lifo!Init
  <2> SUFFICES ASSUME Init PROVE Lifo!Init
    OBVIOUS
  <2>1. Chain(<<>>, head, next)
    BY DEF Chain, Init, IsInjective
  <2>2. FreeList = <<>>
    BY <2>1, WalkIs
  <2>3. Out = {}
    BY DEF Out, InCall, Init, Range
  <2> QED BY <2>2, <2>3 DEF Lifo!Init
<1>2. Core /\ [Next]_vars => [Lifo!Next]_<<FreeList, Out>>
  BY StackStep
<1> QED BY <1>1, <1>2, CoreAlways, PTL DEF Spec, IsStack, Lifo!Spec
=============================================================================
