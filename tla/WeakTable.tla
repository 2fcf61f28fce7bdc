----------------------------- MODULE WeakTable ------------------------------
(***************************************************************************)
(* The hash tables of objc-weak.mm: the weak_table_t of a side table, and  *)
(* the referrers of each of its entries, first inline, then in a table of  *)
(* their own.  Both are open-addressing tables whose removals leave plain  *)
(* holes; a search runs over holes and ends after max_hash_displacement    *)
(* steps, and the runtime aborts (bad_weak_table) when a search comes      *)
(* round to where it began.  The table's lock is held throughout, so an    *)
(* operation is one step.                                                  *)
(***************************************************************************)
EXTENDS Naturals, FiniteSets, Sequences, SequencesExt, FiniteSetsExt, Functions

CONSTANTS
    Objects, Referrers, Nil,
    HashFunctions,          \* hash_pointer and w_hash_pointer: the functions to consider
    WEAK_INLINE_COUNT,
    FirstSize,              \* 64, the size of the first table
    CompactSize,            \* 1024, the size from which tables shrink
    CompactLoad,            \* 16, the load at which they do
    CompactBy               \* 8, by how much

ASSUME WeakTableAssumption ==
    /\ WEAK_INLINE_COUNT \in Nat \ {0, 1} /\ FirstSize \in Nat \ {0, 1}
    /\ CompactBy \in Nat \ {0} /\ CompactLoad \in {n \in Nat: n >= 2 * CompactBy}
    /\ HashFunctions \subseteq [Objects \cup Referrers -> Nat]

VARIABLES
    hash,
    weak_table,
    value,          \* the weak variables
    trouble         \* bad_weak_table or objc_weak_error was reached

vars == <<hash, weak_table, value, trouble>>

-----------------------------------------------------------------------------
(* Open addressing.  A table is a function from slots 0 .. size - 1.       *)
SizeOf(slots) == Cardinality(DOMAIN slots)
Empty(size) == [i \in 0 .. size - 1 |-> Nil]

(* The displacements at which a search that begins at h meets one of the   *)
(* values it looks for.                                                    *)
At(slots, h, d) == (h + d) % SizeOf(slots)
Matches(slots, h, sought) == {d \in 0 .. SizeOf(slots) - 1: slots[At(slots, h, d)] \in sought}

(* A search, bounded by the largest displacement of an insertion.          *)
Found(slots, max, h, sought) == {d \in Matches(slots, h, sought): d <= max}
ComesRound(slots, max, h, sought) ==
    Matches(slots, h, sought) = {} /\ SizeOf(slots) > 0 /\ max + 1 >= SizeOf(slots)

(* Insertion into the first hole; NewMax is max_hash_displacement after it. *)
FirstHole(slots, h) == Min(Matches(slots, h, {Nil}))
NewMax(max, d) == IF d > max THEN d ELSE max

-----------------------------------------------------------------------------
(* weak_entry_t.  The referrers of an inline entry are its slots; num_refs *)
(* and max are meaningful only out of line.                                *)
NewEntry(o, l) ==
    [referent |-> o, out_of_line |-> FALSE, referrers |-> [Empty(WEAK_INLINE_COUNT) EXCEPT ![0] = l],
     num_refs |-> 0, max |-> 0]

Contents(slots) == Range(slots) \ {Nil}
InOrder(slots) == SelectSeq([i \in 1 .. SizeOf(slots) |-> slots[i - 1]], LAMBDA x: x # Nil)

(* The end of append_referrer.                                             *)
InsertReferrer_NoMax(entry, l) ==
    LET d == FirstHole(entry.referrers, hash[l])
    IN [entry EXCEPT !.referrers[At(entry.referrers, hash[l], d)] = l, !.num_refs = @ + 1]

InsertReferrer(entry, l) ==
    LET d == FirstHole(entry.referrers, hash[l])
    IN [entry EXCEPT !.referrers[At(entry.referrers, hash[l], d)] = l,
                     !.num_refs = @ + 1, !.max = NewMax(@, d)]

grow_refs_and_insert(entry, l) ==
    InsertReferrer(FoldLeft(InsertReferrer,
                            [entry EXCEPT !.referrers = Empty(2 * SizeOf(@)), !.num_refs = 0, !.max = 0],
                            InOrder(entry.referrers)), l)

(* An entry whose inline slots are full becomes a full table, which the    *)
(* insertion then grows and rehashes.                                      *)
append_referrer(entry, l) ==
    LET holes == {i \in DOMAIN entry.referrers: entry.referrers[i] = Nil}
        outer == IF entry.out_of_line THEN entry
                 ELSE [entry EXCEPT !.out_of_line = TRUE, !.num_refs = WEAK_INLINE_COUNT, !.max = 0]
    IN IF ~entry.out_of_line /\ holes # {} THEN [entry EXCEPT !.referrers[Min(holes)] = l]
       ELSE IF outer.num_refs >= (SizeOf(outer.referrers) * 3) \div 4 THEN grow_refs_and_insert(outer, l)
       ELSE InsertReferrer(outer, l)

(* Where remove_referrer finds l: a slot, or nowhere.                      *)
SlotOf(entry, l) ==
    IF entry.out_of_line
    THEN {At(entry.referrers, hash[l], d): d \in Found(entry.referrers, entry.max, hash[l], {l})}
    ELSE {i \in DOMAIN entry.referrers: entry.referrers[i] = l}

remove_referrer(entry, l) ==
    IF SlotOf(entry, l) = {} THEN entry
    ELSE [entry EXCEPT !.referrers[Min(SlotOf(entry, l))] = Nil,
                       !.num_refs = IF entry.out_of_line THEN @ - 1 ELSE @]

-----------------------------------------------------------------------------
(* weak_table_t.                                                           *)
NoTable == [entries |-> <<>>, num |-> 0, max |-> 0]

weak_entry_insert(table, entry) ==
    LET h == hash[entry.referent]
        d == FirstHole(table.entries, h)
    IN [entries |-> [table.entries EXCEPT ![At(table.entries, h, d)] = entry],
        num |-> table.num + 1, max |-> NewMax(table.max, d)]

weak_resize(table, size) ==
    FoldLeft(weak_entry_insert, [entries |-> Empty(size), num |-> 0, max |-> 0], InOrder(table.entries))

weak_grow_maybe(table) ==
    LET size == SizeOf(table.entries) IN
    IF table.num >= (size * 3) \div 4
    THEN weak_resize(table, IF size = 0 THEN FirstSize ELSE 2 * size) ELSE table

weak_compact_maybe(table) ==
    LET size == SizeOf(table.entries) IN
    IF size >= CompactSize /\ size \div CompactLoad >= table.num
    THEN weak_resize(table, size \div CompactBy) ELSE table

(* weak_entry_for_referent: the index of the entry, in a set.              *)
EntriesFor(table, o) == {x \in Range(table.entries) \ {Nil}: x.referent = o}
weak_entry_for_referent(table, o) ==
    IF table.entries = <<>> THEN {}
    ELSE {At(table.entries, hash[o], d): d \in Found(table.entries, table.max, hash[o], EntriesFor(table, o))}
SearchAborts(table, o) ==
    ComesRound(table.entries, table.max, hash[o], EntriesFor(table, o))

weak_entry_remove(table, i) ==
    weak_compact_maybe([table EXCEPT !.entries[i] = Nil, !.num = @ - 1])

(* An entry is removed with its last inline referrer.  The words of an     *)
(* out-of-line entry that the test of the inline referrers looks at are    *)
(* its table's address and mask, so such an entry stays.                   *)
IsSpent_Always(entry) == TRUE
IsSpent(entry) == ~entry.out_of_line /\ Contents(entry.referrers) = {}

weak_unregister_no_lock(table, o, l) ==
    IF o = Nil \/ weak_entry_for_referent(table, o) = {} THEN table
    ELSE LET i == Min(weak_entry_for_referent(table, o))
             entry == remove_referrer(table.entries[i], l)
         IN IF IsSpent(entry) THEN weak_entry_remove(table, i)
            ELSE [table EXCEPT !.entries[i] = entry]

weak_register_no_lock(table, o, l) ==
    IF o = Nil THEN table
    ELSE IF weak_entry_for_referent(table, o) # {}
    THEN [table EXCEPT !.entries[Min(weak_entry_for_referent(table, o))] = append_referrer(@, l)]
    ELSE weak_entry_insert(weak_grow_maybe(table), NewEntry(o, l))

(* The searches of an operation on o that cannot end well: one that comes  *)
(* round, and a referrer that is not found.                                *)
Unknown(table, o, l) ==
    /\ o # Nil
    /\ \A i \in weak_entry_for_referent(table, o): SlotOf(table.entries[i], l) = {}
Aborts(table, o) == o # Nil /\ SearchAborts(table, o)

-----------------------------------------------------------------------------
Init ==
    /\ hash \in HashFunctions
    /\ weak_table = NoTable
    /\ value = [l \in Referrers |-> Nil]
    /\ trouble = FALSE

(* storeWeak, with both side tables locked.                                *)
storeWeak(l, new) ==
    LET old == value[l]
        gone == weak_unregister_no_lock(weak_table, old, l)
    IN /\ weak_table' = weak_register_no_lock(gone, new, l)
       /\ value' = [value EXCEPT ![l] = new]
       /\ trouble' = (trouble \/ Aborts(weak_table, old) \/ Unknown(weak_table, old, l) \/ Aborts(gone, new))
       /\ UNCHANGED hash

(* weak_clear_no_lock: the variables that the entry lists are zeroed.  The *)
(* object's address may be used again.                                     *)
weak_clear_no_lock(o) ==
    /\ trouble' = (trouble \/ Aborts(weak_table, o))
    /\ LET found == weak_entry_for_referent(weak_table, o) IN
        IF found = {} THEN UNCHANGED <<weak_table, value>>
        ELSE LET i == Min(found)
                 listed == Contents(weak_table.entries[i].referrers)
             IN /\ value' = [l \in Referrers |-> IF l \in listed /\ value[l] = o THEN Nil ELSE value[l]]
                /\ weak_table' = weak_entry_remove(weak_table, i)
    /\ UNCHANGED hash

Next ==
    \/ \E l \in Referrers, o \in Objects \cup {Nil}: storeWeak(l, o)
    \/ \E o \in Objects: weak_clear_no_lock(o)

Spec == Init /\ [][Next]_vars

-----------------------------------------------------------------------------
EntriesOf(o) == EntriesFor(weak_table, o)
Listed(o) == UNION {Contents(e.referrers): e \in EntriesOf(o)}

(* No search runs round the table ("bad weak table ... may be a runtime    *)
(* bug") and no variable that was registered is unknown to its entry: a    *)
(* hole remains and the displacement stays below the size.                 *)
NoTrouble == ~trouble

(* An object has one entry and a variable one place in it; the counts are  *)
(* those of the slots in use, and whatever has been inserted can be found  *)
(* within max_hash_displacement steps, after every mixture of removals,    *)
(* growth and compaction.  No search comes round a full table.             *)
WeakTableInv ==
    /\ value \in [Referrers -> Objects \cup {Nil}]
    /\ weak_table.num = Cardinality({i \in DOMAIN weak_table.entries: weak_table.entries[i] # Nil})
    /\ \A o \in Objects: Cardinality(EntriesOf(o)) <= 1
    /\ \A e \in Contents(weak_table.entries):
        /\ weak_entry_for_referent(weak_table, e.referent) # {}
        /\ \A l \in Contents(e.referrers): Cardinality(SlotOf(e, l)) = 1
        /\ e.out_of_line => e.num_refs = Cardinality(Contents(e.referrers))
    /\ NoTrouble

(* The variables listed for an object are those that hold it: dealloc      *)
(* zeroes all of them and writes to no other address.                      *)
ListsItsVariables == \A o \in Objects: Listed(o) = {l \in Referrers: value[l] = o}
=============================================================================
