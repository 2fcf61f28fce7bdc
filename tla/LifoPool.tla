------------------------------ MODULE LifoPool ------------------------------
(***************************************************************************)
(* What the zone allocator's free list promises: a stack of elements on    *)
(* which a list of elements is pushed, or the newest element popped, in    *)
(* one step, whatever the other threads do.  An element is on the stack,   *)
(* out of it, or in a slab that malloc has not handed over yet.            *)
(***************************************************************************)
EXTENDS Naturals, Sequences, Functions

CONSTANTS
    Slabs,      \* the slabs malloc can hand over
    NElem       \* elements of a slab, numbered from 0

VARIABLES stack, out

Elements == Slabs \X (0 .. NElem - 1)
Slab(s) == {s} \X (0 .. NElem - 1)
Known == out \cup Range(stack)

Init == stack = <<>> /\ out = {}

Grow(s) ==
    /\ Slab(s) \cap Known = {}
    /\ out' = out \cup Slab(s)
    /\ UNCHANGED stack

Pop ==
    /\ stack # <<>>
    /\ stack' = Tail(stack)
    /\ out' = out \cup {Head(stack)}

PushList(list) ==
    /\ list # <<>> /\ IsInjective(list) /\ Range(list) \subseteq out
    /\ stack' = list \o stack
    /\ out' = out \ Range(list)

(* The list pushed is what the stack has grown by.                         *)
Push == Len(stack') > Len(stack) /\ PushList(SubSeq(stack', 1, Len(stack') - Len(stack)))

Next == (\E s \in Slabs: Grow(s)) \/ Pop \/ Push

Spec == Init /\ [][Next]_<<stack, out>>
=============================================================================
