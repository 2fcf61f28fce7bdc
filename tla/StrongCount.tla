---------------------------- MODULE StrongCount ----------------------------
(***************************************************************************)
(* What retain, release and weak loads promise their callers about one     *)
(* object, whatever word the references are counted in: the count goes up  *)
(* and down by one, it is never revived from zero, and the release that    *)
(* takes it to zero - and no other step - begins the object's one          *)
(* deallocation.  A count that the word cannot hold is given up, and the   *)
(* object then lives for ever.                                             *)
(***************************************************************************)
EXTENDS Integers

VARIABLES count, life

vars == <<count, life>>

Init == count = 1 /\ life = "live"

\* -retain, and a weak load that finds the object alive.
Retain ==
  /\ life = "live" /\ count > 0
  /\ count' = count + 1
  /\ UNCHANGED life

\* -release: the last one begins -dealloc.
Release ==
  /\ life = "live" /\ count > 0
  /\ count' = count - 1
  /\ life' = IF count = 1 THEN "deallocating" ELSE "live"

\* The count saturates (SIDE_TABLE_RC_PINNED).
Immortal == -1
Pin ==
  /\ life = "live" /\ count > 0
  /\ count' = Immortal
  /\ UNCHANGED life

\* -dealloc reaches free().
Free == life = "deallocating" /\ life' = "freed" /\ UNCHANGED count

Next == Retain \/ Release \/ Pin \/ Free

Spec == Init /\ [][Next]_vars
=============================================================================
