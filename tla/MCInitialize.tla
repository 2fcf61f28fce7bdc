---------------------------- MODULE MCInitialize ----------------------------
(* An instance of Initialize for TLC: a class hierarchy and what its       *)
(* +initialize methods message.                                            *)
EXTENDS Initialize, TLC

CONSTANTS t1, t2, Object, Base, Left, Leaf, f1

(* Object > Base > Left > Leaf                                             *)
Chain == Object :> None @@ Base :> Object @@ Left :> Base @@ Leaf :> Left

(* The situation of the OmniWeb deadlock: a +initialize messages a class   *)
(* two levels down, whose own messages the superclass.                     *)
ChainSends == Object :> {} @@ Base :> {Leaf} @@ Left :> {} @@ Leaf :> {Base}
=============================================================================
