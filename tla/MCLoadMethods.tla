---------------------------- MODULE MCLoadMethods ----------------------------
(* Instances of LoadMethods for TLC: a base image, two images of subclasses *)
(* and categories on top of it, and an image with a category only.          *)
EXTENDS LoadMethods, TLC

CONSTANTS t1, t2, Core, Kit, Plug, Ext, A, B, C, D, catA, catB, catD

ClassLists == Core :> <<A>> @@ Kit :> <<C, B>> @@ Plug :> <<D>> @@ Ext :> <<>>
CategoryLists == Core :> <<>> @@ Kit :> <<catA>> @@ Plug :> <<catD>> @@ Ext :> <<catB>>
(* A > B > {C, D}; the list of Kit names the subclass C first.              *)
Hierarchy == A :> None @@ B :> A @@ C :> B @@ D :> B
Extends == catA :> A @@ catB :> B @@ catD :> D
Dependencies == Core :> {} @@ Kit :> {Core} @@ Plug :> {Kit} @@ Ext :> {Kit}

Symmetry == Permutations(Threads)
=============================================================================
