----------------------------- MODULE MCZoneAlloc ----------------------------
(* Small instances of ZoneAlloc for TLC.                                   *)
EXTENDS ZoneAlloc, TLC
=============================================================================
