---------------------------- MODULE MCGoddessPower ----------------------------
(* Instances of GoddessPower: the three services it names, and processes that *)
(* they and each other start.                                                 *)
EXTENDS GoddessPower
=============================================================================
