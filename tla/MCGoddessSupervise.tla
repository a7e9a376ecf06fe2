-------------------------- MODULE MCGoddessSupervise --------------------------
(* An instance of GoddessSupervise: two critical services and media. *)
EXTENDS GoddessSupervise

CONSTANT Media

ServiceOrder == <<WS, Media, EX>>
=============================================================================
