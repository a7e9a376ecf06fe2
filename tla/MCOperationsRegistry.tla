------------------------ MODULE MCOperationsRegistry ------------------------
(* Instances of the Operations registry for TLC. *)
EXTENDS OperationsRegistry
=============================================================================
