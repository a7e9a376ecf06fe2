------------------------------ MODULE MCRubbish ------------------------------
(* An instance of Rubbish: two programs, two files and the paths they share.  *)
EXTENDS Rubbish

\* Files, paths and programs are interchangeable.
Permutation == Permutations(Files) \cup Permutations(Paths) \cup Permutations(Programs)
=============================================================================
