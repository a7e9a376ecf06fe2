------------------------------ MODULE MCAccount ------------------------------
(* An instance of Account with two users and two passwords. *)
EXTENDS Account, TLC

\* Users, passwords and threads are interchangeable.
Permutation == Permutations(Users) \cup Permutations(Passwords) \cup Permutations(Threads)
=============================================================================
