------------------------------- MODULE MCUserDb -------------------------------
(* Small instances of UserDb for TLC. *)
EXTENDS UserDb, TLC

(* No action and no property names a worker, a name or a password. *)
Symmetry == Permutations(Workers) \cup Permutations(Names) \cup Permutations(Passwords)
===============================================================================
