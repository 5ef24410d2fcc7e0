------------------------------ MODULE MCSessions ------------------------------
(* Small instances of Sessions for TLC. *)
EXTENDS Sessions, TLC

(* No action and no property names a worker, a user or a token. *)
Symmetry == Permutations(Workers) \cup Permutations(Users) \cup Permutations(Tokens)
===============================================================================
