---------------------------- MODULE MCMessageBoard ----------------------------
(* Small instances of MessageBoard for TLC. *)
EXTENDS MessageBoard, TLC

(* No action and no property names a worker or a message. *)
Symmetry == Permutations(Workers) \cup Permutations(Posts)
===============================================================================
