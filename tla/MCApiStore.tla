------------------------------ MODULE MCApiStore ------------------------------
(* Small instances of ApiStore for TLC. *)
EXTENDS ApiStore

CONSTANTS short, long    \* two documents, one longer than the other

MCDocs == {short, long}
MCSize == [d \in MCDocs |-> IF d = long THEN 2 ELSE 1]

(* The server: every request has a handler object, and a mutex, of its own. *)
PerRequest == [w \in Workers |-> w]

(* One handler object for all requests. *)
Shared == [w \in Workers |-> "handler"]

MCHandlers == Workers \cup {"handler"}
ServerOnly == {PerRequest}
Both       == {PerRequest, Shared}
===============================================================================
