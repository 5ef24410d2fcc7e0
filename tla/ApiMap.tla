-------------------------------- MODULE ApiMap --------------------------------
(***************************************************************************)
(* What the CRUD interface /api/<Entity> promises: one map from ids to      *)
(* documents, every request taking effect at one instant, with the reply    *)
(* that the map gives at that instant.                                      *)
(***************************************************************************)
EXTENDS Integers, Functions

CONSTANTS Workers, Docs, Ids, NextId(_)

VARIABLES
  objects,     \* id -> document
  made,        \* "missing" or "present": whether the entity was ever written
  reply,       \* worker -> <<status, set of what the reply carries>>
  faults       \* how many calls of the file system have reported an error

mvars == <<objects, made, reply, faults>>

NoReply == <<0, {}>>   \* no request yet
Pending == <<1, {}>>   \* the request is not answered yet

MPut(f, i, v) == [j \in DOMAIN f \cup {i} |-> IF j = i THEN v ELSE f[j]]

(* Exactly one response to every request. *)
MRespond(w, status, result) ==
  /\ reply[w] = Pending
  /\ reply' = [reply EXCEPT ![w] = <<status, result>>]

MInit ==
  /\ objects = [i \in {} |-> 0]
  /\ made = "missing"
  /\ reply = [w \in Workers |-> NoReply]
  /\ faults = 0

MAsk(w) ==
  /\ reply[w] # Pending
  /\ reply' = [reply EXCEPT ![w] = Pending]
  /\ UNCHANGED <<objects, made, faults>>

(* A new object has a new id, as long as the largest id is not in use.      *)
MPost(w, d) ==
  LET i == NextId(DOMAIN objects)
  IN  /\ i \notin DOMAIN objects \/ \E m \in DOMAIN objects : \A j \in Ids : j <= m
      /\ objects' = MPut(objects, i, d)
      /\ MRespond(w, 201, {i})
      /\ UNCHANGED <<made, faults>>

MGet(w, i) ==
  /\ IF i \in DOMAIN objects THEN MRespond(w, 200, {objects[i]})
                             ELSE MRespond(w, 404, {})
  /\ UNCHANGED <<objects, made, faults>>

MList(w) ==
  /\ IF made = "present" THEN MRespond(w, 200, DOMAIN objects)
                         ELSE MRespond(w, 404, {})
  /\ UNCHANGED <<objects, made, faults>>

MUpdate(w, i, d) ==
  /\ objects' = MPut(objects, i, d)
  /\ MRespond(w, 200, {})
  /\ UNCHANGED <<made, faults>>

MDelete(w, i) ==
  /\ IF i \in DOMAIN objects
       THEN objects' = Restrict(objects, DOMAIN objects \ {i}) /\ MRespond(w, 200, {})
       ELSE objects' = objects /\ MRespond(w, 404, {})
  /\ UNCHANGED <<made, faults>>

(* The entity's directory comes into being with the first write. *)
MMake == made' = "present" /\ UNCHANGED <<objects, reply, faults>>

(* A request that fits no operation is refused at once.                     *)
MRefuse(w) ==
  /\ reply[w] # Pending
  /\ \E status \in {400, 404} : reply' = [reply EXCEPT ![w] = <<status, {}>>]
  /\ UNCHANGED <<objects, made, faults>>

(* An operation on which the file system reports an error changes nothing;  *)
(* a file that cannot be read counts as missing.                            *)
MFail(w) ==
  /\ faults' = faults + 1
  /\ \E status \in {404, 500} : MRespond(w, status, {})
  /\ made' \in {made, "present"}
  /\ UNCHANGED objects

MNext ==
  \/ MMake
  \/ \E w \in Workers :
       \/ MAsk(w) \/ MList(w) \/ MRefuse(w) \/ MFail(w)
       \/ \E d \in Docs : MPost(w, d)
       \/ \E i \in Ids : MGet(w, i) \/ MDelete(w, i)
       \/ \E i \in Ids, d \in Docs : MUpdate(w, i, d)

MSpec == MInit /\ [][MNext]_mvars
===============================================================================
