--------------------------- MODULE ConnectionsProofs ---------------------------
(***************************************************************************)
(* Proofs about Connections, for any workers, sessions and requests.       *)
(*                                                                         *)
(* OneOwner is nearly inductive: a session moves from one set of           *)
(* operations to another, to a worker or out of alive in one step.  What   *)
(* has to be added is that a session which start_accept takes from Conns   *)
(* is new everywhere (Known), and that one which is not being answered yet *)
(* has had no response (Unanswered).                                       *)
(***************************************************************************)
EXTENDS Connections, TLAPS

(* Session objects are made by start_accept only. *)
Known ==
  /\ alive \subseteq used
  /\ accepts \subseteq used /\ starts \subseteq used
  /\ reads \subseteq used /\ writes \subseteq used
  /\ Running \subseteq used

(* A session has no response before its handle_read is through. *)
Unanswered ==
  \A c \in Conns :
    c \notin used \/ c \in accepts \cup starts \cup reads \cup Running
      => responses[c] = 0

Inductive == TypeOK /\ OneOwner /\ Listening /\ Known /\ Unanswered

-------------------------------------------------------------------------------
(* A worker that takes a session up, and one that is through with it. *)

LEMMA RunningGrows ==
  ASSUME NEW w \in Workers, NEW c \in Conns, TypeOK,
         run[w] = NoConn, run' = [run EXCEPT ![w] = c]
  PROVE  Running' = Running \cup {c}
BY NoConnOK DEF Running, TypeOK

LEMMA RunningShrinks ==
  ASSUME NEW w \in Workers, TypeOK, run[w] # NoConn,
         \A u, v \in Workers : run[u] = run[v] /\ run[u] # NoConn => u = v,
         run' = [run EXCEPT ![w] = NoConn]
  PROVE  Running' = Running \ {run[w]}
BY NoConnOK DEF Running, TypeOK

LEMMA RunningStays == run' = run => Running' = Running
BY DEF Running

LEMMA RunningConns == TypeOK => Running \subseteq Conns
BY DEF Running, TypeOK

LEMMA RunningIs == ASSUME NEW w \in Workers, run[w] # NoConn PROVE run[w] \in Running
BY DEF Running

-------------------------------------------------------------------------------
LEMMA InductiveInit == Init => Inductive
<1> SUFFICES ASSUME Init PROVE Inductive
  OBVIOUS
<1>1. Running = {}
  BY DEF Init, Running
<1> QED
  BY <1>1, NoConnOK DEF Init, Inductive, TypeOK, OneOwner, Listening, Known, Unanswered

(* What start_accept makes of the rest of the state: the session it takes   *)
(* from Conns belongs to nobody.                                            *)
LEMMA InductiveAccept ==
  ASSUME Inductive, NEW w \in Workers, NEW c \in Conns,
         Accept(w, c) \/ AcceptFails(w, c)
  PROVE  Inductive'
<1>1. Running' = Running
  BY RunningStays DEF Accept, AcceptFails
<1>2. CASE Accept(w, c)
  <2>1. CASE used = Conns
    BY <1>1, <1>2, <2>1
    DEF Accept, StartAccept, Idle, client, Inductive, TypeOK, OneOwner, Listening, Known,
        Unanswered
  <2>2. CASE used # Conns
    <3>1. PICK d \in Conns \ used : /\ alive' = alive \cup {d}
                                    /\ accepts' = (accepts \ {c}) \cup {d}
                                    /\ used' = used \cup {d}
      BY <1>2, <2>2 DEF Accept, StartAccept
    <3> QED
      BY <1>1, <1>2, <3>1
      DEF Accept, Idle, client, Inductive, TypeOK, OneOwner, Listening, Known, Unanswered
  <2> QED
    BY <2>1, <2>2
<1>3. CASE AcceptFails(w, c)
  <2>1. CASE used = Conns
    BY <1>1, <1>3, <2>1
    DEF AcceptFails, StartAccept, Idle, client, Inductive, TypeOK, OneOwner, Listening,
        Known, Unanswered
  <2>2. CASE used # Conns
    <3>1. PICK d \in Conns \ used : /\ alive' = (alive \ {c}) \cup {d}
                                    /\ accepts' = (accepts \ {c}) \cup {d}
                                    /\ used' = used \cup {d}
      BY <1>3, <2>2 DEF AcceptFails, StartAccept
    <3> QED
      BY <1>1, <1>3, <3>1
      DEF AcceptFails, Idle, client, Inductive, TypeOK, OneOwner, Listening, Known, Unanswered
  <2> QED
    BY <2>1, <2>2
<1> QED
  BY <1>2, <1>3

LEMMA InductiveNext == Inductive /\ [Next]_vars => Inductive'
<1> SUFFICES ASSUME Inductive, [Next]_vars PROVE Inductive'
  OBVIOUS
<1> USE DEF Inductive, client, ops
<1>1. ASSUME NEW w \in Workers, Respond(w) PROVE Inductive'
  <2>1. Running' = Running \ {run[w]} /\ run[w] \in Running
    BY <1>1, RunningShrinks, RunningIs DEF Respond, OneOwner
  <2>2. run[w] \in Conns
    BY <1>1 DEF Respond, TypeOK
  <2>3. responses[run[w]] = 0
    BY <2>1, <2>2 DEF Unanswered
  <2> QED
    BY <1>1, <2>1, <2>2, <2>3
    DEF Respond, TypeOK, OneOwner, Listening, Known, Unanswered
<1>2. ASSUME NEW w \in Workers, HandlerThrows(w) PROVE Inductive'
  BY <1>2, RunningStays
  DEF HandlerThrows, TypeOK, OneOwner, Listening, Known, Unanswered
<1>3. ASSUME NEW w \in Workers, NEW c \in Conns, Accept(w, c) \/ AcceptFails(w, c)
      PROVE Inductive'
  BY <1>3, InductiveAccept
<1>4. ASSUME NEW w \in Workers, NEW c \in Conns, Read(w, c) PROVE Inductive'
  <2>1. Running' = Running \cup {c}
    BY <1>4, RunningGrows DEF Read, Idle
  <2> QED
    BY <1>4, <2>1, RunningIs DEF Read, Idle, TypeOK, OneOwner, Listening, Known, Unanswered
<1>5. ASSUME NEW w \in Workers, NEW c \in Conns,
             ReadError(w, c) \/ Written(w, c) \/ WriteError(w, c)
      PROVE Inductive'
  <2>1. Running' = Running
    BY <1>5, RunningStays DEF ReadError, Written, WriteError
  <2> QED
    BY <1>5, <2>1
    DEF ReadError, Written, WriteError, Delete, Idle,
        TypeOK, OneOwner, Listening, Known, Unanswered
<1>6. ASSUME NEW w \in Workers, NEW c \in Conns, ShutdownThrows(w, c) PROVE Inductive'
  BY <1>6, RunningStays
  DEF ShutdownThrows, Idle, TypeOK, OneOwner, Listening, Known, Unanswered
<1>7. ASSUME NEW c \in Conns, Start(c) PROVE Inductive'
  BY <1>7, RunningStays DEF Start, TypeOK, OneOwner, Listening, Known, Unanswered
<1>8. ASSUME NEW c \in Conns, Take(c) \/ Leave(c) PROVE Inductive'
  BY <1>8, RunningStays DEF Take, Leave, TypeOK, OneOwner, Listening, Known, Unanswered
<1>9. ASSUME NEW c \in Conns, NEW r \in Requests, Send(c, r) PROVE Inductive'
  BY <1>9, RunningStays DEF Send, TypeOK, OneOwner, Listening, Known, Unanswered
<1>10. CASE UNCHANGED vars
  BY <1>10, RunningStays DEF vars, TypeOK, OneOwner, Listening, Known, Unanswered
<1> QED
  BY <1>1, <1>2, <1>3, <1>4, <1>5, <1>6, <1>7, <1>8, <1>9, <1>10
  DEF Next, Finish, Complete

LEMMA InductiveInvariant == Spec => []Inductive
BY InductiveInit, InductiveNext, PTL DEF Spec

-------------------------------------------------------------------------------
(* Every variable keeps its type, and no client is sent a second response,  *)
(* for any number of workers and connections.                               *)
THEOREM ConnectionTypes == Spec => []TypeOK
<1>1. Inductive => TypeOK
  BY DEF Inductive
<1> QED
  BY <1>1, InductiveInvariant, PTL

(* Every session object has exactly one owner until it is deleted, so that  *)
(* it is neither used after its end nor deleted twice nor leaked.           *)
THEOREM SessionsHaveOneOwner == Spec => []OneOwner
<1>1. Inductive => OneOwner
  BY DEF Inductive
<1> QED
  BY <1>1, InductiveInvariant, PTL

(* As long as the process runs and Conns lasts, one accept is under way, and*)
(* never two.                                                               *)
THEOREM ServerListens == Spec => []Listening
<1>1. Inductive => Listening
  BY DEF Inductive
<1> QED
  BY <1>1, InductiveInvariant, PTL
===============================================================================
