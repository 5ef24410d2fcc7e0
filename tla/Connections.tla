------------------------------ MODULE Connections ------------------------------
(***************************************************************************)
(* Connections: the accept loop of class server, one session object per    *)
(* connection, and the worker threads of main that run the completion      *)
(* handlers of io_service.                                                 *)
(*                                                                         *)
(* A session owns itself: it is made before the accept, handed from one    *)
(* asynchronous operation to the next (accept, start on thread_pool_, one  *)
(* read, one write) and deletes itself in the last handler.  A handler     *)
(* that throws leaves io_service.run() and the thread's function, outside  *)
(* of main's try block, and so ends the process.                           *)
(***************************************************************************)
EXTENDS Naturals, FiniteSets

CONSTANTS
  Workers,     \* the threads that call io_service.run()
  Conns,       \* the session objects; as many connections at most
  Requests,    \* what a client may send
  Throwing,    \* those whose handling throws: no route, or a handler's error
  NoConn,      \* what an idle worker runs
  NoRequest    \* nothing has been sent

ASSUME NoConnOK    == NoConn \notin Conns
ASSUME RequestsOK  == Throwing \subseteq Requests /\ NoRequest \notin Requests
ASSUME ConnsFinite == IsFiniteSet(Conns)

VARIABLES
  process,     \* "up" or "ended"
  alive,       \* the session objects that exist
  accepts, starts, reads, writes,  \* operations under way, by their session
  run,         \* the session whose handle_read each worker is in
  request,     \* what the client of a session has sent
  gone,        \* the sessions whose client has closed or reset the connection
  room,        \* those whose whole response has fitted into the socket's buffers
  used,        \* the session objects that have been made so far
  responses    \* how many responses have been sent to a client

ops    == <<accepts, starts, reads, writes>>
client == <<request, gone, room>>
vars   == <<process, alive, accepts, starts, reads, writes, run,
            request, gone, room, used, responses>>

Idle(w) == process = "up" /\ run[w] = NoConn

(* The sessions whose handle_read is being executed. *)
Running == {run[w] : w \in Workers} \ {NoConn}

Delete(c) == alive' = alive \ {c}

(* start_accept: a new session waits for the next client.  When Conns is    *)
(* used up, no more clients come.                                           *)
StartAccept(live, waiting) ==
  IF used = Conns
    THEN alive' = live /\ accepts' = waiting /\ used' = used
    ELSE \E d \in Conns \ used :
           /\ alive' = live \cup {d}
           /\ accepts' = waiting \cup {d}
           /\ used' = used \cup {d}

(* The constructor of server, before the workers start. *)
Init ==
  /\ process = "up"
  /\ \E c \in Conns : alive = {c} /\ accepts = {c} /\ used = {c}
  /\ starts = {} /\ reads = {} /\ writes = {}
  /\ run = [w \in Workers |-> NoConn]
  /\ request = [c \in Conns |-> NoRequest]
  /\ gone = {} /\ room = {}
  /\ responses = [c \in Conns |-> 0]

-------------------------------------------------------------------------------
(* Seeded bugs: each takes the place of the action it is named after, to    *)
(* show that a property notices it.                                        *)

(* After an error the server does not accept again. *)
AcceptFailsStops(w, c) ==
  /\ Idle(w) /\ c \in accepts
  /\ accepts' = accepts \ {c} /\ Delete(c)
  /\ UNCHANGED <<process, starts, reads, writes, run, client, used, responses>>

(* After a read error the handler goes on with the deleted session. *)
ReadErrorGoesOn(w, c) ==
  /\ Idle(w) /\ c \in reads /\ c \in gone
  /\ reads' = reads \ {c}
  /\ Delete(c)
  /\ run' = [run EXCEPT ![w] = c]
  /\ UNCHANGED <<process, accepts, starts, writes, client, used, responses>>

(* The session reads on while its response is being written. *)
RespondAndRead(w) ==
  /\ process = "up" /\ run[w] # NoConn
  /\ request[run[w]] \notin Throwing
  /\ writes' = writes \cup {run[w]}
  /\ reads' = reads \cup {run[w]}
  /\ room' = room \cup {run[w]}
  /\ responses' = [responses EXCEPT ![run[w]] = @ + 1]
  /\ run' = [run EXCEPT ![w] = NoConn]
  /\ UNCHANGED <<process, alive, accepts, starts, request, gone, used>>

(* After a write error the session stays. *)
WriteErrorStays(w, c) ==
  /\ Idle(w) /\ c \in writes /\ c \in gone
  /\ writes' = writes \ {c}
  /\ UNCHANGED <<process, alive, accepts, starts, reads, run, client, used, responses>>

-------------------------------------------------------------------------------
(* handle_accept *)

Accept(w, c) ==
  /\ Idle(w) /\ c \in accepts
  /\ starts' = starts \cup {c}
  /\ StartAccept(alive, accepts \ {c})
  /\ UNCHANGED <<process, reads, writes, run, client, responses>>

AcceptFails(w, c) ==
  /\ Idle(w) /\ c \in accepts
  /\ StartAccept(alive \ {c}, accepts \ {c})
  /\ UNCHANGED <<process, starts, reads, writes, run, client, responses>>

(* session::start, on a thread of thread_pool_. *)
Start(c) ==
  /\ process = "up" /\ c \in starts
  /\ starts' = starts \ {c}
  /\ reads' = reads \cup {c}
  /\ UNCHANGED <<process, alive, accepts, writes, run, client, used, responses>>

-------------------------------------------------------------------------------
(* handle_read *)

(* Something has been received: from here to the async_write the worker is  *)
(* busy with this request, its handler included.                            *)
Read(w, c) ==
  /\ Idle(w) /\ c \in reads /\ request[c] # NoRequest
  /\ reads' = reads \ {c}
  /\ run' = [run EXCEPT ![w] = c]
  /\ UNCHANGED <<process, alive, accepts, starts, writes, client, used, responses>>

ReadError(w, c) ==
  /\ Idle(w) /\ c \in reads /\ c \in gone
  /\ reads' = reads \ {c}
  /\ Delete(c)
  /\ UNCHANGED <<process, accepts, starts, writes, run, client, used, responses>>

(* The response of the handler, or 400 for what does not parse, is sent:    *)
(* async_write passes it to the socket, whose buffers may hold all of it or *)
(* not.                                                                     *)
Respond(w) ==
  /\ process = "up" /\ run[w] # NoConn
  /\ request[run[w]] \notin Throwing
  /\ writes' = writes \cup {run[w]}
  /\ room' \in {room, room \cup {run[w]}}
  /\ responses' = [responses EXCEPT ![run[w]] = @ + 1]
  /\ run' = [run EXCEPT ![w] = NoConn]
  /\ UNCHANGED <<process, alive, accepts, starts, reads, request, gone, used>>

(* An exception in Dispatcher::match or in the handler ends the process.    *)
HandlerThrows(w) ==
  /\ process = "up" /\ run[w] # NoConn
  /\ request[run[w]] \in Throwing
  /\ process' = "ended"
  /\ UNCHANGED <<alive, ops, run, client, used, responses>>

-------------------------------------------------------------------------------
(* handle_write *)

(* The whole response is in the socket's buffers; shutdown succeeds ...     *)
Written(w, c) ==
  /\ Idle(w) /\ c \in writes /\ c \in room
  /\ writes' = writes \ {c}
  /\ Delete(c)
  /\ UNCHANGED <<process, accepts, starts, reads, run, client, used, responses>>

(* ... or, as the client has reset the connection meanwhile, throws.        *)
ShutdownThrows(w, c) ==
  /\ Idle(w) /\ c \in writes /\ c \in room /\ c \in gone
  /\ process' = "ended"
  /\ writes' = writes \ {c}
  /\ UNCHANGED <<alive, accepts, starts, reads, run, client, used, responses>>

(* The connection has been reset before everything was written.             *)
WriteError(w, c) ==
  /\ Idle(w) /\ c \in writes /\ c \in gone
  /\ writes' = writes \ {c}
  /\ Delete(c)
  /\ UNCHANGED <<process, accepts, starts, reads, run, client, used, responses>>

-------------------------------------------------------------------------------
(* Clients.  What one sends before its session reads counts as sent when it *)
(* reads; what it sends after the first piece is never looked at.           *)
Connected(c) == process = "up" /\ c \in alive \ (accepts \cup starts \cup gone)

Send(c, r) ==
  /\ Connected(c) /\ request[c] = NoRequest
  /\ request' = [request EXCEPT ![c] = r]
  /\ UNCHANGED <<process, alive, ops, run, gone, room, used, responses>>

(* The client reads what has been sent, so that the rest fits as well.      *)
Take(c) ==
  /\ Connected(c) /\ c \in writes
  /\ room' = room \cup {c}
  /\ UNCHANGED <<process, alive, ops, run, request, gone, used, responses>>

Leave(c) ==
  /\ Connected(c)
  /\ gone' = gone \cup {c}
  /\ UNCHANGED <<process, alive, ops, run, request, room, used, responses>>

-------------------------------------------------------------------------------
(* What the io_service runs for a session that has a client. *)
Complete(w, c) ==
  \/ Read(w, c) \/ ReadError(w, c)
  \/ Written(w, c) \/ ShutdownThrows(w, c) \/ WriteError(w, c)

Finish(w) == Respond(w) \/ HandlerThrows(w)

Next ==
  \/ \E w \in Workers : Finish(w)
  \/ \E w \in Workers, c \in Conns : Accept(w, c) \/ AcceptFails(w, c) \/ Complete(w, c)
  \/ \E c \in Conns : Start(c) \/ Take(c) \/ Leave(c)
  \/ \E c \in Conns, r \in Requests : Send(c, r)

Spec == Init /\ [][Next]_vars

(* Handlers come to an end (the sleep handler after three seconds), and     *)
(* what is ready to run is run: both queues are first in, first out.  A     *)
(* client owes nothing: it need not send, read or leave, and nothing in the *)
(* server times out.                                                        *)
FairSpec ==
  /\ Spec
  /\ \A w \in Workers : WF_vars(Finish(w))
  /\ \A c \in Conns : WF_vars(Start(c)) /\ WF_vars(\E w \in Workers : Complete(w, c))

-------------------------------------------------------------------------------
(* Properties *)

(* Every variable keeps its type; no client is sent a second response. *)
TypeOK ==
  /\ process \in {"up", "ended"}
  /\ alive \subseteq Conns /\ used \subseteq Conns
  /\ accepts \subseteq Conns /\ starts \subseteq Conns
  /\ reads \subseteq Conns /\ writes \subseteq Conns
  /\ run \in [Workers -> Conns \cup {NoConn}]
  /\ request \in [Conns -> Requests \cup {NoRequest}]
  /\ gone \subseteq Conns /\ room \subseteq Conns
  /\ responses \in [Conns -> 0 .. 1]

(* While the process runs, every session object belongs to exactly one      *)
(* operation under way or one handler, and whatever they belong to still    *)
(* exists: nothing touches a session after its delete, nothing deletes it   *)
(* twice, and none is forgotten.                                            *)
OneOwner ==
  process = "up" =>
    /\ alive = accepts \cup starts \cup reads \cup writes \cup Running
    /\ accepts \cap (starts \cup reads \cup writes \cup Running) = {}
    /\ starts \cap (reads \cup writes \cup Running) = {}
    /\ reads \cap (writes \cup Running) = {}
    /\ writes \cap Running = {}
    /\ \A v, w \in Workers : run[v] = run[w] /\ run[v] # NoConn => v = w

(* The server never stops listening and never accepts twice at a time,      *)
(* however many accepts fail (and until the bound on sessions is reached).  *)
Listening ==
  /\ process = "up" => accepts # {} \/ used = Conns
  /\ \A c, d \in accepts : c = d

(* The client has neither read the rest of its response nor left.           *)
Stalled(c) == c \in writes \ (room \cup gone)

(* A session whose client has sent something or has gone is deleted in the  *)
(* end, whether or not it could be answered, unless the process ends or the *)
(* client stalls the response; and one that stalled is deleted as soon as   *)
(* the client reads the rest or leaves, however late.                       *)
SessionsEnd ==
  \A c \in Conns :
    /\ c \in alive /\ (request[c] # NoRequest \/ c \in gone)
         ~> c \notin alive \/ process = "ended" \/ Stalled(c)
    /\ c \in alive /\ (c \in room \/ c \in gone)
         ~> c \notin alive \/ process = "ended"

-------------------------------------------------------------------------------
(* What main says and the code does not do. *)

(* catch (std::exception& e) ... "Unhandled exception": an exception is     *)
(* caught and reported, it does not end the process from a worker thread.   *)
ExceptionsCaught == process = "up"
===============================================================================
