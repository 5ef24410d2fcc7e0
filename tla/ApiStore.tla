------------------------------- MODULE ApiStore -------------------------------
(***************************************************************************)
(* The CRUD handler: ApiHandler::handle_request over a DiskFileStore, for  *)
(* one entity, executed by several worker threads.                         *)
(*                                                                         *)
(* Every request runs under the store_mutex_ of the handler object that    *)
(* serves it.  handlerOf says which object that is: the registered factory *)
(* makes a new ApiHandler for each request, so in the server handlerOf is  *)
(* injective; with a single handler, as in the unit tests, it is constant. *)
(*                                                                         *)
(* A directory entry names an inode, because a writer keeps writing to the *)
(* file it has opened when the entry is removed or made anew meanwhile.    *)
(* Documents are model values with a size: a short one written over a long *)
(* one leaves the tail of the latter behind (Torn).                        *)
(***************************************************************************)
EXTENDS Integers, Sequences, FiniteSets, Functions

CONSTANTS
  Workers, Handlers,
  Assignments,   \* which handler objects serve which workers
  NoOne,         \* "nobody holds the mutex"
  Docs,          \* request bodies
  NotJson,       \* those of them that nlohmann::json::parse rejects
  Size,          \* the length of a body
  Empty, Torn,   \* contents of a file that are nobody's document
  MaxInt,        \* INT_MAX
  PathIds,       \* ids that occur in request paths
  MaxRequests,   \* bound on requests
  MaxFaults,     \* bound on file-system calls that report an error
  MaxLost        \* bound on buffered writes that fail when the file closes

ASSUME HandlersOK == Assignments \subseteq [Workers -> Handlers] /\ NoOne \notin Workers
ASSUME DocsOK     == NotJson \subseteq Docs /\ Size \in [Docs -> Nat]
                     /\ Empty \notin Docs /\ Torn \notin Docs
ASSUME IdsOK      == MaxInt \in Nat /\ PathIds \subseteq 0 .. MaxInt
ASSUME LimitsOK   == MaxRequests \in Nat /\ MaxFaults \in Nat /\ MaxLost \in Nat

VARIABLES
  handlerOf,   \* worker -> the handler object that serves its requests
  dir,         \* "missing" or "present": the entity's directory
  entries,     \* id -> inode, the directory entries
  data,        \* contents by inode, in the order the inodes were made
  lock,        \* handler -> the worker that holds its store_mutex_
  pc,          \* where each worker is in handle_request
  op, id, doc, \* the request a worker handles: method, id, body
  fd,          \* the inode a writer has open
  reply,       \* the last reply of each worker: <<status, what it carries>>
  requests, faults, lost

(* History variables: what clients have been told is stored, and the inodes*)
(* that two writers have had open at the same time.                        *)
VARIABLES
  objects,     \* id -> document
  raced

history == <<objects, raced>>
disk    == <<dir, entries, data>>
request == <<op, id, doc>>
limits  == <<requests, faults, lost>>
vars    == <<handlerOf, dir, entries, data, lock, pc, op, id, doc, fd, reply,
             requests, faults, lost, objects, raced>>

NoReply == <<0, {}>>   \* no request yet
Pending == <<1, {}>>   \* the request is not answered yet

AllIds == (-MaxInt - 1) .. MaxInt

(* Seeded bug: ids are not kept within an int. *)
AsIntUnbounded(n) == n

(* An int that does not fit wraps around, as the compiled addition does. *)
AsInt(n) == IF n > MaxInt THEN n - 2 * (MaxInt + 1) ELSE n

(* Seeded bug: the next id is the number of files. *)
NextIdByCount(S) == AsInt(Cardinality(S))

(* DiskFileStore::next_id: one more than the largest id, and 0 when there  *)
(* is none; max_id starts at -1.                                           *)
NextId(S) ==
  LET top == CHOOSE m \in S \cup {-1} : \A n \in S \cup {-1} : n <= m
  IN  AsInt(top + 1)

Put(f, i, v) == [j \in DOMAIN f \cup {i} |-> IF j = i THEN v ELSE f[j]]

(* What a file holds after d has been written from its beginning over c.   *)
Overlay(d, c) ==
  IF c = Empty \/ (c \in Docs /\ Size[c] <= Size[d]) THEN d ELSE Torn

(* store_mutex_ of the handler object that the factory has made for w.      *)
Mutex(w) == handlerOf[w]

Goto(w, to) == pc' = [pc EXCEPT ![w] = to]

Release(w) == lock' = [lock EXCEPT ![Mutex(w)] = NoOne]

Answer(w, status, result) ==
  /\ Goto(w, "idle")
  /\ reply' = [reply EXCEPT ![w] = <<status, result>>]

(* Return from inside the lock_guard's scope. *)
Return(w, status, result) == Release(w) /\ Answer(w, status, result)

Fault == faults < MaxFaults /\ faults' = faults + 1

Init ==
  /\ handlerOf \in Assignments
  /\ dir = "missing"
  /\ entries = [i \in {} |-> 0]
  /\ data = <<>>
  /\ lock = [h \in Handlers |-> NoOne]
  /\ pc = [w \in Workers |-> "idle"]
  /\ op = [w \in Workers |-> "GET"]
  /\ id = [w \in Workers |-> 0]
  /\ doc = [w \in Workers |-> Empty]
  /\ fd = [w \in Workers |-> 0]
  /\ reply = [w \in Workers |-> NoReply]
  /\ requests = 0 /\ faults = 0 /\ lost = 0
  /\ objects = [i \in {} |-> 0]
  /\ raced = {}

-------------------------------------------------------------------------------
(* Seeded bugs: each takes the place of the definition it is named after,   *)
(* to show that a property notices it.                                      *)

(* store_mutex_ is taken without waiting. *)
LockBusy(w) ==
  /\ pc[w] = "lock"
  /\ lock' = [lock EXCEPT ![Mutex(w)] = w]
  /\ Goto(w, IF op[w] = "PUT" THEN "open" ELSE op[w])
  /\ UNCHANGED <<disk, request, fd, reply, limits, history>>

(* The file is opened without truncating it. *)
OpenKeeping(w) ==
  /\ pc[w] = "open"
  /\ dir' = "present"
  /\ IF id[w] \in DOMAIN entries
       THEN /\ fd' = [fd EXCEPT ![w] = entries[id[w]]]
            /\ UNCHANGED <<data, entries>>
            /\ raced' = IF \E v \in Workers : pc[v] = "flush" /\ fd[v] = entries[id[w]]
                          THEN raced \cup {entries[id[w]]} ELSE raced
       ELSE /\ fd' = [fd EXCEPT ![w] = Len(data) + 1]
            /\ data' = Append(data, Empty)
            /\ entries' = Put(entries, id[w], Len(data) + 1)
            /\ raced' = raced
  /\ Goto(w, "flush")
  /\ UNCHANGED <<lock, request, reply, limits, objects>>

(* The error path of the open leaves store_mutex_ locked. *)
OpenFailsLocked(w) ==
  /\ pc[w] = "open"
  /\ Fault
  /\ Answer(w, 500, {})
  /\ UNCHANGED <<disk, lock, request, fd, requests, lost, history>>

-------------------------------------------------------------------------------
(* Requests: the branches of handle_request by method and presence of an id *)

Ask(w, o, i, d) ==
  /\ pc[w] = "idle"
  /\ requests < MaxRequests
  /\ requests' = requests + 1
  /\ op' = [op EXCEPT ![w] = o]
  /\ id' = [id EXCEPT ![w] = i]
  /\ doc' = [doc EXCEPT ![w] = d]
  /\ reply' = [reply EXCEPT ![w] = Pending]
  /\ Goto(w, "lock")
  /\ UNCHANGED <<disk, lock, fd, faults, lost, history>>

AskPost(w)   == \E d \in Docs : Ask(w, "POST", 0, d)
AskGet(w)    == \E i \in PathIds : Ask(w, "GET", i, Empty)
AskList(w)   == Ask(w, "LIST", 0, Empty)
AskPut(w)    == \E i \in PathIds, d \in Docs \ NotJson : Ask(w, "PUT", i, d)
AskDelete(w) == \E i \in PathIds : Ask(w, "DELETE", i, Empty)

(* A path that is not /api/Entity or /api/Entity/id (404), a method that    *)
(* fits no branch and a PUT whose body is not JSON (400): answered before   *)
(* the mutex is touched.                                                    *)
Refuse(w) ==
  /\ pc[w] = "idle"
  /\ requests < MaxRequests
  /\ requests' = requests + 1
  /\ \E status \in {400, 404} : Answer(w, status, {})
  /\ UNCHANGED <<disk, lock, request, fd, faults, lost, history>>

Lock(w) ==
  /\ pc[w] = "lock"
  /\ lock[Mutex(w)] = NoOne
  /\ lock' = [lock EXCEPT ![Mutex(w)] = w]
  /\ Goto(w, IF op[w] = "PUT" THEN "open" ELSE op[w])
  /\ UNCHANGED <<disk, request, fd, reply, limits, history>>

-------------------------------------------------------------------------------
(* DiskFileStore::write, after next_id for a POST *)

PickId(w) ==
  /\ pc[w] = "POST"
  /\ id' = [id EXCEPT ![w] = NextId(DOMAIN entries)]
  /\ Goto(w, "open")
  /\ UNCHANGED <<disk, lock, op, doc, fd, reply, limits, history>>

(* create_directories and the ofstream: an existing file is truncated.      *)
Open(w) ==
  /\ pc[w] = "open"
  /\ dir' = "present"
  /\ IF id[w] \in DOMAIN entries
       THEN /\ fd' = [fd EXCEPT ![w] = entries[id[w]]]
            /\ data' = [data EXCEPT ![entries[id[w]]] = Empty]
            /\ entries' = entries
            /\ raced' = IF \E v \in Workers : pc[v] = "flush" /\ fd[v] = entries[id[w]]
                          THEN raced \cup {entries[id[w]]} ELSE raced
       ELSE /\ fd' = [fd EXCEPT ![w] = Len(data) + 1]
            /\ data' = Append(data, Empty)
            /\ entries' = Put(entries, id[w], Len(data) + 1)
            /\ raced' = raced
  /\ Goto(w, "flush")
  /\ UNCHANGED <<lock, request, reply, limits, objects>>

(* create_directories or the open fails: 500. *)
OpenFails(w) ==
  /\ pc[w] = "open"
  /\ Fault
  /\ dir' \in {dir, "present"}
  /\ Return(w, 500, {})
  /\ UNCHANGED <<entries, data, request, fd, requests, lost, history>>

(* The document reaches the file when the stream is closed, on return from  *)
(* write; the reply is 201 with the id, or 200.                             *)
Flush(w) ==
  /\ pc[w] = "flush"
  /\ data' = [data EXCEPT ![fd[w]] = Overlay(doc[w], @)]
  /\ objects' = Put(objects, id[w], doc[w])
  /\ IF op[w] = "POST" THEN Return(w, 201, {id[w]}) ELSE Return(w, 200, {})
  /\ UNCHANGED <<raced, dir, entries, request, fd, limits>>

(* The buffered data cannot be written: bool(out) was taken before, so the  *)
(* reply is that of a success.                                              *)
FlushLost(w) ==
  /\ pc[w] = "flush"
  /\ lost < MaxLost
  /\ lost' = lost + 1
  /\ objects' = Put(objects, id[w], doc[w])
  /\ IF op[w] = "POST" THEN Return(w, 201, {id[w]}) ELSE Return(w, 200, {})
  /\ UNCHANGED <<raced, disk, request, fd, requests, faults>>

-------------------------------------------------------------------------------
(* Reading *)

Get(w) ==
  /\ pc[w] = "GET"
  /\ IF id[w] \in DOMAIN entries THEN Return(w, 200, {data[entries[id[w]]]})
                                 ELSE Return(w, 404, {})
  /\ UNCHANGED <<disk, request, fd, limits, history>>

(* The file is there but cannot be opened: read answers nullopt, as for a   *)
(* missing one, to GET and to DELETE.                                       *)
ReadFails(w) ==
  /\ pc[w] \in {"GET", "DELETE"}
  /\ id[w] \in DOMAIN entries
  /\ Fault
  /\ Return(w, 404, {})
  /\ UNCHANGED <<disk, request, fd, requests, lost, history>>

(* read_directory: the files with a number for a name (sorted in the code,  *)
(* a set here); no directory, no list.                                      *)
Listing == IF dir = "present" THEN <<200, DOMAIN entries>> ELSE <<404, {}>>

List(w) ==
  /\ pc[w] = "LIST"
  /\ Return(w, Listing[1], Listing[2])
  /\ UNCHANGED <<disk, request, fd, limits, history>>

-------------------------------------------------------------------------------
(* Deleting: a read to see whether there is such a file, then the removal.  *)

Look(w) ==
  /\ pc[w] = "DELETE"
  /\ IF id[w] \in DOMAIN entries
       THEN Goto(w, "unlink") /\ UNCHANGED <<lock, reply>>
       ELSE Return(w, 404, {})
  /\ UNCHANGED <<disk, request, fd, limits, history>>

Unlink(w) ==
  /\ pc[w] = "unlink"
  /\ id[w] \in DOMAIN entries
  /\ entries' = Restrict(entries, DOMAIN entries \ {id[w]})
  /\ objects' = Restrict(objects, DOMAIN objects \ {id[w]})
  /\ Return(w, 200, {})
  /\ UNCHANGED <<raced, dir, data, request, fd, limits>>

(* The file is gone since Look, or fs::remove reports an error: 500. *)
UnlinkFails(w) ==
  /\ pc[w] = "unlink"
  /\ IF id[w] \in DOMAIN entries THEN Fault ELSE faults' = faults
  /\ Return(w, 500, {})
  /\ UNCHANGED <<disk, request, fd, requests, lost, history>>

-------------------------------------------------------------------------------
Arrive(w) ==
  AskPost(w) \/ AskGet(w) \/ AskList(w) \/ AskPut(w) \/ AskDelete(w) \/ Refuse(w)

Handle(w) ==
  \/ Lock(w)
  \/ PickId(w) \/ Open(w) \/ OpenFails(w) \/ Flush(w) \/ FlushLost(w)
  \/ Get(w) \/ ReadFails(w) \/ List(w)
  \/ Look(w) \/ Unlink(w) \/ UnlinkFails(w)

Step(w) == Handle(w) /\ UNCHANGED handlerOf

Next == \E w \in Workers : Step(w) \/ (Arrive(w) /\ UNCHANGED handlerOf)

Spec == Init /\ [][Next]_vars

(* A worker thread that can go on does go on. *)
FairSpec == Spec /\ \A w \in Workers : WF_vars(Step(w))

-------------------------------------------------------------------------------
(* Properties *)

(* Every variable keeps its type; a POST is given an id that is an int. *)
TypeOK ==
  /\ handlerOf \in [Workers -> Handlers]
  /\ dir \in {"missing", "present"}
  /\ data \in Seq(Docs \cup {Empty, Torn})
  /\ DOMAIN entries \subseteq AllIds
  /\ \A i \in DOMAIN entries : entries[i] \in 1 .. Len(data)
  /\ lock \in [Handlers -> Workers \cup {NoOne}]
  /\ pc \in [Workers -> {"idle", "lock", "POST", "GET", "LIST", "DELETE",
                         "open", "flush", "unlink"}]
  /\ op \in [Workers -> {"POST", "GET", "LIST", "PUT", "DELETE"}]
  /\ id \in [Workers -> AllIds]
  /\ doc \in [Workers -> Docs \cup {Empty}]
  /\ \A w \in Workers : pc[w] = "flush" => fd[w] \in 1 .. Len(data)
  /\ \A w \in Workers : reply[w][1] \in {0, 1, 200, 201, 400, 404, 500}
  /\ requests \in Nat /\ faults \in Nat /\ lost \in Nat
  /\ DOMAIN objects \subseteq AllIds
  /\ \A i \in DOMAIN objects : objects[i] \in Docs
  /\ raced \subseteq 1 .. Len(data)

(* One handler, and so one mutex, serves all requests.                      *)
OneMutex == \A v, w \in Workers : handlerOf[v] = handlerOf[w]

(* With one mutex: while no request is being handled, the directory holds   *)
(* exactly the objects whose creation or update was confirmed and whose     *)
(* deletion was not, each with its last document and nothing else.  No file *)
(* is lost or damaged by a request that ran beside it or by one that failed,*)
(* and a write that the disk has lost damages one object, until the next    *)
(* write of it.                                                             *)
StoreMatches ==
  OneMutex /\ (\A w \in Workers : pc[w] \in {"idle", "lock"}) =>
    /\ DOMAIN entries = DOMAIN objects
    /\ Cardinality({i \in DOMAIN objects : data[entries[i]] # objects[i]}) <= lost

Map == INSTANCE ApiMap WITH Ids <- AllIds, made <- dir

(* With one mutex the handler implements the map of ApiMap as long as no    *)
(* write is lost: every request has one reply, the one that the requests    *)
(* give when they are executed one after the other, and none fails unless   *)
(* the file system has reported an error.                                   *)
ImplementsMap == Map!MInit /\ [][OneMutex /\ lost' = 0 => Map!MNext]_Map!mvars

(* Also without any mutual exclusion, only writers that have one file open  *)
(* at the same time can damage it: once no writer is at it any more, every  *)
(* other file holds a whole document (if no write was lost by the disk).    *)
OnlyRacesDamage ==
  \A n \in DOMAIN data \ raced :
    lost = 0 /\ (\A w \in Workers : pc[w] = "flush" => fd[w] # n) => data[n] \in Docs

(* Every request is answered: no request waits for ever for the mutex of    *)
(* the handler, whichever way the one before it returned.                   *)
RequestsEnd == \A w \in Workers : pc[w] # "idle" ~> pc[w] = "idle"

-------------------------------------------------------------------------------
(* What the declaration of the mutex says and the code does not do. *)

(* "Mutex for thread safety": also the handlers of the server implement the *)
(* map.                                                                     *)
ThreadSafe == Map!MSpec
===============================================================================
