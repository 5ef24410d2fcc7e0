----------------------------- MODULE ApiStoreProofs -----------------------------
(***************************************************************************)
(* Proofs about ApiStore, for every number of workers, every assignment of *)
(* handler objects to them and every bound.                                *)
(***************************************************************************)
EXTENDS ApiStore, FiniteSetTheorems, SetInduction

-------------------------------------------------------------------------------
(* The operators of the model *)

(* next_id: the result is an int, and a new id unless INT_MAX is in use.    *)
LEMMA NextIdIsNew ==
  ASSUME NEW S \in SUBSET AllIds
  PROVE  /\ NextId(S) \in AllIds
         /\ NextId(S) \notin S \/ \E m \in S : \A j \in AllIds : j <= m
<1> DEFINE T == S \cup {-1}
           top == CHOOSE m \in T : \A n \in T : n <= m
<1>1. MaxInt \in Nat
  BY IdsOK
<1>2. T \in SUBSET Int /\ T # {} /\ \A n \in T : n <= MaxInt
  BY <1>1 DEF AllIds
<1>3. \E m \in T : \A n \in T : n <= m
  <2>1. MaxInt \in Int
    BY <1>1
  <2> HIDE DEF T
  <2> QED
    BY <1>2, <2>1, IntMaximum, Zenon
<1>4. top \in T /\ \A n \in T : n <= top
  BY <1>3
<1>5. NextId(S) = AsInt(top + 1)
  BY DEF NextId
<1>6. top \in Int /\ -1 <= top /\ top <= MaxInt /\ (top = -1 \/ top \in S)
  BY <1>2, <1>4
<1> HIDE DEF top
<1>7. CASE top = MaxInt
  <2>1. top \in S
    BY <1>1, <1>6, <1>7
  <2>2. \A j \in AllIds : j <= top
    BY <1>1, <1>7 DEF AllIds
  <2>3. NextId(S) = -MaxInt - 1
    BY <1>1, <1>5, <1>7 DEF AsInt
  <2> QED
    BY <1>1, <2>1, <2>2, <2>3 DEF AllIds
<1>8. CASE top # MaxInt
  <2>1. NextId(S) = top + 1 /\ top + 1 <= MaxInt
    BY <1>1, <1>5, <1>6, <1>8 DEF AsInt
  <2>2. top + 1 \notin S
    BY <1>4, <1>6
  <2>3. top + 1 \in AllIds
    BY <1>1, <1>6, <2>1 DEF AllIds
  <2> QED
    BY <2>1, <2>2, <2>3
<1> QED
  BY <1>7, <1>8

LEMMA AllIdsFinite == IsFiniteSet(AllIds)
<1>1. -MaxInt - 1 \in Int /\ MaxInt \in Int
  BY IdsOK
<1> QED
  BY <1>1, FS_Interval DEF AllIds

(* A document written over an empty file is what the file then holds.       *)
LEMMA OverlayOnEmpty ==
  ASSUME NEW d PROVE Overlay(d, Empty) = d
BY DEF Overlay

-------------------------------------------------------------------------------
(* The inductive invariant *)

Replies == {0, 1, 200, 201, 400, 404, 500} \X SUBSET (AllIds \cup Docs \cup {Empty, Torn})

(* A worker is where its request has to bring it, and has a body to write   *)
(* when it is to write one; of a request that is under way there is no      *)
(* reply yet.                                                               *)
Shape ==
  /\ TypeOK
  /\ fd \in [Workers -> Nat]
  /\ reply \in [Workers -> Replies]
  /\ entries = [i \in DOMAIN entries |-> entries[i]]
  /\ objects = [i \in DOMAIN objects |-> objects[i]]
  /\ \A w \in Workers :
       /\ op[w] \in {"POST", "PUT"} => doc[w] \in Docs
       /\ pc[w] = "POST" => op[w] = "POST"
       /\ pc[w] \in {"open", "flush"} => op[w] \in {"POST", "PUT"}
       /\ pc[w] = "idle" <=> reply[w] # Pending

LEMMA ShapeInit == Init => Shape
<1> SUFFICES ASSUME Init PROVE Shape
  OBVIOUS
<1>1. handlerOf \in [Workers -> Handlers] /\ 0 \in AllIds
  BY HandlersOK, IdsOK DEF Init, AllIds
<1>2. /\ DOMAIN entries = {} /\ DOMAIN objects = {}
      /\ entries = [i \in {} |-> entries[i]] /\ objects = [i \in {} |-> objects[i]]
  BY DEF Init
<1>3. NoReply \in Replies /\ NoReply # Pending /\ NoReply[1] = 0
  BY DEF NoReply, Replies, Pending
<1> QED
  BY <1>1, <1>2, <1>3 DEF Init, Shape, TypeOK

LEMMA ShapeStutter == Shape /\ UNCHANGED vars => Shape'
BY DEF Shape, TypeOK, vars

(* The types of what is stored, and of the bounds. *)
Stored ==
  /\ dir \in {"missing", "present"}
  /\ data \in Seq(Docs \cup {Empty, Torn})
  /\ DOMAIN entries \subseteq AllIds
  /\ \A i \in DOMAIN entries : entries[i] \in 1 .. Len(data)
  /\ DOMAIN objects \subseteq AllIds
  /\ \A i \in DOMAIN objects : objects[i] \in Docs
  /\ entries = [i \in DOMAIN entries |-> entries[i]]
  /\ objects = [i \in DOMAIN objects |-> objects[i]]
  /\ raced \subseteq 1 .. Len(data)
  /\ requests \in Nat /\ faults \in Nat /\ lost \in Nat

LEMMA ShapeStored == Shape => Stored
BY DEF Shape, TypeOK, Stored

(* What an answer leaves. *)
LEMMA ShapeAnswer ==
  ASSUME Shape, NEW w \in Workers, NEW status \in {200, 201, 400, 404, 500},
         NEW result \in SUBSET (AllIds \cup Docs \cup {Empty, Torn}),
         Answer(w, status, result),
         Stored', Len(data') = Len(data),
         lock' \in [Handlers -> Workers \cup {NoOne}],
         UNCHANGED <<handlerOf, request, fd>>
  PROVE  Shape'
<1>1. <<status, result>> \in Replies /\ <<status, result>> # Pending
  BY DEF Replies, Pending
<1>2. /\ reply' \in [Workers -> Replies]
      /\ reply'[w] # Pending /\ pc'[w] = "idle"
      /\ \A v \in Workers \ {w} : pc'[v] = pc[v] /\ reply'[v] = reply[v]
      /\ pc' \in [Workers -> {"idle", "lock", "POST", "GET", "LIST", "DELETE",
                             "open", "flush", "unlink"}]
  BY <1>1 DEF Shape, TypeOK, Answer, Goto
<1>3. \A v \in Workers : reply'[v][1] \in {0, 1, 200, 201, 400, 404, 500}
  BY <1>2 DEF Replies
<1> QED
  BY <1>2, <1>3 DEF Shape, TypeOK, Stored, request

LEMMA ShapeReturn ==
  ASSUME Shape, NEW w \in Workers, NEW status \in {200, 201, 400, 404, 500},
         NEW result \in SUBSET (AllIds \cup Docs \cup {Empty, Torn}),
         Return(w, status, result),
         Stored', Len(data') = Len(data), UNCHANGED <<handlerOf, request, fd>>
  PROVE  Shape'
<1>1. lock' \in [Handlers -> Workers \cup {NoOne}]
  BY DEF Shape, TypeOK, Return, Release, Mutex
<1> QED
  BY <1>1, ShapeAnswer DEF Return

LEMMA ShapeArrive ==
  ASSUME Shape, NEW w \in Workers, Arrive(w), UNCHANGED handlerOf
  PROVE  Shape'
<1>1. ASSUME NEW o \in {"POST", "GET", "LIST", "PUT", "DELETE"}, NEW i \in AllIds,
             NEW d \in Docs \cup {Empty}, o \in {"POST", "PUT"} => d \in Docs,
             Ask(w, o, i, d)
      PROVE  Shape'
  <2>1. Pending \in Replies
    BY DEF Pending, Replies
  <2> QED
    BY <1>1, <2>1
    DEF Ask, Shape, TypeOK, Goto, disk, history, Replies
<1>2. ASSUME Refuse(w) PROVE Shape'
  <2>1. PICK status \in {400, 404} : Answer(w, status, {})
    BY <1>2 DEF Refuse
  <2>2. Stored' /\ UNCHANGED <<request, fd, lock, data>>
    BY <1>2, ShapeStored DEF Refuse, Stored, disk, history
  <2>3. lock' \in [Handlers -> Workers \cup {NoOne}] /\ Len(data') = Len(data)
    BY <2>2 DEF Shape, TypeOK
  <2> QED
    BY <2>1, <2>2, <2>3, ShapeAnswer
<1>3. PathIds \subseteq AllIds /\ 0 \in AllIds
  BY IdsOK DEF AllIds
<1>4. AskPost(w) => Shape'
  BY <1>1, <1>3 DEF AskPost
<1>5. AskGet(w) \/ AskList(w) \/ AskDelete(w) => Shape'
  BY <1>1, <1>3 DEF AskGet, AskList, AskDelete
<1>6. AskPut(w) => Shape'
  BY <1>1, <1>3 DEF AskPut
<1> QED
  BY <1>2, <1>4, <1>5, <1>6 DEF Arrive

(* The part of a step that is the same in all steps that answer. *)
LEMMA ShapeHandle ==
  ASSUME Shape, NEW w \in Workers, Handle(w), UNCHANGED handlerOf
  PROVE  Shape'
<1>1. ASSUME Lock(w) PROVE Shape'
  BY <1>1 DEF Lock, Shape, TypeOK, Goto, Mutex, disk, request, limits, history
<1>2. ASSUME PickId(w) PROVE Shape'
  <2>1. NextId(DOMAIN entries) \in AllIds
    BY NextIdIsNew DEF Shape, TypeOK
  <2> QED
    BY <1>2, <2>1 DEF PickId, Shape, TypeOK, Goto, disk, limits, history
<1>3. ASSUME Open(w) PROVE Shape'
  <2>1. /\ pc[w] = "open" /\ Goto(w, "flush") /\ id[w] \in AllIds
        /\ UNCHANGED <<handlerOf, lock, request, reply, limits, objects>> /\ dir' = "present"
    BY <1>3 DEF Open, Shape, TypeOK
  <2>2. Len(data) \in Nat
    BY DEF Shape, TypeOK
  <2>5. ASSUME Stored', fd' \in [Workers -> Nat],
               \A v \in Workers : pc'[v] = "flush" => fd'[v] \in 1 .. Len(data')
        PROVE  Shape'
    <3>1. /\ pc' \in [Workers -> {"idle", "lock", "POST", "GET", "LIST", "DELETE",
                                 "open", "flush", "unlink"}]
          /\ pc'[w] = "flush" /\ \A v \in Workers \ {w} : pc'[v] = pc[v]
      BY <2>1 DEF Goto, Shape, TypeOK
    <3> QED
      BY <2>1, <2>5, <3>1 DEF Stored, Shape, TypeOK, request
  <2>3. CASE id[w] \in DOMAIN entries
    <3> DEFINE n == entries[id[w]]
    <3>1. /\ fd' = [fd EXCEPT ![w] = n] /\ data' = [data EXCEPT ![n] = Empty]
          /\ entries' = entries /\ raced' \in {raced, raced \cup {n}}
      BY <1>3, <2>3 DEF Open
    <3>2. n \in 1 .. Len(data)
      BY <2>3 DEF Shape, TypeOK
    <3>3. data' \in Seq(Docs \cup {Empty, Torn}) /\ Len(data') = Len(data)
      BY <3>1, <3>2 DEF Shape, TypeOK
    <3>4. Stored'
      BY <2>1, <3>1, <3>2, <3>3, ShapeStored DEF Stored, limits
    <3>5. fd' \in [Workers -> Nat] /\ fd'[w] = n /\ \A v \in Workers \ {w} : fd'[v] = fd[v]
      BY <2>2, <3>1, <3>2 DEF Shape
    <3>6. \A v \in Workers : pc'[v] = "flush" => fd'[v] \in 1 .. Len(data)
      BY <2>1, <3>2, <3>5 DEF Goto, Shape, TypeOK
    <3> QED
      BY <2>5, <3>3, <3>4, <3>5, <3>6
  <2>4. CASE id[w] \notin DOMAIN entries
    <3> DEFINE n == Len(data) + 1
    <3>1. /\ fd' = [fd EXCEPT ![w] = n] /\ data' = Append(data, Empty)
          /\ entries' = Put(entries, id[w], n) /\ raced' = raced
      BY <1>3, <2>4 DEF Open
    <3>2. data' \in Seq(Docs \cup {Empty, Torn}) /\ Len(data') = n
      BY <3>1 DEF Shape, TypeOK
    <3>3. Stored'
      BY <2>1, <2>2, <3>1, <3>2, ShapeStored DEF Stored, Put, limits
    <3>4. fd' \in [Workers -> Nat] /\ fd'[w] = n /\ \A v \in Workers \ {w} : fd'[v] = fd[v]
      BY <2>2, <3>1 DEF Shape
    <3>5. \A v \in Workers : pc'[v] = "flush" => fd'[v] \in 1 .. n
      BY <2>1, <2>2, <3>4 DEF Goto, Shape, TypeOK
    <3> QED
      BY <2>5, <3>2, <3>3, <3>4, <3>5
  <2> QED
    BY <2>3, <2>4
<1>4. ASSUME OpenFails(w) PROVE Shape'
  <2>1. Stored' /\ Return(w, 500, {}) /\ UNCHANGED <<request, fd, data>>
    BY <1>4, ShapeStored DEF OpenFails, Fault, Stored, history
  <2> QED
    BY <2>1, ShapeReturn
<1>5. ASSUME Flush(w) PROVE Shape'
  <2>1. doc[w] \in Docs /\ id[w] \in AllIds /\ fd[w] \in 1 .. Len(data)
    BY <1>5 DEF Flush, Shape, TypeOK
  <2>2. data' = [data EXCEPT ![fd[w]] = Overlay(doc[w], @)]
    BY <1>5 DEF Flush
  <2>3. data' \in Seq(Docs \cup {Empty, Torn}) /\ Len(data') = Len(data)
    BY <2>1, <2>2 DEF Overlay, Shape, TypeOK
  <2>4. Stored'
    BY <1>5, <2>1, <2>3, ShapeStored DEF Flush, Stored, Put, limits
  <2>5. Return(w, 201, {id[w]}) \/ Return(w, 200, {})
    BY <1>5 DEF Flush
  <2>6. UNCHANGED <<request, fd>>
    BY <1>5 DEF Flush
  <2> QED
    BY <2>1, <2>3, <2>4, <2>5, <2>6, ShapeReturn
<1>6. ASSUME FlushLost(w) PROVE Shape'
  <2>1. doc[w] \in Docs /\ id[w] \in AllIds
    BY <1>6 DEF FlushLost, Shape, TypeOK
  <2>2. Stored' /\ UNCHANGED <<request, fd, data>>
    BY <1>6, <2>1, ShapeStored DEF FlushLost, Stored, Put, disk
  <2>3. Return(w, 201, {id[w]}) \/ Return(w, 200, {})
    BY <1>6 DEF FlushLost
  <2> QED
    BY <2>1, <2>2, <2>3, ShapeReturn
<1>7. ASSUME Get(w) PROVE Shape'
  <2>1. Stored' /\ UNCHANGED <<request, fd, data>>
    BY <1>7, ShapeStored DEF Get, Stored, disk, limits, history
  <2>2. id[w] \in DOMAIN entries => data[entries[id[w]]] \in Docs \cup {Empty, Torn}
    BY DEF Shape, TypeOK
  <2>3. \/ id[w] \in DOMAIN entries /\ Return(w, 200, {data[entries[id[w]]]})
        \/ Return(w, 404, {})
    BY <1>7 DEF Get
  <2> QED
    BY <2>1, <2>2, <2>3, ShapeReturn
<1>8. ASSUME ReadFails(w) PROVE Shape'
  <2>1. Stored' /\ Return(w, 404, {}) /\ UNCHANGED <<request, fd, data>>
    BY <1>8, ShapeStored DEF ReadFails, Fault, Stored, disk, history
  <2> QED
    BY <2>1, ShapeReturn
<1>9. ASSUME List(w) PROVE Shape'
  <2>1. Stored' /\ UNCHANGED <<request, fd, data>>
    BY <1>9, ShapeStored DEF List, Stored, disk, limits, history
  <2>2. Return(w, 200, DOMAIN entries) \/ Return(w, 404, {})
    BY <1>9 DEF List, Listing
  <2>3. DOMAIN entries \in SUBSET (AllIds \cup Docs \cup {Empty, Torn})
    BY DEF Shape, TypeOK
  <2> QED
    BY <2>1, <2>2, <2>3, ShapeReturn
<1>10. ASSUME Look(w) PROVE Shape'
  <2>1. Stored' /\ UNCHANGED <<request, fd, data>>
    BY <1>10, ShapeStored DEF Look, Stored, disk, limits, history
  <2>2. CASE Return(w, 404, {})
    BY <2>1, <2>2, ShapeReturn
  <2>3. CASE pc[w] = "DELETE" /\ Goto(w, "unlink") /\ UNCHANGED <<lock, reply>>
    BY <2>1, <2>3 DEF Goto, Stored, Shape, TypeOK, request
  <2> QED
    BY <1>10, <2>2, <2>3 DEF Look
<1>11. ASSUME Unlink(w) PROVE Shape'
  <2>1. Stored' /\ Return(w, 200, {}) /\ UNCHANGED <<request, fd, data>>
    BY <1>11, ShapeStored DEF Unlink, Stored, Restrict, limits
  <2> QED
    BY <2>1, ShapeReturn
<1>12. ASSUME UnlinkFails(w) PROVE Shape'
  <2>1. Stored' /\ Return(w, 500, {}) /\ UNCHANGED <<request, fd, data>>
    BY <1>12, ShapeStored DEF UnlinkFails, Fault, Stored, disk, history
  <2> QED
    BY <2>1, ShapeReturn
<1> QED
  BY <1>1, <1>2, <1>3, <1>4, <1>5, <1>6, <1>7, <1>8, <1>9, <1>10, <1>11, <1>12 DEF Handle

LEMMA ShapeNext == Shape /\ [Next]_vars => Shape'
BY ShapeStutter, ShapeArrive, ShapeHandle DEF Next, Step

(* Every variable keeps its type, and ids stay within an int: next_id and    *)
(* the paths of the requests never give a file another name.               *)
THEOREM ApiTypes == Spec => []TypeOK
<1>1. Shape => TypeOK
  BY DEF Shape
<1> QED
  BY <1>1, ShapeInit, ShapeNext, PTL DEF Spec

-------------------------------------------------------------------------------
(* Mutual exclusion *)

Busy(w) == pc[w] \notin {"idle", "lock"}

(* A request that is being handled holds the mutex of its handler object.   *)
Locked == \A w \in Workers : Busy(w) => lock[Mutex(w)] = w

(* A step of one request: how it moves, and what it may do to the mutex.    *)
LEMMA HowItMoves ==
  ASSUME Shape, NEW w \in Workers, Step(w) \/ (Arrive(w) /\ UNCHANGED handlerOf)
  PROVE  /\ handlerOf' = handlerOf
         /\ \A v \in Workers \ {w} : pc'[v] = pc[v] /\ id'[v] = id[v] /\ op'[v] = op[v]
         /\ \/ ~Busy(w) /\ ~Busy(w)' /\ UNCHANGED lock
            \/ ~Busy(w) /\ Busy(w)' /\ lock[Mutex(w)] = NoOne
               /\ lock' = [lock EXCEPT ![Mutex(w)] = w]
            \/ Busy(w) /\ Busy(w)' /\ UNCHANGED lock
            \/ Busy(w) /\ ~Busy(w)' /\ Release(w)
<1> DEFINE To(x) == pc' = [pc EXCEPT ![w] = x]
<1> USE DEF Goto
<1>1. handlerOf' = handlerOf
  BY DEF Step
<1>2. \A v \in Workers \ {w} : id'[v] = id[v] /\ op'[v] = op[v]
  <2>1. CASE Arrive(w)
    BY <2>1
    DEF Arrive, AskPost, AskGet, AskList, AskPut, AskDelete, Ask, Refuse, request, Shape, TypeOK
  <2>2. CASE PickId(w)
    BY <2>2 DEF PickId, Shape, TypeOK
  <2>3. CASE UNCHANGED request
    BY <2>3 DEF request
  <2>4. Handle(w) => PickId(w) \/ UNCHANGED request
    BY DEF Handle, Lock, Open, OpenFails, Flush, FlushLost, Get, ReadFails, List, Look,
           Unlink, UnlinkFails
  <2> QED
    BY <2>1, <2>2, <2>3, <2>4 DEF Step
<1>3. \/ pc[w] = "idle" /\ (To("idle") \/ To("lock")) /\ UNCHANGED lock
      \/ pc[w] = "lock" /\ lock[Mutex(w)] = NoOne /\ lock' = [lock EXCEPT ![Mutex(w)] = w]
         /\ \E x \in {"open", "POST", "GET", "LIST", "DELETE"} : To(x)
      \/ Busy(w) /\ (\E x \in {"open", "flush", "unlink"} : To(x)) /\ UNCHANGED lock
      \/ Busy(w) /\ To("idle") /\ Release(w)
  <2>1. CASE Arrive(w)
    BY <2>1
    DEF Arrive, AskPost, AskGet, AskList, AskPut, AskDelete, Ask, Refuse, Answer
  <2>2. CASE Lock(w)
    <3> DEFINE x == IF op[w] = "PUT" THEN "open" ELSE op[w]
    <3>1. x \in {"open", "POST", "GET", "LIST", "DELETE"}
      BY DEF Shape, TypeOK
    <3>2. pc[w] = "lock" /\ lock[Mutex(w)] = NoOne /\ To(x)
          /\ lock' = [lock EXCEPT ![Mutex(w)] = w]
      BY <2>2 DEF Lock
    <3> QED
      BY <3>1, <3>2
  <2>3. CASE PickId(w) \/ Open(w)
    BY <2>3 DEF PickId, Open, Busy
  <2>4. CASE OpenFails(w) \/ Flush(w) \/ FlushLost(w)
    BY <2>4 DEF OpenFails, Flush, FlushLost, Return, Answer, Busy
  <2>5. CASE Get(w) \/ ReadFails(w) \/ List(w) \/ Look(w)
    BY <2>5 DEF Get, ReadFails, List, Look, Return, Answer, Busy
  <2>6. CASE Unlink(w) \/ UnlinkFails(w)
    BY <2>6 DEF Unlink, UnlinkFails, Return, Answer, Busy
  <2> QED
    BY <2>1, <2>2, <2>3, <2>4, <2>5, <2>6 DEF Step, Handle
<1>4. w \in DOMAIN pc
  BY DEF Shape, TypeOK
<1>5. \A v \in Workers \ {w} : pc'[v] = pc[v]
  <2>1. \E x : To(x)
    BY <1>3
  <2>2. pc \in [Workers -> {"idle", "lock", "POST", "GET", "LIST", "DELETE",
                          "open", "flush", "unlink"}]
    BY DEF Shape, TypeOK
  <2> QED
    BY <2>1, <2>2
<1>6. To("idle") \/ To("lock") => ~Busy(w)'
  BY <1>4 DEF Busy
<1>7. ASSUME NEW x \in {"open", "POST", "GET", "LIST", "DELETE", "flush", "unlink"}, To(x)
      PROVE  Busy(w)'
  BY <1>4, <1>7 DEF Busy
<1>8. /\ pc[w] = "idle" => ~Busy(w)
      /\ pc[w] = "lock" => ~Busy(w)
  BY DEF Busy
<1> QED
  BY <1>1, <1>2, <1>3, <1>5, <1>6, <1>7, <1>8

LEMMA LockedNext == Shape /\ Locked /\ [Next]_vars => Locked'
<1> SUFFICES ASSUME Shape, Locked, [Next]_vars PROVE Locked'
  OBVIOUS
<1>1. CASE UNCHANGED vars
  BY <1>1 DEF Locked, Busy, Mutex, vars
<1>2. ASSUME NEW w \in Workers, Step(w) \/ (Arrive(w) /\ UNCHANGED handlerOf)
      PROVE  Locked'
  <2>1. /\ \A v \in Workers \ {w} : Busy(v)' <=> Busy(v)
        /\ \A v \in Workers : Mutex(v)' = Mutex(v) /\ Mutex(v) \in DOMAIN lock
    BY <1>2, HowItMoves DEF Busy, Mutex, Shape, TypeOK
  <2>2. NoOne \notin Workers
    BY HandlersOK
  <2> QED
    BY <1>2, <2>1, <2>2, HowItMoves DEF Locked, Release
<1> QED
  BY <1>1, <1>2 DEF Next

(* With one mutex, one request is handled at a time. *)
LEMMA Alone ==
  ASSUME Locked, OneMutex, NEW v \in Workers, NEW w \in Workers, Busy(v), Busy(w)
  PROVE  v = w
BY DEF Locked, OneMutex, Mutex

-------------------------------------------------------------------------------
(* What concurrent writers do to the files, with or without a mutex *)

(* The steps that change no file: all but those four.                       *)
LEMMA OtherSteps ==
  ASSUME Shape, NEW w \in Workers, Step(w) \/ (Arrive(w) /\ UNCHANGED handlerOf),
         ~Open(w), ~Flush(w), ~FlushLost(w), ~Unlink(w)
  PROVE  /\ UNCHANGED <<entries, data, objects, raced, fd, lost>>
         /\ pc[w] # "flush" /\ pc'[w] # "flush"
         /\ \A v \in Workers \ {w} : pc'[v] = pc[v]
<1> DEFINE Same == UNCHANGED <<entries, data, objects, raced, fd, lost>> /\ pc[w] # "flush"
           To(x) == pc' = [pc EXCEPT ![w] = x]
<1>1. w \in DOMAIN pc /\ \A v \in Workers \ {w} : v \in DOMAIN pc
  BY DEF Shape, TypeOK
<1>2. Arrive(w) => Same /\ (To("lock") \/ To("idle"))
  BY DEF Arrive, AskPost, AskGet, AskList, AskPut, AskDelete, Ask, Refuse, Answer, Goto,
         disk, history
<1>3. Lock(w) => Same /\ \E x \in {"open", "POST", "GET", "LIST", "DELETE"} : To(x)
  <2> DEFINE x == IF op[w] = "PUT" THEN "open" ELSE op[w]
  <2>1. x \in {"open", "POST", "GET", "LIST", "DELETE"}
    BY DEF Shape, TypeOK
  <2>2. Lock(w) => Same /\ To(x)
    BY DEF Lock, Goto, disk, history, limits
  <2> QED
    BY <2>1, <2>2
<1>4. PickId(w) => Same /\ To("open")
  BY DEF PickId, Goto, disk, history, limits
<1>5. OpenFails(w) \/ ReadFails(w) \/ UnlinkFails(w) => Same /\ To("idle")
  BY DEF OpenFails, ReadFails, UnlinkFails, Return, Answer, Goto, disk, history
<1>6. Get(w) \/ List(w) \/ Look(w) => Same /\ (To("idle") \/ To("unlink"))
  BY DEF Get, List, Look, Return, Answer, Goto, disk, history, limits
<1>7. Same /\ \E x \in {"idle", "lock", "open", "POST", "GET", "LIST", "DELETE", "unlink"} : To(x)
  BY <1>2, <1>3, <1>4, <1>5, <1>6 DEF Step, Handle
<1> QED
  BY <1>1, <1>7

(* No file is in the directory twice. *)
Distinct ==
  \A i, j \in DOMAIN entries : entries[i] = entries[j] => i = j

(* A writer that has a file to itself finds it empty when it writes.        *)
OwnFile ==
  \A w \in Workers : pc[w] = "flush" /\ fd[w] \notin raced =>
    /\ data[fd[w]] = Empty
    /\ \A v \in Workers \ {w} : pc[v] = "flush" => fd[v] # fd[w]

Files == Distinct /\ OwnFile /\ OnlyRacesDamage

LEMMA FilesOpen ==
  ASSUME Shape, Files, NEW w \in Workers, Open(w)
  PROVE  Files'
<1>1. /\ pc[w] = "open" /\ pc' = [pc EXCEPT ![w] = "flush"] /\ lost' = lost
      /\ pc'[w] = "flush" /\ \A v \in Workers \ {w} : pc'[v] = pc[v]
  BY DEF Open, Goto, limits, Shape, TypeOK
<1>2. Len(data) \in Nat /\ data \in Seq(Docs \cup {Empty, Torn}) /\ DOMAIN data = 1 .. Len(data)
      /\ raced \subseteq 1 .. Len(data)
  BY DEF Shape, TypeOK
<1>3. CASE id[w] \in DOMAIN entries
  <2> DEFINE n == entries[id[w]]
  <2>1. n \in 1 .. Len(data)
    BY <1>3 DEF Shape, TypeOK
  <2>2. /\ fd' = [fd EXCEPT ![w] = n] /\ data' = [data EXCEPT ![n] = Empty]
        /\ entries' = entries
        /\ raced' = IF \E v \in Workers : pc[v] = "flush" /\ fd[v] = n
                      THEN raced \cup {n} ELSE raced
    BY <1>3 DEF Open
  <2>3. fd'[w] = n /\ \A v \in Workers \ {w} : fd'[v] = fd[v]
    BY <2>2 DEF Shape
  <2>4. /\ DOMAIN data' = DOMAIN data /\ data'[n] = Empty
        /\ \A m \in DOMAIN data \ {n} : data'[m] = data[m]
    BY <1>2, <2>1, <2>2
  <2>5. \A v \in Workers : pc[v] = "flush" => fd[v] \in DOMAIN data
    BY <1>2 DEF Shape, TypeOK
  <2> HIDE DEF n
  <2>6. Distinct'
    BY <2>2 DEF Files, Distinct
  <2>7. OwnFile'
    BY <1>1, <2>2, <2>3, <2>4, <2>5 DEF Files, OwnFile
  <2>8. OnlyRacesDamage'
    BY <1>1, <2>2, <2>3, <2>4, <2>5 DEF Files, OnlyRacesDamage
  <2> QED
    BY <2>6, <2>7, <2>8 DEF Files
<1>4. CASE id[w] \notin DOMAIN entries
  <2> DEFINE n == Len(data) + 1
  <2>1. /\ fd' = [fd EXCEPT ![w] = n] /\ data' = Append(data, Empty)
        /\ entries' = Put(entries, id[w], n) /\ raced' = raced
    BY <1>4 DEF Open
  <2>2. fd'[w] = n /\ \A v \in Workers \ {w} : fd'[v] = fd[v]
    BY <2>1 DEF Shape
  <2>3. /\ DOMAIN data' = DOMAIN data \cup {n} /\ data'[n] = Empty /\ n \notin DOMAIN data
        /\ \A m \in DOMAIN data : data'[m] = data[m]
    BY <1>2, <2>1
  <2>4. /\ DOMAIN entries' = DOMAIN entries \cup {id[w]} /\ entries'[id[w]] = n
        /\ \A i \in DOMAIN entries : entries'[i] = entries[i]
    BY <1>4, <2>1 DEF Put
  <2>5. \A v \in Workers : pc[v] = "flush" => fd[v] \in DOMAIN data
    BY <1>2 DEF Shape, TypeOK
  <2>6. \A i \in DOMAIN entries : entries[i] \in DOMAIN data
    BY <1>2 DEF Shape, TypeOK
  <2> HIDE DEF n
  <2>7. Distinct'
    BY <1>4, <2>3, <2>4, <2>6 DEF Files, Distinct
  <2>8. OwnFile'
    BY <1>1, <2>1, <2>2, <2>3, <2>5 DEF Files, OwnFile
  <2>9. OnlyRacesDamage'
    BY <1>1, <2>1, <2>2, <2>3, <2>5 DEF Files, OnlyRacesDamage
  <2> QED
    BY <2>7, <2>8, <2>9 DEF Files
<1> QED
  BY <1>3, <1>4

LEMMA FilesFlush ==
  ASSUME Shape, Files, NEW w \in Workers, Flush(w) \/ FlushLost(w)
  PROVE  Files'
<1>1. /\ pc[w] = "flush" /\ pc' = [pc EXCEPT ![w] = "idle"]
      /\ pc'[w] = "idle" /\ \A v \in Workers \ {w} : pc'[v] = pc[v]
      /\ UNCHANGED <<entries, fd, raced>>
  BY DEF Flush, FlushLost, Return, Answer, Goto, request, disk, Shape, TypeOK
<1>2. fd[w] \in DOMAIN data /\ data \in Seq(Docs \cup {Empty, Torn}) /\ lost \in Nat
      /\ doc[w] \in Docs
  BY <1>1 DEF Shape, TypeOK
<1>3. Distinct'
  BY <1>1 DEF Files, Distinct
<1>4. CASE Flush(w)
  <2> DEFINE d == Overlay(doc[w], data[fd[w]])
  <2>1. data' = [data EXCEPT ![fd[w]] = d] /\ lost' = lost
    BY <1>4 DEF Flush, limits
  <2>2. fd[w] \notin raced => d \in Docs
    BY <1>1, <1>2, OverlayOnEmpty DEF Files, OwnFile
  <2> HIDE DEF d
  <2>3. /\ DOMAIN data' = DOMAIN data /\ data'[fd[w]] = d
        /\ \A m \in DOMAIN data \ {fd[w]} : data'[m] = data[m]
    BY <1>2, <2>1
  <2>4. \A v \in Workers : pc[v] = "flush" => fd[v] \in DOMAIN data
    BY DEF Shape, TypeOK
  <2>5. OwnFile'
    BY <1>1, <2>3, <2>4 DEF Files, OwnFile
  <2>6. OnlyRacesDamage'
    BY <1>1, <2>1, <2>2, <2>3 DEF Files, OnlyRacesDamage
  <2> QED
    BY <1>3, <2>5, <2>6 DEF Files
<1>5. CASE FlushLost(w)
  <2>1. data' = data /\ lost' # 0
    BY <1>2, <1>5 DEF FlushLost, disk
  <2> QED
    BY <1>1, <1>3, <2>1 DEF Files, OwnFile, OnlyRacesDamage
<1> QED
  BY <1>4, <1>5

LEMMA FilesNext == Shape /\ Files /\ [Next]_vars => Files'
<1> SUFFICES ASSUME Shape, Files, [Next]_vars PROVE Files'
  OBVIOUS
<1> USE DEF Files, Distinct, OwnFile, OnlyRacesDamage
<1>1. CASE UNCHANGED vars
  BY <1>1 DEF vars
<1>2. ASSUME NEW w \in Workers, Step(w) \/ (Arrive(w) /\ UNCHANGED handlerOf)
      PROVE  Files'
  <2>1. CASE Unlink(w)
    <3>1. /\ pc[w] = "unlink" /\ pc'[w] = "idle" /\ \A v \in Workers \ {w} : pc'[v] = pc[v]
          /\ UNCHANGED <<data, fd, raced, lost>>
          /\ entries' = Restrict(entries, DOMAIN entries \ {id[w]})
      BY <2>1 DEF Unlink, Return, Answer, Goto, request, limits, Shape, TypeOK
    <3> QED
      BY <3>1 DEF Restrict
  <2>2. CASE Open(w)
    BY <2>2, FilesOpen
  <2>3. CASE Flush(w) \/ FlushLost(w)
    BY <2>3, FilesFlush
  <2>4. CASE ~Open(w) /\ ~Flush(w) /\ ~FlushLost(w) /\ ~Unlink(w)
    BY <1>2, <2>4, OtherSteps
  <2> QED
    BY <2>1, <2>2, <2>3, <2>4
<1> QED
  BY <1>1, <1>2 DEF Next

LEMMA FilesInit == Init => Files
BY DEF Init, Files, Distinct, OwnFile, OnlyRacesDamage

(* Only writers that have one file open at the same time damage it, whatever*)
(* handler objects, and so mutexes, the requests run under.                 *)
THEOREM ApiDamage == Spec => []OnlyRacesDamage
<1>1. Files => OnlyRacesDamage
  BY DEF Files
<1> QED
  BY <1>1, ShapeInit, ShapeNext, FilesInit, FilesNext, PTL DEF Spec

-------------------------------------------------------------------------------
(* One mutex: the directory and the confirmed objects *)

LEMMA FewIds ==
  ASSUME NEW S \in SUBSET AllIds, NEW T \in SUBSET S
  PROVE  /\ IsFiniteSet(S) /\ Cardinality(S) \in Nat
         /\ Cardinality(T) \in Nat /\ Cardinality(T) <= Cardinality(S)
<1>1. IsFiniteSet(S)
  BY AllIdsFinite, FS_Subset
<1>2. IsFiniteSet(T) /\ Cardinality(T) <= Cardinality(S)
  BY <1>1, FS_Subset
<1> QED
  BY <1>1, <1>2, FS_CardinalityType

(* The objects whose file does not hold the document it should.             *)
Damaged == {i \in DOMAIN objects : data[entries[i]] # objects[i]}

(* While a writer has its file open, the file is empty and may be missing   *)
(* from the objects; a POST writes to the id that next_id gives for these.  *)
Matching ==
  OneMutex =>
    /\ (\A w \in Workers : pc[w] # "flush") =>
         DOMAIN entries = DOMAIN objects /\ Cardinality(Damaged) <= lost
    /\ \A w \in Workers :
         /\ pc[w] = "flush" =>
              /\ DOMAIN entries = DOMAIN objects \cup {id[w]}
              /\ entries[id[w]] = fd[w] /\ data[fd[w]] = Empty
              /\ Cardinality(Damaged \ {id[w]}) <= lost
         /\ pc[w] = "unlink" => id[w] \in DOMAIN entries
         /\ pc[w] \in {"open", "flush"} /\ op[w] = "POST" => id[w] = NextId(DOMAIN objects)

Inductive == Shape /\ Locked /\ Files /\ Matching

LEMMA MatchingInit == Init => Matching
<1> SUFFICES ASSUME Init PROVE Matching
  OBVIOUS
<1>1. DOMAIN entries = {} /\ DOMAIN objects = {} /\ \A w \in Workers : pc[w] = "idle"
  BY DEF Init
<1>2. Damaged = {} /\ Cardinality({}) = 0 /\ lost = 0
  BY <1>1, FS_EmptySet DEF Damaged, Init
<1> QED
  BY <1>1, <1>2 DEF Matching

(* The one request that is being handled. *)
LEMMA OnlyOne ==
  ASSUME Inductive, OneMutex, NEW w \in Workers, Busy(w)
  PROVE  \A v \in Workers \ {w} : pc[v] \in {"idle", "lock"}
BY Alone DEF Inductive, Busy

LEMMA MatchingOpen ==
  ASSUME Inductive, OneMutex, NEW w \in Workers, Open(w)
  PROVE  Matching'
<1>1. /\ pc[w] = "open" /\ pc'[w] = "flush" /\ \A v \in Workers \ {w} : pc'[v] = pc[v]
      /\ UNCHANGED <<objects, lost, id, op>>
  BY DEF Open, Goto, limits, request, Inductive, Shape, TypeOK
<1>2. \A v \in Workers \ {w} : pc[v] \in {"idle", "lock"}
  BY <1>1, OnlyOne DEF Busy
<1>3. DOMAIN entries = DOMAIN objects /\ Cardinality(Damaged) <= lost
  BY <1>1, <1>2 DEF Inductive, Matching
<1>4. op[w] = "POST" => id[w] = NextId(DOMAIN objects)
  BY <1>1 DEF Inductive, Matching
<1>5. data \in Seq(Docs \cup {Empty, Torn}) /\ Len(data) \in Nat /\ lost \in Nat
      /\ DOMAIN objects \subseteq AllIds
      /\ \A i \in DOMAIN entries : entries[i] \in 1 .. Len(data)
  BY DEF Inductive, Shape, TypeOK
<1>6. /\ DOMAIN entries' = DOMAIN objects \cup {id[w]}
      /\ entries'[id[w]] = fd'[w] /\ data'[fd'[w]] = Empty
      /\ Damaged' \ {id[w]} \subseteq Damaged
  <2>1. CASE id[w] \in DOMAIN entries
    <3> DEFINE n == entries[id[w]]
    <3>1. n \in 1 .. Len(data)
      BY <1>5, <2>1
    <3>2. fd'[w] = n /\ data' = [data EXCEPT ![n] = Empty] /\ entries' = entries
      BY <2>1 DEF Open, Inductive, Shape
    <3>3. data'[n] = Empty /\ \A m \in 1 .. Len(data) : m # n => data'[m] = data[m]
      BY <1>5, <3>1, <3>2
    <3>4. \A i \in DOMAIN entries : i # id[w] => entries[i] # n
      BY <2>1 DEF Inductive, Files, Distinct
    <3> HIDE DEF n
    <3>5. Damaged' \ {id[w]} \subseteq Damaged
      BY <1>1, <1>3, <1>5, <3>2, <3>3, <3>4 DEF Damaged
    <3>6. entries[id[w]] = n
      BY DEF n
    <3> QED
      BY <1>3, <2>1, <3>2, <3>3, <3>5, <3>6
  <2>2. CASE id[w] \notin DOMAIN entries
    <3> DEFINE n == Len(data) + 1
    <3>1. fd'[w] = n /\ data' = Append(data, Empty) /\ entries' = Put(entries, id[w], n)
      BY <2>2 DEF Open, Inductive, Shape
    <3>2. data'[n] = Empty /\ \A m \in 1 .. Len(data) : data'[m] = data[m]
      BY <1>5, <3>1
    <3>3. /\ DOMAIN entries' = DOMAIN entries \cup {id[w]} /\ entries'[id[w]] = n
          /\ \A i \in DOMAIN entries : entries'[i] = entries[i]
      BY <2>2, <3>1 DEF Put
    <3> HIDE DEF n
    <3>4. Damaged' \ {id[w]} \subseteq Damaged
      BY <1>1, <1>3, <1>5, <3>2, <3>3 DEF Damaged
    <3> QED
      BY <1>3, <3>1, <3>2, <3>3, <3>4
  <2> QED
    BY <2>1, <2>2
<1>7. Cardinality(Damaged' \ {id[w]}) <= lost
  <2>1. Damaged \in SUBSET AllIds
    BY <1>5 DEF Damaged
  <2>2. /\ Cardinality(Damaged) \in Nat /\ Cardinality(Damaged' \ {id[w]}) \in Nat
        /\ Cardinality(Damaged' \ {id[w]}) <= Cardinality(Damaged)
    BY <1>6, <2>1, FewIds
  <2> QED
    BY <1>3, <1>5, <2>2
<1> QED
  BY <1>1, <1>2, <1>4, <1>6, <1>7 DEF Matching

LEMMA MatchingFlush ==
  ASSUME Inductive, OneMutex, NEW w \in Workers, Flush(w) \/ FlushLost(w)
  PROVE  Matching'
<1>1. /\ pc[w] = "flush" /\ pc'[w] = "idle" /\ \A v \in Workers \ {w} : pc'[v] = pc[v]
      /\ UNCHANGED <<entries, id, op, fd>> /\ objects' = Put(objects, id[w], doc[w])
  BY DEF Flush, FlushLost, Return, Answer, Goto, request, disk, Inductive, Shape, TypeOK
<1>2. \A v \in Workers \ {w} : pc[v] \in {"idle", "lock"}
  BY <1>1, OnlyOne DEF Busy
<1>3. /\ DOMAIN entries = DOMAIN objects \cup {id[w]}
      /\ entries[id[w]] = fd[w] /\ data[fd[w]] = Empty
      /\ Cardinality(Damaged \ {id[w]}) <= lost
  BY <1>1 DEF Inductive, Matching
<1>4. /\ DOMAIN objects' = DOMAIN objects \cup {id[w]} /\ objects'[id[w]] = doc[w]
      /\ \A i \in DOMAIN objects : i # id[w] => objects'[i] = objects[i]
  BY <1>1 DEF Put
<1>5. data \in Seq(Docs \cup {Empty, Torn}) /\ lost \in Nat
      /\ DOMAIN objects \subseteq AllIds /\ id[w] \in AllIds
      /\ fd[w] \in 1 .. Len(data) /\ \A i \in DOMAIN entries : entries[i] \in 1 .. Len(data)
  BY <1>1 DEF Inductive, Shape, TypeOK
<1>6. Damaged \ {id[w]} \in SUBSET AllIds
  BY <1>5 DEF Damaged
<1>7. Cardinality(Damaged') <= lost'
  <2>1. CASE Flush(w)
    <3>1. data' = [data EXCEPT ![fd[w]] = doc[w]] /\ lost' = lost
      BY <1>3, <2>1, OverlayOnEmpty DEF Flush, limits
    <3>2. data'[fd[w]] = doc[w] /\ \A m \in 1 .. Len(data) : m # fd[w] => data'[m] = data[m]
      BY <1>5, <3>1
    <3>3. \A i \in DOMAIN entries : i # id[w] => entries[i] # fd[w]
      BY <1>3 DEF Inductive, Files, Distinct
    <3>4. Damaged' \subseteq Damaged \ {id[w]}
      BY <1>1, <1>3, <1>4, <1>5, <3>2, <3>3 DEF Damaged
    <3>5. /\ Cardinality(Damaged \ {id[w]}) \in Nat /\ Cardinality(Damaged') \in Nat
          /\ Cardinality(Damaged') <= Cardinality(Damaged \ {id[w]})
      BY <1>6, <3>4, FewIds
    <3> QED
      BY <1>3, <1>5, <3>1, <3>5
  <2>2. CASE FlushLost(w)
    <3> DEFINE D == Damaged \ {id[w]}
    <3>1. data' = data /\ lost' = lost + 1
      BY <2>2 DEF FlushLost, disk
    <3>2. Damaged' \in SUBSET (D \cup {id[w]})
      BY <1>1, <1>3, <1>4, <3>1 DEF Damaged
    <3> HIDE DEF D
    <3>3. D \in SUBSET AllIds /\ Cardinality(D) <= lost
      BY <1>3, <1>6 DEF D
    <3>4. IsFiniteSet(D) /\ Cardinality(D) \in Nat
      BY <3>3, FewIds
    <3>5. Cardinality(D \cup {id[w]}) <= Cardinality(D) + 1
      BY <3>4, FS_AddElement
    <3>6. D \cup {id[w]} \in SUBSET AllIds
      BY <1>5, <3>3
    <3>7. /\ Cardinality(D \cup {id[w]}) \in Nat /\ Cardinality(Damaged') \in Nat
          /\ Cardinality(Damaged') <= Cardinality(D \cup {id[w]})
      BY <3>2, <3>6, FewIds
    <3> QED
      BY <1>5, <3>1, <3>3, <3>4, <3>5, <3>7
  <2> QED
    BY <2>1, <2>2
<1> QED
  BY <1>1, <1>2, <1>3, <1>4, <1>7 DEF Matching

LEMMA MatchingUnlink ==
  ASSUME Inductive, OneMutex, NEW w \in Workers, Unlink(w)
  PROVE  Matching'
<1>1. /\ pc[w] = "unlink" /\ pc'[w] = "idle" /\ \A v \in Workers \ {w} : pc'[v] = pc[v]
      /\ UNCHANGED <<data, id, op, fd, lost>>
      /\ entries' = Restrict(entries, DOMAIN entries \ {id[w]})
      /\ objects' = Restrict(objects, DOMAIN objects \ {id[w]})
  BY DEF Unlink, Return, Answer, Goto, request, limits, Inductive, Shape, TypeOK
<1>2. \A v \in Workers \ {w} : pc[v] \in {"idle", "lock"}
  BY <1>1, OnlyOne DEF Busy
<1>3. DOMAIN entries = DOMAIN objects /\ Cardinality(Damaged) <= lost
  BY <1>1, <1>2 DEF Inductive, Matching
<1>4. DOMAIN entries' = DOMAIN objects' /\ Damaged' \in SUBSET Damaged
  BY <1>1, <1>3 DEF Restrict, Damaged
<1>5. Damaged \in SUBSET AllIds /\ lost \in Nat
  BY DEF Damaged, Inductive, Shape, TypeOK
<1>6. /\ Cardinality(Damaged) \in Nat /\ Cardinality(Damaged') \in Nat
      /\ Cardinality(Damaged') <= Cardinality(Damaged)
  BY <1>4, <1>5, FewIds
<1>7. Cardinality(Damaged') <= lost'
  BY <1>1, <1>3, <1>5, <1>6
<1> QED
  BY <1>1, <1>2, <1>4, <1>7 DEF Matching

(* How a request comes to open a file, or to remove one. *)
LEMMA HowItGoesOn ==
  ASSUME Shape, NEW w \in Workers, Step(w) \/ (Arrive(w) /\ UNCHANGED handlerOf)
  PROVE  /\ pc'[w] = "open" => (pc[w] = "lock" /\ op'[w] = "PUT") \/ PickId(w)
         /\ pc'[w] = "unlink" => pc[w] = "DELETE" /\ id[w] \in DOMAIN entries /\ id' = id
<1> DEFINE To(x) == pc' = [pc EXCEPT ![w] = x]
<1>1. w \in DOMAIN pc /\ op[w] \in {"POST", "GET", "LIST", "PUT", "DELETE"}
  BY DEF Shape, TypeOK
<1>2. Arrive(w) => To("lock") \/ To("idle")
  BY DEF Arrive, AskPost, AskGet, AskList, AskPut, AskDelete, Ask, Refuse, Answer, Goto
<1>3. Lock(w) => pc[w] = "lock" /\ op' = op /\ To(IF op[w] = "PUT" THEN "open" ELSE op[w])
  BY DEF Lock, Goto, request
<1>4. Open(w) => To("flush")
  BY DEF Open, Goto
<1>5. OpenFails(w) \/ Flush(w) \/ FlushLost(w) \/ ReadFails(w) \/ UnlinkFails(w) => To("idle")
  BY DEF OpenFails, Flush, FlushLost, ReadFails, UnlinkFails, Return, Answer, Goto
<1>6. Get(w) \/ List(w) \/ Unlink(w) => To("idle")
  BY DEF Get, List, Unlink, Return, Answer, Goto
<1>7. Look(w) => /\ pc[w] = "DELETE" /\ id' = id
                 /\ To("idle") \/ (To("unlink") /\ id[w] \in DOMAIN entries)
  BY DEF Look, Return, Answer, Goto, request
<1>8. PickId(w) => To("open")
  BY DEF PickId, Goto
<1>9. CASE PickId(w)
  BY <1>1, <1>8, <1>9
<1>10. CASE ~PickId(w)
  BY <1>1, <1>2, <1>3, <1>4, <1>5, <1>6, <1>7, <1>10 DEF Step, Handle
<1> QED
  BY <1>9, <1>10

LEMMA MatchingOther ==
  ASSUME Inductive, OneMutex, NEW w \in Workers,
         Step(w) \/ (Arrive(w) /\ UNCHANGED handlerOf),
         ~Open(w), ~Flush(w), ~FlushLost(w), ~Unlink(w)
  PROVE  Matching'
<1>1. /\ UNCHANGED <<entries, data, objects, raced, fd, lost>>
      /\ pc[w] # "flush" /\ pc'[w] # "flush"
      /\ \A v \in Workers \ {w} : pc'[v] = pc[v]
  BY OtherSteps DEF Inductive
<1>2. \A v \in Workers \ {w} : id'[v] = id[v] /\ op'[v] = op[v]
  BY HowItMoves DEF Inductive
<1>3. Damaged' = Damaged
  BY <1>1 DEF Damaged
<1>4. pc'[w] = "unlink" => id'[w] \in DOMAIN entries
  BY HowItGoesOn DEF Inductive
<1>5. pc'[w] = "open" /\ op'[w] = "POST" => id'[w] = NextId(DOMAIN objects)
  <2> SUFFICES ASSUME pc'[w] = "open" /\ op'[w] = "POST"
               PROVE  id'[w] = NextId(DOMAIN objects)
    OBVIOUS
  <2>1. PickId(w)
    BY HowItGoesOn DEF Inductive
  <2>2. pc[w] = "POST" /\ id'[w] = NextId(DOMAIN entries)
    BY <2>1 DEF PickId, Inductive, Shape, TypeOK
  <2>3. \A v \in Workers : pc[v] # "flush"
    BY <2>2, OnlyOne DEF Busy
  <2> QED
    BY <2>2, <2>3 DEF Inductive, Matching
<1>6. (\A v \in Workers : pc'[v] # "flush") => \A v \in Workers : pc[v] # "flush"
  BY <1>1
<1> QED
  BY <1>1, <1>2, <1>3, <1>4, <1>5, <1>6 DEF Inductive, Matching

LEMMA InductiveInit == Init => Inductive
<1>1. Init => Locked
  BY DEF Init, Locked, Busy
<1> QED
  BY <1>1, ShapeInit, FilesInit, MatchingInit DEF Inductive

LEMMA InductiveNext == Inductive /\ [Next]_vars => Inductive'
<1> SUFFICES ASSUME Inductive, [Next]_vars PROVE Matching'
  BY ShapeNext, LockedNext, FilesNext DEF Inductive
<1>1. CASE UNCHANGED vars
  BY <1>1 DEF Inductive, Matching, OneMutex, Damaged, vars
<1>2. ASSUME NEW w \in Workers, Step(w) \/ (Arrive(w) /\ UNCHANGED handlerOf)
      PROVE  Matching'
  <2>1. handlerOf' = handlerOf
    BY <1>2 DEF Step
  <2>2. CASE ~OneMutex
    BY <2>1, <2>2 DEF Matching, OneMutex
  <2>3. CASE OneMutex
    BY <1>2, <2>3, MatchingOpen, MatchingFlush, MatchingUnlink, MatchingOther
  <2> QED
    BY <2>2, <2>3
<1> QED
  BY <1>1, <1>2 DEF Next

(* With one mutex the directory holds the confirmed objects whenever no     *)
(* request is being handled, whatever has failed.                           *)
THEOREM ApiStoreMatches == Spec => []StoreMatches
<1>1. Inductive => StoreMatches
  BY DEF Inductive, Matching, StoreMatches, Damaged
<1> QED
  BY <1>1, InductiveInit, InductiveNext, PTL DEF Spec

-------------------------------------------------------------------------------
(* One mutex and no lost write: the map of ApiMap *)

LEMMA NobodyDamaged ==
  ASSUME NEW S \in SUBSET AllIds, Cardinality(S) <= 0 PROVE S = {}
<1>1. IsFiniteSet(S) /\ Cardinality(S) \in Nat
  BY FewIds
<1> QED
  BY <1>1, FS_EmptySet

(* What a request finds when it holds the one mutex and has no file open.   *)
LEMMA AtRest ==
  ASSUME Inductive, OneMutex, lost = 0, NEW w \in Workers, Busy(w), pc[w] # "flush"
  PROVE  /\ DOMAIN entries = DOMAIN objects
         /\ \A i \in DOMAIN objects : data[entries[i]] = objects[i]
         /\ reply[w] = Pending
<1>1. \A v \in Workers : pc[v] # "flush"
  BY OnlyOne
<1>2. DOMAIN entries = DOMAIN objects /\ Cardinality(Damaged) <= 0
  BY <1>1 DEF Inductive, Matching
<1>3. Damaged \in SUBSET AllIds
  BY DEF Damaged, Inductive, Shape, TypeOK
<1>4. Damaged = {}
  BY <1>2, <1>3, NobodyDamaged
<1>5. reply[w] = Pending
  BY DEF Inductive, Shape, Busy
<1> QED
  BY <1>2, <1>4, <1>5 DEF Damaged

LEMMA MapInit == Init => Map!MInit
BY DEF Init, Map!MInit, NoReply, Map!NoReply

LEMMA MapRespond ==
  ASSUME Shape, NEW w \in Workers, Busy(w), NEW status, NEW result, Return(w, status, result)
  PROVE  Map!MRespond(w, status, result)
BY DEF Shape, Busy, Return, Answer, Map!MRespond, Map!Pending, Pending

LEMMA MapArrive ==
  ASSUME Shape, NEW w \in Workers, Arrive(w)
  PROVE  Map!MNext
<1>1. ASSUME NEW o, NEW i, NEW d, Ask(w, o, i, d) PROVE Map!MAsk(w)
  BY <1>1 DEF Ask, Shape, Map!MAsk, Map!Pending, Pending, disk, history
<1>2. ASSUME Refuse(w) PROVE Map!MRefuse(w)
  <2>1. \E status \in {400, 404} : reply' = [reply EXCEPT ![w] = <<status, {}>>]
    <3> DEFINE Says(status) == reply' = [reply EXCEPT ![w] = <<status, {}>>]
    <3>1. \A status : Answer(w, status, {}) => Says(status)
      BY DEF Answer
    <3>2. \E status \in {400, 404} : Answer(w, status, {})
      BY <1>2 DEF Refuse
    <3> HIDE DEF Says
    <3>3. \E status \in {400, 404} : Says(status)
      BY <3>1, <3>2
    <3> QED
      BY <3>3 DEF Says
  <2>2. reply[w] # Map!Pending /\ UNCHANGED <<objects, dir, faults>>
    BY <1>2 DEF Refuse, Shape, Map!Pending, Pending, disk, history
  <2> QED
    BY <2>1, <2>2, Zenon DEF Map!MRefuse
<1>3. Map!MAsk(w) \/ Map!MRefuse(w)
  BY <1>1, <1>2 DEF Arrive, AskPost, AskGet, AskList, AskPut, AskDelete
<1> QED
  BY <1>3 DEF Map!MNext

(* A write takes effect when the stream is closed. *)
LEMMA MapFlush ==
  ASSUME Inductive, OneMutex, NEW w \in Workers, Flush(w)
  PROVE  Map!MNext
<1>1. /\ pc[w] = "flush" /\ Busy(w) /\ doc[w] \in Docs /\ id[w] \in AllIds
      /\ op[w] \in {"POST", "PUT"}
      /\ objects' = Map!MPut(objects, id[w], doc[w]) /\ UNCHANGED <<dir, faults>>
  BY DEF Flush, Busy, Inductive, Shape, TypeOK, Put, Map!MPut, limits
<1>2. CASE op[w] = "POST"
  <2>1. id[w] = NextId(DOMAIN objects) /\ DOMAIN objects \in SUBSET AllIds
    BY <1>1, <1>2 DEF Inductive, Matching, Shape, TypeOK
  <2>2. id[w] \notin DOMAIN objects \/ \E m \in DOMAIN objects : \A j \in AllIds : j <= m
    BY <2>1, NextIdIsNew
  <2>3. Map!MRespond(w, 201, {id[w]})
    BY <1>1, <1>2, MapRespond DEF Flush, Inductive
  <2>4. Map!MPost(w, doc[w])
    BY <1>1, <2>1, <2>2, <2>3 DEF Map!MPost
  <2> QED
    BY <1>1, <2>4 DEF Map!MNext
<1>3. CASE op[w] = "PUT"
  <2>1. Map!MRespond(w, 200, {})
    BY <1>1, <1>3, MapRespond DEF Flush, Inductive
  <2>2. Map!MUpdate(w, id[w], doc[w])
    BY <1>1, <2>1 DEF Map!MUpdate
  <2> QED
    BY <1>1, <2>2 DEF Map!MNext
<1> QED
  BY <1>1, <1>2, <1>3

(* Every step of a request is one of the map or changes nothing there.      *)
LEMMA MapHandle ==
  ASSUME Inductive, OneMutex, lost = 0, lost' = 0, NEW w \in Workers, Handle(w)
  PROVE  Map!MNext \/ UNCHANGED Map!mvars
<1> DEFINE i == id[w]
<1> USE DEF Map!mvars
<1>1. i \in AllIds /\ Shape
  BY DEF Inductive, Shape, TypeOK
<1>2. CASE Lock(w) \/ PickId(w)
  BY <1>2 DEF Lock, PickId, disk, limits, history
<1>3. CASE Open(w)
  BY <1>3 DEF Open, limits, Map!MMake, Map!MNext
<1>4. CASE Flush(w)
  BY <1>4, MapFlush
<1>5. CASE FlushLost(w)
  BY <1>5 DEF FlushLost
<1>6. CASE OpenFails(w)
  <2>1. Busy(w) /\ faults' = faults + 1 /\ dir' \in {dir, "present"} /\ objects' = objects
    BY <1>6 DEF OpenFails, Busy, Fault, history
  <2>2. Map!MRespond(w, 500, {})
    BY <1>1, <1>6, <2>1, MapRespond DEF OpenFails
  <2> QED
    BY <2>1, <2>2 DEF Map!MFail, Map!MNext
<1>7. CASE ReadFails(w)
  <2>1. Busy(w) /\ faults' = faults + 1 /\ dir' = dir /\ objects' = objects
    BY <1>7 DEF ReadFails, Busy, Fault, history, disk
  <2>2. Map!MRespond(w, 404, {})
    BY <1>1, <1>7, <2>1, MapRespond DEF ReadFails
  <2> QED
    BY <2>1, <2>2 DEF Map!MFail, Map!MNext
<1>8. CASE Get(w)
  <2>1. Busy(w) /\ pc[w] # "flush" /\ UNCHANGED <<dir, objects, faults>>
    BY <1>8 DEF Get, Busy, disk, history, limits
  <2>2. IF i \in DOMAIN objects THEN Return(w, 200, {objects[i]}) ELSE Return(w, 404, {})
    BY <1>8, <2>1, AtRest DEF Get
  <2>3. Map!MGet(w, i)
    BY <1>1, <2>1, <2>2, MapRespond DEF Map!MGet
  <2> QED
    BY <1>1, <2>3 DEF Map!MNext
<1>9. CASE List(w)
  <2>1. Busy(w) /\ pc[w] # "flush" /\ UNCHANGED <<dir, objects, faults>>
    BY <1>9 DEF List, Busy, disk, history, limits
  <2>2. IF dir = "present" THEN Return(w, 200, DOMAIN objects) ELSE Return(w, 404, {})
    BY <1>9, <2>1, AtRest DEF List, Listing
  <2>3. Map!MList(w)
    BY <1>1, <2>1, <2>2, MapRespond DEF Map!MList
  <2> QED
    BY <2>3 DEF Map!MNext
<1>10. CASE Look(w)
  <2>1. Busy(w) /\ pc[w] # "flush" /\ UNCHANGED <<dir, objects, faults>>
    BY <1>10 DEF Look, Busy, disk, history, limits
  <2>2. CASE i \in DOMAIN entries
    BY <1>10, <2>1, <2>2 DEF Look
  <2>3. CASE i \notin DOMAIN entries
    <3>1. i \notin DOMAIN objects /\ Map!MRespond(w, 404, {})
      BY <1>1, <1>10, <2>1, <2>3, AtRest, MapRespond DEF Look
    <3>2. Map!MDelete(w, i)
      BY <2>1, <3>1 DEF Map!MDelete
    <3> QED
      BY <1>1, <3>2 DEF Map!MNext
  <2> QED
    BY <2>2, <2>3
<1>11. CASE Unlink(w)
  <2>1. Busy(w) /\ pc[w] # "flush" /\ UNCHANGED <<dir, faults>> /\ i \in DOMAIN entries
        /\ objects' = Restrict(objects, DOMAIN objects \ {i})
    BY <1>11 DEF Unlink, Busy, limits
  <2>2. i \in DOMAIN objects /\ Map!MRespond(w, 200, {})
    BY <1>1, <1>11, <2>1, AtRest, MapRespond DEF Unlink
  <2>3. Map!MDelete(w, i)
    BY <2>1, <2>2 DEF Map!MDelete, Restrict, Map!Restrict
  <2> QED
    BY <1>1, <2>3 DEF Map!MNext
<1>12. CASE UnlinkFails(w)
  <2>1. Busy(w) /\ i \in DOMAIN entries /\ UNCHANGED <<dir, objects>>
    BY <1>12 DEF UnlinkFails, Busy, Inductive, Matching, disk, history
  <2>2. faults' = faults + 1 /\ Map!MRespond(w, 500, {})
    BY <1>1, <1>12, <2>1, MapRespond DEF UnlinkFails, Fault
  <2> QED
    BY <2>1, <2>2 DEF Map!MFail, Map!MNext
<1> QED
  BY <1>2, <1>3, <1>4, <1>5, <1>6, <1>7, <1>8, <1>9, <1>10, <1>11, <1>12 DEF Handle

LEMMA MapNext ==
  Inductive /\ [Next]_vars => [OneMutex /\ lost' = 0 => Map!MNext]_Map!mvars
<1> SUFFICES ASSUME Inductive, [Next]_vars, OneMutex, lost' = 0
             PROVE  Map!MNext \/ UNCHANGED Map!mvars
  OBVIOUS
<1>1. CASE UNCHANGED vars
  BY <1>1 DEF vars, Map!mvars
<1>2. ASSUME NEW w \in Workers, Handle(w) PROVE Map!MNext \/ UNCHANGED Map!mvars
  <2>1. lost \in Nat /\ (lost' = lost \/ lost' = lost + 1)
    BY <1>2
    DEF Handle, Lock, PickId, Open, OpenFails, Flush, FlushLost, Get, ReadFails, List, Look,
        Unlink, UnlinkFails, limits, Inductive, Shape, TypeOK
  <2>2. lost = 0
    BY <2>1
  <2> QED
    BY <1>2, <2>2, MapHandle
<1>3. ASSUME NEW w \in Workers, Arrive(w) PROVE Map!MNext
  BY <1>3, MapArrive DEF Inductive
<1> QED
  BY <1>1, <1>2, <1>3 DEF Next, Step

(* The handler with one mutex implements the map until a write is lost.     *)
THEOREM ApiImplementsMap == Spec => ImplementsMap
BY MapInit, MapNext, InductiveInit, InductiveNext, PTL DEF Spec, ImplementsMap
===============================================================================
