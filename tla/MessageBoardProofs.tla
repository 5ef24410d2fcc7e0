-------------------------- MODULE MessageBoardProofs --------------------------
(***************************************************************************)
(* Proofs about MessageBoard for any number of workers and messages, any   *)
(* number of failing file operations and any number of restarts.           *)
(***************************************************************************)
EXTENDS MessageBoard, TLAPS

USE NoOneIsNoWorker, PartialIsNoPost, NoPostIsNoPost, BoundsAreNat

-------------------------------------------------------------------------------
(* The inductive invariant, in groups. *)

(* lock_ is held exactly inside persist_to_file, a worker carries a message *)
(* exactly inside a POST, and idx stays within the log it is written from.  *)
LockIsPc    == \A w \in Workers : pc[w] \in {"rewrite", "write"} <=> lock = w
CarriesPost == \A w \in Workers : pc[w] \in PostSteps <=> post[w] \in Posts
LoopBounds  ==
  \A w \in Workers :
    /\ pc[w] = "rewrite" =>
         cur[w] \in 1 .. Len(messages) + 1 /\ (todo[w] # {} => cur[w] = 1)
    /\ pc[w] = "write" => cur[w] \in 1 .. Len(messages) /\ todo[w] = {}
Shape == TypeOK /\ LockIsPc /\ CarriesPost /\ LoopBounds /\ saved <= Len(messages)

LEMMA ShapeInit == Init => Shape
  BY DEF Init, Shape, TypeOK, LockIsPc, CarriesPost, LoopBounds, NoFiles, PostSteps, GetSteps

LEMMA ShapeNext == Shape /\ [Next]_vars => Shape'
<1> SUFFICES ASSUME Shape, [Next]_vars PROVE Shape'
  OBVIOUS
<1> USE DEF Shape, LockIsPc, CarriesPost, LoopBounds,
            TypeOK, PostSteps, GetSteps, Files, Goto, Fault, NoFault, store, history
<1>1. ASSUME NEW w \in Workers, RefusePost(w) PROVE Shape'
  BY <1>1 DEF RefusePost, EnsureDirectory
<1>2. ASSUME NEW w \in Workers, NEW p \in Posts, AcceptPost(w, p) PROVE Shape'
  BY <1>2 DEF AcceptPost, EnsureDirectory
<1>3. ASSUME NEW w \in Workers, Add(w) PROVE Shape'
  BY <1>3 DEF Add
<1>4. ASSUME NEW w \in Workers, BeginPersist(w) PROVE Shape'
  BY <1>4 DEF BeginPersist
<1>5. ASSUME NEW w \in Workers, PersistGivesUp(w) PROVE Shape'
  BY <1>5 DEF PersistGivesUp
<1>6. ASSUME NEW w \in Workers, NEW i \in todo[w], RemoveFile(w, i) PROVE Shape'
  <2>1. DOMAIN disk' \subseteq Nat /\ \A j \in DOMAIN disk' : disk'[j] \in Files
    <3>1. CASE disk' = disk
      BY <3>1
    <3>2. CASE disk' = Without(disk, i)
      BY <3>2 DEF Without, Restrict
    <3> QED
      BY <1>6, <3>1, <3>2 DEF RemoveFile
  <2>2. failed' \in Nat /\ faults' \in Nat
    BY <1>6 DEF RemoveFile
  <2> QED
    BY <1>6, <2>1, <2>2 DEF RemoveFile
<1>7. ASSUME NEW w \in Workers, OpenFile(w) PROVE Shape'
  BY <1>7 DEF OpenFile, Put
<1>8. ASSUME NEW w \in Workers, OpenFails(w) PROVE Shape'
  BY <1>8 DEF OpenFails
<1>9. ASSUME NEW w \in Workers, WriteFile(w) PROVE Shape'
  <2>1. DOMAIN disk' \subseteq Nat /\ \A j \in DOMAIN disk' : disk'[j] \in Files
    <3>1. CASE disk' = disk
      BY <3>1
    <3>2. CASE disk' = Put(disk, cur[w], messages[cur[w]])
      BY <1>9, <3>2 DEF WriteFile, Put
    <3> QED
      BY <1>9, <3>1, <3>2 DEF WriteFile
  <2>2. failed' \in Nat /\ faults' \in Nat
    BY <1>9 DEF WriteFile
  <2> QED
    BY <1>9, <2>1, <2>2 DEF WriteFile
<1>10. ASSUME NEW w \in Workers, EndPersist(w) PROVE Shape'
  BY <1>10 DEF EndPersist
<1>11. ASSUME NEW w \in Workers, Reply(w) PROVE Shape'
  BY <1>11 DEF Reply
<1>12. ASSUME NEW w \in Workers, GetMessages(w) PROVE Shape'
  BY <1>12 DEF GetMessages
<1>13. ASSUME NEW w \in Workers, TakeScanLock(w) PROVE Shape'
  BY <1>13 DEF TakeScanLock
<1>14. ASSUME NEW w \in Workers, NEW i \in todo[w], ReadFile(w, i) PROVE Shape'
  BY <1>14 DEF ReadFile
<1>15. ASSUME NEW w \in Workers, FinishGet(w) PROVE Shape'
  BY <1>15 DEF FinishGet
<1>16. CASE CrashRestart
  BY <1>16 DEF CrashRestart
<1>17. CASE UNCHANGED vars
  BY <1>17 DEF vars
<1> QED
  BY <1>1, <1>2, <1>3, <1>4, <1>5, <1>6, <1>7, <1>8, <1>9, <1>10, <1>11,
     <1>12, <1>13, <1>14, <1>15, <1>16, <1>17
  DEF Next, Request, PostStep, GetStep

-------------------------------------------------------------------------------
(* How far a rewrite without an error has come: first the files still to be *)
(* removed are all there is, then the files written so far are.             *)
RewriteProgress ==
  failed = 0 =>
    \A w \in Workers :
      /\ pc[w] = "rewrite" =>
           /\ DOMAIN disk = todo[w] \cup 1 .. (cur[w] - 1)
           /\ \A i \in 1 .. (cur[w] - 1) : disk[i] = messages[i]
      /\ pc[w] = "write" =>
           /\ DOMAIN disk = 1 .. cur[w]
           /\ \A i \in 1 .. (cur[w] - 1) : disk[i] = messages[i]

Directory == RewriteProgress /\ DirectoryIsLog

LEMMA DirectoryInit == Init => Directory
  BY DEF Init, Directory, RewriteProgress, DirectoryIsLog

LEMMA IntervalGrows == ASSUME NEW n \in Nat \ {0} PROVE 1 .. n = 1 .. (n - 1) \cup {n}
  OBVIOUS

LEMMA DirectoryNext == Shape /\ Directory /\ [Next]_vars => Directory'
<1> SUFFICES ASSUME Shape, Directory, [Next]_vars PROVE Directory'
  OBVIOUS
<1> USE DEF Directory, RewriteProgress, DirectoryIsLog,
            Shape, LockIsPc, CarriesPost, LoopBounds,
            TypeOK, PostSteps, GetSteps, Files, Goto, Fault, NoFault, store, history
<1>1. ASSUME NEW w \in Workers, RefusePost(w) PROVE Directory'
  BY <1>1 DEF RefusePost, EnsureDirectory
<1>2. ASSUME NEW w \in Workers, NEW p \in Posts, AcceptPost(w, p) PROVE Directory'
  BY <1>2 DEF AcceptPost, EnsureDirectory
<1>3. ASSUME NEW w \in Workers, Add(w) PROVE Directory'
  BY <1>3 DEF Add
<1>4. ASSUME NEW w \in Workers, BeginPersist(w) PROVE Directory'
  BY <1>4 DEF BeginPersist
<1>5. ASSUME NEW w \in Workers, PersistGivesUp(w) PROVE Directory'
  BY <1>5 DEF PersistGivesUp
<1>6. ASSUME NEW w \in Workers, NEW i \in todo[w], RemoveFile(w, i) PROVE Directory'
  <2>1. \A v \in Workers : v # w => pc[v] \notin {"rewrite", "write"}
    BY <1>6 DEF RemoveFile
  <2>2. pc' = pc /\ lock' = w /\ cur' = cur /\ messages' = messages /\ cur[w] = 1
    BY <1>6 DEF RemoveFile
  <2>3. CASE disk' = Without(disk, i) /\ failed' = failed
    <3>1. DOMAIN disk' = DOMAIN disk \ {i}
      BY <2>3 DEF Without, Restrict
    <3>2. todo'[w] = todo[w] \ {i}
      BY <1>6 DEF RemoveFile
    <3>3. failed = 0 => DOMAIN disk = todo[w] \cup 1 .. (cur[w] - 1)
      BY <1>6 DEF RemoveFile
    <3>4. /\ failed = 0 => DOMAIN disk' = todo'[w] \cup 1 .. (cur'[w] - 1)
          /\ \A j \in 1 .. (cur'[w] - 1) : disk'[j] = messages'[j]
      <4> HIDE DEF Shape, Directory
      <4> QED
        BY <2>2, <3>1, <3>2, <3>3
    <3>5. pc'[w] = "rewrite" /\ lock' = w
      BY <1>6 DEF RemoveFile
    <3>6. saved' = saved
      BY <1>6 DEF RemoveFile
    <3> HIDE DEF Shape
    <3> QED
      BY <2>1, <2>2, <2>3, <3>4, <3>5, <3>6
  <2>4. CASE failed' = failed + 1
    BY <2>2, <2>4
  <2> QED
    BY <1>6, <2>3, <2>4 DEF RemoveFile
<1>7. ASSUME NEW w \in Workers, OpenFile(w) PROVE Directory'
  <2>1. \A v \in Workers : v # w => pc[v] \notin {"rewrite", "write"}
    BY <1>7 DEF OpenFile
  <2>2. /\ lock' = w /\ cur' = cur /\ messages' = messages /\ failed' = failed
        /\ pc' = [pc EXCEPT ![w] = "write"]
    BY <1>7 DEF OpenFile
  <2>3. DOMAIN disk' = DOMAIN disk \cup {cur[w]}
    BY <1>7 DEF OpenFile, Put
  <2>4. \A j \in DOMAIN disk : j # cur[w] => disk'[j] = disk[j]
    BY <1>7 DEF OpenFile, Put
  <2>5. failed = 0 => /\ DOMAIN disk' = 1 .. cur[w]
                      /\ \A j \in 1 .. (cur[w] - 1) : disk'[j] = messages[j]
    <3>1. cur[w] \in Nat \ {0} /\ todo[w] = {} /\ pc[w] = "rewrite"
      BY <1>7 DEF OpenFile
    <3>2. failed = 0 => /\ DOMAIN disk = 1 .. (cur[w] - 1)
                        /\ \A j \in 1 .. (cur[w] - 1) : disk[j] = messages[j]
      <4>1. failed = 0 => /\ DOMAIN disk = todo[w] \cup 1 .. (cur[w] - 1)
                          /\ \A j \in 1 .. (cur[w] - 1) : disk[j] = messages[j]
        BY <3>1
      <4> HIDE DEF Shape, Directory
      <4> QED
        BY <3>1, <4>1
    <3> HIDE DEF Shape, Directory
    <3> QED
      BY <2>3, <2>4, <3>1, <3>2, IntervalGrows
  <2> QED
    BY <2>1, <2>2, <2>5
<1>8. ASSUME NEW w \in Workers, OpenFails(w) PROVE Directory'
  BY <1>8 DEF OpenFails
<1>9. ASSUME NEW w \in Workers, WriteFile(w) PROVE Directory'
  <2>1. \A v \in Workers : v # w => pc[v] \notin {"rewrite", "write"}
    BY <1>9 DEF WriteFile
  <2>2. /\ lock' = w /\ messages' = messages /\ todo' = todo /\ todo[w] = {}
        /\ pc' = [pc EXCEPT ![w] = "rewrite"] /\ cur'[w] = cur[w] + 1
    BY <1>9 DEF WriteFile
  <2>3. CASE disk' = Put(disk, cur[w], messages[cur[w]]) /\ failed' = failed
    <3>1. DOMAIN disk' = DOMAIN disk \cup {cur[w]}
      BY <2>3 DEF Put
    <3>2. /\ disk'[cur[w]] = messages[cur[w]]
          /\ \A j \in DOMAIN disk : j # cur[w] => disk'[j] = disk[j]
      BY <2>3 DEF Put
    <3>3. failed = 0 => /\ DOMAIN disk' = 1 .. cur[w]
                        /\ \A j \in 1 .. cur[w] : disk'[j] = messages[j]
      <4>1. cur[w] \in Nat \ {0} /\ pc[w] = "write"
        BY <1>9 DEF WriteFile
      <4>2. failed = 0 => /\ DOMAIN disk = 1 .. cur[w]
                          /\ \A j \in 1 .. (cur[w] - 1) : disk[j] = messages[j]
        BY <4>1
      <4> HIDE DEF Shape, Directory
      <4> QED
        BY <3>1, <3>2, <4>1, <4>2, IntervalGrows
    <3>4. cur'[w] - 1 = cur[w] /\ todo'[w] = {} /\ pc'[w] = "rewrite"
      BY <1>9, <2>2
    <3>5. failed = 0 => /\ DOMAIN disk' = todo'[w] \cup 1 .. (cur'[w] - 1)
                        /\ \A j \in 1 .. (cur'[w] - 1) : disk'[j] = messages'[j]
      <4> HIDE DEF Shape, Directory
      <4> QED
        BY <2>2, <3>3, <3>4
    <3> QED
      BY <2>1, <2>2, <2>3, <3>4, <3>5
  <2>4. CASE failed' = failed + 1
    BY <2>2, <2>4
  <2> QED
    BY <1>9, <2>3, <2>4 DEF WriteFile
<1>10. ASSUME NEW w \in Workers, EndPersist(w) PROVE Directory'
  <2>1. \A v \in Workers : pc'[v] \notin {"rewrite", "write"}
    BY <1>10 DEF EndPersist
  <2>2. todo[w] = {} /\ cur[w] - 1 = Len(messages)
    BY <1>10 DEF EndPersist
  <2>3. failed = 0 => /\ DOMAIN disk = 1 .. Len(messages)
                      /\ \A j \in 1 .. Len(messages) : disk[j] = messages[j]
    BY <1>10, <2>2 DEF EndPersist
  <2> QED
    BY <1>10, <2>1, <2>3 DEF EndPersist
<1>11. ASSUME NEW w \in Workers, Reply(w) PROVE Directory'
  BY <1>11 DEF Reply
<1>12. ASSUME NEW w \in Workers, GetMessages(w) PROVE Directory'
  BY <1>12 DEF GetMessages
<1>13. ASSUME NEW w \in Workers, TakeScanLock(w) PROVE Directory'
  BY <1>13 DEF TakeScanLock
<1>14. ASSUME NEW w \in Workers, NEW i \in todo[w], ReadFile(w, i) PROVE Directory'
  BY <1>14 DEF ReadFile
<1>15. ASSUME NEW w \in Workers, FinishGet(w) PROVE Directory'
  BY <1>15 DEF FinishGet
<1>16. CASE CrashRestart
  BY <1>16 DEF CrashRestart
<1>17. CASE UNCHANGED vars
  BY <1>17 DEF vars
<1> QED
  BY <1>1, <1>2, <1>3, <1>4, <1>5, <1>6, <1>7, <1>8, <1>9, <1>10, <1>11,
     <1>12, <1>13, <1>14, <1>15, <1>16, <1>17
  DEF Next, Request, PostStep, GetStep

-------------------------------------------------------------------------------
(* Index i has stood for message p since this process started: either the   *)
(* process found p in that file, or p is the i-th message of its log.       *)
Means(i, p) ==
  \/ i \in DOMAIN inherited /\ inherited[i] = p
  \/ i \in 1 .. Len(messages) /\ messages[i] = p

(* A message has one index, whole files and parsed files say what their     *)
(* index means, and a message on its way into the log is new.               *)
Indices ==
  /\ \A i, j \in Nat, p \in Posts : Means(i, p) /\ Means(j, p) => i = j
  /\ \A i \in Nat, p \in Posts : Means(i, p) => p \in sent
  /\ \A i \in DOMAIN disk : disk[i] # Partial => Means(i, disk[i])
  /\ \A w \in Workers : \A a \in got[w] : Means(a[1], a[2])
  /\ \A w \in Workers : pc[w] \in PostSteps => post[w] \in sent
  /\ \A w \in Workers, i \in Nat : pc[w] = "add" => ~Means(i, post[w])
  /\ \A v, w \in Workers : post[v] \in Posts /\ post[v] = post[w] => v = w

LEMMA IndicesInit == Init => Indices
  BY DEF Init, Indices, Means, NoFiles, PostSteps

LEMMA IndicesNext == Shape /\ Indices /\ [Next]_vars => Indices'
<1> SUFFICES ASSUME Shape, Indices, [Next]_vars PROVE Indices'
  OBVIOUS
<1> USE DEF Indices, Means,
            Shape, LockIsPc, CarriesPost, LoopBounds,
            TypeOK, PostSteps, GetSteps, Files, Goto, Fault, NoFault, store, history
<1>1. ASSUME NEW w \in Workers, RefusePost(w) PROVE Indices'
  BY <1>1 DEF RefusePost, EnsureDirectory
<1>2. ASSUME NEW w \in Workers, NEW p \in Posts, AcceptPost(w, p) PROVE Indices'
  BY <1>2 DEF AcceptPost, EnsureDirectory
<1>3. ASSUME NEW w \in Workers, Add(w) PROVE Indices'
  BY <1>3 DEF Add
<1>4. ASSUME NEW w \in Workers, BeginPersist(w) PROVE Indices'
  BY <1>4 DEF BeginPersist
<1>5. ASSUME NEW w \in Workers, PersistGivesUp(w) PROVE Indices'
  BY <1>5 DEF PersistGivesUp
<1>6. ASSUME NEW w \in Workers, NEW i \in todo[w], RemoveFile(w, i) PROVE Indices'
  <2>1. \A j \in DOMAIN disk' : j \in DOMAIN disk /\ disk'[j] = disk[j]
    BY <1>6 DEF RemoveFile, Without, Restrict
  <2>2. UNCHANGED <<messages, inherited, got, pc, post, sent>>
    BY <1>6 DEF RemoveFile
  <2> HIDE DEF Shape
  <2> QED
    BY <2>1, <2>2
<1>7. ASSUME NEW w \in Workers, OpenFile(w) PROVE Indices'
  BY <1>7 DEF OpenFile, Put
<1>8. ASSUME NEW w \in Workers, OpenFails(w) PROVE Indices'
  BY <1>8 DEF OpenFails
<1>9. ASSUME NEW w \in Workers, WriteFile(w) PROVE Indices'
  <2>1. ASSUME NEW j \in DOMAIN disk', disk'[j] # Partial PROVE Means(j, disk'[j])
    <3>1. cur[w] \in 1 .. Len(messages)
      BY <1>9 DEF WriteFile
    <3> QED
      BY <1>9, <2>1, <3>1 DEF WriteFile, Put
  <2>2. UNCHANGED <<messages, inherited, got, post, sent>>
    BY <1>9 DEF WriteFile
  <2>3. \A v \in Workers : (pc'[v] \in PostSteps <=> pc[v] \in PostSteps)
                          /\ (pc'[v] = "add" <=> pc[v] = "add")
    BY <1>9 DEF WriteFile
  <2> HIDE DEF Shape, PostSteps
  <2> QED
    BY <2>1, <2>2, <2>3
<1>10. ASSUME NEW w \in Workers, EndPersist(w) PROVE Indices'
  BY <1>10 DEF EndPersist
<1>11. ASSUME NEW w \in Workers, Reply(w) PROVE Indices'
  BY <1>11 DEF Reply
<1>12. ASSUME NEW w \in Workers, GetMessages(w) PROVE Indices'
  BY <1>12 DEF GetMessages
<1>13. ASSUME NEW w \in Workers, TakeScanLock(w) PROVE Indices'
  BY <1>13 DEF TakeScanLock
<1>14. ASSUME NEW w \in Workers, NEW i \in todo[w], ReadFile(w, i) PROVE Indices'
  BY <1>14 DEF ReadFile
<1>15. ASSUME NEW w \in Workers, FinishGet(w) PROVE Indices'
  BY <1>15 DEF FinishGet
<1>16. CASE CrashRestart
  <2>1. Len(messages') = 0
    BY <1>16 DEF CrashRestart
  <2>2. \A i, p : Means(i, p)' <=> i \in DOMAIN disk /\ disk[i] = p
    BY <1>16, <2>1 DEF CrashRestart
  <2>3. \A i \in Nat, p \in Posts : Means(i, p)' => Means(i, p)
    <3>1. \A i \in DOMAIN disk : disk[i] # Partial => Means(i, disk[i])
      OBVIOUS
    <3> HIDE DEF Means
    <3> QED
      BY <2>2, <3>1
  <2>4. \A i, j \in Nat, p \in Posts : Means(i, p) /\ Means(j, p) => i = j
    OBVIOUS
  <2>5. \A i \in Nat, p \in Posts : Means(i, p) => p \in sent
    OBVIOUS
  <2>6. /\ disk' = disk /\ sent' = sent /\ DOMAIN disk \subseteq Nat
        /\ \A w \in Workers : got'[w] = {} /\ post'[w] = NoPost /\ pc'[w] = "idle"
    BY <1>16 DEF CrashRestart
  <2> HIDE DEF Means
  <2> QED
    BY <2>2, <2>3, <2>4, <2>5, <2>6
<1>17. CASE UNCHANGED vars
  BY <1>17 DEF vars
<1> QED
  BY <1>1, <1>2, <1>3, <1>4, <1>5, <1>6, <1>7, <1>8, <1>9, <1>10, <1>11,
     <1>12, <1>13, <1>14, <1>15, <1>16, <1>17
  DEF Next, Request, PostStep, GetStep

-------------------------------------------------------------------------------
(* An acknowledged message, or one about to be acknowledged, is nowhere in  *)
(* the log behind what the last rewrite covered.                            *)
Acknowledged ==
  /\ answered \subseteq sent
  /\ \A w \in Workers : post[w] \notin answered
  /\ \A i \in 1 .. Len(messages) : messages[i] \in answered => i <= saved
  /\ \A w \in Workers, i \in 1 .. Len(messages) :
       pc[w] = "reply" /\ messages[i] = post[w] => i <= saved

LEMMA AcknowledgedInit == Init => Acknowledged
  BY NoPostIsNoPost DEF Init, Acknowledged

LEMMA AcknowledgedNext == Shape /\ Indices /\ Acknowledged /\ [Next]_vars => Acknowledged'
<1> SUFFICES ASSUME Shape, Indices, Acknowledged, [Next]_vars PROVE Acknowledged'
  OBVIOUS
<1> USE DEF Acknowledged, Indices, Means,
            Shape, LockIsPc, CarriesPost, LoopBounds,
            TypeOK, PostSteps, GetSteps, Files, Goto, Fault, NoFault, store, history
<1>1. ASSUME NEW w \in Workers, RefusePost(w) PROVE Acknowledged'
  BY <1>1 DEF RefusePost, EnsureDirectory
<1>2. ASSUME NEW w \in Workers, NEW p \in Posts, AcceptPost(w, p) PROVE Acknowledged'
  BY <1>2 DEF AcceptPost, EnsureDirectory
<1>3. ASSUME NEW w \in Workers, Add(w) PROVE Acknowledged'
  BY <1>3 DEF Add
<1>4. ASSUME NEW w \in Workers, BeginPersist(w) PROVE Acknowledged'
  BY <1>4 DEF BeginPersist
<1>5. ASSUME NEW w \in Workers, PersistGivesUp(w) PROVE Acknowledged'
  BY <1>5 DEF PersistGivesUp
<1>6. ASSUME NEW w \in Workers, NEW i \in todo[w], RemoveFile(w, i) PROVE Acknowledged'
  BY <1>6 DEF RemoveFile
<1>7. ASSUME NEW w \in Workers, OpenFile(w) PROVE Acknowledged'
  BY <1>7 DEF OpenFile
<1>8. ASSUME NEW w \in Workers, OpenFails(w) PROVE Acknowledged'
  BY <1>8 DEF OpenFails
<1>9. ASSUME NEW w \in Workers, WriteFile(w) PROVE Acknowledged'
  BY <1>9 DEF WriteFile
<1>10. ASSUME NEW w \in Workers, EndPersist(w) PROVE Acknowledged'
  BY <1>10 DEF EndPersist
<1>11. ASSUME NEW w \in Workers, Reply(w) PROVE Acknowledged'
  BY <1>11 DEF Reply
<1>12. ASSUME NEW w \in Workers, GetMessages(w) PROVE Acknowledged'
  BY <1>12 DEF GetMessages
<1>13. ASSUME NEW w \in Workers, TakeScanLock(w) PROVE Acknowledged'
  BY <1>13 DEF TakeScanLock
<1>14. ASSUME NEW w \in Workers, NEW i \in todo[w], ReadFile(w, i) PROVE Acknowledged'
  BY <1>14 DEF ReadFile
<1>15. ASSUME NEW w \in Workers, FinishGet(w) PROVE Acknowledged'
  BY <1>15 DEF FinishGet
<1>16. CASE CrashRestart
  BY <1>16 DEF CrashRestart
<1>17. CASE UNCHANGED vars
  BY <1>17 DEF vars
<1> QED
  BY <1>1, <1>2, <1>3, <1>4, <1>5, <1>6, <1>7, <1>8, <1>9, <1>10, <1>11,
     <1>12, <1>13, <1>14, <1>15, <1>16, <1>17
  DEF Next, Request, PostStep, GetStep

-------------------------------------------------------------------------------
(* The documented properties of every reachable state follow. *)

LEMMA StoredFromIndices ==
  Shape /\ Directory /\ Acknowledged => AnsweredStored
<1> SUFFICES ASSUME Shape, Directory, Acknowledged, lock = NoOne, failed = 0,
                    NEW p \in answered \cap Range(messages)
             PROVE  p \in Range(disk)
  BY DEF AnsweredStored
<1>1. PICK i \in 1 .. Len(messages) : messages[i] = p
  BY DEF Range, Shape, TypeOK
<1>2. i <= saved /\ saved \in Nat
  BY <1>1 DEF Acknowledged, Shape, TypeOK
<1>3. i \in DOMAIN disk /\ disk[i] = p
  BY <1>1, <1>2 DEF Directory, DirectoryIsLog
<1> QED
  BY <1>3 DEF Range

(* An undisturbed GET has found, or will find in a file it still has to     *)
(* read, all it was asked for.                                              *)
Quiet ==
  \A w \in quiet :
    /\ lock = NoOne
    /\ pc[w] \in GetSteps =>
         \A p \in asked[w] :
           \/ \E a \in got[w] : a[2] = p
           \/ \E i \in todo[w] : i \in DOMAIN disk /\ disk[i] = p

LEMMA QuietInit == Init => Quiet
  BY DEF Init, Quiet

LEMMA QuietNext == Shape /\ AnsweredStored /\ Quiet /\ [Next]_vars => Quiet'
<1> SUFFICES ASSUME Shape, AnsweredStored, Quiet, [Next]_vars PROVE Quiet'
  OBVIOUS
<1> USE DEF Quiet,
            Shape, LockIsPc, CarriesPost, LoopBounds,
            TypeOK, PostSteps, GetSteps, Files, Goto, Fault, NoFault, store, history
<1>1. ASSUME NEW w \in Workers, RefusePost(w) PROVE Quiet'
  BY <1>1 DEF RefusePost, EnsureDirectory
<1>2. ASSUME NEW w \in Workers, NEW p \in Posts, AcceptPost(w, p) PROVE Quiet'
  BY <1>2 DEF AcceptPost, EnsureDirectory
<1>3. ASSUME NEW w \in Workers, Add(w) PROVE Quiet'
  <2>1. UNCHANGED <<lock, quiet, asked, got, todo, disk>>
    BY <1>3 DEF Add
  <2>2. ASSUME NEW v \in Workers, pc'[v] \in GetSteps PROVE pc[v] \in GetSteps
    BY <1>3, <2>2 DEF Add
  <2>3. quiet \subseteq Workers
    OBVIOUS
  <2> HIDE DEF Shape
  <2> QED
    BY <2>1, <2>2, <2>3
<1>4. ASSUME NEW w \in Workers, BeginPersist(w) PROVE Quiet'
  BY <1>4 DEF BeginPersist
<1>5. ASSUME NEW w \in Workers, PersistGivesUp(w) PROVE Quiet'
  BY <1>5 DEF PersistGivesUp
<1>6. ASSUME NEW w \in Workers, NEW i \in todo[w], RemoveFile(w, i) PROVE Quiet'
  BY <1>6 DEF RemoveFile
<1>7. ASSUME NEW w \in Workers, OpenFile(w) PROVE Quiet'
  BY <1>7 DEF OpenFile
<1>8. ASSUME NEW w \in Workers, OpenFails(w) PROVE Quiet'
  BY <1>8 DEF OpenFails
<1>9. ASSUME NEW w \in Workers, WriteFile(w) PROVE Quiet'
  BY <1>9 DEF WriteFile
<1>10. ASSUME NEW w \in Workers, EndPersist(w) PROVE Quiet'
  BY <1>10 DEF EndPersist
<1>11. ASSUME NEW w \in Workers, Reply(w) PROVE Quiet'
  <2>1. /\ UNCHANGED <<quiet, lock, got, asked, todo, disk>>
        /\ \A v \in Workers : pc'[v] \in GetSteps => pc[v] \in GetSteps
    BY <1>11 DEF Reply
  <2>2. quiet \subseteq Workers
    OBVIOUS
  <2> HIDE DEF Shape, GetSteps
  <2> QED
    BY <2>1, <2>2
<1>12. ASSUME NEW w \in Workers, GetMessages(w) PROVE Quiet'
  <2>1. /\ UNCHANGED <<lock, disk>>
        /\ \A v \in Workers \ {w} :
             /\ v \in quiet' => v \in quiet
             /\ pc'[v] = pc[v] /\ asked'[v] = asked[v]
             /\ got'[v] = got[v] /\ todo'[v] = todo[v]
    BY <1>12 DEF GetMessages
  <2>2. /\ asked'[w] = answered \cap Range(messages) /\ todo'[w] = DOMAIN disk
        /\ w \in quiet' => lock = NoOne /\ failed = 0
    BY <1>12 DEF GetMessages
  <2>3. w \in quiet' => \A p \in asked'[w] : \E i \in DOMAIN disk : disk[i] = p
    <3> HIDE DEF Shape
    <3> QED
      BY <2>2 DEF AnsweredStored, Range
  <2>4. quiet' \subseteq Workers
    BY <1>12 DEF GetMessages
  <2> HIDE DEF Shape, GetSteps
  <2> QED
    BY <2>1, <2>2, <2>3, <2>4
<1>13. ASSUME NEW w \in Workers, TakeScanLock(w) PROVE Quiet'
  BY <1>13 DEF TakeScanLock
<1>14. ASSUME NEW w \in Workers, NEW i \in todo[w], ReadFile(w, i) PROVE Quiet'
  <2>1. /\ UNCHANGED <<quiet, lock, disk, pc, asked>>
        /\ \A v \in Workers \ {w} : got'[v] = got[v] /\ todo'[v] = todo[v]
    BY <1>14 DEF ReadFile
  <2>2. /\ \A a \in got[w] : a \in got'[w]
        /\ todo'[w] = todo[w] \ {i}
        /\ i \in DOMAIN disk /\ disk[i] # Partial => <<i, disk[i]>> \in got'[w]
    BY <1>14 DEF ReadFile
  <2>3. quiet \subseteq Workers /\ \A v \in Workers : asked[v] \subseteq Posts
    OBVIOUS
  <2> HIDE DEF Shape, GetSteps
  <2> SUFFICES ASSUME NEW v \in quiet, pc[v] \in GetSteps, NEW p \in asked[v]
               PROVE  \/ \E a \in got'[v] : a[2] = p
                      \/ \E j \in todo'[v] : j \in DOMAIN disk /\ disk[j] = p
    BY <2>1
  <2>4. \/ \E a \in got[v] : a[2] = p
        \/ \E j \in todo[v] : j \in DOMAIN disk /\ disk[j] = p
    OBVIOUS
  <2>5. CASE v # w
    BY <2>1, <2>3, <2>4, <2>5
  <2>6. CASE v = w
    <3>1. CASE \E a \in got[v] : a[2] = p
      BY <2>2, <2>6, <3>1
    <3>2. CASE \E j \in todo[v] : j \in DOMAIN disk /\ disk[j] = p
      BY <2>2, <2>3, <2>6, <3>2
    <3> QED
      BY <2>4, <3>1, <3>2
  <2> QED
    BY <2>5, <2>6
<1>15. ASSUME NEW w \in Workers, FinishGet(w) PROVE Quiet'
  <2>1. UNCHANGED <<lock, quiet, asked, got, todo, disk>>
    BY <1>15 DEF FinishGet
  <2>2. ASSUME NEW v \in Workers, pc'[v] \in GetSteps PROVE pc[v] \in GetSteps
    BY <1>15, <2>2 DEF FinishGet
  <2>3. quiet \subseteq Workers
    OBVIOUS
  <2> HIDE DEF Shape
  <2> QED
    BY <2>1, <2>2, <2>3
<1>16. CASE CrashRestart
  BY <1>16 DEF CrashRestart
<1>17. CASE UNCHANGED vars
  BY <1>17 DEF vars
<1> QED
  BY <1>1, <1>2, <1>3, <1>4, <1>5, <1>6, <1>7, <1>8, <1>9, <1>10, <1>11,
     <1>12, <1>13, <1>14, <1>15, <1>16, <1>17
  DEF Next, Request, PostStep, GetStep

-------------------------------------------------------------------------------
(* Theorems *)

Inductive == Shape /\ Directory /\ Indices /\ Acknowledged /\ Quiet

LEMMA InductiveInvariant == Spec => []Inductive
<1>1. Init => Inductive
  BY ShapeInit, DirectoryInit, IndicesInit, AcknowledgedInit, QuietInit DEF Inductive
<1>2. Inductive /\ [Next]_vars => Inductive'
  BY ShapeNext, DirectoryNext, IndicesNext, AcknowledgedNext, QuietNext,
     StoredFromIndices DEF Inductive
<1> QED
  BY <1>1, <1>2, PTL DEF Spec

(* Every variable keeps its type; a file is written only from an index of   *)
(* the log (message_store.cc:143) and a reply is given only with a message. *)
THEOREM BoardTypes == Spec => []TypeOK
<1>1. Inductive => TypeOK
  BY DEF Inductive, Shape
<1> QED
  BY <1>1, InductiveInvariant, PTL

(* After a rewrite that met no error the directory is exactly the log, for  *)
(* any number of posters, failures before it and restarts                   *)
(* (MessageStore::persist_to_file under lock_).                             *)
THEOREM BoardDirectoryIsLog == Spec => []DirectoryIsLog
<1>1. Inductive => DirectoryIsLog
  BY DEF Inductive, Directory
<1> QED
  BY <1>1, InductiveInvariant, PTL

(* "Message stored" is true while the latest rewrite met no error, although *)
(* add and persist_to_file take lock_ separately.                           *)
THEOREM BoardAnsweredStored == Spec => []AnsweredStored
<1>1. Inductive => AnsweredStored
  BY StoredFromIndices DEF Inductive
<1> QED
  BY <1>1, InductiveInvariant, PTL

(* A GET never returns a message twice, however many rewrites overlap it.   *)
THEOREM BoardNoRepeats == Spec => []NoRepeats
<1>1. Inductive => NoRepeats
  <2> SUFFICES ASSUME Inductive, NEW w \in Workers, NEW a \in got[w], NEW b \in got[w],
                      a[2] = b[2]
               PROVE  a = b
    BY DEF NoRepeats
  <2>1. got[w] \subseteq Nat \X Posts
    BY DEF Inductive, Shape, TypeOK
  <2>2. Means(a[1], a[2]) /\ Means(b[1], a[2])
    BY DEF Inductive, Indices
  <2>3. a[1] = b[1]
    BY <2>1, <2>2 DEF Inductive, Indices
  <2> QED
    BY <2>1, <2>3
<1> QED
  BY <1>1, InductiveInvariant, PTL

(* A GET that no rewrite overlaps returns every message acknowledged before *)
(* it listed the directory.                                                 *)
THEOREM BoardQuietGetComplete == Spec => []QuietGetComplete
<1>1. Inductive => QuietGetComplete
  <2> SUFFICES ASSUME Inductive, NEW w \in quiet, AllRead(w), NEW p \in asked[w]
               PROVE  p \in Returned(w)
    BY DEF QuietGetComplete
  <2>1. \E a \in got[w] : a[2] = p
    BY DEF Inductive, Quiet, AllRead, GetSteps
  <2> QED
    BY <2>1 DEF Returned
<1> QED
  BY <1>1, InductiveInvariant, PTL

-------------------------------------------------------------------------------
(* The log of MessageLog *)

(* A message stays in the log from add to its reply; a process that has not *)
(* rewritten the directory yet finds none of its messages there.            *)
Written ==
  /\ \A w \in Workers : pc[w] \in {"persist", "rewrite", "write", "reply"} =>
       \E i \in 1 .. Len(messages) : messages[i] = post[w]
  /\ saved = 0 /\ lock = NoOne =>
       \A i \in 1 .. Len(messages), j \in DOMAIN disk : disk[j] # messages[i]

LEMMA WrittenInit == Init => Written
BY DEF Init, Written, NoFiles

(* The steps that neither extend the log nor touch a file, lock_ or saved.  *)
LEMMA WrittenKept ==
  ASSUME Written, UNCHANGED <<messages, lock, disk, saved>>,
         \A w \in Workers :
           pc'[w] \in {"persist", "rewrite", "write", "reply"} =>
             pc[w] \in {"persist", "rewrite", "write", "reply"} /\ post'[w] = post[w]
  PROVE  Written'
BY DEF Written

LEMMA WrittenNext == Inductive /\ Written /\ [Next]_vars => Written'
<1> SUFFICES ASSUME Inductive, Written, [Next]_vars PROVE Written'
  OBVIOUS
<1> DEFINE Steps == {"persist", "rewrite", "write", "reply"}
<1>1. /\ pc \in [Workers -> {"idle"} \cup PostSteps \cup GetSteps] /\ messages \in Seq(Posts)
      /\ post \in [Workers -> Posts \cup {NoPost}]
  BY DEF Inductive, Shape, TypeOK
<1> USE <1>1 DEF Goto, store, history
<1>2. ASSUME NEW w \in Workers, Request(w) \/ GetStep(w) PROVE Written'
  <2>1. UNCHANGED <<messages, lock, disk, saved>>
    BY <1>2
    DEF Request, RefusePost, AcceptPost, GetMessages, GetStep, TakeScanLock, ReadFile, FinishGet
  <2>2. \A v \in Workers : pc'[v] \in Steps => pc[v] \in Steps /\ post'[v] = post[v]
    BY <1>2
    DEF Request, RefusePost, AcceptPost, GetMessages, GetStep, TakeScanLock, ReadFile, FinishGet
  <2> QED
    BY <2>1, <2>2, WrittenKept
<1>3. ASSUME NEW w \in Workers, Add(w) PROVE Written'
  <2>1. /\ pc[w] = "add" /\ pc'[w] = "persist" /\ UNCHANGED <<lock, disk, saved, post>>
        /\ \A v \in Workers \ {w} : pc'[v] = pc[v]
    BY <1>3 DEF Add
  <2>2. /\ Len(messages) \in Nat /\ Len(messages') = Len(messages) + 1
        /\ messages'[Len(messages) + 1] = post[w]
        /\ \A i \in 1 .. Len(messages) : messages'[i] = messages[i]
    BY <1>3 DEF Add
  <2>3. \A j \in DOMAIN disk : disk[j] # post[w]
    <3>1. /\ DOMAIN disk \subseteq Nat /\ post[w] # Partial
          /\ \A j \in DOMAIN disk : disk[j] # Partial => Means(j, disk[j])
          /\ \A j \in Nat : ~Means(j, post[w])
      BY <2>1 DEF Inductive, Shape, TypeOK, CarriesPost, PostSteps, Indices
    <3> QED
      BY <3>1
  <2> HIDE <1>1
  <2> QED
    BY <2>1, <2>2, <2>3 DEF Written
<1>4. ASSUME NEW w \in Workers, BeginPersist(w) PROVE Written'
  BY <1>4 DEF BeginPersist, Written
<1>5. ASSUME NEW w \in Workers, PersistGivesUp(w) \/ EndPersist(w) PROVE Written'
  <2>1. /\ pc[w] \in Steps /\ UNCHANGED <<messages, disk, post>> /\ saved' = Len(messages)
        /\ pc'[w] = "reply" /\ \A v \in Workers \ {w} : pc'[v] = pc[v]
    BY <1>5 DEF PersistGivesUp, EndPersist
  <2>2. saved' # 0
    BY <2>1 DEF Written
  <2> QED
    BY <2>1, <2>2 DEF Written
<1>6. ASSUME NEW w \in Workers, pc[w] \in {"rewrite", "write"}, pc'[w] \in Steps,
             \A v \in Workers \ {w} : pc'[v] = pc[v],
             UNCHANGED <<messages, post, lock>>
      PROVE  Written'
  <2>1. lock' # NoOne
    BY <1>6 DEF Inductive, Shape, LockIsPc
  <2> QED
    BY <1>6, <2>1 DEF Written
<1>7. ASSUME NEW w \in Workers, \/ \E i \in todo[w] : RemoveFile(w, i)
                                \/ OpenFile(w) \/ OpenFails(w) \/ WriteFile(w)
      PROVE  Written'
  <2>1. /\ pc[w] \in {"rewrite", "write"} /\ pc'[w] \in Steps
        /\ \A v \in Workers \ {w} : pc'[v] = pc[v]
        /\ UNCHANGED <<messages, post, lock>>
    BY <1>7 DEF RemoveFile, OpenFile, OpenFails, WriteFile
  <2> QED
    BY <1>6, <2>1
<1>8. ASSUME NEW w \in Workers, Reply(w) PROVE Written'
  <2>1. UNCHANGED <<messages, lock, disk, saved>>
    BY <1>8 DEF Reply
  <2>2. \A v \in Workers : pc'[v] \in Steps => pc[v] \in Steps /\ post'[v] = post[v]
    BY <1>8 DEF Reply
  <2> QED
    BY <2>1, <2>2, WrittenKept
<1>9. CASE CrashRestart
  BY <1>9 DEF CrashRestart, Written
<1>10. CASE UNCHANGED vars
  BY <1>10 DEF vars, Written
<1> QED
  BY <1>2, <1>3, <1>4, <1>5, <1>7, <1>8, <1>9, <1>10 DEF Next, PostStep

(* While the latest rewrite has met no error, what is durable is what the   *)
(* last finished rewrite covered.                                           *)
DurableIsSaved == failed = 0 => DurablePrefix = saved

LEMMA DurablePrefixIsSaved == Inductive /\ Written => DurableIsSaved
<1> SUFFICES ASSUME Inductive, Written, failed = 0, lock = NoOne PROVE DurablePrefix = saved
  BY DEF DurableIsSaved, DurablePrefix
<1>1. messages \in Seq(Posts) /\ saved \in Nat /\ saved <= Len(messages)
  BY DEF Inductive, Shape, TypeOK
<1>2. InFiles(saved)
  BY <1>1 DEF InFiles, Inductive, Directory, DirectoryIsLog
<1>3. saved < Len(messages) => ~InFiles(saved + 1)
  <2>1. CASE saved = 0
    BY <1>1, <2>1 DEF InFiles, Written
  <2>2. CASE saved # 0
    BY <1>1, <2>2 DEF InFiles, Inductive, Directory, DirectoryIsLog
  <2> QED
    BY <2>1, <2>2
<1>4. ASSUME NEW n \in 0 .. Len(messages), InFiles(n), n < Len(messages) => ~InFiles(n + 1)
      PROVE  n = saved
  <2>1. ASSUME NEW k \in Nat, NEW m \in Nat, k <= m, InFiles(m) PROVE InFiles(k)
    BY <2>1 DEF InFiles
  <2>2. n \in Nat /\ Len(messages) \in Nat
    BY <1>1
  <2>3. ~(n < saved)
    BY <1>1, <1>2, <1>4, <2>1, <2>2
  <2>4. ~(saved < n)
    BY <1>1, <1>3, <1>4, <2>1, <2>2
  <2> QED
    BY <1>1, <2>2, <2>3, <2>4
<1>5. saved \in 0 .. Len(messages)
  BY <1>1
<1> DEFINE Right(n) == InFiles(n) /\ (n < Len(messages) => ~InFiles(n + 1))
<1>6. (CHOOSE n \in 0 .. Len(messages) : Right(n)) = saved
  <2>1. Right(saved) /\ \A n \in 0 .. Len(messages) : Right(n) => n = saved
    BY <1>2, <1>3, <1>4
  <2> HIDE DEF Right
  <2> QED
    BY <1>5, <2>1
<1> QED
  BY <1>6 DEF DurablePrefix

LEMMA LogInit == Init => Log!LInit
<1> SUFFICES ASSUME Init PROVE Log!LInit
  OBVIOUS
<1>1. Inductive /\ Written
  BY ShapeInit, DirectoryInit, IndicesInit, AcknowledgedInit, QuietInit, WrittenInit DEF Inductive
<1>2. messages = <<>> /\ saved = 0 /\ answered = {} /\ failed = 0
  BY DEF Init
<1> QED
  BY <1>1, <1>2, DurablePrefixIsSaved DEF DurableIsSaved, Log!LInit

LEMMA LogNext ==
  Inductive /\ Written /\ DurableIsSaved /\ DurableIsSaved' /\ [Next]_vars =>
    [failed = 0 /\ failed' = 0 => Log!LNext]_Log!lvars
<1> SUFFICES ASSUME Inductive, Written, DurableIsSaved, DurableIsSaved', [Next]_vars,
                    failed = 0, failed' = 0
             PROVE  Log!LNext \/ UNCHANGED Log!lvars
  OBVIOUS
<1>1. DurablePrefix = saved /\ DurablePrefix' = saved'
  BY DEF DurableIsSaved
<1> DEFINE Same == UNCHANGED <<messages, answered, saved>>
<1>2. Same => UNCHANGED Log!lvars
  BY <1>1 DEF Log!lvars
<1> USE DEF store, history
<1>3. ASSUME NEW w \in Workers, Request(w) \/ GetStep(w) PROVE Same
  BY <1>3
  DEF Request, RefusePost, AcceptPost, GetMessages, GetStep, TakeScanLock, ReadFile, FinishGet
<1>4. ASSUME NEW w \in Workers, Add(w) PROVE Log!LNext
  <2>1. /\ messages' = Append(messages, post[w]) /\ UNCHANGED <<answered, saved>>
        /\ pc[w] = "add"
    BY <1>4 DEF Add, Goto
  <2>2. post[w] \in Posts /\ post[w] \notin answered /\ messages \in Seq(Posts)
    BY <2>1 DEF Inductive, Shape, TypeOK, CarriesPost, PostSteps, Acknowledged
  <2>3. post[w] \notin Range(messages)
    <3>1. \A i \in Nat : ~Means(i, post[w])
      BY <2>1 DEF Inductive, Indices
    <3>2. DOMAIN messages = 1 .. Len(messages) /\ 1 .. Len(messages) \subseteq Nat
      BY <2>2
    <3> QED
      BY <3>1, <3>2 DEF Means, Range
  <2>4. Log!LAppend(post[w])
    BY <1>1, <2>1, <2>2, <2>3 DEF Log!LAppend, Range, Log!Range
  <2> QED
    BY <2>2, <2>4 DEF Log!LNext
<1>5. ASSUME NEW w \in Workers, BeginPersist(w) PROVE Same
  BY <1>5 DEF BeginPersist
<1>6. ASSUME NEW w \in Workers, PersistGivesUp(w) PROVE FALSE
  BY <1>6 DEF PersistGivesUp
<1>7. ASSUME NEW w \in Workers, NEW i \in todo[w], RemoveFile(w, i) PROVE Same
  BY <1>7 DEF RemoveFile
<1>8. ASSUME NEW w \in Workers, OpenFile(w) \/ OpenFails(w) \/ WriteFile(w) PROVE Same
  BY <1>8 DEF OpenFile, OpenFails, WriteFile
<1>9. ASSUME NEW w \in Workers, EndPersist(w) PROVE Log!LNext
  BY <1>1, <1>9 DEF EndPersist, Log!LStore, Log!LNext
<1>10. ASSUME NEW w \in Workers, Reply(w) PROVE Log!LNext
  <2>1. /\ pc[w] = "reply" /\ answered' = answered \cup {post[w]}
        /\ UNCHANGED <<messages, saved>>
    BY <1>10 DEF Reply, Goto
  <2>2. PICK i \in 1 .. Len(messages) : messages[i] = post[w]
    BY <2>1 DEF Written
  <2>3. i <= saved
    BY <2>1, <2>2 DEF Inductive, Acknowledged
  <2>4. i \in 1 .. saved
    BY <2>3 DEF Inductive, Shape, TypeOK
  <2>5. Log!LAnswer(i)
    BY <1>1, <2>1, <2>2 DEF Log!LAnswer
  <2> QED
    BY <1>1, <2>4, <2>5 DEF Log!LNext
<1>11. CASE CrashRestart
  BY <1>1, <1>11 DEF CrashRestart, Log!LRestart, Log!LNext
<1>12. CASE UNCHANGED vars
  BY <1>2, <1>12 DEF vars
<1> QED
  BY <1>2, <1>3, <1>4, <1>5, <1>6, <1>7, <1>8, <1>9, <1>10, <1>11, <1>12 DEF Next, PostStep

(* The handlers implement the log: racing posts, overlapping rewrites and   *)
(* restarts included, for as long as rewrites meet no error, and again      *)
(* after the first one that meets none.                                     *)
THEOREM BoardImplementsLog == Spec => ImplementsLog
<1>1. Spec => []Written
  BY WrittenInit, WrittenNext, InductiveInvariant, PTL DEF Spec
<1> QED
  BY <1>1, LogInit, LogNext, DurablePrefixIsSaved, InductiveInvariant, PTL DEF Spec, ImplementsLog, Log!LSpec
===============================================================================
