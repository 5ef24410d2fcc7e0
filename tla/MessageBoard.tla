----------------------------- MODULE MessageBoard -----------------------------
(***************************************************************************)
(* The message board: PostMessageHandler and GetMessagesHandler executed   *)
(* by the server's worker threads over the MessageStore singleton and the  *)
(* directory data/messages.                                                *)
(*                                                                         *)
(* A POST appends to the in-memory log (MessageStore::add) and then        *)
(* rewrites the whole directory from the log                               *)
(* (MessageStore::persist_to_file), two separate acquisitions of           *)
(* MessageStore::lock_.  A GET lists the directory without any lock and    *)
(* then reads the listed files one by one under a mutex of its own, which  *)
(* the writers do not take.                                                *)
(*                                                                         *)
(* A message is an element of Posts; every message is posted at most once, *)
(* so two requests with equal text are two elements.  A file that exists   *)
(* but does not hold a whole JSON document yet holds Partial.              *)
(***************************************************************************)
EXTENDS Naturals, Sequences, Functions

CONSTANTS
  Workers,     \* the threads that run handlers (server_main.cc:46)
  Posts,       \* the messages that clients will ever post
  NoOne,       \* "no thread holds the mutex"
  NoPost,      \* what a worker carries that handles no POST
  Partial,     \* content of a file between open (truncate) and close
  MaxFaults,   \* bound on file-system calls that fail
  MaxCrashes   \* bound on process restarts

ASSUME NoOneIsNoWorker == NoOne \notin Workers
ASSUME PartialIsNoPost == Partial \notin Posts
ASSUME NoPostIsNoPost  == NoPost \notin Posts
ASSUME BoundsAreNat    == MaxFaults \in Nat /\ MaxCrashes \in Nat

VARIABLES
  messages,    \* MessageStore::messages_, in memory only
  lock,        \* holder of MessageStore::lock_
  scanLock,    \* holder of GetMessagesHandler::store_mtx_
  dir,         \* "missing" or "present": data/messages
  disk,        \* index -> content, the files <index>.json of data/messages
  pc,          \* where each worker is in its handler
  post,        \* the message a posting worker carries
  todo,        \* indices still to remove (persist_to_file) or to read (GET)
  cur,         \* idx, the loop counter of persist_to_file
  got          \* <<index, message>>, what a GET has parsed so far

(* History variables: they are read by properties and bounds only. *)
VARIABLES
  sent,        \* the messages whose POST has been accepted
  answered,    \* the messages whose client was told 201 "Message stored"
  saved,       \* how many messages the last finished persist_to_file covered
  inherited,   \* the directory as this process found it when it started
  asked,       \* the acknowledged messages when a GET listed the directory
  quiet,       \* the workers whose GET no persist_to_file has overlapped
  failed,      \* how many file operations of the latest persist_to_file failed
  faults, crashes

store   == <<messages, lock, disk>>
history == <<sent, answered, saved, inherited, asked, quiet, failed, faults, crashes>>
vars    == <<messages, lock, scanLock, dir, disk, pc, post, todo, cur, got,
             sent, answered, saved, inherited, asked, quiet, failed, faults, crashes>>

PostSteps == {"add", "persist", "rewrite", "write", "reply"}
GetSteps  == {"wait", "scan"}

Files == Posts \cup {Partial}

(* The files after index i has been (over)written with v. *)
Put(f, i, v) == [j \in DOMAIN f \cup {i} |-> IF j = i THEN v ELSE f[j]]

(* The files after index i has been removed. *)
Without(f, i) == Restrict(f, DOMAIN f \ {i})

NoFiles == [i \in {} |-> Partial]

Goto(w, from, to) == pc[w] = from /\ pc' = [pc EXCEPT ![w] = to]

(* A file-system call fails where the bound still allows it. *)
Fault == faults < MaxFaults /\ faults' = faults + 1
NoFault == faults' = faults

-------------------------------------------------------------------------------
(* Initially the process has just started on an empty disk. *)
Init ==
  /\ messages = <<>>
  /\ lock = NoOne
  /\ scanLock = NoOne
  /\ dir = "missing"
  /\ disk = NoFiles
  /\ pc = [w \in Workers |-> "idle"]
  /\ post = [w \in Workers |-> NoPost]
  /\ todo = [w \in Workers |-> {}]
  /\ cur = [w \in Workers |-> 1]
  /\ got = [w \in Workers |-> {}]
  /\ sent = {}
  /\ answered = {}
  /\ saved = 0
  /\ inherited = NoFiles
  /\ asked = [w \in Workers |-> {}]
  /\ quiet = {}
  /\ failed = 0
  /\ faults = 0
  /\ crashes = 0

-------------------------------------------------------------------------------
(* Seeded bugs: each takes the place of the action it is named after, to    *)
(* show that a property notices it.                                        *)

(* persist_to_file does not take lock_. *)
BeginPersistUnlocked(w) ==
  /\ Goto(w, "persist", "rewrite")
  /\ lock' = w
  /\ dir' = "present"
  /\ todo' = [todo EXCEPT ![w] = DOMAIN disk]
  /\ cur' = [cur EXCEPT ![w] = 1]
  /\ quiet' = {}
  /\ failed' = 0
  /\ UNCHANGED <<messages, scanLock, disk, post, got>>
  /\ UNCHANGED <<sent, answered, saved, inherited, asked, faults, crashes>>

(* The handler answers after add and leaves the files to a later POST. *)
AddOnly(w) ==
  /\ Goto(w, "add", "reply")
  /\ lock = NoOne
  /\ messages' = Append(messages, post[w])
  /\ UNCHANGED <<lock, scanLock, dir, disk, post, todo, cur, got, history>>

(* The newest message is put first. *)
AddInFront(w) ==
  /\ Goto(w, "add", "persist")
  /\ lock = NoOne
  /\ messages' = <<post[w]>> \o messages
  /\ UNCHANGED <<lock, scanLock, dir, disk, post, todo, cur, got, history>>

(* The writing loop stops one message early. *)
EndPersistEarly(w) ==
  /\ Goto(w, "rewrite", "reply")
  /\ todo[w] = {}
  /\ cur[w] >= Len(messages)
  /\ lock' = NoOne
  /\ saved' = Len(messages)
  /\ UNCHANGED <<messages, scanLock, dir, disk, post, todo, cur, got>>
  /\ UNCHANGED <<sent, answered, inherited, asked, quiet, failed, faults, crashes>>

(* lock_ is not released. *)
EndPersistLocked(w) ==
  /\ Goto(w, "rewrite", "reply")
  /\ todo[w] = {}
  /\ cur[w] > Len(messages)
  /\ saved' = Len(messages)
  /\ UNCHANGED <<messages, lock, scanLock, dir, disk, post, todo, cur, got>>
  /\ UNCHANGED <<sent, answered, inherited, asked, quiet, failed, faults, crashes>>

(* A file that does not parse is returned like any other. *)
ReadUnparsed(w, i) ==
  /\ pc[w] = "scan"
  /\ i \in todo[w]
  /\ \A j \in todo[w] : i <= j
  /\ todo' = [todo EXCEPT ![w] = @ \ {i}]
  /\ got' = IF i \in DOMAIN disk
              THEN [got EXCEPT ![w] = @ \cup {<<i, disk[i]>>}]
              ELSE got
  /\ UNCHANGED <<store, scanLock, dir, pc, post, cur, history>>

-------------------------------------------------------------------------------
(* PostMessageHandler *)

(* The constructor, run by the factory for every request, creates the      *)
(* directory and ignores a failure.                                        *)
EnsureDirectory ==
  \/ dir' = "present" /\ NoFault
  \/ dir = "missing" /\ dir' = dir /\ Fault

(* A request refused with 405, 401 or 400: the handler returns before it   *)
(* touches the store, but its constructor has run.                         *)
RefusePost(w) ==
  /\ pc[w] = "idle"
  /\ EnsureDirectory
  /\ UNCHANGED <<store, scanLock, pc, post, todo, cur, got>>
  /\ UNCHANGED <<sent, answered, saved, inherited, asked, quiet, failed, crashes>>

(* A POST with an authenticated user and content: on to MessageStore::add. *)
AcceptPost(w, p) ==
  /\ Goto(w, "idle", "add")
  /\ p \notin sent
  /\ sent' = sent \cup {p}
  /\ post' = [post EXCEPT ![w] = p]
  /\ EnsureDirectory
  /\ UNCHANGED <<store, scanLock, todo, cur, got>>
  /\ UNCHANGED <<answered, saved, inherited, asked, quiet, failed, crashes>>

(* MessageStore::add: lock, push_back, unlock. *)
Add(w) ==
  /\ Goto(w, "add", "persist")
  /\ lock = NoOne
  /\ messages' = Append(messages, post[w])
  /\ UNCHANGED <<lock, scanLock, dir, disk, post, todo, cur, got, history>>

(* MessageStore::persist_to_file up to the directory listing: it takes     *)
(* lock_, which the call then holds to its end.  No GET in progress is     *)
(* quiet any more.                                                         *)
BeginPersist(w) ==
  /\ Goto(w, "persist", "rewrite")
  /\ lock = NoOne
  /\ lock' = w
  /\ dir' = "present"
  /\ todo' = [todo EXCEPT ![w] = DOMAIN disk]
  /\ cur' = [cur EXCEPT ![w] = 1]
  /\ quiet' = {}
  /\ failed' = 0
  /\ UNCHANGED <<messages, scanLock, disk, post, got>>
  /\ UNCHANGED <<sent, answered, saved, inherited, asked, faults, crashes>>

(* The directory is missing and cannot be created: persist_to_file returns *)
(* without a word to its caller, which answers as usual.                   *)
PersistGivesUp(w) ==
  /\ Goto(w, "persist", "reply")
  /\ lock = NoOne
  /\ dir = "missing"
  /\ Fault
  /\ saved' = Len(messages)
  /\ failed' = 1
  /\ UNCHANGED <<store, scanLock, dir, post, todo, cur, got>>
  /\ UNCHANGED <<sent, answered, inherited, asked, quiet, crashes>>

(* One turn of the removal loop; directory order is not specified, and the *)
(* error code of fs::remove is dropped.                                    *)
RemoveFile(w, i) ==
  /\ pc[w] = "rewrite"
  /\ i \in todo[w]
  /\ todo' = [todo EXCEPT ![w] = @ \ {i}]
  /\ \/ disk' = Without(disk, i) /\ NoFault /\ failed' = failed
     \/ disk' = disk /\ Fault /\ failed' = failed + 1
  /\ UNCHANGED <<messages, lock, scanLock, dir, pc, post, cur, got>>
  /\ UNCHANGED <<sent, answered, saved, inherited, asked, quiet, crashes>>

(* The writing loop: opening <idx>.json creates or truncates it. *)
OpenFile(w) ==
  /\ Goto(w, "rewrite", "write")
  /\ todo[w] = {}
  /\ cur[w] <= Len(messages)
  /\ disk' = Put(disk, cur[w], Partial)
  /\ UNCHANGED <<messages, lock, scanLock, dir, post, todo, cur, got, history>>

(* The file cannot be opened: the loop skips this message. *)
OpenFails(w) ==
  /\ pc[w] = "rewrite"
  /\ todo[w] = {}
  /\ cur[w] <= Len(messages)
  /\ Fault
  /\ failed' = failed + 1
  /\ cur' = [cur EXCEPT ![w] = @ + 1]
  /\ UNCHANGED <<store, scanLock, dir, pc, post, todo, got>>
  /\ UNCHANGED <<sent, answered, saved, inherited, asked, quiet, crashes>>

(* write_json and close; a write that fails when the stream is closed (a   *)
(* full disk) is not noticed and leaves the file as it is.  (One that fails *)
(* earlier makes write_json throw, which ends the process: CrashRestart.)  *)
WriteFile(w) ==
  /\ Goto(w, "write", "rewrite")
  /\ \/ /\ disk' = Put(disk, cur[w], messages[cur[w]])
        /\ NoFault /\ failed' = failed
     \/ disk' = disk /\ Fault /\ failed' = failed + 1
  /\ cur' = [cur EXCEPT ![w] = @ + 1]
  /\ UNCHANGED <<messages, lock, scanLock, dir, post, todo, got>>
  /\ UNCHANGED <<sent, answered, saved, inherited, asked, quiet, crashes>>

(* The end of persist_to_file: lock_ is released. *)
EndPersist(w) ==
  /\ Goto(w, "rewrite", "reply")
  /\ todo[w] = {}
  /\ cur[w] > Len(messages)
  /\ lock' = NoOne
  /\ saved' = Len(messages)
  /\ UNCHANGED <<messages, scanLock, dir, disk, post, todo, cur, got>>
  /\ UNCHANGED <<sent, answered, inherited, asked, quiet, failed, faults, crashes>>

(* 201 "Message stored". *)
Reply(w) ==
  /\ Goto(w, "reply", "idle")
  /\ answered' = answered \cup {post[w]}
  /\ post' = [post EXCEPT ![w] = NoPost]
  /\ UNCHANGED <<store, scanLock, dir, todo, cur, got>>
  /\ UNCHANGED <<sent, saved, inherited, asked, quiet, failed, faults, crashes>>

-------------------------------------------------------------------------------
(* GetMessagesHandler *)

(* DiskFileStore::read_directory, before store_mtx_ is taken; a missing    *)
(* directory is answered with 500 and leaves no trace.  The GET is quiet   *)
(* as long as no persist_to_file is under way and the last one went well.  *)
GetMessages(w) ==
  /\ Goto(w, "idle", "wait")
  /\ dir = "present"
  /\ todo' = [todo EXCEPT ![w] = DOMAIN disk]
  /\ got' = [got EXCEPT ![w] = {}]
  /\ asked' = [asked EXCEPT ![w] = answered \cap Range(messages)]
  /\ quiet' = IF lock = NoOne /\ failed = 0 THEN quiet \cup {w} ELSE quiet \ {w}
  /\ UNCHANGED <<store, scanLock, dir, post, cur>>
  /\ UNCHANGED <<sent, answered, saved, inherited, failed, faults, crashes>>

TakeScanLock(w) ==
  /\ Goto(w, "wait", "scan")
  /\ scanLock = NoOne
  /\ scanLock' = w
  /\ UNCHANGED <<store, dir, post, todo, cur, got, history>>

(* One turn of the reading loop, in ascending order (read_directory sorts):*)
(* <id>, which is never there, then <id>.json; a file that is gone or does *)
(* not parse is skipped.                                                   *)
ReadFile(w, i) ==
  /\ pc[w] = "scan"
  /\ i \in todo[w]
  /\ \A j \in todo[w] : i <= j
  /\ todo' = [todo EXCEPT ![w] = @ \ {i}]
  /\ got' = IF i \in DOMAIN disk /\ disk[i] # Partial
              THEN [got EXCEPT ![w] = @ \cup {<<i, disk[i]>>}]
              ELSE got
  /\ UNCHANGED <<store, scanLock, dir, pc, post, cur, history>>

(* All files read: unlock, sort by time stamp, 200. *)
FinishGet(w) ==
  /\ Goto(w, "scan", "idle")
  /\ todo[w] = {}
  /\ scanLock' = NoOne
  /\ UNCHANGED <<store, dir, post, todo, cur, got, history>>

-------------------------------------------------------------------------------
(* The process stops anywhere and is started again.  The directory stays;  *)
(* the log starts empty, because nothing in the server calls               *)
(* MessageStore::load_from_file.                                           *)
CrashRestart ==
  /\ crashes < MaxCrashes
  /\ crashes' = crashes + 1
  /\ messages' = <<>>
  /\ lock' = NoOne
  /\ scanLock' = NoOne
  /\ pc' = [w \in Workers |-> "idle"]
  /\ post' = [w \in Workers |-> NoPost]
  /\ todo' = [w \in Workers |-> {}]
  /\ cur' = [w \in Workers |-> 1]
  /\ got' = [w \in Workers |-> {}]
  /\ saved' = 0
  /\ inherited' = disk
  /\ quiet' = {}
  /\ failed' = 0
  /\ UNCHANGED <<dir, disk, sent, answered, asked, faults>>

-------------------------------------------------------------------------------
PostStep(w) ==
  \/ Add(w) \/ BeginPersist(w) \/ PersistGivesUp(w)
  \/ \E i \in todo[w] : RemoveFile(w, i)
  \/ OpenFile(w) \/ OpenFails(w) \/ WriteFile(w) \/ EndPersist(w) \/ Reply(w)

GetStep(w) ==
  \/ TakeScanLock(w)
  \/ \E i \in todo[w] : ReadFile(w, i)
  \/ FinishGet(w)

Request(w) ==
  \/ RefusePost(w) \/ GetMessages(w)
  \/ \E p \in Posts : AcceptPost(w, p)

Next ==
  \/ \E w \in Workers : Request(w) \/ PostStep(w) \/ GetStep(w)
  \/ CrashRestart

Spec == Init /\ [][Next]_vars

(* A worker thread that can go on does go on; requests need not arrive.    *)
FairSpec == Spec /\ \A w \in Workers : WF_vars(PostStep(w))

-------------------------------------------------------------------------------
(* Properties *)

(* Every variable keeps its type. *)
TypeOK ==
  /\ messages \in Seq(Posts)
  /\ lock \in Workers \cup {NoOne}
  /\ scanLock \in Workers \cup {NoOne}
  /\ dir \in {"missing", "present"}
  /\ DOMAIN disk \subseteq Nat /\ \A i \in DOMAIN disk : disk[i] \in Files
  /\ pc \in [Workers -> {"idle"} \cup PostSteps \cup GetSteps]
  /\ post \in [Workers -> Posts \cup {NoPost}]
  /\ todo \in [Workers -> SUBSET Nat]
  /\ cur \in [Workers -> Nat]
  /\ got \in [Workers -> SUBSET (Nat \X Posts)]
  /\ sent \subseteq Posts
  /\ answered \subseteq Posts
  /\ saved \in Nat
  /\ DOMAIN inherited \subseteq Nat
  /\ asked \in [Workers -> SUBSET Posts]
  /\ quiet \subseteq Workers
  /\ failed \in Nat
  /\ faults \in Nat
  /\ crashes \in Nat

(* A GET has read every file it listed and is about to answer. *)
AllRead(w) == pc[w] = "scan" /\ todo[w] = {}

Returned(w) == {a[2] : a \in got[w]}

(* When no persist_to_file is running and none of the file operations of   *)
(* the latest one failed, the directory holds exactly the first `saved`    *)
(* messages, each whole and under its own index: posts that race do not    *)
(* mix their rewrites, nothing of an earlier process or of an earlier      *)
(* failed rewrite is left over, and a rewrite without an error heals what  *)
(* went wrong before it.                                                   *)
DirectoryIsLog ==
  lock = NoOne /\ saved > 0 /\ failed = 0 =>
    /\ DOMAIN disk = 1 .. saved
    /\ \A i \in 1 .. saved : disk[i] = messages[i]

(* 201 "Message stored" is true: while nobody rewrites the directory and   *)
(* the latest rewrite met no error, every message this process has         *)
(* acknowledged is in a file, whoever's rewrite put it there.              *)
AnsweredStored ==
  lock = NoOne /\ failed = 0 => answered \cap Range(messages) \subseteq Range(disk)

(* A GET that overlaps any number of rewrites may miss messages but never  *)
(* returns the same one twice: an index never changes its meaning while    *)
(* the process runs.                                                       *)
NoRepeats ==
  \A w \in Workers : \A a, b \in got[w] : a[2] = b[2] => a = b

(* A GET that no persist_to_file overlaps returns every message that had   *)
(* been acknowledged when it listed the directory, although it holds none  *)
(* of the writers' locks.                                                  *)
QuietGetComplete ==
  \A w \in quiet : AllRead(w) => asked[w] \subseteq Returned(w)

(* The length of the prefix of the log that a scan of the directory would  *)
(* find in files; while a rewrite is under way, what it was before it.     *)
InFiles(n) == \A i \in 1 .. n : i \in DOMAIN disk /\ disk[i] = messages[i]

DurablePrefix ==
  IF lock # NoOne THEN saved
  ELSE CHOOSE n \in 0 .. Len(messages) :
         InFiles(n) /\ (n < Len(messages) => ~InFiles(n + 1))

(* The handlers implement the log of MessageLog, whose promise covers the  *)
(* steps at which the latest rewrite has met no error: a whole rewrite     *)
(* makes the log durable at its end and a 201 is for a message that is in  *)
(* the durable prefix by then.                                             *)
Log == INSTANCE MessageLog WITH log <- messages, durable <- DurablePrefix
ImplementsLog == Log!LSpec

(* Every accepted POST is answered in the end: two acquisitions of lock_   *)
(* and a rewrite whose length other posts extend do not starve or block a  *)
(* worker for ever, given the finitely many posts there are.               *)
PostsEnd ==
  \A w \in Workers : pc[w] \in PostSteps ~> pc[w] = "idle"

-------------------------------------------------------------------------------
(* What the documentation or a test says and the code does not do.         *)

(* "loads and persists messages": the acknowledged messages that a process  *)
(* found in the directory when it started are still there after a rewrite  *)
(* of its own that has met no error.                                       *)
AnsweredSurvive ==
  lock = NoOne /\ failed = 0 => answered \cap Range(inherited) \subseteq Range(disk)
===============================================================================
