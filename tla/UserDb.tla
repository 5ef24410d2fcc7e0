-------------------------------- MODULE UserDb --------------------------------
(***************************************************************************)
(* The accounts: RegisterHandler and LoginHandler over data/users.json,    *)
(* executed by several worker threads without any mutual exclusion.        *)
(*                                                                         *)
(* A registration reads the file twice, to look for the name and to load   *)
(* what is there, then truncates it, writes everything back when the       *)
(* stream is closed, and only then builds its response.  The file          *)
(* is never removed, so all its writers share it: one that is longer than  *)
(* what is written over it leaves a tail, which RegisterHandler's reader   *)
(* (operator>>) ignores and LoginHandler's (json::parse) rejects.          *)
(*                                                                         *)
(* The text is taken to fit the stream's buffer, so that it reaches the    *)
(* file in one piece, at the close.                                        *)
(***************************************************************************)
EXTENDS Naturals, Functions

CONSTANTS
  Workers, Names, Passwords,
  NoName,        \* the name of a worker that handles no request
  MaxFaults,     \* bound on file operations that fail
  MaxCrashes     \* bound on process restarts

ASSUME NoNameOK == NoName \notin Names
ASSUME LimitsOK == MaxFaults \in Nat /\ MaxCrashes \in Nat

VARIABLES
  state,       \* of the file: "empty", "clean" or with a "tail"
  accounts,    \* name -> password, the JSON object at its beginning
  pc, name, password,   \* a worker and its request
  users,       \* the object save_user has loaded
  status       \* status code of the last response of each worker

(* History variables. *)
VARIABLES
  written,     \* {<<name, password>>} of the registrations whose write took effect
  registered,  \* {<<name, password>>} of the registrations answered 200
  found,       \* the accounts in the file when a registration's look-up succeeded
  disturbed,   \* the registrations that have overlapped another one, could not
               \* read the file or lost their write
  causes,      \* what has befallen the file so far: "race" (two registrations
               \* overlapped), "unread", "lost" (a read, a write failed), "crash"
  faults, crashes

file    == <<state, accounts>>
request == <<name, password>>
past    == <<written, registered>>
history == <<written, registered, found, disturbed, causes, faults, crashes>>
vars    == <<file, pc, name, password, users, status, history>>

Saving == {"load", "open", "write"}

Nobody == [n \in {} |-> n]

Put(f, n, v) == [m \in DOMAIN f \cup {n} |-> IF m = n THEN v ELSE f[m]]

Pairs(f) == {<<n, f[n]>> : n \in DOMAIN f}

(* The name and the password that w registers, or logs in with. *)
Account(w) == <<name[w], password[w]>>

(* Somebody has truncated the file and not written it yet. *)
Writing == \E w \in Workers : pc[w] = "write"

OtherSavers(w) == {v \in Workers \ {w} : pc[v] \in Saving}

Goto(w, from, to) == pc[w] = from /\ pc' = [pc EXCEPT ![w] = to]

(* The response; the request is forgotten. *)
Respond(w, from, code) ==
  /\ Goto(w, from, "idle")
  /\ status' = [status EXCEPT ![w] = code]
  /\ users' = [users EXCEPT ![w] = Nobody]
  /\ found' = [found EXCEPT ![w] = Nobody]
  /\ disturbed' = disturbed \ {w}

Fault == faults < MaxFaults /\ faults' = faults + 1

Init ==
  /\ state = "clean" /\ accounts = Nobody
  /\ pc = [w \in Workers |-> "idle"]
  /\ name = [w \in Workers |-> NoName]
  /\ password \in {[w \in Workers |-> p] : p \in Passwords}
  /\ users = [w \in Workers |-> Nobody]
  /\ status = [w \in Workers |-> 0]
  /\ written = {} /\ registered = {}
  /\ found = [w \in Workers |-> Nobody] /\ disturbed = {}
  /\ causes = {} /\ faults = 0 /\ crashes = 0

-------------------------------------------------------------------------------
(* Seeded bugs: each takes the place of the action it is named after, to    *)
(* show that a property notices it.                                        *)

(* Passwords are compared with whatever account was asked for last. *)
LoginByName(w) ==
  /\ Respond(w, "login", IF state = "clean" /\ name[w] \in DOMAIN accounts THEN 200 ELSE 401)
  /\ UNCHANGED <<file, request, past, causes, faults, crashes>>

(* The new account takes the place of all others. *)
LoadNothing(w) ==
  /\ Goto(w, "load", "open")
  /\ users' = [users EXCEPT ![w] = Put(Nobody, name[w], password[w])]
  /\ UNCHANGED <<file, request, status, history>>

(* The output stream is opened before the file is read. *)
OpenBeforeLoad(w) ==
  /\ Goto(w, "load", "open")
  /\ users' = [users EXCEPT ![w] = Put(accounts, name[w], password[w])]
  /\ state' = "empty" /\ accounts' = Nobody
  /\ UNCHANGED <<request, status, history>>

(* username_exists takes a file that does not parse for one without names.  *)
CheckUnparsed(w) ==
  /\ Goto(w, "check", "load")
  /\ state = "empty" \/ name[w] \notin DOMAIN accounts
  /\ found' = [found EXCEPT ![w] = accounts]
  /\ disturbed' = IF OtherSavers(w) = {} THEN disturbed \ {w}
                  ELSE disturbed \cup OtherSavers(w) \cup {w}
  /\ causes' = IF OtherSavers(w) = {} THEN causes ELSE causes \cup {"race"}
  /\ UNCHANGED <<file, request, users, status, past, faults, crashes>>

(* A body without a name is not refused. *)
AskUnchecked(w, n, p) ==
  /\ Goto(w, "idle", "check")
  /\ name' \in {[name EXCEPT ![w] = m] : m \in {n, NoName}}
  /\ password' = [password EXCEPT ![w] = p]
  /\ status' = [status EXCEPT ![w] = 0]
  /\ UNCHANGED <<file, users, history>>

-------------------------------------------------------------------------------
(* RegisterHandler::handle_request; a method other than POST (405) and a    *)
(* body without the two strings (400) have no effect.                      *)

AskRegister(w, n, p) ==
  /\ Goto(w, "idle", "check")
  /\ name' = [name EXCEPT ![w] = n]
  /\ password' = [password EXCEPT ![w] = p]
  /\ status' = [status EXCEPT ![w] = 0]
  /\ UNCHANGED <<file, users, history>>

(* username_exists: the name is in the file, or the file holds no JSON.     *)
Refuse(w) ==
  /\ state = "empty" \/ name[w] \in DOMAIN accounts
  /\ Respond(w, "check", 400)
  /\ UNCHANGED <<file, request, past, causes, faults, crashes>>

(* username_exists also says so when it cannot open the file. *)
RefuseUnread(w) ==
  /\ Fault
  /\ Respond(w, "check", 400)
  /\ UNCHANGED <<file, request, past, causes, crashes>>

Check(w) ==
  /\ Goto(w, "check", "load")
  /\ state # "empty" /\ name[w] \notin DOMAIN accounts
  /\ found' = [found EXCEPT ![w] = accounts]
  /\ disturbed' = IF OtherSavers(w) = {} THEN disturbed \ {w}
                  ELSE disturbed \cup OtherSavers(w) \cup {w}
  /\ causes' = IF OtherSavers(w) = {} THEN causes ELSE causes \cup {"race"}
  /\ UNCHANGED <<file, request, users, status, past, faults, crashes>>

(* save_user reads the file again; an empty one gives a null value, which   *)
(* becomes an object with the new account alone.                            *)
Load(w) ==
  /\ Goto(w, "load", "open")
  /\ users' = [users EXCEPT
       ![w] = Put(IF state = "empty" THEN Nobody ELSE accounts, name[w], password[w])]
  /\ UNCHANGED <<file, request, status, history>>

(* The file cannot be read: save_user goes on with no accounts. *)
LoadUnread(w) ==
  /\ Goto(w, "load", "open")
  /\ Fault
  /\ users' = [users EXCEPT ![w] = Put(Nobody, name[w], password[w])]
  /\ causes' = causes \cup {"unread"}
  /\ disturbed' = disturbed \cup {w}
  /\ UNCHANGED <<file, request, status, past, found, crashes>>

(* The ofstream truncates the file. *)
OpenDb(w) ==
  /\ Goto(w, "open", "write")
  /\ state' = "empty" /\ accounts' = Nobody
  /\ UNCHANGED <<request, users, status, history>>

OpenDbFails(w) ==
  /\ Fault
  /\ Respond(w, "open", 500)
  /\ UNCHANGED <<file, request, past, causes, crashes>>

(* The stream is written and closed.  Over the text of another writer, who  *)
(* has come in between, a shorter text leaves a tail.  From here on others  *)
(* see the account, which nobody has confirmed yet.                         *)
WriteDb(w) ==
  /\ Goto(w, "write", "reply")
  /\ accounts' = users[w]
  /\ state' \in IF state = "empty" \/ (state = "clean" /\ accounts = users[w])
                  THEN {"clean"} ELSE {"clean", "tail"}
  /\ written' = written \cup {Account(w)}
  /\ UNCHANGED <<request, users, status, registered, found, disturbed, causes,
                 faults, crashes>>

(* The flush at the close fails (a full disk): nothing looks at the stream  *)
(* again, and save_user has returned true.                                  *)
WriteLost(w) ==
  /\ Goto(w, "write", "reply")
  /\ Fault
  /\ causes' = causes \cup {"lost"}
  /\ disturbed' = disturbed \cup {w}
  /\ UNCHANGED <<file, request, users, status, past, found, crashes>>

(* "Registration successful". *)
Reply(w) ==
  /\ Respond(w, "reply", 200)
  /\ registered' = registered \cup {Account(w)}
  /\ UNCHANGED <<file, request, written, causes, faults, crashes>>

-------------------------------------------------------------------------------
(* LoginHandler; what it refuses with 405 or 400 has no effect. *)

AskLogin(w, n, p) ==
  /\ Goto(w, "idle", "login")
  /\ name' = [name EXCEPT ![w] = n]
  /\ password' = [password EXCEPT ![w] = p]
  /\ status' = [status EXCEPT ![w] = 0]
  /\ UNCHANGED <<file, users, history>>

(* credentials_valid: one read; only a whole and clean file is taken. *)
Login(w) ==
  /\ Respond(w, "login",
       IF state = "clean" /\ Account(w) \in Pairs(accounts) THEN 200 ELSE 401)
  /\ UNCHANGED <<file, request, past, causes, faults, crashes>>

LoginUnread(w) ==
  /\ Fault
  /\ Respond(w, "login", 401)
  /\ UNCHANGED <<file, request, past, causes, crashes>>

(* The process stops anywhere and is started again; the file stays. *)
CrashRestart ==
  /\ crashes < MaxCrashes
  /\ crashes' = crashes + 1
  /\ pc' = [w \in Workers |-> "idle"]
  /\ users' = [w \in Workers |-> Nobody]
  /\ status' = [w \in Workers |-> 0]
  /\ found' = [w \in Workers |-> Nobody]
  /\ disturbed' = {}
  /\ causes' = IF Writing THEN causes \cup {"crash"} ELSE causes
  /\ UNCHANGED <<file, request, past, faults>>

-------------------------------------------------------------------------------
Next ==
  \/ \E w \in Workers :
       \/ \E n \in Names, p \in Passwords : AskRegister(w, n, p) \/ AskLogin(w, n, p)
       \/ Refuse(w) \/ RefuseUnread(w) \/ Check(w)
       \/ Load(w) \/ LoadUnread(w)
       \/ OpenDb(w) \/ OpenDbFails(w) \/ WriteDb(w) \/ WriteLost(w) \/ Reply(w)
       \/ Login(w) \/ LoginUnread(w)
  \/ CrashRestart

Spec == Init /\ [][Next]_vars

-------------------------------------------------------------------------------
(* Properties *)

(* Every variable keeps its type; whoever has an account has a name.        *)
TypeOK ==
  /\ state \in {"empty", "clean", "tail"}
  /\ DOMAIN accounts \subseteq Names
  /\ \A n \in DOMAIN accounts : accounts[n] \in Passwords
  /\ pc \in [Workers -> {"idle", "check", "reply", "login"} \cup Saving]
  /\ name \in [Workers -> Names \cup {NoName}]
  /\ password \in [Workers -> Passwords]
  /\ \A w \in Workers : DOMAIN users[w] \subseteq Names
  /\ status \in [Workers -> {0, 200, 400, 401, 500}]
  /\ written \subseteq Names \X Passwords
  /\ registered \subseteq Names \X Passwords
  /\ \A w \in Workers : DOMAIN found[w] \subseteq Names
  /\ disturbed \subseteq Workers
  /\ causes \subseteq {"race", "unread", "lost", "crash"}
  /\ faults \in Nat /\ crashes \in Nat

(* Each damage has its cause, at every moment at which nobody is between    *)
(* the truncation and the write.  The file is empty only after a crash or a *)
(* failed write in that window, and has a tail only after registrations     *)
(* have overlapped.  Without an overlap and an unreadable file, all is lost *)
(* or nothing: an empty file, or every account that was ever written or     *)
(* confirmed; and no name is ever given away twice.                         *)
NothingLost ==
  ~Writing =>
    /\ state = "empty" => causes \cap {"crash", "lost"} # {}
    /\ state = "tail" => "race" \in causes
    /\ causes \cap {"race", "unread"} = {} =>
         /\ state # "empty" => Pairs(accounts) = written /\ registered \subseteq written
         /\ \A a, b \in written \cup registered : a[1] = b[1] => a = b

(* What a registration does that no other one overlaps and whose file       *)
(* operations succeed, whatever has befallen the file before it: a clean    *)
(* file with all accounts its look-up found and the new one.  A tail, with  *)
(* which nobody can log in, is thereby healed.                              *)
SavesAlone ==
  [][\A w \in Workers :
       pc[w] = "write" /\ pc'[w] = "reply" /\ w \notin disturbed' =>
         /\ state' = "clean"
         /\ accounts' = Put(found[w], name[w], password[w])]_vars

Answers(w, code) == pc[w] # "idle" /\ pc'[w] = "idle" /\ status'[w] = code

(* However the file is spoilt, a login succeeds only with a name and a      *)
(* password that one registration has written together, be it confirmed or  *)
(* not: never with those of one that was refused or has failed.             *)
LoginsAreAccounts ==
  [][\A w \in Workers :
       pc[w] = "login" /\ Answers(w, 200) => Account(w) \in written]_vars

(* A confirmed user is denied the login, and a name that nobody has ever    *)
(* had is refused, only while the file is truncated, after an event that    *)
(* spoils the file, or as the file cannot be opened at that moment.         *)
DenialsHaveCause ==
  [][\A w \in Workers :
       /\ Answers(w, 401) /\ Account(w) \in registered =>
            Writing \/ causes # {} \/ faults' # faults
       /\ Answers(w, 400) /\ (\A a \in written : a[1] # name[w]) =>
            Writing \/ causes \cap {"crash", "lost"} # {} \/ faults' # faults]_vars

-------------------------------------------------------------------------------
(* What a message or a test says and the code does not do. *)

(* After "Registration successful" the account is in the file whenever      *)
(* nobody is saving.                                                        *)
RegisteredStays ==
  (\A w \in Workers : pc[w] \notin Saving) =>
    \A a \in registered : a[1] \in DOMAIN accounts
===============================================================================
