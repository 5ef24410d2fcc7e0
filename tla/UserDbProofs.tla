------------------------------ MODULE UserDbProofs ------------------------------
(***************************************************************************)
(* Proofs about UserDb, for any workers, names and passwords and any number *)
(* of faults and restarts.                                                 *)
(*                                                                         *)
(* The invariant has four parts beside the types.  Sourced holds whatever  *)
(* happens: the file and every object on its way there hold accounts that  *)
(* were written before, apart from the one that is being registered.       *)
(* Harm says which event is behind an empty file and a tail.  Intact holds *)
(* until registrations overlap or a read fails: one registration at a time *)
(* carries the file's accounts and a new one from its look-up to its       *)
(* write, and once a write is lost none comes through again.  Alone says   *)
(* the same of a single registration that nothing has disturbed, whatever  *)
(* has happened to others before it.                                       *)
(***************************************************************************)
EXTENDS UserDb, TLAPS

(* A request under way has a name; what has been loaded are accounts.       *)
Shape ==
  /\ TypeOK
  /\ DOMAIN users = Workers /\ DOMAIN found = Workers
  /\ \A w \in Workers :
       /\ pc[w] # "idle" => name[w] \in Names
       /\ \A n \in DOMAIN users[w] : users[w][n] \in Passwords

Sourced ==
  /\ Pairs(accounts) \subseteq written
  /\ \A w \in Workers : pc[w] \in {"open", "write"} =>
       Pairs(users[w]) \subseteq written \cup {Account(w)}

Harm ==
  /\ state = "empty" => Writing \/ causes \cap {"crash", "lost"} # {}
  /\ state = "tail" => "race" \in causes
  /\ "race" \notin causes =>
       /\ \A v, w \in Workers : pc[v] \in Saving /\ pc[w] \in Saving => v = w
       /\ \A w \in Workers :
            /\ pc[w] = "write" => state = "empty"
            /\ pc[w] \in {"load", "open"} => state # "empty"

(* A registration's name is new as long as it is saving, and its own when   *)
(* it replies.                                                              *)
NewNames ==
  /\ \A a, b \in written \cup registered : a[1] = b[1] => a = b
  /\ \A w \in Workers :
       /\ pc[w] \in Saving => \A a \in written \cup registered : a[1] # name[w]
       /\ pc[w] = "reply" =>
            \A a \in written \cup registered : a[1] = name[w] => a = Account(w)
  /\ \A v, w \in Workers :
       pc[v] = "reply" /\ pc[w] = "reply" /\ name[v] = name[w] => v = w

(* Unless the file is empty for good, what has been confirmed, or is about  *)
(* to be, has been written.                                                 *)
Open == state # "empty" \/ \E v \in Workers : pc[v] \in Saving

Kept ==
  /\ state # "empty" => Pairs(accounts) = written
  /\ Open => registered \subseteq written
  /\ Open => \A w \in Workers : pc[w] = "reply" => Account(w) \in written
  /\ \A w \in Workers :
       pc[w] \in {"open", "write"} => Pairs(users[w]) = written \cup {Account(w)}

Intact == causes \cap {"race", "unread"} = {} => NewNames /\ Kept

Alone ==
  \A w \in Workers : pc[w] \in Saving /\ w \notin disturbed =>
    /\ \A v \in Workers \ {w} : pc[v] \notin Saving
    /\ pc[w] = "load" => accounts = found[w] /\ state # "empty"
    /\ pc[w] \in {"open", "write"} => users[w] = Put(found[w], name[w], password[w])
    /\ pc[w] = "write" => state = "empty"

Inductive == Shape /\ Sourced /\ Harm /\ Intact /\ Alone

-------------------------------------------------------------------------------
(* A new account is one more pair; over an old one it may replace a pair.   *)
LEMMA PairsOfPut ==
  ASSUME NEW f, NEW n, NEW v
  PROVE  /\ Pairs(Put(f, n, v)) \subseteq Pairs(f) \cup {<<n, v>>}
         /\ n \notin DOMAIN f => Pairs(Put(f, n, v)) = Pairs(f) \cup {<<n, v>>}
BY DEF Put, Pairs

LEMMA PairOf == ASSUME NEW f, NEW n \in DOMAIN f PROVE <<n, f[n]>> \in Pairs(f)
BY DEF Pairs

LEMMA PairsOfNobody == Pairs(Nobody) = {} /\ DOMAIN Nobody = {}
BY DEF Pairs, Nobody

(* The names and values of an object to which an account has been added.    *)
LEMMA PutTyped ==
  ASSUME NEW f, DOMAIN f \subseteq Names, \A n \in DOMAIN f : f[n] \in Passwords,
         NEW m \in Names, NEW p \in Passwords
  PROVE  /\ DOMAIN Put(f, m, p) \subseteq Names
         /\ \A n \in DOMAIN Put(f, m, p) : Put(f, m, p)[n] \in Passwords
<1>1. /\ DOMAIN Put(f, m, p) = DOMAIN f \cup {m}
      /\ Put(f, m, p)[m] = p
      /\ \A n \in DOMAIN f \ {m} : Put(f, m, p)[n] = f[n]
  BY DEF Put
<1> QED
  BY <1>1

-------------------------------------------------------------------------------
(* What a registration takes from the file: a whole object, or nothing.     *)
LEMMA Loaded ==
  ASSUME Inductive, NEW w \in Workers, Load(w) \/ LoadUnread(w)
  PROVE  \E f : /\ users' = [users EXCEPT ![w] = Put(f, name[w], password[w])]
                /\ users'[w] = Put(f, name[w], password[w])
                /\ DOMAIN f \subseteq Names /\ \A n \in DOMAIN f : f[n] \in Passwords
                /\ Pairs(f) \subseteq written
                /\ \/ LoadUnread(w)
                   \/ f = (IF state = "empty" THEN Nobody ELSE accounts)
<1>1. DOMAIN users = Workers /\ DOMAIN Nobody = {} /\ Pairs(Nobody) = {}
  BY PairsOfNobody DEF Inductive, Shape
<1>2. CASE Load(w)
  BY <1>1, <1>2 DEF Load, Inductive, Shape, TypeOK, Sourced
<1>3. CASE LoadUnread(w)
  BY <1>1, <1>3 DEF LoadUnread
<1> QED
  BY <1>2, <1>3

LEMMA ShapeNext == Inductive /\ [Next]_vars => Shape'
<1> SUFFICES ASSUME Inductive, [Next]_vars PROVE Shape'
  OBVIOUS
<1> USE DEF Shape, TypeOK, Saving, Goto, Respond, Fault, file, request, past, history
<1>0. Shape
  BY DEF Inductive
<1>1. ASSUME NEW w \in Workers, NEW n \in Names, NEW p \in Passwords,
             AskRegister(w, n, p) \/ AskLogin(w, n, p)
      PROVE Shape'
  <2>1. CASE AskRegister(w, n, p)
    BY <1>0, <2>1 DEF AskRegister
  <2>2. CASE AskLogin(w, n, p)
    BY <1>0, <2>2 DEF AskLogin
  <2> QED
    BY <1>1, <2>1, <2>2
<1>2. ASSUME NEW w \in Workers,
             Refuse(w) \/ RefuseUnread(w) \/ OpenDbFails(w) \/ Login(w) \/ LoginUnread(w)
      PROVE Shape'
  <2>1. PICK code \in {200, 400, 401, 500} :
          /\ pc' = [pc EXCEPT ![w] = "idle"]
          /\ status' = [status EXCEPT ![w] = code]
          /\ users' = [users EXCEPT ![w] = Nobody]
          /\ found' = [found EXCEPT ![w] = Nobody]
          /\ disturbed' = disturbed \ {w}
          /\ faults' \in Nat
          /\ UNCHANGED <<state, accounts, name, password, written, registered, causes, crashes>>
    BY <1>0, <1>2 DEF Refuse, RefuseUnread, OpenDbFails, Login, LoginUnread
  <2> QED
    BY <1>0, <2>1, PairsOfNobody
<1>3. ASSUME NEW w \in Workers, Check(w) PROVE Shape'
  BY <1>0, <1>3 DEF Check, OtherSavers
<1>4. ASSUME NEW w \in Workers, Load(w) \/ LoadUnread(w) PROVE Shape'
  <2>1. name[w] \in Names /\ password[w] \in Passwords
    BY <1>0, <1>4 DEF Load, LoadUnread
  <2>2. PICK f : /\ users' = [users EXCEPT ![w] = Put(f, name[w], password[w])]
                 /\ users'[w] = Put(f, name[w], password[w])
                 /\ DOMAIN f \subseteq Names /\ \A n \in DOMAIN f : f[n] \in Passwords
    BY <1>4, Loaded
  <2>3. /\ DOMAIN users'[w] \subseteq Names
        /\ \A n \in DOMAIN users'[w] : users'[w][n] \in Passwords
    BY <2>1, <2>2, PutTyped
  <2>4. /\ DOMAIN users' = Workers
        /\ \A v \in Workers \ {w} : users'[v] = users[v]
    BY <1>0, <2>2
  <2>5. /\ pc' = [pc EXCEPT ![w] = "open"] /\ pc[w] = "load"
        /\ UNCHANGED <<state, accounts, name, password, status, written, registered,
                       found, crashes>>
        /\ causes' \in {causes, causes \cup {"unread"}}
        /\ disturbed' \in {disturbed, disturbed \cup {w}} /\ faults' \in Nat
    BY <1>0, <1>4 DEF Load, LoadUnread
  <2>6. \A v \in Workers : /\ DOMAIN users'[v] \subseteq Names
                          /\ \A n \in DOMAIN users'[v] : users'[v][n] \in Passwords
    BY <1>0, <2>3, <2>4
  <2>7. \A v \in Workers : pc'[v] # "idle" => name'[v] \in Names
    BY <1>0, <2>5
  <2>8. pc' \in [Workers -> {"idle", "check", "reply", "login"} \cup Saving]
    BY <1>0, <2>5
  <2>9. disturbed' \subseteq Workers /\ causes' \subseteq {"race", "unread", "lost", "crash"}
    BY <1>0, <2>5
  <2> QED
    BY <1>0, <2>4, <2>5, <2>6, <2>7, <2>8, <2>9
<1>5. ASSUME NEW w \in Workers, OpenDb(w) PROVE Shape'
  BY <1>0, <1>5, PairsOfNobody DEF OpenDb
<1>6. ASSUME NEW w \in Workers, WriteDb(w) PROVE Shape'
  BY <1>0, <1>6 DEF WriteDb, Account
<1>7. ASSUME NEW w \in Workers, WriteLost(w) PROVE Shape'
  BY <1>0, <1>7 DEF WriteLost
<1>8. ASSUME NEW w \in Workers, Reply(w) PROVE Shape'
  BY <1>0, <1>8, PairsOfNobody DEF Reply, Account
<1>9. CASE CrashRestart
  BY <1>0, <1>9, PairsOfNobody DEF CrashRestart
<1>10. CASE UNCHANGED vars
  BY <1>0, <1>10 DEF vars
<1> QED
  BY <1>1, <1>2, <1>3, <1>4, <1>5, <1>6, <1>7, <1>8, <1>9, <1>10 DEF Next

LEMMA SourcedNext == Inductive /\ [Next]_vars => Sourced'
<1> SUFFICES ASSUME Inductive, [Next]_vars PROVE Sourced'
  OBVIOUS
<1> USE DEF Sourced, Account, Goto, Respond, file, request, past, history
<1>0. /\ Sourced /\ DOMAIN users = Workers
      /\ pc \in [Workers -> {"idle", "check", "reply", "login"} \cup Saving]
      /\ name \in [Workers -> Names \cup {NoName}] /\ password \in [Workers -> Passwords]
  BY DEF Inductive, Shape, TypeOK
<1>1. ASSUME NEW w \in Workers, NEW n \in Names, NEW p \in Passwords,
             AskRegister(w, n, p) \/ AskLogin(w, n, p)
      PROVE Sourced'
  BY <1>0, <1>1 DEF AskRegister, AskLogin, Pairs
<1>2. ASSUME NEW w \in Workers,
             \/ Refuse(w) \/ RefuseUnread(w) \/ OpenDbFails(w) \/ Login(w)
             \/ LoginUnread(w) \/ Reply(w)
      PROVE Sourced'
  BY <1>0, <1>2 DEF Refuse, RefuseUnread, OpenDbFails, Login, LoginUnread, Reply, Pairs
<1>3. ASSUME NEW w \in Workers, Check(w) \/ WriteLost(w) PROVE Sourced'
  BY <1>0, <1>3 DEF Check, WriteLost, Pairs
<1>4. ASSUME NEW w \in Workers, Load(w) \/ LoadUnread(w) PROVE Sourced'
  <2>1. PICK f : /\ users' = [users EXCEPT ![w] = Put(f, name[w], password[w])]
                 /\ users'[w] = Put(f, name[w], password[w])
                 /\ Pairs(f) \subseteq written
    BY <1>4, Loaded
  <2>2. Pairs(users'[w]) \subseteq written \cup {Account(w)}
    BY <2>1, PairsOfPut
  <2>3. \A v \in Workers \ {w} : users'[v] = users[v]
    BY <1>0, <2>1
  <2>4. /\ pc' = [pc EXCEPT ![w] = "open"]
        /\ UNCHANGED <<accounts, name, password, written>>
    BY <1>4 DEF Load, LoadUnread
  <2> QED
    BY <1>0, <2>2, <2>3, <2>4
<1>5. ASSUME NEW w \in Workers, OpenDb(w) PROVE Sourced'
  BY <1>0, <1>5, PairsOfNobody DEF OpenDb
<1>6. ASSUME NEW w \in Workers, WriteDb(w) PROVE Sourced'
  BY <1>0, <1>6 DEF WriteDb
<1>7. CASE CrashRestart
  BY <1>0, <1>7 DEF CrashRestart
<1>8. CASE UNCHANGED vars
  BY <1>0, <1>8 DEF vars
<1> QED
  BY <1>1, <1>2, <1>3, <1>4, <1>5, <1>6, <1>7, <1>8 DEF Next

LEMMA HarmNext == Inductive /\ [Next]_vars => Harm'
<1> SUFFICES ASSUME Inductive, [Next]_vars PROVE Harm'
  OBVIOUS
<1> USE DEF Harm, Writing, Saving, Goto, Respond, file, request, past, history
<1>0. /\ Harm /\ state \in {"empty", "clean", "tail"}
      /\ pc \in [Workers -> {"idle", "check", "reply", "login"} \cup Saving]
  BY DEF Inductive, Shape, TypeOK
<1>1. ASSUME NEW w \in Workers, NEW n \in Names, NEW p \in Passwords,
             AskRegister(w, n, p) \/ AskLogin(w, n, p)
      PROVE Harm'
  BY <1>0, <1>1 DEF AskRegister, AskLogin
<1>2. ASSUME NEW w \in Workers,
             \/ Refuse(w) \/ RefuseUnread(w) \/ OpenDbFails(w) \/ Login(w)
             \/ LoginUnread(w) \/ Reply(w)
      PROVE Harm'
  BY <1>0, <1>2 DEF Refuse, RefuseUnread, OpenDbFails, Login, LoginUnread, Reply
<1>3. ASSUME NEW w \in Workers, Check(w) PROVE Harm'
  BY <1>0, <1>3 DEF Check, OtherSavers
<1>4. ASSUME NEW w \in Workers, Load(w) \/ LoadUnread(w) PROVE Harm'
  BY <1>0, <1>4 DEF Load, LoadUnread
<1>5. ASSUME NEW w \in Workers, OpenDb(w) PROVE Harm'
  BY <1>0, <1>5 DEF OpenDb
<1>6. ASSUME NEW w \in Workers, WriteDb(w) PROVE Harm'
  BY <1>0, <1>6 DEF WriteDb
<1>7. ASSUME NEW w \in Workers, WriteLost(w) PROVE Harm'
  BY <1>0, <1>7 DEF WriteLost
<1>8. CASE CrashRestart
  BY <1>0, <1>8 DEF CrashRestart
<1>9. CASE UNCHANGED vars
  BY <1>0, <1>9 DEF vars
<1> QED
  BY <1>1, <1>2, <1>3, <1>4, <1>5, <1>6, <1>7, <1>8, <1>9 DEF Next

LEMMA AloneNext == Inductive /\ [Next]_vars => Alone'
<1> SUFFICES ASSUME Inductive, [Next]_vars PROVE Alone'
  OBVIOUS
<1> USE DEF Alone, Saving, Goto, Respond, file, request, past, history
<1>0. /\ Alone /\ DOMAIN users = Workers /\ DOMAIN found = Workers
      /\ pc \in [Workers -> {"idle", "check", "reply", "login"} \cup Saving]
      /\ name \in [Workers -> Names \cup {NoName}] /\ password \in [Workers -> Passwords]
  BY DEF Inductive, Shape, TypeOK
<1>1. ASSUME NEW w \in Workers, NEW n \in Names, NEW p \in Passwords,
             AskRegister(w, n, p) \/ AskLogin(w, n, p)
      PROVE Alone'
  BY <1>0, <1>1 DEF AskRegister, AskLogin
<1>2. ASSUME NEW w \in Workers,
             \/ Refuse(w) \/ RefuseUnread(w) \/ OpenDbFails(w) \/ Login(w)
             \/ LoginUnread(w) \/ Reply(w)
      PROVE Alone'
  BY <1>0, <1>2 DEF Refuse, RefuseUnread, OpenDbFails, Login, LoginUnread, Reply
<1>3. ASSUME NEW w \in Workers, Check(w) PROVE Alone'
  BY <1>0, <1>3 DEF Check, OtherSavers
<1>4. ASSUME NEW w \in Workers, Load(w) PROVE Alone'
  BY <1>0, <1>4 DEF Load
<1>5. ASSUME NEW w \in Workers, LoadUnread(w) PROVE Alone'
  BY <1>0, <1>5 DEF LoadUnread
<1>6. ASSUME NEW w \in Workers, OpenDb(w) PROVE Alone'
  BY <1>0, <1>6 DEF OpenDb
<1>7. ASSUME NEW w \in Workers, WriteDb(w) \/ WriteLost(w) PROVE Alone'
  BY <1>0, <1>7 DEF WriteDb, WriteLost
<1>8. CASE CrashRestart
  BY <1>0, <1>8 DEF CrashRestart
<1>9. CASE UNCHANGED vars
  BY <1>0, <1>9 DEF vars
<1> QED
  BY <1>1, <1>2, <1>3, <1>4, <1>5, <1>6, <1>7, <1>8, <1>9 DEF Next

(* Until registrations overlap or a read fails, no name is given away twice.*)
LEMMA NewNamesNext ==
  ASSUME Inductive, [Next]_vars, causes' \cap {"race", "unread"} = {}
  PROVE  NewNames'
<1> USE DEF NewNames, Account, Saving, Goto, Respond, file, request, past, history
<1>0. /\ NewNames /\ Kept /\ DOMAIN users = Workers
      /\ pc \in [Workers -> {"idle", "check", "reply", "login"} \cup Saving]
      /\ name \in [Workers -> Names \cup {NoName}] /\ password \in [Workers -> Passwords]
      /\ \A v, w \in Workers : pc[v] \in Saving /\ pc[w] \in Saving => v = w
  <2>1. causes \subseteq causes'
    BY DEF Next, vars, AskRegister, AskLogin, Refuse, RefuseUnread, Check, Load, LoadUnread,
           OpenDb, OpenDbFails, WriteDb, WriteLost, Reply, Login, LoginUnread, CrashRestart
  <2> QED
    BY <2>1 DEF Inductive, Shape, TypeOK, Intact, Harm
<1>1. ASSUME NEW w \in Workers, NEW n \in Names, NEW p \in Passwords,
             AskRegister(w, n, p) \/ AskLogin(w, n, p)
      PROVE NewNames'
  BY <1>0, <1>1 DEF AskRegister, AskLogin
<1>2. ASSUME NEW w \in Workers,
             \/ Refuse(w) \/ RefuseUnread(w) \/ OpenDbFails(w) \/ Login(w)
             \/ LoginUnread(w)
      PROVE NewNames'
  BY <1>0, <1>2 DEF Refuse, RefuseUnread, OpenDbFails, Login, LoginUnread
<1>3. ASSUME NEW w \in Workers, Check(w) PROVE NewNames'
  <2>1. \A a \in written \cup registered : a[1] # name[w]
    <3>1. registered \subseteq written /\ written = Pairs(accounts)
      BY <1>0, <1>3 DEF Check, Kept, Open
    <3>2. \A a \in Pairs(accounts) : a[1] \in DOMAIN accounts
      BY DEF Pairs
    <3> QED
      BY <1>3, <3>1, <3>2 DEF Check
  <2> QED
    BY <1>0, <1>3, <2>1 DEF Check
<1>4. ASSUME NEW w \in Workers, Load(w) \/ LoadUnread(w) PROVE NewNames'
  BY <1>0, <1>4 DEF Load, LoadUnread
<1>5. ASSUME NEW w \in Workers, OpenDb(w) PROVE NewNames'
  BY <1>0, <1>5 DEF OpenDb
<1>6. ASSUME NEW w \in Workers, WriteDb(w) \/ WriteLost(w) PROVE NewNames'
  <2>1. /\ pc[w] = "write" /\ pc' = [pc EXCEPT ![w] = "reply"]
        /\ written' \in {written, written \cup {Account(w)}}
        /\ UNCHANGED <<registered, name, password>>
    BY <1>6 DEF WriteDb, WriteLost
  <2>2. \A v \in Workers : pc[v] = "reply" => Account(v) \in written
    BY <1>0, <2>1 DEF Kept, Open
  <2>3. \A a \in written \cup registered : a[1] # name[w]
    BY <1>0, <2>1
  <2>4. \A v \in Workers : pc[v] = "reply" => name[v] # name[w]
    <3>1. \A v \in Workers : Account(v)[1] = name[v]
      OBVIOUS
    <3> QED
      BY <2>2, <2>3, <3>1
  <2>5. \A v \in Workers \ {w} : pc[v] \notin Saving
    BY <1>0, <2>1
  <2>6. /\ Account(w)' = Account(w) /\ Account(w)[1] = name[w]
        /\ written' \cup registered' \subseteq written \cup registered \cup {Account(w)}
    BY <2>1
  <2>7. \A a, b \in written' \cup registered' : a[1] = b[1] => a = b
    BY <1>0, <2>3, <2>6
  <2>8. pc'[w] = "reply" /\ \A v \in Workers \ {w} : pc'[v] = pc[v]
    BY <1>0, <2>1
  <2>9. ASSUME NEW v \in Workers, pc'[v] = "reply", NEW a \in written' \cup registered',
               a[1] = name[v]
        PROVE  a = Account(v)
    BY <1>0, <2>3, <2>4, <2>6, <2>8, <2>9
  <2> QED
    BY <1>0, <2>1, <2>4, <2>5, <2>7, <2>8, <2>9
<1>7. ASSUME NEW w \in Workers, Reply(w) PROVE NewNames'
  <2>1. \A v \in Workers : pc[v] \in Saving => Account(w) \in written
    BY <1>0, <1>7 DEF Reply, Kept, Open
  <2>2. \A v \in Workers : pc[v] \in Saving => name[w] # name[v]
    BY <1>0, <2>1
  <2> QED
    BY <1>0, <1>7, <2>2 DEF Reply
<1>8. CASE CrashRestart
  BY <1>0, <1>8 DEF CrashRestart
<1>9. CASE UNCHANGED vars
  BY <1>0, <1>9 DEF vars
<1> QED
  BY <1>1, <1>2, <1>3, <1>4, <1>5, <1>6, <1>7, <1>8, <1>9 DEF Next

(* ... and nothing that was written or confirmed is lost, unless all is.    *)
LEMMA KeptNext ==
  ASSUME Inductive, [Next]_vars, causes' \cap {"race", "unread"} = {}
  PROVE  Kept'
<1> USE DEF Kept, Open, Account, Saving, Goto, Respond, file, request, past, history
<1>0. /\ NewNames /\ Kept /\ Harm /\ DOMAIN users = Workers
      /\ pc \in [Workers -> {"idle", "check", "reply", "login"} \cup Saving]
      /\ name \in [Workers -> Names \cup {NoName}] /\ password \in [Workers -> Passwords]
      /\ \A v, w \in Workers : pc[v] \in Saving /\ pc[w] \in Saving => v = w
      /\ \A w \in Workers : pc[w] = "write" => state = "empty"
      /\ \A w \in Workers : pc[w] \in {"load", "open"} => state # "empty"
  <2>1. causes \subseteq causes'
    BY DEF Next, vars, AskRegister, AskLogin, Refuse, RefuseUnread, Check, Load, LoadUnread,
           OpenDb, OpenDbFails, WriteDb, WriteLost, Reply, Login, LoginUnread, CrashRestart
  <2> QED
    BY <2>1 DEF Inductive, Shape, TypeOK, Intact, Harm
<1>1. ASSUME NEW w \in Workers, NEW n \in Names, NEW p \in Passwords,
             AskRegister(w, n, p) \/ AskLogin(w, n, p)
      PROVE Kept'
  BY <1>0, <1>1 DEF AskRegister, AskLogin, Pairs
<1>2. ASSUME NEW w \in Workers,
             \/ Refuse(w) \/ RefuseUnread(w) \/ OpenDbFails(w) \/ Login(w)
             \/ LoginUnread(w)
      PROVE Kept'
  BY <1>0, <1>2 DEF Refuse, RefuseUnread, OpenDbFails, Login, LoginUnread, Pairs
<1>3. ASSUME NEW w \in Workers, Check(w) PROVE Kept'
  BY <1>0, <1>3 DEF Check, Pairs
<1>4. ASSUME NEW w \in Workers, Load(w) PROVE Kept'
  <2>1. state # "empty" /\ Pairs(accounts) = written
    BY <1>0, <1>4 DEF Load
  <2>2. name[w] \notin DOMAIN accounts
    <3> SUFFICES ASSUME name[w] \in DOMAIN accounts PROVE FALSE
      OBVIOUS
    <3>1. <<name[w], accounts[name[w]]>> \in written
      BY <2>1, PairOf
    <3>2. \A a \in written : a[1] # name[w]
      BY <1>0, <1>4 DEF Load, NewNames
    <3> QED
      BY <3>1, <3>2
  <2>3. users'[w] = Put(accounts, name[w], password[w])
    BY <1>0, <1>4, <2>1 DEF Load
  <2>4. Pairs(users'[w]) = written \cup {Account(w)}
    BY <2>1, <2>2, <2>3, PairsOfPut
  <2>5. /\ pc' = [pc EXCEPT ![w] = "open"] /\ pc[w] = "load"
        /\ \A v \in Workers \ {w} : users'[v] = users[v]
        /\ UNCHANGED <<state, accounts, name, password, written, registered>>
    BY <1>0, <1>4 DEF Load
  <2> QED
    BY <1>0, <2>1, <2>4, <2>5 DEF Pairs
<1>5. ASSUME NEW w \in Workers, LoadUnread(w) PROVE Kept'
  BY <1>0, <1>5 DEF LoadUnread
<1>6. ASSUME NEW w \in Workers, OpenDb(w) PROVE Kept'
  BY <1>0, <1>6 DEF OpenDb, Pairs
<1>7. ASSUME NEW w \in Workers, WriteDb(w) PROVE Kept'
  <2>1. \A v \in Workers \ {w} : pc[v] \notin Saving
    BY <1>0, <1>7 DEF WriteDb
  <2>2. /\ pc[w] = "write" /\ pc' = [pc EXCEPT ![w] = "reply"]
        /\ accounts' = users[w] /\ written' = written \cup {Account(w)}
        /\ UNCHANGED <<users, registered, name, password>>
    BY <1>7 DEF WriteDb
  <2> QED
    BY <1>0, <2>1, <2>2 DEF Pairs
<1>8. ASSUME NEW w \in Workers, WriteLost(w) PROVE Kept'
  BY <1>0, <1>8 DEF WriteLost, Pairs
<1>9. ASSUME NEW w \in Workers, Reply(w) PROVE Kept'
  BY <1>0, <1>9 DEF Reply, Pairs
<1>10. CASE CrashRestart
  BY <1>0, <1>10 DEF CrashRestart, Pairs
<1>11. CASE UNCHANGED vars
  BY <1>0, <1>11 DEF vars, Pairs
<1> QED
  BY <1>1, <1>2, <1>3, <1>4, <1>5, <1>6, <1>7, <1>8, <1>9, <1>10, <1>11 DEF Next

LEMMA InductiveInit == Init => Inductive
<1> SUFFICES ASSUME Init PROVE Inductive
  OBVIOUS
<1>1. Shape
  BY PairsOfNobody DEF Init, Shape, TypeOK
<1>2. Sourced /\ Harm /\ Alone
  BY PairsOfNobody DEF Init, Sourced, Harm, Alone, Saving
<1>3. NewNames /\ Kept
  BY PairsOfNobody DEF Init, NewNames, Kept, Open, Saving
<1> QED
  BY <1>1, <1>2, <1>3 DEF Inductive, Intact

LEMMA InductiveInvariant == Spec => []Inductive
<1>1. Inductive /\ [Next]_vars => Inductive'
  BY ShapeNext, SourcedNext, HarmNext, NewNamesNext, KeptNext, AloneNext
  DEF Inductive, Intact
<1> QED
  BY <1>1, InductiveInit, PTL DEF Spec

-------------------------------------------------------------------------------
(* Every variable keeps its type; whoever has an account has a name.        *)
THEOREM UserTypes == Spec => []TypeOK
<1>1. Inductive => TypeOK
  BY DEF Inductive, Shape
<1> QED
  BY <1>1, InductiveInvariant, PTL

(* Outside the window of a rewrite an empty file has a crash or a failed    *)
(* write behind it and a tail an overlap; without an overlap and a failed   *)
(* read, everything is in the file or nothing, and no name has two          *)
(* passwords.                                                               *)
THEOREM UsersNotLost == Spec => []NothingLost
<1>1. Inductive => NothingLost
  BY DEF Inductive, Shape, TypeOK, Harm, Intact, NewNames, Kept, Open, NothingLost
<1> QED
  BY <1>1, InductiveInvariant, PTL

(* A registration that nothing has disturbed leaves a clean file with all   *)
(* it has found and the new account, whatever has happened before.          *)
THEOREM SavedAlone == Spec => SavesAlone
<1> DEFINE A == \A w \in Workers :
                  pc[w] = "write" /\ pc'[w] = "reply" /\ w \notin disturbed' =>
                    /\ state' = "clean"
                    /\ accounts' = Put(found[w], name[w], password[w])
<1>1. Inductive /\ [Next]_vars => A
  <2> SUFFICES ASSUME Inductive, [Next]_vars, NEW w \in Workers,
                      pc[w] = "write", pc'[w] = "reply", w \notin disturbed'
               PROVE  /\ state' = "clean"
                      /\ accounts' = Put(found[w], name[w], password[w])
    OBVIOUS
  <2>1. pc \in [Workers -> {"idle", "check", "reply", "login"} \cup Saving]
    BY DEF Inductive, Shape, TypeOK
  <2>2. WriteDb(w) \/ WriteLost(w)
    BY <2>1 DEF Next, vars, AskRegister, AskLogin, Refuse, RefuseUnread, Check, Load,
                LoadUnread, OpenDb, OpenDbFails, WriteDb, WriteLost, Reply, Login,
                LoginUnread, CrashRestart, Goto, Respond
  <2>3. WriteDb(w) /\ w \notin disturbed
    BY <2>2 DEF WriteDb, WriteLost
  <2> QED
    BY <2>3 DEF Inductive, Alone, Saving, WriteDb
<1> QED
  BY <1>1, InductiveInvariant, PTL DEF Spec, SavesAlone

(* A login succeeds only with a name and password that one registration has *)
(* written, whatever has happened to the file.                              *)
THEOREM UsersLogIn == Spec => LoginsAreAccounts
<1> DEFINE A == \A w \in Workers :
                  pc[w] = "login" /\ Answers(w, 200) => Account(w) \in written
<1>1. Inductive /\ [Next]_vars => A
  <2> SUFFICES ASSUME Inductive, [Next]_vars, NEW w \in Workers,
                      pc[w] = "login", Answers(w, 200)
               PROVE  Account(w) \in written
    OBVIOUS
  <2>1. /\ pc \in [Workers -> {"idle", "check", "reply", "login"} \cup Saving]
        /\ status \in [Workers -> {0, 200, 400, 401, 500}]
    BY DEF Inductive, Shape, TypeOK
  <2>2. Login(w) \/ LoginUnread(w) \/ CrashRestart
    BY <2>1 DEF Next, vars, Answers, AskRegister, AskLogin, Refuse, RefuseUnread, Check,
                Load, LoadUnread, OpenDb, OpenDbFails, WriteDb, WriteLost, Reply, Login,
                LoginUnread, Goto, Respond
  <2>3. Account(w) \in Pairs(accounts)
    BY <2>1, <2>2 DEF Answers, Login, LoginUnread, CrashRestart, Respond
  <2> QED
    BY <2>3 DEF Inductive, Sourced
<1> QED
  BY <1>1, InductiveInvariant, PTL DEF Spec, LoginsAreAccounts

(* A 401 for a confirmed user and a 400 for a new name have a cause.        *)
THEOREM UsersDenied == Spec => DenialsHaveCause
<1> DEFINE A == \A w \in Workers :
       /\ Answers(w, 401) /\ Account(w) \in registered =>
            Writing \/ causes # {} \/ faults' # faults
       /\ Answers(w, 400) /\ (\A a \in written : a[1] # name[w]) =>
            Writing \/ causes \cap {"crash", "lost"} # {} \/ faults' # faults
<1>1. Inductive /\ [Next]_vars => A
  <2> SUFFICES ASSUME Inductive, [Next]_vars, NEW w \in Workers, NEW code \in {400, 401},
                      Answers(w, code), faults' = faults
               PROVE  /\ code = 401 /\ Account(w) \in registered => Writing \/ causes # {}
                      /\ code = 400 /\ (\A a \in written : a[1] # name[w]) =>
                           Writing \/ causes \cap {"crash", "lost"} # {}
    OBVIOUS
  <2>1. /\ pc \in [Workers -> {"idle", "check", "reply", "login"} \cup Saving]
        /\ status \in [Workers -> {0, 200, 400, 401, 500}]
        /\ state \in {"empty", "clean", "tail"} /\ faults \in Nat
    BY DEF Inductive, Shape, TypeOK
  <2>2. \/ Login(w) /\ code = 401
        \/ Refuse(w) /\ code = 400
    <3>1. \/ Login(w) \/ LoginUnread(w) \/ Refuse(w) \/ RefuseUnread(w)
          \/ OpenDbFails(w) \/ Reply(w) \/ CrashRestart
      BY <2>1 DEF Next, vars, Answers, AskRegister, AskLogin, Refuse, RefuseUnread, Check,
                  Load, LoadUnread, OpenDb, OpenDbFails, WriteDb, WriteLost, Reply, Login,
                  LoginUnread, Goto, Respond
    <3>2. ~LoginUnread(w) /\ ~RefuseUnread(w) /\ ~OpenDbFails(w)
      BY <2>1 DEF LoginUnread, RefuseUnread, OpenDbFails, Fault
    <3>3. ~Reply(w) /\ ~CrashRestart
      BY <2>1 DEF Reply, CrashRestart, Answers, Respond
    <3>4. /\ Login(w) => code = 401
          /\ Refuse(w) => code = 400
      BY <2>1 DEF Login, Refuse, Answers, Respond
    <3> QED
      BY <3>1, <3>2, <3>3, <3>4
  <2>3. CASE Login(w) /\ code = 401
    <3>1. state # "clean" \/ Account(w) \notin Pairs(accounts)
      BY <2>1, <2>3 DEF Login, Answers, Respond
    <3> QED
      BY <2>1, <2>3, <3>1 DEF Inductive, Harm, Intact, Kept, Open
  <2>4. CASE Refuse(w) /\ code = 400
    <3>1. CASE state = "empty"
      BY <2>4, <3>1 DEF Inductive, Harm
    <3>2. CASE name[w] \in DOMAIN accounts
      <4>1. <<name[w], accounts[name[w]]>> \in written
        BY <3>2, PairOf DEF Inductive, Sourced
      <4> QED
        BY <2>4, <4>1
    <3> QED
      BY <2>4, <3>1, <3>2 DEF Refuse
  <2> QED
    BY <2>2, <2>3, <2>4
<1> QED
  BY <1>1, InductiveInvariant, PTL DEF Spec, DenialsHaveCause
===============================================================================
