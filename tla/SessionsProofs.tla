----------------------------- MODULE SessionsProofs -----------------------------
(***************************************************************************)
(* Proofs about Sessions, for any workers, users and tokens, any life of a *)
(* session and any way the clock is set.                                   *)
(*                                                                         *)
(* LookupOutcome and GoneForGood say what a lookup finds, so what has to be *)
(* added to them is where the sessions that it does not find have gone     *)
(* (Missing), what get_session knows between its two critical sections     *)
(* (Between), and that tokens are never issued twice (Known).              *)
(***************************************************************************)
EXTENDS Sessions, TLAPS

(* Requests carry tokens that were issued, and only such are ever over.     *)
Known ==
  /\ \A w \in Workers : token[w] # NoToken => token[w] \in Issued
  /\ ended \subseteq Issued /\ overdue \subseteq Issued /\ refused \subseteq Issued

(* A session is of the user to whom its token was issued, and one that has  *)
(* expired is known to be overdue.                                          *)
Live ==
  \A t \in DOMAIN sessions :
    sessions[t].user = owner[t] /\ (Expired(t, now) => t \in overdue)

(* An issued token without a session has been ended or has been overdue.    *)
Missing == \A t \in Issued \ DOMAIN sessions : t \in ended \cup overdue

(* No user before the lookup is through; it goes on to purge the session    *)
(* only of a token that is over.                                            *)
Between ==
  \A w \in Workers :
    /\ pc[w] \in {"idle", "lookup", "purge"} => ctx[w] = NoUser
    /\ pc[w] = "purge" => token[w] \in overdue

(* A late request is under way, with a token that is over. *)
Late ==
  \A w \in late :
    pc[w] # "idle" /\ token[w] # NoToken /\ token[w] \in ended \cup refused

Inductive ==
  /\ TypeOK /\ Known /\ Live /\ Missing /\ Between /\ Late
  /\ LookupOutcome /\ GoneForGood /\ NoLateUser

-------------------------------------------------------------------------------
(* A new session, and the end of some. *)

LEMMA NewSession ==
  ASSUME NEW t, NEW u, NEW n,
         sessions' = Put(sessions, t, [user |-> u, expires |-> n]), owner' = Put(owner, t, u)
  PROVE  /\ DOMAIN sessions' = DOMAIN sessions \cup {t}
         /\ sessions'[t].user = u /\ sessions'[t].expires = n
         /\ \A j \in DOMAIN sessions \ {t} : sessions'[j] = sessions[j]
         /\ DOMAIN owner' = DOMAIN owner \cup {t}
         /\ owner'[t] = u
         /\ \A j \in DOMAIN owner \ {t} : owner'[j] = owner[j]
BY DEF Put

LEMMA SessionsEnd ==
  ASSUME NEW S, sessions' = Erase(sessions, S)
  PROVE  /\ DOMAIN sessions' = DOMAIN sessions \ S
         /\ \A t \in DOMAIN sessions' : sessions'[t] = sessions[t]
BY DEF Erase, Restrict

-------------------------------------------------------------------------------
LEMMA InductiveInit == Init => Inductive
BY NoneOK DEF Init, Inductive, TypeOK, Known, Live, Missing, Between, Late,
  LookupOutcome, GoneForGood, NoLateUser, Issued, Paths

(* Sessions end by a purge, a logout or the cleanup: each of them only drops*)
(* tokens that are over, and lookups do not depend on them any more.        *)
LEMMA InductivePurge ==
  ASSUME Inductive, NEW w \in Workers, Purge(w)
  PROVE  Inductive'
<1>1. /\ DOMAIN sessions' = DOMAIN sessions \ {token[w]}
      /\ \A t \in DOMAIN sessions' : sessions'[t] = sessions[t]
  BY SessionsEnd DEF Purge
<1>2. token[w] \in overdue /\ ctx[w] = NoUser /\ pc[w] = "purge"
  BY DEF Purge, Goto, Inductive, Between
<1>3. UNCHANGED <<now, path, token, ctx, who, owner, ended, overdue, late, clockSteps>>
  BY DEF Purge, request
<1>4. pc' = [pc EXCEPT ![w] = "handle"] /\ refused' = refused \cup {token[w]}
  BY DEF Purge, Goto
<1>5. TypeOK' /\ Known'
  BY <1>1, <1>2, <1>3, <1>4 DEF Inductive, TypeOK, Known, Issued
<1>6. Live' /\ Missing' /\ GoneForGood'
  BY <1>1, <1>2, <1>3, <1>4 DEF Inductive, Live, Missing, GoneForGood, Expired, Issued
<1>7. Between' /\ Late' /\ NoLateUser' /\ LookupOutcome'
  BY <1>2, <1>3, <1>4
  DEF Inductive, TypeOK, Between, Late, NoLateUser, LookupOutcome
<1> QED
  BY <1>5, <1>6, <1>7 DEF Inductive

LEMMA InductiveLogout ==
  ASSUME Inductive, NEW w \in Workers, FinishLogout(w)
  PROVE  Inductive'
<1>1. /\ DOMAIN sessions' = DOMAIN sessions \ {token[w]}
      /\ \A t \in DOMAIN sessions' : sessions'[t] = sessions[t]
  BY SessionsEnd DEF FinishLogout
<1>2. token[w] \in Issued
  BY DEF FinishLogout, Inductive, Known
<1>3. UNCHANGED <<now, owner, overdue, refused, clockSteps>> /\ ended' = ended \cup {token[w]}
  BY DEF FinishLogout
<1>4. Return(w)
  BY DEF FinishLogout
<1>5. TypeOK' /\ Known'
  BY NoneOK, <1>1, <1>2, <1>3, <1>4
  DEF Return, Goto, Inductive, TypeOK, Known, Issued, Paths
<1>6. Live' /\ Missing' /\ GoneForGood'
  BY <1>1, <1>2, <1>3 DEF Inductive, Live, Missing, GoneForGood, Expired, Issued
<1>7. Between' /\ Late' /\ NoLateUser' /\ LookupOutcome'
  BY <1>2, <1>3, <1>4
  DEF Return, Goto, Inductive, TypeOK, Between, Late, NoLateUser, LookupOutcome
<1> QED
  BY <1>5, <1>6, <1>7 DEF Inductive

LEMMA InductiveCleanup ==
  ASSUME Inductive, Cleanup
  PROVE  Inductive'
<1>1. /\ DOMAIN sessions' = DOMAIN sessions \ {t \in DOMAIN sessions : Expired(t, now)}
      /\ \A t \in DOMAIN sessions' : sessions'[t] = sessions[t]
  BY SessionsEnd DEF Cleanup
<1>2. UNCHANGED <<now, pc, path, token, ctx, who, owner, ended, overdue, refused, late,
                  clockSteps>>
  BY DEF Cleanup, request, history
<1>3. TypeOK' /\ Known' /\ Live' /\ Missing' /\ GoneForGood'
  BY <1>1, <1>2 DEF Inductive, TypeOK, Known, Live, Missing, GoneForGood, Expired, Issued
<1>4. Between' /\ Late' /\ NoLateUser' /\ LookupOutcome'
  BY <1>2 DEF Inductive, Between, Late, NoLateUser, LookupOutcome
<1> QED
  BY <1>3, <1>4 DEF Inductive

(* A login makes a session for a token that nobody has had. *)
LEMMA InductiveLogin ==
  ASSUME Inductive, NEW w \in Workers, FinishLogin(w)
  PROVE  Inductive'
<1>1. PICK t \in Tokens \ Issued :
        /\ sessions' = Put(sessions, t, [user |-> who[w], expires |-> now + Life])
        /\ owner' = Put(owner, t, who[w])
  BY DEF FinishLogin
<1>2. /\ DOMAIN sessions' = DOMAIN sessions \cup {t}
      /\ sessions'[t].user = who[w] /\ sessions'[t].expires = now + Life
      /\ \A j \in DOMAIN sessions \ {t} : sessions'[j] = sessions[j]
      /\ DOMAIN owner' = DOMAIN owner \cup {t}
      /\ owner'[t] = who[w]
      /\ \A j \in DOMAIN owner \ {t} : owner'[j] = owner[j]
  BY <1>1, NewSession
<1>3. who[w] \in Users /\ now + Life \in Nat /\ ~(now > now + Life)
  BY ClockOK DEF FinishLogin, Inductive, TypeOK
<1>4. t \notin DOMAIN sessions /\ t \notin ended \cup overdue \cup refused
  BY DEF Inductive, TypeOK, Known
<1>5. UNCHANGED <<now, ended, overdue, refused, clockSteps>> /\ Return(w)
  BY DEF FinishLogin
<1>6. TypeOK' /\ Known'
  BY NoneOK, <1>2, <1>3, <1>5
  DEF Return, Goto, Inductive, TypeOK, Known, Issued, Paths
<1>7. Live' /\ Missing' /\ GoneForGood'
  BY <1>2, <1>3, <1>4, <1>5
  DEF Inductive, TypeOK, Live, Missing, GoneForGood, Expired, Issued
<1>8. Between' /\ Late' /\ NoLateUser'
  BY <1>5 DEF Return, Goto, Inductive, TypeOK, Between, Late, NoLateUser
<1>9. LookupOutcome'
  BY <1>2, <1>5 DEF Return, Goto, Inductive, TypeOK, Known, Issued, LookupOutcome
<1> QED
  BY <1>6, <1>7, <1>8, <1>9 DEF Inductive

(* All other steps of a worker thread leave the sessions alone. *)
LEMMA InductiveWorker ==
  ASSUME Inductive, NEW w \in Workers, Arrive(w) \/ Handle(w)
  PROVE  Inductive'
<1> USE NoneOK
    DEF Inductive, TypeOK, Known, Live, Missing, Between, Late, LookupOutcome, GoneForGood,
        NoLateUser, Issued, Paths, Expired, Goto, request, history
<1>1. ASSUME NEW p \in Paths, NEW cookie \in Issued \cup {NoToken},
             NEW bearer \in Issued \cup {NoToken}, Ask(w, p, cookie, bearer)
      PROVE Inductive'
  BY <1>1 DEF Ask, Extract
<1>2. CASE LookupNone(w)
  BY <1>2 DEF LookupNone
<1>3. CASE LookupLive(w)
  BY <1>3 DEF LookupLive
<1>4. CASE LookupExpired(w)
  BY <1>4 DEF LookupExpired
<1>5. CASE HandleOther(w)
  BY <1>5 DEF HandleOther
<1>6. ASSUME NEW u \in Users \cup {NoUser}, HandleLogin(w, u) PROVE Inductive'
  BY <1>6 DEF HandleLogin
<1>7. CASE FinishOther(w)
  BY <1>7 DEF FinishOther, Return
<1> QED
  BY <1>1, <1>2, <1>3, <1>4, <1>5, <1>6, <1>7, InductivePurge, InductiveLogin, InductiveLogout
  DEF Arrive, Handle

LEMMA InductiveClock ==
  ASSUME Inductive, NEW n \in Nat, SetNow(n), clockSteps' \in Nat
  PROVE  Inductive'
BY DEF SetNow, Inductive, TypeOK, Known, Live, Missing, Between, Late, LookupOutcome,
  GoneForGood, NoLateUser, Issued, Expired, request

LEMMA InductiveNext == Inductive /\ [Next]_vars => Inductive'
<1> SUFFICES ASSUME Inductive, [Next]_vars PROVE Inductive'
  OBVIOUS
<1>1. ASSUME NEW w \in Workers, Arrive(w) \/ Handle(w) PROVE Inductive'
  BY <1>1, InductiveWorker
<1>2. CASE Cleanup
  BY <1>2, InductiveCleanup
<1>3. CASE Tick \/ ClockStep
  <2>1. now \in Nat /\ clockSteps \in Nat
    BY DEF Inductive, TypeOK
  <2> QED
    BY <1>3, <2>1, ClockOK, InductiveClock DEF Tick, ClockStep
<1>4. CASE UNCHANGED vars
  BY <1>4 DEF vars, request, history, Inductive, TypeOK, Known, Live, Missing, Between, Late,
    LookupOutcome, GoneForGood, NoLateUser, Issued, Expired
<1> QED
  BY <1>1, <1>2, <1>3, <1>4 DEF Next

LEMMA InductiveInvariant == Spec => []Inductive
BY InductiveInit, InductiveNext, PTL DEF Spec

-------------------------------------------------------------------------------
(* Every variable keeps its type; only a user has a session. *)
THEOREM SessionTypes == Spec => []TypeOK
<1>1. Inductive => TypeOK
  BY DEF Inductive
<1> QED
  BY <1>1, InductiveInvariant, PTL

(* Whatever requests, logouts, purges and settings of the clock come in     *)
(* between the critical sections of get_session, a handler is given the     *)
(* user to whom the token was issued, and no user only when the token was   *)
(* ended by its own logout or has been overdue.                             *)
THEOREM SessionLookups == Spec => []LookupOutcome
<1>1. Inductive => LookupOutcome
  BY DEF Inductive
<1> QED
  BY <1>1, InductiveInvariant, PTL

(* What a logout has ended or get_session has once denied does not come     *)
(* back, also when the clock is set back.                                   *)
THEOREM SessionsStayGone == Spec => []GoneForGood
<1>1. Inductive => GoneForGood
  BY DEF Inductive
<1> QED
  BY <1>1, InductiveInvariant, PTL

(* A request that comes with a token already ended or denied has no user,   *)
(* for as long as it is handled.                                            *)
THEOREM SessionsHaveNoLateUser == Spec => []NoLateUser
<1>1. Inductive => NoLateUser
  BY DEF Inductive
<1> QED
  BY <1>1, InductiveInvariant, PTL
===============================================================================
