------------------------------- MODULE Sessions -------------------------------
(***************************************************************************)
(* Login sessions: SessionMiddlewareHandler around any handler, and the    *)
(* SessionStore singleton, executed by several worker threads.             *)
(*                                                                         *)
(* Every critical section of SessionStore::mutex_ is one action here, so   *)
(* the mutex itself needs no variable; get_session has two of them, with a *)
(* gap in between.  Routes are matched by prefix, so a path like "/logout/"*)
(* reaches the logout handler too, while the middleware compares the whole *)
(* path: "login/" and "logout/" below stand for such longer paths.         *)
(*                                                                         *)
(* Tokens are fresh: generate_session_token draws 128 random bits, under   *)
(* the unique lock of create_session.                                      *)
(***************************************************************************)
EXTENDS Naturals, Functions

CONSTANTS
  Workers, Users, Tokens,
  NoUser, NoToken,  \* an empty optional
  Life,             \* expiry of a session, 24 hours in the code
  MaxTime,          \* bound on the clock
  MaxClockSteps     \* bound on adjustments of the system clock

ASSUME NoneOK   == NoUser \notin Users /\ NoToken \notin Tokens
ASSUME ClockOK  == Life \in Nat /\ MaxTime \in Nat /\ MaxClockSteps \in Nat

VARIABLES
  sessions,   \* token -> [user, expires]
  now,        \* std::chrono::system_clock
  pc,         \* where each worker is
  path,       \* the path of its request
  token,      \* session_token, what extract_session_token returned
  ctx,        \* session_context.user_id of the modified request
  who         \* the user a login handler answered 200 for

(* History variables. *)
VARIABLES
  owner,      \* every token ever issued -> the user it was issued to
  ended,      \* tokens invalidated by a logout
  overdue,    \* tokens whose time of expiry has passed at some moment
  refused,    \* issued tokens that get_session has answered with nullptr
  late,       \* workers whose request came with a token already over
  clockSteps

history == <<owner, ended, overdue, refused, late, clockSteps>>
request == <<path, token, ctx, who>>
vars    == <<sessions, now, pc, request, history>>

(* What Dispatcher::match and the comparisons of the middleware tell apart. *)
Paths   == {"login", "login/", "logout", "logout/", "page"}
Issued  == DOMAIN owner

Put(f, i, v)  == [j \in DOMAIN f \cup {i} |-> IF j = i THEN v ELSE f[j]]
Erase(f, S)   == Restrict(f, DOMAIN f \ S)
Expired(t, n) == n > sessions[t].expires

Goto(w, from, to) == pc[w] = from /\ pc' = [pc EXCEPT ![w] = to]

(* The response goes out and the handler, with its copy of the request, is  *)
(* destroyed.                                                               *)
Return(w) ==
  /\ Goto(w, "after", "idle")
  /\ path' = [path EXCEPT ![w] = "page"]
  /\ token' = [token EXCEPT ![w] = NoToken]
  /\ ctx' = [ctx EXCEPT ![w] = NoUser]
  /\ who' = [who EXCEPT ![w] = NoUser]
  /\ late' = late \ {w}

Init ==
  /\ sessions = [t \in {} |-> 0]
  /\ now = 0
  /\ pc = [w \in Workers |-> "idle"]
  /\ path = [w \in Workers |-> "page"]
  /\ token = [w \in Workers |-> NoToken]
  /\ ctx = [w \in Workers |-> NoUser]
  /\ who = [w \in Workers |-> NoUser]
  /\ owner = [t \in {} |-> NoUser]
  /\ ended = {} /\ overdue = {} /\ refused = {} /\ late = {}
  /\ clockSteps = 0

-------------------------------------------------------------------------------
(* Seeded bugs: each takes the place of the action it is named after, to    *)
(* show that a property notices it.                                        *)

(* The status of the login is not looked at. *)
FinishAnyLogin(w) ==
  /\ path[w] = "login"
  /\ \E t \in Tokens \ Issued :
       /\ sessions' = Put(sessions, t, [user |-> who[w], expires |-> now + Life])
       /\ owner' = Put(owner, t, who[w])
  /\ Return(w)
  /\ UNCHANGED <<now, ended, overdue, refused, clockSteps>>

(* A logout drops all sessions of the user. *)
FinishLogoutOfUser(w) ==
  /\ path[w] = "logout" /\ token[w] # NoToken
  /\ sessions' = Erase(sessions, {t \in DOMAIN sessions : sessions[t].user = ctx[w]})
  /\ ended' = ended \cup {token[w]}
  /\ Return(w)
  /\ UNCHANGED <<now, owner, overdue, refused, clockSteps>>

(* An expired session is refused but kept. *)
PurgeNothing(w) ==
  /\ Goto(w, "purge", "handle")
  /\ refused' = refused \cup {token[w]}
  /\ UNCHANGED <<sessions, now, request, owner, ended, overdue, late, clockSteps>>

-------------------------------------------------------------------------------
(* SessionMiddlewareHandler::handle_request *)

(* extract_session_token: the cookie if there is one, else the bearer.      *)
Extract(cookie, bearer) == IF cookie # NoToken THEN cookie ELSE bearer

(* A request arrives; the context of its copy is clear. *)
Ask(w, p, cookie, bearer) ==
  /\ Goto(w, "idle", "lookup")
  /\ path' = [path EXCEPT ![w] = p]
  /\ token' = [token EXCEPT ![w] = Extract(cookie, bearer)]
  /\ late' = IF Extract(cookie, bearer) \in ended \cup refused THEN late \cup {w} ELSE late
  /\ UNCHANGED <<sessions, now, ctx, who, owner, ended, overdue, refused, clockSteps>>

(* SessionStore::get_session under the shared lock. *)
LookupNone(w) ==
  /\ token[w] \notin DOMAIN sessions
  /\ refused' = IF token[w] = NoToken THEN refused ELSE refused \cup {token[w]}
  /\ Goto(w, "lookup", "handle")
  /\ UNCHANGED <<sessions, now, request, owner, ended, overdue, late, clockSteps>>

LookupLive(w) ==
  /\ token[w] \in DOMAIN sessions
  /\ ~Expired(token[w], now)
  /\ ctx' = [ctx EXCEPT ![w] = sessions[token[w]].user]
  /\ Goto(w, "lookup", "handle")
  /\ UNCHANGED <<sessions, now, path, token, who, history>>

LookupExpired(w) ==
  /\ token[w] \in DOMAIN sessions
  /\ Expired(token[w], now)
  /\ Goto(w, "lookup", "purge")
  /\ UNCHANGED <<sessions, now, request, history>>

(* ... and, when the session had expired, under the unique lock, which is   *)
(* taken after the shared one has been given up.                            *)
Purge(w) ==
  /\ Goto(w, "purge", "handle")
  /\ sessions' = Erase(sessions, {token[w]})
  /\ refused' = refused \cup {token[w]}
  /\ UNCHANGED <<now, request, owner, ended, overdue, late, clockSteps>>

(* next_handler_: a login handler answers 200 for a user or not, a logout   *)
(* handler always answers 200, any other leaves the sessions alone.         *)
HandleLogin(w, u) ==
  /\ path[w] \in {"login", "login/"}
  /\ Goto(w, "handle", "after")
  /\ who' = [who EXCEPT ![w] = u]
  /\ UNCHANGED <<sessions, now, path, token, ctx, history>>

HandleOther(w) ==
  /\ path[w] \notin {"login", "login/"}
  /\ Goto(w, "handle", "after")
  /\ UNCHANGED <<sessions, now, request, history>>

(* create_session after a login that was answered 200. *)
FinishLogin(w) ==
  /\ path[w] = "login" /\ who[w] # NoUser
  /\ \E t \in Tokens \ Issued :
       /\ sessions' = Put(sessions, t, [user |-> who[w], expires |-> now + Life])
       /\ owner' = Put(owner, t, who[w])
  /\ Return(w)
  /\ UNCHANGED <<now, ended, overdue, refused, clockSteps>>

(* invalidate_session after a logout. *)
FinishLogout(w) ==
  /\ path[w] = "logout" /\ token[w] # NoToken
  /\ sessions' = Erase(sessions, {token[w]})
  /\ ended' = ended \cup {token[w]}
  /\ Return(w)
  /\ UNCHANGED <<now, owner, overdue, refused, clockSteps>>

(* Every other response goes out as it is, a 200 of the handlers behind     *)
(* "login/" and "logout/" included.                                         *)
FinishOther(w) ==
  /\ path[w] # "login" \/ who[w] = NoUser
  /\ path[w] # "logout" \/ token[w] = NoToken
  /\ Return(w)
  /\ UNCHANGED <<sessions, now, owner, ended, overdue, refused, clockSteps>>

-------------------------------------------------------------------------------
(* cleanup_expired_sessions, part of the interface of SessionStore; nothing *)
(* in the server calls it.                                                  *)
Cleanup ==
  /\ sessions' = Erase(sessions, {t \in DOMAIN sessions : Expired(t, now)})
  /\ UNCHANGED <<now, pc, request, history>>

(* The system clock: it runs, and now and then it is set. *)
SetNow(n) ==
  /\ now' = n
  /\ overdue' = overdue \cup {t \in DOMAIN sessions : Expired(t, n)}
  /\ UNCHANGED <<sessions, pc, request, owner, ended, refused, late>>

Tick == now < MaxTime /\ SetNow(now + 1) /\ clockSteps' = clockSteps

ClockStep ==
  /\ clockSteps < MaxClockSteps
  /\ clockSteps' = clockSteps + 1
  /\ \E n \in 0 .. MaxTime : SetNow(n)

-------------------------------------------------------------------------------
Arrive(w) ==
  \E p \in Paths, cookie, bearer \in Issued \cup {NoToken} : Ask(w, p, cookie, bearer)

Handle(w) ==
  \/ LookupNone(w) \/ LookupLive(w) \/ LookupExpired(w) \/ Purge(w)
  \/ HandleOther(w)
  \/ \E u \in Users \cup {NoUser} : HandleLogin(w, u)
  \/ FinishLogin(w) \/ FinishLogout(w) \/ FinishOther(w)

Next ==
  \/ \E w \in Workers : Arrive(w) \/ Handle(w)
  \/ Cleanup \/ Tick \/ ClockStep

Spec == Init /\ [][Next]_vars

-------------------------------------------------------------------------------
(* Properties *)

(* Every variable keeps its type: only a user has a session. *)
TypeOK ==
  /\ DOMAIN sessions \subseteq Issued
  /\ \A t \in DOMAIN sessions : sessions[t].user \in Users /\ sessions[t].expires \in Nat
  /\ now \in Nat
  /\ pc \in [Workers -> {"idle", "lookup", "purge", "handle", "after"}]
  /\ path \in [Workers -> Paths]
  /\ token \in [Workers -> Tokens \cup {NoToken}]
  /\ ctx \in [Workers -> Users \cup {NoUser}]
  /\ who \in [Workers -> Users \cup {NoUser}]
  /\ Issued \subseteq Tokens /\ \A t \in Issued : owner[t] \in Users
  /\ ended \subseteq Tokens /\ overdue \subseteq Tokens /\ refused \subseteq Tokens
  /\ late \subseteq Workers
  /\ clockSteps \in Nat

(* What a handler sees as the user is the one the token was issued to; and  *)
(* a token is denied only after its own logout or after its time, whatever  *)
(* other requests, logouts and purges of expired sessions do meanwhile.     *)
LookupOutcome ==
  \A w \in Workers :
    pc[w] \in {"handle", "after"} /\ token[w] # NoToken =>
      \/ ctx[w] = owner[token[w]]
      \/ ctx[w] = NoUser /\ token[w] \in ended \cup overdue

(* A session that a logout has ended, or whose token has once been denied,  *)
(* is over for good: it does not come back when the clock is set back       *)
(* between the two critical sections of get_session or later.               *)
GoneForGood == (ended \cup refused) \cap DOMAIN sessions = {}

(* A handler may go on working for a user whose session another request has *)
(* ended meanwhile, but only if its own request came before that end: a     *)
(* request that comes with a token already ended or denied has no user.     *)
NoLateUser == \A w \in late : ctx[w] = NoUser

-------------------------------------------------------------------------------
(* What the documentation says and the code does not do. *)

(* "Manages user logout by invalidating a session token": a logout answered *)
(* with 200 has ended the session of the token it carried.                  *)
LogoutInvalidates ==
  [][\A w \in Workers :
       /\ pc[w] = "after" /\ pc'[w] = "idle"
       /\ path[w] \in {"logout", "logout/"} /\ token[w] # NoToken
       => token[w] \notin DOMAIN sessions']_vars
===============================================================================
