------------------------------- MODULE Handlers -------------------------------
(***************************************************************************)
(* The registered handler factories, and the status codes with which each  *)
(* handler may answer a request: one for a handler without state, and for  *)
(* the others those that the method, the path and the body leave open,     *)
(* whatever the state in their files and stores, the subject of the other  *)
(* modules, is.  Names, paths, bodies and file names are sequences of      *)
(* symbols, as in ConfigParser and RequestParser.                          *)
(***************************************************************************)
EXTENDS Integers, Sequences, SequencesExt

CONSTANTS
  ServedFiles,   \* the names of the files that can be opened
  Credentials,   \* the bodies that are JSON with a user name and a password
  Contents,      \* the bodies that are JSON with a content that is not empty
  Documents,     \* the bodies that json::parse takes
  Ids, BigIds    \* texts of digits that fit an int, and that do not

ASSUME IdsOK == Ids \cap BigIds = {}

(* HandlerRegistry::factories: how many of its arguments a factory reads.   *)
Factories == [EchoHandler |-> 1, StaticHandler |-> 2, HealthHandler |-> 1,
              NotFoundHandler |-> 1, SleepHandler |-> 0, ApiHandler |-> 2,
              GetMessagesHandler |-> 2, PostMessageHandler |-> 1,
              RegisterHandler |-> 1, LoginHandler |-> 1, LogoutHandler |-> 1]

(* createHandler succeeds: the name is registered, and the factory finds    *)
(* all arguments that it asks for.                                          *)
CanCreate(route) ==
  \E name \in DOMAIN Factories :
    route.handler = <<name>> /\ Factories[name] <= Len(route.args)

IsGet(req) == req.method = <<"GET">>

EchoStatus(req) == IF IsGet(req) THEN 200 ELSE 400

HealthStatus(args, req) ==
  CASE req.method = <<>>                   -> 400
    [] IsGet(req) /\ req.path = args[1]    -> 200
    [] OTHER                               -> 404

SleepStatus == 200
NotFoundStatus == 404

MimeTypes == {"html", "txt", "jpg", "png", "zip"}

(* The root takes the place of the prefix; what follows the last dot must   *)
(* be a known extension; a root that begins with "/" is also tried beside   *)
(* the build directory.                                                     *)
StaticStatus(args, req) ==
  LET name  == args[2] \o SubSeq(req.path, Len(args[1]) + 1, Len(req.path))
      dots  == {i \in DOMAIN name : name[i] = "."}
      typed == dots # {} /\ \E t \in MimeTypes : SubSeq(name, Max(dots) + 1, Len(name)) = <<t>>
      found == \/ name \in ServedFiles
               \/ args[2][1] = "/" /\ (<<"..">> \o name) \in ServedFiles
  IN  CASE ~IsGet(req)      -> 400
        [] typed /\ found   -> 200
        [] OTHER            -> 404

-------------------------------------------------------------------------------
(* LoginHandler, RegisterHandler, PostMessageHandler, GetMessagesHandler.   *)

IsPost(req) == req.method = <<"POST">>

LoginStatuses(req) ==
  CASE ~IsPost(req)                               -> {405}
    [] IsPost(req) /\ req.body \notin Credentials -> {400}
    [] OTHER                                      -> {200, 401}

RegisterStatuses(req) ==
  CASE ~IsPost(req)                               -> {405}
    [] IsPost(req) /\ req.body \notin Credentials -> {400}
    [] OTHER                                      -> {200, 400, 500}

(* Whether the session is a user's comes before the body. *)
PostMessageStatuses(req) ==
  CASE ~IsPost(req)                            -> {405}
    [] IsPost(req) /\ req.body \notin Contents -> {400, 401}
    [] OTHER                                   -> {201, 401}

GetMessagesStatuses(args, req) ==
  CASE ~IsGet(req)                            -> {405}
    [] IsGet(req) /\ req.path # args[1]       -> {404}
    [] OTHER                                  -> {200, 500}

(* ApiHandler::parse_path: what follows the mount is "/entity" or           *)
(* "/entity/id".                                                            *)
IsCollection(rest) == Len(rest) > 1 /\ rest[1] = "/" /\ "/" \notin Range(Tail(rest))

IsObject(rest, ids) ==
  LET n == Len(rest)
  IN  n > 3 /\ IsCollection(SubSeq(rest, 1, n - 2)) /\ rest[n - 1] = "/" /\ rest[n] \in ids

BehindMount(args, req) == SubSeq(req.path, Len(args[1]) + 1, Len(req.path))

ApiStatuses(args, req) ==
  LET rest       == BehindMount(args, req)
      collection == IsCollection(rest)
      object     == IsObject(rest, Ids)
      method     == req.method
  IN  CASE IsObject(rest, BigIds)                    -> {}      \* std::stoi throws
        [] collection /\ method = <<"POST">>         -> {201, 500}
        [] collection /\ method = <<"GET">>          -> {200, 404}
        [] object /\ method = <<"GET">>              -> {200, 404}
        [] object /\ method = <<"PUT">>              ->
             IF req.body \in Documents THEN {200, 500} ELSE {400}
        [] object /\ method = <<"DELETE">>           -> {200, 404, 500}
        [] ~collection /\ ~object /\ ~IsObject(rest, BigIds) -> {404}
        [] OTHER                                     -> {400}

-------------------------------------------------------------------------------
(* What a route may answer. *)
Statuses(route, req) ==
  CASE route.handler = <<"EchoHandler">>        -> {EchoStatus(req)}
    [] route.handler = <<"HealthHandler">>      -> {HealthStatus(route.args, req)}
    [] route.handler = <<"SleepHandler">>       -> {SleepStatus}
    [] route.handler = <<"NotFoundHandler">>    -> {NotFoundStatus}
    [] route.handler = <<"StaticHandler">>      -> {StaticStatus(route.args, req)}
    [] route.handler = <<"LogoutHandler">>      -> {200}
    [] route.handler = <<"LoginHandler">>       -> LoginStatuses(req)
    [] route.handler = <<"RegisterHandler">>    -> RegisterStatuses(req)
    [] route.handler = <<"PostMessageHandler">> -> PostMessageStatuses(req)
    [] route.handler = <<"GetMessagesHandler">> -> GetMessagesStatuses(route.args, req)
    [] route.handler = <<"ApiHandler">>         -> ApiStatuses(route.args, req)
    [] OTHER                                    -> {}

(* Which calls may leave the handler with an exception: the file system's   *)
(* (fs::exists, directory_iterator, fs::current_path), that of std::stoi    *)
(* and those of JSON that is not a parse_error.  LoginHandler and           *)
(* RegisterHandler catch everything.                                        *)
CanThrow(route, req) ==
  \/ /\ route.handler = <<"ApiHandler">>
     /\ LET rest == BehindMount(route.args, req)
        IN  IsCollection(rest) \/ IsObject(rest, Ids \cup BigIds)
  \/ route.handler = <<"PostMessageHandler">>
  \/ /\ route.handler = <<"GetMessagesHandler">>
     /\ IsGet(req) /\ req.path = route.args[1]

(* The handlers that parse the body of such a request, and whether they can.*)
ReadsBody(route, req) ==
  \/ route.handler \in {<<"LoginHandler">>, <<"RegisterHandler">>, <<"PostMessageHandler">>}
     /\ IsPost(req)
  \/ route.handler = <<"ApiHandler">> /\ req.method = <<"PUT">>

BodyParses(route, req) ==
  CASE route.handler = <<"PostMessageHandler">> -> req.body \in Contents
    [] route.handler = <<"ApiHandler">>         -> req.body \in Documents
    [] OTHER                                    -> req.body \in Credentials
===============================================================================
