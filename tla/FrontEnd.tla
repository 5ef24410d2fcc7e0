------------------------------- MODULE FrontEnd -------------------------------
(***************************************************************************)
(* The server from main to the choice of a handler: parseConfig fills       *)
(* Dispatcher::routes, main listens whatever its result is, and the worker  *)
(* threads parse what one read has given them and look for the longest      *)
(* registered prefix of the path.  routes, an unordered_map, is shared      *)
(* without a lock: while one worker inserts into it, what others find there *)
(* is left open.                                                           *)
(*                                                                         *)
(* A request may reach the server in pieces; what the first read returns    *)
(* is all that is ever looked at.                                          *)
(***************************************************************************)
EXTENDS ConfigParser, RequestParser, Handlers

CONSTANTS
  Workers,    \* the threads that run handle_read
  Files,      \* configuration files, as texts
  Unreadable, \* a file that cannot be opened
  Unset,      \* the int was never assigned
  Number,     \* symbol -> the int that std::stoi reads at its beginning
  Ports,      \* values of an int that was never assigned
  Requests    \* what clients send

NoConfig == [ok |-> FALSE, statements |-> <<>>]
NoRoutes == [p \in {} |-> <<>>]
None     == [handler |-> <<>>, args |-> <<>>]   \* an empty std::function

ASSUME NumberOK == \A c \in DOMAIN Number : Number[c] \in Int
(* Texts are sequences of symbols. *)
ASSUME TextsOK == \A t \in (Files \ {Unreadable}) \cup Requests : t \in Seq(Range(t))
ASSUME PortsOK  == Ports \subseteq Int /\ Unset \notin Int

VARIABLES
  phase,      \* "start", "parsed", "listen", "serve", "ended"
  file,       \* the configuration file, until main listens
  config,     \* what NginxConfigParser has made of it, until main listens
  port,       \* main's int, later the port that the acceptor is bound to
  routes,     \* Dispatcher::routes: path -> handler name and arguments
  pc,         \* worker -> "idle", "match", "insert", "call"
  req,        \* the request that a worker has parsed
  todo,       \* the keys its loop in match has not seen
  longest,    \* longestMatch
  reply       \* its last status, 0 while there is none

(* History variables. *)
VARIABLES
  accepted,   \* what parseConfig returned
  sent        \* the whole request of which a worker has read the beginning

worker == <<pc, req, todo, longest, reply, sent>>
vars   == <<phase, file, config, port, routes, pc, req, todo, longest, reply, accepted, sent>>

Put(f, i, v) == [j \in DOMAIN f \cup {i} |-> IF j = i THEN v ELSE f[j]]

-------------------------------------------------------------------------------
(* parseConfig *)

(* The indices of the top-level statements. *)
Tops(s) ==
  LET ifTop(tops, i) == IF s[i].depth = 0 THEN Append(tops, i) ELSE tops
  IN  FoldLeftDomain(ifTop, <<>>, s)

(* Each of them with its child block. *)
Sections(s) ==
  LET tops == Tops(s)
  IN  [n \in DOMAIN tops |-> [tokens |-> s[tops[n]].tokens, block |-> ChildBlock(s, tops[n])]]

IsPort(section) == Len(section.tokens) = 2 /\ section.tokens[1] = <<"port">>
IsLocation(section) == Len(section.tokens) >= 3 /\ section.tokens[1] = <<"location">>

(* The path, then the second token of each statement of the block that has  *)
(* one.                                                                     *)
Arguments(section) ==
  LET hasValue(s) == Len(s.tokens) >= 2
      values == SelectSeq(section.block, hasValue)
  IN  <<section.tokens[2]>> \o [n \in DOMAIN values |-> values[n].tokens[2]]

RouteOf(section) == [handler |-> section.tokens[3], args |-> Arguments(section)]

EndsInSlash(path) == Last(path) = "/"

ReadPort(c, section) ==
  LET digits == section.tokens[2][1]
  IN  IF digits \in DOMAIN Number THEN [c EXCEPT !.port = Number[digits]]
                                  ELSE [c EXCEPT !.status = "threw"]

(* Seeded bug: a path may be registered twice. *)
ReadLocationAgain(c, section) ==
  LET path == section.tokens[2]
  IN  IF EndsInSlash(path) THEN [c EXCEPT !.status = "refused"]
      ELSE [c EXCEPT !.routes = Put(@, path, RouteOf(section))]

(* A trailing slash or a path seen before: parseConfig returns at once.     *)
ReadLocation(c, section) ==
  LET path == section.tokens[2]
  IN  IF EndsInSlash(path) \/ path \in DOMAIN c.routes THEN [c EXCEPT !.status = "refused"]
      ELSE [c EXCEPT !.routes = Put(@, path, RouteOf(section))]

(* One turn of the loop of parseConfig. *)
ReadSection(c, section) ==
  CASE c.status # "accepted" -> c
    [] c.status = "accepted" /\ IsPort(section) -> ReadPort(c, section)
    [] c.status = "accepted" /\ IsLocation(section) -> ReadLocation(c, section)
    [] OTHER -> c

ParseFile(f) == IF f = Unreadable THEN NoConfig ELSE Parse(f)

NothingRead == [status |-> "accepted", port |-> Unset, routes |-> NoRoutes]

ReadSections(c) == FoldLeft(ReadSection, NothingRead, Sections(c.statements))

NotFound == [handler |-> <<"NotFoundHandler">>, args |-> <<<<"/">>>>]

(* The end of parseConfig, which no return in the loop reaches.             *)
WithNotFound(r) ==
  IF r.status = "accepted" THEN [r EXCEPT !.routes = Put(@, <<"/">>, NotFound)] ELSE r

(* Seeded bug: nothing serves "/". *)
ParseConfigOnly(c) ==
  IF c.ok THEN ReadSections(c) ELSE [NothingRead EXCEPT !.status = "refused"]

(* A file that does not parse leaves no route; one that is read to its end  *)
(* is given NotFoundHandler for "/".                                        *)
ParseConfig(c) ==
  IF c.ok THEN WithNotFound(ReadSections(c)) ELSE [NothingRead EXCEPT !.status = "refused"]

(* Seeded bug: the port is not brought into the range of a port. *)
AsPortUnchanged(n) == n

(* int to short to the 16 bits of a port. *)
AsPort(n) == n % 2^16

-------------------------------------------------------------------------------
Init ==
  /\ phase = "start"
  /\ file \in Files
  /\ config = NoConfig
  /\ port = Unset
  /\ routes = NoRoutes
  /\ pc = [w \in Workers |-> "idle"]
  /\ req = [w \in Workers |-> Malformed]
  /\ todo = [w \in Workers |-> {}]
  /\ longest = [w \in Workers |-> <<>>]
  /\ reply = [w \in Workers |-> 0]
  /\ accepted = FALSE
  /\ sent = [w \in Workers |-> <<>>]

(* The call of Parse with which parseConfig begins. *)
ReadFile ==
  /\ phase = "start"
  /\ phase' = "parsed"
  /\ config' = ParseFile(file)
  /\ UNCHANGED <<file, port, routes, accepted, worker>>

(* The rest of parseConfig.  main does not look at what it returns;         *)
(* std::stoi's exception reaches main's catch clause and ends it.           *)
ReadConfig ==
  /\ phase = "parsed"
  /\ LET c == ParseConfig(config)
     IN  /\ port' = c.port
         /\ routes' = c.routes
         /\ accepted' = (c.status = "accepted")
         /\ phase' = IF c.status = "threw" THEN "ended" ELSE "listen"
  /\ UNCHANGED <<file, config, worker>>

(* The acceptor and the threads; a port that no statement has set is        *)
(* whatever the int held.                                                   *)
Listen ==
  /\ phase = "listen"
  /\ phase' = "serve"
  /\ \E n \in IF port = Unset THEN Ports ELSE {port} : port' = AsPort(n)
  /\ file' = <<>> /\ config' = NoConfig
  /\ UNCHANGED <<routes, accepted, worker>>

(* The port is taken or not permitted: the constructor throws, main ends.   *)
ListenFails ==
  /\ phase = "listen"
  /\ phase' = "ended"
  /\ file' = <<>> /\ config' = NoConfig
  /\ UNCHANGED <<port, routes, accepted, worker>>

-------------------------------------------------------------------------------
(* handle_read, on a worker thread *)

(* The first n bytes of r have come.  A request that does not parse is      *)
(* answered with 400, any other goes to Dispatcher::match.                  *)
Receive(w, r, n) ==
  /\ phase = "serve"
  /\ pc[w] = "idle"
  /\ LET q == ParseRequest(SubSeq(r, 1, n))
     IN  IF q = Malformed
           THEN /\ reply' = [reply EXCEPT ![w] = 400]
                /\ UNCHANGED <<pc, req, todo, longest, sent>>
           ELSE /\ pc' = [pc EXCEPT ![w] = "match"]
                /\ req' = [req EXCEPT ![w] = q]
                /\ sent' = [sent EXCEPT ![w] = r]
                /\ todo' = [todo EXCEPT ![w] = DOMAIN routes]
                /\ longest' = [longest EXCEPT ![w] = <<>>]
                /\ reply' = [reply EXCEPT ![w] = 0]
  /\ UNCHANGED <<phase, file, config, port, routes, accepted>>

(* Seeded bug: the match that is seen last is taken. *)
LongerAlways(key, best) == TRUE

Longer(key, best) == Len(key) > Len(best)

(* Seeded bug: the loop ends at the first match. *)
ConsiderFirst(w, key) ==
  /\ phase = "serve"
  /\ pc[w] = "match"
  /\ key \in todo[w]
  /\ todo' = [todo EXCEPT ![w] = IF IsPrefix(key, req[w].path) THEN {} ELSE @ \ {key}]
  /\ longest' = IF IsPrefix(key, req[w].path) THEN [longest EXCEPT ![w] = key] ELSE longest
  /\ UNCHANGED <<phase, file, config, port, routes, accepted, pc, req, reply, sent>>

(* One turn of the loop of match; routes is iterated in no particular       *)
(* order.                                                                   *)
Consider(w, key) ==
  /\ phase = "serve"
  /\ pc[w] = "match"
  /\ key \in todo[w]
  /\ todo' = [todo EXCEPT ![w] = @ \ {key}]
  /\ longest' = IF IsPrefix(key, req[w].path) /\ Longer(key, longest[w])
                  THEN [longest EXCEPT ![w] = key] ELSE longest
  /\ UNCHANGED <<phase, file, config, port, routes, accepted, pc, req, reply, sent>>

(* Somebody else is inserting into routes. *)
Disturbed(w) == \E v \in Workers \ {w} : pc[v] = "insert"

(* The data race.  Beside an insertion, which may rehash the table, a loop  *)
(* skips keys or meets them again ...                                       *)
Stray(w) ==
  /\ phase = "serve"
  /\ pc[w] = "match" /\ Disturbed(w)
  /\ todo' \in {[todo EXCEPT ![w] = keys] : keys \in SUBSET DOMAIN routes}
  /\ UNCHANGED <<phase, file, config, port, routes, accepted, pc, req, longest, reply, sent>>

(* ... or the process faults: on a link that is not valid any more, or on   *)
(* the empty function that a look-up which misses its key returns.          *)
RaceFaults(w) ==
  /\ phase = "serve"
  /\ pc[w] \in {"match", "insert"} /\ Disturbed(w)
  /\ phase' = "ended"
  /\ UNCHANGED <<file, config, port, routes, accepted, worker>>

(* Seeded bug: match remembers what it has found. *)
ChooseCached(w) ==
  /\ phase = "serve"
  /\ pc[w] = "match" /\ todo[w] = {}
  /\ longest[w] \in DOMAIN routes
  /\ pc' = [pc EXCEPT ![w] = "call"]
  /\ routes' = Put(routes, req[w].path, routes[longest[w]])
  /\ UNCHANGED <<phase, file, config, port, accepted, req, todo, longest, reply, sent>>

(* routes[longestMatch] finds the key ...                                   *)
Choose(w) ==
  /\ phase = "serve"
  /\ pc[w] = "match" /\ todo[w] = {}
  /\ longest[w] \in DOMAIN routes
  /\ pc' = [pc EXCEPT ![w] = "call"]
  /\ UNCHANGED <<phase, file, config, port, routes, accepted, req, todo, longest, reply, sent>>

(* ... or, as nothing has matched, begins to insert the empty path ...      *)
BeginInsert(w) ==
  /\ phase = "serve"
  /\ pc[w] = "match" /\ todo[w] = {}
  /\ longest[w] \notin DOMAIN routes
  /\ pc' = [pc EXCEPT ![w] = "insert"]
  /\ UNCHANGED <<phase, file, config, port, routes, accepted, req, todo, longest, reply, sent>>

(* ... with an empty function.                                              *)
Insert(w) ==
  /\ phase = "serve"
  /\ pc[w] = "insert"
  /\ pc' = [pc EXCEPT ![w] = "call"]
  /\ routes' = Put(routes, longest[w], None)
  /\ UNCHANGED <<phase, file, config, port, accepted, req, todo, longest, reply, sent>>

(* The factory makes the handler, the handler answers, and the request and  *)
(* the locals of match are gone.                                            *)
Call(w) ==
  /\ phase = "serve"
  /\ pc[w] = "call"
  /\ CanCreate(routes[longest[w]])
  /\ \E status \in Statuses(routes[longest[w]], req[w]) :
       reply' = [reply EXCEPT ![w] = status]
  /\ pc' = [pc EXCEPT ![w] = "idle"]
  /\ req' = [req EXCEPT ![w] = Malformed]
  /\ sent' = [sent EXCEPT ![w] = <<>>]
  /\ longest' = [longest EXCEPT ![w] = <<>>]
  /\ UNCHANGED <<phase, file, config, port, routes, accepted, todo>>

(* An empty function, a null handler or a missing argument: the exception,  *)
(* or the fault, ends the process ...                                       *)
CallFails(w) ==
  /\ phase = "serve"
  /\ pc[w] = "call"
  /\ ~CanCreate(routes[longest[w]])
  /\ phase' = "ended"
  /\ UNCHANGED <<file, config, port, routes, accepted, worker>>

(* ... and so does an exception that the handler lets out.                  *)
CallThrows(w) ==
  /\ phase = "serve"
  /\ pc[w] = "call"
  /\ CanCreate(routes[longest[w]]) /\ CanThrow(routes[longest[w]], req[w])
  /\ phase' = "ended"
  /\ UNCHANGED <<file, config, port, routes, accepted, worker>>

Next ==
  \/ ReadFile \/ ReadConfig \/ Listen \/ ListenFails
  \/ \E w \in Workers :
       \/ \E r \in Requests : \E n \in 1 .. Len(r) : Receive(w, r, n)
       \/ \E key \in todo[w] : Consider(w, key)
       \/ Stray(w) \/ RaceFaults(w)
       \/ Choose(w) \/ BeginInsert(w) \/ Insert(w)
       \/ Call(w) \/ CallFails(w) \/ CallThrows(w)

Spec == Init /\ [][Next]_vars

-------------------------------------------------------------------------------
(* Properties *)

(* Every variable keeps its type; the acceptor has the number of a port.    *)
TypeOK ==
  /\ phase \in {"start", "parsed", "listen", "serve", "ended"}
  /\ phase = "serve" => port \in 0 .. 2^16 - 1
  /\ \A p \in DOMAIN routes : DOMAIN routes[p] = {"handler", "args"}
  /\ pc \in [Workers -> {"idle", "match", "insert", "call"}]
  /\ \A w \in Workers : DOMAIN req[w] = {"method", "path", "headers", "body"}
  /\ \A w \in Workers : todo[w] \subseteq DOMAIN routes
  /\ \A w \in Workers : pc[w] = "call" => longest[w] \in DOMAIN routes
  /\ \A w \in Workers : reply[w] \in {0, 200, 201, 400, 401, 404, 405, 500}
  /\ accepted \in BOOLEAN

(* The parser accepts the language of the grammar of ConfigParser and no    *)
(* other text, whatever comments and quotes it has (NginxConfigParser).     *)
AcceptedIsGrammar ==
  phase = "parsed" /\ file # Unreadable => (config.ok <=> IsConfig(Lex(file)))

(* A text without its blanks and ends of lines. *)
Ink(text) ==
  FlattenSeq([i \in DOMAIN text |-> IF IsWhiteSpace(text[i]) THEN <<>> ELSE <<text[i]>>])

(* What ToString prints of a file that was accepted gives, parsed again, the*)
(* same statements in the same blocks, with their quotes; and the two texts *)
(* differ in blanks and comments only.                                      *)
PrintedIsRead ==
  phase = "parsed" /\ config.ok =>
    LET printed == ConfigToString(config.statements)
    IN  Parse(printed) = config /\ ("#" \in Range(file) \/ Ink(printed) = Ink(file))

(* parseConfig leaves exactly the routes that the file declares in front of *)
(* its first mistake, each with the handler and the arguments of its first  *)
(* declaration, and "/" only when there is no mistake; the last port in     *)
(* front of the mistake counts.  main listens with just that.               *)
RoutesAsDeclared ==
  phase = "listen" =>
    LET s == Sections(config.statements)
        path(i) == s[i].tokens[2]
        locations == {i \in DOMAIN s : IsLocation(s[i])}
        ports == {i \in DOMAIN s : IsPort(s[i])}
        mistakes == {i \in locations :
                      EndsInSlash(path(i)) \/ \E j \in locations : j < i /\ path(j) = path(i)}
        stop == IF mistakes = {} THEN Len(s) + 1 ELSE Min(mistakes)
        declared == IF config.ok THEN {i \in locations : i < stop} ELSE {}
        portSet  == IF config.ok THEN {i \in ports : i < stop} ELSE {}
    IN  /\ accepted <=> config.ok /\ mistakes = {}
        /\ DOMAIN routes = {path(i) : i \in declared} \cup (IF accepted THEN {<<"/">>} ELSE {})
        /\ \A i \in declared : routes[path(i)] = RouteOf(s[i])
        /\ port = IF portSet = {} THEN Unset ELSE Number[s[Max(portSet)].tokens[2][1]]

(* The registered prefixes of a path, and the route of the longest of them. *)
PrefixesOf(path) == {p \in DOMAIN routes : IsPrefix(p, path)}
LongestOf(path)  == CHOOSE p \in PrefixesOf(path) : \A q \in PrefixesOf(path) : Len(q) <= Len(p)

(* No route was declared for a path; and a worker that has come so far with *)
(* such a request that it ends the process, unless another one does first.  *)
Unroutable(path) == PrefixesOf(path) \subseteq {<<>>}
Doomed(w) == pc[w] \in {"insert", "call"} /\ longest[w] = <<>> /\ Unroutable(req[w].path)

(* Whatever the order of the iteration, match ends with the one longest     *)
(* registered prefix of the path.  Only beside a request without a route,   *)
(* which is about to end the process, may the race on routes make another   *)
(* worker miss it; it takes a prefix even then.                             *)
LongestPrefix ==
  \A w \in Workers : pc[w] = "call" =>
    /\ longest[w] \in PrefixesOf(req[w].path)
    /\ \/ \A p \in PrefixesOf(req[w].path) : Len(p) <= Len(longest[w])
       \/ \E v \in Workers : Doomed(v)

(* However little of a request the first read returns: if that parses, its  *)
(* method and path are those of the request, it has no header that the      *)
(* request has not, and its body is the beginning of the request's.         *)
PieceIsOfRequest ==
  \A w \in Workers : pc[w] # "idle" =>
    LET whole == ParseRequest(sent[w])
    IN  /\ req[w].method = whole.method /\ req[w].path = whole.path
        /\ DOMAIN req[w].headers \subseteq DOMAIN whole.headers
        /\ IsPrefix(req[w].body, whole.body)

(* A request that has come in part is answered as the whole of it would be, *)
(* by the handler of the longest prefix of its whole path.  What may differ *)
(* is a body that the handler parses: if it was cut, a request that would   *)
(* succeed is answered with 400 - nothing else - and one that would be      *)
(* refused may succeed.                                                     *)
AnsweredAsWhole ==
  [][\A w \in Workers : pc[w] = "call" /\ pc'[w] = "idle" =>
       LET whole == ParseRequest(sent[w])
           route == routes[LongestOf(whole.path)]
       IN  \/ \E v \in Workers : Doomed(v)
           \/ reply'[w] \in Statuses(route, whole)
           \/ /\ ReadsBody(route, whole) /\ req[w].body # whole.body
              /\ reply'[w] = 400 \/ ~BodyParses(route, whole)]_vars

(* While the server runs its table of routes, which all workers read without*)
(* a lock, is never written, except when some request has no route at all:  *)
(* then an entry is added that makes no handler, and no other one changes.  *)
RoutesFrozen ==
  [][phase = "serve" /\ routes' # routes =>
       /\ \E w \in Workers : pc[w] \in {"insert", "call"} /\ Unroutable(req[w].path)
       /\ \A p \in DOMAIN routes : p \in DOMAIN routes' /\ routes'[p] = routes[p]
       /\ \A p \in DOMAIN routes' \ DOMAIN routes : ~CanCreate(routes'[p])]_vars

(* With a configuration that parseConfig accepted and whose routes can all  *)
(* make their handlers, what ends the process is a request whose path does  *)
(* not begin with "/" or one whose handler lets an exception out, as only   *)
(* ApiHandler, PostMessageHandler and GetMessagesHandler may.  The race on  *)
(* routes needs the first of them, too.                                     *)
AcceptedServes ==
  [][phase = "serve" /\ phase' = "ended" =>
       \/ ~accepted
       \/ \E p \in DOMAIN routes \ {<<>>} : ~CanCreate(routes[p])
       \/ \E w \in Workers : pc[w] \in {"insert", "call"} /\ ~IsPrefix(<<"/">>, req[w].path)
       \/ \E w \in Workers : /\ pc[w] = "call" /\ longest[w] # <<>>
                            /\ CanThrow(routes[longest[w]], req[w])]_vars
===============================================================================
