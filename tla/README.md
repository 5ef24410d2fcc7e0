# A TLA+ model of http-web-server

The repository is a small multi-threaded HTTP server in C++ (Boost.Asio): an
accept loop, four worker threads, a prefix router, and handlers for static
files, a CRUD interface over files, accounts with login sessions, and a message
board. This directory holds TLA+ modules of the parts in which threads, files
and restarts meet and of the parsers and the router in front of them, TLC configurations that check them on small instances, and
TLAPS proofs for all values of the constants.

How to run: `tlc -config board.cfg MCMessageBoard`, and so on for every run of
the table below; `tlapm MessageBoardProofs.tla`, and so on for the other `*Proofs`
modules and for `SetInduction` (`FrontEndProofs` and `ParserProofs` take a few
minutes each).

## 1. Inventory of the system

| Component | State | Operations | What is hard |
|---|---|---|---|
| Connections: `server_main.cc`, `server.cc`, `session.cc` | one pending accept; a heap-allocated `session` per connection that deletes itself; 4 threads in `io_service.run()`, 4 in `thread_pool_` (only `session::start` runs there) | `start_accept`, `handle_accept`, `session::start`, `handle_read` (parse, route, handle, start the write), `handle_write` | ownership by `delete this`; handlers block a worker; exceptions leave a worker thread; clients stall or leave at any time, without any time limit |
| Routing: `dispatcher.cc`, `handler_registry.cc` | `Dispatcher::routes`, `HandlerRegistry::factories` | `registerRoute`, `match` (longest prefix), `createHandler` | a handler object *per request*; prefix match; `routes[""]` inserts into the shared table, without a lock, when nothing matches; handlers that throw |
| Configuration: `config_parser.cc` | tokens, a stack of blocks | `ParseToken`, `Parse`, `parseConfig` | error paths leave routes registered; the result is ignored by `main` |
| Request parser: `request_parser.cc` | none | `parse` | one read of at most 1024 bytes is all it ever sees |
| Message board: `message_store.cc`, `post_message_handler.cc`, `get_messages_handler.cc` | `messages_` and `lock_` (singleton), directory `data/messages`, static `store_mtx_` | `add`, `persist_to_file`, POST, GET, (`load_from_file`, `get_all`: only tests) | the whole directory is removed and rewritten per POST; readers do not take the writers' lock; restarts; failing writes |
| CRUD API: `api_handler.cc`, `disk_file_store.cc` | one file per object, `store_mutex_` per handler object | create, read, list, update, delete | the mutex excludes nobody in the server; truncate-then-write files; ids |
| Sessions: `session_store.cc`, `session_middleware_handler.cc`, `logout_handler.cc` | `sessions_` under a shared mutex, system clock | `create_session`, `get_session`, `invalidate_session`, `cleanup_expired_sessions` (only tests), the middleware around every protected handler | the gap between the shared and the unique lock; expiry by an adjustable clock; whole path against prefix |
| Accounts: `register_handler.cc`, `login_handler.cc` | `data/users.json` | register, login | read-check-read-truncate-write without a lock; crash in between; a failing write that nobody notices; two different ways of parsing one file |
| Static, echo, health, not-found, sleep handlers | none | one response from one request | arguments that the configuration does not give; their blocking time |
| Logger, `FakeFileStore`, tests, build | not part of the server's behaviour | | |

How they interact: `handle_read` on a worker thread asks `Dispatcher::match` for
the longest registered prefix of the path and gets a handler made by the factory
of `HandlerRegistry`, with all its members new, runs it synchronously and writes
its response. Message-board, login and logout handlers are wrapped in a
`SessionMiddlewareHandler`, which looks the token up before and creates or
invalidates a session after the wrapped handler. Handlers of concurrent requests
share only singletons, statics and files. These are what the modules are about.

What makes each component correct:

* Connections: every session object has exactly one owner; listening never
  stops; every session with a client that acts, and takes its response, comes to an end;
  an exception of a request does not end the process.
* Message board: a 201 is for a message in a file; the directory is the log; a
  GET returns what was acknowledged, once each; restarts and failing writes take
  nothing acknowledged away.
* CRUD API: one map from ids to documents, requests linearizable; no file
  damaged by another request; every request answered.
* Sessions: a token stands for its user until its own logout or expiry, and
  never again afterwards.
* Accounts: confirmed accounts stay; a name has one account; logins succeed only
  with a name and a password that a registration wrote together; whoever is denied
  is denied for a reason; a registration that nothing disturbs leaves the file whole.
* Configuration: the parser accepts the language of its grammar; the routes are
  those of the file, up to its first mistake if it has one.
* Routing and requests: the route chosen is the longest prefix, in whatever order
  the table is iterated; the table does not change while workers read it; a
  request that arrives in part is refused or handled as the whole would be; no
  request ends the process.

## 2. Modules

| Module | What it models |
|---|---|
| `MessageLog` | abstract: an append-only log, durable from its front, acknowledged when durable |
| `MessageBoard` | POST, GET, `MessageStore`, the directory, failures and restarts; refines `MessageLog` |
| `MessageBoardProofs` | inductive invariant, safety theorems, the refinement |
| `ApiMap` | abstract: a map from ids to documents, one reply per request |
| `ApiStore` | `ApiHandler` over `DiskFileStore`; refines `ApiMap` when the mutex is shared |
| `ApiStoreProofs` | inductive invariant, safety theorems, the refinement |
| `Sessions` | middleware, `SessionStore`, clock |
| `SessionsProofs` | inductive invariant and safety theorems |
| `UserDb` | registration and login over `users.json` |
| `UserDbProofs` | inductive invariant and safety theorems |
| `Connections` | accept loop, session objects, worker threads |
| `ConnectionsProofs` | inductive invariant and safety theorems |
| `ConfigParser` | pure: tokens, statements, `ToString`, and a reference grammar |
| `RequestParser` | pure: a request from the bytes of one read |
| `Handlers` | pure: the handler factories; the statuses each handler may answer a request with (one, or what its stored state leaves open); which calls may throw |
| `FrontEnd` | `parseConfig`, `main`, `handle_read` up to the handler, `Dispatcher`; composes the three |
| `FrontEndProofs` | types of the parsers, what `parseConfig` declares, inductive invariant and theorems |
| `ParserProofs` | what the parsers compute: cut requests, the grammar, printing and reading back |
| `SetInduction` | lemmas: least and largest elements, induction, the values of a fold |
| `MC*` | instances for TLC: symmetry sets, the documents of the API, configuration files and requests |

Conventions. A variable has the name of the member, local or file it stands
for. `pc[w]` says where in its handler a worker is; an action is the code from
one point at which another thread, the disk or a crash can interfere to the
next, so a critical section with nothing observable inside is one action.
History variables, which only properties and bounds read, are declared
separately. Each module has a section *Seeded bugs*: variants of actions with a
plausible mistake in them (a missing lock, a dropped return, a forgotten
release). They are in no next-state relation; each shows, put in place of the
action it is named after, that a property notices the mistake.

### MessageBoard

`messages`, `lock`, `scanLock` are `messages_`, `lock_` and `store_mtx_`; `disk`
maps the index of `<index>.json` to its content. `AcceptPost` and `RefusePost`
include the handler's constructor, which makes the directory. `Add` is
`MessageStore::add`; `persist_to_file` is `BeginPersist` (lock, listing),
`RemoveFile` per file, `OpenFile` (truncation) and `WriteFile` per message, and
`EndPersist`; readers see every state in between. `GetMessages` is the listing
before `store_mtx_` is taken, then `TakeScanLock`, `ReadFile` in ascending order
and `FinishGet`. The listing is one step: an iteration beside a rewrite may also
return a name twice, which is left out, so what is said of a GET is about the files
it reads. `PersistGivesUp`, `OpenFails` and the second disjuncts of
`RemoveFile` and `WriteFile` are failing file operations, which the code ignores.
`CrashRestart` keeps the directory and empties the log: nothing in the server
calls `load_from_file`.

### ApiStore

A request waits for `lock[handlerOf[w]]`, the mutex of the handler object that
serves it. The registered factory makes a handler per request, so in the server
`handlerOf` is injective (`PerRequest`); `Shared` is one handler, as in the unit
tests and as `api_handler.h:21` supposes. `Init` chooses among `Assignments`, and
the properties that need one mutex say so (`OneMutex`). Directory
entries name inodes, because a writer keeps its file when the entry is removed
or replaced. `Open` truncates, `Flush` writes when the stream closes, over
whatever is there by then (`Overlay`: a shorter document leaves the tail of a
longer one, `Torn`). A request body is shorter than the stream's buffer (one
read of 1024 bytes), so it reaches the file in one piece. Ids are `int`s: `AsInt`
wraps `max_id + 1` as the compiled addition does. There is no crash in this module:
what is said of damaged files is about requests and failing operations, not about a
process that ends between a truncation and its flush.

### Sessions

Each critical section of `mutex_` is one action; `get_session` has two when a
session has expired (`LookupExpired`, `Purge`), with everything possible in
between. `Ask`, `HandleLogin`/`HandleOther` and `FinishLogin`/`FinishLogout`/
`FinishOther` are the steps of the middleware. Paths are `"login"`, `"logout"`,
longer ones with the same route (`"login/"`, `"logout/"`), and any other
(`"page"`). A request carries any issued token, or none, in its cookie and in
its Authorization header. Tokens that were never issued behave like no token.
Tokens are assumed fresh (128 random bits). `late` remembers the requests that
came with a token that was over by then.

### UserDb

The file is `"empty"` (truncated), `"clean"` or has a `"tail"`; the object at its
beginning is `accounts`. `Check` and `Load` are the two reads of a registration,
`OpenDb` the truncation, `WriteDb` the flush at the close of the stream, and `Reply`
the confirmation: between the two the account is there for others, and for the next
process, though nobody has confirmed it. `WriteLost` is the flush that fails and is
answered 200 all the same. The text is assumed to fit the stream's buffer, so that
nothing reaches the file before the close. `RegisterHandler` reads with
`operator>>`, which stops after the first JSON value, `LoginHandler` (`AskLogin`,
`Login`, `LoginUnread`) with `json::parse`, which refuses a tail. Passwords stand
for their hashes: two passwords with one `std::hash` value count as the same.
History: `written` and `registered` are the accounts that were written and that were
confirmed, `found` is what a registration saw when it looked its name up,
`disturbed` are the registrations that overlap another or had a read or a write
fail, and `causes` is what has happened to the file so far, each kind of event by
itself.

### Connections

`accepts`, `starts`, `reads`, `writes` are the asynchronous operations under
way, named by their session; `run[w]` is the session whose `handle_read` worker
`w` executes, handler included. `Delete` is `delete this`. `HandlerThrows` and
`ShutdownThrows` end the process, because the threads call `io_service.run()`
outside of `main`'s `try`. `Requests` is whatever the first read returned.
`Written` needs the whole response in the buffers of the socket: it is there at once
(`Respond` leaves it open), or after the client has read (`Take`). Nothing times out.

### ConfigParser, RequestParser, Handlers, FrontEnd

Texts are sequences of symbols: every character that a parser tells apart is one,
every other symbol is a run of ordinary characters, so that a prefix of a path is
a prefix of the sequence. `Lex` folds `LexStep`, the automaton of `ParseToken` and
`ConsumeQuotedToken`, over a text; `Parse` folds the loop of
`NginxConfigParser::Parse` over the tokens. Statements are kept in the order of
the file with the depth of blocks around them, which is the tree that
`child_block_` makes. `IsConfig` is the grammar, independent of the automaton.
`ParseRequest` reads the request line and the headers as `getline` and `>>` do.

In `FrontEnd`, `ParseConfig` folds the loop of `parseConfig` over the top-level
statements. Its call in `main` is two actions, `ReadFile`, the parser, and
`ReadConfig`, the loop; `main` does not look at the result
(`accepted` keeps it for the properties); `Listen` and `ListenFails` are the
constructor of `server`. `Receive` gives a worker any beginning of a request;
`Consider` is one turn of the loop in `match`, for any key not yet seen. Then
`routes[longestMatch]` finds its key (`Choose`) or, when nothing has matched, inserts
an empty function: from `BeginInsert` to `Insert` the `unordered_map` is being
written, and as nothing locks it, whatever another worker does with it meanwhile is
undefined. `Stray` leaves open which keys its loop skips or meets again, and
`RaceFaults` lets it end the process. `Call` is the factory and the handler, with any
status of `Statuses`; `CallFails` is a null handler, an empty function or a missing
argument, `CallThrows` an exception that the handler lets out (`CanThrow`:
`std::stoi` for an id beyond `int`, exceptions of JSON other than `parse_error`, the
file system's). All of these end the process, because nothing catches them on a
worker thread.

`Statuses` depends on the method, the path and what the body is to its reader:
`Credentials`, `Contents` and `Documents` are the bodies that the accounts', the
board's and the API's PUT handler accept, `Ids` and `BigIds` the digits that fit an
`int` and that do not. What a handler's stored state decides (is the object there, is
the password right, does a file open) stays open; that state is the subject of the
other modules. `Factories` collects how many arguments the factory at the end of
each handler's file reads. What follows on the socket is the subject of
`Connections`.

## 3. Runs

| Run | Instance | Checks |
|---|---|---|
| `board` | 2 workers, 3 posts, 2 failing file operations, 2 restarts | `TypeOK`, `DirectoryIsLog`, `AnsweredStored`, `QuietGetComplete`, `NoRepeats`, `ImplementsLog` (refinement of `MessageLog`) |
| `board_answers` | 2 workers, 3 posts, 1 restart, fair | `PostsEnd` |
| `board_restart` | 2 workers, 1 restart | `AnsweredSurvive` fails |
| `api` | 2 requests at a time of 3, with a mutex each and with one for both, 2 ids in paths, 1 failure, 1 lost write, `MaxInt = 2`, fair | `TypeOK`, `OnlyRacesDamage`, `StoreMatches`, `ImplementsMap` (refinement of `ApiMap`), `RequestsEnd` |
| `api_race` | 2 at a time of 3, a mutex each | `ThreadSafe` fails |
| `sessions` | 2 workers, 2 users, 2 tokens, clock 0..2, 1 clock adjustment | `TypeOK`, `LookupOutcome`, `GoneForGood`, `NoLateUser` |
| `sessions_logout` | the same, smaller | `LogoutInvalidates` fails |
| `users` | 2 workers, 2 names, 2 passwords, 1 failure, 1 restart | `TypeOK`, `NothingLost`, `SavesAlone`, `LoginsAreAccounts`, `DenialsHaveCause` |
| `users_lost` | 2 workers, 2 names | `RegisteredStays` fails |
| `connections` | 2 workers, 3 sessions, one request that is answered and one that throws, clients that stall, fair | `TypeOK`, `OneOwner`, `Listening`, `SessionsEnd` |
| `connections_reset` | the same, only good requests | `ExceptionsCaught` fails |
| `startup` | 8342 configuration files: all of at most 3 of 20 fragments, 12 of them whole statements or comments; 2 workers, 4 requests cut anywhere (one with a body, one with an id beyond `int`, one without a route) | `TypeOK`, `AcceptedIsGrammar`, `PrintedIsRead`, `RoutesAsDeclared`, `LongestPrefix`, `PieceIsOfRequest`, `AnsweredAsWhole`, `RoutesFrozen`, `AcceptedServes` |

What they show.

* **board, board_answers.** Two separate acquisitions of `lock_` are harmless: every
  rewrite that meets no error leaves exactly the log, also after failed rewrites
  and restarts, and a 201 is for a message in a file even if another request's
  rewrite put it there. A GET without the writers' lock can miss messages while
  a rewrite is under way; it never returns one twice, and it is complete if no
  rewrite overlaps it. An error of the file system suspends the promise of
  `MessageLog` only until the next rewrite that meets none.
* **board_restart.** A POST is answered, the process is restarted, and the first POST
  of the new process rewrites the directory from a log that was never loaded: with no
  rewrite cut off and no operation failing, what was acknowledged before is erased.
* **api, api_race.** With the mutex shared the interface is linearizable, and a
  write that the disk loses damages one object only; with the mutex per handler
  object, which the factory gives the server, it is not linearizable (a GET
  returns an empty file, POSTs share an id). Even then the damage is bounded: only
  a file that two requests have open at once can end up with something that is
  nobody's document. Once an object has the id `INT_MAX` (a PUT can create it),
  the next ids are negative and all the same, in either case; `ApiMap` promises a
  new id only until then.
* **sessions.** The gap in `get_session` and clock adjustments do no harm: a
  token is denied only after its own logout or its own time, whoever else logs
  out, and never accepted again after it was denied or logged out. A handler
  may work on for a user who has logged out meanwhile, but no request that comes
  after the end of the session has a user.
* **sessions_logout.** `/logout/` reaches the logout handler and is answered 200
  but ends nothing (likewise `/login/` makes no session).
* **users.** Each damage to the file has its own cause: it is empty only after a crash
  or a lost write between truncation and flush, it has a tail only after registrations
  have overlapped, and while none has overlapped and every read has succeeded it has
  everything or nothing. A registration that no other overlaps saves exactly what it
  saw and the new account, and heals a tail. Logins succeed only with a pair that a
  registration wrote, though perhaps never confirmed: another worker, or the next
  process, finds the account before the response is built. A confirmed user, or a
  new name, is turned away only while somebody is writing, after one of the events,
  or because the file cannot be opened.
* **users_lost.** Overlapping registrations lose a confirmed account. The model
  also reaches two confirmed registrations of one name, a registration answered 200
  over an empty file, and, after a crash between truncation and flush, an empty file
  with which every registration is refused as "Username already exists".
* **connections.** Ownership by `delete this` is sound on every path, the server
  keeps listening whatever accepts fail, and every session whose client acts is
  deleted unless the process ends. The one exception is a client that neither reads
  the rest of a large response nor leaves: `async_write` has no time limit, and the
  session stays until the client does one of the two.
* **connections_reset.** A client that resets its connection right after the
  response makes `socket_.shutdown` throw and the process end. No request of this run
  throws; those that do are in `connections` and `startup`.
* **startup.** The automaton accepts exactly the grammar, and what `ToString`
  prints means the same. A refused file leaves the routes in front of its first
  mistake; `main` listens with them, without "/" and possibly with a port that was
  never assigned, although a comment at `config_parser.cc:314` speaks of a shutdown
  for a duplicate. `match` finds the longest prefix whatever the order of the
  keys. That other workers read the table without a lock is harmless as long as every
  request has a route; beside the insertion for one that has none a loop may miss
  its longest prefix, and the request that inserts, or the race itself, is about to
  end the process. The first piece of a request that parses has the method and the
  path of the whole, so the same handler answers it. What can differ is a body: where
  the handler parses it, the cut one is answered 400 where the whole succeeds, or
  may pass where the whole is refused; a POST to the API, which is stored unchecked,
  is answered 201 with the cut document. A cut before the `Cookie` or `Authorization`
  header takes the session away, which is among the statuses open for the whole.
  With an accepted configuration whose handlers exist and have their arguments, two
  things end the process: a path that does not begin with "/", which no route
  matches, and a handler that throws, such as the API's for `/b/e/99999999999`.
* `src/README.md:348` calls the root of the static handler the only argument that a
  location may have; `parseConfig` passes on every one, as `Arguments` does.

### Bounds

`MaxFaults`, `MaxCrashes`, `MaxLost`, `MaxRequests`, `MaxTime`, `MaxClockSteps`
bound failing calls, restarts, lost writes, requests and the clock; `Posts`,
`Tokens`, `Conns` are finite because each is used once. Two workers are the
least with which every race between two handlers exists; the interesting cases
need two writers, or a writer and a reader, at once, and one post, update or
session more than there are workers, so that what a finished request left is
there for a racing one. Two documents of different length are what `Overlay`
tells apart. `MaxInt` is 2 in `api`, so that both a POST after a gap in the ids
and the wrap-around happen. `MaxFragments` bounds a configuration file: three
fragments hold two conflicting locations and a port, a nested block, or any
fragment broken by its neighbours; the routes of the requests (one inside
another, and none) need two locations. `Ports` is what an unassigned int may
hold; one number of the fragments does not fit 16 bits. The theorems of section 4
have none of these bounds. `CHECK_DEADLOCK FALSE` is set where requests, tokens or
sessions run out or the process ends.

### Fairness

`board_answers` and `api`: a worker thread that can take its next step takes it
(weak fairness per worker). That is the operating system's scheduler; a mutex
that is free infinitely often is obtained in the end because there are finitely
many other requests, so fairness of the mutex itself is not assumed. Clients owe
nothing: requests need not arrive. `connections`: handlers return, and a ready
completion handler is run, since the queues of `io_service` and `thread_pool_`
are first in, first out. Clients owe nothing here
either: they need not send, nor read what they are sent, nor leave.

## 4. Proofs

Every state invariant, action property and refinement that the passing runs check
is a theorem, for all values of the constants; what remains with TLC alone is named
at the end of this section. Each module of proofs has an inductive invariant made of named parts, one lemma per
action or group of actions, and theorems `Spec => []P` or `Spec => P` for the
properties of the runs. Hypotheses are the named assumptions of the modules:
the model values for "nobody" and the like are none of the others, bounds are
naturals, sets that stand for parts of another are so. None of the interesting
properties is inductive by itself; what has to be added is said here.

**`MessageBoardProofs`**, for any workers, posts, failures and restarts:
`BoardTypes`, `BoardDirectoryIsLog`, `BoardAnsweredStored`, `BoardNoRepeats`,
`BoardQuietGetComplete` and `BoardImplementsLog`. The invariant is built in
groups, each preserved with the help of the ones before it:

1. `Shape`: types; `lock` is held exactly by a worker inside `persist_to_file`; a
   worker carries a message exactly inside a POST; the loop index stays in the log.
2. `Directory`: while a rewrite runs, what the directory must look like at each
   point of its two loops if no operation of it has failed; between rewrites,
   `DirectoryIsLog`.
3. `Indices`: what a GET has read under index `i` is message `i` of this process
   or what it found there when it started, so that an index keeps its meaning.
4. `Acknowledged`: whatever is acknowledged and in the log is within its first
   `saved` messages; with 2, `AnsweredStored`.
5. `Quiet`: what a quiet GET has still to read is in the directory, and what it
   was to return is read or still to be read.
6. `Written`: the message of a POST under way stays in the log; before the first
   rewrite of a process none of its messages is in a file. With it,
   `DurablePrefix`, the refinement mapping, is `saved` (`DurableIsSaved`), and the
   steps of the log are `Add`, `EndPersist`, the answer and `CrashRestart`; all
   others, the partial rewrites among them, stutter.

**`ApiStoreProofs`**, for any workers, handler objects and ways to share them,
documents, ids and bounds: `ApiTypes`, `ApiDamage`, `ApiStoreMatches`,
`ApiImplementsMap`. The invariant is `Shape` (types, and a request is where its
method brings it), `Locked` (who is past `Lock` holds the mutex of its handler),
`Files` (no inode under two ids; a writer that has its file to itself finds it
empty) and `Matching` (with one mutex: while a file is open it is the only
difference between directory and objects, and the id of a POST is still the next
one). `Locked` gives at most one busy worker only with `OneMutex`; `Files` does
without it, so `OnlyRacesDamage` holds for the server as it is. That the next id is
an `int` and new, or the largest is `MaxInt`, is a lemma (`NextIdIsNew`).

**`SessionsProofs`**, for any workers, users, tokens, life of a session and setting
of the clock: `SessionTypes`, `SessionLookups`, `SessionsStayGone`,
`SessionsHaveNoLateUser`. To the properties are added where the sessions are that
a lookup does not find (`Missing`: ended or overdue), what `get_session` knows
between its two critical sections (`Between`), whose the others are (`Live`), that
only issued tokens are ever over (`Known`), and that a late request is under way
(`Late`).

**`UserDbProofs`**, for any workers, names, passwords, faults and restarts:
`UserTypes`, `UsersNotLost`, `SavedAlone`, `UsersLogIn`, `UsersDenied`. The invariant
adds to the types five parts. `Sourced` holds whatever happens: the file, and each
object read from it and about to be written, have accounts only that were written
before, except the one being registered; from it follow the logins. `Harm` says which
event is behind an empty file and behind a tail, and that without a race one
registration saves at a time. `Intact` holds until registrations overlap or a read
fails: a registration carries the file's accounts and a name that nobody has
(`NewNames`, `Kept`), and once a write is lost none comes through its look-up again.
`Alone` says the same of a single registration that nothing disturbs, whatever has
happened before it.

**`ConnectionsProofs`**, for any workers, sessions and requests: `ConnectionTypes`,
`SessionsHaveOneOwner`, `ServerListens`. To `OneOwner` the invariant adds `Known`,
that a session object not yet made is in no operation, and `Unanswered`, that a
session has no response before its `handle_read` is through.

**`FrontEndProofs`**, for any configuration files, requests, workers and factories:
`FrontEndTypes`, `ListensAsDeclared`, `MatchIsLongest`, `TableIsFrozen`,
`AcceptedConfigServes`. The assumptions: the numbers of the texts are integers
(`NumberOK`), what an unassigned port holds is an integer (`PortsOK`), and texts are
sequences (`TextsOK`). There are two parts:

* The parsers. A fold is a function on sets of positions, defined by its value
  without the last of them; a property of its result is proved by induction on
  the number of positions (`FoldTyped`, `FoldExists` in `SetInduction`, which use
  sets instead of predicates). So `Lex`, `Parse`, `Tops`, the loop of
  `parseConfig`, `Split` and `Words` have their types for every text, and after `k`
  turns of its loop `parseConfig` has declared exactly the locations and the port
  among the first `k` sections that no mistake precedes (`DeclaredBy`). From the
  last turn follows `RoutesAsDeclared`.
* The server. `Inv` adds to the types that the longest key a worker has so far is a
  prefix of its path, and that an accepted table has "/". That it is the longest is
  not inductive while somebody inserts, so a second invariant, `Race`, says: either a
  worker with a request without a route is past its loop (`Lost`; it never leaves
  that state, except that the process ends), or nobody is inserting and everybody's
  key is the longest among those it has seen, all of them when it leaves the loop.
  The step that makes the first worker lost leads from the second case to the first
  (`RaceGoesOn`, `NoRaceStep`, `NextRace`). From the two follow `LongestPrefix`,
  `RoutesFrozen` and `AcceptedServes`. Nothing is assumed of what a loop finds in a
  table that is being written, except that its keys are ones that are there.

**`ParserProofs`**, under the same assumptions: `PiecesOfRequests`,
`PiecesAnsweredAsWhole`, `GrammarIsAccepted`, `PrintedReadsBack`. They say what
the parsers compute for every text, which needs induction over texts. The
library's induction rules take the predicate as a parameter, which the provers
cannot instantiate; here the predicate is a set: a set of sequences that contains
the empty one and with each all that are one longer is the set of all
(`SeqSetInduction`, and `UpInduction`, `DownInduction`, `PartInduction` in
`SetInduction`). A fold over a sequence has a value after each of its turns
(`FoldTurns`), and one more element makes one more turn (`TurnsAppend`). Each fold
of the model (`Split`, `Words`, the headers, `Lex`, `Parse`, `FlattenSeq`) gets
such lemmas and is from there on used as if defined by recursion.

* `PiecesOfRequests`. One byte more ends the head of a request or makes its last
  line or its body longer; the lines in front stay, and a header name stays once
  its colon is there. So if a beginning parses, it still does with that byte, with
  the same method and path, no header name fewer and no byte of the body changed
  (`OneMoreByte`), and so up to the whole request (`PieceParses`). The invariant `Received` relates the request of each worker
  to `sent` from `Receive` on.
* `PiecesAnsweredAsWhole`. What a route may answer depends on the method, the path
  and, where its handler parses the body, on whether that body parses
  (`SameReader`, `SameStatuses`); one that does not is refused with 400, or with what
  might have come anyway (`CutBody`). With `Received` and `LongestPrefix`, and because
  there is one longest prefix (`OneLongest`), the theorem follows for every handler.
* `GrammarIsAccepted`. The recursive function in `IsConfig` exists, since the two
  rules of the grammar, read as rules on pairs of positions, have a least fixed
  point (`LanguageExists`), and it is one (`IsConfigMeans`). What is derived the automaton passes, with
  the depth of blocks as before (`DerivedPasses`, by induction over parts); what it
  passes with a depth that comes back to where it was and never falls below is
  derived (`BalancedDerives`). `Given` says that `config` is what the file is parsed
  as.
* `PrintedReadsBack`. Tokens that come out of `Lex` are ones that are read back as
  they are whatever stands in front (`LexGood`, by the invariant `Lexed` of the automaton's
  state). By induction over the tokens of an accepted file
  there is, after each of them, a text that ToString has printed so far and of
  which `Lex` makes just the tokens so far (`Shown`, in two forms: inside a
  statement and behind one; `ShowFirst`, `ShowNext`, `ShowEnd`, `ShowClose` for the
  four things a token may be). At the end that text is the printed one
  (`RunShown`, `Reprinted`). The characters that are no blanks are those of the
  tokens on both sides, if there is no comment (`LexInk`).

Only model-checked:

* the liveness properties `PostsEnd`, `RequestsEnd` and `SessionsEnd`: fairness
  and `ENABLED` are beyond TLAPS;
* the disagreements with documentation, which are single behaviours.

## 5. Not modelled

* Headers and bodies of the responses of the stateless handlers, and the time the
  sleep handler takes: `Connections` allows that of every handler.
* Digits next to other characters in a port ("80a" is read as 80) beyond a run of
  digits at the beginning, and numbers that do not fit an `int`, which throw like
  text that is no number.
* The logger (output only) and `FakeFileStore` (a test double of `DiskFileStore`).
* `load_from_file`, `get_all`, `update_session_data` and session data: no caller
  in the server.
* Time stamps and the sort of the board: messages of one second come in any
  order, and nothing says which is right.
* What a data race does beyond its most plausible outcomes: `Stray` and `RaceFaults`
  have lost, repeated and dangling entries and the end of the process, not memory
  that is silently overwritten elsewhere.
* A directory iteration that throws has no action of its own in `ApiStore` and
  `MessageBoard`: like any exception of a handler it ends the process, as
  `HandlerThrows` in `Connections` and `CallThrows` in `FrontEnd` do.

## 6. Plan

Done: the models of all components of section 2, their runs, and the proofs of
section 4, which cover every safety property of the passing runs. Open: the
`update_session_data` of `SessionStore` and the data of a session, `load_from_file`
and the order of the board's messages, once the server uses or promises them; the
liveness properties, should a prover for fairness become available.
