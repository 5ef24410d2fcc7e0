------------------------------ MODULE MCFrontEnd ------------------------------
(* A small instance of FrontEnd for TLC: configuration files put together   *)
(* from fragments, whole and broken ones.                                   *)
EXTENDS FrontEnd

(* No action and no property names a worker. *)
Symmetry == Permutations(Workers)

CONSTANT MaxFragments   \* how many fragments a file has at most

Location(path, rest) == <<"location", "ws">> \o path \o <<"ws">> \o rest

Fragments == {
  <<"port", "ws", "80", ";", "nl">>,
  <<"port", "ws", "70000", ";">>,
  <<"port", "ws", "a", ";">>,
  Location(<<"/", "a">>, <<"HealthHandler", "{", "}">>),
  Location(<<"/", "a", "/", "b">>, <<"StaticHandler", "ws", "{", "nl", "root", "ws", "/", "r", ";", "}">>),
  Location(<<"/", "b">>, <<"StaticHandler", "{", "root", ";", "}">>),
  Location(<<"/", "a", "/">>, <<"SleepHandler", ";">>),
  Location(<<"/", "a">>, <<"LoginHandler", ";">>),
  Location(<<"/", "b">>, <<"ApiHandler", "{", "data", "ws", "/", "d", ";", "}">>),
  Location(<<"dq", "/", "b", "dq">>, <<"NoHandler", ";">>),
  <<"#", "sq", "}", "nl">>,
  <<"sq", ";", "bs", "sq", "ws", "sq", ";">>,
  <<"x", "ws">>, <<"dq", "x", "dq", "ws">>, <<"dq", "x">>,
  <<"x", "{", "x", "ws">>, <<"{">>, <<"}">>, <<"}", "}">>, <<";">> }

FilesOf[n \in 0 .. MaxFragments] ==
  IF n = 0 THEN {<<>>} ELSE {f \o g : f \in FilesOf[n - 1], g \in Fragments \cup {<<>>}}

MCFiles == {Unreadable} \cup FilesOf[MaxFragments]

MCNumber == [c \in {"80", "70000"} |-> IF c = "80" THEN 80 ELSE 70000]

Request(method, path, rest) == <<method, "sp">> \o path \o <<"sp", "HTTP/">> \o rest

MCRequests == {
  Request("GET", <<"/", "a", "/", "b", "/", "c", ".", "txt">>, <<"lf">>),
  Request("POST", <<"/", "a">>,
          <<"cr", "lf", "h", ":", "sp", "1", "cr", "lf", "cr", "lf", "{", "}">>),
  Request("GET", <<"/", "b", "/", "e", "/", "99999999999">>, <<"lf">>),
  Request("GET", <<"b">>, <<"lf">>) }

(* The one body that parses holds whatever a handler looks for in it. *)
MCBodies == {<<"{", "}">>}

MCServedFiles == {<<"..", "/", "r", "/", "c", ".", "txt">>}
===============================================================================
