----------------------------- MODULE RequestParser -----------------------------
(***************************************************************************)
(* RequestParser::parse: an HTTP request as a pure function of the bytes of *)
(* one read.                                                               *)
(*                                                                         *)
(* As in ConfigParser, bytes are symbols: "sp", "cr", "lf", ":", "HTTP/",   *)
(* and others for runs of ordinary characters.                             *)
(***************************************************************************)
EXTENDS Integers, Sequences, SequencesExt

(* The pieces of s between the symbols of a set. *)
Split(s, separators) ==
  LET step(pieces, c) ==
        IF c \in separators THEN Append(pieces, <<>>)
                            ELSE [pieces EXCEPT ![Len(pieces)] = Append(@, c)]
  IN  FoldLeft(step, <<<<>>>>, s)

(* std::getline until it fails: nothing behind the last "lf" is no line.    *)
Lines(s) == LET p == Split(s, {"lf"}) IN IF Last(p) = <<>> THEN Front(p) ELSE p

(* operator>> until it fails. *)
Words(s) ==
  LET ifWord(words, p) == IF p = <<>> THEN words ELSE Append(words, p)
  IN  FoldLeft(ifWord, <<>>, Split(s, {"sp", "cr", "lf"}))

(* A line without its trailing CR. *)
Stripped(line) == IF line # <<>> /\ Last(line) = "cr" THEN Front(line) ELSE line

(* The value of a header without one leading blank. *)
Value(s) == IF s # <<>> /\ s[1] = "sp" THEN Tail(s) ELSE s

(* One line of the header loop: the name ends at the first colon, a line    *)
(* without one is skipped, a blank line ends the headers, and of headers    *)
(* with one name the last counts.                                           *)
AddHeader(h, line) ==
  LET colons == {i \in DOMAIN line : line[i] = ":"}
      at     == Min(colons)
      name   == SubSeq(line, 1, at - 1)
      value  == Value(SubSeq(line, at + 1, Len(line)))
  IN  IF ~h.open \/ line = <<>> THEN [h EXCEPT !.open = FALSE]
      ELSE IF colons = {} THEN h
      ELSE [h EXCEPT !.headers =
              [n \in DOMAIN @ \cup {name} |-> IF n = name THEN value ELSE @[n]]]

Headers(lines) ==
  FoldLeft(AddHeader, [open |-> TRUE, headers |-> [n \in {} |-> <<>>]],
           [i \in DOMAIN lines |-> Stripped(lines[i])]).headers

Malformed == [method |-> <<>>, path |-> <<>>, headers |-> [n \in {} |-> <<>>], body |-> <<>>]

(* Everything in front of the first blank line is the head. *)
HeadEnds(raw) ==
  {i \in 1 .. Len(raw) - 3 : SubSeq(raw, i, i + 3) = <<"cr", "lf", "cr", "lf">>}

HeadOf(raw) == IF HeadEnds(raw) = {} THEN raw ELSE SubSeq(raw, 1, Min(HeadEnds(raw)) - 1)
BodyOf(raw) == IF HeadEnds(raw) = {} THEN <<>> ELSE SubSeq(raw, Min(HeadEnds(raw)) + 4, Len(raw))

(* Seeded bug: a request line may lack the version. *)
ParseVersionless(raw) ==
  LET lines == Lines(HeadOf(raw))
      words == IF lines = <<>> THEN <<>> ELSE Words(lines[1])
  IN  IF Len(words) < 2 THEN Malformed
      ELSE [method |-> words[1], path |-> words[2],
            headers |-> Headers(Tail(lines)), body |-> BodyOf(raw)]

(* parse: method, path and version, which must begin with "HTTP/"; what     *)
(* follows them on the line is ignored.                                     *)
ParseRequest(raw) ==
  LET lines == Lines(HeadOf(raw))
      words == IF lines = <<>> THEN <<>> ELSE Words(lines[1])
  IN  IF Len(words) < 3 \/ words[3][1] # "HTTP/" THEN Malformed
      ELSE [method |-> words[1], path |-> words[2],
            headers |-> Headers(Tail(lines)), body |-> BodyOf(raw)]
================================================================================
