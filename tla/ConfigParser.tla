----------------------------- MODULE ConfigParser -----------------------------
(***************************************************************************)
(* NginxConfigParser: the configuration file as a pure function of its     *)
(* text, and the printer of what it has read.                              *)
(*                                                                         *)
(* A text is a sequence of symbols.  The characters that the parser tells  *)
(* apart are symbols of their own: "ws" a blank or a tab, "nl" the end of  *)
(* a line, ";", "{", "}", "#", "sq" and "dq" the quotes, "bs" a backslash. *)
(* Every other symbol stands for a run of ordinary characters, so that     *)
(* <<"location", "ws", "/", "a">> reads "location /a".                     *)
(***************************************************************************)
EXTENDS Integers, Sequences, SequencesExt

Quotes == {"sq", "dq"}

IsWhiteSpace(c)     == c \in {"ws", "nl"}
IsBlockDelimiter(c) == c \in {";", "{", "}"}
EndsToken(c)        == IsWhiteSpace(c) \/ IsBlockDelimiter(c)

-------------------------------------------------------------------------------
(* Tokens, <<type, text>>.  The type of a delimiter is the delimiter.       *)

(* ParseToken between two tokens. *)
BetweenTokens(tokens, c) ==
  LET enter(mode, value) == [mode |-> mode, value |-> value, tokens |-> tokens]
  IN  IF IsWhiteSpace(c) THEN enter("space", <<>>)
      ELSE IF IsBlockDelimiter(c)
        THEN [enter("space", <<>>) EXCEPT !.tokens = Append(@, <<c, <<c>>>>)]
      ELSE IF c = "#" THEN enter("comment", <<>>)
      ELSE enter(IF c \in Quotes THEN "quoted" ELSE "normal", <<c>>)

(* ConsumeQuotedToken: the value keeps its quotes and backslashes.          *)
Quoted(l, c) ==
  [l EXCEPT !.value = Append(@, c),
            !.mode = IF l.mode = "escaped" THEN "quoted"
                     ELSE IF c = "bs" THEN "escaped"
                     ELSE IF c = l.value[1] THEN "closed" ELSE "quoted"]

(* One character of ParseToken.  A delimiter after a normal token is put    *)
(* back and read again; behind the closing quote it must come at once.      *)
LexStep(l, c) ==
  CASE l.mode = "space"                 -> BetweenTokens(l.tokens, c)
    [] l.mode = "comment"               -> [l EXCEPT !.mode = IF c = "nl" THEN "space" ELSE @]
    [] l.mode \in {"quoted", "escaped"} -> Quoted(l, c)
    [] l.mode = "normal" /\ ~EndsToken(c) -> [l EXCEPT !.value = Append(@, c)]
    [] l.mode = "normal" /\ EndsToken(c) ->
         BetweenTokens(Append(l.tokens, <<"NORMAL", l.value>>), c)
    [] l.mode = "closed" /\ EndsToken(c) ->
         BetweenTokens(Append(l.tokens, <<"QUOTED_STRING", l.value>>), c)
    [] OTHER                            -> [l EXCEPT !.mode = "error"]

(* The end of the file ends a normal token but no quoted one. *)
AtEnd(l) ==
  CASE l.mode \in {"space", "comment"} -> l.tokens
    [] l.mode = "normal"               -> Append(l.tokens, <<"NORMAL", l.value>>)
    [] OTHER                           -> Append(l.tokens, <<"ERROR", <<>>>>)

(* The tokens of a text, and "ERROR" behind them when ParseToken fails.     *)
Lex(text) ==
  AtEnd(FoldLeft(LexStep, [mode |-> "space", value |-> <<>>, tokens |-> <<>>], text))

-------------------------------------------------------------------------------
(* Statements, in the order of the file: the depth of blocks around each,   *)
(* its tokens, and whether it has a block.                                  *)

WordTypes == {"NORMAL", "QUOTED_STRING"}

(* Seeded bug: a block may end in the middle of a statement. *)
MayFollowLoosely(p, type) ==
  CASE type \in WordTypes -> TRUE
    [] type = ";"         -> p.last \in WordTypes
    [] type = "{"         -> p.last = "NORMAL"
    [] type = "}"         -> p.depth > 0
    [] OTHER              -> FALSE

(* The checks of Parse before it accepts a token. *)
MayFollow(p, type) ==
  CASE type \in WordTypes -> TRUE
    [] type = ";"         -> p.last \in WordTypes
    [] type = "{"         -> p.last = "NORMAL"
    [] type = "}"         -> p.depth > 0 /\ p.last \in {";", "}", "{"}
    [] OTHER              -> FALSE

(* What a token adds to the statements. *)
Add(p, type, value) ==
  LET s == p.statements
  IN  CASE type \in WordTypes /\ p.last \in WordTypes ->
             [s EXCEPT ![Len(s)].tokens = Append(@, value)]
        [] type \in WordTypes /\ p.last \notin WordTypes ->
             Append(s, [depth |-> p.depth, tokens |-> <<value>>, block |-> FALSE])
        [] type = "{" -> [s EXCEPT ![Len(s)].block = TRUE]
        [] OTHER      -> s

(* One turn of the loop of Parse; config_stack is as high as depth says.    *)
ParseStep(p, token) ==
  IF ~(p.ok /\ MayFollow(p, token[1])) THEN [p EXCEPT !.ok = FALSE]
  ELSE [ok |-> TRUE, last |-> token[1],
        depth |-> p.depth + (CASE token[1] = "{" -> 1 [] token[1] = "}" -> -1 [] OTHER -> 0),
        statements |-> Add(p, token[1], token[2])]

(* The check made at the end of the file. *)
Complete(p) ==
  [ok |-> p.ok /\ p.depth = 0 /\ p.last \in {"START", ";", "}"},
   statements |-> p.statements]

Parse(text) ==
  Complete(FoldLeft(ParseStep,
    [ok |-> TRUE, last |-> "START", depth |-> 0, statements |-> <<>>], Lex(text)))

(* The statements of the child block of statement i, without those of the   *)
(* blocks inside it.                                                        *)
ChildBlock(s, i) ==
  LET inside == {j \in i .. Len(s) : \A k \in i + 1 .. j : s[k].depth > s[i].depth}
      IsChild(t) == t.depth = s[i].depth + 1
  IN  SelectSeq(SubSeq(s, i + 1, Max(inside)), IsChild)

-------------------------------------------------------------------------------
(* NginxConfig::ToString *)

Times(n, symbols) == FlattenSeq([i \in 1 .. n |-> symbols])

(* Seeded bug: one "}" for all the blocks that end here. *)
ClosingOnce(open, depth) ==
  IF open > depth THEN Times(2 * (open - 1), <<"ws">>) \o <<"}", "nl">> ELSE <<>>

(* The "}" lines of the blocks from depth open down to the one that follows.*)
Closing(open, depth) ==
  FlattenSeq([k \in 1 .. open - depth |-> Times(2 * (open - k), <<"ws">>) \o <<"}", "nl">>])

(* The statement on its line, indented by twice its depth, and the ends of  *)
(* the blocks that end with it.                                             *)
StatementText(s, i) ==
  LET tokens == FlattenSeq([k \in DOMAIN s[i].tokens |->
                  (IF k = 1 THEN <<>> ELSE <<"ws">>) \o s[i].tokens[k]])
      open  == s[i].depth + (IF s[i].block THEN 1 ELSE 0)
      depth == IF i = Len(s) THEN 0 ELSE s[i + 1].depth
  IN  Times(2 * s[i].depth, <<"ws">>) \o tokens
      \o (IF s[i].block THEN <<"ws", "{", "nl">> ELSE <<";", "nl">>)
      \o Closing(open, depth)

ConfigToString(s) == FlattenSeq([i \in DOMAIN s |-> StatementText(s, i)])

-------------------------------------------------------------------------------
(* Reference: the grammar                                                  *)
(*   config    ::= statement*                                              *)
(*   statement ::= word+ ";"  |  word* normal "{" config "}"               *)
(* where the words before a delimiter are those since the one before it.   *)

(* Tokens i .. j are a configuration, if config[<<k, m>>] says the same of *)
(* all shorter parts: they are none, or their first delimiter is k and     *)
(* what it ends is a statement, in front of a configuration.               *)
Derives(tokens, config, i, j) ==
  \/ j = i - 1
  \/ \E k \in i + 1 .. j :
       /\ \A n \in i .. k - 1 : tokens[n][1] \in WordTypes
       /\ \/ tokens[k][1] = ";" /\ config[<<k + 1, j>>]
          \/ /\ tokens[k][1] = "{" /\ tokens[k - 1][1] = "NORMAL"
             /\ \E m \in k + 1 .. j : /\ tokens[m][1] = "}"
                                      /\ config[<<k + 1, m - 1>>] /\ config[<<m + 1, j>>]

IsConfig(tokens) ==
  LET config[part \in (1 .. Len(tokens) + 1) \X (0 .. Len(tokens))] ==
        Derives(tokens, config, part[1], part[2])
  IN  config[<<1, Len(tokens)>>]
===============================================================================
