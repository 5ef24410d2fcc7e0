---------------------------- MODULE FrontEndProofs ----------------------------
(***************************************************************************)
(* Proofs about FrontEnd for any workers, files and requests.              *)
(***************************************************************************)
EXTENDS FrontEnd, SetInduction, SequenceTheorems

(* The symbols of all texts of an instance, and of those the server writes, *)
(* and the texts over them.                                                 *)
Symbols == (UNION {Range(t) : t \in (Files \ {Unreadable}) \cup Requests})
             \cup {"/", "ws", "nl", ";", "{", "}"}
Text    == Seq(Symbols)

-------------------------------------------------------------------------------
(* The lexer *)

TokenTypes == Symbols \cup {"NORMAL", "QUOTED_STRING", "ERROR"}
Tokens     == Seq(TokenTypes \X Text)
Modes      == {"space", "comment", "quoted", "escaped", "normal", "closed", "error"}
Lexers     == [mode : Modes, value : Text, tokens : Tokens]
LexStart   == [mode |-> "space", value |-> <<>>, tokens |-> <<>>]

LEMMA TokenAdded ==
  ASSUME NEW tokens \in Tokens, NEW type \in TokenTypes, NEW value \in Text
  PROVE  Append(tokens, <<type, value>>) \in Tokens
BY DEF Tokens

LEMMA BetweenTokensTyped ==
  ASSUME NEW tokens \in Tokens, NEW c \in Symbols
  PROVE  BetweenTokens(tokens, c) \in Lexers
<1>1. <<>> \in Text /\ <<c>> \in Text /\ c \in TokenTypes
  BY DEF Text, TokenTypes
<1>2. Append(tokens, <<c, <<c>>>>) \in Tokens
  BY <1>1, TokenAdded
<1> QED
  BY <1>1, <1>2 DEF BetweenTokens, Lexers, Modes

LEMMA LexStepTyped ==
  ASSUME NEW l \in Lexers, NEW c \in Symbols
  PROVE  LexStep(l, c) \in Lexers
<1>1. l.mode \in Modes /\ l.value \in Text /\ l.tokens \in Tokens
  BY DEF Lexers
<1>2. l = [mode |-> l.mode, value |-> l.value, tokens |-> l.tokens]
  BY DEF Lexers
<1>3. Append(l.value, c) \in Text
  BY <1>1 DEF Text
<1>4. /\ Append(l.tokens, <<"NORMAL", l.value>>) \in Tokens
      /\ Append(l.tokens, <<"QUOTED_STRING", l.value>>) \in Tokens
  BY <1>1, TokenAdded DEF TokenTypes
<1>5. /\ BetweenTokens(l.tokens, c) \in Lexers
      /\ BetweenTokens(Append(l.tokens, <<"NORMAL", l.value>>), c) \in Lexers
      /\ BetweenTokens(Append(l.tokens, <<"QUOTED_STRING", l.value>>), c) \in Lexers
  BY <1>1, <1>4, BetweenTokensTyped
<1>6. Quoted(l, c) \in Lexers
  BY <1>1, <1>3 DEF Quoted, Lexers, Modes
<1>7. [l EXCEPT !.value = Append(@, c)] \in Lexers
  BY <1>1, <1>3 DEF Lexers
<1>8. \A m \in Modes : [l EXCEPT !.mode = m] \in Lexers
  BY DEF Lexers
<1>9. [l EXCEPT !.mode = IF c = "nl" THEN "space" ELSE @] \in Lexers
  BY <1>1, <1>8 DEF Modes, Lexers
<1>10. [l EXCEPT !.mode = "error"] \in Lexers
  BY <1>8 DEF Modes
<1> QED
  BY <1>5, <1>6, <1>7, <1>9, <1>10 DEF LexStep

(* The lexer's state keeps its type over a whole text. *)
LEMMA LexFold ==
  ASSUME NEW text \in Text
  PROVE  FoldLeft(LexStep, LexStart, text) \in Lexers
<1> DEFINE N == Len(text)
           Rec(it) == it = [T \in SUBSET DOMAIN text |->
                              IF T = {} THEN LexStart
                                        ELSE LexStep(it[T \ {Max(T)}], text[Max(T)])]
           it == CHOOSE i : Rec(i)
           F == [p \in Lexers \X (1 .. N) |-> LexStep(p[1], text[p[2]])]
<1>1. N \in Nat /\ DOMAIN text = 1 .. N /\ \A i \in 1 .. N : text[i] \in Symbols
  BY DEF Text
<1>2. FoldLeft(LexStep, LexStart, text) = it[DOMAIN text]
  <2> HIDE DEF LexStep, LexStart, Max
  <2> QED
    BY DEF FoldLeft, MapThenFoldSet
<1>3. LexStart \in Lexers
  BY DEF LexStart, Lexers, Modes, Text, Tokens
<1>4. \A v \in Lexers, i \in 1 .. N : LexStep(v, text[i]) \in Lexers
  BY <1>1, LexStepTyped
<1> HIDE DEF N
<1>5. F \in [Lexers \X (1 .. N) -> Lexers]
  BY <1>4
<1>6. PICK g : FoldsTo(g, N, Lexers, LexStart, F)
  <2> HIDE DEF F
  <2> QED
    BY <1>1, <1>3, <1>5, FoldExists
<1>7. ASSUME NEW T \in SUBSET (1 .. N), T # {}
      PROVE  g[T] = LexStep(g[T \ {Max(T)}], text[Max(T)])
  <2>1. Max(T) \in 1 .. N /\ g[T \ {Max(T)}] \in Lexers
    BY <1>1, <1>6, <1>7, MaxOfPositions DEF FoldsTo
  <2> QED
    BY <1>6, <1>7, <2>1 DEF FoldsTo
<1>8. Rec(it)
  <2>1. Rec(g)
    BY <1>1, <1>6, <1>7 DEF FoldsTo
  <2> HIDE DEF Rec
  <2> QED
    BY <2>1
<1>9. it[{}] = LexStart
  <2> HIDE DEF it
  <2> QED
    BY <1>8
<1>10. ASSUME NEW T \in SUBSET (1 .. N), T # {}, it[T \ {Max(T)}] \in Lexers
       PROVE  it[T] \in Lexers
  <2>1. Max(T) \in 1 .. N
    BY <1>1, <1>10, MaxOfPositions
  <2> HIDE DEF it
  <2>2. it[T] = LexStep(it[T \ {Max(T)}], text[Max(T)])
    BY <1>1, <1>8, <1>10
  <2> QED
    BY <1>4, <1>10, <2>1, <2>2
<1>11. it[1 .. N] \in Lexers
  <2> HIDE DEF it
  <2> QED
    BY <1>1, <1>3, <1>9, <1>10, FoldTyped
<1> QED
  BY <1>1, <1>2, <1>11

LEMMA LexTyped ==
  ASSUME NEW text \in Text
  PROVE  Lex(text) \in Tokens
<1>1. FoldLeft(LexStep, LexStart, text) \in Lexers
  BY LexFold
<1>2. \A l \in Lexers : AtEnd(l) \in Tokens
  <2> SUFFICES ASSUME NEW l \in Lexers PROVE AtEnd(l) \in Tokens
    OBVIOUS
  <2>1. l.value \in Text /\ l.tokens \in Tokens /\ <<>> \in Text
    BY DEF Lexers, Text
  <2>2. /\ Append(l.tokens, <<"NORMAL", l.value>>) \in Tokens
        /\ Append(l.tokens, <<"ERROR", <<>>>>) \in Tokens
    BY <2>1, TokenAdded DEF TokenTypes
  <2> QED
    BY <2>1, <2>2 DEF AtEnd
<1>3. Lex(text) = AtEnd(FoldLeft(LexStep, LexStart, text))
  BY DEF Lex, LexStart
<1> QED
  BY <1>1, <1>2, <1>3

-------------------------------------------------------------------------------
(* The parser *)

Statement  == [depth : Int, tokens : Seq(Text), block : BOOLEAN]
Statements == Seq(Statement)
Parsers    == [ok : BOOLEAN, last : TokenTypes \cup {"START"}, depth : Int,
               statements : Statements]
ParseStart == [ok |-> TRUE, last |-> "START", depth |-> 0, statements |-> <<>>]
Configs    == [ok : BOOLEAN, statements : Statements]

(* One statement is replaced, or none when i is no index.                   *)
LEMMA StatementReplaced ==
  ASSUME NEW s \in Statements, NEW i, NEW new, i \in DOMAIN s => new \in Statement
  PROVE  [s EXCEPT ![i] = new] \in Statements
<1> DEFINE t == [s EXCEPT ![i] = new]
<1>1. s \in [1 .. Len(s) -> Statement] /\ Len(s) \in Nat /\ DOMAIN s = 1 .. Len(s)
  BY DEF Statements
<1>2. t \in [1 .. Len(s) -> Statement]
  BY <1>1
<1>3. t \in Seq(Statement)
  <2> HIDE DEF t
  <2> QED
    BY <1>1, <1>2
<1> QED
  BY <1>3 DEF Statements

LEMMA AddTyped ==
  ASSUME NEW p \in Parsers, NEW type \in TokenTypes, NEW value \in Text
  PROVE  Add(p, type, value) \in Statements
<1> DEFINE s == p.statements
<1>1. s \in Statements /\ p.depth \in Int
  BY DEF Parsers
<1>2. Len(s) \in DOMAIN s => s[Len(s)] \in Statement
  BY <1>1 DEF Statements
<1>3. [s EXCEPT ![Len(s)].tokens = Append(@, value)] \in Statements
  <2>1. Len(s) \in DOMAIN s =>
          [s[Len(s)] EXCEPT !.tokens = Append(@, value)] \in Statement
    <3>1. \A t \in Statement : [t EXCEPT !.tokens = Append(t.tokens, value)] \in Statement
      <4> SUFFICES ASSUME NEW t \in Statement
                   PROVE  [t EXCEPT !.tokens = Append(t.tokens, value)] \in Statement
        OBVIOUS
      <4>1. Append(t.tokens, value) \in Seq(Text)
        BY DEF Statement
      <4> QED
        BY <4>1 DEF Statement
    <3> QED
      BY <1>2, <3>1
  <2>2. [s EXCEPT ![Len(s)] = [s[Len(s)] EXCEPT !.tokens = Append(@, value)]] \in Statements
    BY <1>1, <2>1, StatementReplaced
  <2> QED
    BY <2>2
<1>4. [s EXCEPT ![Len(s)].block = TRUE] \in Statements
  <2>1. Len(s) \in DOMAIN s => [s[Len(s)] EXCEPT !.block = TRUE] \in Statement
    BY <1>2 DEF Statement
  <2>2. [s EXCEPT ![Len(s)] = [s[Len(s)] EXCEPT !.block = TRUE]] \in Statements
    BY <1>1, <2>1, StatementReplaced
  <2> QED
    BY <2>2
<1>5. Append(s, [depth |-> p.depth, tokens |-> <<value>>, block |-> FALSE]) \in Statements
  <2>1. [depth |-> p.depth, tokens |-> <<value>>, block |-> FALSE] \in Statement
    BY <1>1 DEF Statement
  <2> QED
    BY <1>1, <2>1 DEF Statements
<1> QED
  BY <1>1, <1>3, <1>4, <1>5 DEF Add

LEMMA ParseStepTyped ==
  ASSUME NEW p \in Parsers, NEW token \in TokenTypes \X Text
  PROVE  ParseStep(p, token) \in Parsers
<1>1. token[1] \in TokenTypes /\ token[2] \in Text
  OBVIOUS
<1>2. Add(p, token[1], token[2]) \in Statements
  BY <1>1, AddTyped
<1>3. [p EXCEPT !.ok = FALSE] \in Parsers
  BY DEF Parsers
<1>4. p.depth + (CASE token[1] = "{" -> 1 [] token[1] = "}" -> -1 [] OTHER -> 0) \in Int
  <2> DEFINE change == CASE token[1] = "{" -> 1 [] token[1] = "}" -> -1 [] OTHER -> 0
  <2>1. p.depth \in Int
    BY DEF Parsers
  <2>2. change \in Int
    OBVIOUS
  <2> HIDE DEF change
  <2>3. p.depth + change \in Int
    BY <2>1, <2>2
  <2> QED
    BY <2>3 DEF change
<1> QED
  BY <1>1, <1>2, <1>3, <1>4 DEF ParseStep, Parsers

(* The state of Parse keeps its type over all tokens. *)
LEMMA ParseFold ==
  ASSUME NEW tokens \in Tokens
  PROVE  FoldLeft(ParseStep, ParseStart, tokens) \in Parsers
<1> DEFINE N == Len(tokens)
           Rec(it) == it = [T \in SUBSET DOMAIN tokens |->
                              IF T = {} THEN ParseStart
                                        ELSE ParseStep(it[T \ {Max(T)}], tokens[Max(T)])]
           it == CHOOSE i : Rec(i)
           F == [p \in Parsers \X (1 .. N) |-> ParseStep(p[1], tokens[p[2]])]
<1>1. N \in Nat /\ DOMAIN tokens = 1 .. N /\ \A i \in 1 .. N : tokens[i] \in TokenTypes \X Text
  BY DEF Tokens
<1>2. FoldLeft(ParseStep, ParseStart, tokens) = it[DOMAIN tokens]
  <2> HIDE DEF ParseStep, ParseStart, Max
  <2> QED
    BY DEF FoldLeft, MapThenFoldSet
<1>3. ParseStart \in Parsers
  BY DEF ParseStart, Parsers, Statements
<1>4. \A v \in Parsers, i \in 1 .. N : ParseStep(v, tokens[i]) \in Parsers
  BY <1>1, ParseStepTyped
<1> HIDE DEF N
<1>5. F \in [Parsers \X (1 .. N) -> Parsers]
  BY <1>4
<1>6. PICK g : FoldsTo(g, N, Parsers, ParseStart, F)
  <2> HIDE DEF F
  <2> QED
    BY <1>1, <1>3, <1>5, FoldExists
<1>7. ASSUME NEW T \in SUBSET (1 .. N), T # {}
      PROVE  g[T] = ParseStep(g[T \ {Max(T)}], tokens[Max(T)])
  <2>1. Max(T) \in 1 .. N /\ g[T \ {Max(T)}] \in Parsers
    BY <1>1, <1>6, <1>7, MaxOfPositions DEF FoldsTo
  <2> QED
    BY <1>6, <1>7, <2>1 DEF FoldsTo
<1>8. Rec(it)
  <2>1. Rec(g)
    BY <1>1, <1>6, <1>7 DEF FoldsTo
  <2> HIDE DEF Rec
  <2> QED
    BY <2>1
<1>9. it[{}] = ParseStart
  <2> HIDE DEF it
  <2> QED
    BY <1>8
<1>10. ASSUME NEW T \in SUBSET (1 .. N), T # {}, it[T \ {Max(T)}] \in Parsers
       PROVE  it[T] \in Parsers
  <2>1. Max(T) \in 1 .. N
    BY <1>1, <1>10, MaxOfPositions
  <2> HIDE DEF it
  <2>2. it[T] = ParseStep(it[T \ {Max(T)}], tokens[Max(T)])
    BY <1>1, <1>8, <1>10
  <2> QED
    BY <1>4, <1>10, <2>1, <2>2
<1>11. it[1 .. N] \in Parsers
  <2> HIDE DEF it
  <2> QED
    BY <1>1, <1>3, <1>9, <1>10, FoldTyped
<1> QED
  BY <1>1, <1>2, <1>11

(* Whatever a file holds, Parse gives a list of statements. *)
LEMMA ParseTyped ==
  ASSUME NEW text \in Text
  PROVE  Parse(text) \in Configs
<1>1. FoldLeft(ParseStep, ParseStart, Lex(text)) \in Parsers
  BY LexTyped, ParseFold
<1>2. \A p \in Parsers : Complete(p) \in Configs
  BY DEF Complete, Parsers, Configs
<1>3. Parse(text) = Complete(FoldLeft(ParseStep, ParseStart, Lex(text)))
  BY DEF Parse, ParseStart
<1> QED
  BY <1>1, <1>2, <1>3

-------------------------------------------------------------------------------
(* parseConfig *)

(* Tops gives indices. *)
LEMMA TopsTyped ==
  ASSUME NEW s \in Statements
  PROVE  Tops(s) \in Seq(DOMAIN s)
<1> DEFINE ids == [i \in DOMAIN s |-> i]
           N == Len(ids)
           Rec(it) == it = [T \in SUBSET DOMAIN ids |->
                              IF T = {} THEN <<>>
                                        ELSE (IF s[ids[Max(T)]].depth = 0 THEN Append(it[T \ {Max(T)}], ids[Max(T)]) ELSE it[T \ {Max(T)}])]
           it == CHOOSE i : Rec(i)
           F == [p \in Seq(DOMAIN s) \X (1 .. N) |-> (IF s[ids[p[2]]].depth = 0 THEN Append(p[1], ids[p[2]]) ELSE p[1])]
<1>1. N \in Nat /\ DOMAIN ids = 1 .. N /\ \A i \in 1 .. N : ids[i] \in DOMAIN s
  BY DEF Statements
<1>2. Tops(s) = it[DOMAIN ids]
  BY DEF Tops, FoldLeftDomain, FoldLeft, MapThenFoldSet
<1>3. <<>> \in Seq(DOMAIN s)
  OBVIOUS
<1>4. \A v \in Seq(DOMAIN s), i \in 1 .. N : (IF s[ids[i]].depth = 0 THEN Append(v, ids[i]) ELSE v) \in Seq(DOMAIN s)
  <2>1. \A D : \A v \in Seq(D), e \in D : Append(v, e) \in Seq(D)
    OBVIOUS
  <2> HIDE DEF ids
  <2> QED
    BY <1>1, <2>1
<1> HIDE DEF N
<1>5. F \in [Seq(DOMAIN s) \X (1 .. N) -> Seq(DOMAIN s)]
  BY <1>4
<1>6. PICK g : FoldsTo(g, N, Seq(DOMAIN s), <<>>, F)
  <2> HIDE DEF F
  <2> QED
    BY <1>1, <1>3, <1>5, FoldExists
<1>7. ASSUME NEW T \in SUBSET (1 .. N), T # {}
      PROVE  g[T] = (IF s[ids[Max(T)]].depth = 0 THEN Append(g[T \ {Max(T)}], ids[Max(T)]) ELSE g[T \ {Max(T)}])
  <2>1. Max(T) \in 1 .. N /\ g[T \ {Max(T)}] \in Seq(DOMAIN s)
    BY <1>1, <1>6, <1>7, MaxOfPositions DEF FoldsTo
  <2> QED
    BY <1>6, <1>7, <2>1 DEF FoldsTo
<1>8. Rec(it)
  <2>1. Rec(g)
    BY <1>1, <1>6, <1>7 DEF FoldsTo
  <2> HIDE DEF Rec
  <2> QED
    BY <2>1
<1>9. it[{}] = <<>>
  <2> HIDE DEF it
  <2> QED
    BY <1>8
<1>10. ASSUME NEW T \in SUBSET (1 .. N), T # {}, it[T \ {Max(T)}] \in Seq(DOMAIN s)
       PROVE  it[T] \in Seq(DOMAIN s)
  <2>1. Max(T) \in 1 .. N
    BY <1>1, <1>10, MaxOfPositions
  <2> HIDE DEF it
  <2>2. it[T] = (IF s[ids[Max(T)]].depth = 0 THEN Append(it[T \ {Max(T)}], ids[Max(T)]) ELSE it[T \ {Max(T)}])
    BY <1>1, <1>8, <1>10
  <2> QED
    BY <1>4, <1>10, <2>1, <2>2
<1>11. it[1 .. N] \in Seq(DOMAIN s)
  <2> HIDE DEF it
  <2> QED
    BY <1>1, <1>3, <1>9, <1>10, FoldTyped
<1> QED
  BY <1>1, <1>2, <1>11

LEMMA SectionsTyped ==
  ASSUME NEW s \in Statements
  PROVE  /\ Sections(s) \in Seq(Range(Sections(s)))
         /\ \A x \in Range(Sections(s)) : x.tokens \in Seq(Text)
<1>1. /\ Tops(s) \in Seq(DOMAIN s)
      /\ \A i \in DOMAIN s : s[i].tokens \in Seq(Text)
  <2>1. \A i \in DOMAIN s : s[i] \in Statement
    BY DEF Statements
  <2>2. \A x \in Statement : x.tokens \in Seq(Text)
    BY DEF Statement
  <2> QED
    BY <2>1, <2>2, TopsTyped
<1>2. /\ DOMAIN Tops(s) = 1 .. Len(Tops(s)) /\ Len(Tops(s)) \in Nat
      /\ \A n \in DOMAIN Tops(s) : Tops(s)[n] \in DOMAIN s
  BY <1>1
<1>3. /\ DOMAIN Sections(s) = 1 .. Len(Tops(s))
      /\ \A n \in DOMAIN Sections(s) : Sections(s)[n].tokens \in Seq(Text)
      /\ Sections(s) = [n \in 1 .. Len(Tops(s)) |-> Sections(s)[n]]
  BY <1>1, <1>2 DEF Sections
<1> QED
  BY <1>2, <1>3 DEF Range

(* Tables of routes that a list of sections can give.                       *)
Tables(R) == UNION {[D -> R] : D \in SUBSET Text}
Readings(secs) == [status : {"accepted", "refused", "threw"}, port : Int \cup {Unset},
                   routes : Tables({RouteOf(x) : x \in Range(secs)})]

LEMMA PutInTable ==
  ASSUME NEW R, NEW t \in Tables(R), NEW p \in Text, NEW v \in R
  PROVE  Put(t, p, v) \in Tables(R)
<1>1. PICK D \in SUBSET Text : t \in [D -> R]
  BY DEF Tables
<1>2. Put(t, p, v) \in [D \cup {p} -> R]
  BY <1>1 DEF Put
<1>3. D \cup {p} \in SUBSET Text
  OBVIOUS
<1> QED
  BY <1>2, <1>3 DEF Tables

LEMMA NothingReadTyped ==
  ASSUME NEW secs
  PROVE  NothingRead \in Readings(secs)
<1>1. NoRoutes \in Tables({RouteOf(x) : x \in Range(secs)})
  BY DEF NoRoutes, Tables
<1> QED
  BY <1>1 DEF NothingRead, Readings

LEMMA ReadSectionTyped ==
  ASSUME NEW secs, NEW section \in Range(secs), section.tokens \in Seq(Text),
         NEW c \in Readings(secs)
  PROVE  ReadSection(c, section) \in Readings(secs)
<1> DEFINE R == {RouteOf(x) : x \in Range(secs)}
<1>1. /\ c.status \in {"accepted", "refused", "threw"}
      /\ c.port \in Int \cup {Unset}
      /\ c.routes \in Tables(R)
      /\ c = [status |-> c.status, port |-> c.port, routes |-> c.routes]
  BY DEF Readings
<1>2. ASSUME IsPort(section) PROVE ReadPort(c, section) \in Readings(secs)
  <2>1. \A n \in Int : [c EXCEPT !.port = n] \in Readings(secs)
    BY DEF Readings
  <2>2. [c EXCEPT !.status = "threw"] \in Readings(secs)
    BY DEF Readings
  <2> QED
    BY <2>1, <2>2, NumberOK DEF ReadPort
<1>3. ASSUME IsLocation(section) PROVE ReadLocation(c, section) \in Readings(secs)
  <2>1. section.tokens[2] \in Text
    BY <1>3 DEF IsLocation
  <2>2. Put(c.routes, section.tokens[2], RouteOf(section)) \in Tables(R)
    <3>1. RouteOf(section) \in R
      OBVIOUS
    <3> HIDE DEF R
    <3> QED
      BY <1>1, <2>1, <3>1, PutInTable
  <2>3. [c EXCEPT !.routes = Put(@, section.tokens[2], RouteOf(section))] \in Readings(secs)
    BY <2>2 DEF Readings
  <2>4. [c EXCEPT !.status = "refused"] \in Readings(secs)
    BY DEF Readings
  <2> QED
    BY <2>3, <2>4 DEF ReadLocation
<1> QED
  BY <1>2, <1>3 DEF ReadSection

(* The loop of parseConfig as a function of the number of its turns.        *)
LEMMA ReadFold ==
  ASSUME NEW secs, secs \in Seq(Range(secs)), \A x \in Range(secs) : x.tokens \in Seq(Text)
  PROVE  \E g :
           /\ g[0] = NothingRead
           /\ \A k \in 0 .. Len(secs) : g[k] \in Readings(secs)
           /\ \A k \in 0 .. Len(secs) - 1 : g[k + 1] = ReadSection(g[k], secs[k + 1])
           /\ FoldLeft(ReadSection, NothingRead, secs) = g[Len(secs)]
<1> DEFINE N == Len(secs)
           Rec(it) == it = [T \in SUBSET DOMAIN secs |->
                              IF T = {} THEN NothingRead
                                        ELSE ReadSection(it[T \ {Max(T)}], secs[Max(T)])]
           it == CHOOSE i : Rec(i)
           F == [p \in Readings(secs) \X (1 .. N) |-> ReadSection(p[1], secs[p[2]])]
<1>1. N \in Nat /\ DOMAIN secs = 1 .. N /\ \A i \in 1 .. N : secs[i] \in Range(secs)
  OBVIOUS
<1>2. FoldLeft(ReadSection, NothingRead, secs) = it[DOMAIN secs]
  <2> HIDE DEF ReadSection, NothingRead, Max
  <2> QED
    BY DEF FoldLeft, MapThenFoldSet
<1>3. NothingRead \in Readings(secs)
  BY NothingReadTyped
<1>4. \A v \in Readings(secs), i \in 1 .. N : ReadSection(v, secs[i]) \in Readings(secs)
  BY <1>1, ReadSectionTyped
<1> HIDE DEF N
<1>5. F \in [Readings(secs) \X (1 .. N) -> Readings(secs)]
  BY <1>4
<1>6. PICK h : FoldsTo(h, N, Readings(secs), NothingRead, F)
  <2> HIDE DEF F
  <2> QED
    BY <1>1, <1>3, <1>5, FoldExists
<1>7. ASSUME NEW T \in SUBSET (1 .. N), T # {}
      PROVE  h[T] = ReadSection(h[T \ {Max(T)}], secs[Max(T)])
  <2>1. Max(T) \in 1 .. N /\ h[T \ {Max(T)}] \in Readings(secs)
    BY <1>1, <1>6, <1>7, MaxOfPositions DEF FoldsTo
  <2> QED
    BY <1>6, <1>7, <2>1 DEF FoldsTo
<1>8. Rec(it)
  <2>1. Rec(h)
    BY <1>1, <1>6, <1>7 DEF FoldsTo
  <2> HIDE DEF Rec
  <2> QED
    BY <2>1
<1>9. /\ it[{}] = NothingRead
      /\ \A T \in SUBSET (1 .. N) : T # {} =>
           it[T] = ReadSection(it[T \ {Max(T)}], secs[Max(T)])
  <2> HIDE DEF it
  <2> QED
    BY <1>1, <1>8
<1> DEFINE g == [k \in 0 .. N |-> it[1 .. k]]
<1> HIDE DEF it
<1>10. g[0] = NothingRead
  <2>1. 0 \in 0 .. N /\ 1 .. 0 = {}
    BY <1>1
  <2> QED
    BY <1>9, <2>1
<1>11. \A k \in 0 .. N - 1 : g[k + 1] = ReadSection(g[k], secs[k + 1])
  <2> SUFFICES ASSUME NEW k \in 0 .. N - 1
               PROVE  it[1 .. k + 1] = ReadSection(it[1 .. k], secs[k + 1])
    BY <1>1
  <2>1. k + 1 \in 1 .. k + 1 /\ 1 .. k + 1 \in SUBSET (1 .. N) /\ k \in Nat /\ k + 1 \in Nat
    BY <1>1
  <2>2. Max(1 .. k + 1) \in 1 .. k + 1 /\ k + 1 <= Max(1 .. k + 1)
    BY <2>1, MaxOfPositions
  <2>3. Max(1 .. k + 1) = k + 1
    BY <2>1, <2>2
  <2>4. (1 .. k + 1) \ {k + 1} = 1 .. k
    BY <2>1
  <2> QED
    BY <1>9, <2>1, <2>3, <2>4
<1>12. \A k \in 0 .. N : g[k] \in Readings(secs)
  <2> DEFINE S == {k \in Nat : k <= N => g[k] \in Readings(secs)}
  <2> HIDE DEF g
  <2>1. 0 \in S
    BY <1>3, <1>10
  <2>2. ASSUME NEW k \in S PROVE k + 1 \in S
    <3>1. k \in Nat /\ (k <= N => g[k] \in Readings(secs))
      OBVIOUS
    <3>2. ASSUME k + 1 <= N PROVE g[k + 1] \in Readings(secs)
      <4>1. k \in 0 .. N - 1 /\ k <= N /\ k + 1 \in 1 .. N
        BY <1>1, <3>1, <3>2
      <4> QED
        BY <1>4, <1>11, <3>1, <4>1
    <3> QED
      BY <3>1, <3>2
  <2>3. S = Nat
    <3> HIDE DEF S
    <3>1. S \in SUBSET Nat
      BY DEF S
    <3> QED
      BY <2>1, <2>2, <3>1, NatSetInduction
  <2>4. \A k \in Nat : k <= N => g[k] \in Readings(secs)
    BY <2>3
  <2> QED
    BY <1>1, <2>4
<1>13. g[N] = it[1 .. N]
  BY <1>1
<1> HIDE DEF g
<1> QED
  BY <1>1, <1>2, <1>10, <1>11, <1>12, <1>13 DEF N

(* A table of routes: paths with what registerRoute was given for them.     *)
IsTable(r) ==
  /\ DOMAIN r \subseteq Text
  /\ \A p \in DOMAIN r : DOMAIN r[p] = {"handler", "args"}

LEMMA ParseConfigTyped ==
  ASSUME NEW c \in Configs
  PROVE  /\ ParseConfig(c).status \in {"accepted", "refused", "threw"}
         /\ ParseConfig(c).port \in Int \cup {Unset}
         /\ IsTable(ParseConfig(c).routes)
         /\ ParseConfig(c).status = "accepted" => <<"/">> \in DOMAIN ParseConfig(c).routes
<1> DEFINE secs == Sections(c.statements)
           r == ReadSections(c)
<1>1. r \in Readings(secs)
  <2>1. c.statements \in Statements
    BY DEF Configs
  <2>2. /\ secs \in Seq(Range(secs))
        /\ \A x \in Range(secs) : x.tokens \in Seq(Text)
    BY <2>1, SectionsTyped
  <2>3. r = FoldLeft(ReadSection, NothingRead, secs)
    BY DEF ReadSections
  <2> HIDE DEF secs, r
  <2>4. Len(secs) \in 0 .. Len(secs)
    BY <2>2
  <2> QED
    BY <2>2, <2>3, <2>4, ReadFold
<1>2. /\ r.status \in {"accepted", "refused", "threw"}
      /\ r.port \in Int \cup {Unset}
      /\ IsTable(r.routes)
      /\ r = [status |-> r.status, port |-> r.port, routes |-> r.routes]
  <2>1. /\ r.routes \in Tables({RouteOf(x) : x \in Range(secs)})
        /\ r.status \in {"accepted", "refused", "threw"}
        /\ r.port \in Int \cup {Unset}
        /\ r = [status |-> r.status, port |-> r.port, routes |-> r.routes]
    <3> HIDE DEF r, secs
    <3> QED
      BY <1>1 DEF Readings
  <2>2. PICK D \in SUBSET Text : r.routes \in [D -> {RouteOf(x) : x \in Range(secs)}]
    <3> HIDE DEF r, secs
    <3> QED
      BY <2>1 DEF Tables
  <2>3. \A x : DOMAIN RouteOf(x) = {"handler", "args"}
    BY DEF RouteOf
  <2>4. IsTable(r.routes)
    <3> HIDE DEF r, secs
    <3> QED
      BY <2>2, <2>3 DEF IsTable
  <2> QED
    BY <2>1, <2>4
<1>3. /\ <<"/">> \in Text
      /\ DOMAIN NotFound = {"handler", "args"}
  BY DEF Text, Symbols, NotFound
<1>4. /\ IsTable(Put(r.routes, <<"/">>, NotFound))
      /\ <<"/">> \in DOMAIN Put(r.routes, <<"/">>, NotFound)
  <2> HIDE DEF r
  <2> QED
    BY <1>2, <1>3 DEF IsTable, Put
<1>5. CASE ~c.ok
  <2>1. IsTable(NoRoutes)
    BY DEF IsTable, NoRoutes
  <2> QED
    BY <1>5, <2>1 DEF ParseConfig, NothingRead
<1>6. CASE c.ok
  <2>1. ParseConfig(c) = WithNotFound(r)
    BY <1>6 DEF ParseConfig
  <2> HIDE DEF r
  <2> QED
    BY <1>2, <1>4, <2>1 DEF WithNotFound
<1> QED
  BY <1>5, <1>6

-------------------------------------------------------------------------------
(* What parseConfig reads, in terms of the sections of the file             *)

PathAt(s, i)   == s[i].tokens[2]
LocationsOf(s) == {i \in DOMAIN s : IsLocation(s[i])}
PortsOf(s)     == {i \in DOMAIN s : IsPort(s[i])}
MistakesOf(s)  ==
  {i \in LocationsOf(s) :
     EndsInSlash(PathAt(s, i)) \/ \E j \in LocationsOf(s) : j < i /\ PathAt(s, j) = PathAt(s, i)}

(* The sections of S among the first k that no mistake precedes.            *)
Before(s, S, k) == {i \in S : i <= k /\ \A m \in MistakesOf(s) : i < m}

PortFrom(s, P) == IF P = {} THEN Unset ELSE Number[s[Max(P)].tokens[2][1]]

(* r is what k turns of the loop make of the sections s, unless a number is *)
(* none.                                                                    *)
DeclaredBy(s, k, r) ==
  r.status # "threw" =>
    /\ r.status = "accepted" <=> \A m \in MistakesOf(s) : k < m
    /\ DOMAIN r.routes = {PathAt(s, i) : i \in Before(s, LocationsOf(s), k)}
    /\ \A i \in Before(s, LocationsOf(s), k) : r.routes[PathAt(s, i)] = RouteOf(s[i])
    /\ r.port = PortFrom(s, Before(s, PortsOf(s), k))

(* Behind a mistake nothing more is declared. *)
LEMMA BeforeAfterMistake ==
  ASSUME NEW s, NEW N \in Nat, DOMAIN s = 1 .. N, NEW S \in SUBSET (1 .. N), NEW k \in Nat,
         NEW m \in MistakesOf(s), m <= k + 1
  PROVE  Before(s, S, k + 1) = Before(s, S, k)
<1>1. m \in 1 .. N
  BY DEF MistakesOf, LocationsOf
<1>2. ASSUME NEW i \in S, i <= k + 1, i < m PROVE i <= k
  BY <1>1, <1>2
<1>3. ASSUME NEW i \in S, i <= k PROVE i <= k + 1
  BY <1>3
<1> QED
  BY <1>2, <1>3 DEF Before

(* In front of all mistakes everything is. *)
LEMMA BeforeNoMistake ==
  ASSUME NEW s, NEW N \in Nat, DOMAIN s = 1 .. N, NEW S \in SUBSET (1 .. N), NEW k \in Nat,
         \A m \in MistakesOf(s) : k < m
  PROVE  Before(s, S, k) = {i \in S : i <= k}
<1>1. \A m \in MistakesOf(s) : m \in 1 .. N
  BY DEF MistakesOf, LocationsOf
<1>2. ASSUME NEW i \in S, i <= k, NEW m \in MistakesOf(s) PROVE i < m
  BY <1>1, <1>2
<1> QED
  BY <1>2 DEF Before

LEMMA SectionsInDomain ==
  ASSUME NEW s, NEW N \in Nat, DOMAIN s = 1 .. N
  PROVE  /\ LocationsOf(s) \in SUBSET (1 .. N) /\ PortsOf(s) \in SUBSET (1 .. N)
         /\ MistakesOf(s) \in SUBSET (1 .. N)
BY DEF LocationsOf, PortsOf, MistakesOf

(* One turn, the loop being in front of all mistakes. *)
LEMMA DeclaredStep ==
  ASSUME NEW s, NEW N \in Nat, DOMAIN s = 1 .. N,
         NEW k \in Nat, k + 1 <= N, NEW r \in Readings(s),
         DeclaredBy(s, k, r), r.status = "accepted",
         NEW x, x = s[k + 1], NEW L, L = LocationsOf(s), NEW P, P = PortsOf(s)
  PROVE  DeclaredBy(s, k + 1, ReadSection(r, x))
<1>1. /\ \A m \in MistakesOf(s) : k < m
      /\ DOMAIN r.routes = {PathAt(s, i) : i \in Before(s, L, k)}
      /\ \A i \in Before(s, L, k) : r.routes[PathAt(s, i)] = RouteOf(s[i])
      /\ r.port = PortFrom(s, Before(s, P, k))
  BY DEF DeclaredBy
<1>2. L \in SUBSET (1 .. N) /\ P \in SUBSET (1 .. N) /\ MistakesOf(s) \in SUBSET (1 .. N)
  BY SectionsInDomain
<1>3. Before(s, L, k) = {i \in L : i <= k} /\ Before(s, P, k) = {i \in P : i <= k}
  BY <1>1, <1>2, BeforeNoMistake
<1>4. /\ k + 1 \in L <=> IsLocation(x)
      /\ k + 1 \in P <=> IsPort(x)
      /\ ~(IsLocation(x) /\ IsPort(x))
  BY DEF LocationsOf, PortsOf, IsLocation, IsPort
<1>5. /\ r = [status |-> r.status, port |-> r.port, routes |-> r.routes]
      /\ r.status = "accepted"
  BY DEF Readings
<1>6. ASSUME \A m \in MistakesOf(s) : k + 1 < m
      PROVE  /\ Before(s, L, k + 1) = {i \in L : i <= k + 1}
             /\ Before(s, P, k + 1) = {i \in P : i <= k + 1}
  BY <1>2, <1>6, BeforeNoMistake
<1>7. k + 1 \notin MistakesOf(s) => \A m \in MistakesOf(s) : k + 1 < m
  BY <1>1, <1>2
<1>8. k + 1 \in MistakesOf(s) <=>
        IsLocation(x) /\ (EndsInSlash(x.tokens[2]) \/ x.tokens[2] \in DOMAIN r.routes)
  <2>1. (\E j \in L : j < k + 1 /\ PathAt(s, j) = PathAt(s, k + 1))
          <=> PathAt(s, k + 1) \in DOMAIN r.routes
    <3>1. \A j \in L : j < k + 1 <=> j <= k
      BY <1>2
    <3> QED
      BY <1>1, <1>3, <3>1
  <2>2. PathAt(s, k + 1) = x.tokens[2]
    BY DEF PathAt
  <2> QED
    BY <1>4, <2>1, <2>2 DEF MistakesOf
<1>9. CASE IsPort(x)
  <2>1. k + 1 \notin L /\ k + 1 \in P /\ k + 1 \notin MistakesOf(s)
    BY <1>4, <1>8, <1>9
  <2>2. /\ {i \in L : i <= k + 1} = {i \in L : i <= k}
        /\ {i \in P : i <= k + 1} = {i \in P : i <= k} \cup {k + 1}
    BY <1>2, <2>1
  <2>3. ReadSection(r, x) = ReadPort(r, x)
    BY <1>4, <1>5, <1>9 DEF ReadSection
  <2>4. CASE x.tokens[2][1] \in DOMAIN Number
    <3>1. ReadSection(r, x) = [r EXCEPT !.port = Number[x.tokens[2][1]]]
      BY <2>3, <2>4 DEF ReadPort
    <3> DEFINE Q == {i \in P : i <= k + 1}
    <3>2. Max(Q) = k + 1
      <4>1. Q \in SUBSET (1 .. N) /\ k + 1 \in Q /\ Q # {} /\ \A i \in Q : i <= k + 1
        BY <1>2, <2>1
      <4> HIDE DEF Q
      <4>2. Max(Q) \in Q /\ k + 1 <= Max(Q)
        BY <4>1, MaxOfPositions
      <4>3. Max(Q) \in 1 .. N /\ Max(Q) <= k + 1
        BY <4>1, <4>2
      <4> QED
        BY <4>2, <4>3
    <3>3. PortFrom(s, Q) = Number[x.tokens[2][1]]
      <4>1. Q # {}
        BY <2>1
      <4> HIDE DEF Q
      <4> QED
        BY <3>2, <4>1 DEF PortFrom
    <3>4. /\ [r EXCEPT !.port = Number[x.tokens[2][1]]].routes = r.routes
          /\ [r EXCEPT !.port = Number[x.tokens[2][1]]].status = "accepted"
          /\ [r EXCEPT !.port = Number[x.tokens[2][1]]].port = Number[x.tokens[2][1]]
      BY <1>5
    <3>5. Before(s, L, k + 1) = Before(s, L, k) /\ Before(s, P, k + 1) = Q
      BY <1>3, <1>6, <1>7, <2>1, <2>2
    <3> HIDE DEF Q
    <3> QED
      BY <1>1, <1>7, <2>1, <3>1, <3>3, <3>4, <3>5 DEF DeclaredBy
  <2>5. CASE x.tokens[2][1] \notin DOMAIN Number
    BY <1>5, <2>3, <2>5 DEF ReadPort, DeclaredBy
  <2> QED
    BY <2>4, <2>5
<1>10. CASE IsLocation(x) /\ k + 1 \in MistakesOf(s)
  <2>1. ReadSection(r, x) = [r EXCEPT !.status = "refused"]
    BY <1>4, <1>5, <1>8, <1>10 DEF ReadSection, ReadLocation
  <2>2. /\ [r EXCEPT !.status = "refused"].status = "refused"
        /\ [r EXCEPT !.status = "refused"].routes = r.routes
        /\ [r EXCEPT !.status = "refused"].port = r.port
    BY <1>5
  <2>3. Before(s, L, k + 1) = Before(s, L, k) /\ Before(s, P, k + 1) = Before(s, P, k)
    BY <1>2, <1>10, BeforeAfterMistake
  <2>4. ~(k + 1 < k + 1)
    OBVIOUS
  <2> QED
    BY <1>1, <1>10, <2>1, <2>2, <2>3, <2>4 DEF DeclaredBy
<1>11. CASE IsLocation(x) /\ k + 1 \notin MistakesOf(s)
  <2> DEFINE new == Put(r.routes, x.tokens[2], RouteOf(x))
  <2>1. ReadSection(r, x) = [r EXCEPT !.routes = new]
    BY <1>4, <1>5, <1>8, <1>11 DEF ReadSection, ReadLocation
  <2>2. /\ [r EXCEPT !.routes = new].status = "accepted"
        /\ [r EXCEPT !.routes = new].routes = new
        /\ [r EXCEPT !.routes = new].port = r.port
    <3> HIDE DEF new
    <3> QED
      BY <1>5
  <2>3. k + 1 \in L /\ k + 1 \notin P
    BY <1>4, <1>11
  <2>4. /\ {i \in L : i <= k + 1} = {i \in L : i <= k} \cup {k + 1}
        /\ {i \in P : i <= k + 1} = {i \in P : i <= k}
    BY <1>2, <2>3
  <2>5. /\ Before(s, L, k + 1) = Before(s, L, k) \cup {k + 1}
        /\ Before(s, P, k + 1) = Before(s, P, k)
    BY <1>3, <1>6, <1>7, <1>11, <2>4
  <2>6. x.tokens[2] = PathAt(s, k + 1) /\ x.tokens[2] \notin DOMAIN r.routes
    BY <1>8, <1>11 DEF PathAt
  <2>7. DOMAIN new = {PathAt(s, i) : i \in Before(s, L, k + 1)}
    <3> QED
      BY <1>1, <2>5, <2>6 DEF Put
  <2>8. \A i \in Before(s, L, k + 1) : new[PathAt(s, i)] = RouteOf(s[i])
    <3> SUFFICES ASSUME NEW i \in Before(s, L, k + 1) PROVE new[PathAt(s, i)] = RouteOf(s[i])
      OBVIOUS
    <3>1. CASE i = k + 1
      BY <2>6, <3>1 DEF Put
    <3>2. CASE i \in Before(s, L, k)
      <4>1. PathAt(s, i) \in DOMAIN r.routes /\ r.routes[PathAt(s, i)] = RouteOf(s[i])
        BY <1>1, <3>2
      <4>2. PathAt(s, i) # x.tokens[2]
        BY <2>6, <4>1
      <4> QED
        BY <4>1, <4>2 DEF Put
    <3> QED
      BY <2>5, <3>1, <3>2
  <2> HIDE DEF new
  <2> QED
    BY <1>1, <1>7, <1>11, <2>1, <2>2, <2>5, <2>7, <2>8 DEF DeclaredBy
<1>12. CASE ~IsLocation(x) /\ ~IsPort(x)
  <2>1. ReadSection(r, x) = r
    BY <1>5, <1>12 DEF ReadSection
  <2>2. k + 1 \notin L /\ k + 1 \notin P /\ k + 1 \notin MistakesOf(s)
    BY <1>4, <1>8, <1>12
  <2>3. /\ {i \in L : i <= k + 1} = {i \in L : i <= k}
        /\ {i \in P : i <= k + 1} = {i \in P : i <= k}
    BY <1>2, <2>2
  <2>4. Before(s, L, k + 1) = Before(s, L, k) /\ Before(s, P, k + 1) = Before(s, P, k)
    BY <1>3, <1>6, <1>7, <2>2, <2>3
  <2> QED
    BY <1>1, <1>5, <1>7, <2>1, <2>2, <2>4 DEF DeclaredBy
<1> QED
  BY <1>9, <1>10, <1>11, <1>12

LEMMA DeclaredNext ==
  ASSUME NEW s, NEW N \in Nat, DOMAIN s = 1 .. N,
         NEW k \in Nat, k + 1 <= N, NEW r \in Readings(s), DeclaredBy(s, k, r)
  PROVE  DeclaredBy(s, k + 1, ReadSection(r, s[k + 1]))
<1>1. CASE r.status = "accepted"
  BY <1>1, DeclaredStep
<1>2. CASE r.status # "accepted"
  <2>1. ReadSection(r, s[k + 1]) = r
    BY <1>2 DEF ReadSection
  <2>2. CASE r.status = "threw"
    BY <2>1, <2>2 DEF DeclaredBy
  <2>3. CASE r.status # "threw"
    <3>1. MistakesOf(s) \in SUBSET (1 .. N) /\ LocationsOf(s) \in SUBSET (1 .. N)
          /\ PortsOf(s) \in SUBSET (1 .. N)
      BY SectionsInDomain
    <3>2. PICK m \in MistakesOf(s) : ~(k < m)
      BY <1>2, <2>3 DEF DeclaredBy
    <3>3. m <= k + 1 /\ ~(k + 1 < m)
      BY <3>1, <3>2
    <3>4. /\ Before(s, LocationsOf(s), k + 1) = Before(s, LocationsOf(s), k)
          /\ Before(s, PortsOf(s), k + 1) = Before(s, PortsOf(s), k)
      BY <3>1, <3>3, BeforeAfterMistake
    <3> QED
      BY <1>2, <2>1, <2>3, <3>3, <3>4 DEF DeclaredBy
  <2> QED
    BY <2>2, <2>3
<1> QED
  BY <1>1, <1>2

LEMMA DeclaredFirst ==
  ASSUME NEW s, NEW N \in Nat, DOMAIN s = 1 .. N
  PROVE  DeclaredBy(s, 0, NothingRead)
<1>1. MistakesOf(s) \in SUBSET (1 .. N) /\ LocationsOf(s) \in SUBSET (1 .. N)
      /\ PortsOf(s) \in SUBSET (1 .. N)
  BY SectionsInDomain
<1>2. \A m \in MistakesOf(s) : 0 < m
  BY <1>1
<1>3. Before(s, LocationsOf(s), 0) = {} /\ Before(s, PortsOf(s), 0) = {}
  BY <1>1 DEF Before
<1> QED
  BY <1>2, <1>3 DEF DeclaredBy, NothingRead, NoRoutes, PortFrom

LEMMA DeclaredAll ==
  ASSUME NEW s, s \in Seq(Range(s)), \A x \in Range(s) : x.tokens \in Seq(Text)
  PROVE  DeclaredBy(s, Len(s), FoldLeft(ReadSection, NothingRead, s))
<1> DEFINE N == Len(s)
<1>1. N \in Nat /\ DOMAIN s = 1 .. N
  OBVIOUS
<1>2. PICK g : /\ g[0] = NothingRead
               /\ \A k \in 0 .. N : g[k] \in Readings(s)
               /\ \A k \in 0 .. N - 1 : g[k + 1] = ReadSection(g[k], s[k + 1])
               /\ FoldLeft(ReadSection, NothingRead, s) = g[N]
  BY ReadFold
<1> HIDE DEF N
<1> DEFINE S == {k \in Nat : k <= N => DeclaredBy(s, k, g[k])}
<1>3. 0 \in S
  BY <1>1, <1>2, DeclaredFirst
<1>4. ASSUME NEW k \in S PROVE k + 1 \in S
  <2>1. k \in Nat /\ (k <= N => DeclaredBy(s, k, g[k]))
    OBVIOUS
  <2>2. ASSUME k + 1 <= N PROVE DeclaredBy(s, k + 1, g[k + 1])
    <3>1. k \in 0 .. N - 1 /\ k \in 0 .. N /\ k <= N
      BY <1>1, <2>1, <2>2
    <3> QED
      BY <1>1, <1>2, <2>1, <2>2, <3>1, DeclaredNext
  <2> QED
    BY <2>1, <2>2
<1>5. S = Nat
  <2> HIDE DEF S
  <2>1. S \in SUBSET Nat
    BY DEF S
  <2> QED
    BY <1>3, <1>4, <2>1, NatSetInduction
<1>6. N \in S
  BY <1>1, <1>5
<1> QED
  BY <1>1, <1>2, <1>6 DEF N

(* The sections in front of the first mistake. *)
StopOf(s) == IF MistakesOf(s) = {} THEN Len(s) + 1 ELSE Min(MistakesOf(s))

LEMMA BeforeStop ==
  ASSUME NEW s, NEW N \in Nat, DOMAIN s = 1 .. N, Len(s) = N, NEW S \in SUBSET (1 .. N)
  PROVE  Before(s, S, N) = {i \in S : i < StopOf(s)}
<1> DEFINE M == MistakesOf(s)
<1>1. M \in SUBSET (1 .. N)
  BY SectionsInDomain
<1> HIDE DEF M
<1>2. CASE M = {}
  <2>1. StopOf(s) = N + 1
    BY <1>2 DEF StopOf, M
  <2>2. \A i \in S : i <= N /\ i < StopOf(s)
    BY <2>1
  <2> QED
    BY <1>2, <2>2 DEF Before, M
<1>3. CASE M # {}
  <2>1. PICK n \in M : \A m \in M : n <= m
    BY <1>1, <1>3, NatMinimum
  <2>2. Min(M) \in M /\ \A m \in M : Min(M) <= m
    BY <2>1 DEF Min
  <2>3. StopOf(s) = Min(M)
    BY <1>3 DEF StopOf, M
  <2>4. ASSUME NEW i \in S PROVE i <= N /\ ((\A m \in M : i < m) <=> i < Min(M))
    <3>1. i \in 1 .. N /\ Min(M) \in 1 .. N
      BY <1>1, <2>2
    <3>2. ASSUME i < Min(M), NEW m \in M PROVE i < m
      <4>1. m \in 1 .. N /\ Min(M) <= m
        BY <1>1, <2>2
      <4> QED
        BY <3>1, <3>2, <4>1
    <3> QED
      BY <2>2, <3>1, <3>2
  <2> QED
    BY <2>3, <2>4 DEF Before, M
<1> QED
  BY <1>2, <1>3

(* p is what parseConfig makes of c, with the sections s; those in D and P  *)
(* declare its routes and its port.                                         *)
ReadsAs(p, c, s, D, P) ==
  /\ p.status = "accepted" <=> c.ok /\ MistakesOf(s) = {}
  /\ DOMAIN p.routes = {PathAt(s, i) : i \in D}
                       \cup (IF p.status = "accepted" THEN {<<"/">>} ELSE {})
  /\ \A i \in D : p.routes[PathAt(s, i)] = RouteOf(s[i])
  /\ p.port = PortFrom(s, P)

(* What parseConfig returns, for a file that has been parsed or refused.    *)
LEMMA ParseConfigDeclared ==
  ASSUME NEW c \in Configs, NEW s, s = Sections(c.statements),
         NEW p, p = ParseConfig(c), p.status # "threw",
         NEW D, D = IF c.ok THEN {i \in LocationsOf(s) : i < StopOf(s)} ELSE {},
         NEW P, P = IF c.ok THEN {i \in PortsOf(s) : i < StopOf(s)} ELSE {}
  PROVE  ReadsAs(p, c, s, D, P)
<1>1. CASE ~c.ok
  <2>1. p = [NothingRead EXCEPT !.status = "refused"]
    BY <1>1 DEF ParseConfig
  <2>2. p.status = "refused" /\ p.port = Unset /\ p.routes = NoRoutes
    BY <2>1 DEF NothingRead
  <2>3. D = {} /\ P = {}
    BY <1>1
  <2> QED
    BY <1>1, <2>2, <2>3 DEF NoRoutes, PortFrom, ReadsAs
<1>2. CASE c.ok
  <2>1. c.statements \in Statements
    BY DEF Configs
  <2>2. s \in Seq(Range(s)) /\ \A x \in Range(s) : x.tokens \in Seq(Text)
    BY <2>1, SectionsTyped
  <2>3. PICK N \in Nat : N = Len(s) /\ DOMAIN s = 1 .. N
    BY <2>2
  <2>4. PICK r : r = FoldLeft(ReadSection, NothingRead, s)
    OBVIOUS
  <2>5. r \in Readings(s) /\ DeclaredBy(s, N, r)
    <3>1. DeclaredBy(s, N, r)
      BY <2>2, <2>3, <2>4, DeclaredAll
    <3>2. N \in 0 .. N
      OBVIOUS
    <3>3. r \in Readings(s)
      BY <2>2, <2>3, <2>4, <3>2, ReadFold
    <3> QED
      BY <3>1, <3>3
  <2>6. p = WithNotFound(r)
    BY <1>2, <2>4 DEF ParseConfig, ReadSections
  <2>7. /\ r = [status |-> r.status, port |-> r.port, routes |-> r.routes]
    BY <2>5 DEF Readings
  <2>8. /\ p.status = r.status /\ p.port = r.port
        /\ p.routes = IF r.status = "accepted" THEN Put(r.routes, <<"/">>, NotFound)
                                               ELSE r.routes
    BY <2>6, <2>7 DEF WithNotFound
  <2>9. LocationsOf(s) \in SUBSET (1 .. N) /\ PortsOf(s) \in SUBSET (1 .. N)
        /\ MistakesOf(s) \in SUBSET (1 .. N)
    BY <2>3, SectionsInDomain
  <2>10. D = Before(s, LocationsOf(s), N) /\ P = Before(s, PortsOf(s), N)
    BY <1>2, <2>3, <2>9, BeforeStop
  <2>11. /\ r.status = "accepted" <=> \A m \in MistakesOf(s) : N < m
         /\ DOMAIN r.routes = {PathAt(s, i) : i \in D}
         /\ \A i \in D : r.routes[PathAt(s, i)] = RouteOf(s[i])
         /\ r.port = PortFrom(s, P)
    BY <2>5, <2>8, <2>10 DEF DeclaredBy
  <2>12. (\A m \in MistakesOf(s) : N < m) <=> MistakesOf(s) = {}
    BY <2>9
  <2>13. ASSUME NEW i \in D PROVE PathAt(s, i) # <<"/">>
    <3>1. i \in LocationsOf(s) /\ \A m \in MistakesOf(s) : i < m
      BY <2>10, <2>13 DEF Before
    <3>2. i \notin MistakesOf(s)
      BY <2>9, <3>1
    <3>3. ~EndsInSlash(PathAt(s, i))
      BY <3>1, <3>2 DEF MistakesOf
    <3>4. EndsInSlash(<<"/">>)
      BY DEF EndsInSlash, Last
    <3> QED
      BY <3>3, <3>4
  <2>14. CASE r.status = "accepted"
    <3>1. p.routes = Put(r.routes, <<"/">>, NotFound)
      BY <2>8, <2>14
    <3>2. DOMAIN p.routes = DOMAIN r.routes \cup {<<"/">>}
      BY <3>1 DEF Put
    <3>3. \A i \in D : p.routes[PathAt(s, i)] = RouteOf(s[i])
      BY <2>11, <2>13, <3>1 DEF Put
    <3> QED
      BY <1>2, <2>8, <2>11, <2>12, <2>14, <3>2, <3>3 DEF ReadsAs
  <2>15. CASE r.status # "accepted"
    BY <1>2, <2>8, <2>11, <2>12, <2>15 DEF ReadsAs
  <2> QED
    BY <2>14, <2>15
<1> QED
  BY <1>1, <1>2

-------------------------------------------------------------------------------
(* The request parser *)

LEMMA PieceExtended ==
  ASSUME NEW p \in Seq(Text), NEW c \in Symbols
  PROVE  /\ Append(p, <<>>) \in Seq(Text)
         /\ [p EXCEPT ![Len(p)] = Append(@, c)] \in Seq(Text)
<1>1. <<>> \in Text
  BY DEF Text
<1>2. \A t \in Text : Append(t, c) \in Text
  BY DEF Text
<1> DEFINE q == [p EXCEPT ![Len(p)] = Append(@, c)]
<1>3. p \in [1 .. Len(p) -> Text] /\ Len(p) \in Nat
  OBVIOUS
<1>4. q \in [1 .. Len(p) -> Text]
  BY <1>2, <1>3
<1>5. q \in Seq(Text)
  <2> HIDE DEF q
  <2> QED
    BY <1>3, <1>4
<1> QED
  BY <1>1, <1>5

(* Split gives pieces, at least one. *)
LEMMA SplitTyped ==
  ASSUME NEW s \in Text, NEW separators
  PROVE  Split(s, separators) \in Seq(Text)
<1> DEFINE N == Len(s)
           Rec(it) == it = [T \in SUBSET DOMAIN s |->
                              IF T = {} THEN <<<<>>>>
                                        ELSE (IF s[Max(T)] \in separators THEN Append(it[T \ {Max(T)}], <<>>)
    ELSE [it[T \ {Max(T)}] EXCEPT ![Len(it[T \ {Max(T)}])] = Append(@, s[Max(T)])])]
           it == CHOOSE i : Rec(i)
           F == [p \in Seq(Text) \X (1 .. N) |-> (IF s[p[2]] \in separators THEN Append(p[1], <<>>)
    ELSE [p[1] EXCEPT ![Len(p[1])] = Append(@, s[p[2]])])]
<1>1. N \in Nat /\ DOMAIN s = 1 .. N /\ \A i \in 1 .. N : s[i] \in Symbols
  BY DEF Text
<1>2. Split(s, separators) = it[DOMAIN s]
  BY DEF Split, FoldLeft, MapThenFoldSet
<1>3. <<<<>>>> \in Seq(Text)
  BY DEF Text
<1>4. \A v \in Seq(Text), i \in 1 .. N : (IF s[i] \in separators THEN Append(v, <<>>)
    ELSE [v EXCEPT ![Len(v)] = Append(@, s[i])]) \in Seq(Text)
  BY <1>1, PieceExtended
<1> HIDE DEF N
<1>5. F \in [Seq(Text) \X (1 .. N) -> Seq(Text)]
  BY <1>4
<1>6. PICK g : FoldsTo(g, N, Seq(Text), <<<<>>>>, F)
  <2> HIDE DEF F
  <2> QED
    BY <1>1, <1>3, <1>5, FoldExists
<1>7. ASSUME NEW T \in SUBSET (1 .. N), T # {}
      PROVE  g[T] = (IF s[Max(T)] \in separators THEN Append(g[T \ {Max(T)}], <<>>)
    ELSE [g[T \ {Max(T)}] EXCEPT ![Len(g[T \ {Max(T)}])] = Append(@, s[Max(T)])])
  <2>1. Max(T) \in 1 .. N /\ g[T \ {Max(T)}] \in Seq(Text)
    BY <1>1, <1>6, <1>7, MaxOfPositions DEF FoldsTo
  <2> QED
    BY <1>6, <1>7, <2>1 DEF FoldsTo
<1>8. Rec(it)
  <2>1. Rec(g)
    BY <1>1, <1>6, <1>7 DEF FoldsTo
  <2> HIDE DEF Rec
  <2> QED
    BY <2>1
<1>9. it[{}] = <<<<>>>>
  <2> HIDE DEF it
  <2> QED
    BY <1>8
<1>10. ASSUME NEW T \in SUBSET (1 .. N), T # {}, it[T \ {Max(T)}] \in Seq(Text)
       PROVE  it[T] \in Seq(Text)
  <2>1. Max(T) \in 1 .. N
    BY <1>1, <1>10, MaxOfPositions
  <2> HIDE DEF it
  <2>2. it[T] = (IF s[Max(T)] \in separators THEN Append(it[T \ {Max(T)}], <<>>)
    ELSE [it[T \ {Max(T)}] EXCEPT ![Len(it[T \ {Max(T)}])] = Append(@, s[Max(T)])])
    BY <1>1, <1>8, <1>10
  <2> QED
    BY <1>4, <1>10, <2>1, <2>2
<1>11. it[1 .. N] \in Seq(Text)
  <2> HIDE DEF it
  <2> QED
    BY <1>1, <1>3, <1>9, <1>10, FoldTyped
<1> QED
  BY <1>1, <1>2, <1>11

(* Words gives texts. *)
LEMMA WordsTyped ==
  ASSUME NEW s \in Text
  PROVE  Words(s) \in Seq(Text)
<1> DEFINE pieces == Split(s, {"sp", "cr", "lf"})
           N == Len(pieces)
           Rec(it) == it = [T \in SUBSET DOMAIN pieces |->
                              IF T = {} THEN <<>>
                                        ELSE (IF pieces[Max(T)] = <<>> THEN it[T \ {Max(T)}] ELSE Append(it[T \ {Max(T)}], pieces[Max(T)]))]
           it == CHOOSE i : Rec(i)
           F == [p \in Seq(Text) \X (1 .. N) |-> (IF pieces[p[2]] = <<>> THEN p[1] ELSE Append(p[1], pieces[p[2]]))]
<1>1. N \in Nat /\ DOMAIN pieces = 1 .. N /\ \A i \in 1 .. N : pieces[i] \in Text
  BY SplitTyped
<1>2. Words(s) = it[DOMAIN pieces]
  BY DEF Words, FoldLeft, MapThenFoldSet
<1>3. <<>> \in Seq(Text)
  OBVIOUS
<1>4. \A v \in Seq(Text), i \in 1 .. N : (IF pieces[i] = <<>> THEN v ELSE Append(v, pieces[i])) \in Seq(Text)
  BY <1>1
<1> HIDE DEF N
<1>5. F \in [Seq(Text) \X (1 .. N) -> Seq(Text)]
  BY <1>4
<1>6. PICK g : FoldsTo(g, N, Seq(Text), <<>>, F)
  <2> HIDE DEF F
  <2> QED
    BY <1>1, <1>3, <1>5, FoldExists
<1>7. ASSUME NEW T \in SUBSET (1 .. N), T # {}
      PROVE  g[T] = (IF pieces[Max(T)] = <<>> THEN g[T \ {Max(T)}] ELSE Append(g[T \ {Max(T)}], pieces[Max(T)]))
  <2>1. Max(T) \in 1 .. N /\ g[T \ {Max(T)}] \in Seq(Text)
    BY <1>1, <1>6, <1>7, MaxOfPositions DEF FoldsTo
  <2> QED
    BY <1>6, <1>7, <2>1 DEF FoldsTo
<1>8. Rec(it)
  <2>1. Rec(g)
    BY <1>1, <1>6, <1>7 DEF FoldsTo
  <2> HIDE DEF Rec
  <2> QED
    BY <2>1
<1>9. it[{}] = <<>>
  <2> HIDE DEF it
  <2> QED
    BY <1>8
<1>10. ASSUME NEW T \in SUBSET (1 .. N), T # {}, it[T \ {Max(T)}] \in Seq(Text)
       PROVE  it[T] \in Seq(Text)
  <2>1. Max(T) \in 1 .. N
    BY <1>1, <1>10, MaxOfPositions
  <2> HIDE DEF it
  <2>2. it[T] = (IF pieces[Max(T)] = <<>> THEN it[T \ {Max(T)}] ELSE Append(it[T \ {Max(T)}], pieces[Max(T)]))
    BY <1>1, <1>8, <1>10
  <2> QED
    BY <1>4, <1>10, <2>1, <2>2
<1>11. it[1 .. N] \in Seq(Text)
  <2> HIDE DEF it
  <2> QED
    BY <1>1, <1>3, <1>9, <1>10, FoldTyped
<1> QED
  BY <1>1, <1>2, <1>11

LEMMA LinesTyped ==
  ASSUME NEW s \in Text
  PROVE  Lines(s) \in Seq(Text)
<1>1. Split(s, {"lf"}) \in Seq(Text)
  BY SplitTyped
<1> QED
  BY <1>1 DEF Lines, Front

LEMMA HeadTyped ==
  ASSUME NEW raw \in Text
  PROVE  HeadOf(raw) \in Text
<1>1. CASE HeadEnds(raw) = {}
  BY <1>1 DEF HeadOf
<1>2. CASE HeadEnds(raw) # {}
  <2>1. Len(raw) \in Nat /\ HeadEnds(raw) \in SUBSET Nat /\ \A i \in HeadEnds(raw) : i <= Len(raw)
    BY DEF HeadEnds, Text
  <2>2. PICK m \in HeadEnds(raw) : \A n \in HeadEnds(raw) : m <= n
    BY <1>2, <2>1, NatMinimum
  <2>3. Min(HeadEnds(raw)) \in HeadEnds(raw)
    BY <2>2 DEF Min
  <2>4. Min(HeadEnds(raw)) - 1 \in Int /\ Min(HeadEnds(raw)) - 1 <= Len(raw)
    BY <2>1, <2>3
  <2>5. SubSeq(raw, 1, Min(HeadEnds(raw)) - 1) \in Text
    BY <2>4 DEF Text
  <2> QED
    BY <1>2, <2>5 DEF HeadOf
<1> QED
  BY <1>1, <1>2

(* Whatever has been read, the path of the request is a text. *)
LEMMA PathTyped ==
  ASSUME NEW raw \in Text
  PROVE  /\ ParseRequest(raw).path \in Text
         /\ DOMAIN ParseRequest(raw) = {"method", "path", "headers", "body"}
<1>1. Lines(HeadOf(raw)) \in Seq(Text)
  BY HeadTyped, LinesTyped
<1>2. Lines(HeadOf(raw)) # <<>> => Lines(HeadOf(raw))[1] \in Text
  BY <1>1
<1> DEFINE words == IF Lines(HeadOf(raw)) = <<>> THEN <<>> ELSE Words(Lines(HeadOf(raw))[1])
<1>3. words \in Seq(Text)
  BY <1>2, WordsTyped
<1>4. ParseRequest(raw) =
        IF Len(words) < 3 \/ words[3][1] # "HTTP/" THEN Malformed
        ELSE [method |-> words[1], path |-> words[2],
              headers |-> Headers(Tail(Lines(HeadOf(raw)))), body |-> BodyOf(raw)]
  BY DEF ParseRequest
<1> HIDE DEF words
<1>5. ~(Len(words) < 3) => words[2] \in Text
  BY <1>3
<1>6. <<>> \in Text
  BY DEF Text
<1> QED
  BY <1>4, <1>5, <1>6 DEF Malformed

-------------------------------------------------------------------------------
(* The inductive invariant *)

Phases   == {"start", "parsed", "listen", "serve", "ended"}
Replies  == {0, 200, 201, 400, 401, 404, 405, 500}

(* What parseConfig works on, and the table it leaves; nobody matches before*)
(* the server serves.                                                       *)
Main ==
  /\ phase \in Phases /\ accepted \in BOOLEAN
  /\ phase = "start" => file \in Files
  /\ phase = "parsed" => config \in Configs
  /\ phase = "listen" => port \in Int \cup {Unset}
  /\ phase = "serve" => port \in 0 .. 2^16 - 1
  /\ accepted => <<"/">> \in DOMAIN routes
  /\ phase \in {"start", "parsed", "listen"} =>
       \A w \in Workers : pc[w] = "idle" /\ todo[w] = {}

IsRequest(q) == DOMAIN q = {"method", "path", "headers", "body"} /\ q.path \in Text

(* One worker, with the keys of the table as they are: what it has found is *)
(* a prefix of its path, or still empty.                                    *)
WorkerOK(keys, p, q, t, l, s) ==
  /\ p \in {"idle", "match", "insert", "call"}
  /\ IsRequest(q) /\ t \subseteq keys /\ s \in Replies
  /\ p = "match"  => l = <<>> \/ (l \in keys /\ IsPrefix(l, q.path))
  /\ p = "insert" => l = <<>>
  /\ p = "call"   => l \in keys /\ IsPrefix(l, q.path)

AllWorkers ==
  \A w \in Workers :
    WorkerOK(DOMAIN routes, pc[w], req[w], todo[w], longest[w], reply[w])

(* The variables that workers have each for itself are functions.           *)
Shape ==
  /\ DOMAIN pc = Workers /\ pc = [w \in Workers |-> pc[w]]
  /\ DOMAIN req = Workers /\ DOMAIN todo = Workers
  /\ DOMAIN longest = Workers /\ DOMAIN reply = Workers

Inv == Main /\ IsTable(routes) /\ Shape /\ AllWorkers

-------------------------------------------------------------------------------
(* What the invariant says, in the words of the properties.                 *)

LEMMA InvTypeOK == Inv => TypeOK
<1> SUFFICES ASSUME Inv PROVE TypeOK
  OBVIOUS
<1>1. /\ phase \in {"start", "parsed", "listen", "serve", "ended"}
      /\ phase = "serve" => port \in 0 .. 2^16 - 1
      /\ accepted \in BOOLEAN
  BY DEF Inv, Main, Phases
<1>2. \A p \in DOMAIN routes : DOMAIN routes[p] = {"handler", "args"}
  BY DEF Inv, IsTable
<1>3. \A w \in Workers : WorkerOK(DOMAIN routes, pc[w], req[w], todo[w], longest[w], reply[w])
  BY DEF Inv, AllWorkers
<1>4. \A w \in Workers :
        /\ pc[w] \in {"idle", "match", "insert", "call"}
        /\ DOMAIN req[w] = {"method", "path", "headers", "body"}
        /\ todo[w] \subseteq DOMAIN routes
        /\ pc[w] = "call" => longest[w] \in DOMAIN routes
        /\ reply[w] \in {0, 200, 201, 400, 401, 404, 405, 500}
  <2> SUFFICES ASSUME NEW w \in Workers
               PROVE  /\ pc[w] \in {"idle", "match", "insert", "call"}
                      /\ DOMAIN req[w] = {"method", "path", "headers", "body"}
                      /\ todo[w] \subseteq DOMAIN routes
                      /\ pc[w] = "call" => longest[w] \in DOMAIN routes
                      /\ reply[w] \in {0, 200, 201, 400, 401, 404, 405, 500}
    OBVIOUS
  <2>1. WorkerOK(DOMAIN routes, pc[w], req[w], todo[w], longest[w], reply[w])
    BY <1>3
  <2>2. /\ pc[w] \in {"idle", "match", "insert", "call"} /\ IsRequest(req[w])
        /\ todo[w] \subseteq DOMAIN routes /\ reply[w] \in Replies
        /\ pc[w] = "call" => longest[w] \in DOMAIN routes
    BY <2>1 DEF WorkerOK
  <2>3. DOMAIN req[w] = {"method", "path", "headers", "body"}
    BY <2>2 DEF IsRequest
  <2> QED
    BY <2>2, <2>3 DEF Replies
<1>5. pc \in [Workers -> {"idle", "match", "insert", "call"}]
  <2>1. pc = [w \in Workers |-> pc[w]]
    BY DEF Inv, Shape
  <2>2. \A w \in Workers : pc[w] \in {"idle", "match", "insert", "call"}
    BY <1>4
  <2> QED
    BY <2>1, <2>2
<1> QED
  BY <1>1, <1>2, <1>4, <1>5 DEF TypeOK

-------------------------------------------------------------------------------
(* Facts for the steps *)

LEMMA FileIsText ==
  ASSUME NEW f \in Files, f # Unreadable
  PROVE  f \in Text
<1>1. f \in Seq(Range(f))
  BY TextsOK
<1>2. Range(f) \subseteq Symbols
  BY DEF Symbols
<1> QED
  BY <1>1, <1>2 DEF Text

LEMMA FileTyped ==
  ASSUME NEW f \in Files
  PROVE  ParseFile(f) \in Configs
<1>1. CASE f = Unreadable
  BY <1>1 DEF ParseFile, NoConfig, Configs, Statements
<1>2. CASE f # Unreadable
  BY <1>2, FileIsText, ParseTyped DEF ParseFile
<1> QED
  BY <1>1, <1>2

LEMMA RequestTyped ==
  ASSUME NEW r \in Requests, NEW n \in 1 .. Len(r)
  PROVE  SubSeq(r, 1, n) \in Text
<1>1. r \in Seq(Range(r))
  BY TextsOK
<1>2. Range(r) \subseteq Symbols
  BY DEF Symbols
<1>3. r \in Text
  BY <1>1, <1>2 DEF Text
<1> QED
  BY <1>3 DEF Text

(* The empty path is a prefix of every other. *)
LEMMA EmptyPrefix ==
  ASSUME NEW path \in Text
  PROVE  <<>> \in Text /\ Len(<<>>) = 0 /\ IsPrefix(<<>>, path)
<1>1. <<>> \in Text /\ Len(<<>>) = 0 /\ Len(path) \in Nat
  BY DEF Text
<1>2. SubSeq(<<>>, 1, Len(<<>>)) = <<>> /\ SubSeq(path, 1, Len(<<>>)) = <<>>
  BY <1>1 DEF Text
<1> QED
  BY <1>1, <1>2 DEF IsPrefix

LEMMA TextLength ==
  ASSUME NEW p \in Text
  PROVE  Len(p) \in Nat /\ (Len(p) = 0 => p = <<>>)
BY DEF Text


LEMMA IdleWorker ==
  ASSUME NEW keys, NEW q, IsRequest(q), NEW l, NEW s \in Replies
  PROVE  WorkerOK(keys, "idle", q, {}, l, s)
BY DEF WorkerOK

LEMMA StartedWorker ==
  ASSUME NEW keys, NEW q, IsRequest(q)
  PROVE  WorkerOK(keys, "match", q, keys, <<>>, 0)
BY DEF WorkerOK, Replies

LEMMA AnsweredWorker ==
  ASSUME NEW keys, NEW p, NEW q, NEW t, NEW l, NEW s, WorkerOK(keys, p, q, t, l, s),
         NEW new \in Replies
  PROVE  WorkerOK(keys, p, q, t, l, new)
BY DEF WorkerOK

(* One turn of the loop finds a prefix or keeps what was found.             *)
LEMMA AfterConsider ==
  ASSUME NEW keys, NEW q, NEW t, NEW l, NEW s, WorkerOK(keys, "match", q, t, l, s), NEW key \in t
  PROVE  WorkerOK(keys, "match", q, t \ {key},
                  IF IsPrefix(key, q.path) /\ Longer(key, l) THEN key ELSE l, s)
BY DEF WorkerOK

(* The entry that operator[] makes disturbs no worker.                      *)
LEMMA KeyAdded ==
  ASSUME NEW keys, NEW p, NEW q, NEW t, NEW l, NEW s, WorkerOK(keys, p, q, t, l, s)
  PROVE  WorkerOK(keys \cup {<<>>}, p, q, t, l, s)
BY DEF WorkerOK

(* The worker that has made it has found it.                                *)
LEMMA AfterInsert ==
  ASSUME NEW keys, NEW q, NEW t, NEW l, NEW s, WorkerOK(keys, "insert", q, t, l, s)
  PROVE  WorkerOK(keys \cup {<<>>}, "call", q, t, l, s)
<1>1. IsRequest(q) /\ l = <<>>
  BY DEF WorkerOK
<1>2. IsPrefix(<<>>, q.path)
  BY <1>1, EmptyPrefix DEF IsRequest
<1> QED
  BY <1>1, <1>2 DEF WorkerOK

(* The handlers answer with a status of the list.                           *)
LEMMA StatusTyped ==
  ASSUME NEW route, NEW q
  PROVE  Statuses(route, q) \subseteq Replies
<1>1. StaticStatus(route.args, q) \in Replies
  <2> DEFINE name  == route.args[2] \o SubSeq(q.path, Len(route.args[1]) + 1, Len(q.path))
             dots  == {i \in DOMAIN name : name[i] = "."}
             typed == dots # {} /\ \E t \in MimeTypes : SubSeq(name, Max(dots) + 1, Len(name)) = <<t>>
             found == \/ name \in ServedFiles
                      \/ route.args[2][1] = "/" /\ (<<"..">> \o name) \in ServedFiles
  <2>1. StaticStatus(route.args, q) =
          CASE ~IsGet(q) -> 400 [] typed /\ found -> 200 [] OTHER -> 404
    BY DEF StaticStatus
  <2> QED
    <3> HIDE DEF typed, found
    <3>1. (CASE ~IsGet(q) -> 400 [] typed /\ found -> 200 [] OTHER -> 404) \in {200, 400, 404}
      OBVIOUS
    <3> QED
      BY <2>1, <3>1 DEF Replies
<1>2. EchoStatus(q) \in Replies /\ HealthStatus(route.args, q) \in Replies
  BY DEF EchoStatus, HealthStatus, Replies
<1>3. SleepStatus \in Replies /\ NotFoundStatus \in Replies
  BY DEF SleepStatus, NotFoundStatus, Replies
<1>4. LoginStatuses(q) \subseteq Replies /\ RegisterStatuses(q) \subseteq Replies
  BY DEF LoginStatuses, RegisterStatuses, Replies
<1>5. PostMessageStatuses(q) \subseteq Replies /\ GetMessagesStatuses(route.args, q) \subseteq Replies
  BY DEF PostMessageStatuses, GetMessagesStatuses, Replies
<1>6. ApiStatuses(route.args, q) \subseteq Replies
  BY DEF ApiStatuses, Replies
<1>7. 200 \in Replies
  BY DEF Replies
<1> HIDE DEF StaticStatus, EchoStatus, HealthStatus, SleepStatus, NotFoundStatus, Replies,
             LoginStatuses, RegisterStatuses, PostMessageStatuses, GetMessagesStatuses, ApiStatuses
<1> QED
  BY <1>1, <1>2, <1>3, <1>4, <1>5, <1>6, <1>7 DEF Statuses

-------------------------------------------------------------------------------
(* The initial state and the steps *)

LEMMA InitInv == Init => Inv
<1> SUFFICES ASSUME Init PROVE Inv
  OBVIOUS
<1>1. IsRequest(Malformed) /\ 0 \in Replies
  BY DEF IsRequest, Malformed, Text, Replies
<1>2. DOMAIN routes = {}
  BY DEF Init, NoRoutes
<1>3. Main /\ IsTable(routes) /\ Shape
  <2>1. IsTable(routes)
    BY <1>2 DEF IsTable
  <2>2. Shape
    BY DEF Init, Shape
  <2>3. Main
    BY DEF Init, Main, Phases
  <2> QED
    BY <2>1, <2>2, <2>3
<1>4. \A w \in Workers : /\ pc[w] = "idle" /\ req[w] = Malformed /\ todo[w] = {}
                         /\ longest[w] = <<>> /\ reply[w] = 0
  BY DEF Init
<1>5. AllWorkers
  <2>1. WorkerOK(DOMAIN routes, "idle", Malformed, {}, <<>>, 0)
    BY <1>1, IdleWorker
  <2> QED
    BY <1>4, <2>1 DEF AllWorkers
<1> QED
  BY <1>3, <1>5 DEF Inv

LEMMA ReadFileInv == Inv /\ ReadFile => Inv'
<1> SUFFICES ASSUME Inv, ReadFile PROVE Inv'
  OBVIOUS
<1>1. /\ phase = "start" /\ phase' = "parsed" /\ config' = ParseFile(file)
      /\ UNCHANGED <<file, port, routes, accepted, pc, req, todo, longest, reply>>
  BY DEF ReadFile, worker
<1>2. config' \in Configs
  BY <1>1, FileTyped DEF Inv, Main
<1>3. Main'
  BY <1>1, <1>2 DEF Inv, Main, Phases
<1>4. IsTable(routes)' /\ Shape' /\ AllWorkers'
  BY <1>1 DEF Inv, IsTable, Shape, AllWorkers
<1> QED
  BY <1>3, <1>4 DEF Inv

LEMMA ReadConfigInv == Inv /\ ReadConfig => Inv'
<1> SUFFICES ASSUME Inv, ReadConfig PROVE Inv'
  OBVIOUS
<1> DEFINE c == ParseConfig(config)
<1>1. /\ phase = "parsed" /\ port' = c.port /\ routes' = c.routes
      /\ accepted' = (c.status = "accepted")
      /\ phase' = IF c.status = "threw" THEN "ended" ELSE "listen"
      /\ UNCHANGED <<file, config, pc, req, todo, longest, reply>>
  BY DEF ReadConfig, worker
<1>2. /\ c.port \in Int \cup {Unset} /\ IsTable(c.routes)
      /\ c.status = "accepted" => <<"/">> \in DOMAIN c.routes
  <2>1. config \in Configs
    BY <1>1 DEF Inv, Main
  <2> QED
    BY <2>1, ParseConfigTyped
<1> HIDE DEF c
<1>3. \A w \in Workers : pc[w] = "idle" /\ todo[w] = {}
  BY <1>1 DEF Inv, Main
<1>4. phase' \in {"ended", "listen"} /\ phase' \in Phases
  BY <1>1 DEF Phases
<1>5. Main'
  BY <1>1, <1>2, <1>3, <1>4 DEF Main
<1>6. IsTable(routes)' /\ Shape'
  BY <1>1, <1>2 DEF Inv, Shape, IsTable
<1>7. AllWorkers'
  <2> SUFFICES ASSUME NEW w \in Workers
               PROVE  WorkerOK(DOMAIN routes', pc[w], req[w], todo[w], longest[w], reply[w])
    BY <1>1 DEF AllWorkers
  <2>1. IsRequest(req[w]) /\ reply[w] \in Replies
    BY DEF Inv, AllWorkers, WorkerOK
  <2> QED
    BY <1>3, <2>1, IdleWorker
<1> QED
  BY <1>5, <1>6, <1>7 DEF Inv

LEMMA ListenInv == Inv /\ (Listen \/ ListenFails) => Inv'
<1> SUFFICES ASSUME Inv, Listen \/ ListenFails PROVE Inv'
  OBVIOUS
<1>1. /\ phase = "listen" /\ phase' \in {"serve", "ended"}
      /\ UNCHANGED <<routes, accepted, pc, req, todo, longest, reply>>
  BY DEF Listen, ListenFails, worker
<1>2. phase' = "serve" => port' \in 0 .. 2^16 - 1
  <2> SUFFICES ASSUME phase' = "serve" PROVE port' \in 0 .. 2^16 - 1
    OBVIOUS
  <2>1. PICK n \in IF port = Unset THEN Ports ELSE {port} : port' = AsPort(n)
    BY DEF Listen, ListenFails
  <2>2. n \in Int
    BY <1>1, PortsOK DEF Inv, Main
  <2> QED
    BY <2>1, <2>2 DEF AsPort
<1>3. Main'
  BY <1>1, <1>2 DEF Inv, Main, Phases
<1>4. IsTable(routes)' /\ Shape' /\ AllWorkers'
  BY <1>1 DEF Inv, IsTable, Shape, AllWorkers
<1> QED
  BY <1>3, <1>4 DEF Inv

LEMMA ReceiveInv ==
  ASSUME NEW w \in Workers, NEW r \in Requests, NEW n \in 1 .. Len(r),
         Inv, Receive(w, r, n)
  PROVE  Inv'
<1> DEFINE q == ParseRequest(SubSeq(r, 1, n))
<1>1. IsRequest(q)
  BY RequestTyped, PathTyped DEF IsRequest
<1>2. /\ phase = "serve" /\ UNCHANGED <<phase, file, config, port, routes, accepted>>
  BY DEF Receive
<1>3. IF q = Malformed
        THEN /\ reply' = [reply EXCEPT ![w] = 400]
             /\ UNCHANGED <<pc, req, todo, longest>>
        ELSE /\ pc' = [pc EXCEPT ![w] = "match"]
             /\ req' = [req EXCEPT ![w] = q]
             /\ todo' = [todo EXCEPT ![w] = DOMAIN routes]
             /\ longest' = [longest EXCEPT ![w] = <<>>]
             /\ reply' = [reply EXCEPT ![w] = 0]
  BY DEF Receive
<1> HIDE DEF q
<1>4. Shape
  BY DEF Inv
<1>5. Main' /\ IsTable(routes)'
  BY <1>2 DEF Inv, Main, IsTable
<1>6. Shape'
  BY <1>3, <1>4 DEF Shape
<1>7. AllWorkers'
  <2> SUFFICES ASSUME NEW v \in Workers
               PROVE  WorkerOK(DOMAIN routes, pc'[v], req'[v], todo'[v], longest'[v], reply'[v])
    BY <1>2 DEF AllWorkers
  <2>1. WorkerOK(DOMAIN routes, pc[v], req[v], todo[v], longest[v], reply[v])
    BY DEF Inv, AllWorkers
  <2>2. CASE v # w
    <3>1. /\ pc'[v] = pc[v] /\ req'[v] = req[v] /\ todo'[v] = todo[v]
          /\ longest'[v] = longest[v] /\ reply'[v] = reply[v]
      BY <1>3, <1>4, <2>2 DEF Shape
    <3> QED
      BY <2>1, <3>1
  <2>3. CASE v = w /\ q = Malformed
    <3>1. reply'[v] = 400 /\ UNCHANGED <<pc, req, todo, longest>>
      BY <1>3, <1>4, <2>3 DEF Shape
    <3>2. 400 \in Replies
      BY DEF Replies
    <3> QED
      BY <2>1, <3>1, <3>2, AnsweredWorker
  <2>4. CASE v = w /\ q # Malformed
    <3>1. /\ pc'[v] = "match" /\ req'[v] = q /\ todo'[v] = DOMAIN routes
          /\ longest'[v] = <<>> /\ reply'[v] = 0
      BY <1>3, <1>4, <2>4 DEF Shape
    <3> QED
      BY <1>1, <3>1, StartedWorker
  <2> QED
    BY <2>2, <2>3, <2>4
<1> QED
  BY <1>5, <1>6, <1>7 DEF Inv

(* What one turn of the loop does to the worker's locals.                   *)
LEMMA TurnOfLoop ==
  ASSUME Shape, NEW w \in Workers, NEW key, Consider(w, key)
  PROVE  /\ todo'[w] = todo[w] \ {key}
         /\ longest'[w] = IF IsPrefix(key, req[w].path) /\ Longer(key, longest[w])
                            THEN key ELSE longest[w]
<1>1. /\ todo' = [todo EXCEPT ![w] = @ \ {key}]
      /\ longest' = IF IsPrefix(key, req[w].path) /\ Longer(key, longest[w])
                      THEN [longest EXCEPT ![w] = key] ELSE longest
  BY DEF Consider
<1> QED
  BY <1>1 DEF Shape

LEMMA ConsiderInv ==
  ASSUME NEW w \in Workers, NEW key, Inv, Consider(w, key)
  PROVE  Inv'
<1>1. /\ phase = "serve" /\ pc[w] = "match" /\ key \in todo[w]
      /\ todo' = [todo EXCEPT ![w] = @ \ {key}]
      /\ longest' = IF IsPrefix(key, req[w].path) /\ Longer(key, longest[w])
                      THEN [longest EXCEPT ![w] = key] ELSE longest
      /\ UNCHANGED <<phase, file, config, port, routes, accepted, pc, req, reply>>
  BY DEF Consider
<1>2. Shape /\ DOMAIN routes \in SUBSET Text
  BY DEF Inv, IsTable
<1>3. Main' /\ IsTable(routes)'
  BY <1>1 DEF Inv, Main, IsTable
<1>4. Shape'
  BY <1>1, <1>2 DEF Shape
<1>5. AllWorkers'
  <2> SUFFICES ASSUME NEW v \in Workers
               PROVE  WorkerOK(DOMAIN routes, pc[v], req[v], todo'[v], longest'[v], reply[v])
    BY <1>1 DEF AllWorkers
  <2>1. WorkerOK(DOMAIN routes, pc[v], req[v], todo[v], longest[v], reply[v])
    BY DEF Inv, AllWorkers
  <2>2. CASE v # w
    <3>1. todo'[v] = todo[v] /\ longest'[v] = longest[v]
      BY <1>1, <1>2, <2>2 DEF Shape
    <3> QED
      BY <2>1, <3>1
  <2>3. CASE v = w
    <3>1. /\ todo'[w] = todo[w] \ {key}
          /\ longest'[w] = IF IsPrefix(key, req[w].path) /\ Longer(key, longest[w])
                             THEN key ELSE longest[w]
      BY <1>2, TurnOfLoop
    <3> QED
      BY <1>1, <1>2, <2>1, <2>3, <3>1, AfterConsider
  <2> QED
    BY <2>2, <2>3
<1> QED
  BY <1>3, <1>4, <1>5 DEF Inv

LEMMA StrayInv ==
  ASSUME NEW w \in Workers, Inv, Stray(w)
  PROVE  Inv'
<1>1. /\ phase = "serve" /\ pc[w] = "match"
      /\ UNCHANGED <<phase, file, config, port, routes, accepted, pc, req, longest, reply>>
  BY DEF Stray
<1>2. PICK keys \in SUBSET DOMAIN routes : todo' = [todo EXCEPT ![w] = keys]
  BY DEF Stray
<1>3. Shape
  BY DEF Inv
<1>4. Main' /\ IsTable(routes)'
  BY <1>1 DEF Inv, Main, IsTable
<1>5. Shape'
  BY <1>1, <1>2, <1>3 DEF Shape
<1>6. AllWorkers'
  <2> SUFFICES ASSUME NEW v \in Workers
               PROVE  WorkerOK(DOMAIN routes, pc[v], req[v], todo'[v], longest[v], reply[v])
    BY <1>1 DEF AllWorkers
  <2>1. WorkerOK(DOMAIN routes, pc[v], req[v], todo[v], longest[v], reply[v])
    BY DEF Inv, AllWorkers
  <2>2. todo'[v] \subseteq DOMAIN routes
    <3>1. todo'[v] = IF v = w THEN keys ELSE todo[v]
      BY <1>2, <1>3 DEF Shape
    <3> QED
      BY <2>1, <3>1 DEF WorkerOK
  <2> QED
    BY <2>1, <2>2 DEF WorkerOK
<1> QED
  BY <1>4, <1>5, <1>6 DEF Inv

(* The two ends of match that leave the table as it is.                     *)
LEMMA ChosenInv ==
  ASSUME NEW w \in Workers, Inv, Choose(w) \/ BeginInsert(w)
  PROVE  Inv'
<1> DEFINE next == IF longest[w] \in DOMAIN routes THEN "call" ELSE "insert"
<1>1. /\ phase = "serve" /\ pc[w] = "match"
      /\ pc' = [pc EXCEPT ![w] = next]
      /\ UNCHANGED <<phase, file, config, port, routes, accepted, req, todo, longest, reply>>
  BY DEF Choose, BeginInsert
<1>2. Shape
  BY DEF Inv
<1>3. Main' /\ IsTable(routes)'
  BY <1>1 DEF Inv, Main, IsTable
<1>4. Shape'
  BY <1>1, <1>2 DEF Shape
<1>5. AllWorkers'
  <2> SUFFICES ASSUME NEW v \in Workers
               PROVE  WorkerOK(DOMAIN routes, pc'[v], req[v], todo[v], longest[v], reply[v])
    BY <1>1 DEF AllWorkers
  <2>1. WorkerOK(DOMAIN routes, pc[v], req[v], todo[v], longest[v], reply[v])
    BY DEF Inv, AllWorkers
  <2>2. CASE v # w
    <3>1. pc'[v] = pc[v]
      BY <1>1, <1>2, <2>2 DEF Shape
    <3> QED
      BY <2>1, <3>1
  <2>3. CASE v = w
    <3>1. pc'[w] = next
      BY <1>1, <1>2 DEF Shape
    <3>2. IsRequest(req[w]) /\ (longest[w] = <<>> => IsPrefix(longest[w], req[w].path))
      BY <2>1, <2>3, EmptyPrefix DEF WorkerOK, IsRequest
    <3> QED
      BY <1>1, <2>1, <2>3, <3>1, <3>2 DEF WorkerOK
  <2> QED
    BY <2>2, <2>3
<1> QED
  BY <1>3, <1>4, <1>5 DEF Inv

LEMMA InsertInv ==
  ASSUME NEW w \in Workers, Inv, Insert(w)
  PROVE  Inv'
<1>1. /\ phase = "serve" /\ pc[w] = "insert"
      /\ pc' = [pc EXCEPT ![w] = "call"]
      /\ routes' = Put(routes, longest[w], None)
      /\ UNCHANGED <<phase, file, config, port, accepted, req, todo, longest, reply>>
  BY DEF Insert
<1>2. Shape /\ DOMAIN routes \in SUBSET Text /\ IsTable(routes)
  BY DEF Inv, IsTable
<1>3. WorkerOK(DOMAIN routes, "insert", req[w], todo[w], longest[w], reply[w])
  BY <1>1 DEF Inv, AllWorkers
<1>4. longest[w] = <<>>
  BY <1>3 DEF WorkerOK
<1>5. DOMAIN routes' = DOMAIN routes \cup {<<>>}
  BY <1>1, <1>4 DEF Put
<1>6. IsTable(routes')
  <2>1. <<>> \in Text /\ DOMAIN None = {"handler", "args"}
    BY DEF Text, None
  <2> QED
    BY <1>1, <1>2, <1>4, <2>1 DEF IsTable, Put
<1>7. Main'
  BY <1>1, <1>5 DEF Inv, Main
<1>8. Shape'
  BY <1>1, <1>2 DEF Shape
<1>9. AllWorkers'
  <2> SUFFICES ASSUME NEW v \in Workers
               PROVE  WorkerOK(DOMAIN routes', pc'[v], req[v], todo[v], longest[v], reply[v])
    BY <1>1 DEF AllWorkers
  <2>1. WorkerOK(DOMAIN routes, pc[v], req[v], todo[v], longest[v], reply[v])
    BY DEF Inv, AllWorkers
  <2>2. CASE v # w
    <3>1. pc'[v] = pc[v]
      BY <1>1, <1>2, <2>2 DEF Shape
    <3> QED
      BY <1>5, <2>1, <3>1, KeyAdded
  <2>3. CASE v = w
    <3>1. pc'[w] = "call"
      BY <1>1, <1>2 DEF Shape
    <3> QED
      BY <1>3, <1>5, <2>3, <3>1, AfterInsert
  <2> QED
    BY <2>2, <2>3
<1> QED
  BY <1>6, <1>7, <1>8, <1>9 DEF Inv

LEMMA CallInv ==
  ASSUME NEW w \in Workers, Inv, Call(w)
  PROVE  Inv'
<1>1. /\ phase = "serve" /\ pc[w] = "call"
      /\ pc' = [pc EXCEPT ![w] = "idle"]
      /\ req' = [req EXCEPT ![w] = Malformed]
      /\ longest' = [longest EXCEPT ![w] = <<>>]
      /\ UNCHANGED <<phase, file, config, port, routes, accepted, todo>>
  BY DEF Call
<1>2. PICK status \in Statuses(routes[longest[w]], req[w]) :
        reply' = [reply EXCEPT ![w] = status]
  BY DEF Call
<1>3. status \in Replies
  BY StatusTyped
<1>4. Shape
  BY DEF Inv
<1>5. Main' /\ IsTable(routes)'
  BY <1>1 DEF Inv, Main, IsTable
<1>6. Shape'
  BY <1>1, <1>2, <1>4 DEF Shape
<1>7. AllWorkers'
  <2> SUFFICES ASSUME NEW v \in Workers
               PROVE  WorkerOK(DOMAIN routes, pc'[v], req'[v], todo[v], longest'[v], reply'[v])
    BY <1>1 DEF AllWorkers
  <2>1. WorkerOK(DOMAIN routes, pc[v], req[v], todo[v], longest[v], reply[v])
    BY DEF Inv, AllWorkers
  <2>2. CASE v # w
    <3>1. /\ pc'[v] = pc[v] /\ req'[v] = req[v]
          /\ longest'[v] = longest[v] /\ reply'[v] = reply[v]
      BY <1>1, <1>2, <1>4, <2>2 DEF Shape
    <3> QED
      BY <2>1, <3>1
  <2>3. CASE v = w
    <3>1. /\ pc'[w] = "idle" /\ req'[w] = Malformed
          /\ longest'[w] = <<>> /\ reply'[w] = status
      BY <1>1, <1>2, <1>4 DEF Shape
    <3>2. IsRequest(Malformed)
      BY DEF IsRequest, Malformed, Text
    <3>3. todo[w] \subseteq DOMAIN routes
      BY <2>1, <2>3 DEF WorkerOK
    <3> QED
      BY <1>3, <2>3, <3>1, <3>2, <3>3 DEF WorkerOK
  <2> QED
    BY <2>2, <2>3
<1> QED
  BY <1>5, <1>6, <1>7 DEF Inv

LEMMA EndedInv ==
  ASSUME NEW w \in Workers, Inv, RaceFaults(w) \/ CallFails(w) \/ CallThrows(w)
  PROVE  Inv'
<1>1. /\ phase' = "ended"
      /\ UNCHANGED <<file, config, port, routes, accepted, pc, req, todo, longest, reply>>
  BY DEF RaceFaults, CallFails, CallThrows, worker
<1>2. Main' /\ IsTable(routes)' /\ Shape' /\ AllWorkers'
  BY <1>1 DEF Inv, Main, Phases, IsTable, Shape, AllWorkers
<1> QED
  BY <1>2 DEF Inv

LEMMA NextInv == Inv /\ [Next]_vars => Inv'
<1> SUFFICES ASSUME Inv, [Next]_vars PROVE Inv'
  OBVIOUS
<1>1. CASE ReadFile \/ ReadConfig \/ Listen \/ ListenFails
  BY <1>1, ReadFileInv, ReadConfigInv, ListenInv
<1>2. ASSUME NEW w \in Workers,
             \/ \E r \in Requests : \E n \in 1 .. Len(r) : Receive(w, r, n)
             \/ \E key \in todo[w] : Consider(w, key)
             \/ Stray(w)
      PROVE  Inv'
  BY <1>2, ReceiveInv, ConsiderInv, StrayInv
<1>3. ASSUME NEW w \in Workers, Choose(w) \/ BeginInsert(w) \/ Insert(w) \/ Call(w)
      PROVE  Inv'
  BY <1>3, ChosenInv, InsertInv, CallInv
<1>4. ASSUME NEW w \in Workers, RaceFaults(w) \/ CallFails(w) \/ CallThrows(w)
      PROVE  Inv'
  BY <1>4, EndedInv
<1>5. CASE UNCHANGED vars
  <2>1. UNCHANGED <<phase, file, config, port, routes, pc, req, todo, longest, reply, accepted>>
    BY <1>5 DEF vars
  <2> QED
    BY <2>1 DEF Inv, Main, IsTable, Shape, AllWorkers
<1> QED
  BY <1>1, <1>2, <1>3, <1>4, <1>5 DEF Next

LEMMA SpecInv == Spec => []Inv
BY InitInv, NextInv, PTL DEF Spec

-------------------------------------------------------------------------------
(* The theorems *)

(* Every variable of the front end keeps its type, and the acceptor has the *)
(* number of a port, whatever the configuration file and the requests are   *)
(* (parseConfig, handle_read, Dispatcher::match).                           *)
THEOREM FrontEndTypes == Spec => []TypeOK
BY SpecInv, InvTypeOK, PTL

-------------------------------------------------------------------------------
(* The race on routes: who may miss a longer prefix, and when.              *)

(* l is at least as long as every prefix of path in a set of keys.          *)
NoLonger(keys, path, l) == \A k \in keys : IsPrefix(k, path) => Len(k) <= Len(l)

(* In the loop that is so of the keys already seen, after it of all.        *)
Searched(keys, p, q, t, l) ==
  /\ p = "match" => NoLonger(keys \ t, q.path, l)
  /\ p = "call"  => NoLonger(keys, q.path, l)

(* A worker whose request has no route, so that it cannot but end the       *)
(* process: it is in a state which it never leaves otherwise.               *)
Lost(v) ==
  /\ longest[v] = <<>> /\ Unroutable(req[v].path)
  /\ \/ pc[v] = "insert"
     \/ pc[v] = "call" /\ <<>> \in DOMAIN routes /\ ~CanCreate(routes[<<>>])

Racing == \E v \in Workers : Lost(v)

Race ==
  /\ \/ Racing
     \/ \A w \in Workers : /\ pc[w] # "insert"
                           /\ Searched(DOMAIN routes, pc[w], req[w], todo[w], longest[w])
  /\ \A w \in Workers : pc[w] = "insert" /\ <<>> \in DOMAIN routes => routes[<<>>] = None

LEMMA NoneMakesNothing == ~CanCreate(None)
BY DEF CanCreate, None

(* A worker that takes no step stays lost.                                  *)
LEMMA StaysLost ==
  ASSUME NEW v \in Workers, Lost(v), routes' = routes,
         pc'[v] = pc[v], req'[v] = req[v], longest'[v] = longest[v]
  PROVE  Lost(v)'
BY DEF Lost, Unroutable, PrefixesOf

(* Nobody works before the server serves.                                   *)
LEMMA NobodyYet ==
  ASSUME Inv, ReadFile \/ ReadConfig \/ Listen \/ ListenFails
  PROVE  /\ pc' = pc /\ req' = req /\ todo' = todo /\ longest' = longest
         /\ \A w \in Workers : pc[w] = "idle"
BY DEF Inv, Main, ReadFile, ReadConfig, Listen, ListenFails, worker

(* What the others have in their locals a step of w leaves alone.           *)
LEMMA OthersKeep ==
  ASSUME Inv, NEW w \in Workers, NEW v \in Workers, v # w,
         \/ \E r, n : Receive(w, r, n)
         \/ \E key : Consider(w, key)
         \/ Stray(w) \/ Choose(w) \/ BeginInsert(w) \/ Insert(w) \/ Call(w)
  PROVE  pc'[v] = pc[v] /\ req'[v] = req[v] /\ todo'[v] = todo[v] /\ longest'[v] = longest[v]
<1>1. Shape
  BY DEF Inv
<1>2. ASSUME NEW r, NEW n, Receive(w, r, n)
      PROVE  pc'[v] = pc[v] /\ req'[v] = req[v] /\ todo'[v] = todo[v] /\ longest'[v] = longest[v]
  <2>1. PICK q : q = ParseRequest(SubSeq(r, 1, n))
    OBVIOUS
  <2>2. \/ UNCHANGED <<pc, req, todo, longest>>
        \/ /\ pc' = [pc EXCEPT ![w] = "match"] /\ req' = [req EXCEPT ![w] = q]
           /\ todo' = [todo EXCEPT ![w] = DOMAIN routes] /\ longest' = [longest EXCEPT ![w] = <<>>]
    BY <1>2, <2>1 DEF Receive
  <2> QED
    BY <1>1, <2>2 DEF Shape
<1>3. ASSUME NEW key, Consider(w, key)
      PROVE  pc'[v] = pc[v] /\ req'[v] = req[v] /\ todo'[v] = todo[v] /\ longest'[v] = longest[v]
  <2>1. /\ UNCHANGED <<pc, req>> /\ todo' = [todo EXCEPT ![w] = @ \ {key}]
        /\ longest' = [longest EXCEPT ![w] = key] \/ longest' = longest
    BY <1>3 DEF Consider
  <2> QED
    BY <1>1, <2>1 DEF Shape
<1>4. ASSUME Stray(w)
      PROVE  pc'[v] = pc[v] /\ req'[v] = req[v] /\ todo'[v] = todo[v] /\ longest'[v] = longest[v]
  BY <1>1, <1>4 DEF Stray, Shape
<1>5. ASSUME Choose(w) \/ BeginInsert(w) \/ Insert(w)
      PROVE  pc'[v] = pc[v] /\ req'[v] = req[v] /\ todo'[v] = todo[v] /\ longest'[v] = longest[v]
  BY <1>1, <1>5 DEF Choose, BeginInsert, Insert, Shape
<1>6. ASSUME Call(w)
      PROVE  pc'[v] = pc[v] /\ req'[v] = req[v] /\ todo'[v] = todo[v] /\ longest'[v] = longest[v]
  BY <1>1, <1>6 DEF Call, Shape
<1> QED
  BY <1>2, <1>3, <1>4, <1>5, <1>6

(* The insertion of the empty path by one worker leaves another one lost.   *)
LEMMA LostBesideInsert ==
  ASSUME Inv, NEW w \in Workers, Insert(w), NEW v \in Workers, Lost(v)
  PROVE  Lost(v)'
<1>1. /\ pc[w] = "insert" /\ pc' = [pc EXCEPT ![w] = "call"]
      /\ routes' = Put(routes, longest[w], None) /\ req' = req /\ longest' = longest
  BY DEF Insert
<1>2. longest[w] = <<>>
  BY <1>1 DEF Inv, AllWorkers, WorkerOK
<1>3. DOMAIN routes' = DOMAIN routes \cup {<<>>} /\ routes'[<<>>] = None
  BY <1>1, <1>2 DEF Put
<1>4. Unroutable(req[v].path)'
  BY <1>1, <1>3 DEF Lost, Unroutable, PrefixesOf
<1>5. pc'[v] \in {"insert", "call"}
  BY <1>1 DEF Inv, Shape, Lost
<1> QED
  BY <1>1, <1>3, <1>4, <1>5, NoneMakesNothing DEF Lost

LEMMA RaceGoesOn ==
  ASSUME Inv, Racing, Next
  PROVE  Racing'
<1>1. PICK v \in Workers : Lost(v)
  BY DEF Racing
<1>2. pc[v] \in {"insert", "call"}
  BY <1>1 DEF Lost
<1>3. SUFFICES Lost(v)'
  BY DEF Racing
<1>4. ~(ReadFile \/ ReadConfig \/ Listen \/ ListenFails)
  BY <1>2, NobodyYet
<1>5. PICK w \in Workers :
        \/ \E r \in Requests : \E n \in 1 .. Len(r) : Receive(w, r, n)
        \/ \E key \in todo[w] : Consider(w, key)
        \/ Stray(w) \/ RaceFaults(w)
        \/ Choose(w) \/ BeginInsert(w) \/ Insert(w)
        \/ Call(w) \/ CallFails(w) \/ CallThrows(w)
  BY <1>4 DEF Next
<1>6. CASE Insert(w)
  BY <1>1, <1>6, LostBesideInsert
<1>7. CASE RaceFaults(w) \/ CallFails(w) \/ CallThrows(w)
  BY <1>1, <1>7, StaysLost DEF RaceFaults, CallFails, CallThrows, worker
<1>8. CASE \/ \E r \in Requests : \E n \in 1 .. Len(r) : Receive(w, r, n)
           \/ \E key \in todo[w] : Consider(w, key)
           \/ Choose(w) \/ BeginInsert(w)
  <2>1. pc[w] \in {"idle", "match"} /\ routes' = routes
    BY <1>8 DEF Receive, Consider, Choose, BeginInsert
  <2>2. v # w
    BY <1>2, <2>1
  <2>3. \/ \E r, n : Receive(w, r, n)
        \/ \E key : Consider(w, key)
        \/ Choose(w) \/ BeginInsert(w)
    BY <1>8
  <2> QED
    BY <1>1, <2>1, <2>2, <2>3, OthersKeep, StaysLost
<1>9. CASE Stray(w)
  BY <1>1, <1>9, StaysLost DEF Stray
<1>10. CASE Call(w)
  <2>1. CanCreate(routes[longest[w]]) /\ pc[w] = "call" /\ routes' = routes
    BY <1>10 DEF Call
  <2>2. v # w
    BY <1>1, <2>1 DEF Lost
  <2> QED
    BY <1>1, <1>10, <2>1, <2>2, OthersKeep, StaysLost
<1> QED
  BY <1>5, <1>6, <1>7, <1>8, <1>9, <1>10

(* One turn of the loop keeps the longest of the keys it has seen.          *)
LEMMA SearchedOn ==
  ASSUME NEW keys \in SUBSET Text, NEW q, NEW t, NEW l, NEW s,
         WorkerOK(keys, "match", q, t, l, s), Searched(keys, "match", q, t, l), NEW key \in t
  PROVE  Searched(keys, "match", q, t \ {key},
                  IF IsPrefix(key, q.path) /\ Longer(key, l) THEN key ELSE l)
<1> DEFINE new == IF IsPrefix(key, q.path) /\ Longer(key, l) THEN key ELSE l
<1>1. /\ t \subseteq keys /\ key \in keys /\ (l = <<>> \/ l \in keys)
      /\ NoLonger(keys \ t, q.path, l)
  BY DEF WorkerOK, Searched
<1>2. \A k \in keys : Len(k) \in Nat
  BY TextLength
<1>3. Len(l) \in Nat
  <2>1. Len(<<>>) = 0
    OBVIOUS
  <2> QED
    BY <1>1, <1>2, <2>1
<1>4. Len(l) <= Len(new) /\ (IsPrefix(key, q.path) => Len(key) <= Len(new)) /\ Len(new) \in Nat
  BY <1>1, <1>2, <1>3 DEF Longer
<1> HIDE DEF new
<1>5. NoLonger(keys \ (t \ {key}), q.path, new)
  <2> SUFFICES ASSUME NEW k \in keys, k \notin t \/ k = key, IsPrefix(k, q.path)
               PROVE  Len(k) <= Len(new)
    BY DEF NoLonger
  <2>1. CASE k = key
    BY <1>4, <2>1
  <2>2. CASE k \notin t
    <3>1. Len(k) <= Len(l)
      BY <1>1, <2>2 DEF NoLonger
    <3> QED
      BY <1>2, <1>3, <1>4, <3>1
  <2> QED
    BY <2>1, <2>2
<1>6. Searched(keys, "match", q, t \ {key}, new)
  BY <1>5 DEF Searched
<1> QED
  BY <1>6 DEF new

(* A worker that has found nothing in the whole table has a request without *)
(* a route.                                                                 *)
LEMMA FoundNothing ==
  ASSUME IsTable(routes), NEW path, NoLonger(DOMAIN routes, path, <<>>)
  PROVE  Unroutable(path)
<1> SUFFICES ASSUME NEW p \in DOMAIN routes, IsPrefix(p, path) PROVE p = <<>>
  BY DEF Unroutable, PrefixesOf
<1>1. Len(p) \in Nat /\ (Len(p) = 0 => p = <<>>)
  BY TextLength DEF IsTable
<1>2. Len(p) <= 0
  <2>1. Len(<<>>) = 0
    OBVIOUS
  <2> QED
    BY <2>1 DEF NoLonger
<1> QED
  BY <1>1, <1>2

LEMMA RaceBegins ==
  ASSUME Inv, NEW w \in Workers, BeginInsert(w),
         Searched(DOMAIN routes, pc[w], req[w], todo[w], longest[w])
  PROVE  Racing'
<1>1. /\ pc[w] = "match" /\ todo[w] = {} /\ longest[w] \notin DOMAIN routes
      /\ pc' = [pc EXCEPT ![w] = "insert"] /\ routes' = routes /\ req' = req /\ longest' = longest
  BY DEF BeginInsert
<1>2. longest[w] = <<>>
  BY <1>1 DEF Inv, AllWorkers, WorkerOK
<1>3. NoLonger(DOMAIN routes, req[w].path, <<>>)
  <2>1. DOMAIN routes \ {} = DOMAIN routes
    OBVIOUS
  <2> QED
    BY <1>1, <1>2, <2>1 DEF Searched
<1>4. Unroutable(req[w].path)
  BY <1>3, FoundNothing DEF Inv
<1>5. Unroutable(req[w].path)' /\ pc'[w] = "insert"
  BY <1>1, <1>4 DEF Unroutable, PrefixesOf, Inv, Shape
<1> QED
  BY <1>1, <1>2, <1>5 DEF Racing, Lost

(* As long as no request without a route is in the match or behind it, every*)
(* worker goes on with the longest of what it has seen.                     *)
LEMMA NoRaceStep ==
  ASSUME Inv, Next, ~Racing',
         \A w \in Workers : /\ pc[w] # "insert"
                            /\ Searched(DOMAIN routes, pc[w], req[w], todo[w], longest[w])
  PROVE  \A v \in Workers : /\ pc'[v] # "insert"
                            /\ Searched(DOMAIN routes', pc'[v], req'[v], todo'[v], longest'[v])
<1> SUFFICES ASSUME NEW v \in Workers
             PROVE  /\ pc'[v] # "insert"
                    /\ Searched(DOMAIN routes', pc'[v], req'[v], todo'[v], longest'[v])
  OBVIOUS
<1>1. CASE ReadFile \/ ReadConfig \/ Listen \/ ListenFails
  BY <1>1, NobodyYet DEF Searched
<1>2. ASSUME NEW w \in Workers,
             \/ \E r \in Requests : \E n \in 1 .. Len(r) : Receive(w, r, n)
             \/ \E key \in todo[w] : Consider(w, key)
             \/ Stray(w) \/ RaceFaults(w)
             \/ Choose(w) \/ BeginInsert(w) \/ Insert(w)
             \/ Call(w) \/ CallFails(w) \/ CallThrows(w)
      PROVE  /\ pc'[v] # "insert"
             /\ Searched(DOMAIN routes', pc'[v], req'[v], todo'[v], longest'[v])
  <2>1. ~Stray(w) /\ ~Insert(w)
    BY DEF Stray, Disturbed, Insert
  <2>2. ~BeginInsert(w)
    BY RaceBegins
  <2>3. CASE RaceFaults(w) \/ CallFails(w) \/ CallThrows(w)
    BY <2>3 DEF RaceFaults, CallFails, CallThrows, worker
  <2>4. Shape /\ DOMAIN routes \in SUBSET Text
    BY DEF Inv, IsTable
  <2>5. CASE \E r \in Requests : \E n \in 1 .. Len(r) : Receive(w, r, n)
    <3>1. PICK r, n : Receive(w, r, n)
      BY <2>5
    <3>2. routes' = routes
      BY <3>1 DEF Receive
    <3>3. CASE v # w
      BY <3>1, <3>2, <3>3, OthersKeep
    <3>4. CASE v = w
      <4>1. PICK q : q = ParseRequest(SubSeq(r, 1, n))
        OBVIOUS
      <4>2. \/ UNCHANGED <<pc, req, todo, longest>>
            \/ /\ pc' = [pc EXCEPT ![w] = "match"]
               /\ todo' = [todo EXCEPT ![w] = DOMAIN routes]
        BY <3>1, <4>1 DEF Receive
      <4>3. CASE pc' = [pc EXCEPT ![w] = "match"] /\ todo' = [todo EXCEPT ![w] = DOMAIN routes]
        <5>1. pc'[w] = "match" /\ todo'[w] = DOMAIN routes
          BY <2>4, <4>3 DEF Shape
        <5> QED
          BY <3>2, <3>4, <5>1 DEF Searched, NoLonger
      <4> QED
        BY <3>2, <3>4, <4>2, <4>3
    <3> QED
      BY <3>3, <3>4
  <2>6. CASE \E key \in todo[w] : Consider(w, key)
    <3>1. PICK key \in todo[w] : Consider(w, key)
      BY <2>6
    <3>2. /\ pc[w] = "match" /\ pc' = pc /\ routes' = routes /\ req' = req
          /\ todo' = [todo EXCEPT ![w] = @ \ {key}]
          /\ longest' = IF IsPrefix(key, req[w].path) /\ Longer(key, longest[w])
                          THEN [longest EXCEPT ![w] = key] ELSE longest
      BY <3>1 DEF Consider
    <3>3. CASE v # w
      BY <3>1, <3>2, <3>3, OthersKeep
    <3>4. CASE v = w
      <4>1. /\ todo'[w] = todo[w] \ {key}
            /\ longest'[w] = IF IsPrefix(key, req[w].path) /\ Longer(key, longest[w])
                               THEN key ELSE longest[w]
        BY <2>4, <3>1, TurnOfLoop
      <4>2. WorkerOK(DOMAIN routes, "match", req[w], todo[w], longest[w], reply[w])
        BY <3>2 DEF Inv, AllWorkers
      <4>3. Searched(DOMAIN routes, "match", req[w], todo[w], longest[w])
        BY <3>2
      <4>4. Searched(DOMAIN routes, "match", req[w], todo[w] \ {key},
                     IF IsPrefix(key, req[w].path) /\ Longer(key, longest[w])
                       THEN key ELSE longest[w])
        BY <2>4, <4>2, <4>3, SearchedOn
      <4>5. Searched(DOMAIN routes, "match", req[w], todo'[w], longest'[w])
        BY <4>1, <4>4
      <4> QED
        BY <3>2, <3>4, <4>5
    <3> QED
      BY <3>3, <3>4
  <2>7. CASE Choose(w)
    <3>1. /\ pc[w] = "match" /\ todo[w] = {} /\ routes' = routes /\ req' = req
          /\ longest' = longest /\ todo' = todo /\ pc' = [pc EXCEPT ![w] = "call"]
      BY <2>7 DEF Choose
    <3>2. CASE v # w
      BY <2>7, <3>1, <3>2, OthersKeep
    <3>3. CASE v = w
      <4>1. pc'[w] = "call" /\ DOMAIN routes \ {} = DOMAIN routes
        BY <2>4, <3>1 DEF Shape
      <4> QED
        BY <3>1, <3>3, <4>1 DEF Searched
    <3> QED
      BY <3>2, <3>3
  <2>8. CASE Call(w)
    <3>1. routes' = routes /\ pc' = [pc EXCEPT ![w] = "idle"]
      BY <2>8 DEF Call
    <3>2. CASE v # w
      BY <2>8, <3>1, <3>2, OthersKeep
    <3>3. CASE v = w
      <4>1. pc'[w] = "idle"
        BY <2>4, <3>1 DEF Shape
      <4> QED
        BY <3>3, <4>1 DEF Searched
    <3> QED
      BY <3>2, <3>3
  <2> QED
    BY <1>2, <2>1, <2>2, <2>3, <2>5, <2>6, <2>7, <2>8
<1> QED
  BY <1>1, <1>2 DEF Next

(* An entry for the empty path that somebody is about to write is there     *)
(* already as it will be.                                                   *)
LEMMA SameEntryAgain ==
  ASSUME Inv, Race, Next, NEW v \in Workers, pc'[v] = "insert", <<>> \in DOMAIN routes'
  PROVE  routes'[<<>>] = None
<1>1. ~(ReadFile \/ ReadConfig \/ Listen \/ ListenFails)
  BY NobodyYet
<1>2. PICK w \in Workers :
        \/ \E r \in Requests : \E n \in 1 .. Len(r) : Receive(w, r, n)
        \/ \E key \in todo[w] : Consider(w, key)
        \/ Stray(w) \/ RaceFaults(w)
        \/ Choose(w) \/ BeginInsert(w) \/ Insert(w)
        \/ Call(w) \/ CallFails(w) \/ CallThrows(w)
  BY <1>1 DEF Next
<1>3. CASE Insert(w)
  <2>1. longest[w] = <<>> /\ routes' = Put(routes, longest[w], None)
    BY <1>3 DEF Insert, Inv, AllWorkers, WorkerOK
  <2> QED
    BY <2>1 DEF Put
<1>4. CASE BeginInsert(w) /\ v = w
  BY <1>4 DEF BeginInsert, Inv, AllWorkers, WorkerOK
<1>5. CASE ~Insert(w) /\ ~(BeginInsert(w) /\ v = w)
  <2>1. routes' = routes
    BY <1>2, <1>5 DEF Receive, Consider, Stray, RaceFaults, Choose, BeginInsert, Call, CallFails,
                      CallThrows
  <2>2. pc[v] = "insert"
    <3>1. CASE v # w
      BY <1>2, <3>1, OthersKeep DEF RaceFaults, CallFails, CallThrows, worker
    <3>2. CASE v = w
      <4>1. \/ pc' = pc
            \/ pc' = [pc EXCEPT ![w] = "match"] \/ pc' = [pc EXCEPT ![w] = "call"]
            \/ pc' = [pc EXCEPT ![w] = "idle"]
        BY <1>2, <1>5, <3>2 DEF Receive, Consider, Stray, RaceFaults, Choose, Call, CallFails,
                                CallThrows, worker
      <4> QED
        BY <3>2, <4>1 DEF Inv, Shape
    <3> QED
      BY <3>1, <3>2
  <2> QED
    BY <2>1, <2>2 DEF Race
<1> QED
  BY <1>3, <1>4, <1>5

LEMMA NextRace == Inv /\ Race /\ [Next]_vars => Race'
<1> SUFFICES ASSUME Inv, Race, [Next]_vars PROVE Race'
  OBVIOUS
<1>1. CASE UNCHANGED vars
  BY <1>1 DEF vars, Race, Racing, Lost, Unroutable, PrefixesOf
<1>2. CASE Next
  <2>1. CASE Racing
    BY <1>2, <2>1, RaceGoesOn, SameEntryAgain DEF Race
  <2>2. CASE ~Racing
    <3>1. \A w \in Workers : /\ pc[w] # "insert"
                             /\ Searched(DOMAIN routes, pc[w], req[w], todo[w], longest[w])
      BY <2>2 DEF Race
    <3> QED
      BY <1>2, <3>1, NoRaceStep, SameEntryAgain DEF Race
  <2> QED
    BY <2>1, <2>2
<1> QED
  BY <1>1, <1>2

LEMMA SpecRace == Spec => []Race
<1>1. Init => Race
  BY DEF Init, Race, Searched
<1> QED
  BY <1>1, NextRace, SpecInv, PTL DEF Spec

LEMMA LostIsDoomed ==
  ASSUME NEW v \in Workers, Lost(v)
  PROVE  Doomed(v)
BY DEF Lost, Doomed

LEMMA RaceLongestPrefix == Inv /\ Race => LongestPrefix
<1> SUFFICES ASSUME Inv, Race, NEW w \in Workers, pc[w] = "call"
             PROVE  /\ longest[w] \in PrefixesOf(req[w].path)
                    /\ \/ \A p \in PrefixesOf(req[w].path) : Len(p) <= Len(longest[w])
                       \/ \E v \in Workers : Doomed(v)
  BY DEF LongestPrefix
<1>1. longest[w] \in PrefixesOf(req[w].path)
  BY DEF Inv, AllWorkers, WorkerOK, PrefixesOf
<1>2. CASE Racing
  BY <1>1, <1>2, LostIsDoomed DEF Racing
<1>3. CASE ~Racing
  <2>1. NoLonger(DOMAIN routes, req[w].path, longest[w])
    BY <1>3 DEF Race, Searched
  <2> QED
    BY <1>1, <2>1 DEF NoLonger, PrefixesOf
<1> QED
  BY <1>2, <1>3

(* Whatever the order in which a worker sees the keys, match ends with the  *)
(* longest registered prefix of the path; and if another worker's insertion *)
(* into the shared table makes the loop skip keys, it ends with some prefix *)
(* of the path, and a worker with a request without a route is still there  *)
(* to end the process (Dispatcher::match).                                  *)
THEOREM MatchIsLongest == Spec => []LongestPrefix
BY SpecInv, SpecRace, RaceLongestPrefix, PTL

-------------------------------------------------------------------------------
(* What main has when it is about to listen is what parseConfig has made.   *)
Loaded ==
  phase = "listen" =>
    /\ config \in Configs
    /\ ParseConfig(config).status # "threw"
    /\ port = ParseConfig(config).port /\ routes = ParseConfig(config).routes
    /\ accepted <=> ParseConfig(config).status = "accepted"

LEMMA NextLoaded == Inv /\ Loaded /\ [Next]_vars => Loaded'
<1> SUFFICES ASSUME Inv, Loaded, [Next]_vars, phase' = "listen"
             PROVE  /\ config' \in Configs
                    /\ ParseConfig(config').status # "threw"
                    /\ port' = ParseConfig(config').port /\ routes' = ParseConfig(config').routes
                    /\ accepted' <=> ParseConfig(config').status = "accepted"
  BY DEF Loaded
<1>1. CASE ReadConfig
  <2>1. config \in Configs /\ config' = config
    BY <1>1 DEF ReadConfig, Inv, Main
  <2>2. /\ ParseConfig(config).status # "threw"
        /\ port' = ParseConfig(config).port /\ routes' = ParseConfig(config).routes
        /\ accepted' = (ParseConfig(config).status = "accepted")
    BY <1>1 DEF ReadConfig
  <2> QED
    BY <2>1, <2>2
<1>2. CASE UNCHANGED vars
  BY <1>2 DEF vars, Loaded
<1>3. ~ReadFile /\ ~Listen /\ ~ListenFails
  BY DEF ReadFile, Listen, ListenFails
<1>4. ASSUME NEW w \in Workers
      PROVE  /\ \A r, n : ~Receive(w, r, n)
             /\ \A key : ~Consider(w, key)
             /\ ~Stray(w) /\ ~RaceFaults(w)
             /\ ~Choose(w) /\ ~BeginInsert(w) /\ ~Insert(w)
             /\ ~Call(w) /\ ~CallFails(w) /\ ~CallThrows(w)
  BY DEF Receive, Consider, Stray, RaceFaults, Choose, BeginInsert, Insert, Call, CallFails,
         CallThrows
<1> QED
  BY <1>1, <1>2, <1>3, <1>4 DEF Next

LEMMA LoadedDeclared == Loaded => RoutesAsDeclared
<1> SUFFICES ASSUME Loaded, phase = "listen" PROVE RoutesAsDeclared
  BY DEF RoutesAsDeclared
<1> DEFINE s == Sections(config.statements)
           path(i) == s[i].tokens[2]
           locations == {i \in DOMAIN s : IsLocation(s[i])}
           ports == {i \in DOMAIN s : IsPort(s[i])}
           mistakes == {i \in locations :
                         EndsInSlash(path(i)) \/ \E j \in locations : j < i /\ path(j) = path(i)}
           stop == IF mistakes = {} THEN Len(s) + 1 ELSE Min(mistakes)
           D == IF config.ok THEN {i \in locations : i < stop} ELSE {}
           P == IF config.ok THEN {i \in ports : i < stop} ELSE {}
<1>1. /\ config \in Configs
      /\ ParseConfig(config).status # "threw"
      /\ port = ParseConfig(config).port /\ routes = ParseConfig(config).routes
      /\ accepted <=> ParseConfig(config).status = "accepted"
  BY DEF Loaded
<1>2. locations = LocationsOf(s) /\ ports = PortsOf(s)
  BY DEF LocationsOf, PortsOf
<1>3. mistakes = MistakesOf(s)
  BY DEF LocationsOf, MistakesOf, PathAt
<1>4. stop = StopOf(s)
  BY <1>3 DEF StopOf
<1>5. /\ D = IF config.ok THEN {i \in LocationsOf(s) : i < StopOf(s)} ELSE {}
      /\ P = IF config.ok THEN {i \in PortsOf(s) : i < StopOf(s)} ELSE {}
  BY <1>2, <1>4
<1>6. /\ accepted <=> config.ok /\ mistakes = {}
      /\ DOMAIN routes = {PathAt(s, i) : i \in D} \cup (IF accepted THEN {<<"/">>} ELSE {})
      /\ \A i \in D : routes[PathAt(s, i)] = RouteOf(s[i])
      /\ port = PortFrom(s, P)
  <2>1. PICK c : c = ParseConfig(config)
    OBVIOUS
  <2>2. s = Sections(config.statements)
    OBVIOUS
  <2> HIDE DEF s, mistakes, D, P
  <2>3. config \in Configs /\ c.status # "threw"
    BY <1>1, <2>1
  <2>4. ReadsAs(c, config, s, D, P)
    BY <1>5, <2>1, <2>2, <2>3, ParseConfigDeclared
  <2>5. port = c.port /\ routes = c.routes
    BY <1>1, <2>1
  <2>6. accepted <=> c.status = "accepted"
    BY <1>1, <2>1
  <2>7. accepted <=> config.ok /\ mistakes = {}
    BY <1>3, <2>6, <2>4 DEF ReadsAs
  <2>8. (IF accepted THEN {<<"/">>} ELSE {}) = IF c.status = "accepted" THEN {<<"/">>} ELSE {}
    BY <2>6
  <2>9. DOMAIN routes = {PathAt(s, i) : i \in D} \cup (IF accepted THEN {<<"/">>} ELSE {})
    BY <2>5, <2>8, <2>4 DEF ReadsAs
  <2> QED
    BY <2>5, <2>7, <2>9, <2>4 DEF ReadsAs
<1>7. /\ {path(i) : i \in D} = {PathAt(s, i) : i \in D}
      /\ \A i : path(i) = PathAt(s, i)
  BY DEF PathAt
<1>8. port = IF P = {} THEN Unset ELSE Number[s[Max(P)].tokens[2][1]]
  BY <1>6 DEF PortFrom
<1>9. /\ accepted <=> config.ok /\ mistakes = {}
      /\ DOMAIN routes = {path(i) : i \in D} \cup (IF accepted THEN {<<"/">>} ELSE {})
      /\ \A i \in D : routes[path(i)] = RouteOf(s[i])
      /\ port = IF P = {} THEN Unset ELSE Number[s[Max(P)].tokens[2][1]]
  BY <1>6, <1>7, <1>8
<1> QED
  BY <1>9 DEF RoutesAsDeclared

(* main listens with exactly the routes and the port that the file declares *)
(* in front of its first mistake, for any file (parseConfig).               *)
THEOREM ListensAsDeclared == Spec => []RoutesAsDeclared
<1>1. Init => Loaded
  BY DEF Init, Loaded
<1>2. Spec => []Loaded
  BY <1>1, NextLoaded, SpecInv, PTL DEF Spec
<1> QED
  BY <1>2, LoadedDeclared, PTL

LEMMA NextFrozen ==
  ASSUME Inv, Race, Next, phase = "serve", routes' # routes
  PROVE  /\ \E w \in Workers : pc[w] \in {"insert", "call"} /\ Unroutable(req[w].path)
         /\ \A p \in DOMAIN routes : p \in DOMAIN routes' /\ routes'[p] = routes[p]
         /\ \A p \in DOMAIN routes' \ DOMAIN routes : ~CanCreate(routes'[p])
<1>1. PICK w \in Workers : Insert(w)
  <2>1. ~ReadFile /\ ~ReadConfig /\ ~Listen /\ ~ListenFails
    BY DEF ReadFile, ReadConfig, Listen, ListenFails
  <2>2. ASSUME NEW w \in Workers
        PROVE  /\ \A r, n : ~Receive(w, r, n)
               /\ \A key : ~Consider(w, key)
               /\ ~Stray(w) /\ ~RaceFaults(w) /\ ~Choose(w) /\ ~BeginInsert(w)
               /\ ~Call(w) /\ ~CallFails(w) /\ ~CallThrows(w)
    BY DEF Receive, Consider, Stray, RaceFaults, Choose, BeginInsert, Call, CallFails, CallThrows
  <2> QED
    BY <2>1, <2>2 DEF Next
<1>2. pc[w] = "insert" /\ routes' = Put(routes, longest[w], None)
  BY <1>1 DEF Insert
<1>3. longest[w] = <<>>
  BY <1>2 DEF Inv, AllWorkers, WorkerOK
<1>4. PICK v \in Workers : Lost(v)
  BY <1>2 DEF Race, Racing
<1>5. \E u \in Workers : pc[u] \in {"insert", "call"} /\ Unroutable(req[u].path)
  BY <1>4 DEF Lost
<1>6. <<>> \in DOMAIN routes => routes[<<>>] = None
  BY <1>2 DEF Race
<1> QED
  BY <1>2, <1>3, <1>5, <1>6, NoneMakesNothing DEF Put

(* While the server runs, the table that all workers read without a lock is *)
(* written only while some worker has a request without a route; then it    *)
(* gains an entry that makes no handler, and no other entry changes, however*)
(* many workers insert it (Dispatcher::match).                              *)
THEOREM TableIsFrozen == Spec => RoutesFrozen
<1>1. Inv /\ Race /\ [Next]_vars =>
        [phase = "serve" /\ routes' # routes =>
           /\ \E w \in Workers : pc[w] \in {"insert", "call"} /\ Unroutable(req[w].path)
           /\ \A p \in DOMAIN routes : p \in DOMAIN routes' /\ routes'[p] = routes[p]
           /\ \A p \in DOMAIN routes' \ DOMAIN routes : ~CanCreate(routes'[p])]_vars
  BY NextFrozen
<1> QED
  BY <1>1, SpecInv, SpecRace, PTL DEF Spec, RoutesFrozen

(* With "/" in the table, a request without a route does not begin with it. *)
LEMMA LostIsNoPath ==
  ASSUME <<"/">> \in DOMAIN routes, NEW path, Unroutable(path)
  PROVE  ~IsPrefix(<<"/">>, path)
<1>1. <<"/">> # <<>>
  OBVIOUS
<1> QED
  BY <1>1 DEF Unroutable, PrefixesOf

(* A worker with the empty prefix has such a request, or another one has.   *)
LEMMA EmptyIsNoPath ==
  ASSUME Inv, Race, accepted, NEW w \in Workers, pc[w] = "call" /\ longest[w] = <<>>
  PROVE  \E v \in Workers : pc[v] \in {"insert", "call"} /\ ~IsPrefix(<<"/">>, req[v].path)
<1>1. <<"/">> \in DOMAIN routes
  BY DEF Inv, Main
<1>2. CASE Racing
  BY <1>1, <1>2, LostIsNoPath DEF Racing, Lost
<1>3. CASE ~Racing
  <2>1. NoLonger(DOMAIN routes, req[w].path, <<>>)
    BY <1>3 DEF Race, Searched
  <2> QED
    BY <1>1, <2>1, FoundNothing, LostIsNoPath DEF Inv
<1> QED
  BY <1>2, <1>3

LEMMA NextServes ==
  ASSUME Inv, Race, Next, phase = "serve", phase' = "ended"
  PROVE  \/ ~accepted
         \/ \E p \in DOMAIN routes \ {<<>>} : ~CanCreate(routes[p])
         \/ \E w \in Workers : pc[w] \in {"insert", "call"} /\ ~IsPrefix(<<"/">>, req[w].path)
         \/ \E w \in Workers : /\ pc[w] = "call" /\ longest[w] # <<>>
                              /\ CanThrow(routes[longest[w]], req[w])
<1> SUFFICES ASSUME accepted
             PROVE  \/ \E p \in DOMAIN routes \ {<<>>} : ~CanCreate(routes[p])
                    \/ \E w \in Workers : /\ pc[w] \in {"insert", "call"}
                                         /\ ~IsPrefix(<<"/">>, req[w].path)
                    \/ \E w \in Workers : /\ pc[w] = "call" /\ longest[w] # <<>>
                                         /\ CanThrow(routes[longest[w]], req[w])
  OBVIOUS
<1>1. PICK w \in Workers : RaceFaults(w) \/ CallFails(w) \/ CallThrows(w)
  <2>1. ~ReadFile /\ ~ReadConfig /\ ~Listen /\ ~ListenFails
    BY DEF ReadFile, ReadConfig, Listen, ListenFails
  <2>2. ASSUME NEW w \in Workers
        PROVE  /\ \A r, n : ~Receive(w, r, n)
               /\ \A key : ~Consider(w, key)
               /\ ~Stray(w) /\ ~Choose(w) /\ ~BeginInsert(w) /\ ~Insert(w) /\ ~Call(w)
    BY DEF Receive, Consider, Stray, Choose, BeginInsert, Insert, Call
  <2> QED
    BY <2>1, <2>2 DEF Next
<1>2. CASE RaceFaults(w)
  <2>1. PICK v \in Workers : pc[v] = "insert"
    BY <1>2 DEF RaceFaults, Disturbed
  <2>2. PICK u \in Workers : Lost(u)
    BY <2>1 DEF Race, Racing
  <2>3. <<"/">> \in DOMAIN routes
    BY DEF Inv, Main
  <2> QED
    BY <2>2, <2>3, LostIsNoPath DEF Lost
<1>3. CASE CallFails(w) \/ CallThrows(w)
  <2>1. /\ pc[w] = "call"
        /\ ~CanCreate(routes[longest[w]]) \/ CanThrow(routes[longest[w]], req[w])
    BY <1>3 DEF CallFails, CallThrows
  <2>2. longest[w] \in DOMAIN routes
    BY <2>1 DEF Inv, AllWorkers, WorkerOK
  <2>3. CASE longest[w] = <<>>
    BY <2>1, <2>3, EmptyIsNoPath
  <2>4. CASE longest[w] # <<>>
    BY <2>1, <2>2, <2>4
  <2> QED
    BY <2>3, <2>4
<1> QED
  BY <1>1, <1>2, <1>3

(* With an accepted configuration whose handlers can all be made, the server*)
(* ends for two reasons only: a request whose path does not begin with "/", *)
(* which is also what the race on the table needs, and a handler that lets  *)
(* an exception out (parseConfig, Dispatcher::match, handle_read).          *)
THEOREM AcceptedConfigServes == Spec => AcceptedServes
<1>1. Inv /\ Race /\ [Next]_vars =>
        [phase = "serve" /\ phase' = "ended" =>
           \/ ~accepted
           \/ \E p \in DOMAIN routes \ {<<>>} : ~CanCreate(routes[p])
           \/ \E w \in Workers : pc[w] \in {"insert", "call"} /\ ~IsPrefix(<<"/">>, req[w].path)
           \/ \E w \in Workers : /\ pc[w] = "call" /\ longest[w] # <<>>
                                /\ CanThrow(routes[longest[w]], req[w])]_vars
  BY NextServes
<1> QED
  BY <1>1, SpecInv, SpecRace, PTL DEF Spec, AcceptedServes
===============================================================================
