----------------------------- MODULE ParserProofs -----------------------------
(***************************************************************************)
(* Proofs about what the two parsers compute, for any text: that the       *)
(* beginning of a request which parses is parsed like the whole of it, that*)
(* the configuration parser accepts the language of its grammar, and that  *)
(* it reads what ToString prints as the configuration that was printed.    *)
(*                                                                         *)
(* Every fold has two lemmas: its values after each turn, and what one     *)
(* more element makes of it.  With the second, and induction over          *)
(* sequences in the form of a set, it can be reasoned about as if it were  *)
(* defined by recursion over its sequence.                                 *)
(***************************************************************************)
EXTENDS FrontEndProofs

(* A set that contains the empty sequence and with every sequence all that  *)
(* have one element more is the set of all sequences.                       *)
LEMMA SeqSetInduction ==
  ASSUME NEW A, NEW S \in SUBSET Seq(A), <<>> \in S,
         \A s \in S, e \in A : Append(s, e) \in S
  PROVE  S = Seq(A)
<1> DEFINE K == {k \in Nat : \A s \in Seq(A) : Len(s) = k => s \in S}
<1>1. 0 \in K
  OBVIOUS
<1>2. ASSUME NEW k \in K PROVE k + 1 \in K
  <2>1. k \in Nat /\ k + 1 \in Nat /\ \A s \in Seq(A) : Len(s) = k => s \in S
    OBVIOUS
  <2>2. ASSUME NEW s \in Seq(A), Len(s) = k + 1 PROVE s \in S
    <3> DEFINE f == SubSeq(s, 1, k)
               e == s[k + 1]
    <3>1. f \in Seq(A) /\ Len(f) = k /\ e \in A
      BY <2>1, <2>2
    <3>2. \A i \in 1 .. k : s[i] = f[i]
      BY <2>1, <2>2
    <3>3. s[k + 1] = e
      OBVIOUS
    <3> HIDE DEF f, e
    <3> DEFINE q == Append(f, e)
    <3>4. q \in Seq(A) /\ Len(q) = k + 1 /\ q[k + 1] = e /\ \A i \in 1 .. k : q[i] = f[i]
      BY <3>1, AppendProperties
    <3> HIDE DEF q
    <3>5. ASSUME NEW i \in 1 .. Len(s) PROVE q[i] = s[i]
      <4>1. i = k + 1 \/ i \in 1 .. k
        BY <2>1, <2>2
      <4> QED
        BY <3>2, <3>3, <3>4, <4>1
    <3>6. q = s
      BY <2>2, <3>4, <3>5, SeqEqual
    <3>7. s = Append(f, e)
      BY <3>6 DEF q
    <3> QED
      BY <2>1, <3>1, <3>7
  <2> QED
    BY <2>1, <2>2
<1>3. K = Nat
  <2> HIDE DEF K
  <2>1. K \in SUBSET Nat
    BY DEF K
  <2> QED
    BY <1>1, <1>2, <2>1, NatSetInduction
<1>4. ASSUME NEW s \in Seq(A) PROVE s \in S
  <2>1. Len(s) \in K
    BY <1>3
  <2> QED
    BY <2>1
<1> QED
  BY <1>4

(* IsPrefix, by the elements. *)
LEMMA PrefixElements ==
  ASSUME NEW A, NEW a \in Seq(A), NEW b \in Seq(A)
  PROVE  IsPrefix(a, b) <=> Len(a) <= Len(b) /\ \A i \in 1 .. Len(a) : a[i] = b[i]
<1>1. SubSeq(a, 1, Len(a)) = a
  OBVIOUS
<1>2. Len(a) <= Len(b) =>
        (SubSeq(b, 1, Len(a)) = a <=> \A i \in 1 .. Len(a) : a[i] = b[i])
  <2> SUFFICES ASSUME Len(a) <= Len(b)
               PROVE  SubSeq(b, 1, Len(a)) = a <=> \A i \in 1 .. Len(a) : a[i] = b[i]
    OBVIOUS
  <2> DEFINE c == SubSeq(b, 1, Len(a))
  <2>1. c \in Seq(A) /\ Len(c) = Len(a) /\ \A i \in 1 .. Len(a) : c[i] = b[i]
    OBVIOUS
  <2> HIDE DEF c
  <2>2. (\A i \in 1 .. Len(a) : a[i] = c[i]) => c = a
    BY <2>1
  <2> QED
    BY <2>1, <2>2 DEF c
<1> QED
  BY <1>1, <1>2 DEF IsPrefix

-------------------------------------------------------------------------------
(* Split *)

Pieces == Seq(Text) \ {<<>>}

(* One more symbol. *)
SplitStep(pieces, c, separators) ==
  IF c \in separators THEN Append(pieces, <<>>)
                      ELSE [pieces EXCEPT ![Len(pieces)] = Append(@, c)]

SplitTurn(s, separators) ==
  [p \in Pieces \X (1 .. Len(s)) |-> SplitStep(p[1], s[p[2]], separators)]

LEMMA SplitStepTyped ==
  ASSUME NEW p \in Pieces, NEW c \in Symbols, NEW separators
  PROVE  SplitStep(p, c, separators) \in Pieces
<1>1. p \in Seq(Text) /\ p # <<>> /\ Len(p) \in Nat /\ Len(p) # 0
  BY DEF Pieces
<1>2. /\ Append(p, <<>>) \in Seq(Text) /\ Append(p, <<>>) # <<>>
      /\ [p EXCEPT ![Len(p)] = Append(@, c)] \in Seq(Text)
  BY <1>1, PieceExtended
<1>3. [p EXCEPT ![Len(p)] = Append(@, c)] # <<>>
  <2>1. Len(p) \in DOMAIN p
    BY <1>1
  <2>2. DOMAIN [p EXCEPT ![Len(p)] = Append(@, c)] # {}
    BY <2>1
  <2> QED
    BY <2>2
<1> QED
  BY <1>2, <1>3 DEF SplitStep, Pieces

LEMMA SplitTurns ==
  ASSUME NEW s \in Text, NEW separators
  PROVE  \E g : /\ Turns(g, Len(s), Pieces, <<<<>>>>, SplitTurn(s, separators))
                /\ Split(s, separators) = g[Len(s)]
<1> DEFINE N == Len(s)
           F == SplitTurn(s, separators)
           Rec(it) == it = [T \in SUBSET DOMAIN s |->
                              IF T = {} THEN <<<<>>>>
                              ELSE IF s[Max(T)] \in separators
                                THEN Append(it[T \ {Max(T)}], <<>>)
                                ELSE [it[T \ {Max(T)}] EXCEPT
                                        ![Len(it[T \ {Max(T)}])] = Append(@, s[Max(T)])]]
           it == CHOOSE i : Rec(i)
<1>1. N \in Nat /\ DOMAIN s = 1 .. N /\ \A i \in 1 .. N : s[i] \in Symbols
  BY DEF Text
<1>2. Split(s, separators) = it[DOMAIN s]
  BY DEF Split, FoldLeft, MapThenFoldSet
<1>3. <<<<>>>> \in Pieces
  BY DEF Pieces, Text
<1> HIDE DEF N
<1>4. F \in [Pieces \X (1 .. N) -> Pieces]
  BY <1>1, SplitStepTyped DEF SplitTurn, N
<1>5. \A v \in Pieces, i \in 1 .. N : F[<<v, i>>] = SplitStep(v, s[i], separators)
  BY DEF SplitTurn, N
<1> HIDE DEF F
<1>6. PICK h : FoldsTo(h, N, Pieces, <<<<>>>>, F)
  BY <1>1, <1>3, <1>4, FoldExists
<1>7. ASSUME NEW T \in SUBSET (1 .. N), T # {}
      PROVE  h[T] = SplitStep(h[T \ {Max(T)}], s[Max(T)], separators)
  <2>1. Max(T) \in 1 .. N /\ h[T \ {Max(T)}] \in Pieces
    BY <1>1, <1>6, <1>7, MaxOfPositions DEF FoldsTo
  <2> QED
    BY <1>5, <1>6, <1>7, <2>1 DEF FoldsTo
<1>8. Rec(it)
  <2>1. Rec(h)
    BY <1>1, <1>6, <1>7 DEF FoldsTo, SplitStep
  <2> HIDE DEF Rec
  <2> QED
    BY <2>1
<1> HIDE DEF it
<1>9. /\ it = [T \in SUBSET (1 .. N) |-> it[T]] /\ it[{}] = <<<<>>>>
      /\ \A T \in SUBSET (1 .. N) : T # {} =>
           it[T] = SplitStep(it[T \ {Max(T)}], s[Max(T)], separators)
  BY <1>1, <1>8 DEF SplitStep
<1>10. ASSUME NEW T \in SUBSET (1 .. N), T # {} /\ it[T \ {Max(T)}] \in Pieces
       PROVE  it[T] = F[<<it[T \ {Max(T)}], Max(T)>>]
  BY <1>1, <1>5, <1>9, <1>10, MaxOfPositions
<1>11. FoldsTo(it, N, Pieces, <<<<>>>>, F)
  BY <1>1, <1>3, <1>4, <1>9, <1>10, FoldFollowed
<1> QED
  BY <1>1, <1>2, <1>11, FoldTurns DEF N, F

LEMMA SplitEmpty == ASSUME NEW separators PROVE Split(<<>>, separators) = <<<<>>>>
<1>1. <<>> \in Text /\ Len(<<>>) = 0
  BY DEF Text
<1> QED
  BY <1>1, SplitTurns DEF Turns

LEMMA SplitAppend ==
  ASSUME NEW s \in Text, NEW c \in Symbols, NEW separators
  PROVE  /\ Split(s, separators) \in Pieces
         /\ Split(Append(s, c), separators) = SplitStep(Split(s, separators), c, separators)
<1> DEFINE t == Append(s, c)
           N == Len(s)
           first == <<<<>>>>
<1>1. /\ N \in Nat /\ t \in Text /\ Len(t) = N + 1 /\ t[N + 1] = c
      /\ \A i \in 1 .. N : t[i] = s[i]
  BY DEF Text
<1>2. PICK g : /\ Turns(g, N, Pieces, first, SplitTurn(s, separators))
               /\ Split(s, separators) = g[N]
  BY SplitTurns
<1> HIDE DEF t
<1>3. PICK h : /\ Turns(h, N + 1, Pieces, first, SplitTurn(t, separators))
               /\ Split(t, separators) = h[N + 1]
  BY <1>1, SplitTurns
<1> DEFINE M == N + 1
<1> HIDE DEF N, M, first
<1>4. SameTurns(N, Pieces, SplitTurn(s, separators), SplitTurn(t, separators))
  BY <1>1 DEF SameTurns, SplitTurn, N
<1>5. g[N] \in Pieces /\ h[N + 1] = SplitTurn(t, separators)[<<g[N], N + 1>>]
  <2>1. N \in Nat /\ M = N + 1
    BY <1>1 DEF M
  <2>2. /\ Turns(g, N, Pieces, first, SplitTurn(s, separators))
        /\ Turns(h, M, Pieces, first, SplitTurn(t, separators))
    BY <1>2, <1>3 DEF M
  <2>3. g[N] \in Pieces
    BY <2>1, <2>2, TurnsTyped
  <2>4. OneMore(N, M, Pieces, first, SplitTurn(s, separators), SplitTurn(t, separators), g, h)
    BY <2>1, <2>2, <1>4 DEF OneMore
  <2>5. h[M] = SplitTurn(t, separators)[<<g[N], M>>]
    BY <2>4, TurnsAppend
  <2> QED
    BY <2>3, <2>5 DEF M
<1>6. \A v \in Pieces, i \in 1 .. Len(t) :
        SplitTurn(t, separators)[<<v, i>>] = SplitStep(v, t[i], separators)
  BY DEF SplitTurn
<1>7. SplitTurn(t, separators)[<<g[N], N + 1>>] = SplitStep(g[N], c, separators)
  BY <1>1, <1>5, <1>6
<1> QED
  BY <1>2, <1>3, <1>5, <1>7 DEF t

-------------------------------------------------------------------------------
(* Words *)

WordStep(words, p) == IF p = <<>> THEN words ELSE Append(words, p)

(* The pieces that are not empty. *)
Filled(pieces) ==
  LET ifWord(words, p) == IF p = <<>> THEN words ELSE Append(words, p)
  IN  FoldLeft(ifWord, <<>>, pieces)

WordTurn(pieces) == [p \in Seq(Text) \X (1 .. Len(pieces)) |-> WordStep(p[1], pieces[p[2]])]

LEMMA FilledTurns ==
  ASSUME NEW s \in Seq(Text)
  PROVE  \E g : /\ Turns(g, Len(s), Seq(Text), <<>>, WordTurn(s))
                /\ Filled(s) = g[Len(s)]
<1> DEFINE N == Len(s)
           F == WordTurn(s)
           Rec(it) == it = [T \in SUBSET DOMAIN s |->
                              IF T = {} THEN <<>>
                              ELSE IF s[Max(T)] = <<>> THEN it[T \ {Max(T)}]
                                   ELSE Append(it[T \ {Max(T)}], s[Max(T)])]
           it == CHOOSE i : Rec(i)
<1>1. N \in Nat /\ DOMAIN s = 1 .. N /\ \A i \in 1 .. N : s[i] \in Text
  OBVIOUS
<1>2. Filled(s) = it[DOMAIN s]
  BY DEF Filled, FoldLeft, MapThenFoldSet
<1>3. <<>> \in Seq(Text)
  OBVIOUS
<1> HIDE DEF N
<1>4. F \in [Seq(Text) \X (1 .. N) -> Seq(Text)]
  <2>1. ASSUME NEW v \in Seq(Text), NEW e \in Text PROVE WordStep(v, e) \in Seq(Text)
    BY DEF WordStep
  <2> QED
    BY <1>1, <2>1 DEF WordTurn, N
<1>5. \A v \in Seq(Text), i \in 1 .. N : F[<<v, i>>] = WordStep(v, s[i])
  BY DEF WordTurn, N
<1> HIDE DEF F
<1>6. PICK h : FoldsTo(h, N, Seq(Text), <<>>, F)
  BY <1>1, <1>3, <1>4, FoldExists
<1>7. ASSUME NEW T \in SUBSET (1 .. N), T # {}
      PROVE  h[T] = WordStep(h[T \ {Max(T)}], s[Max(T)])
  <2>1. Max(T) \in 1 .. N /\ h[T \ {Max(T)}] \in Seq(Text)
    BY <1>1, <1>6, <1>7, MaxOfPositions DEF FoldsTo
  <2> QED
    BY <1>5, <1>6, <1>7, <2>1 DEF FoldsTo
<1>8. Rec(it)
  <2>1. Rec(h)
    BY <1>1, <1>6, <1>7 DEF FoldsTo, WordStep
  <2> HIDE DEF Rec
  <2> QED
    BY <2>1
<1> HIDE DEF it
<1>9. /\ it = [T \in SUBSET (1 .. N) |-> it[T]] /\ it[{}] = <<>>
      /\ \A T \in SUBSET (1 .. N) : T # {} => it[T] = WordStep(it[T \ {Max(T)}], s[Max(T)])
  BY <1>1, <1>8 DEF WordStep
<1>10. ASSUME NEW T \in SUBSET (1 .. N), T # {} /\ it[T \ {Max(T)}] \in Seq(Text)
       PROVE  it[T] = F[<<it[T \ {Max(T)}], Max(T)>>]
  BY <1>1, <1>5, <1>9, <1>10, MaxOfPositions
<1>11. FoldsTo(it, N, Seq(Text), <<>>, F)
  BY <1>1, <1>3, <1>4, <1>9, <1>10, FoldFollowed
<1> QED
  BY <1>1, <1>2, <1>11, FoldTurns DEF N, F

LEMMA FilledEmpty == Filled(<<>>) = <<>>
<1>1. <<>> \in Seq(Text) /\ Len(<<>>) = 0
  OBVIOUS
<1> QED
  BY <1>1, FilledTurns DEF Turns

LEMMA FilledAppend ==
  ASSUME NEW s \in Seq(Text), NEW e \in Text
  PROVE  Filled(s) \in Seq(Text) /\ Filled(Append(s, e)) = WordStep(Filled(s), e)
<1> DEFINE t == Append(s, e)
           N == Len(s)
           first == <<>>
<1>1. /\ N \in Nat /\ t \in Seq(Text) /\ Len(t) = N + 1 /\ t[N + 1] = e
      /\ \A i \in 1 .. N : t[i] = s[i]
  OBVIOUS
<1>2. PICK g : Turns(g, N, Seq(Text), first, WordTurn(s)) /\ Filled(s) = g[N]
  BY FilledTurns
<1> HIDE DEF t
<1>3. PICK h : Turns(h, N + 1, Seq(Text), first, WordTurn(t)) /\ Filled(t) = h[N + 1]
  BY <1>1, FilledTurns
<1> DEFINE M == N + 1
<1> HIDE DEF N, M, first
<1>4. SameTurns(N, Seq(Text), WordTurn(s), WordTurn(t))
  BY <1>1 DEF SameTurns, WordTurn, N
<1>5. g[N] \in Seq(Text) /\ h[N + 1] = WordTurn(t)[<<g[N], N + 1>>]
  <2>1. N \in Nat /\ M = N + 1
    BY <1>1 DEF M
  <2>2. /\ Turns(g, N, Seq(Text), first, WordTurn(s))
        /\ Turns(h, M, Seq(Text), first, WordTurn(t))
    BY <1>2, <1>3 DEF M
  <2>3. g[N] \in Seq(Text)
    BY <2>1, <2>2, TurnsTyped
  <2>4. OneMore(N, M, Seq(Text), first, WordTurn(s), WordTurn(t), g, h)
    BY <2>1, <2>2, <1>4 DEF OneMore
  <2>5. h[M] = WordTurn(t)[<<g[N], M>>]
    BY <2>4, TurnsAppend
  <2> QED
    BY <2>3, <2>5 DEF M
<1>6. \A v \in Seq(Text), i \in 1 .. Len(t) : WordTurn(t)[<<v, i>>] = WordStep(v, t[i])
  BY DEF WordTurn
<1>7. WordTurn(t)[<<g[N], N + 1>>] = WordStep(g[N], e)
  BY <1>1, <1>5, <1>6
<1> QED
  BY <1>2, <1>3, <1>5, <1>7 DEF t

(* What is read of a line that has more words, or more of its last word.    *)
Grows(v, w) ==
  /\ Len(v) <= Len(w)
  /\ \A i \in 1 .. Len(v) : v[i] # <<>> /\ v[i][1] = w[i][1] /\ w[i] # <<>>
  /\ \A i \in 1 .. Len(v) : i < Len(v) => v[i] = w[i]

-------------------------------------------------------------------------------
(* Headers *)

HeaderStart == [open |-> TRUE, headers |-> [n \in {} |-> <<>>]]
HeaderReads == [open : BOOLEAN, headers : Tables(Text)]

Colons(line) == {i \in DOMAIN line : line[i] = ":"}
NameOf(line) == SubSeq(line, 1, Min(Colons(line)) - 1)

LEMMA FirstColon ==
  ASSUME NEW line \in Text, Colons(line) # {}
  PROVE  /\ Min(Colons(line)) \in Colons(line)
         /\ \A i \in Colons(line) : Min(Colons(line)) <= i
         /\ Min(Colons(line)) \in 1 .. Len(line)
<1>1. Colons(line) \in SUBSET Nat /\ Colons(line) \subseteq 1 .. Len(line)
  BY DEF Colons, Text
<1>2. \E m \in Colons(line) : \A i \in Colons(line) : m <= i
  BY <1>1, NatMinimum
<1> HIDE DEF Colons
<1> QED
  BY <1>1, <1>2 DEF Min

(* One line, for the names. *)
LEMMA AddHeaderNames ==
  ASSUME NEW h \in HeaderReads, NEW line \in Text
  PROVE  /\ AddHeader(h, line) \in HeaderReads
         /\ line = <<>> \/ ~h.open => AddHeader(h, line) = [h EXCEPT !.open = FALSE]
         /\ DOMAIN AddHeader(h, line).headers =
              DOMAIN h.headers \cup
                (IF h.open /\ line # <<>> /\ Colons(line) # {} THEN {NameOf(line)} ELSE {})
<1> DEFINE at == Min(Colons(line))
           name == SubSeq(line, 1, at - 1)
           value == Value(SubSeq(line, at + 1, Len(line)))
           new == Put(h.headers, name, value)
<1>1. h.open \in BOOLEAN /\ h.headers \in Tables(Text)
  BY DEF HeaderReads
<1>2. CASE ~h.open \/ line = <<>>
  <2>1. AddHeader(h, line) = [h EXCEPT !.open = FALSE]
    BY <1>2 DEF AddHeader
  <2> QED
    BY <1>1, <1>2, <2>1 DEF HeaderReads
<1>3. CASE h.open /\ line # <<>> /\ Colons(line) = {}
  <2>1. AddHeader(h, line) = h
    BY <1>3 DEF AddHeader, Colons
  <2> QED
    BY <1>3, <2>1
<1>4. CASE h.open /\ line # <<>> /\ Colons(line) # {}
  <2>1. AddHeader(h, line) = [h EXCEPT !.headers = new]
    BY <1>4 DEF AddHeader, Colons, Put
  <2>2. at \in 1 .. Len(line) /\ Len(line) \in Nat
    BY <1>4, FirstColon DEF Text
  <2> HIDE DEF at
  <2>3. name \in Text /\ SubSeq(line, at + 1, Len(line)) \in Text
    BY <2>2, SubSeqProperties DEF Text
  <2>4. value \in Text
    BY <2>3 DEF Value, Text
  <2>5. DOMAIN new = DOMAIN h.headers \cup {name}
    BY DEF Put
  <2>6. new \in Tables(Text)
    BY <1>1, <2>3, <2>4, PutInTable
  <2> HIDE DEF new, value, name
  <2>7. [h EXCEPT !.headers = new] \in HeaderReads
    BY <2>6 DEF HeaderReads
  <2>8. DOMAIN [h EXCEPT !.headers = new].headers = DOMAIN new
    BY DEF HeaderReads
  <2>9. name = NameOf(line)
    BY DEF name, NameOf, at
  <2> QED
    BY <1>4, <2>1, <2>5, <2>7, <2>8, <2>9
<1> QED
  BY <1>1, <1>2, <1>3, <1>4

(* What the header loop has read of some lines. *)
HeaderState(lines) ==
  FoldLeft(AddHeader, [open |-> TRUE, headers |-> [n \in {} |-> <<>>]],
           [i \in DOMAIN lines |-> Stripped(lines[i])])

HeaderTurn(lines) ==
  [p \in HeaderReads \X (1 .. Len(lines)) |-> AddHeader(p[1], Stripped(lines[p[2]]))]

LEMMA StrippedTyped == ASSUME NEW line \in Text PROVE Stripped(line) \in Text
BY DEF Stripped, Front, Text

LEMMA HeaderTurns ==
  ASSUME NEW s \in Seq(Text)
  PROVE  \E g : /\ Turns(g, Len(s), HeaderReads, HeaderStart, HeaderTurn(s))
                /\ HeaderState(s) = g[Len(s)]
<1> DEFINE N == Len(s)
           F == HeaderTurn(s)
           Rec(it) == it = [T \in SUBSET DOMAIN [i \in DOMAIN s |-> Stripped(s[i])] |->
                              IF T = {} THEN HeaderStart
                              ELSE AddHeader(it[T \ {Max(T)}],
                                             [i \in DOMAIN s |-> Stripped(s[i])][Max(T)])]
           it == CHOOSE i : Rec(i)
<1>1. N \in Nat /\ DOMAIN s = 1 .. N /\ \A i \in 1 .. N : Stripped(s[i]) \in Text
  BY StrippedTyped
<1>2. HeaderState(s) = it[DOMAIN s]
  <2> HIDE DEF AddHeader, Stripped, Max
  <2> QED
    BY DEF HeaderState, HeaderStart, FoldLeft, MapThenFoldSet
<1>3. HeaderStart \in HeaderReads
  <2>1. [n \in {} |-> <<>>] \in [{} -> Text] /\ {} \in SUBSET Text
    OBVIOUS
  <2>2. [n \in {} |-> <<>>] \in Tables(Text)
    BY <2>1 DEF Tables
  <2> QED
    BY <2>2 DEF HeaderStart, HeaderReads
<1> HIDE DEF N
<1>4. F \in [HeaderReads \X (1 .. N) -> HeaderReads]
  <2>1. ASSUME NEW v \in HeaderReads, NEW i \in 1 .. N
        PROVE  AddHeader(v, Stripped(s[i])) \in HeaderReads
    BY <1>1, AddHeaderNames
  <2> QED
    BY <2>1 DEF HeaderTurn, N
<1>5. \A v \in HeaderReads, i \in 1 .. N : F[<<v, i>>] = AddHeader(v, Stripped(s[i]))
  BY DEF HeaderTurn, N
<1> HIDE DEF F
<1>6. PICK h : FoldsTo(h, N, HeaderReads, HeaderStart, F)
  BY <1>1, <1>3, <1>4, FoldExists
<1>7. ASSUME NEW T \in SUBSET (1 .. N), T # {}
      PROVE  h[T] = AddHeader(h[T \ {Max(T)}], Stripped(s[Max(T)]))
  <2>1. Max(T) \in 1 .. N /\ h[T \ {Max(T)}] \in HeaderReads
    BY <1>1, <1>6, <1>7, MaxOfPositions DEF FoldsTo
  <2> QED
    BY <1>5, <1>6, <1>7, <2>1 DEF FoldsTo
<1>8. Rec(it)
  <2>1. Rec(h)
    BY <1>1, <1>6, <1>7, MaxOfPositions DEF FoldsTo
  <2> HIDE DEF Rec
  <2> QED
    BY <2>1
<1> HIDE DEF it
<1>9. /\ it = [T \in SUBSET (1 .. N) |-> it[T]] /\ it[{}] = HeaderStart
      /\ \A T \in SUBSET (1 .. N) : T # {} =>
           it[T] = AddHeader(it[T \ {Max(T)}], Stripped(s[Max(T)]))
  BY <1>1, <1>8, MaxOfPositions
<1>10. ASSUME NEW T \in SUBSET (1 .. N), T # {} /\ it[T \ {Max(T)}] \in HeaderReads
       PROVE  it[T] = F[<<it[T \ {Max(T)}], Max(T)>>]
  BY <1>1, <1>5, <1>9, <1>10, MaxOfPositions
<1>11. FoldsTo(it, N, HeaderReads, HeaderStart, F)
  BY <1>1, <1>3, <1>4, <1>9, <1>10, FoldFollowed
<1> QED
  BY <1>1, <1>2, <1>11, FoldTurns DEF N, F

LEMMA HeaderStateAppend ==
  ASSUME NEW s \in Seq(Text), NEW e \in Text
  PROVE  /\ HeaderState(s) \in HeaderReads
         /\ HeaderState(Append(s, e)) = AddHeader(HeaderState(s), Stripped(e))
<1> DEFINE t == Append(s, e)
           N == Len(s)
<1>1. /\ N \in Nat /\ t \in Seq(Text) /\ Len(t) = N + 1 /\ t[N + 1] = e
      /\ \A i \in 1 .. N : t[i] = s[i]
  OBVIOUS
<1>2. PICK g : Turns(g, N, HeaderReads, HeaderStart, HeaderTurn(s)) /\ HeaderState(s) = g[N]
  BY HeaderTurns
<1> HIDE DEF t
<1>3. PICK h : /\ Turns(h, N + 1, HeaderReads, HeaderStart, HeaderTurn(t))
               /\ HeaderState(t) = h[N + 1]
  BY <1>1, HeaderTurns
<1> DEFINE M == N + 1
<1> HIDE DEF N, M
<1>4. SameTurns(N, HeaderReads, HeaderTurn(s), HeaderTurn(t))
  BY <1>1 DEF SameTurns, HeaderTurn, N
<1>5. g[N] \in HeaderReads /\ h[N + 1] = HeaderTurn(t)[<<g[N], N + 1>>]
  <2>1. N \in Nat /\ M = N + 1
    BY <1>1 DEF M
  <2>2. /\ Turns(g, N, HeaderReads, HeaderStart, HeaderTurn(s))
        /\ Turns(h, M, HeaderReads, HeaderStart, HeaderTurn(t))
    BY <1>2, <1>3 DEF M
  <2>3. g[N] \in HeaderReads
    BY <2>1, <2>2, TurnsTyped
  <2>4. OneMore(N, M, HeaderReads, HeaderStart, HeaderTurn(s), HeaderTurn(t), g, h)
    BY <2>1, <2>2, <1>4 DEF OneMore
  <2>5. h[M] = HeaderTurn(t)[<<g[N], M>>]
    BY <2>4, TurnsAppend
  <2> QED
    BY <2>3, <2>5 DEF M
<1>6. \A v \in HeaderReads, i \in 1 .. Len(t) :
        HeaderTurn(t)[<<v, i>>] = AddHeader(v, Stripped(t[i]))
  BY DEF HeaderTurn
<1>7. HeaderTurn(t)[<<g[N], N + 1>>] = AddHeader(g[N], Stripped(e))
  BY <1>1, <1>5, <1>6
<1> QED
  BY <1>2, <1>3, <1>5, <1>7 DEF t

-------------------------------------------------------------------------------
(* One symbol more *)

Blanks == {"sp", "cr", "lf"}

LEMMA TextAppend ==
  ASSUME NEW s \in Text, NEW c \in Symbols
  PROVE  /\ Append(s, c) \in Text /\ Append(s, c) # <<>> /\ Len(s) \in Nat
         /\ Len(Append(s, c)) = Len(s) + 1 /\ Append(s, c)[Len(s) + 1] = c
         /\ \A i \in 1 .. Len(s) : Append(s, c)[i] = s[i]
<1>1. s \in Seq(Symbols)
  BY DEF Text
<1> QED
  BY <1>1, AppendProperties DEF Text

LEMMA LastReplaced ==
  ASSUME NEW A, NEW q \in Seq(A), NEW e \in A, NEW f \in A
  PROVE  /\ [Append(q, e) EXCEPT ![Len(Append(q, e))] = f] = Append(q, f)
         /\ Append(q, e)[Len(Append(q, e))] = e
         /\ Last(Append(q, e)) = e /\ Front(Append(q, e)) = q
<1> DEFINE p == Append(q, e)
           r == [p EXCEPT ![Len(p)] = f]
           t == Append(q, f)
<1>1. /\ Len(q) \in Nat /\ p \in Seq(A) /\ Len(p) = Len(q) + 1 /\ p[Len(q) + 1] = e
      /\ \A i \in 1 .. Len(q) : p[i] = q[i]
  BY AppendProperties
<1>2. /\ t \in Seq(A) /\ Len(t) = Len(q) + 1 /\ t[Len(q) + 1] = f
      /\ \A i \in 1 .. Len(q) : t[i] = q[i]
  BY AppendProperties
<1>3. Last(p) = e
  BY <1>1 DEF Last
<1>4. Front(p) = q
  <2>1. /\ Front(p) = SubSeq(p, 1, Len(q)) /\ SubSeq(p, 1, Len(q)) \in Seq(A)
        /\ Len(SubSeq(p, 1, Len(q))) = Len(q)
        /\ \A i \in 1 .. Len(q) : SubSeq(p, 1, Len(q))[i] = p[i]
    <3> HIDE DEF p
    <3> QED
      BY <1>1 DEF Front
  <2> HIDE DEF p
  <2> QED
    BY <1>1, <2>1, SeqEqual
<1> HIDE DEF p, t
<1>5. r \in Seq(A) /\ Len(r) = Len(q) + 1
  <2>1. p \in [1 .. Len(q) + 1 -> A]
    BY <1>1
  <2>2. r \in [1 .. Len(q) + 1 -> A]
    BY <2>1
  <2>3. Len(q) + 1 \in Nat
    BY <1>1
  <2> HIDE DEF r
  <2> QED
    BY <2>2, <2>3
<1>6. ASSUME NEW i \in 1 .. Len(q) + 1 PROVE r[i] = t[i]
  <2>1. i \in DOMAIN p /\ Len(q) + 1 \in DOMAIN p
    BY <1>1
  <2>2. i = Len(q) + 1 \/ i \in 1 .. Len(q)
    BY <1>1
  <2> QED
    BY <1>1, <1>2, <2>1, <2>2
<1>7. r = t
  <2> HIDE DEF r
  <2> QED
    BY <1>2, <1>5, <1>6, SeqEqual
<1> QED
  BY <1>1, <1>3, <1>4, <1>7 DEF p, t

(* The last piece of a text is e: the pieces of it and of all texts with    *)
(* one symbol more.                                                         *)
SplitsAs(s, separators, q, e) ==
  /\ Split(s, separators) = Append(q, e)
  /\ \A c \in Symbols :
       Split(Append(s, c), separators) =
         IF c \in separators THEN Append(Append(q, e), <<>>) ELSE Append(q, Append(e, c))

LEMMA SplitLast ==
  ASSUME NEW s \in Text, NEW separators
  PROVE  \E q \in Seq(Text), e \in Text : SplitsAs(s, separators, q, e)
<1> DEFINE p == Split(s, separators)
<1>1. CASE Symbols = {}
  <2>1. s = <<>>
    BY <1>1 DEF Text
  <2>2. p = Append(<<>>, <<>>) /\ <<>> \in Seq(Text) /\ <<>> \in Text
    BY <2>1, SplitEmpty DEF Text
  <2> QED
    BY <1>1, <2>2 DEF SplitsAs
<1>2. CASE Symbols # {}
  <2>1. p \in Seq(Text) /\ p # <<>>
    BY <1>2, SplitAppend DEF Pieces
  <2>2. PICK q \in Seq(Text), e \in Text : p = Append(q, e)
    BY <2>1, SequenceEmptyOrAppend
  <2>3. ASSUME NEW c \in Symbols
        PROVE  Split(Append(s, c), separators) =
                 IF c \in separators THEN Append(Append(q, e), <<>>)
                                     ELSE Append(q, Append(e, c))
    <3>1. Split(Append(s, c), separators) = SplitStep(p, c, separators)
      BY SplitAppend
    <3> DEFINE f == Append(e, c)
    <3>2. f \in Text
      BY DEF Text
    <3> HIDE DEF f
    <3>3. /\ [Append(q, e) EXCEPT ![Len(Append(q, e))] = f] = Append(q, f)
          /\ Append(q, e)[Len(Append(q, e))] = e
      BY <3>2, LastReplaced
    <3>4. SplitStep(Append(q, e), c, separators) =
            IF c \in separators THEN Append(Append(q, e), <<>>)
                                ELSE Append(q, Append(e, c))
      BY <3>3 DEF SplitStep, f
    <3> QED
      BY <2>2, <3>1, <3>4
  <2> QED
    BY <2>2, <2>3 DEF SplitsAs
<1> QED
  BY <1>1, <1>2

(* No word is empty. *)
LEMMA WordsFilled ==
  ASSUME NEW s \in Seq(Text)
  PROVE  \A i \in 1 .. Len(Filled(s)) : Filled(s)[i] # <<>>
<1> DEFINE S == {t \in Seq(Text) : \A i \in 1 .. Len(Filled(t)) : Filled(t)[i] # <<>>}
<1>1. <<>> \in S
  BY FilledEmpty
<1>2. ASSUME NEW t \in S, NEW e \in Text PROVE Append(t, e) \in S
  <2>1. t \in Seq(Text) /\ \A i \in 1 .. Len(Filled(t)) : Filled(t)[i] # <<>>
    OBVIOUS
  <2>2. Filled(t) \in Seq(Text) /\ Filled(Append(t, e)) = WordStep(Filled(t), e)
    BY <2>1, FilledAppend
  <2>3. Append(t, e) \in Seq(Text)
    BY <2>1
  <2>4. ASSUME NEW i \in 1 .. Len(WordStep(Filled(t), e)) PROVE WordStep(Filled(t), e)[i] # <<>>
    <3> DEFINE f == Filled(t)
    <3> HIDE DEF f
    <3>1. f \in Seq(Text) /\ \A j \in 1 .. Len(f) : f[j] # <<>>
      BY <2>1, <2>2 DEF f
    <3>2. ASSUME NEW j \in 1 .. Len(WordStep(f, e)) PROVE WordStep(f, e)[j] # <<>>
      BY <3>1 DEF WordStep
    <3> QED
      BY <3>2 DEF f
  <2> QED
    BY <2>2, <2>3, <2>4
<1>3. S = Seq(Text)
  <2> HIDE DEF S
  <2>1. S \in SUBSET Seq(Text)
    BY DEF S
  <2> QED
    BY <1>1, <1>2, <2>1, SeqSetInduction
<1> QED
  BY <1>3

LEMMA WordsOf ==
  ASSUME NEW line \in Text
  PROVE  /\ Words(line) = Filled(Split(line, Blanks))
         /\ Split(line, Blanks) \in Seq(Text) /\ Words(line) \in Seq(Text)
         /\ \A i \in 1 .. Len(Words(line)) : Words(line)[i] # <<>>
<1>1. Words(line) = Filled(Split(line, Blanks))
  BY DEF Words, Filled, Blanks
<1>2. PICK q \in Seq(Text), e \in Text : SplitsAs(line, Blanks, q, e)
  BY SplitLast
<1>3. Split(line, Blanks) \in Seq(Text)
  BY <1>2 DEF SplitsAs
<1>4. Filled(Split(line, Blanks)) \in Seq(Text)
  BY <1>3, FilledAppend, <<>> \in Text DEF Text
<1> QED
  BY <1>1, <1>3, <1>4, WordsFilled

(* The words of a line with one symbol more. *)
LEMMA WordsAppend ==
  ASSUME NEW line \in Text, NEW c \in Symbols
  PROVE  /\ c \in Blanks => Words(Append(line, c)) = Words(line)
         /\ Grows(Words(line), Words(Append(line, c)))
<1>0. PICK q \in Seq(Text), e \in Text : SplitsAs(line, Blanks, q, e)
  BY SplitLast
<1>1. /\ Split(line, Blanks) = Append(q, e)
      /\ \A d \in Symbols :
           Split(Append(line, d), Blanks) =
             IF d \in Blanks THEN Append(Append(q, e), <<>>) ELSE Append(q, Append(e, d))
  BY <1>0 DEF SplitsAs
<1>2. Append(line, c) \in Text /\ Append(e, c) \in Text /\ <<>> \in Text
  BY DEF Text
<1> DEFINE v == Filled(q)
<1>3. v \in Seq(Text) /\ Words(line) = WordStep(v, e)
  BY <1>1, FilledAppend, WordsOf
<1>4. \A i \in 1 .. Len(v) : v[i] # <<>>
  BY WordsFilled
<1>5. CASE c \in Blanks
  <2>1. Append(q, e) \in Seq(Text)
    BY <1>1
  <2>2. Filled(Append(Append(q, e), <<>>)) = Filled(Append(q, e))
    BY <1>2, <2>1, FilledAppend DEF WordStep
  <2>3. Words(Append(line, c)) = Words(line)
    BY <1>1, <1>2, <1>5, <2>2, WordsOf
  <2>4. Grows(Words(line), Words(line))
    <3>1. Words(line) \in Seq(Text) /\ \A i \in 1 .. Len(Words(line)) : Words(line)[i] # <<>>
      BY WordsOf
    <3> QED
      BY <3>1 DEF Grows
  <2> QED
    BY <2>3, <2>4
<1>6. CASE c \notin Blanks
  <2> DEFINE f == Append(e, c)
  <2>1. Words(Append(line, c)) = WordStep(v, f)
    BY <1>1, <1>2, <1>6, FilledAppend, WordsOf
  <2>2. f # <<>> /\ f \in Text /\ (e # <<>> => f[1] = e[1])
    <3>1. e \in Seq(Symbols) /\ Len(e) \in Nat /\ (e # <<>> => Len(e) # 0)
      BY DEF Text
    <3>2. f \in Seq(Symbols) /\ f # <<>> /\ \A i \in 1 .. Len(e) : f[i] = e[i]
      BY <3>1, AppendProperties
    <3> QED
      BY <3>1, <3>2 DEF Text
  <2> HIDE DEF f, v
  <2>3. WordStep(v, f) = Append(v, f)
    BY <2>2 DEF WordStep
  <2>4. CASE e = <<>>
    <3>1. WordStep(v, e) = v
      BY <2>4 DEF WordStep
    <3>2. Grows(v, Append(v, f))
      BY <1>3, <1>4, <2>2 DEF Grows
    <3> QED
      BY <1>3, <1>6, <2>1, <2>3, <3>1, <3>2
  <2>5. CASE e # <<>>
    <3>1. WordStep(v, e) = Append(v, e)
      BY <2>5 DEF WordStep
    <3>2. Grows(Append(v, e), Append(v, f))
      BY <1>3, <1>4, <2>2, <2>5 DEF Grows
    <3> QED
      BY <1>3, <1>6, <2>1, <2>3, <3>1, <3>2
  <2> QED
    BY <2>4, <2>5
<1> QED
  BY <1>5, <1>6

(* The lines of a head b of which a is an earlier reading: the same, one    *)
(* more, or the last one with one symbol more ...                           *)
Later(a, b) ==
  \/ b = a
  \/ \E y \in Text : b = Append(a, y)
  \/ \E q \in Seq(Text), e \in Text, c \in Symbols :
       e # <<>> /\ a = Append(q, e) /\ b = Append(q, Append(e, c))

(* ... or those in front of the blank line whose end has not come yet.      *)
Ended(a, b) ==
  \E q \in Seq(Text), e \in Text :
    /\ "cr" \in Symbols
    /\ a = Append(Append(q, Append(e, "cr")), <<"cr">>)
    /\ b = IF e = <<>> THEN q ELSE Append(q, e)

LEMMA LinesOf ==
  ASSUME NEW s \in Text, NEW q \in Seq(Text), NEW e \in Text,
         Split(s, {"lf"}) = Append(q, e)
  PROVE  Lines(s) = IF e = <<>> THEN q ELSE Append(q, e)
<1>1. Last(Append(q, e)) = e /\ Front(Append(q, e)) = q
  BY LastReplaced
<1> QED
  BY <1>1 DEF Lines

LEMMA LinesAppend ==
  ASSUME NEW s \in Text, NEW c \in Symbols
  PROVE  /\ Lines(s) \in Seq(Text)
         /\ Later(Lines(s), Lines(Append(s, c)))
<1>1. PICK q \in Seq(Text), e \in Text : SplitsAs(s, {"lf"}, q, e)
  BY SplitLast
<1>2. Split(s, {"lf"}) = Append(q, e)
  BY <1>1 DEF SplitsAs
<1>3. Lines(s) = IF e = <<>> THEN q ELSE Append(q, e)
  BY <1>2, LinesOf
<1>4. Append(s, c) \in Text /\ Append(e, c) \in Text /\ Append(e, c) # <<>> /\ <<>> \in Text
  BY TextAppend DEF Text
<1>5. CASE c = "lf"
  <2> DEFINE p == Append(q, e)
             t == Append(s, c)
             none == <<>>
  <2>1. p \in Seq(Text) /\ t \in Text /\ none \in Text
    BY <1>4
  <2>2. Split(t, {"lf"}) = Append(p, none)
    BY <1>1, <1>5 DEF SplitsAs
  <2> HIDE DEF t, p, none
  <2>3. Lines(t) = IF none = <<>> THEN p ELSE Append(p, none)
    BY <2>1, <2>2, LinesOf
  <2>4. Lines(t) = Append(q, e)
    BY <2>3 DEF p, none
  <2> QED
    BY <1>3, <1>4, <2>4 DEF Later, t
<1>6. CASE c # "lf"
  <2> DEFINE f == Append(e, c)
             t == Append(s, c)
  <2>1. f \in Text /\ t \in Text /\ f # <<>>
    BY <1>4
  <2>2. Split(t, {"lf"}) = Append(q, f)
    BY <1>1, <1>6 DEF SplitsAs
  <2> HIDE DEF t, f
  <2>3. Lines(t) = Append(q, f)
    BY <2>1, <2>2, LinesOf
  <2>4. CASE e = <<>>
    BY <1>3, <2>1, <2>3, <2>4 DEF Later, t
  <2>5. CASE e # <<>>
    <3>1. Lines(s) = Append(q, e) /\ Lines(Append(s, c)) = Append(q, Append(e, c))
      BY <1>3, <2>3, <2>5 DEF t, f
    <3>2. Later(Lines(s), Lines(Append(s, c)))
      BY <2>5, <3>1 DEF Later
    <3> QED
      BY <3>1, <3>2
  <2> QED
    BY <2>4, <2>5
<1>7. Lines(s) \in Seq(Text)
  BY <1>3
<1> QED
  BY <1>5, <1>6, <1>7

LEMMA LinesEnded ==
  ASSUME NEW x \in Text, "cr" \in Symbols, "lf" \in Symbols
  PROVE  Ended(Lines(Append(Append(Append(x, "cr"), "lf"), "cr")), Lines(x))
<1>1. PICK q \in Seq(Text), e \in Text : SplitsAs(x, {"lf"}, q, e)
  BY SplitLast
<1>2. Lines(x) = IF e = <<>> THEN q ELSE Append(q, e)
  BY <1>1, LinesOf DEF SplitsAs
<1> DEFINE x1 == Append(x, "cr")
           x2 == Append(x1, "lf")
           x3 == Append(x2, "cr")
           e1 == Append(e, "cr")
           q1 == Append(q, e1)
           none == <<>>
           q2 == Append(q1, none)
           e3 == <<"cr">>
           q3 == Append(q1, e3)
<1>3. x1 \in Text /\ x2 \in Text /\ x3 \in Text /\ e1 \in Text /\ none \in Text /\ e3 \in Text
  BY DEF Text
<1>4. q1 \in Seq(Text) /\ e3 # <<>>
  BY <1>3
<1>5. Split(x1, {"lf"}) = q1
  BY <1>1 DEF SplitsAs
<1>6. Append(none, "cr") = e3
  OBVIOUS
<1>7. Split(x2, {"lf"}) = q2
  <2>1. PICK p \in Seq(Text), d \in Text : SplitsAs(x1, {"lf"}, p, d)
    BY <1>3, SplitLast
  <2>2. Append(p, d) = q1 /\ Split(x2, {"lf"}) = Append(Append(p, d), <<>>)
    BY <1>5, <2>1 DEF SplitsAs
  <2> QED
    BY <2>2
<1>8. Split(x3, {"lf"}) = q3
  <2>1. PICK p \in Seq(Text), d \in Text : SplitsAs(x2, {"lf"}, p, d)
    BY <1>3, SplitLast
  <2>2. Append(p, d) = q2 /\ Split(x3, {"lf"}) = Append(p, Append(d, "cr"))
    BY <1>7, <2>1 DEF SplitsAs
  <2> HIDE DEF q1, none
  <2>3. p = q1 /\ d = none
    BY <1>3, <1>4, <2>1, <2>2, AppendInjective
  <2> QED
    BY <2>2, <2>3, <1>6
<1> HIDE DEF x3, q1, e3
<1>9. Lines(x3) = Append(q1, e3)
  BY <1>3, <1>4, <1>8, LinesOf
<1> QED
  BY <1>2, <1>9 DEF Ended, x3, q1, e3

-------------------------------------------------------------------------------
(* The names of the headers *)

Begins(a, b) == Len(a) <= Len(b) /\ \A i \in 1 .. Len(a) : a[i] = b[i]

Names(h) == DOMAIN h.headers

(* A line that goes on has the name that its beginning has.                 *)
LEMMA NameKept ==
  ASSUME NEW h \in HeaderReads, NEW a \in Text, NEW b \in Text, Begins(a, b)
  PROVE  Names(AddHeader(h, a)) \subseteq Names(AddHeader(h, b))
<1>1. Len(a) \in Nat /\ Len(b) \in Nat /\ DOMAIN a = 1 .. Len(a) /\ DOMAIN b = 1 .. Len(b)
      /\ Len(a) <= Len(b) /\ \A i \in 1 .. Len(a) : a[i] = b[i]
  BY DEF Text, Begins
<1>2. CASE h.open /\ a # <<>> /\ Colons(a) # {}
  <2>1. /\ Min(Colons(a)) \in Colons(a) /\ Min(Colons(a)) \in 1 .. Len(a)
        /\ \A i \in Colons(a) : Min(Colons(a)) <= i
    BY <1>2, FirstColon
  <2>2. Min(Colons(a)) \in Colons(b)
    BY <1>1, <2>1 DEF Colons
  <2>3. /\ Min(Colons(b)) \in Colons(b) /\ Min(Colons(b)) \in 1 .. Len(b)
        /\ Min(Colons(b)) <= Min(Colons(a))
    BY <2>2, FirstColon
  <2>4. Min(Colons(b)) \in Colons(a)
    BY <1>1, <2>1, <2>3 DEF Colons
  <2>5. Min(Colons(a)) = Min(Colons(b))
    BY <2>1, <2>3, <2>4
  <2> DEFINE at == Min(Colons(a))
             n == SubSeq(a, 1, at - 1)
             m == SubSeq(b, 1, at - 1)
  <2>6. at \in 1 .. Len(a)
    BY <2>1
  <2> HIDE DEF at
  <2>7. n = m
    <3>1. at - 1 \in Nat /\ at - 1 <= Len(a) /\ at - 1 <= Len(b)
      BY <1>1, <2>6
    <3>2. /\ n \in Seq(Symbols) /\ Len(n) = at - 1
          /\ \A i \in 1 .. at - 1 : n[i] = a[i]
      BY <1>1, <3>1, SubSeqProperties DEF Text
    <3>3. /\ m \in Seq(Symbols) /\ Len(m) = at - 1
          /\ \A i \in 1 .. at - 1 : m[i] = b[i]
      BY <1>1, <3>1, SubSeqProperties DEF Text
    <3>4. \A i \in 1 .. at - 1 : n[i] = m[i]
      BY <1>1, <3>1, <3>2, <3>3
    <3> HIDE DEF n, m
    <3> QED
      BY <3>1, <3>2, <3>3, <3>4, SeqEqual
  <2>8. NameOf(a) = NameOf(b)
    BY <2>5, <2>7 DEF NameOf, at
  <2>9. b # <<>> /\ Colons(b) # {}
    BY <1>1, <2>2, <2>6
  <2> QED
    BY <1>2, <2>8, <2>9, AddHeaderNames DEF Names
<1>3. CASE ~(h.open /\ a # <<>> /\ Colons(a) # {})
  <2>1. Names(AddHeader(h, a)) = Names(h)
    BY <1>3, AddHeaderNames DEF Names
  <2>2. Names(h) \subseteq Names(AddHeader(h, b))
    BY AddHeaderNames DEF Names
  <2> QED
    BY <2>1, <2>2
<1> QED
  BY <1>2, <1>3

(* What the CR at the end of a line does to it. *)
LEMMA StrippedOf ==
  ASSUME NEW e \in Text
  PROVE  /\ Stripped(e) \in Text /\ Begins(Stripped(e), e)
         /\ "cr" \in Symbols => Stripped(Append(e, "cr")) = e
         /\ \A c \in Symbols : c # "cr" => Stripped(Append(e, c)) = Append(e, c)
         /\ \A i \in 1 .. Len(e) : e[i] # "cr" => i <= Len(Stripped(e))
<1>1. e \in Seq(Symbols)
  BY DEF Text
<1>2. ASSUME NEW c \in Symbols
      PROVE Stripped(Append(e, c)) = IF c = "cr" THEN e ELSE Append(e, c)
  <2>1. Last(Append(e, c)) = c /\ Front(Append(e, c)) = e
    BY <1>1, LastReplaced
  <2>2. Append(e, c) # <<>>
    BY TextAppend
  <2> QED
    BY <2>1, <2>2 DEF Stripped
<1>3. CASE e = <<>>
  <2>1. Stripped(e) = e
    BY <1>3 DEF Stripped
  <2> QED
    BY <1>1, <1>2, <2>1 DEF Begins
<1>4. CASE e # <<>>
  <2>1. PICK f \in Seq(Symbols), c \in Symbols : e = Append(f, c)
    BY <1>1, <1>4, SequenceEmptyOrAppend
  <2>2. Last(e) = c /\ Front(e) = f
    BY <2>1, LastReplaced
  <2>3. Stripped(e) = IF c = "cr" THEN f ELSE e
    BY <1>4, <2>2 DEF Stripped
  <2>4. /\ Len(f) \in Nat /\ Len(e) = Len(f) + 1 /\ e[Len(f) + 1] = c
        /\ \A i \in 1 .. Len(f) : e[i] = f[i]
    BY <2>1, AppendProperties
  <2>5. Stripped(e) \in Text /\ Begins(Stripped(e), e)
    BY <1>1, <2>1, <2>3, <2>4 DEF Begins, Text
  <2>6. ASSUME NEW i \in 1 .. Len(e), e[i] # "cr" PROVE i <= Len(Stripped(e))
    BY <2>3, <2>4, <2>6
  <2> QED
    BY <1>2, <2>5, <2>6
<1> QED
  BY <1>3, <1>4

(* A CR is not part of a name. *)
LEMMA NameStripped ==
  ASSUME NEW h \in HeaderReads, NEW e \in Text, e # <<>>
  PROVE  Names(AddHeader(h, e)) \subseteq Names(AddHeader(h, Stripped(e)))
<1> DEFINE b == Stripped(e)
<1>1. b \in Text /\ Begins(b, e) /\ \A i \in 1 .. Len(e) : e[i] # "cr" => i <= Len(b)
  BY StrippedOf
<1> HIDE DEF b
<1>2. /\ Len(e) \in Nat /\ Len(b) \in Nat /\ DOMAIN e = 1 .. Len(e) /\ DOMAIN b = 1 .. Len(b)
      /\ Len(b) <= Len(e) /\ \A i \in 1 .. Len(b) : b[i] = e[i]
  BY <1>1 DEF Text, Begins
<1>3. Colons(b) = Colons(e)
  BY <1>1, <1>2 DEF Colons
<1>4. CASE Colons(e) = {}
  BY <1>1, <1>4, AddHeaderNames DEF Names, b
<1>5. CASE Colons(e) # {}
  <2> DEFINE at == Min(Colons(e))
             n == SubSeq(e, 1, at - 1)
             m == SubSeq(b, 1, at - 1)
  <2>1. at \in 1 .. Len(b) /\ at <= Len(e)
    BY <1>1, <1>2, <1>3, <1>5, FirstColon
  <2> HIDE DEF at
  <2>2. at - 1 \in Nat /\ at - 1 <= Len(b) /\ at - 1 <= Len(e) /\ b # <<>>
    BY <1>2, <2>1
  <2>3. /\ n \in Seq(Symbols) /\ Len(n) = at - 1
        /\ \A i \in 1 .. at - 1 : n[i] = e[i]
    BY <1>2, <2>2, SubSeqProperties DEF Text
  <2>4. /\ m \in Seq(Symbols) /\ Len(m) = at - 1
        /\ \A i \in 1 .. at - 1 : m[i] = b[i]
    BY <1>1, <1>2, <2>2, SubSeqProperties DEF Text
  <2>5. \A i \in 1 .. at - 1 : n[i] = m[i]
    BY <1>2, <2>2, <2>3, <2>4
  <2>6. n = m
    <3> HIDE DEF n, m
    <3> QED
      BY <2>2, <2>3, <2>4, <2>5, SeqEqual
  <2>7. NameOf(e) = NameOf(b)
    BY <1>3, <2>6 DEF NameOf, at
  <2> QED
    BY <1>1, <1>3, <1>5, <2>2, <2>7, AddHeaderNames DEF Names, b
<1> QED
  BY <1>4, <1>5

-------------------------------------------------------------------------------
(* The lines of a head *)

(* They are those of a request. *)
Reads(lines) ==
  /\ lines # <<>>
  /\ Len(Words(lines[1])) >= 3
  /\ Words(lines[1])[3][1] = "HTTP/"

(* What the lines a say is what the lines b say. *)
KeptLines(a, b) ==
  /\ Reads(b)
  /\ Words(a[1])[1] = Words(b[1])[1] /\ Words(a[1])[2] = Words(b[1])[2]
  /\ DOMAIN Headers(Tail(a)) \subseteq DOMAIN Headers(Tail(b))

LEMMA FirstLineKept ==
  ASSUME NEW v \in Seq(Text), NEW w \in Seq(Text), Grows(v, w), Len(v) >= 3, v[3][1] = "HTTP/"
  PROVE  Len(w) >= 3 /\ w[3][1] = "HTTP/" /\ v[1] = w[1] /\ v[2] = w[2]
<1>1. Len(v) \in Nat /\ Len(w) \in Nat /\ Len(v) <= Len(w)
  BY DEF Grows
<1>2. 1 \in 1 .. Len(v) /\ 2 \in 1 .. Len(v) /\ 3 \in 1 .. Len(v) /\ 1 < Len(v) /\ 2 < Len(v)
  BY <1>1
<1> QED
  BY <1>1, <1>2 DEF Grows

LEMMA HeadersAppend ==
  ASSUME NEW q \in Seq(Text), NEW e \in Text
  PROVE  /\ HeaderState(q) \in HeaderReads
         /\ DOMAIN Headers(q) = Names(HeaderState(q))
         /\ DOMAIN Headers(Append(q, e)) = Names(AddHeader(HeaderState(q), Stripped(e)))
<1>1. \A l : Headers(l) = HeaderState(l).headers
  BY DEF Headers, HeaderState
<1> QED
  BY <1>1, HeaderStateAppend DEF Names

LEMMA TailAppend ==
  ASSUME NEW q \in Seq(Text), NEW e \in Text
  PROVE  /\ q # <<>> => Tail(q) \in Seq(Text) /\ Append(q, e)[1] = q[1]
         /\ Append(q, e) # <<>>
         /\ Tail(Append(q, e)) = IF q = <<>> THEN <<>> ELSE Append(Tail(q), e)
         /\ q = <<>> => Append(q, e)[1] = e
<1>1. Tail(Append(q, e)) = IF q = <<>> THEN <<>> ELSE Append(Tail(q), e)
  BY HeadTailAppend
<1>2. q # <<>> => 1 \in 1 .. Len(q)
  OBVIOUS
<1>3. q = <<>> => Len(q) = 0
  OBVIOUS
<1> QED
  BY <1>1, <1>2, <1>3, AppendProperties

LEMMA LaterKept ==
  ASSUME NEW a \in Seq(Text), NEW b \in Seq(Text), Later(a, b), Reads(a)
  PROVE  KeptLines(a, b)
<1>1. CASE b = a
  BY <1>1 DEF KeptLines
<1>2. CASE \E y \in Text : b = Append(a, y)
  <2>1. PICK y \in Text : b = Append(a, y)
    BY <1>2
  <2>2. a # <<>>
    BY DEF Reads
  <2>3. b # <<>> /\ b[1] = a[1] /\ Tail(a) \in Seq(Text) /\ Tail(b) = Append(Tail(a), y)
    BY <2>1, <2>2, TailAppend
  <2>4. DOMAIN Headers(Tail(a)) = Names(HeaderState(Tail(a)))
        /\ HeaderState(Tail(a)) \in HeaderReads
    BY <2>3, HeadersAppend
  <2>5. DOMAIN Headers(Tail(b)) = Names(AddHeader(HeaderState(Tail(a)), Stripped(y)))
    BY <2>3, HeadersAppend
  <2>6. Names(HeaderState(Tail(a))) \subseteq Names(AddHeader(HeaderState(Tail(a)), Stripped(y)))
    BY <2>4, AddHeaderNames, StrippedTyped DEF Names
  <2> QED
    BY <2>3, <2>4, <2>5, <2>6 DEF KeptLines, Reads
<1>3. CASE \E q \in Seq(Text), e \in Text, c \in Symbols :
             e # <<>> /\ a = Append(q, e) /\ b = Append(q, Append(e, c))
  <2>1. PICK q \in Seq(Text), e \in Text, c \in Symbols :
               e # <<>> /\ a = Append(q, e) /\ b = Append(q, Append(e, c))
    BY <1>3
  <2> DEFINE f == Append(e, c)
  <2>2. f \in Text /\ f # <<>> /\ b = Append(q, f)
    BY <2>1, TextAppend
  <2>3. Begins(Stripped(e), Stripped(f))
    <3>1. Stripped(f) = e \/ Stripped(f) = f
      BY StrippedOf
    <3>2. Begins(Stripped(e), e) /\ Begins(e, f)
      BY StrippedOf, TextAppend DEF Begins
    <3>3. Begins(Stripped(e), f)
      <4>1. Stripped(e) \in Text /\ \A t \in Text : Len(t) \in Nat
        BY StrippedTyped DEF Text
      <4> HIDE DEF f
      <4> QED
        BY <2>2, <3>2, <4>1 DEF Begins
    <3> QED
      BY <3>1, <3>2, <3>3
  <2>4. Grows(Words(e), Words(f))
    BY WordsAppend
  <2> HIDE DEF f
  <2>5. b # <<>>
    BY <2>2, TailAppend
  <2>6. CASE q = <<>>
    <3>1. a[1] = e /\ b[1] = f /\ Tail(a) = <<>> /\ Tail(b) = <<>>
      BY <2>1, <2>2, <2>6, TailAppend
    <3>2. Words(e) \in Seq(Text) /\ Words(f) \in Seq(Text)
      BY <2>2, WordsOf
    <3>3. Len(Words(e)) >= 3 /\ Words(e)[3][1] = "HTTP/"
      BY <3>1 DEF Reads
    <3>4. /\ Len(Words(f)) >= 3 /\ Words(f)[3][1] = "HTTP/"
          /\ Words(e)[1] = Words(f)[1] /\ Words(e)[2] = Words(f)[2]
      BY <2>4, <3>2, <3>3, FirstLineKept
    <3> QED
      BY <2>5, <3>1, <3>4 DEF KeptLines, Reads
  <2>7. CASE q # <<>>
    <3>1. /\ a[1] = q[1] /\ b[1] = q[1] /\ Tail(q) \in Seq(Text)
          /\ Tail(a) = Append(Tail(q), e) /\ Tail(b) = Append(Tail(q), f)
      BY <2>1, <2>2, <2>7, TailAppend
    <3> DEFINE h == HeaderState(Tail(q))
    <3>2. /\ h \in HeaderReads
          /\ DOMAIN Headers(Tail(a)) = Names(AddHeader(h, Stripped(e)))
          /\ DOMAIN Headers(Tail(b)) = Names(AddHeader(h, Stripped(f)))
      BY <2>2, <3>1, HeadersAppend
    <3> HIDE DEF h
    <3>3. Stripped(e) \in Text /\ Stripped(f) \in Text
      BY <2>2, StrippedTyped
    <3>4. Names(AddHeader(h, Stripped(e))) \subseteq Names(AddHeader(h, Stripped(f)))
      BY <2>3, <3>2, <3>3, NameKept
    <3> QED
      BY <2>5, <3>1, <3>2, <3>4 DEF KeptLines, Reads
  <2> QED
    BY <2>6, <2>7
<1> QED
  BY <1>1, <1>2, <1>3 DEF Later

LEMMA NoWords == Words(<<>>) = <<>>
<1>1. <<>> \in Text /\ <<>> \in Seq(Text) /\ <<<<>>>> = Append(<<>>, <<>>)
  BY DEF Text
<1>2. Split(<<>>, Blanks) = Append(<<>>, <<>>)
  BY <1>1, SplitEmpty
<1>3. Filled(Append(<<>>, <<>>)) = WordStep(Filled(<<>>), <<>>)
  BY <1>1, FilledAppend
<1> QED
  BY <1>1, <1>2, <1>3, FilledEmpty, WordsOf DEF WordStep

LEMMA EndedKept ==
  ASSUME NEW a \in Seq(Text), NEW b \in Seq(Text), Ended(a, b), Reads(a)
  PROVE  KeptLines(a, b)
<1>1. PICK q \in Seq(Text), e \in Text :
        /\ "cr" \in Symbols
        /\ a = Append(Append(q, Append(e, "cr")), <<"cr">>)
        /\ b = IF e = <<>> THEN q ELSE Append(q, e)
  BY DEF Ended
<1> DEFINE f == Append(e, "cr")
           p == Append(q, f)
           blank == <<"cr">>
           none == <<>>
<1>2. f \in Text /\ p \in Seq(Text) /\ blank \in Text /\ none \in Text /\ a = Append(p, blank)
  BY <1>1, TextAppend DEF Text
<1>3. Stripped(f) = e
  BY <1>1, StrippedOf
<1>4. Stripped(blank) = none
  <2>1. blank = Append(none, "cr")
    OBVIOUS
  <2> HIDE DEF blank, none
  <2> QED
    BY <1>1, <1>2, <2>1, StrippedOf
<1>5. Words(f) = Words(e)
  BY <1>1, WordsAppend DEF Blanks
<1> HIDE DEF f, blank
<1>6. p # <<>>
  BY <1>2, TailAppend
<1>7. a[1] = p[1] /\ Tail(a) = Append(Tail(p), blank) /\ Tail(p) \in Seq(Text)
  <2> HIDE DEF p
  <2> QED
    BY <1>2, <1>6, TailAppend
<1>8. DOMAIN Headers(Tail(a)) = Names(HeaderState(Tail(p)))
  <2> DEFINE h == HeaderState(Tail(p))
  <2>1. h \in HeaderReads /\ DOMAIN Headers(Tail(a)) = Names(AddHeader(h, none))
    BY <1>2, <1>4, <1>7, HeadersAppend
  <2> HIDE DEF h
  <2>2. Names(AddHeader(h, none)) = Names(h)
    BY <1>2, <2>1, AddHeaderNames DEF Names
  <2> QED
    BY <2>1, <2>2 DEF h
<1>9. CASE q = <<>>
  <2>1. p[1] = f /\ Tail(p) = <<>>
    BY <1>2, <1>9, TailAppend
  <2>2. Len(Words(e)) >= 3 /\ Words(e)[3][1] = "HTTP/"
    BY <1>5, <1>7, <2>1 DEF Reads
  <2>3. e # <<>>
    <3>1. e = <<>> => Len(Words(e)) = 0
      BY NoWords
    <3> QED
      BY <2>2, <3>1
  <2>4. b = Append(q, e) /\ b # <<>> /\ b[1] = e /\ Tail(b) = <<>>
    BY <1>1, <1>9, <2>3, TailAppend
  <2>5. DOMAIN Headers(<<>>) = Names(HeaderState(<<>>))
    BY DEF Headers, HeaderState, Names
  <2> QED
    BY <1>5, <1>7, <1>8, <2>1, <2>2, <2>4, <2>5 DEF KeptLines, Reads
<1>10. CASE q # <<>>
  <2>1. p[1] = q[1] /\ Tail(p) = Append(Tail(q), f) /\ Tail(q) \in Seq(Text)
    BY <1>2, <1>10, TailAppend
  <2> DEFINE h == HeaderState(Tail(q))
  <2>2. /\ h \in HeaderReads /\ DOMAIN Headers(Tail(q)) = Names(h)
        /\ DOMAIN Headers(Tail(p)) = Names(AddHeader(h, e))
        /\ DOMAIN Headers(Append(Tail(q), e)) = Names(AddHeader(h, Stripped(e)))
    BY <1>2, <1>3, <2>1, HeadersAppend
  <2>3. DOMAIN Headers(Tail(p)) = Names(HeaderState(Tail(p)))
    BY <1>2, <1>7, HeadersAppend
  <2> HIDE DEF h, p
  <2>4. CASE e = <<>>
    <3>1. b = q
      BY <1>1, <2>4
    <3>2. Names(AddHeader(h, e)) = Names(h)
      BY <2>2, <2>4, AddHeaderNames DEF Names
    <3> QED
      BY <1>7, <1>8, <1>10, <2>1, <2>2, <2>3, <3>1, <3>2 DEF KeptLines, Reads
  <2>5. CASE e # <<>>
    <3>1. b # <<>> /\ b[1] = q[1] /\ Tail(b) = Append(Tail(q), e)
      BY <1>1, <1>10, <2>5, TailAppend
    <3>2. Names(AddHeader(h, e)) \subseteq Names(AddHeader(h, Stripped(e)))
      BY <2>2, <2>5, NameStripped
    <3> QED
      BY <1>7, <1>8, <2>1, <2>2, <2>3, <3>1, <3>2 DEF KeptLines, Reads
  <2> QED
    BY <2>4, <2>5
<1> QED
  BY <1>9, <1>10

-------------------------------------------------------------------------------
(* The end of the head *)

LEMMA SubSeqElements ==
  ASSUME NEW s \in Text, NEW m \in Nat \ {0}, NEW n \in Nat, n <= Len(s), m <= n + 1
  PROVE  /\ SubSeq(s, m, n) \in Text
         /\ Len(SubSeq(s, m, n)) = n - m + 1
         /\ \A i \in 1 .. n - m + 1 : SubSeq(s, m, n)[i] = s[m + i - 1]
BY SubSeqProperties DEF Text

EndsAt(s, i) == s[i] = "cr" /\ s[i + 1] = "lf" /\ s[i + 2] = "cr" /\ s[i + 3] = "lf"

LEMMA HeadEndsAt ==
  ASSUME NEW s \in Text
  PROVE  HeadEnds(s) = {i \in 1 .. Len(s) - 3 : EndsAt(s, i)}
<1> DEFINE mark == <<"cr", "lf", "cr", "lf">>
<1>1. ASSUME NEW i \in 1 .. Len(s) - 3 PROVE SubSeq(s, i, i + 3) = mark <=> EndsAt(s, i)
  <2> DEFINE t == SubSeq(s, i, i + 3)
  <2>1. Len(s) \in Nat /\ s \in Seq(Symbols)
    BY DEF Text
  <2>2. t \in Seq(Symbols) /\ Len(t) = 4
    BY <2>1, SubSeqProperties
  <2>3. t[1] = s[i] /\ t[2] = s[i + 1] /\ t[3] = s[i + 2] /\ t[4] = s[i + 3]
    <3>1. i \in Int /\ i + 3 \in Int /\ \A j \in i .. i + 3 : s[j] \in Symbols
      BY <2>1
    <3>2. \A j \in 1 .. (i + 3) - i + 1 : t[j] = s[i + j - 1]
      BY <3>1, SubSeqProperties
    <3> HIDE DEF t
    <3>3. \A j \in 1 .. 4 : t[j] = s[i + j - 1]
      BY <3>2
    <3>4. t[1] = s[i + 1 - 1] /\ t[2] = s[i + 2 - 1] /\ t[3] = s[i + 3 - 1] /\ t[4] = s[i + 4 - 1]
      BY <3>3
    <3> QED
      BY <3>4
  <2> HIDE DEF t
  <2>4. t = mark <=> t[1] = "cr" /\ t[2] = "lf" /\ t[3] = "cr" /\ t[4] = "lf"
    <3>1. t = <<t[1], t[2], t[3], t[4]>>
      BY <2>2
    <3> QED
      BY <3>1
  <2> QED
    BY <2>3, <2>4 DEF EndsAt, t
<1> HIDE DEF mark
<1>2. HeadEnds(s) = {i \in 1 .. Len(s) - 3 : SubSeq(s, i, i + 3) = mark}
  BY DEF HeadEnds, mark
<1> QED
  BY <1>1, <1>2

(* One more symbol after the head changes the body only; before its end it  *)
(* is one more symbol of the head, or it ends the head.                     *)
Goes(s, t) ==
  \/ HeadOf(t) = HeadOf(s)
  \/ HeadOf(s) = s /\ HeadOf(t) = t
  \/ /\ "cr" \in Symbols /\ "lf" \in Symbols
     /\ HeadOf(s) = Append(Append(Append(HeadOf(t), "cr"), "lf"), "cr")

LEMMA HeadGoes ==
  ASSUME NEW s \in Text, NEW c \in Symbols
  PROVE  /\ HeadOf(s) \in Text /\ BodyOf(s) \in Text
         /\ Goes(s, Append(s, c))
         /\ Begins(BodyOf(s), BodyOf(Append(s, c)))
<1> DEFINE t == Append(s, c)
           n == Len(s)
<1>1. /\ n \in Nat /\ t \in Text /\ Len(t) = n + 1 /\ t[n + 1] = c
      /\ \A i \in 1 .. n : t[i] = s[i]
  BY TextAppend
<1>2. \A r \in Text : HeadEnds(r) = {i \in 1 .. Len(r) - 3 : EndsAt(r, i)}
  BY HeadEndsAt
<1>3. ASSUME NEW r \in Text, HeadEnds(r) # {}
      PROVE  /\ Min(HeadEnds(r)) \in HeadEnds(r) /\ Min(HeadEnds(r)) \in 1 .. Len(r) - 3
             /\ \A i \in HeadEnds(r) : Min(HeadEnds(r)) <= i
  <2>1. HeadEnds(r) \subseteq 1 .. Len(r) - 3
    BY <1>2
  <2>2. HeadEnds(r) \in SUBSET Nat
    BY <2>1
  <2>3. \E m \in HeadEnds(r) : \A i \in HeadEnds(r) : m <= i
    BY <1>3, <2>2, NatMinimum
  <2> QED
    BY <2>1, <2>3 DEF Min
<1>4. <<>> \in Text
  BY DEF Text
<1> HIDE DEF t, n
<1>5. \A i \in 1 .. n - 3 : EndsAt(s, i) <=> EndsAt(t, i)
  BY <1>1 DEF EndsAt
<1>6. CASE HeadEnds(s) # {}
  <2> DEFINE m == Min(HeadEnds(s))
  <2>1. m \in HeadEnds(s) /\ m \in 1 .. n - 3 /\ \A i \in HeadEnds(s) : m <= i
    BY <1>3, <1>6 DEF n
  <2>2. m \in HeadEnds(t) /\ HeadEnds(t) # {}
    BY <1>1, <1>2, <1>5, <2>1 DEF n
  <2>3. /\ Min(HeadEnds(t)) \in HeadEnds(t) /\ Min(HeadEnds(t)) <= m
        /\ Min(HeadEnds(t)) \in 1 .. Len(t) - 3
    BY <1>1, <1>3, <2>2
  <2>4. Min(HeadEnds(t)) \in HeadEnds(s)
    <3>1. Min(HeadEnds(t)) \in 1 .. n - 3 /\ EndsAt(t, Min(HeadEnds(t)))
      BY <1>1, <1>2, <2>1, <2>3
    <3> QED
      BY <1>2, <1>5, <3>1 DEF n
  <2>5. Min(HeadEnds(t)) = m
    BY <1>1, <2>1, <2>3, <2>4
  <2>6. HeadOf(s) = SubSeq(s, 1, m - 1) /\ HeadOf(t) = SubSeq(t, 1, m - 1)
    BY <1>6, <2>2, <2>5 DEF HeadOf
  <2>7. BodyOf(s) = SubSeq(s, m + 4, n) /\ BodyOf(t) = SubSeq(t, m + 4, n + 1)
    BY <1>1, <1>6, <2>2, <2>5 DEF BodyOf, n
  <2> DEFINE x == SubSeq(s, 1, m - 1)
             y == SubSeq(t, 1, m - 1)
             u == SubSeq(s, m + 4, n)
             v == SubSeq(t, m + 4, n + 1)
  <2> HIDE DEF m
  <2>8. /\ m - 1 \in Nat /\ m - 1 <= n /\ m - 1 <= n + 1 /\ m + 4 \in Nat \ {0}
        /\ m + 4 <= n + 1 /\ m + 4 <= n + 2 /\ n + 1 \in Nat /\ 1 <= (m - 1) + 1
        /\ n <= n /\ 1 \in Nat \ {0}
    BY <1>1, <2>1
  <2>9. /\ x \in Text /\ Len(x) = (m - 1) - 1 + 1
        /\ \A i \in 1 .. (m - 1) - 1 + 1 : x[i] = s[1 + i - 1]
    BY <2>8, SubSeqElements DEF n
  <2>10. /\ y \in Text /\ Len(y) = (m - 1) - 1 + 1
         /\ \A i \in 1 .. (m - 1) - 1 + 1 : y[i] = t[1 + i - 1]
    BY <1>1, <2>8, SubSeqElements
  <2>11. /\ u \in Text /\ Len(u) = n - (m + 4) + 1
         /\ \A i \in 1 .. n - (m + 4) + 1 : u[i] = s[(m + 4) + i - 1]
    BY <2>8, SubSeqElements DEF n
  <2>12. /\ v \in Text /\ Len(v) = (n + 1) - (m + 4) + 1
         /\ \A i \in 1 .. (n + 1) - (m + 4) + 1 : v[i] = t[(m + 4) + i - 1]
    <3> DEFINE f == m + 4
               l == n + 1
    <3>1. t \in Text /\ f \in Nat \ {0} /\ l \in Nat /\ f <= l + 1 /\ l <= Len(t)
      BY <1>1, <2>8
    <3> HIDE DEF f, l
    <3>2. /\ SubSeq(t, f, l) \in Text /\ Len(SubSeq(t, f, l)) = l - f + 1
          /\ \A i \in 1 .. l - f + 1 : SubSeq(t, f, l)[i] = t[f + i - 1]
      BY <3>1, SubSeqElements
    <3> QED
      BY <3>2 DEF f, l
  <2> HIDE DEF x, y, u, v
  <2>13. x = y
    <3>1. ASSUME NEW i \in 1 .. m - 1 PROVE x[i] = y[i]
      <4>1. i \in 1 .. (m - 1) - 1 + 1 /\ 1 + i - 1 = i /\ i \in 1 .. n
        BY <1>1, <2>8
      <4>2. x[i] = s[i] /\ y[i] = t[i]
        BY <2>9, <2>10, <4>1
      <4> QED
        BY <1>1, <4>1, <4>2
    <3>2. Len(x) = m - 1 /\ Len(y) = m - 1
      BY <2>8, <2>9, <2>10
    <3> QED
      BY <2>9, <2>10, <3>1, <3>2, SeqEqual DEF Text
  <2>14. Begins(u, v)
    <3>1. m \in Nat
      BY <2>1
    <3>2. Len(u) <= Len(v)
      BY <1>1, <2>8, <2>11, <2>12, <3>1
    <3>3. ASSUME NEW i \in 1 .. Len(u) PROVE u[i] = v[i]
      <4>1. /\ i \in 1 .. n - (m + 4) + 1 /\ i \in 1 .. (n + 1) - (m + 4) + 1
            /\ (m + 4) + i - 1 \in 1 .. n
        BY <1>1, <2>8, <2>11, <3>1
      <4> QED
        BY <1>1, <2>11, <2>12, <4>1
    <3> QED
      BY <3>2, <3>3 DEF Begins
  <2> QED
    BY <2>6, <2>7, <2>9, <2>11, <2>13, <2>14 DEF Goes, x, y, u, v, t
<1>7. CASE HeadEnds(s) = {} /\ HeadEnds(t) = {}
  BY <1>4, <1>7 DEF HeadOf, BodyOf, Goes, Begins, t
<1>8. CASE HeadEnds(s) = {} /\ HeadEnds(t) # {}
  <2> DEFINE m == Min(HeadEnds(t))
             x == SubSeq(t, 1, m - 1)
  <2>1. m \in HeadEnds(t) /\ m \in 1 .. n - 2
    BY <1>1, <1>3, <1>8
  <2>2. m \notin 1 .. n - 3
    BY <1>1, <1>2, <1>5, <1>8, <2>1 DEF n
  <2>3. HeadOf(t) = x /\ BodyOf(t) = SubSeq(t, m + 4, n + 1)
    BY <1>1, <1>8 DEF HeadOf, BodyOf
  <2>4. HeadOf(s) = s /\ BodyOf(s) = <<>>
    BY <1>8 DEF HeadOf, BodyOf
  <2> HIDE DEF m
  <2>5. m = n - 2 /\ EndsAt(t, m)
    BY <1>1, <1>2, <2>1, <2>2
  <2>6. s[m] = "cr" /\ s[m + 1] = "lf" /\ s[m + 2] = "cr" /\ m + 2 = n
    BY <1>1, <2>1, <2>5 DEF EndsAt
  <2>7. "cr" \in Symbols /\ "lf" \in Symbols
    <3>1. m \in 1 .. Len(s) /\ m + 1 \in 1 .. Len(s)
      BY <1>1, <2>1, <2>5 DEF n
    <3> QED
      BY <2>6, <3>1 DEF Text
  <2>8. m - 1 \in Nat /\ m - 1 <= n + 1 /\ 1 <= (m - 1) + 1 /\ 1 \in Nat \ {0}
    BY <1>1, <2>1
  <2>9. /\ x \in Text /\ Len(x) = (m - 1) - 1 + 1
        /\ \A i \in 1 .. (m - 1) - 1 + 1 : x[i] = t[1 + i - 1]
    BY <1>1, <2>8, SubSeqElements
  <2>10. BodyOf(t) = <<>> /\ BodyOf(t) \in Text
    <3>1. m + 4 > n + 1 /\ m + 4 \in Int /\ n + 1 \in Int
      BY <1>1, <2>1, <2>5
    <3>2. SubSeq(t, m + 4, n + 1) = <<>>
      BY <1>1, <3>1, SubSeqEmpty DEF Text
    <3> QED
      BY <1>4, <2>3, <3>2
  <2> HIDE DEF x
  <2> DEFINE x1 == Append(x, "cr")
             x2 == Append(x1, "lf")
             x3 == Append(x2, "cr")
  <2>16. Len(x) = m - 1 /\ (m - 1) + 1 = m /\ (m + 1) + 1 = m + 2 /\ m \in Nat
    BY <2>1, <2>8, <2>9
  <2>11. x1 \in Text /\ Len(x1) = m /\ x1[m] = "cr" /\ \A i \in 1 .. m - 1 : x1[i] = x[i]
    BY <2>7, <2>9, <2>16, TextAppend
  <2> HIDE DEF x1
  <2>12. x2 \in Text /\ Len(x2) = m + 1 /\ x2[m + 1] = "lf" /\ \A i \in 1 .. m : x2[i] = x1[i]
    BY <2>7, <2>11, TextAppend
  <2> HIDE DEF x2
  <2>13. x3 \in Text /\ Len(x3) = m + 2 /\ x3[m + 2] = "cr" /\ \A i \in 1 .. m + 1 : x3[i] = x2[i]
    <3>1. /\ x3 \in Text /\ Len(x3) = Len(x2) + 1 /\ x3[Len(x2) + 1] = "cr"
          /\ \A i \in 1 .. Len(x2) : x3[i] = x2[i]
      BY <2>7, <2>12, TextAppend
    <3> HIDE DEF x3
    <3> QED
      BY <2>12, <2>16, <3>1
  <2> HIDE DEF x3
  <2>14. ASSUME NEW i \in 1 .. n PROVE s[i] = x3[i]
    <3>1. i \in 1 .. m - 1 \/ i = m \/ i = m + 1 \/ i = m + 2
      BY <1>1, <2>1, <2>5
    <3>2. m \in 1 .. m /\ m \in 1 .. m + 1 /\ m + 1 \in 1 .. m + 1
      BY <2>1
    <3>3. CASE i \in 1 .. m - 1
      <4>1. /\ i \in 1 .. m /\ i \in 1 .. m + 1 /\ i \in 1 .. n
            /\ i \in 1 .. (m - 1) - 1 + 1 /\ 1 + i - 1 = i
        BY <2>1, <3>3
      <4> QED
        BY <1>1, <2>9, <2>11, <2>12, <2>13, <3>3, <4>1
    <3> QED
      BY <2>6, <2>11, <2>12, <2>13, <3>1, <3>2, <3>3
  <2>15. s = x3
    BY <1>1, <2>5, <2>6, <2>13, <2>14, SeqEqual DEF Text, n
  <2> QED
    <3>1. Goes(s, t)
      BY <2>3, <2>4, <2>7, <2>15 DEF Goes, x1, x2, x3
    <3>2. Begins(BodyOf(s), BodyOf(t))
      BY <2>4, <2>10 DEF Begins
    <3>3. HeadOf(s) \in Text /\ BodyOf(s) \in Text
      BY <1>4, <2>4
    <3> QED
      BY <3>1, <3>2, <3>3 DEF t
<1> QED
  BY <1>6, <1>7, <1>8

-------------------------------------------------------------------------------
(* The request that a piece is parsed to *)

LinesIn(s) == Lines(HeadOf(s))

LEMMA ParsedAs ==
  ASSUME NEW s \in Text
  PROVE  /\ LinesIn(s) \in Seq(Text)
         /\ ParseRequest(s) # Malformed <=> Reads(LinesIn(s))
         /\ Reads(LinesIn(s)) =>
              /\ ParseRequest(s).method = Words(LinesIn(s)[1])[1]
              /\ ParseRequest(s).path = Words(LinesIn(s)[1])[2]
              /\ ParseRequest(s).headers = Headers(Tail(LinesIn(s)))
              /\ ParseRequest(s).body = BodyOf(s)
<1> DEFINE l == LinesIn(s)
           r == [method |-> Words(l[1])[1], path |-> Words(l[1])[2],
                 headers |-> Headers(Tail(l)), body |-> BodyOf(s)]
           w == IF l = <<>> THEN <<>> ELSE Words(l[1])
<1>1. HeadOf(s) \in Text
  BY HeadTyped
<1>2. l \in Seq(Text)
  BY <1>1, LinesTyped DEF LinesIn
<1>3. ParseRequest(s) = IF Len(w) < 3 \/ w[3][1] # "HTTP/" THEN Malformed
                        ELSE [method |-> w[1], path |-> w[2],
                              headers |-> Headers(Tail(l)), body |-> BodyOf(s)]
  BY DEF ParseRequest, LinesIn
<1> HIDE DEF l
<1>4. l # <<>> => /\ Words(l[1]) \in Seq(Text)
                  /\ \A i \in 1 .. Len(Words(l[1])) : Words(l[1])[i] # <<>>
  <2> SUFFICES ASSUME l # <<>> PROVE /\ Words(l[1]) \in Seq(Text)
                  /\ \A i \in 1 .. Len(Words(l[1])) : Words(l[1])[i] # <<>>
    OBVIOUS
  <2>1. l[1] \in Text
    BY <1>2
  <2> QED
    BY <2>1, WordsOf
<1>5. CASE Reads(l)
  <2>1. l # <<>> /\ Len(Words(l[1])) >= 3 /\ Words(l[1])[3][1] = "HTTP/" /\ w = Words(l[1])
    BY <1>5 DEF Reads
  <2>2. Len(w) \in Nat /\ ~(Len(w) < 3) /\ 1 \in 1 .. Len(w)
    BY <1>4, <2>1
  <2>3. ParseRequest(s) = r
    BY <1>3, <2>1, <2>2
  <2>4. r.method # <<>>
    BY <1>4, <2>1, <2>2
  <2>5. Malformed.method = <<>>
    BY DEF Malformed
  <2>6. r # Malformed
    BY <2>4, <2>5
  <2> QED
    BY <1>2, <1>5, <2>3, <2>6 DEF l
<1>6. CASE ~Reads(l)
  <2>1. CASE l = <<>>
    <3>1. Len(w) = 0
      BY <2>1
    <3> QED
      BY <1>2, <1>3, <1>6, <3>1 DEF l
  <2>2. CASE l # <<>>
    <3>1. w = Words(l[1]) /\ Len(w) \in Nat
      BY <1>4, <2>2
    <3>2. Len(w) < 3 \/ w[3][1] # "HTTP/"
      BY <1>6, <2>2, <3>1 DEF Reads
    <3> QED
      BY <1>2, <1>3, <1>6, <3>2 DEF l
  <2> QED
    BY <2>1, <2>2
<1> QED
  BY <1>5, <1>6

(* What q is parsed to says all that p is parsed to, and no other method    *)
(* and path.                                                                *)
Says(p, q) ==
  p # Malformed =>
    /\ q # Malformed
    /\ p.method = q.method /\ p.path = q.path
    /\ DOMAIN p.headers \subseteq DOMAIN q.headers
    /\ Begins(p.body, q.body)

LEMMA OneMoreByte ==
  ASSUME NEW s \in Text, NEW c \in Symbols
  PROVE  Says(ParseRequest(s), ParseRequest(Append(s, c)))
<1> DEFINE t == Append(s, c)
<1>1. t \in Text
  BY TextAppend
<1>2. HeadOf(s) \in Text /\ Goes(s, t) /\ Begins(BodyOf(s), BodyOf(t))
  BY HeadGoes
<1>3. HeadOf(t) \in Text
  BY <1>1, HeadTyped
<1>4. LinesIn(s) \in Seq(Text) /\ LinesIn(t) \in Seq(Text)
  BY <1>1, ParsedAs
<1>5. Later(LinesIn(s), LinesIn(t)) \/ Ended(LinesIn(s), LinesIn(t))
  <2>1. CASE HeadOf(t) = HeadOf(s)
    BY <2>1 DEF LinesIn, Later
  <2>2. CASE HeadOf(s) = s /\ HeadOf(t) = t
    BY <2>2, LinesAppend DEF LinesIn
  <2>3. CASE /\ "cr" \in Symbols /\ "lf" \in Symbols
             /\ HeadOf(s) = Append(Append(Append(HeadOf(t), "cr"), "lf"), "cr")
    BY <1>3, <2>3, LinesEnded DEF LinesIn
  <2> HIDE DEF t
  <2> QED
    BY <1>2, <2>1, <2>2, <2>3 DEF Goes
<1> HIDE DEF t
<1>6. ASSUME ParseRequest(s) # Malformed PROVE Says(ParseRequest(s), ParseRequest(t))
  <2>1. Reads(LinesIn(s))
    BY <1>6, ParsedAs
  <2>2. KeptLines(LinesIn(s), LinesIn(t))
    BY <1>4, <1>5, <2>1, LaterKept, EndedKept
  <2>3. Reads(LinesIn(t))
    BY <2>2 DEF KeptLines
  <2> QED
    BY <1>1, <1>2, <2>1, <2>2, <2>3, ParsedAs DEF KeptLines, Says
<1> QED
  BY <1>6 DEF Says, t

LEMMA SaysTransitive ==
  ASSUME NEW p, NEW q, NEW r, Says(p, q), Says(q, r),
         p # Malformed => Len(p.body) \in Nat /\ Len(q.body) \in Nat /\ Len(r.body) \in Nat
  PROVE  Says(p, r)
<1> SUFFICES ASSUME p # Malformed PROVE Begins(p.body, r.body)
  BY DEF Says
<1>1. Begins(p.body, q.body) /\ Begins(q.body, r.body)
  BY DEF Says
<1> QED
  BY <1>1 DEF Begins

(* The beginning of a request, if it parses, is parsed like the whole.      *)
LEMMA PieceParses ==
  ASSUME NEW s \in Text, NEW u \in Text
  PROVE  Says(ParseRequest(s), ParseRequest(s \o u))
<1> DEFINE S == {v \in Text : Says(ParseRequest(s), ParseRequest(s \o v))}
<1>1. <<>> \in S
  <2>1. s \o <<>> = s /\ <<>> \in Text
    BY DEF Text
  <2>2. Says(ParseRequest(s), ParseRequest(s))
    <3>1. ParseRequest(s) # Malformed => Len(ParseRequest(s).body) \in Nat
      BY ParsedAs, HeadGoes DEF Text
    <3> QED
      BY <3>1 DEF Says, Begins
  <2> QED
    BY <2>1, <2>2
<1>2. ASSUME NEW v \in S, NEW c \in Symbols PROVE Append(v, c) \in S
  <2>1. v \in Text /\ Says(ParseRequest(s), ParseRequest(s \o v))
    OBVIOUS
  <2>2. s \o v \in Text /\ Append(v, c) \in Text /\ s \o Append(v, c) = Append(s \o v, c)
    BY <2>1 DEF Text
  <2>3. Says(ParseRequest(s \o v), ParseRequest(Append(s \o v, c)))
    BY <2>2, OneMoreByte
  <2>4. \A x \in Text : ParseRequest(x) # Malformed => Len(ParseRequest(x).body) \in Nat
    <3>1. \A x \in Text : BodyOf(x) \in Text
      BY <2>2, HeadGoes
    <3> QED
      BY <3>1, ParsedAs DEF Text
  <2>5. Append(s \o v, c) \in Text
    BY <2>2, TextAppend
  <2>6. Says(ParseRequest(s), ParseRequest(Append(s \o v, c)))
    BY <2>1, <2>2, <2>3, <2>4, <2>5, SaysTransitive DEF Says
  <2> QED
    BY <2>2, <2>6
<1>3. S = Text
  <2> HIDE DEF S
  <2>1. S \in SUBSET Seq(Symbols)
    BY DEF S, Text
  <2> QED
    BY <1>1, <1>2, <2>1, SeqSetInduction DEF Text
<1> QED
  BY <1>3

-------------------------------------------------------------------------------
(* What the workers have received *)

(* The invariant: what a worker has parsed is said by the request too.      *)
ReceivedBy(p, q, s) ==
  p # "idle" => s \in Text /\ q # Malformed /\ q.body \in Text /\ Says(q, ParseRequest(s))

Received ==
  /\ sent = [w \in Workers |-> sent[w]]
  /\ \A w \in Workers : ReceivedBy(pc[w], req[w], sent[w])

LEMMA FirstBytes ==
  ASSUME NEW r \in Text, NEW n \in 1 .. Len(r), ParseRequest(SubSeq(r, 1, n)) # Malformed
  PROVE  ReceivedBy("match", ParseRequest(SubSeq(r, 1, n)), r)
<1> DEFINE s == SubSeq(r, 1, n)
           u == SubSeq(r, n + 1, Len(r))
<1>1. r \in Seq(Symbols) /\ Len(r) \in Nat
  BY DEF Text
<1>2. s \in Text /\ u \in Text
  BY <1>1, SubSeqProperties DEF Text
<1>3. s \o u = r
  <2>1. /\ 1 \in 1 .. Len(r) + 1 /\ n \in 1 - 1 .. Len(r) /\ Len(r) \in n .. Len(r)
        /\ SubSeq(r, 1, Len(r)) = r
    BY <1>1, SubSeqFull
  <2> QED
    BY <1>1, <2>1, ConcatAdjacentSubSeq
<1>4. Says(ParseRequest(s), ParseRequest(r))
  BY <1>2, <1>3, PieceParses
<1>5. ParseRequest(s).body \in Text
  <2>1. ParseRequest(s).body = BodyOf(s)
    BY <1>2, ParsedAs
  <2>2. r[n] \in Symbols
    BY <1>1
  <2> QED
    BY <1>2, <2>1, <2>2, HeadGoes
<1> QED
  BY <1>4, <1>5 DEF ReceivedBy

LEMMA ReceiveReceived ==
  ASSUME Inv, Received, NEW w \in Workers, NEW r \in Requests, NEW n \in 1 .. Len(r),
         Receive(w, r, n)
  PROVE  Received'
<1>1. r \in Text
  <2>1. r \in Seq(Range(r)) /\ Range(r) \subseteq Symbols
    BY TextsOK DEF Symbols
  <2> QED
    BY <2>1 DEF Text
<1> DEFINE q == ParseRequest(SubSeq(r, 1, n))
<1>2. CASE q = Malformed
  BY <1>2 DEF Receive, Received
<1>3. CASE q # Malformed
  <2>1. /\ pc' = [pc EXCEPT ![w] = "match"] /\ req' = [req EXCEPT ![w] = q]
        /\ sent' = [sent EXCEPT ![w] = r]
    BY <1>3 DEF Receive
  <2>2. ReceivedBy("match", q, r)
    BY <1>1, <1>3, FirstBytes
  <2>3. Shape
    BY DEF Inv
  <2> HIDE DEF q
  <2>4. ASSUME NEW v \in Workers PROVE ReceivedBy(pc'[v], req'[v], sent'[v])
    <3>1. CASE v = w
      BY <2>1, <2>2, <2>3, <3>1 DEF Shape, Received
    <3>2. CASE v # w
      BY <2>1, <2>3, <3>2 DEF Shape, Received
    <3> QED
      BY <3>1, <3>2
  <2>5. sent' = [v \in Workers |-> sent'[v]]
    BY <2>1 DEF Received
  <2> QED
    BY <2>4, <2>5 DEF Received
<1> QED
  BY <1>2, <1>3

LEMMA NextReceived == Inv /\ Received /\ [Next]_vars => Received'
<1> SUFFICES ASSUME Inv, Received, [Next]_vars PROVE Received'
  OBVIOUS
<1>1. Shape
  BY DEF Inv
<1>2. CASE ReadFile \/ ReadConfig \/ Listen \/ ListenFails \/ UNCHANGED vars
  <2>1. UNCHANGED <<pc, req, sent>>
    BY <1>2 DEF ReadFile, ReadConfig, Listen, ListenFails, vars, worker
  <2> QED
    BY <2>1 DEF Received
<1>3. ASSUME NEW w \in Workers, \E r \in Requests : \E n \in 1 .. Len(r) : Receive(w, r, n)
      PROVE  Received'
  BY <1>3, ReceiveReceived
<1>4. ASSUME NEW w \in Workers,
             \/ \E key \in todo[w] : Consider(w, key)
             \/ Stray(w) \/ RaceFaults(w) \/ CallFails(w) \/ CallThrows(w)
      PROVE  Received'
  <2>1. UNCHANGED <<pc, req, sent>>
    BY <1>4 DEF Consider, Stray, RaceFaults, CallFails, CallThrows, worker
  <2> QED
    BY <2>1 DEF Received
<1>5. ASSUME NEW w \in Workers, Choose(w) \/ BeginInsert(w) \/ Insert(w) PROVE Received'
  <2>1. /\ pc' = [pc EXCEPT ![w] = "call"] \/ pc' = [pc EXCEPT ![w] = "insert"]
        /\ pc[w] # "idle" /\ UNCHANGED <<req, sent>>
    BY <1>5 DEF Choose, BeginInsert, Insert
  <2>2. ASSUME NEW v \in Workers PROVE ReceivedBy(pc'[v], req[v], sent[v])
    BY <1>1, <2>1 DEF Shape, Received, ReceivedBy
  <2> QED
    BY <2>1, <2>2 DEF Received
<1>6. ASSUME NEW w \in Workers, Call(w) PROVE Received'
  <2>1. /\ pc' = [pc EXCEPT ![w] = "idle"] /\ req' = [req EXCEPT ![w] = Malformed]
        /\ sent' = [sent EXCEPT ![w] = <<>>]
    BY <1>6 DEF Call
  <2>2. ASSUME NEW v \in Workers PROVE ReceivedBy(pc'[v], req'[v], sent'[v])
    <3>1. CASE v = w
      BY <1>1, <2>1, <3>1 DEF Shape, ReceivedBy
    <3>2. CASE v # w
      BY <1>1, <2>1, <3>2 DEF Shape, Received
    <3> QED
      BY <3>1, <3>2
  <2>3. sent' = [v \in Workers |-> sent'[v]]
    BY <2>1 DEF Received
  <2> QED
    BY <2>2, <2>3 DEF Received
<1> QED
  BY <1>2, <1>3, <1>4, <1>5, <1>6 DEF Next

LEMMA SpecReceived == Spec => []Received
<1>1. Init => Received
  BY DEF Init, Received, ReceivedBy
<1> QED
  BY <1>1, NextReceived, SpecInv, PTL DEF Spec

LEMMA ReceivedIsOfRequest == Received => PieceIsOfRequest
<1> SUFFICES ASSUME Received, NEW w \in Workers, pc[w] # "idle"
             PROVE  LET whole == ParseRequest(sent[w])
                    IN  /\ req[w].method = whole.method /\ req[w].path = whole.path
                        /\ DOMAIN req[w].headers \subseteq DOMAIN whole.headers
                        /\ IsPrefix(req[w].body, whole.body)
  BY DEF PieceIsOfRequest
<1> DEFINE whole == ParseRequest(sent[w])
<1>1. /\ sent[w] \in Text /\ req[w] # Malformed /\ req[w].body \in Text
      /\ Says(req[w], whole)
  BY DEF Received, ReceivedBy
<1>2. /\ whole # Malformed /\ req[w].method = whole.method /\ req[w].path = whole.path
      /\ DOMAIN req[w].headers \subseteq DOMAIN whole.headers
      /\ Begins(req[w].body, whole.body)
  BY <1>1 DEF Says
<1>3. whole.body \in Text
  <2>1. whole.body = BodyOf(sent[w])
    BY <1>1, <1>2, ParsedAs
  <2>2. "/" \in Symbols
    BY DEF Symbols
  <2> QED
    BY <1>1, <2>1, <2>2, HeadGoes
<1> HIDE DEF whole
<1>4. IsPrefix(req[w].body, whole.body)
  BY <1>1, <1>2, <1>3, PrefixElements DEF Begins, Text
<1> QED
  BY <1>2, <1>4 DEF whole

(* However little of a request has come: if it parses, it is taken for      *)
(* nothing that the whole request is not (RequestParser::parse, and         *)
(* handle_read, which looks at the first read only).                        *)
THEOREM PiecesOfRequests == Spec => []PieceIsOfRequest
BY SpecReceived, ReceivedIsOfRequest, PTL

(* Whether a handler parses a body depends on nothing else of the request.  *)
LEMMA SameReader ==
  ASSUME NEW route, NEW p, NEW q, p.method = q.method
  PROVE  /\ ReadsBody(route, p) <=> ReadsBody(route, q)
         /\ p.body = q.body => (BodyParses(route, p) <=> BodyParses(route, q))
BY DEF ReadsBody, IsPost, BodyParses

(* A status depends on the method, on the path and, where the handler parses*)
(* it, on whether the body parses.                                          *)
LEMMA SameStatuses ==
  ASSUME NEW route, NEW p, NEW q, p.method = q.method, p.path = q.path,
         ReadsBody(route, q) => (BodyParses(route, p) <=> BodyParses(route, q))
  PROVE  Statuses(route, p) = Statuses(route, q)
<1>1. (IsGet(p) <=> IsGet(q)) /\ (IsPost(p) <=> IsPost(q))
  BY DEF IsGet, IsPost
<1>2. EchoStatus(p) = EchoStatus(q) /\ HealthStatus(route.args, p) = HealthStatus(route.args, q)
  BY <1>1 DEF EchoStatus, HealthStatus
<1>3. StaticStatus(route.args, p) = StaticStatus(route.args, q)
  <2> DEFINE of(method, path) ==
               LET name  == route.args[2] \o SubSeq(path, Len(route.args[1]) + 1, Len(path))
                   dots  == {i \in DOMAIN name : name[i] = "."}
                   typed == dots # {} /\ \E t \in MimeTypes :
                              SubSeq(name, Max(dots) + 1, Len(name)) = <<t>>
                   found == \/ name \in ServedFiles
                            \/ route.args[2][1] = "/" /\ (<<"..">> \o name) \in ServedFiles
               IN  CASE ~(method = <<"GET">>) -> 400
                     [] typed /\ found        -> 200
                     [] OTHER                 -> 404
  <2>1. \A r : StaticStatus(route.args, r) = of(r.method, r.path)
    BY DEF StaticStatus, IsGet
  <2> HIDE DEF of
  <2> QED
    BY <2>1
<1>4. GetMessagesStatuses(route.args, p) = GetMessagesStatuses(route.args, q)
  BY <1>1 DEF GetMessagesStatuses
<1>5. ASSUME route.handler = <<"LoginHandler">> PROVE LoginStatuses(p) = LoginStatuses(q)
  <2>1. IsPost(q) => (p.body \in Credentials <=> q.body \in Credentials)
    BY <1>5 DEF ReadsBody, BodyParses
  <2> QED
    BY <1>1, <2>1 DEF LoginStatuses
<1>6. ASSUME route.handler = <<"RegisterHandler">> PROVE RegisterStatuses(p) = RegisterStatuses(q)
  <2>1. IsPost(q) => (p.body \in Credentials <=> q.body \in Credentials)
    BY <1>6 DEF ReadsBody, BodyParses
  <2> QED
    BY <1>1, <2>1 DEF RegisterStatuses
<1>7. ASSUME route.handler = <<"PostMessageHandler">>
      PROVE  PostMessageStatuses(p) = PostMessageStatuses(q)
  <2>1. IsPost(q) => (p.body \in Contents <=> q.body \in Contents)
    BY <1>7 DEF ReadsBody, BodyParses
  <2> QED
    BY <1>1, <2>1 DEF PostMessageStatuses
<1>8. ASSUME route.handler = <<"ApiHandler">>
      PROVE  ApiStatuses(route.args, p) = ApiStatuses(route.args, q)
  <2>1. q.method = <<"PUT">> => (p.body \in Documents <=> q.body \in Documents)
    BY <1>8 DEF ReadsBody, BodyParses
  <2>2. BehindMount(route.args, p) = BehindMount(route.args, q)
    BY DEF BehindMount
  <2> QED
    BY <2>1, <2>2 DEF ApiStatuses
<1> QED
  BY <1>2, <1>3, <1>4, <1>5, <1>6, <1>7, <1>8 DEF Statuses

(* A body that a handler cannot parse is answered with 400, or with what the*)
(* handler might have answered anyway.                                      *)
LEMMA CutBody ==
  ASSUME NEW route, NEW p, NEW q, p.method = q.method, p.path = q.path,
         ReadsBody(route, q), ~BodyParses(route, p), NEW status \in Statuses(route, p)
  PROVE  status = 400 \/ status \in Statuses(route, q)
<1>1. IsPost(p) <=> IsPost(q)
  BY DEF IsPost
<1>2. CASE route.handler = <<"LoginHandler">>
  <2>1. IsPost(p) /\ p.body \notin Credentials
    BY <1>1, <1>2 DEF ReadsBody, BodyParses
  <2>2. LoginStatuses(p) = {400}
    BY <2>1 DEF LoginStatuses
  <2> QED
    BY <1>2, <2>2 DEF Statuses
<1>3. CASE route.handler = <<"RegisterHandler">>
  <2>1. IsPost(p) /\ p.body \notin Credentials
    BY <1>1, <1>3 DEF ReadsBody, BodyParses
  <2>2. RegisterStatuses(p) = {400}
    BY <2>1 DEF RegisterStatuses
  <2> QED
    BY <1>3, <2>2 DEF Statuses
<1>4. CASE route.handler = <<"PostMessageHandler">>
  <2>1. IsPost(p) /\ IsPost(q) /\ p.body \notin Contents
    BY <1>1, <1>4 DEF ReadsBody, BodyParses
  <2>2. PostMessageStatuses(p) = {400, 401} /\ 401 \in PostMessageStatuses(q)
    BY <2>1 DEF PostMessageStatuses
  <2> QED
    BY <1>4, <2>2 DEF Statuses
<1>5. CASE route.handler = <<"ApiHandler">>
  <2>1. q.method = <<"PUT">> /\ p.method = <<"PUT">> /\ p.body \notin Documents
    BY <1>5 DEF ReadsBody, BodyParses
  <2>2. BehindMount(route.args, p) = BehindMount(route.args, q)
    BY DEF BehindMount
  <2>3. \A s \in ApiStatuses(route.args, p) : s = 400 \/ s \in ApiStatuses(route.args, q)
    BY <2>1, <2>2 DEF ApiStatuses
  <2> QED
    BY <1>5, <2>3 DEF Statuses
<1> QED
  BY <1>2, <1>3, <1>4, <1>5 DEF ReadsBody

(* There is one longest prefix. *)
LEMMA OneLongest ==
  ASSUME IsTable(routes), NEW path \in Text, NEW l \in PrefixesOf(path),
         \A p \in PrefixesOf(path) : Len(p) <= Len(l)
  PROVE  l = LongestOf(path)
<1> DEFINE P == PrefixesOf(path)
           longestIs(p) == p \in P /\ \A q \in P : Len(q) <= Len(p)
<1>1. P \subseteq Text /\ \A p \in P : IsPrefix(p, path) /\ p \in DOMAIN routes
  BY DEF PrefixesOf, IsTable
<1>2. longestIs(l)
  OBVIOUS
<1>3. ASSUME NEW p, longestIs(p) PROVE p = l
  <2>1. p \in Text /\ l \in Text /\ IsPrefix(p, path) /\ IsPrefix(l, path)
    BY <1>1, <1>2, <1>3
  <2>2. Len(p) \in Nat /\ Len(l) \in Nat /\ Len(p) <= Len(l) /\ Len(l) <= Len(p)
    BY <1>2, <1>3, <2>1 DEF Text
  <2>3. Len(p) = Len(l)
    BY <2>2
  <2>4. /\ \A i \in 1 .. Len(p) : p[i] = path[i]
        /\ \A i \in 1 .. Len(l) : l[i] = path[i]
    BY <2>1, PrefixElements DEF Text
  <2>5. \A i \in 1 .. Len(p) : p[i] = l[i]
    BY <2>3, <2>4
  <2> QED
    BY <2>1, <2>3, <2>5, SeqEqual DEF Text
<1>4. LongestOf(path) = CHOOSE p \in P : \A q \in P : Len(q) <= Len(p)
  BY DEF LongestOf
<1> HIDE DEF P
<1> QED
  BY <1>2, <1>3, <1>4

(* What answers is the call of a handler. *)
LEMMA AnsweredByCall ==
  ASSUME Inv, NEW w \in Workers, pc[w] = "call", pc'[w] = "idle", [Next]_vars
  PROVE  Call(w)
<1>1. Shape /\ ~UNCHANGED pc
  BY DEF Inv
<1>2. ~ReadFile /\ ~ReadConfig /\ ~Listen /\ ~ListenFails /\ ~UNCHANGED vars
  BY <1>1 DEF ReadFile, ReadConfig, Listen, ListenFails, vars, worker
<1>3. ASSUME NEW v \in Workers
      PROVE  /\ \A key : ~Consider(v, key)
             /\ ~Stray(v) /\ ~RaceFaults(v) /\ ~CallFails(v) /\ ~CallThrows(v)
  BY <1>1 DEF Consider, Stray, RaceFaults, CallFails, CallThrows, worker
<1>4. ASSUME NEW v \in Workers, Choose(v) \/ BeginInsert(v) \/ Insert(v) PROVE FALSE
  <2>1. pc' = [pc EXCEPT ![v] = "call"] \/ pc' = [pc EXCEPT ![v] = "insert"]
    BY <1>4 DEF Choose, BeginInsert, Insert
  <2> QED
    BY <1>1, <2>1 DEF Shape
<1>5. ASSUME NEW v \in Workers, NEW r, NEW n, Receive(v, r, n) PROVE FALSE
  <2>1. pc' = pc \/ pc' = [pc EXCEPT ![v] = "match"]
    BY <1>5 DEF Receive
  <2> QED
    BY <1>1, <2>1 DEF Shape
<1>6. ASSUME NEW v \in Workers, Call(v) PROVE v = w
  <2>1. pc' = [pc EXCEPT ![v] = "idle"]
    BY <1>6 DEF Call
  <2> QED
    BY <1>1, <2>1 DEF Shape
<1> QED
  BY <1>2, <1>3, <1>4, <1>5, <1>6 DEF Next

LEMMA CallAnswers ==
  ASSUME Inv, Race, Received, NEW w \in Workers, pc[w] = "call", pc'[w] = "idle", [Next]_vars
  PROVE  LET whole == ParseRequest(sent[w])
             route == routes[LongestOf(whole.path)]
         IN  \/ \E v \in Workers : Doomed(v)
             \/ reply'[w] \in Statuses(route, whole)
             \/ /\ ReadsBody(route, whole) /\ req[w].body # whole.body
                /\ reply'[w] = 400 \/ ~BodyParses(route, whole)
<1> DEFINE whole == ParseRequest(sent[w])
           route == routes[LongestOf(whole.path)]
<1>1. Shape /\ IsTable(routes)
  BY DEF Inv
<1>2. Call(w)
  BY AnsweredByCall
<1>3. reply'[w] \in Statuses(routes[longest[w]], req[w])
  BY <1>1, <1>2 DEF Call, Shape
<1>4. Says(req[w], whole) /\ req[w] # Malformed
  BY DEF Received, ReceivedBy
<1>5. req[w].method = whole.method /\ req[w].path = whole.path
  BY <1>4 DEF Says
<1>6. req[w].path \in Text
  BY DEF Inv, AllWorkers, WorkerOK, IsRequest
<1>7. CASE \E v \in Workers : Doomed(v)
  BY <1>7
<1>8. CASE ~\E v \in Workers : Doomed(v)
  <2>1. /\ longest[w] \in PrefixesOf(req[w].path)
        /\ \A p \in PrefixesOf(req[w].path) : Len(p) <= Len(longest[w])
    BY <1>8, RaceLongestPrefix DEF LongestPrefix
  <2>2. longest[w] = LongestOf(whole.path)
    BY <1>1, <1>5, <1>6, <2>1, OneLongest
  <2>3. reply'[w] \in Statuses(route, req[w])
    BY <1>3, <2>2
  <2> HIDE DEF whole, route
  <2>4. CASE ReadsBody(route, whole) => (BodyParses(route, req[w]) <=> BodyParses(route, whole))
    <3>1. Statuses(route, req[w]) = Statuses(route, whole)
      BY <1>5, <2>4, SameStatuses
    <3> QED
      BY <2>3, <3>1 DEF whole, route
  <2>5. CASE /\ ReadsBody(route, whole)
             /\ ~(BodyParses(route, req[w]) <=> BodyParses(route, whole))
    <3>1. req[w].body # whole.body
      BY <1>5, <2>5, SameReader
    <3>2. CASE ~BodyParses(route, whole)
      BY <2>5, <3>1, <3>2 DEF whole, route
    <3>3. CASE BodyParses(route, whole)
      <4>1. ~BodyParses(route, req[w])
        BY <2>5, <3>3
      <4>2. reply'[w] = 400 \/ reply'[w] \in Statuses(route, whole)
        BY <1>5, <2>3, <2>5, <4>1, CutBody
      <4> QED
        BY <2>5, <3>1, <4>2 DEF whole, route
    <3> QED
      BY <3>2, <3>3
  <2> QED
    BY <2>4, <2>5
<1> QED
  BY <1>7, <1>8

(* Whatever part of a request the first read returns, the answer is one that*)
(* the whole of it would have had, from the handler of the longest prefix of*)
(* its whole path.  Only a handler that parses the body may tell the two    *)
(* apart: it refuses with 400 what it would have taken, or takes what it    *)
(* would have refused (handle_read, Dispatcher::match, the handlers).       *)
THEOREM PiecesAnsweredAsWhole == Spec => AnsweredAsWhole
<1>1. Inv /\ Race /\ Received /\ [Next]_vars =>
        [\A w \in Workers : pc[w] = "call" /\ pc'[w] = "idle" =>
           LET whole == ParseRequest(sent[w])
               route == routes[LongestOf(whole.path)]
           IN  \/ \E v \in Workers : Doomed(v)
               \/ reply'[w] \in Statuses(route, whole)
               \/ /\ ReadsBody(route, whole) /\ req[w].body # whole.body
                  /\ reply'[w] = 400 \/ ~BodyParses(route, whole)]_vars
  BY CallAnswers
<1> QED
  BY <1>1, SpecInv, SpecRace, SpecReceived, PTL DEF Spec, AnsweredAsWhole

-------------------------------------------------------------------------------
(* The grammar of configurations, as a set of parts of the tokens           *)

Parts(tokens) == (1 .. Len(tokens) + 1) \X (0 .. Len(tokens))

WordsFrom(tokens, i, k) == \A n \in i .. k - 1 : tokens[n][1] \in WordTypes

(* Derives, with the set of the shorter configurations. *)
DerivesIn(tokens, C, i, j) ==
  \/ j = i - 1
  \/ \E k \in i + 1 .. j :
       /\ WordsFrom(tokens, i, k)
       /\ \/ tokens[k][1] = ";" /\ <<k + 1, j>> \in C
          \/ /\ tokens[k][1] = "{" /\ tokens[k - 1][1] = "NORMAL"
             /\ \E m \in k + 1 .. j : /\ tokens[m][1] = "}"
                                      /\ <<k + 1, m - 1>> \in C /\ <<m + 1, j>> \in C

(* C holds the parts that are configurations. *)
IsLanguage(tokens, C) ==
  /\ C \in SUBSET Parts(tokens)
  /\ \A i \in 1 .. Len(tokens) + 1, j \in 0 .. Len(tokens) :
       <<i, j>> \in C <=> DerivesIn(tokens, C, i, j)

(* More configurations derive more. *)
LEMMA DerivesMonotone ==
  ASSUME NEW tokens, NEW C, NEW D, C \subseteq D, NEW i, NEW j, DerivesIn(tokens, C, i, j)
  PROVE  DerivesIn(tokens, D, i, j)
BY DEF DerivesIn

(* A language exists: the least set that derives nothing new.               *)
LEMMA LanguageExists ==
  ASSUME NEW tokens
  PROVE  \E C : IsLanguage(tokens, C)
<1> DEFINE P == Parts(tokens)
           derives(C, p) == DerivesIn(tokens, C, p[1], p[2])
           closed(C) == \A p \in P : derives(C, p) => p \in C
           Q == {p \in P : \A C \in SUBSET P : closed(C) => p \in C}
           R == {p \in P : derives(Q, p)}
<1>1. ASSUME NEW C, NEW D, C \subseteq D, NEW p, derives(C, p) PROVE derives(D, p)
  BY <1>1, DerivesMonotone
<1> HIDE DEF derives, P
<1>2. closed(Q)
  <2> SUFFICES ASSUME NEW p \in P, derives(Q, p), NEW C \in SUBSET P, closed(C) PROVE p \in C
    OBVIOUS
  <2>1. Q \subseteq C
    OBVIOUS
  <2>2. derives(C, p)
    BY <1>1, <2>1
  <2> QED
    BY <2>2
<1>3. R \subseteq Q /\ R \in SUBSET P
  BY <1>2
<1>4. closed(R)
  <2> SUFFICES ASSUME NEW p \in P, derives(R, p) PROVE derives(Q, p)
    OBVIOUS
  <2> HIDE DEF Q, R
  <2> QED
    BY <1>1, <1>3
<1>5. Q \subseteq R
  BY <1>3, <1>4
<1>6. \A p \in P : p \in Q <=> derives(Q, p)
  BY <1>3, <1>5
<1>7. Q \in SUBSET P
  OBVIOUS
<1> HIDE DEF Q
<1>8. ASSUME NEW i \in 1 .. Len(tokens) + 1, NEW j \in 0 .. Len(tokens)
      PROVE  <<i, j>> \in Q <=> DerivesIn(tokens, Q, i, j)
  BY <1>6 DEF P, Parts, derives
<1> QED
  BY <1>7, <1>8 DEF IsLanguage, P

(* IsConfig asks for all the tokens.                                        *)
LEMMA IsConfigMeans ==
  ASSUME NEW tokens, Len(tokens) \in Nat
  PROVE  \E C : IsLanguage(tokens, C) /\ (IsConfig(tokens) <=> <<1, Len(tokens)>> \in C)
<1> DEFINE P == Parts(tokens)
           Rec(f) == f = [p \in P |-> Derives(tokens, f, p[1], p[2])]
           f == CHOOSE h : Rec(h)
           C == {p \in P : f[p]}
<1>1. IsConfig(tokens) = f[<<1, Len(tokens)>>]
  BY DEF IsConfig, Parts
<1>2. ASSUME NEW h, NEW D, D = {p \in P : h[p]},
             NEW i \in 1 .. Len(tokens) + 1, NEW j \in 0 .. Len(tokens)
      PROVE  Derives(tokens, h, i, j) <=> DerivesIn(tokens, D, i, j)
  <2>1. \A k \in i + 1 .. j : <<k + 1, j>> \in P
    BY DEF Parts
  <2>2. \A k \in i + 1 .. j : \A m \in k + 1 .. j : <<k + 1, m - 1>> \in P /\ <<m + 1, j>> \in P
    BY DEF Parts
  <2>3. \A p \in P : p \in D <=> h[p]
    BY <1>2
  <2> HIDE DEF P
  <2>4. \A k \in i + 1 .. j : <<k + 1, j>> \in D <=> h[<<k + 1, j>>]
    BY <2>1, <2>3, Zenon
  <2>5. \A k \in i + 1 .. j : \A m \in k + 1 .. j :
          /\ <<k + 1, m - 1>> \in D <=> h[<<k + 1, m - 1>>]
          /\ <<m + 1, j>> \in D <=> h[<<m + 1, j>>]
    BY <2>2, <2>3, Zenon
  <2> QED
    BY <2>4, <2>5, Zenon DEF Derives, DerivesIn, WordsFrom
<1>3. \E h : Rec(h)
  <2>1. PICK D : IsLanguage(tokens, D)
    BY LanguageExists
  <2> DEFINE h == [p \in P |-> p \in D]
  <2>2. D = {p \in P : h[p]}
    BY <2>1 DEF IsLanguage
  <2>3. ASSUME NEW p \in P PROVE (p \in D) <=> Derives(tokens, h, p[1], p[2])
    <3>1. p = <<p[1], p[2]>> /\ p[1] \in 1 .. Len(tokens) + 1 /\ p[2] \in 0 .. Len(tokens)
      BY DEF Parts
    <3> HIDE DEF h, P
    <3>2. <<p[1], p[2]>> \in D <=> DerivesIn(tokens, D, p[1], p[2])
      BY <2>1, <3>1 DEF IsLanguage
    <3>3. Derives(tokens, h, p[1], p[2]) <=> DerivesIn(tokens, D, p[1], p[2])
      BY <1>2, <2>2, <3>1
    <3> QED
      BY <3>1, <3>2, <3>3
  <2>4. ASSUME NEW p \in P PROVE (p \in D) = Derives(tokens, h, p[1], p[2])
    <3> HIDE DEF h, P
    <3>1. Derives(tokens, h, p[1], p[2]) \in BOOLEAN
      BY DEF Derives
    <3> QED
      BY <2>3, <3>1
  <2>5. h = [p \in P |-> Derives(tokens, h, p[1], p[2])]
    BY <2>4, Zenon
  <2> QED
    BY <2>5
<1>4. Rec(f)
  <2> HIDE DEF Rec
  <2> QED
    BY <1>3
<1> HIDE DEF f
<1>5. IsLanguage(tokens, C)
  <2>1. ASSUME NEW i \in 1 .. Len(tokens) + 1, NEW j \in 0 .. Len(tokens)
        PROVE  <<i, j>> \in C <=> DerivesIn(tokens, C, i, j)
    <3>1. <<i, j>> \in P
      BY DEF Parts
    <3>2. f[<<i, j>>] = Derives(tokens, f, i, j)
      BY <1>4, <3>1
    <3>3. Derives(tokens, f, i, j) <=> DerivesIn(tokens, C, i, j)
      <4>1. C = {p \in P : f[p]}
        OBVIOUS
      <4> HIDE DEF C, P
      <4> QED
        BY <1>2, <4>1
    <3>4. <<i, j>> \in C <=> f[<<i, j>>]
      BY <3>1
    <3> HIDE DEF C
    <3> QED
      BY <3>2, <3>3, <3>4
  <2>2. C \in SUBSET Parts(tokens)
    OBVIOUS
  <2> HIDE DEF C
  <2> QED
    BY <2>1, <2>2 DEF IsLanguage
<1>6. <<1, Len(tokens)>> \in C <=> f[<<1, Len(tokens)>>]
  <2>1. <<1, Len(tokens)>> \in P
    BY DEF Parts
  <2> QED
    BY <2>1, Zenon
<1> QED
  BY <1>1, <1>5, <1>6, Zenon

-------------------------------------------------------------------------------
(* The turns of Parse *)

Change(type) == CASE type = "{" -> 1 [] type = "}" -> -1 [] OTHER -> 0

(* g[k] is the state after k tokens. *)
ParseRun(tokens, g) ==
  /\ Len(tokens) \in Nat
  /\ g[0] = ParseStart
  /\ \A k \in 0 .. Len(tokens) : g[k] \in Parsers
  /\ \A k \in 1 .. Len(tokens) : g[k] = ParseStep(g[k - 1], tokens[k])

LEMMA ParseRuns ==
  ASSUME NEW tokens \in Tokens
  PROVE  \E g : ParseRun(tokens, g) /\ FoldLeft(ParseStep, ParseStart, tokens) = g[Len(tokens)]
<1> DEFINE N == Len(tokens)
           Rec(it) == it = [T \in SUBSET DOMAIN tokens |->
                              IF T = {} THEN ParseStart
                                        ELSE ParseStep(it[T \ {Max(T)}], tokens[Max(T)])]
           it == CHOOSE i : Rec(i)
           F == [p \in Parsers \X (1 .. N) |-> ParseStep(p[1], tokens[p[2]])]
<1>1. N \in Nat /\ DOMAIN tokens = 1 .. N /\ \A i \in 1 .. N : tokens[i] \in TokenTypes \X Text
  BY DEF Tokens
<1>2. FoldLeft(ParseStep, ParseStart, tokens) = it[DOMAIN tokens]
  <2> HIDE DEF ParseStep, ParseStart, Max
  <2> QED
    BY DEF FoldLeft, MapThenFoldSet
<1>3. ParseStart \in Parsers
  BY DEF ParseStart, Parsers, Statements
<1>4. \A v \in Parsers, i \in 1 .. N : ParseStep(v, tokens[i]) \in Parsers
  BY <1>1, ParseStepTyped
<1> HIDE DEF N
<1>5. F \in [Parsers \X (1 .. N) -> Parsers]
  BY <1>4
<1>6. \A v \in Parsers, i \in 1 .. N : F[<<v, i>>] = ParseStep(v, tokens[i])
  OBVIOUS
<1> HIDE DEF F
<1>7. PICK h : FoldsTo(h, N, Parsers, ParseStart, F)
  BY <1>1, <1>3, <1>5, FoldExists
<1>8. ASSUME NEW T \in SUBSET (1 .. N), T # {}
      PROVE  h[T] = ParseStep(h[T \ {Max(T)}], tokens[Max(T)])
  <2>1. Max(T) \in 1 .. N /\ h[T \ {Max(T)}] \in Parsers
    BY <1>1, <1>7, <1>8, MaxOfPositions DEF FoldsTo
  <2> QED
    BY <1>6, <1>7, <1>8, <2>1 DEF FoldsTo
<1>9. Rec(it)
  <2>1. Rec(h)
    BY <1>1, <1>7, <1>8 DEF FoldsTo
  <2> HIDE DEF Rec
  <2> QED
    BY <2>1
<1> HIDE DEF it
<1>10. /\ it = [T \in SUBSET (1 .. N) |-> it[T]] /\ it[{}] = ParseStart
       /\ \A T \in SUBSET (1 .. N) : T # {} =>
            it[T] = ParseStep(it[T \ {Max(T)}], tokens[Max(T)])
  BY <1>1, <1>9
<1>11. ASSUME NEW T \in SUBSET (1 .. N), T # {} /\ it[T \ {Max(T)}] \in Parsers
       PROVE  it[T] = F[<<it[T \ {Max(T)}], Max(T)>>]
  BY <1>1, <1>6, <1>10, <1>11, MaxOfPositions
<1>12. FoldsTo(it, N, Parsers, ParseStart, F)
  BY <1>1, <1>3, <1>5, <1>10, <1>11, FoldFollowed
<1>13. PICK g : Turns(g, N, Parsers, ParseStart, F) /\ it[1 .. N] = g[N]
  BY <1>1, <1>12, FoldTurns
<1>14. \A k \in 0 .. N : g[k] \in Parsers
  BY <1>13 DEF Turns
<1>15. ASSUME NEW k \in 1 .. N PROVE g[k] = ParseStep(g[k - 1], tokens[k])
  <2>1. k - 1 \in 0 .. N - 1 /\ k - 1 \in 0 .. N /\ (k - 1) + 1 = k
    BY <1>1
  <2>2. g[(k - 1) + 1] = F[<<g[k - 1], (k - 1) + 1>>]
    BY <1>13, <2>1 DEF Turns
  <2> QED
    BY <1>6, <1>14, <2>1, <2>2
<1>16. g[0] = ParseStart
  BY <1>13 DEF Turns
<1> QED
  BY <1>1, <1>2, <1>13, <1>14, <1>15, <1>16 DEF ParseRun, N

(* One turn. *)
LEMMA ParseTurn ==
  ASSUME NEW tokens, NEW g, ParseRun(tokens, g), NEW k \in 1 .. Len(tokens)
  PROVE  /\ g[k].ok <=> g[k - 1].ok /\ MayFollow(g[k - 1], tokens[k][1])
         /\ g[k].ok => g[k].last = tokens[k][1]
         /\ g[k].ok => g[k].depth = g[k - 1].depth + Change(tokens[k][1])
<1> DEFINE p == g[k - 1]
           type == tokens[k][1]
<1>1. k - 1 \in 0 .. Len(tokens) /\ p \in Parsers /\ g[k] = ParseStep(p, tokens[k])
  BY DEF ParseRun
<1> HIDE DEF p
<1>2. CASE p.ok /\ MayFollow(p, type)
  <2>1. g[k] = [ok |-> TRUE, last |-> type, depth |-> p.depth + Change(type),
                statements |-> Add(p, type, tokens[k][2])]
    BY <1>1, <1>2, Zenon DEF ParseStep, Change
  <2>2. g[k].ok = TRUE /\ g[k].last = type /\ g[k].depth = p.depth + Change(type)
    BY <2>1
  <2> QED
    BY <1>2, <2>2 DEF p
<1>3. CASE ~(p.ok /\ MayFollow(p, type))
  <2>1. g[k] = [p EXCEPT !.ok = FALSE]
    BY <1>1, <1>3 DEF ParseStep
  <2>2. g[k].ok = FALSE
    BY <1>1, <2>1 DEF Parsers
  <2> QED
    BY <1>3, <2>2 DEF p
<1> QED
  BY <1>2, <1>3

(* The same, by the type of the token. *)
Turn(tokens, g, k) ==
  /\ g[k - 1].ok /\ g[k].last = tokens[k][1]
  /\ g[k - 1].depth \in Int /\ g[k].depth \in Int
  /\ tokens[k][1] \in WordTypes \cup {";", "{", "}"}
  /\ tokens[k][1] \in WordTypes => g[k].depth = g[k - 1].depth
  /\ tokens[k][1] = ";" => g[k].depth = g[k - 1].depth /\ g[k - 1].last \in WordTypes
  /\ tokens[k][1] = "{" => g[k].depth = g[k - 1].depth + 1 /\ g[k - 1].last = "NORMAL"
  /\ tokens[k][1] = "}" => /\ g[k].depth = g[k - 1].depth - 1 /\ g[k - 1].depth > 0
                           /\ g[k - 1].last \in {";", "}", "{"}

LEMMA ParseTurns ==
  ASSUME NEW tokens, NEW g, ParseRun(tokens, g), NEW k \in 1 .. Len(tokens), g[k].ok
  PROVE  Turn(tokens, g, k)
<1> DEFINE p == g[k - 1]
           type == tokens[k][1]
<1>1. p.ok /\ MayFollow(p, type) /\ g[k].last = type /\ g[k].depth = p.depth + Change(type)
  BY ParseTurn
<1>2. k - 1 \in 0 .. Len(tokens) /\ k \in 0 .. Len(tokens)
  BY DEF ParseRun
<1>3. p.depth \in Int /\ g[k].depth \in Int
  BY <1>2 DEF ParseRun, Parsers
<1> HIDE DEF p, type
<1>4. /\ type \in WordTypes \cup {";", "{", "}"}
      /\ type = ";" => p.last \in WordTypes
      /\ type = "{" => p.last = "NORMAL"
      /\ type = "}" => p.depth > 0 /\ p.last \in {";", "}", "{"}
  BY <1>1 DEF MayFollow, WordTypes
<1>5. /\ type \in WordTypes => Change(type) = 0
      /\ type = ";" => Change(type) = 0
      /\ type = "{" => Change(type) = 1
      /\ type = "}" => Change(type) = -1
  BY DEF Change, WordTypes
<1>6. /\ type \in WordTypes => g[k].depth = p.depth
      /\ type = ";" => g[k].depth = p.depth
      /\ type = "{" => g[k].depth = p.depth + 1
      /\ type = "}" => g[k].depth = p.depth - 1
  <2> DEFINE c == Change(type)
  <2>1. g[k].depth = p.depth + c
    BY <1>1
  <2>2. /\ type \in WordTypes => c = 0
        /\ type = ";" => c = 0
        /\ type = "{" => c = 1
        /\ type = "}" => c = -1
    BY <1>5
  <2> HIDE DEF c
  <2>3. /\ c = 0 => g[k].depth = p.depth
        /\ c = 1 => g[k].depth = p.depth + 1
        /\ c = -1 => g[k].depth = p.depth - 1
    BY <1>3, <2>1
  <2> QED
    BY <2>2, <2>3, Zenon
<1> QED
  BY <1>1, <1>3, <1>4, <1>6, Zenon DEF p, type, Turn

(* Parse does not recover, and never leaves more blocks than it has entered.*)
LEMMA ParseOk ==
  ASSUME NEW tokens, NEW g, ParseRun(tokens, g), NEW j \in 0 .. Len(tokens), g[j].ok
  PROVE  \A k \in 0 .. j : g[k].ok /\ g[k].depth \in Int /\ g[k].depth >= 0
<1> DEFINE S == {n \in 0 .. j : g[n].ok}
           D == {n \in 0 .. j : g[n].depth >= 0}
<1>0. Len(tokens) \in Nat /\ j \in Int /\ j >= 0
  BY DEF ParseRun
<1>1. ASSUME NEW n \in 0 .. j PROVE n \in 0 .. Len(tokens) /\ (0 < n => n \in 1 .. Len(tokens))
  BY <1>0
<1>2. S = 0 .. j
  <2>1. S \in SUBSET (0 .. j) /\ j \in S
    BY <1>0
  <2>2. ASSUME NEW n \in S, 0 < n PROVE n - 1 \in S
    <3>1. n \in 1 .. Len(tokens) /\ g[n].ok /\ n - 1 \in 0 .. j
      BY <1>0, <2>2
    <3>2. g[n - 1].ok
      BY <3>1, ParseTurns DEF Turn
    <3> QED
      BY <3>1, <3>2
  <2> HIDE DEF S
  <2> QED
    BY <1>0, <2>1, <2>2, DownInduction
<1>3. ASSUME NEW k \in 0 .. j PROVE g[k].ok /\ g[k].depth \in Int
  <2>1. g[k].ok
    BY <1>2
  <2>2. g[k].depth \in Int
    BY <1>1 DEF ParseRun, Parsers
  <2> QED
    BY <2>1, <2>2
<1>4. D = 0 .. j
  <2>1. D \in SUBSET (0 .. j) /\ 0 \in D
    <3>1. g[0].depth = 0
      BY DEF ParseRun, ParseStart
    <3> QED
      BY <1>0, <3>1
  <2>2. ASSUME NEW n \in D, n < j PROVE n + 1 \in D
    <3> DEFINE k == n + 1
    <3>1. k \in 1 .. Len(tokens) /\ k \in 0 .. j /\ k - 1 = n /\ g[n].depth >= 0
      BY <1>0, <2>2
    <3> HIDE DEF k
    <3>2. Turn(tokens, g, k)
      BY <1>3, <3>1, ParseTurns
    <3>3. /\ g[k].depth \in Int /\ g[n].depth \in Int
          /\ \/ g[k].depth = g[n].depth \/ g[k].depth = g[n].depth + 1
             \/ g[k].depth = g[n].depth - 1 /\ g[n].depth > 0
      BY <3>1, <3>2, Zenon DEF Turn
    <3>4. g[k].depth >= 0
      BY <3>1, <3>3
    <3>5. k \in D
      BY <3>1, <3>4
    <3> QED
      BY <3>5 DEF k
  <2> HIDE DEF D
  <2> QED
    BY <1>0, <2>1, <2>2, UpInduction
<1>5. ASSUME NEW k \in 0 .. j PROVE g[k].depth >= 0
  BY <1>4
<1> QED
  BY <1>3, <1>5

LEMMA WordFollows ==
  ASSUME NEW p, NEW type \in WordTypes
  PROVE  MayFollow(p, type)
BY DEF MayFollow, WordTypes

(* Words are always accepted, and change nothing but what came last.        *)
LEMMA WordsRun ==
  ASSUME NEW tokens, NEW g, ParseRun(tokens, g), NEW i \in 1 .. Len(tokens) + 1,
         NEW k \in i .. Len(tokens) + 1, g[i - 1].ok, WordsFrom(tokens, i, k)
  PROVE  \A n \in i - 1 .. k - 1 :
           /\ g[n].ok /\ g[n].depth = g[i - 1].depth
           /\ n >= i => g[n].last = tokens[n][1]
<1> DEFINE holds(n) == /\ g[n].ok /\ g[n].depth = g[i - 1].depth
                       /\ n >= i => g[n].last = tokens[n][1]
           S == {n \in i - 1 .. k - 1 : holds(n)}
<1>0. Len(tokens) \in Nat /\ i \in Int /\ k \in Int /\ i - 1 \in Int /\ k - 1 \in Int
  BY DEF ParseRun
<1>1. S \in SUBSET (i - 1 .. k - 1) /\ i - 1 \in S
  BY <1>0
<1>2. ASSUME NEW n \in S, n < k - 1 PROVE n + 1 \in S
  <2> DEFINE m == n + 1
  <2>1. /\ m \in 1 .. Len(tokens) /\ m \in i .. k - 1 /\ m \in i - 1 .. k - 1 /\ m - 1 = n
    BY <1>0, <1>2
  <2>2. g[n].ok /\ g[n].depth = g[i - 1].depth
    OBVIOUS
  <2> HIDE DEF m
  <2>3. tokens[m][1] \in WordTypes
    BY <2>1 DEF WordsFrom
  <2>4. MayFollow(g[m - 1], tokens[m][1])
    BY <2>3, WordFollows
  <2>5. g[m].ok
    BY <2>1, <2>2, <2>4, ParseTurn
  <2>6. Turn(tokens, g, m)
    BY <2>1, <2>5, ParseTurns
  <2>7. g[m].last = tokens[m][1] /\ g[m].depth = g[n].depth
    BY <2>1, <2>3, <2>6, Zenon DEF Turn
  <2>8. m \in S
    BY <2>1, <2>2, <2>5, <2>7
  <2> QED
    BY <2>8 DEF m
<1>3. S = i - 1 .. k - 1
  <2> HIDE DEF S
  <2> QED
    BY <1>0, <1>1, <1>2, UpInduction
<1>4. ASSUME NEW n \in i - 1 .. k - 1 PROVE holds(n)
  BY <1>3
<1> QED
  BY <1>4

(* Tokens i .. j are accepted, and leave Parse in the block where it was.   *)
Passed(g, i, j) ==
  g[j].ok /\ g[j].depth = g[i - 1].depth /\ (j >= i => g[j].last \in {";", "}"})

(* What the grammar derives is accepted. *)
LEMMA DerivedPasses ==
  ASSUME NEW tokens, NEW g, ParseRun(tokens, g), NEW C, IsLanguage(tokens, C),
         NEW i \in 1 .. Len(tokens) + 1, NEW j \in 0 .. Len(tokens), <<i, j>> \in C, g[i - 1].ok
  PROVE  Passed(g, i, j)
<1> DEFINE N == Len(tokens)
           goal(a, b) == <<a, b>> \in C /\ g[a - 1].ok => Passed(g, a, b)
           S == {p \in Parts(tokens) : goal(p[1], p[2])}
<1>0. N \in Nat
  BY DEF ParseRun
<1>1. \A a \in 1 .. N + 1, b \in 0 .. N : <<a, b>> \in S <=> goal(a, b)
  BY DEF Parts
<1> HIDE DEF N, S
<1>2. ASSUME NEW a \in 1 .. N + 1, NEW b \in 0 .. N, <<a, b>> \in C, g[a - 1].ok,
             \A c \in 1 .. N + 1, d \in 0 .. N : d - c < b - a => goal(c, d)
      PROVE  Passed(g, a, b)
  <2>1. DerivesIn(tokens, C, a, b)
    BY <1>2 DEF IsLanguage, N
  <2>2. CASE b = a - 1
    <3>1. ~(b >= a)
      BY <2>2, <1>0
    <3> QED
      BY <1>2, <2>2, <3>1 DEF Passed
  <2>3. ASSUME NEW k \in a + 1 .. b, WordsFrom(tokens, a, k),
               tokens[k][1] = ";" /\ <<k + 1, b>> \in C
        PROVE  Passed(g, a, b)
    <3>1. /\ k \in 1 .. N /\ k \in a .. N + 1 /\ k - 1 \in a - 1 .. k - 1 /\ k - 1 >= a
          /\ k - 1 \in a .. k - 1 /\ k + 1 \in 1 .. N + 1 /\ (k + 1) - 1 = k
          /\ b - (k + 1) < b - a /\ (b = k \/ b >= k + 1) /\ b >= k
      BY <1>0
    <3>2. g[k - 1].ok /\ g[k - 1].depth = g[a - 1].depth /\ g[k - 1].last = tokens[k - 1][1]
      <4>1. \A n \in a - 1 .. k - 1 : /\ g[n].ok /\ g[n].depth = g[a - 1].depth
                                      /\ n >= a => g[n].last = tokens[n][1]
        <5>1. /\ a \in 1 .. Len(tokens) + 1 /\ k \in a .. Len(tokens) + 1
              /\ WordsFrom(tokens, a, k) /\ g[a - 1].ok
          BY <1>2, <2>3, <3>1 DEF N
        <5> HIDE DEF N
        <5> QED
          BY <5>1, WordsRun, Zenon
      <4> DEFINE n == k - 1
      <4>2. n \in a - 1 .. k - 1 /\ n >= a
        BY <3>1
      <4> HIDE DEF n
      <4>3. g[n].ok /\ g[n].depth = g[a - 1].depth /\ g[n].last = tokens[n][1]
        BY <4>1, <4>2, Zenon
      <4> QED
        BY <4>3 DEF n
    <3>3. tokens[k - 1][1] \in WordTypes
      BY <2>3, <3>1 DEF WordsFrom
    <3>4. MayFollow(g[k - 1], tokens[k][1])
      BY <2>3, <3>2, <3>3 DEF MayFollow, WordTypes
    <3>5. g[k].ok
      BY <3>1, <3>2, <3>4, ParseTurn DEF N
    <3>6. Turn(tokens, g, k)
      BY <3>1, <3>5, ParseTurns DEF N
    <3>7. g[k].depth = g[k - 1].depth /\ g[k].last = ";"
      BY <2>3, <3>6, Zenon DEF Turn
    <3>8. goal(k + 1, b)
      BY <1>2, <3>1
    <3>9. Passed(g, k + 1, b)
      BY <2>3, <3>1, <3>5, <3>8
    <3>10. g[b].ok /\ g[b].depth = g[k].depth /\ (b >= k + 1 => g[b].last \in {";", "}"})
      BY <3>1, <3>9 DEF Passed
    <3>11. g[b].last \in {";", "}"}
      BY <3>1, <3>7, <3>10
    <3> QED
      BY <3>2, <3>7, <3>10, <3>11, Zenon DEF Passed
  <2>4. ASSUME NEW k \in a + 1 .. b, WordsFrom(tokens, a, k),
               tokens[k][1] = "{", tokens[k - 1][1] = "NORMAL",
               NEW m \in k + 1 .. b, tokens[m][1] = "}",
               <<k + 1, m - 1>> \in C, <<m + 1, b>> \in C
        PROVE  Passed(g, a, b)
    <3>1. /\ k \in 1 .. N /\ k \in a .. N + 1 /\ k - 1 \in a - 1 .. k - 1 /\ k - 1 >= a
          /\ k + 1 \in 1 .. N + 1 /\ (k + 1) - 1 = k /\ k \in 0 .. N /\ k - 1 \in 0 .. k
          /\ m \in 1 .. N /\ m - 1 \in 0 .. N /\ m + 1 \in 1 .. N + 1 /\ (m + 1) - 1 = m
          /\ (m - 1) - (k + 1) < b - a /\ b - (m + 1) < b - a
          /\ (b = m \/ b >= m + 1) /\ (m - 1 = k \/ m - 1 >= k + 1)
      <4>1. /\ a \in Int /\ b \in Int /\ k \in Int /\ m \in Int
            /\ 1 <= a /\ a + 1 <= k /\ k + 1 <= m /\ m <= b /\ b <= N
        BY <1>0
      <4>2. /\ k \in 1 .. N /\ k \in a .. N + 1 /\ k - 1 \in a - 1 .. k - 1 /\ k - 1 >= a
            /\ k + 1 \in 1 .. N + 1 /\ (k + 1) - 1 = k /\ k \in 0 .. N /\ k - 1 \in 0 .. k
        BY <1>0, <4>1
      <4>3. m \in 1 .. N /\ m - 1 \in 0 .. N /\ m + 1 \in 1 .. N + 1 /\ (m + 1) - 1 = m
        BY <1>0, <4>1
      <4>4. (m - 1) - (k + 1) < b - a /\ b - (m + 1) < b - a
        BY <4>1
      <4>5. (b = m \/ b >= m + 1) /\ (m - 1 = k \/ m - 1 >= k + 1)
        BY <4>1
      <4> QED
        BY <4>2, <4>3, <4>4, <4>5
    <3>2. g[k - 1].ok /\ g[k - 1].depth = g[a - 1].depth /\ g[k - 1].last = "NORMAL"
      <4>1. \A n \in a - 1 .. k - 1 : /\ g[n].ok /\ g[n].depth = g[a - 1].depth
                                      /\ n >= a => g[n].last = tokens[n][1]
        <5>1. /\ a \in 1 .. Len(tokens) + 1 /\ k \in a .. Len(tokens) + 1
              /\ WordsFrom(tokens, a, k) /\ g[a - 1].ok
          BY <1>2, <2>4, <3>1 DEF N
        <5> HIDE DEF N
        <5> QED
          BY <5>1, WordsRun, Zenon
      <4> DEFINE n == k - 1
      <4>2. n \in a - 1 .. k - 1 /\ n >= a /\ tokens[n][1] = "NORMAL"
        BY <2>4, <3>1
      <4> HIDE DEF n
      <4>3. g[n].ok /\ g[n].depth = g[a - 1].depth /\ g[n].last = "NORMAL"
        BY <4>1, <4>2, Zenon
      <4> QED
        BY <4>3 DEF n
    <3>3. MayFollow(g[k - 1], tokens[k][1])
      BY <2>4, <3>2 DEF MayFollow, WordTypes
    <3>4. g[k].ok
      BY <3>1, <3>2, <3>3, ParseTurn DEF N
    <3>5. Turn(tokens, g, k)
      BY <3>1, <3>4, ParseTurns DEF N
    <3>6. g[k].depth = g[k - 1].depth + 1 /\ g[k].last = "{" /\ g[k - 1].depth \in Int
      BY <2>4, <3>5, Zenon DEF Turn
    <3>7. g[k - 1].depth >= 0
      BY <3>1, <3>4, ParseOk DEF N
    <3>8. goal(k + 1, m - 1) /\ goal(m + 1, b)
      BY <1>2, <3>1
    <3>9. Passed(g, k + 1, m - 1)
      BY <2>4, <3>1, <3>4, <3>8
    <3>10. /\ g[m - 1].ok /\ g[m - 1].depth = g[k].depth
           /\ m - 1 >= k + 1 => g[m - 1].last \in {";", "}"}
      BY <3>1, <3>9 DEF Passed
    <3>11. g[m - 1].last \in {";", "}", "{"}
      BY <3>1, <3>6, <3>10
    <3>12. g[m - 1].depth > 0
      <4> DEFINE d == g[k - 1].depth
      <4>1. d \in Int /\ d >= 0 /\ g[m - 1].depth = d + 1
        BY <3>6, <3>7, <3>10
      <4> HIDE DEF d
      <4> QED
        BY <4>1
    <3>13. MayFollow(g[m - 1], tokens[m][1])
      BY <2>4, <3>11, <3>12 DEF MayFollow, WordTypes
    <3>14. g[m].ok
      BY <3>1, <3>10, <3>13, ParseTurn DEF N
    <3>15. Turn(tokens, g, m)
      BY <3>1, <3>14, ParseTurns DEF N
    <3>16. g[m].depth = g[m - 1].depth - 1 /\ g[m].last = "}"
      BY <2>4, <3>15, Zenon DEF Turn
    <3>17. Passed(g, m + 1, b)
      BY <2>4, <3>1, <3>8, <3>14
    <3>18. g[b].ok /\ g[b].depth = g[m].depth /\ (b >= m + 1 => g[b].last \in {";", "}"})
      BY <3>1, <3>17 DEF Passed
    <3>19. g[m].depth = g[a - 1].depth
      <4> DEFINE d == g[k - 1].depth
      <4>1. d \in Int /\ d = g[a - 1].depth /\ g[m].depth = (d + 1) - 1
        BY <3>2, <3>6, <3>10, <3>16
      <4> HIDE DEF d
      <4> QED
        BY <4>1
    <3>20. g[b].last \in {";", "}"}
      BY <3>1, <3>16, <3>18
    <3> QED
      BY <3>18, <3>19, <3>20, Zenon DEF Passed
  <2> QED
    BY <2>1, <2>2, <2>3, <2>4, Zenon DEF DerivesIn
<1>3. \A a \in 1 .. N + 1, b \in 0 .. N :
        (\A c \in 1 .. N + 1, d \in 0 .. N : d - c < b - a => goal(c, d)) => goal(a, b)
  BY <1>2
<1>4. \A a \in 1 .. N + 1, b \in 0 .. N :
        (\A c \in 1 .. N + 1, d \in 0 .. N : d - c < b - a => <<c, d>> \in S) => <<a, b>> \in S
  <2> HIDE DEF goal
  <2> QED
    BY <1>1, <1>3
<1>5. \A a \in 1 .. N + 1, b \in 0 .. N : <<a, b>> \in S
  <2> HIDE DEF goal
  <2> QED
    BY <1>0, <1>4, PartInduction
<1> QED
  BY <1>1, <1>5 DEF N

LEMMA OneLess ==
  ASSUME NEW d \in Int, NEW e \in Int, e >= d + 1
  PROVE  d # e /\ d # e + 1 /\ d + 1 # e + 1 /\ (d = e - 1 => e = d + 1)
OBVIOUS

(* The same, of tokens behind a delimiter, where no block is left that was  *)
(* entered before.                                                          *)
Balanced(g, i, j) ==
  /\ j >= i - 1 /\ Passed(g, i, j) /\ g[i - 1].last \notin WordTypes
  /\ \A k \in i .. j : g[k].depth >= g[i - 1].depth

(* What is accepted, the grammar derives. *)
LEMMA BalancedDerives ==
  ASSUME NEW tokens, NEW g, ParseRun(tokens, g), NEW C, IsLanguage(tokens, C),
         NEW i \in 1 .. Len(tokens) + 1, NEW j \in 0 .. Len(tokens), Balanced(g, i, j)
  PROVE  <<i, j>> \in C
<1> DEFINE N == Len(tokens)
           goal(a, b) == Balanced(g, a, b) => <<a, b>> \in C
           S == {p \in Parts(tokens) : goal(p[1], p[2])}
<1>0. N \in Nat
  BY DEF ParseRun
<1>1. \A a \in 1 .. N + 1, b \in 0 .. N : <<a, b>> \in S <=> goal(a, b)
  BY DEF Parts
<1> HIDE DEF N, S
<1>2. ASSUME NEW a \in 1 .. N + 1, NEW b \in 0 .. N, Balanced(g, a, b), b # a - 1,
             \A c \in 1 .. N + 1, d \in 0 .. N : d - c < b - a => goal(c, d)
      PROVE  DerivesIn(tokens, C, a, b)
  <2> DEFINE d == g[a - 1].depth
             K == {k \in a .. b : tokens[k][1] \notin WordTypes}
  <2>1. b >= a /\ b \in 1 .. N /\ b \in a .. b /\ a - 1 \in 0 .. b
    BY <1>0, <1>2 DEF Balanced
  <2>2. /\ g[b].ok /\ g[b].depth = d /\ g[b].last \in {";", "}"}
        /\ g[a - 1].last \notin WordTypes /\ \A n \in a .. b : g[n].depth >= d
    BY <1>2, <2>1 DEF Balanced, Passed
  <2> HIDE DEF d
  <2>3. \A n \in 0 .. b : g[n].ok /\ g[n].depth \in Int
    BY <2>1, <2>2, ParseOk DEF N
  <2>4. \A n \in 1 .. b : Turn(tokens, g, n)
    <3> SUFFICES ASSUME NEW n \in 1 .. b PROVE Turn(tokens, g, n)
      OBVIOUS
    <3>1. n \in 0 .. b /\ n \in 1 .. N
      BY <1>0
    <3> QED
      BY <2>3, <3>1, ParseTurns DEF N
  <2>5. d \in Int
    BY <2>1, <2>3 DEF d
  <2>6. b \in K
    <3>1. b \in 1 .. b
      BY <2>1
    <3>2. tokens[b][1] = g[b].last
      BY <2>4, <3>1, Zenon DEF Turn
    <3> QED
      BY <2>1, <2>2, <3>2 DEF WordTypes
  <2>7. PICK k \in K : \A n \in K : k <= n
    <3>1. K \in SUBSET Nat
      BY <1>0
    <3> HIDE DEF K
    <3> QED
      BY <2>6, <3>1, NatMinimum
  <2>8. /\ k \in a .. b /\ tokens[k][1] \notin WordTypes
         /\ \A n \in a .. b : tokens[n][1] \notin WordTypes => k <= n
    BY <2>7
  <2> HIDE DEF K
  <2>9. k \in Int /\ a \in Int /\ b \in Int /\ a >= 1 /\ a <= k /\ k <= b /\ b <= N
    BY <1>0, <2>8
  <2>10. /\ k \in a .. b /\ k \in 1 .. b /\ k \in a .. N + 1 /\ k - 1 \in a - 1 .. k - 1
        /\ k - 1 \in 0 .. b /\ k + 1 \in 1 .. N + 1 /\ (k + 1) - 1 = k
        /\ (k = a \/ (k \in a + 1 .. b /\ k - 1 >= a))
    BY <1>0, <2>9
  <2>11. WordsFrom(tokens, a, k)
    <3> SUFFICES ASSUME NEW n \in a .. k - 1, tokens[n][1] \notin WordTypes PROVE FALSE
      BY DEF WordsFrom
    <3>1. n \in a .. b /\ ~(k <= n)
      BY <2>9
    <3> QED
      BY <2>8, <3>1
  <2>12. /\ g[k - 1].depth = d
         /\ k # a => g[k - 1].last = tokens[k - 1][1]
    <3>1. g[a - 1].ok
      BY <2>1, <2>3
    <3>2. \A n \in a - 1 .. k - 1 : /\ g[n].ok /\ g[n].depth = d
                                    /\ n >= a => g[n].last = tokens[n][1]
      BY <2>10, <2>11, <3>1, WordsRun DEF N, d
    <3> DEFINE n == k - 1
    <3>3. n \in a - 1 .. k - 1 /\ (k # a => n >= a)
      BY <2>10
    <3> HIDE DEF n
    <3>4. g[n].depth = d /\ (k # a => g[n].last = tokens[n][1])
      BY <3>2, <3>3, Zenon
    <3> QED
      BY <3>4 DEF n
  <2>13. Turn(tokens, g, k) /\ g[k].ok /\ g[k].depth \in Int
    <3>1. k \in 1 .. b /\ k \in 0 .. b
      BY <2>9
    <3> QED
      BY <2>3, <2>4, <3>1
  <2>14. k = a => g[k - 1].last \notin WordTypes
    BY <2>2
  <2>15. g[k].last = tokens[k][1] /\ tokens[k][1] \in {";", "{", "}"}
    <3>1. tokens[k][1] \notin WordTypes
      BY <2>8
    <3>2. tokens[k][1] \in WordTypes \cup {";", "{", "}"} /\ g[k].last = tokens[k][1]
      BY <2>13, Zenon DEF Turn
    <3> QED
      BY <3>1, <3>2
  <2>16. CASE tokens[k][1] = "}"
    <3>1. g[k].depth = g[k - 1].depth - 1
      BY <2>13, <2>16, Zenon DEF Turn
    <3>2. g[k].depth = d - 1 /\ g[k].depth >= d
      BY <2>2, <2>10, <2>12, <3>1
    <3> QED
      BY <2>5, <3>2
  <2>17. CASE tokens[k][1] = ";"
    <3>1. g[k].depth = d /\ g[k - 1].last \in WordTypes
      BY <2>12, <2>13, <2>17, Zenon DEF Turn
    <3>2. k \in a + 1 .. b
      BY <2>10, <2>14, <3>1
    <3>3. Balanced(g, k + 1, b)
      <4>1. b >= k /\ (b >= k + 1 => g[b].last \in {";", "}"})
        BY <2>2, <2>9
      <4>2. g[k].last \notin WordTypes
        BY <2>15, <2>17 DEF WordTypes
      <4>3. \A n \in k + 1 .. b : g[n].depth >= d
        <5>1. \A n \in k + 1 .. b : n \in a .. b
          BY <2>9
        <5> QED
          BY <2>2, <5>1
      <4> QED
        BY <2>2, <2>10, <3>1, <4>1, <4>2, <4>3 DEF Balanced, Passed
    <3>4. b - (k + 1) < b - a
      BY <2>10
    <3>5. <<k + 1, b>> \in C
      BY <1>2, <2>10, <3>3, <3>4
    <3> QED
      BY <2>11, <2>17, <3>2, <3>5 DEF DerivesIn
  <2>18. CASE tokens[k][1] = "{"
    <3> DEFINE M == {m \in k + 1 .. b : g[m].depth = d}
    <3>1. g[k].depth = d + 1 /\ g[k - 1].last = "NORMAL"
      BY <2>12, <2>13, <2>18, Zenon DEF Turn
    <3>2. k # a
      BY <2>14, <3>1 DEF WordTypes
    <3>3. k \in a + 1 .. b /\ tokens[k - 1][1] = "NORMAL"
      BY <2>10, <2>12, <3>1, <3>2
    <3>4. g[k].depth # d
      BY <2>5, <3>1
    <3>5. b \in M
      <4>1. b # k
        BY <2>2, <3>4
      <4>2. b \in k + 1 .. b
        BY <2>9, <4>1
      <4> QED
        BY <2>2, <4>2
    <3>6. PICK m \in M : \A n \in M : m <= n
      <4>1. M \in SUBSET Nat
        BY <2>9
      <4> HIDE DEF M
      <4> QED
        BY <3>5, <4>1, NatMinimum
    <3>7. /\ m \in k + 1 .. b /\ g[m].depth = d
          /\ \A n \in k + 1 .. b : g[n].depth = d => m <= n
      BY <3>6
    <3> HIDE DEF M
    <3>8. m \in Int /\ k + 1 <= m /\ m <= b
      BY <2>9, <3>7
    <3>9. m - 1 >= k + 1 =>
             m - 1 \in 1 .. b /\ (m - 1) - 1 \in k .. m - 1 /\ (m - 1) - 1 \in 0 .. b
      BY <2>9, <3>8
    <3>10. /\ m \in 1 .. b /\ m - 1 \in 0 .. N /\ m - 1 \in 0 .. b /\ m + 1 \in 1 .. N + 1
          /\ (m + 1) - 1 = m /\ (m - 1) - (k + 1) < b - a /\ b - (m + 1) < b - a
          /\ m - 1 \in k .. m - 1 /\ m \in a .. b /\ b >= m /\ m - 1 >= k
      BY <1>0, <2>9, <3>8
    <3>11. \A n \in k .. m - 1 : g[n].depth >= d + 1
      <4> SUFFICES ASSUME NEW n \in k .. m - 1 PROVE g[n].depth >= d + 1
        OBVIOUS
      <4>1. n \in a .. b /\ n \in 0 .. b /\ (n = k \/ n \in k + 1 .. b) /\ ~(m <= n)
        BY <2>9, <3>8
      <4>3. g[n].depth # d
        BY <3>4, <3>7, <4>1
      <4>4. g[n].depth >= d /\ g[n].depth \in Int
        BY <2>2, <2>3, <4>1
      <4> QED
        BY <2>5, <4>3, <4>4
    <3>12. g[m - 1].depth >= d + 1 /\ g[m - 1].depth \in Int /\ g[m - 1].ok
      BY <2>3, <3>10, <3>11
    <3>13. Turn(tokens, g, m)
      BY <2>4, <3>10
    <3>14. \/ tokens[m][1] = "}" /\ g[m].depth = g[m - 1].depth - 1
           \/ g[m].depth = g[m - 1].depth
           \/ g[m].depth = g[m - 1].depth + 1
      BY <3>13, Zenon DEF Turn
    <3>15. tokens[m][1] = "}" /\ g[m - 1].depth = d + 1
      <4> DEFINE e == g[m - 1].depth
      <4>1. e >= d + 1 /\ e \in Int
        BY <3>12
      <4>2. (tokens[m][1] = "}" /\ d = e - 1) \/ d = e \/ d = e + 1
        BY <3>7, <3>14
      <4> HIDE DEF e
      <4>3. tokens[m][1] = "}" /\ e = d + 1
        BY <2>5, <4>1, <4>2, OneLess, Zenon
      <4> QED
        BY <4>3 DEF e
    <3>16. g[m - 1].last \in {";", "}", "{"} /\ g[m].last = "}" /\ g[m].ok
      <4>1. g[m - 1].last \in {";", "}", "{"} /\ g[m].last = "}"
        BY <3>13, <3>15, Zenon DEF Turn
      <4>2. m \in 0 .. b
        BY <3>10
      <4> QED
        BY <2>3, <4>1, <4>2
    <3>17. m - 1 >= k + 1 => g[m - 1].last # "{"
      <4> SUFFICES ASSUME m - 1 >= k + 1, g[m - 1].last = "{" PROVE FALSE
        OBVIOUS
      <4> DEFINE l == m - 1
      <4>1. l \in 1 .. b /\ l - 1 \in k .. m - 1 /\ l - 1 \in 0 .. b
        BY <3>9
      <4>2. Turn(tokens, g, l) /\ g[l].last = "{" /\ g[l].depth = d + 1
        BY <2>4, <3>15, <4>1
      <4>3. g[l - 1].depth >= d + 1 /\ g[l - 1].depth \in Int
        BY <2>3, <3>11, <4>1
      <4> HIDE DEF l
      <4>4. g[l].depth = g[l - 1].depth + 1
        BY <4>2, Zenon DEF Turn
      <4> DEFINE e == g[l - 1].depth
      <4>5. e \in Int /\ e >= d + 1 /\ d + 1 = e + 1
        BY <4>2, <4>3, <4>4
      <4> HIDE DEF e
      <4> QED
        BY <2>5, <4>5, OneLess, Zenon
    <3>18. Balanced(g, k + 1, m - 1)
      <4>1. m - 1 >= k + 1 => g[m - 1].last \in {";", "}"}
        BY <3>16, <3>17
      <4>2. g[k].last \notin WordTypes
        BY <2>15, <2>18 DEF WordTypes
      <4>3. \A n \in k + 1 .. m - 1 : g[n].depth >= g[k].depth
        <5>1. \A n \in k + 1 .. m - 1 : n \in k .. m - 1
          BY <2>9, <3>8
        <5> QED
          BY <3>1, <3>11, <5>1
      <4>4. g[m - 1].depth = g[k].depth
        BY <3>1, <3>15
      <4> QED
        BY <2>10, <3>10, <3>12, <4>1, <4>2, <4>3, <4>4 DEF Balanced, Passed
    <3>19. Balanced(g, m + 1, b)
      <4>1. b >= m + 1 => g[b].last \in {";", "}"}
        BY <2>2
      <4>2. g[m].last \notin WordTypes
        BY <3>16 DEF WordTypes
      <4>3. \A n \in m + 1 .. b : g[n].depth >= g[m].depth
        <5>1. \A n \in m + 1 .. b : n \in a .. b
          BY <2>9, <3>8
        <5> QED
          BY <2>2, <3>7, <5>1
      <4>4. g[b].depth = g[m].depth
        BY <2>2, <3>7
      <4> QED
        BY <2>2, <3>10, <4>1, <4>2, <4>3, <4>4 DEF Balanced, Passed
    <3>20. <<k + 1, m - 1>> \in C /\ <<m + 1, b>> \in C
      BY <1>2, <2>10, <3>10, <3>18, <3>19
    <3> QED
      BY <2>11, <2>18, <3>3, <3>7, <3>15, <3>20 DEF DerivesIn
  <2> QED
    BY <2>15, <2>16, <2>17, <2>18
<1>3. ASSUME NEW a \in 1 .. N + 1, NEW b \in 0 .. N, Balanced(g, a, b),
             \A c \in 1 .. N + 1, d \in 0 .. N : d - c < b - a => goal(c, d)
      PROVE  <<a, b>> \in C
  <2>1. DerivesIn(tokens, C, a, b)
    <3>1. CASE b = a - 1
      BY <3>1 DEF DerivesIn
    <3>2. CASE b # a - 1
      BY <1>2, <1>3, <3>2
    <3> QED
      BY <3>1, <3>2
  <2> QED
    BY <2>1 DEF IsLanguage, N
<1>4. \A a \in 1 .. N + 1, b \in 0 .. N :
        (\A c \in 1 .. N + 1, d \in 0 .. N : d - c < b - a => goal(c, d)) => goal(a, b)
  BY <1>3
<1>5. \A a \in 1 .. N + 1, b \in 0 .. N :
        (\A c \in 1 .. N + 1, d \in 0 .. N : d - c < b - a => <<c, d>> \in S) => <<a, b>> \in S
  <2> HIDE DEF goal
  <2> QED
    BY <1>1, <1>4
<1>6. \A a \in 1 .. N + 1, b \in 0 .. N : <<a, b>> \in S
  <2> HIDE DEF goal
  <2> QED
    BY <1>0, <1>5, PartInduction
<1> QED
  BY <1>1, <1>6 DEF N

(* The automaton of Parse accepts the configurations.                       *)
LEMMA ParseAccepts ==
  ASSUME NEW tokens \in Tokens
  PROVE  Complete(FoldLeft(ParseStep, ParseStart, tokens)).ok <=> IsConfig(tokens)
<1> DEFINE N == Len(tokens)
<1>1. N \in Nat
  BY DEF Tokens
<1>2. PICK g : ParseRun(tokens, g) /\ FoldLeft(ParseStep, ParseStart, tokens) = g[N]
  BY ParseRuns
<1>3. PICK C : IsLanguage(tokens, C) /\ (IsConfig(tokens) <=> <<1, N>> \in C)
  BY <1>1, IsConfigMeans
<1> DEFINE accepts == g[N].ok /\ g[N].depth = 0 /\ g[N].last \in {"START", ";", "}"}
<1>4. Complete(FoldLeft(ParseStep, ParseStart, tokens)).ok <=> accepts
  BY <1>2 DEF Complete
<1>5. g[0].ok /\ g[0].depth = 0 /\ g[0].last = "START"
  BY <1>2 DEF ParseRun, ParseStart
<1>6. N = 0 \/ N >= 1
  BY <1>1
<1>7. N \in 0 .. N /\ 1 \in 1 .. N + 1 /\ 1 - 1 = 0 /\ N >= 0
  BY <1>1
<1> HIDE DEF N
<1>8. ASSUME accepts PROVE <<1, N>> \in C
  <2>1. \A k \in 0 .. N : g[k].depth >= 0
    BY <1>2, <1>7, <1>8, ParseOk DEF N
  <2>2. \A k \in 1 .. N : k \in 0 .. N
    BY <1>1
  <2>3. N >= 1 => g[N].last \in {";", "}"}
    <3> SUFFICES ASSUME N >= 1 PROVE g[N].last \in {";", "}"}
      OBVIOUS
    <3>1. N \in 1 .. N
      BY <1>1
    <3>2. Turn(tokens, g, N)
      BY <1>2, <1>8, <3>1, ParseTurns DEF N
    <3>3. g[N].last \in WordTypes \cup {";", "{", "}"}
      BY <3>2 DEF Turn
    <3> QED
      BY <1>8, <3>3 DEF WordTypes
  <2>4. Passed(g, 1, N)
    BY <1>5, <1>7, <1>8, <2>3 DEF Passed
  <2>5. Balanced(g, 1, N)
    BY <1>5, <1>7, <2>1, <2>2, <2>4 DEF Balanced, WordTypes
  <2> QED
    BY <1>2, <1>3, <1>7, <2>5, BalancedDerives DEF N
<1>9. ASSUME <<1, N>> \in C PROVE accepts
  <2>1. Passed(g, 1, N)
    BY <1>2, <1>3, <1>5, <1>7, <1>9, DerivedPasses DEF N
  <2>2. g[N].ok /\ g[N].depth = 0 /\ (N >= 1 => g[N].last \in {";", "}"})
    BY <1>5, <1>7, <2>1 DEF Passed
  <2>3. g[N].last \in {"START", ";", "}"}
    <3>1. CASE N = 0
      BY <1>5, <3>1
    <3>2. CASE N >= 1
      BY <2>2, <3>2
    <3> QED
      BY <1>6, <3>1, <3>2
  <2> QED
    BY <2>2, <2>3
<1> QED
  BY <1>3, <1>4, <1>8, <1>9 DEF N

-------------------------------------------------------------------------------
(* What parseConfig has been given *)

Given == phase = "parsed" => file \in Files /\ config = ParseFile(file)

LEMMA NextGiven == Inv /\ Given /\ [Next]_vars => Given'
<1> SUFFICES ASSUME Inv, Given, [Next]_vars PROVE Given'
  OBVIOUS
<1>1. CASE ReadFile
  BY <1>1 DEF ReadFile, Given, Inv, Main
<1>2. CASE ReadConfig
  BY <1>2 DEF ReadConfig, Given
<1>3. CASE Listen \/ ListenFails
  BY <1>3 DEF Listen, ListenFails, Given
<1>4. ASSUME NEW w \in Workers,
             \/ \E r \in Requests : \E n \in 1 .. Len(r) : Receive(w, r, n)
             \/ \E key \in todo[w] : Consider(w, key)
             \/ Stray(w) \/ RaceFaults(w) \/ Choose(w) \/ BeginInsert(w) \/ Insert(w)
             \/ Call(w) \/ CallFails(w) \/ CallThrows(w)
      PROVE  Given'
  <2>1. phase = "serve" /\ phase' \in {"serve", "ended"}
    BY <1>4 DEF Receive, Consider, Stray, RaceFaults, Choose, BeginInsert, Insert, Call, CallFails,
                CallThrows
  <2> QED
    BY <2>1 DEF Given
<1>5. CASE UNCHANGED vars
  BY <1>5 DEF vars, Given
<1> QED
  BY <1>1, <1>2, <1>3, <1>4, <1>5 DEF Next

LEMMA GivenAccepted == Given => AcceptedIsGrammar
<1> SUFFICES ASSUME phase = "parsed", file # Unreadable, file \in Files, config = ParseFile(file)
             PROVE  config.ok <=> IsConfig(Lex(file))
  BY DEF Given, AcceptedIsGrammar
<1>1. file \in Text
  BY FileIsText
<1>2. Lex(file) \in Tokens
  BY <1>1, LexTyped
<1>3. config = Complete(FoldLeft(ParseStep, ParseStart, Lex(file)))
  BY DEF ParseFile, Parse, ParseStart
<1> QED
  BY <1>2, <1>3, ParseAccepts

(* For any file, the parser accepts just the configurations of the grammar  *)
(* (NginxConfigParser::Parse).                                              *)
THEOREM GrammarIsAccepted == Spec => []AcceptedIsGrammar
<1>1. Init => Given
  BY DEF Init, Given
<1>2. Spec => []Given
  BY <1>1, NextGiven, SpecInv, PTL DEF Spec
<1> QED
  BY <1>2, GivenAccepted, PTL

-------------------------------------------------------------------------------
(* FlattenSeq *)

FlattenTurn(ss, A) == [p \in Seq(A) \X (1 .. Len(ss)) |-> p[1] \o ss[p[2]]]

LEMMA FlattenTurns ==
  ASSUME NEW A, NEW ss \in Seq(Seq(A))
  PROVE  \E g : /\ Turns(g, Len(ss), Seq(A), <<>>, FlattenTurn(ss, A))
                /\ FlattenSeq(ss) = g[Len(ss)]
<1> DEFINE N == Len(ss)
           F == FlattenTurn(ss, A)
           Rec(f) == f = [i \in 1 .. N |-> IF i = 1 THEN ss[i] ELSE f[i - 1] \o ss[i]]
           f == CHOOSE h : Rec(h)
<1>1. N \in Nat /\ \A i \in 1 .. N : ss[i] \in Seq(A)
  OBVIOUS
<1>2. <<>> \in Seq(A) /\ F \in [Seq(A) \X (1 .. N) -> Seq(A)]
  BY DEF FlattenTurn
<1> HIDE DEF N, F
<1>3. PICK h : FoldsTo(h, N, Seq(A), <<>>, F)
  BY <1>1, <1>2, FoldExists
<1>4. PICK g : Turns(g, N, Seq(A), <<>>, F)
  BY <1>1, <1>3, FoldTurns
<1>5. g[0] = <<>> /\ \A k \in 0 .. N : g[k] \in Seq(A)
  BY <1>4 DEF Turns
<1>6. ASSUME NEW k \in 1 .. N PROVE g[k] = g[k - 1] \o ss[k]
  <2>1. k - 1 \in 0 .. N - 1 /\ k - 1 \in 0 .. N /\ (k - 1) + 1 = k
    BY <1>1
  <2>2. g[(k - 1) + 1] = F[<<g[k - 1], (k - 1) + 1>>]
    BY <1>4, <2>1 DEF Turns
  <2> QED
    BY <1>5, <2>1, <2>2 DEF F, FlattenTurn, N
<1>7. N # 0 => g[1] = ss[1]
  <2> SUFFICES ASSUME N # 0 PROVE g[1] = ss[1]
    OBVIOUS
  <2>1. 1 \in 1 .. N
    BY <1>1
  <2>2. g[1] = <<>> \o ss[1]
    <3>1. ASSUME NEW k \in 1 .. N, k = 1 PROVE g[k] = g[0] \o ss[k]
      <4>1. k - 1 = 0
        BY <3>1
      <4>2. g[k] = g[k - 1] \o ss[k]
        BY <1>6
      <4> QED
        BY <4>1, <4>2
    <3> QED
      BY <1>5, <2>1, <3>1
  <2> QED
    BY <1>1, <2>1, <2>2
<1>8. CASE N = 0
  <2>1. FlattenSeq(ss) = <<>>
    BY <1>8 DEF FlattenSeq, N
  <2> QED
    BY <1>4, <1>5, <1>8, <2>1 DEF N, F
<1>9. CASE N # 0
  <2>1. FlattenSeq(ss) = f[N]
    BY <1>9 DEF FlattenSeq, N
  <2>2. Rec(f)
    <3>1. Rec([i \in 1 .. N |-> g[i]])
      <4> DEFINE e == [i \in 1 .. N |-> g[i]]
      <4>1. ASSUME NEW i \in 1 .. N PROVE e[i] = IF i = 1 THEN ss[i] ELSE e[i - 1] \o ss[i]
        <5>1. i # 1 => i - 1 \in 1 .. N
          BY <1>1
        <5> QED
          BY <1>6, <1>7, <1>9, <5>1
      <4> QED
        BY <4>1
    <3> HIDE DEF Rec
    <3> QED
      BY <3>1
  <2> HIDE DEF f
  <2> DEFINE S == {i \in 1 .. N : f[i] = g[i]}
  <2>3. 1 \in S
    BY <1>1, <1>7, <1>9, <2>2
  <2>4. ASSUME NEW i \in S, i < N PROVE i + 1 \in S
    <3> DEFINE k == i + 1
    <3>1. k \in 1 .. N /\ k - 1 = i /\ k # 1
      BY <1>1, <2>4
    <3> HIDE DEF k
    <3>2. f[k] = f[k - 1] \o ss[k]
      BY <2>2, <3>1
    <3>3. k \in S
      BY <1>6, <3>1, <3>2
    <3> QED
      BY <3>3 DEF k
  <2>5. S = 1 .. N
    <3>1. S \in SUBSET (1 .. N) /\ 1 \in Int /\ N \in Int
      BY <1>1
    <3> HIDE DEF S
    <3> QED
      BY <2>3, <2>4, <3>1, UpInduction
  <2>6. N \in 1 .. N
    BY <1>1, <1>9
  <2>7. f[N] = g[N]
    BY <2>5, <2>6
  <2> QED
    BY <1>4, <2>1, <2>7 DEF N, F
<1> QED
  BY <1>8, <1>9

(* The pieces of a longer sequence are written behind each other. *)
LEMMA FlattenAppend ==
  ASSUME NEW A, NEW ss \in Seq(Seq(A)), NEW s \in Seq(A)
  PROVE  /\ FlattenSeq(ss) \in Seq(A)
         /\ FlattenSeq(Append(ss, s)) = FlattenSeq(ss) \o s
<1> DEFINE t == Append(ss, s)
           N == Len(ss)
           M == Len(t)
           F == FlattenTurn(ss, A)
           G == FlattenTurn(t, A)
<1>1. /\ N \in Nat /\ t \in Seq(Seq(A)) /\ M = N + 1 /\ t[M] = s
      /\ \A i \in 1 .. N : t[i] = ss[i] /\ i \in 1 .. M
  OBVIOUS
<1>2. PICK g : Turns(g, N, Seq(A), <<>>, F) /\ FlattenSeq(ss) = g[N]
  BY FlattenTurns
<1>3. PICK h : Turns(h, M, Seq(A), <<>>, G) /\ FlattenSeq(t) = h[M]
  BY <1>1, FlattenTurns
<1>4. SameTurns(N, Seq(A), F, G)
  <2>1. \A v \in Seq(A), i \in 1 .. N : F[<<v, i>>] = v \o ss[i]
    BY DEF FlattenTurn
  <2>2. \A v \in Seq(A), i \in 1 .. M : G[<<v, i>>] = v \o t[i]
    BY DEF FlattenTurn
  <2>3. \A i \in 1 .. N : i \in 1 .. M /\ t[i] = ss[i]
    BY <1>1
  <2> HIDE DEF F, G, N, M, t
  <2>4. ASSUME NEW v \in Seq(A), NEW i \in 1 .. N PROVE F[<<v, i>>] = G[<<v, i>>]
    <3>1. i \in 1 .. M /\ t[i] = ss[i]
      BY <2>3, Zenon
    <3>2. F[<<v, i>>] = v \o ss[i]
      BY <2>1, Zenon
    <3>3. G[<<v, i>>] = v \o t[i]
      BY <2>2, <3>1, Zenon
    <3> QED
      BY <3>1, <3>2, <3>3, Zenon
  <2> QED
    BY <2>4 DEF SameTurns
<1>5. \A v \in Seq(A) : G[<<v, M>>] = v \o s
  <2>1. \A v \in Seq(A), i \in 1 .. M : G[<<v, i>>] = v \o t[i]
    BY DEF FlattenTurn
  <2>2. M \in 1 .. M
    BY <1>1
  <2> HIDE DEF G, M, t
  <2> QED
    BY <1>1, <2>1, <2>2
<1> HIDE DEF t, N, M, F, G
<1>6. OneMore(N, M, Seq(A), <<>>, F, G, g, h)
  BY <1>1, <1>2, <1>3, <1>4 DEF OneMore
<1>7. h[M] = G[<<g[N], M>>]
  BY <1>6, TurnsAppend
<1>8. g[N] \in Seq(A)
  BY <1>1, <1>2, TurnsTyped
<1> QED
  BY <1>2, <1>3, <1>5, <1>7, <1>8 DEF t

LEMMA FlattenEmpty == FlattenSeq(<<>>) = <<>>
BY DEF FlattenSeq

-------------------------------------------------------------------------------
(* Texts behind each other *)

LEMMA Joined ==
  ASSUME NEW a \in Text, NEW b \in Text
  PROVE  a \o b \in Text
BY DEF Text

LEMMA JoinedEmpty ==
  ASSUME NEW a \in Text
  PROVE  <<>> \in Text /\ a \o <<>> = a /\ <<>> \o a = a
BY DEF Text

LEMMA JoinedTwice ==
  ASSUME NEW a \in Text, NEW b \in Text, NEW c \in Text
  PROVE  (a \o b) \o c = a \o (b \o c)
BY DEF Text

(* The same, for steps with many texts around. *)
Associates(a, b, c) == (a \o b) \o c = a \o (b \o c)

LEMMA JoinedAssociates ==
  ASSUME NEW a \in Text, NEW b \in Text, NEW c \in Text
  PROVE  Associates(a, b, c)
BY JoinedTwice DEF Associates

LEMMA JoinedAppend ==
  ASSUME NEW a \in Text, NEW b \in Text, NEW c \in Symbols
  PROVE  Append(b, c) \in Text /\ a \o Append(b, c) = Append(a \o b, c)
BY DEF Text

(* One piece more. *)
LEMMA FlattenMore ==
  ASSUME NEW ss \in Seq(Text), NEW tt \in Seq(Text), Len(tt) = Len(ss) + 1,
         \A i \in 1 .. Len(ss) : tt[i] = ss[i]
  PROVE  /\ FlattenSeq(ss) \in Text /\ tt[Len(ss) + 1] \in Text
         /\ FlattenSeq(tt) = FlattenSeq(ss) \o tt[Len(ss) + 1]
<1> DEFINE n == Len(ss)
           s == tt[n + 1]
           uu == Append(ss, s)
<1>1. n \in Nat /\ n + 1 \in 1 .. Len(tt) /\ s \in Text
  OBVIOUS
<1>2. uu \in Seq(Text) /\ Len(uu) = n + 1 /\ uu[n + 1] = s /\ \A i \in 1 .. n : uu[i] = ss[i]
  BY <1>1, AppendProperties
<1> HIDE DEF uu, n
<1>3. ASSUME NEW i \in 1 .. n + 1 PROVE uu[i] = tt[i]
  <2>1. i \in 1 .. n \/ i = n + 1
    BY <1>1
  <2> QED
    BY <1>2, <2>1 DEF n
<1>4. uu = tt
  BY <1>1, <1>2, <1>3, SeqEqual DEF n
<1>5. FlattenSeq(ss) \in Text /\ FlattenSeq(uu) = FlattenSeq(ss) \o s
  BY <1>1, FlattenAppend DEF Text, uu
<1> QED
  BY <1>1, <1>4, <1>5 DEF n

(* A sequence of pieces that is given by its elements. *)
LEMMA FlattenOf ==
  ASSUME NEW n \in Nat, NEW f, \A i \in 1 .. n + 1 : f[i] \in Text
  PROVE  /\ FlattenSeq([i \in 1 .. n |-> f[i]]) \in Text
         /\ FlattenSeq([i \in 1 .. n + 1 |-> f[i]]) =
              FlattenSeq([i \in 1 .. n |-> f[i]]) \o f[n + 1]
<1> DEFINE ss == [i \in 1 .. n |-> f[i]]
           tt == [i \in 1 .. n + 1 |-> f[i]]
<1>1. /\ ss \in Seq(Text) /\ tt \in Seq(Text) /\ Len(ss) = n /\ Len(tt) = n + 1
      /\ n + 1 \in 1 .. n + 1 /\ \A i \in 1 .. n : i \in 1 .. n + 1
  OBVIOUS
<1>2. tt[n + 1] = f[n + 1] /\ \A i \in 1 .. n : tt[i] = ss[i]
  BY <1>1
<1> HIDE DEF ss, tt
<1> QED
  BY <1>1, <1>2, FlattenMore DEF ss, tt

LEMMA FlattenNone ==
  ASSUME NEW n \in Int, n <= 0, NEW f
  PROVE  FlattenSeq([i \in 1 .. n |-> f[i]]) = <<>>
<1>1. 1 .. n = {}
  OBVIOUS
<1>2. [i \in 1 .. n |-> f[i]] = <<>>
  BY <1>1
<1> QED
  BY <1>2, FlattenEmpty

-------------------------------------------------------------------------------
(* Indentation and the ends of blocks *)

Indent(n) == Times(n, <<"ws">>)

LEMMA SmallTexts ==
  /\ <<>> \in Text /\ \A c \in Symbols : <<c>> \in Text /\ <<c>> = Append(<<>>, c)
  /\ "ws" \in Symbols /\ "nl" \in Symbols /\ ";" \in Symbols /\ "{" \in Symbols /\ "}" \in Symbols
  /\ \A c, d \in Symbols : <<c, d>> \in Text /\ <<c, d>> = Append(<<c>>, d)
  /\ \A c, d, e \in Symbols : <<c, d, e>> \in Text /\ <<c, d, e>> = Append(<<c, d>>, e)
<1>1. /\ "ws" \in Symbols /\ "nl" \in Symbols /\ ";" \in Symbols
      /\ "{" \in Symbols /\ "}" \in Symbols
  BY DEF Symbols
<1>2. <<>> \in Text
  BY DEF Text
<1>3. \A c \in Symbols : <<c>> \in Text /\ <<c>> = Append(<<>>, c)
  BY DEF Text
<1>4. \A c, d \in Symbols : <<c, d>> \in Text /\ <<c, d>> = Append(<<c>>, d)
  BY DEF Text
<1>5. \A c, d, e \in Symbols : <<c, d, e>> \in Text /\ <<c, d, e>> = Append(<<c, d>>, e)
  BY DEF Text
<1> QED
  BY <1>1, <1>2, <1>3, <1>4, <1>5

LEMMA SmallTriples ==
  ASSUME NEW c \in Symbols, NEW d \in Symbols, NEW e \in Symbols
  PROVE  <<c, d, e>> \in Text /\ <<c, d, e>> = Append(<<c, d>>, e)
BY DEF Text

LEMMA IndentMore ==
  ASSUME NEW n \in Nat
  PROVE  /\ Indent(n) \in Text /\ Indent(0) = <<>>
         /\ Indent(n + 1) = Append(Indent(n), "ws")
<1> DEFINE f == [i \in 1 .. n + 1 |-> <<"ws">>]
<1>1. <<"ws">> \in Text
  BY SmallTexts
<1>2. \A i \in 1 .. n + 1 : f[i] = <<"ws">> /\ f[i] \in Text
  BY <1>1
<1>3. n + 1 \in 1 .. n + 1 /\ \A i \in 1 .. n : i \in 1 .. n + 1
  OBVIOUS
<1>4. Indent(n) = FlattenSeq([i \in 1 .. n |-> f[i]])
  BY <1>2, <1>3 DEF Indent, Times
<1>5. Indent(n + 1) = FlattenSeq([i \in 1 .. n + 1 |-> f[i]])
  BY <1>2, <1>3 DEF Indent, Times
<1> HIDE DEF f
<1>6. Indent(n) \in Text /\ Indent(n + 1) = Indent(n) \o <<"ws">>
  BY <1>2, <1>3, <1>4, <1>5, FlattenOf
<1>7. Indent(n) \o <<"ws">> = Append(Indent(n), "ws")
  BY <1>6 DEF Text
<1>8. Indent(0) = <<>>
  BY DEF Indent, Times, FlattenSeq
<1> QED
  BY <1>6, <1>7, <1>8

LEMMA IndentTyped ==
  ASSUME NEW n \in Int
  PROVE  Indent(n) \in Text
<1>1. CASE n \in Nat
  BY <1>1, IndentMore
<1>2. CASE n \notin Nat
  <2> DEFINE f == [i \in 1 .. n |-> <<"ws">>]
  <2>1. Indent(n) = FlattenSeq(f) /\ f = [i \in 1 .. n |-> f[i]]
    BY DEF Indent, Times
  <2>2. n <= 0
    BY <1>2
  <2> HIDE DEF f
  <2>3. Indent(n) = <<>>
    BY <2>1, <2>2, FlattenNone
  <2> QED
    BY <2>3, SmallTexts
<1> QED
  BY <1>1, <1>2

CloseLine(d) == Indent(2 * d) \o <<"}", "nl">>

LEMMA ClosingNone ==
  ASSUME NEW open \in Int, NEW depth \in Int, open <= depth
  PROVE  Closing(open, depth) = <<>>
<1> DEFINE n == open - depth
           f == [k \in 1 .. n |-> Indent(2 * (open - k)) \o <<"}", "nl">>]
<1>1. Closing(open, depth) = FlattenSeq(f) /\ f = [i \in 1 .. n |-> f[i]]
  BY DEF Closing, Indent
<1>2. n \in Int /\ n <= 0
  OBVIOUS
<1> HIDE DEF f, n
<1> QED
  BY <1>1, <1>2, FlattenNone

LEMMA ClosingMore ==
  ASSUME NEW open \in Int, NEW depth \in Int, depth <= open
  PROVE  /\ Closing(open, depth) \in Text /\ Closing(open, open) = <<>>
         /\ CloseLine(depth - 1) \in Text
         /\ Closing(open, depth - 1) = Closing(open, depth) \o CloseLine(depth - 1)
<1> DEFINE n == open - depth
           f == [k \in 1 .. n + 1 |-> CloseLine(open - k)]
<1>1. n \in Nat /\ open - (depth - 1) = n + 1 /\ open - (n + 1) = depth - 1
  OBVIOUS
<1>2. ASSUME NEW k \in Int PROVE CloseLine(k) \in Text
  <2>1. 2 * k \in Int
    OBVIOUS
  <2>2. <<"}", "nl">> \in Text
    BY SmallTexts, Zenon
  <2>3. Indent(2 * k) \in Text
    BY <2>1, IndentTyped
  <2> QED
    BY <2>2, <2>3, Joined DEF CloseLine
<1> HIDE DEF n
<1>3. \A k \in 1 .. n + 1 : f[k] = CloseLine(open - k) /\ f[k] \in Text
  BY <1>1, <1>2
<1>4. n + 1 \in 1 .. n + 1 /\ \A i \in 1 .. n : i \in 1 .. n + 1
  BY <1>1
<1>5. Closing(open, depth) = FlattenSeq([i \in 1 .. n |-> f[i]])
  BY <1>3, <1>4 DEF Closing, CloseLine, Indent, n
<1>6. Closing(open, depth - 1) = FlattenSeq([i \in 1 .. n + 1 |-> f[i]])
  BY <1>1, <1>3, <1>4 DEF Closing, CloseLine, Indent
<1> HIDE DEF f
<1>7. /\ Closing(open, depth) \in Text
      /\ Closing(open, depth - 1) = Closing(open, depth) \o f[n + 1]
  BY <1>1, <1>3, <1>5, <1>6, FlattenOf
<1>8. f[n + 1] = CloseLine(depth - 1)
  BY <1>1, <1>3, <1>4
<1>9. Closing(open, open) = <<>>
  BY ClosingNone
<1> QED
  BY <1>2, <1>7, <1>8, <1>9

LEMMA ClosingTyped ==
  ASSUME NEW open \in Int, NEW depth \in Int
  PROVE  Closing(open, depth) \in Text
<1>1. CASE depth <= open
  BY <1>1, ClosingMore
<1>2. CASE ~(depth <= open)
  <2>2. Closing(open, depth) = <<>>
    BY <1>2, ClosingNone
  <2> QED
    BY <2>2, SmallTexts
<1> QED
  BY <1>1, <1>2

-------------------------------------------------------------------------------
(* The words of a statement *)

WordsText(tokens) ==
  FlattenSeq([k \in DOMAIN tokens |-> (IF k = 1 THEN <<>> ELSE <<"ws">>) \o tokens[k]])

LEMMA WordsTextMore ==
  ASSUME NEW t \in Seq(Text), NEW v \in Text
  PROVE  /\ WordsText(t) \in Text
         /\ WordsText(<<v>>) = v
         /\ t # <<>> => WordsText(Append(t, v)) = WordsText(t) \o (<<"ws">> \o v)
<1> DEFINE piece(s, k) == (IF k = 1 THEN <<>> ELSE <<"ws">>) \o s[k]
           u == Append(t, v)
           n == Len(t)
           ss == [k \in DOMAIN t |-> piece(t, k)]
           tt == [k \in DOMAIN u |-> piece(u, k)]
<1>1. /\ n \in Nat /\ DOMAIN t = 1 .. n /\ u \in Seq(Text) /\ DOMAIN u = 1 .. n + 1
      /\ u[n + 1] = v /\ \A i \in 1 .. n : u[i] = t[i]
  OBVIOUS
<1>2. ASSUME NEW s \in Seq(Text), NEW k \in DOMAIN s PROVE piece(s, k) \in Text
  <2>1. <<>> \in Text /\ <<"ws">> \in Text
    BY SmallTexts
  <2>2. s[k] \in Text
    OBVIOUS
  <2> QED
    BY <2>1, <2>2, Joined
<1>3. /\ ss \in Seq(Text) /\ Len(ss) = n /\ tt \in Seq(Text) /\ Len(tt) = n + 1
      /\ \A i \in 1 .. n : ss[i] = piece(t, i) /\ i \in 1 .. n + 1
      /\ \A i \in 1 .. n + 1 : tt[i] = piece(u, i)
  <2> HIDE DEF piece, u, n
  <2> QED
    BY <1>1, <1>2
<1>4. WordsText(t) = FlattenSeq(ss) /\ WordsText(u) = FlattenSeq(tt)
  BY DEF WordsText
<1>5. \A i \in 1 .. n : piece(u, i) = piece(t, i)
  BY <1>1
<1> HIDE DEF piece, u, n, ss, tt
<1>6. WordsText(t) \in Text /\ WordsText(u) = WordsText(t) \o piece(u, n + 1)
  <2>1. n + 1 \in 1 .. n + 1
    BY <1>1
  <2> QED
    BY <1>3, <1>4, <1>5, <2>1, FlattenMore
<1>7. t # <<>> => piece(u, n + 1) = <<"ws">> \o v
  <2>1. t # <<>> => n + 1 # 1
    BY <1>1 DEF n
  <2> QED
    BY <1>1, <2>1 DEF piece
<1>8. WordsText(<<v>>) = v
  <2> DEFINE w == [k \in DOMAIN <<v>> |-> (IF k = 1 THEN <<>> ELSE <<"ws">>) \o <<v>>[k]]
  <2>1. w = <<v>>
    <3>1. <<>> \o v = v
      BY JoinedEmpty
    <3> QED
      BY <3>1
  <2>2. FlattenSeq(Append(<<>>, v)) = FlattenSeq(<<>>) \o v
    <3>1. <<>> \in Seq(Seq(Symbols)) /\ v \in Seq(Symbols)
      BY DEF Text
    <3> QED
      BY <3>1, FlattenAppend
  <2>3. <<v>> = Append(<<>>, v)
    OBVIOUS
  <2>4. FlattenSeq(<<v>>) = v
    BY <2>2, <2>3, FlattenEmpty, JoinedEmpty
  <2> QED
    BY <2>1, <2>4 DEF WordsText
<1> QED
  BY <1>6, <1>7, <1>8 DEF u

-------------------------------------------------------------------------------
(* Ink *)

Drop(c) == IF IsWhiteSpace(c) THEN <<>> ELSE <<c>>

LEMMA InkMore ==
  ASSUME NEW t \in Text, NEW c \in Symbols
  PROVE  /\ Ink(t) \in Text /\ Ink(<<>>) = <<>>
         /\ Drop(c) \in Text /\ Ink(Append(t, c)) = Ink(t) \o Drop(c)
<1> DEFINE u == Append(t, c)
           n == Len(t)
           ss == [i \in DOMAIN t |-> Drop(t[i])]
           tt == [i \in DOMAIN u |-> Drop(u[i])]
<1>1. /\ n \in Nat /\ DOMAIN t = 1 .. n /\ u \in Seq(Symbols) /\ DOMAIN u = 1 .. n + 1
      /\ u[n + 1] = c /\ \A i \in 1 .. n : u[i] = t[i] /\ t[i] \in Symbols
  BY DEF Text
<1>2. \A d \in Symbols : Drop(d) \in Text
  BY SmallTexts DEF Drop
<1>3. /\ ss \in Seq(Text) /\ Len(ss) = n /\ tt \in Seq(Text) /\ Len(tt) = n + 1
      /\ \A i \in 1 .. n : ss[i] = Drop(t[i]) /\ i \in 1 .. n + 1
      /\ \A i \in 1 .. n + 1 : tt[i] = Drop(u[i])
  <2> HIDE DEF u, n
  <2> QED
    BY <1>1, <1>2
<1>4. Ink(t) = FlattenSeq(ss) /\ Ink(u) = FlattenSeq(tt)
  BY DEF Ink, Drop
<1>5. \A i \in 1 .. n : tt[i] = ss[i]
  BY <1>1, <1>3
<1> HIDE DEF u, n, ss, tt
<1>6. Ink(t) \in Text /\ Ink(u) = Ink(t) \o Drop(c)
  <2>1. n + 1 \in 1 .. n + 1
    BY <1>1
  <2> QED
    BY <1>1, <1>3, <1>4, <1>5, <2>1, FlattenMore
<1>7. Ink(<<>>) = <<>>
  BY DEF Ink, FlattenSeq
<1> QED
  BY <1>2, <1>6, <1>7 DEF u

LEMMA InkJoined ==
  ASSUME NEW s \in Text, NEW t \in Text
  PROVE  Ink(s) \in Text /\ Ink(s \o t) = Ink(s) \o Ink(t)
<1> DEFINE S == {u \in Text : Ink(s \o u) = Ink(s) \o Ink(u)}
<1>0. Ink(s) \in Text
  <2>1. "ws" \in Symbols
    BY SmallTexts
  <2> QED
    BY <2>1, InkMore
<1>1. <<>> \in S
  <2>1. Ink(<<>>) = <<>>
    BY DEF Ink, FlattenSeq
  <2> QED
    BY <1>0, <2>1, JoinedEmpty
<1>2. ASSUME NEW u \in S, NEW c \in Symbols PROVE Append(u, c) \in S
  <2>1. u \in Text /\ Ink(s \o u) = Ink(s) \o Ink(u)
    OBVIOUS
  <2>2. s \o u \in Text /\ Append(u, c) \in Text /\ s \o Append(u, c) = Append(s \o u, c)
    BY <2>1, Joined, JoinedAppend
  <2>3. Ink(Append(s \o u, c)) = Ink(s \o u) \o Drop(c)
    BY <2>2, InkMore
  <2>4. Ink(Append(u, c)) = Ink(u) \o Drop(c) /\ Ink(u) \in Text /\ Drop(c) \in Text
    BY <2>1, InkMore
  <2>5. (Ink(s) \o Ink(u)) \o Drop(c) = Ink(s) \o (Ink(u) \o Drop(c))
    BY <1>0, <2>4, JoinedTwice
  <2> QED
    BY <2>1, <2>2, <2>3, <2>4, <2>5
<1>3. S = Text
  <2> HIDE DEF S
  <2>1. S \in SUBSET Seq(Symbols)
    BY DEF S, Text
  <2> QED
    BY <1>1, <1>2, <2>1, SeqSetInduction DEF Text
<1> QED
  BY <1>0, <1>3

LEMMA InkIndent ==
  ASSUME NEW n \in Nat
  PROVE  Ink(Indent(n)) = <<>>
<1> DEFINE S == {k \in Nat : Ink(Indent(k)) = <<>>}
<1>1. 0 \in S
  BY IndentMore DEF Ink, FlattenSeq
<1>2. ASSUME NEW k \in S PROVE k + 1 \in S
  <2>1. k \in Nat /\ Ink(Indent(k)) = <<>>
    OBVIOUS
  <2>2. Indent(k) \in Text /\ Indent(k + 1) = Append(Indent(k), "ws") /\ "ws" \in Symbols
    BY <2>1, IndentMore, SmallTexts
  <2>3. Ink(Indent(k + 1)) = <<>> \o Drop("ws")
    BY <2>1, <2>2, InkMore
  <2>4. Drop("ws") = <<>>
    BY DEF Drop, IsWhiteSpace
  <2>5. k + 1 \in Nat
    BY <2>1
  <2> QED
    BY <2>3, <2>4, <2>5, JoinedEmpty
<1>3. S = Nat
  <2> HIDE DEF S
  <2>1. S \in SUBSET Nat
    BY DEF S
  <2> QED
    BY <1>1, <1>2, <2>1, NatSetInduction
<1> QED
  BY <1>3

-------------------------------------------------------------------------------
(* The turns of the lexer, from any of its states *)

LexRun(l, text) == FoldLeft(LexStep, l, text)

LexTurn(text) == [p \in Lexers \X (1 .. Len(text)) |-> LexStep(p[1], text[p[2]])]

LEMMA LexTurns ==
  ASSUME NEW l \in Lexers, NEW text \in Text
  PROVE  \E g : /\ Turns(g, Len(text), Lexers, l, LexTurn(text))
                /\ LexRun(l, text) = g[Len(text)]
<1> DEFINE N == Len(text)
           Rec(it) == it = [T \in SUBSET DOMAIN text |->
                              IF T = {} THEN l
                                        ELSE LexStep(it[T \ {Max(T)}], text[Max(T)])]
           it == CHOOSE i : Rec(i)
           F == LexTurn(text)
<1>1. N \in Nat /\ DOMAIN text = 1 .. N /\ \A i \in 1 .. N : text[i] \in Symbols
  BY DEF Text
<1>2. LexRun(l, text) = it[DOMAIN text]
  <2> HIDE DEF LexStep, Max
  <2> QED
    BY DEF LexRun, FoldLeft, MapThenFoldSet
<1>3. \A v \in Lexers, i \in 1 .. N : LexStep(v, text[i]) \in Lexers
  BY <1>1, LexStepTyped
<1> HIDE DEF N
<1>4. F \in [Lexers \X (1 .. N) -> Lexers]
  BY <1>3 DEF LexTurn, N
<1>5. \A v \in Lexers, i \in 1 .. N : F[<<v, i>>] = LexStep(v, text[i])
  BY DEF LexTurn, N
<1> HIDE DEF F
<1>6. PICK h : FoldsTo(h, N, Lexers, l, F)
  BY <1>1, <1>4, FoldExists
<1>7. ASSUME NEW T \in SUBSET (1 .. N), T # {}
      PROVE  h[T] = LexStep(h[T \ {Max(T)}], text[Max(T)])
  <2>1. Max(T) \in 1 .. N /\ h[T \ {Max(T)}] \in Lexers
    BY <1>1, <1>6, <1>7, MaxOfPositions DEF FoldsTo
  <2> QED
    BY <1>5, <1>6, <1>7, <2>1 DEF FoldsTo
<1>8. Rec(it)
  <2>1. Rec(h)
    BY <1>1, <1>6, <1>7 DEF FoldsTo
  <2> HIDE DEF Rec
  <2> QED
    BY <2>1
<1> HIDE DEF it
<1>9. /\ it = [T \in SUBSET (1 .. N) |-> it[T]] /\ it[{}] = l
      /\ \A T \in SUBSET (1 .. N) : T # {} =>
           it[T] = LexStep(it[T \ {Max(T)}], text[Max(T)])
  BY <1>1, <1>8
<1>10. ASSUME NEW T \in SUBSET (1 .. N), T # {} /\ it[T \ {Max(T)}] \in Lexers
       PROVE  it[T] = F[<<it[T \ {Max(T)}], Max(T)>>]
  BY <1>1, <1>5, <1>9, <1>10, MaxOfPositions
<1>11. FoldsTo(it, N, Lexers, l, F)
  BY <1>1, <1>4, <1>9, <1>10, FoldFollowed
<1>12. PICK g : Turns(g, N, Lexers, l, F) /\ it[1 .. N] = g[N]
  BY <1>1, <1>11, FoldTurns
<1> QED
  BY <1>1, <1>2, <1>12 DEF N, F

LEMMA LexRunMore ==
  ASSUME NEW l \in Lexers, NEW text \in Text, NEW c \in Symbols
  PROVE  /\ LexRun(l, text) \in Lexers /\ LexRun(l, <<>>) = l
         /\ LexRun(l, Append(text, c)) = LexStep(LexRun(l, text), c)
<1> DEFINE t == Append(text, c)
           N == Len(text)
           M == Len(t)
           F == LexTurn(text)
           G == LexTurn(t)
<1>1. /\ N \in Nat /\ t \in Text /\ M = N + 1 /\ t[M] = c
      /\ \A i \in 1 .. N : t[i] = text[i]
  BY TextAppend
<1>2. PICK g : Turns(g, N, Lexers, l, F) /\ LexRun(l, text) = g[N]
  BY LexTurns
<1>3. PICK h : Turns(h, M, Lexers, l, G) /\ LexRun(l, t) = h[M]
  BY <1>1, LexTurns
<1>4. /\ \A v \in Lexers, i \in 1 .. N : F[<<v, i>>] = LexStep(v, text[i])
      /\ \A v \in Lexers, i \in 1 .. M : G[<<v, i>>] = LexStep(v, t[i])
  BY DEF LexTurn
<1> HIDE DEF t, N, M, F, G
<1>5. M \in 1 .. M /\ \A i \in 1 .. N : i \in 1 .. M /\ t[i] = text[i]
  BY <1>1
<1>6. SameTurns(N, Lexers, F, G)
  <2>1. ASSUME NEW v \in Lexers, NEW i \in 1 .. N PROVE F[<<v, i>>] = G[<<v, i>>]
    <3>1. i \in 1 .. M /\ t[i] = text[i]
      BY <1>5, Zenon
    <3>2. F[<<v, i>>] = LexStep(v, text[i])
      BY <1>4, Zenon
    <3>3. G[<<v, i>>] = LexStep(v, t[i])
      BY <1>4, <3>1, Zenon
    <3> QED
      BY <3>1, <3>2, <3>3, Zenon
  <2> QED
    BY <2>1 DEF SameTurns
<1>7. OneMore(N, M, Lexers, l, F, G, g, h)
  BY <1>1, <1>2, <1>3, <1>6 DEF OneMore
<1>8. h[M] = G[<<g[N], M>>]
  BY <1>7, TurnsAppend
<1>9. g[N] \in Lexers
  BY <1>1, <1>2, TurnsTyped
<1>10. LexRun(l, <<>>) = l
  <2>1. <<>> \in Text /\ Len(<<>>) = 0
    BY DEF Text
  <2>2. PICK e : Turns(e, 0, Lexers, l, LexTurn(<<>>)) /\ LexRun(l, <<>>) = e[0]
    BY <2>1, LexTurns
  <2> QED
    BY <2>2 DEF Turns
<1>11. h[M] = LexStep(g[N], c)
  <2>1. G[<<g[N], M>>] = LexStep(g[N], t[M])
    BY <1>4, <1>5, <1>9, Zenon
  <2> QED
    BY <1>1, <1>8, <2>1, Zenon
<1> QED
  BY <1>2, <1>3, <1>9, <1>10, <1>11, Zenon DEF t

LEMMA LexJoined ==
  ASSUME NEW l \in Lexers, NEW s \in Text, NEW t \in Text
  PROVE  LexRun(l, s \o t) = LexRun(LexRun(l, s), t)
<1> DEFINE S == {u \in Text : LexRun(l, s \o u) = LexRun(LexRun(l, s), u)}
<1>0. LexRun(l, s) \in Lexers
  <2>1. "ws" \in Symbols
    BY SmallTexts
  <2> QED
    BY <2>1, LexRunMore
<1>1. <<>> \in S
  <2>1. "ws" \in Symbols /\ <<>> \in Text
    BY SmallTexts
  <2>2. LexRun(LexRun(l, s), <<>>) = LexRun(l, s)
    BY <1>0, <2>1, LexRunMore
  <2> QED
    BY <2>1, <2>2, JoinedEmpty
<1>2. ASSUME NEW u \in S, NEW c \in Symbols PROVE Append(u, c) \in S
  <2>1. u \in Text /\ LexRun(l, s \o u) = LexRun(LexRun(l, s), u)
    OBVIOUS
  <2>2. s \o u \in Text /\ Append(u, c) \in Text /\ s \o Append(u, c) = Append(s \o u, c)
    BY <2>1, Joined, JoinedAppend
  <2>3. LexRun(l, Append(s \o u, c)) = LexStep(LexRun(l, s \o u), c)
    BY <2>2, LexRunMore
  <2>4. LexRun(LexRun(l, s), Append(u, c)) = LexStep(LexRun(LexRun(l, s), u), c)
    BY <1>0, <2>1, LexRunMore
  <2> QED
    BY <2>1, <2>2, <2>3, <2>4
<1>3. S = Text
  <2> HIDE DEF S
  <2>1. S \in SUBSET Seq(Symbols)
    BY DEF S, Text
  <2> QED
    BY <1>1, <1>2, <2>1, SeqSetInduction DEF Text
<1> QED
  BY <1>3

-------------------------------------------------------------------------------
(* The words of the lexer are those that are read again as they are.        *)

At(mode, value, tokens) == [mode |-> mode, value |-> value, tokens |-> tokens]

(* What is read of a word in front of which the tokens T are. *)
ReadsBack(mode, value) ==
  \A T \in Tokens : LexRun(At("space", <<>>, T), value) = At(mode, value, T)

EndMode(type) == IF type = "NORMAL" THEN "normal" ELSE "closed"

GoodToken(token) ==
  /\ token[1] \in WordTypes => ReadsBack(EndMode(token[1]), token[2])
  /\ token[1] \in {";", "{", "}"} => token[2] = <<token[1]>>

AllGood(tokens) == \A k \in 1 .. Len(tokens) : GoodToken(tokens[k])

Lexed(l) ==
  /\ l.mode \in {"space", "comment"} => l.value = <<>>
  /\ l.mode \in {"normal", "quoted", "escaped", "closed"} => ReadsBack(l.mode, l.value)
  /\ AllGood(l.tokens)

LEMMA EmptyText == <<>> \in Text
BY DEF Text

LEMMA AtTyped ==
  ASSUME NEW mode \in Modes, NEW value \in Text, NEW T \in Tokens
  PROVE  /\ At(mode, value, T) \in Lexers
         /\ At(mode, value, T).mode = mode /\ At(mode, value, T).value = value
         /\ At(mode, value, T).tokens = T
BY DEF At, Lexers

LEMMA GoodAppend ==
  ASSUME NEW T \in Tokens, AllGood(T), NEW type \in TokenTypes, NEW value \in Text,
         GoodToken(<<type, value>>)
  PROVE  AllGood(Append(T, <<type, value>>))
<1> DEFINE u == Append(T, <<type, value>>)
<1>1. /\ Len(T) \in Nat /\ Len(u) = Len(T) + 1 /\ u[Len(T) + 1] = <<type, value>>
      /\ \A k \in 1 .. Len(T) : u[k] = T[k]
  BY DEF Tokens
<1> HIDE DEF u
<1>2. ASSUME NEW k \in 1 .. Len(u) PROVE GoodToken(u[k])
  <2>1. k \in 1 .. Len(T) \/ k = Len(T) + 1
    BY <1>1
  <2> QED
    BY <1>1, <2>1 DEF AllGood
<1> QED
  BY <1>2 DEF AllGood, u

(* The first symbol of a word. *)
LEMMA ReadsFirst ==
  ASSUME NEW c \in Symbols, ~EndsToken(c), c # "#"
  PROVE  ReadsBack(IF c \in Quotes THEN "quoted" ELSE "normal", <<c>>)
<1> DEFINE m == IF c \in Quotes THEN "quoted" ELSE "normal"
<1> SUFFICES ASSUME NEW T \in Tokens
             PROVE  LexRun(At("space", <<>>, T), <<c>>) = At(m, <<c>>, T)
  BY DEF ReadsBack
<1> DEFINE l == At("space", <<>>, T)
<1>1. l \in Lexers /\ l.mode = "space" /\ l.tokens = T
  <2>1. "space" \in Modes
    BY DEF Modes
  <2> QED
    BY <2>1, EmptyText, AtTyped
<1>2. <<c>> = Append(<<>>, c) /\ <<>> \in Text
  BY SmallTexts, Zenon
<1>3. BetweenTokens(T, c) = At(m, <<c>>, T)
  BY DEF BetweenTokens, At, EndsToken
<1> HIDE DEF l
<1>4. LexRun(l, <<c>>) = LexStep(l, c)
  <2>1. LexRun(l, <<>>) = l
    BY <1>1, <1>2, LexRunMore
  <2>2. LexRun(l, Append(<<>>, c)) = LexStep(LexRun(l, <<>>), c)
    BY <1>1, <1>2, LexRunMore
  <2> QED
    BY <1>2, <2>1, <2>2
<1>5. LexStep(l, c) = BetweenTokens(T, c)
  BY <1>1 DEF LexStep
<1> QED
  BY <1>3, <1>4, <1>5 DEF l

(* A symbol more of a word. *)
WordMode(mode, value, c) ==
  IF mode = "normal" THEN "normal"
  ELSE IF mode = "escaped" THEN "quoted"
  ELSE IF c = "bs" THEN "escaped" ELSE IF c = value[1] THEN "closed" ELSE "quoted"

LEMMA WordStepped ==
  ASSUME NEW mode \in {"normal", "quoted", "escaped"}, NEW value \in Text, NEW T \in Tokens,
         NEW c \in Symbols, mode = "normal" => ~EndsToken(c)
  PROVE  LexStep(At(mode, value, T), c) = At(WordMode(mode, value, c), Append(value, c), T)
<1>1. CASE mode = "normal"
  BY <1>1 DEF LexStep, At, WordMode
<1>2. CASE mode \in {"quoted", "escaped"}
  <2>1. LexStep(At(mode, value, T), c) = Quoted(At(mode, value, T), c)
    BY <1>2 DEF LexStep, At
  <2> QED
    BY <1>2, <2>1 DEF Quoted, At, WordMode
<1> QED
  BY <1>1, <1>2

LEMMA ReadsMore ==
  ASSUME NEW mode \in {"normal", "quoted", "escaped"}, NEW value \in Text,
         NEW c \in Symbols, mode = "normal" => ~EndsToken(c), ReadsBack(mode, value)
  PROVE  ReadsBack(WordMode(mode, value, c), Append(value, c))
<1> SUFFICES ASSUME NEW T \in Tokens
             PROVE  LexRun(At("space", <<>>, T), Append(value, c)) =
                      At(WordMode(mode, value, c), Append(value, c), T)
  BY DEF ReadsBack
<1>1. At("space", <<>>, T) \in Lexers
  BY AtTyped, SmallTexts DEF Modes
<1>2. LexRun(At("space", <<>>, T), Append(value, c)) =
        LexStep(LexRun(At("space", <<>>, T), value), c)
  BY <1>1, LexRunMore
<1>3. LexRun(At("space", <<>>, T), value) = At(mode, value, T)
  BY DEF ReadsBack
<1> QED
  BY <1>2, <1>3, WordStepped

LEMMA LexedBetween ==
  ASSUME NEW T \in Tokens, AllGood(T), NEW c \in Symbols
  PROVE  Lexed(BetweenTokens(T, c))
<1>0. <<>> \in Text /\ <<c>> \in Text /\ c \in TokenTypes
  BY SmallTexts DEF TokenTypes
<1>1. CASE IsWhiteSpace(c)
  <2>1. BetweenTokens(T, c) = At("space", <<>>, T)
    BY <1>1 DEF BetweenTokens, At
  <2> QED
    BY <1>0, <2>1, AtTyped DEF Lexed, Modes
<1>2. CASE IsBlockDelimiter(c) /\ ~IsWhiteSpace(c)
  <2>1. BetweenTokens(T, c) = At("space", <<>>, Append(T, <<c, <<c>>>>))
    BY <1>2 DEF BetweenTokens, At
  <2>2. GoodToken(<<c, <<c>>>>)
    BY <1>2 DEF GoodToken, IsBlockDelimiter, WordTypes
  <2>3. AllGood(Append(T, <<c, <<c>>>>)) /\ Append(T, <<c, <<c>>>>) \in Tokens
    BY <1>0, <2>2, GoodAppend, TokenAdded
  <2> QED
    BY <1>0, <2>1, <2>3, AtTyped DEF Lexed, Modes
<1>3. CASE ~EndsToken(c) /\ c = "#"
  <2>1. BetweenTokens(T, c) = At("comment", <<>>, T)
    BY <1>3 DEF BetweenTokens, At, EndsToken
  <2> QED
    BY <1>0, <2>1, AtTyped DEF Lexed, Modes
<1>4. CASE ~EndsToken(c) /\ c # "#"
  <2> DEFINE m == IF c \in Quotes THEN "quoted" ELSE "normal"
  <2>1. BetweenTokens(T, c) = At(m, <<c>>, T)
    BY <1>4 DEF BetweenTokens, At, EndsToken
  <2>2. ReadsBack(m, <<c>>)
    BY <1>4, ReadsFirst
  <2>3. m \in {"quoted", "normal"} /\ m \in Modes
    BY DEF Modes
  <2> HIDE DEF m
  <2> QED
    BY <1>0, <2>1, <2>2, <2>3, AtTyped DEF Lexed
<1> QED
  BY <1>1, <1>2, <1>3, <1>4 DEF EndsToken

LEMMA LexedStep ==
  ASSUME NEW l \in Lexers, Lexed(l), NEW c \in Symbols
  PROVE  Lexed(LexStep(l, c))
<1> DEFINE m == l.mode
           v == l.value
           T == l.tokens
<1>1. m \in Modes /\ v \in Text /\ T \in Tokens /\ l = At(m, v, T) /\ AllGood(T)
  BY DEF Lexers, At, Lexed
<1>2. /\ m \in {"space", "comment"} => v = <<>>
      /\ m \in {"normal", "quoted", "escaped", "closed"} => ReadsBack(m, v)
  BY DEF Lexed
<1>3. CASE m = "space"
  <2>1. LexStep(l, c) = BetweenTokens(T, c)
    BY <1>3 DEF LexStep
  <2> QED
    BY <1>1, <2>1, LexedBetween
<1>4. CASE m = "comment"
  <2> DEFINE n == IF c = "nl" THEN "space" ELSE "comment"
  <2>1. LexStep(l, c) = At(n, v, T)
    BY <1>1, <1>4 DEF LexStep, At
  <2>2. n \in {"space", "comment"} /\ n \in Modes
    BY DEF Modes
  <2> HIDE DEF n, m, v, T
  <2> QED
    BY <1>1, <1>2, <1>4, <2>1, <2>2, AtTyped DEF Lexed
<1>5. CASE m \in {"quoted", "escaped"} \/ (m = "normal" /\ ~EndsToken(c))
  <2> DEFINE n == WordMode(m, v, c)
  <2> HIDE DEF m, v, T
  <2>1. LexStep(l, c) = At(n, Append(v, c), T)
    BY <1>1, <1>5, WordStepped
  <2>2. ReadsBack(n, Append(v, c))
    BY <1>1, <1>2, <1>5, ReadsMore
  <2>3. n \in {"normal", "quoted", "escaped", "closed"} /\ n \in Modes
    BY DEF WordMode, Modes
  <2>4. Append(v, c) \in Text
    BY <1>1 DEF Text
  <2> HIDE DEF n
  <2>5. n \notin {"space", "comment"}
    BY <2>3
  <2> QED
    BY <1>1, <2>1, <2>2, <2>3, <2>4, <2>5, AtTyped DEF Lexed
<1>6. CASE m \in {"normal", "closed"} /\ EndsToken(c)
  <2> DEFINE type == IF m = "normal" THEN "NORMAL" ELSE "QUOTED_STRING"
  <2>1. LexStep(l, c) = BetweenTokens(Append(T, <<type, v>>), c)
    BY <1>6 DEF LexStep
  <2>2. EndMode(type) = m /\ type \in WordTypes /\ type \in TokenTypes /\ type \notin {";", "{", "}"}
    BY <1>6 DEF EndMode, WordTypes, TokenTypes
  <2> HIDE DEF m, v, T, type
  <2>3. GoodToken(<<type, v>>)
    BY <1>2, <1>6, <2>2 DEF GoodToken
  <2>4. AllGood(Append(T, <<type, v>>)) /\ Append(T, <<type, v>>) \in Tokens
    BY <1>1, <2>2, <2>3, GoodAppend, TokenAdded
  <2> QED
    BY <2>1, <2>4, LexedBetween
<1>7. CASE m = "error" \/ (m = "closed" /\ ~EndsToken(c))
  <2>1. LexStep(l, c) = At("error", v, T)
    BY <1>1, <1>7 DEF LexStep, At
  <2> HIDE DEF m, v, T
  <2> QED
    BY <1>1, <2>1, AtTyped DEF Lexed, Modes
<1> QED
  BY <1>1, <1>3, <1>4, <1>5, <1>6, <1>7 DEF Modes

(* Every token of a text is one that is read again as it is. *)
LEMMA LexGood ==
  ASSUME NEW text \in Text
  PROVE  AllGood(Lex(text))
<1> DEFINE S == {u \in Text : Lexed(LexRun(LexStart, u))}
<1>0. LexStart \in Lexers /\ <<>> \in Text /\ "ws" \in Symbols
  <2>1. LexStart \in Lexers
    BY DEF LexStart, Lexers, Modes, Text, Tokens
  <2>2. "ws" \in Symbols
    BY DEF Symbols
  <2> QED
    BY <2>1, <2>2, EmptyText
<1>1. <<>> \in S
  <2>1. Lexed(LexStart)
    BY DEF Lexed, LexStart, AllGood
  <2> QED
    BY <1>0, <2>1, LexRunMore
<1>2. ASSUME NEW u \in S, NEW c \in Symbols PROVE Append(u, c) \in S
  <2>1. u \in Text /\ Lexed(LexRun(LexStart, u)) /\ Append(u, c) \in Text
    BY DEF Text
  <2>2. /\ LexRun(LexStart, u) \in Lexers
        /\ LexRun(LexStart, Append(u, c)) = LexStep(LexRun(LexStart, u), c)
    BY <1>0, <2>1, LexRunMore
  <2> QED
    BY <2>1, <2>2, LexedStep
<1>3. S = Text
  <2> HIDE DEF S
  <2>1. S \in SUBSET Seq(Symbols)
    BY DEF S, Text
  <2> QED
    BY <1>1, <1>2, <2>1, SeqSetInduction DEF Text
<1> DEFINE l == LexRun(LexStart, text)
<1>4. Lexed(l) /\ l \in Lexers
  BY <1>0, <1>3, LexRunMore
<1>5. Lex(text) = AtEnd(l)
  BY DEF Lex, LexRun, LexStart
<1> HIDE DEF l
<1>6. l.mode \in Modes /\ l.value \in Text /\ l.tokens \in Tokens /\ AllGood(l.tokens)
  BY <1>4 DEF Lexers, Lexed
<1>7. l.mode = "normal" => AllGood(Append(l.tokens, <<"NORMAL", l.value>>))
  <2> SUFFICES ASSUME l.mode = "normal" PROVE AllGood(Append(l.tokens, <<"NORMAL", l.value>>))
    OBVIOUS
  <2>1. GoodToken(<<"NORMAL", l.value>>)
    BY <1>4 DEF Lexed, GoodToken, EndMode
  <2> QED
    BY <1>6, <2>1, GoodAppend DEF TokenTypes
<1>8. AllGood(Append(l.tokens, <<"ERROR", <<>>>>))
  <2>1. GoodToken(<<"ERROR", <<>>>>)
    BY DEF GoodToken, WordTypes
  <2> QED
    BY <1>0, <1>6, <2>1, GoodAppend DEF TokenTypes
<1> QED
  BY <1>5, <1>6, <1>7, <1>8 DEF AtEnd

-------------------------------------------------------------------------------
(* A text without comments is its tokens and the blanks between them.       *)

InkOf(tokens) == FlattenSeq([k \in DOMAIN tokens |-> Ink(tokens[k][2])])

LEMMA InkOfMore ==
  ASSUME NEW T \in Tokens, NEW type \in TokenTypes, NEW value \in Text
  PROVE  /\ InkOf(T) \in Text /\ InkOf(<<>>) = <<>>
         /\ InkOf(Append(T, <<type, value>>)) = InkOf(T) \o Ink(value)
<1> DEFINE u == Append(T, <<type, value>>)
           n == Len(T)
           ss == [k \in DOMAIN T |-> Ink(T[k][2])]
           tt == [k \in DOMAIN u |-> Ink(u[k][2])]
<1>1. /\ n \in Nat /\ DOMAIN T = 1 .. n /\ u \in Tokens /\ DOMAIN u = 1 .. n + 1
      /\ u[n + 1] = <<type, value>> /\ \A i \in 1 .. n : u[i] = T[i]
  BY DEF Tokens
<1>2. \A v \in Text : Ink(v) \in Text
  BY InkJoined
<1>3. /\ \A i \in 1 .. n : T[i][2] \in Text
      /\ \A i \in 1 .. n + 1 : u[i][2] \in Text
  <2> HIDE DEF u, n
  <2> QED
    BY <1>1 DEF Tokens
<1>4. /\ ss \in Seq(Text) /\ Len(ss) = n /\ tt \in Seq(Text) /\ Len(tt) = n + 1
      /\ \A i \in 1 .. n : ss[i] = Ink(T[i][2]) /\ i \in 1 .. n + 1
      /\ \A i \in 1 .. n + 1 : tt[i] = Ink(u[i][2])
  <2> HIDE DEF u, n
  <2> QED
    BY <1>1, <1>2, <1>3
<1>5. InkOf(T) = FlattenSeq(ss) /\ InkOf(u) = FlattenSeq(tt)
  BY DEF InkOf
<1>6. \A i \in 1 .. n : tt[i] = ss[i]
  BY <1>1, <1>4
<1>7. n + 1 \in 1 .. n + 1
  BY <1>1
<1>8. tt[n + 1] = Ink(value)
  BY <1>1, <1>4, <1>7
<1> HIDE DEF u, n, ss, tt
<1>9. InkOf(T) \in Text /\ InkOf(u) = InkOf(T) \o Ink(value)
  BY <1>1, <1>4, <1>5, <1>6, <1>8, FlattenMore
<1>10. InkOf(<<>>) = <<>>
  BY DEF InkOf, FlattenSeq
<1> QED
  BY <1>9, <1>10 DEF u

(* What is left of one symbol. *)
LEMMA InkOne ==
  ASSUME NEW c \in Symbols
  PROVE  Ink(<<c>>) = Drop(c) /\ Drop(c) \in Text /\ Ink(<<>>) = <<>>
<1>1. <<c>> = Append(<<>>, c) /\ <<>> \in Text
  BY SmallTexts, Zenon
<1>2. Ink(<<>>) = <<>> /\ Drop(c) \in Text /\ Ink(Append(<<>>, c)) = Ink(<<>>) \o Drop(c)
  BY <1>1, InkMore
<1> QED
  BY <1>1, <1>2, JoinedEmpty

(* The ink of what the lexer has seen is in its tokens and its value, up to *)
(* the first mistake.                                                       *)
InkSeen(l) == InkOf(l.tokens) \o Ink(l.value)
Inked(l, text) == l.mode # "comment" /\ (l.mode # "error" => Ink(text) = InkSeen(l))

LEMMA InkAt ==
  ASSUME NEW mode, NEW value, NEW T
  PROVE  At(mode, value, T).mode = mode /\ InkSeen(At(mode, value, T)) = InkOf(T) \o Ink(value)
BY DEF At, InkSeen

LEMMA InkBetween ==
  ASSUME NEW T \in Tokens, NEW c \in Symbols, c # "#"
  PROVE  /\ BetweenTokens(T, c).mode \notin {"comment", "error"}
         /\ InkSeen(BetweenTokens(T, c)) = InkOf(T) \o Drop(c)
<1>1. /\ <<>> \in Text /\ <<c>> \in Text /\ c \in TokenTypes /\ InkOf(T) \in Text
      /\ Ink(<<c>>) = Drop(c) /\ Drop(c) \in Text /\ Ink(<<>>) = <<>>
  <2>1. c \in TokenTypes /\ <<c>> \in Text
    BY DEF TokenTypes, Text
  <2> QED
    BY <2>1, EmptyText, InkOfMore, InkOne
<1>2. InkOf(T) \o <<>> = InkOf(T)
  BY <1>1, JoinedEmpty
<1>3. CASE IsWhiteSpace(c)
  <2>1. BetweenTokens(T, c) = At("space", <<>>, T)
    BY <1>3 DEF BetweenTokens, At
  <2>2. Drop(c) = <<>>
    BY <1>3 DEF Drop
  <2>3. /\ BetweenTokens(T, c).mode = "space"
        /\ InkSeen(BetweenTokens(T, c)) = InkOf(T) \o Ink(<<>>)
    BY <2>1, InkAt, Zenon
  <2>4. InkSeen(BetweenTokens(T, c)) = InkOf(T) \o Drop(c)
    BY <1>1, <2>2, <2>3, Zenon
  <2> QED
    BY <2>3, <2>4
<1>4. CASE IsBlockDelimiter(c) /\ ~IsWhiteSpace(c)
  <2> DEFINE U == Append(T, <<c, <<c>>>>)
  <2>1. BetweenTokens(T, c) = At("space", <<>>, U)
    BY <1>4 DEF BetweenTokens, At
  <2>2. InkOf(U) = InkOf(T) \o Ink(<<c>>)
    BY <1>1, InkOfMore
  <2>3. InkOf(U) \o <<>> = InkOf(U)
    <3>1. InkOf(T) \o Drop(c) \in Text
      BY <1>1, Joined
    <3> QED
      BY <1>1, <2>2, <3>1, JoinedEmpty
  <2> HIDE DEF U
  <2>4. /\ BetweenTokens(T, c).mode = "space"
        /\ InkSeen(BetweenTokens(T, c)) = InkOf(U) \o Ink(<<>>)
    BY <2>1, InkAt, Zenon
  <2>5. InkSeen(BetweenTokens(T, c)) = InkOf(T) \o Drop(c)
    BY <1>1, <2>2, <2>3, <2>4, Zenon
  <2> QED
    BY <2>4, <2>5
<1>5. CASE ~EndsToken(c)
  <2> DEFINE m == IF c \in Quotes THEN "quoted" ELSE "normal"
  <2>1. BetweenTokens(T, c) = At(m, <<c>>, T)
    BY <1>5 DEF BetweenTokens, At, EndsToken
  <2>2. m \notin {"comment", "error"}
    OBVIOUS
  <2> HIDE DEF m
  <2> QED
    BY <1>1, <2>1, <2>2, InkAt
<1> QED
  BY <1>3, <1>4, <1>5 DEF EndsToken

LEMMA InkedStep ==
  ASSUME NEW l \in Lexers, Lexed(l), NEW u \in Text, Inked(l, u), NEW c \in Symbols, c # "#"
  PROVE  Inked(LexStep(l, c), Append(u, c))
<1> DEFINE m == l.mode
           v == l.value
           T == l.tokens
<1>1. m \in Modes /\ v \in Text /\ T \in Tokens /\ l = At(m, v, T)
  BY DEF Lexers, At
<1>2. m \in {"space", "comment"} => v = <<>>
  BY DEF Lexed
<1>3. m # "comment" /\ (m # "error" => Ink(u) = InkOf(T) \o Ink(v))
  BY DEF Inked, InkSeen
<1>4. /\ Ink(Append(u, c)) = Ink(u) \o Drop(c) /\ Ink(Append(v, c)) = Ink(v) \o Drop(c)
      /\ Drop(c) \in Text /\ Ink(v) \in Text /\ Ink(<<>>) = <<>>
  BY <1>1, InkMore
<1>5. InkOf(T) \in Text
  <2>1. "NORMAL" \in TokenTypes
    BY DEF TokenTypes
  <2> QED
    BY <1>1, <2>1, InkOfMore
<1>6. CASE m = "space"
  <2>1. LexStep(l, c) = BetweenTokens(T, c)
    BY <1>6 DEF LexStep
  <2>2. Ink(u) = InkOf(T)
    BY <1>2, <1>3, <1>4, <1>5, <1>6, JoinedEmpty
  <2>3. /\ BetweenTokens(T, c).mode \notin {"comment", "error"}
        /\ InkSeen(BetweenTokens(T, c)) = InkOf(T) \o Drop(c)
    BY <1>1, InkBetween
  <2> HIDE DEF m, v, T
  <2> QED
    BY <1>4, <2>1, <2>2, <2>3 DEF Inked
<1>7. CASE m \in {"quoted", "escaped"} \/ (m = "normal" /\ ~EndsToken(c))
  <2> DEFINE n == WordMode(m, v, c)
  <2> HIDE DEF m, v, T
  <2>1. LexStep(l, c) = At(n, Append(v, c), T)
    BY <1>1, <1>7, WordStepped
  <2>2. n # "comment" /\ m # "error"
    BY <1>7 DEF WordMode
  <2> HIDE DEF n
  <2>3. (InkOf(T) \o Ink(v)) \o Drop(c) = InkOf(T) \o (Ink(v) \o Drop(c))
    BY <1>4, <1>5, JoinedTwice
  <2>4. InkSeen(LexStep(l, c)) = InkOf(T) \o Ink(Append(v, c)) /\ LexStep(l, c).mode = n
    BY <2>1 DEF InkSeen, At
  <2> QED
    BY <1>3, <1>4, <2>2, <2>3, <2>4 DEF Inked
<1>8. CASE m \in {"normal", "closed"} /\ EndsToken(c)
  <2> DEFINE type == IF m = "normal" THEN "NORMAL" ELSE "QUOTED_STRING"
             U == Append(T, <<type, v>>)
  <2>1. LexStep(l, c) = BetweenTokens(U, c)
    BY <1>8 DEF LexStep
  <2>2. type \in TokenTypes
    BY DEF TokenTypes
  <2>3. m # "error"
    BY <1>8
  <2> HIDE DEF m, v, T, type
  <2>4. U \in Tokens /\ InkOf(U) = InkOf(T) \o Ink(v)
    BY <1>1, <2>2, TokenAdded, InkOfMore
  <2> HIDE DEF U
  <2>5. /\ BetweenTokens(U, c).mode \notin {"comment", "error"}
        /\ InkSeen(BetweenTokens(U, c)) = InkOf(U) \o Drop(c)
    BY <2>4, InkBetween
  <2> QED
    BY <1>3, <1>4, <2>1, <2>3, <2>4, <2>5 DEF Inked
<1>9. CASE m = "error" \/ (m = "closed" /\ ~EndsToken(c))
  <2>1. LexStep(l, c) = At("error", v, T)
    BY <1>1, <1>9 DEF LexStep, At
  <2>2. At("error", v, T).mode = "error"
    BY DEF At
  <2> HIDE DEF m, v, T
  <2> QED
    BY <2>1, <2>2 DEF Inked
<1> QED
  BY <1>1, <1>3, <1>6, <1>7, <1>8, <1>9 DEF Modes

LEMMA LexInk ==
  ASSUME NEW text \in Text, "#" \notin Range(text),
         \A k \in 1 .. Len(Lex(text)) : Lex(text)[k][1] # "ERROR"
  PROVE  Ink(text) = InkOf(Lex(text))
<1> DEFINE B == Symbols \ {"#"}
           S == {u \in Seq(B) : Lexed(LexRun(LexStart, u)) /\ Inked(LexRun(LexStart, u), u)}
<1>0. /\ LexStart \in Lexers /\ "ws" \in Symbols /\ "NORMAL" \in TokenTypes
      /\ \A u \in Seq(B) : u \in Text
  <2>1. LexStart \in Lexers
    BY DEF LexStart, Lexers, Modes, Text, Tokens
  <2>2. "ws" \in Symbols /\ "NORMAL" \in TokenTypes
    BY DEF Symbols, TokenTypes
  <2>3. \A u \in Seq(B) : u \in Text
    BY DEF Text
  <2> QED
    BY <2>1, <2>2, <2>3
<1>1. <<>> \in S
  <2>1. Lexed(LexStart)
    BY DEF Lexed, LexStart, AllGood
  <2>2. LexRun(LexStart, <<>>) = LexStart
    BY <1>0, EmptyText, LexRunMore
  <2>3. InkOf(<<>>) = <<>> /\ Ink(<<>>) = <<>>
    BY DEF InkOf, Ink, FlattenSeq
  <2>4. Inked(LexStart, <<>>)
    BY <2>3, EmptyText, JoinedEmpty DEF Inked, InkSeen, LexStart
  <2> QED
    BY <2>1, <2>2, <2>4
<1>2. ASSUME NEW u \in S, NEW c \in B PROVE Append(u, c) \in S
  <2>1. /\ u \in Text /\ Append(u, c) \in Seq(B) /\ c \in Symbols /\ c # "#"
        /\ Lexed(LexRun(LexStart, u)) /\ Inked(LexRun(LexStart, u), u)
    BY <1>0
  <2>2. /\ LexRun(LexStart, u) \in Lexers
        /\ LexRun(LexStart, Append(u, c)) = LexStep(LexRun(LexStart, u), c)
    BY <1>0, <2>1, LexRunMore
  <2> QED
    BY <2>1, <2>2, LexedStep, InkedStep
<1>3. S = Seq(B)
  <2> HIDE DEF S, B
  <2>1. S \in SUBSET Seq(B)
    BY DEF S
  <2> QED
    BY <1>1, <1>2, <2>1, SeqSetInduction
<1>4. text \in Seq(B)
  <2>1. \A i \in 1 .. Len(text) : text[i] \in B
    BY DEF Range, Text
  <2> QED
    BY <2>1 DEF Text
<1> DEFINE l == LexRun(LexStart, text)
<1>5. Lexed(l) /\ Inked(l, text) /\ l \in Lexers
  BY <1>0, <1>3, <1>4, LexRunMore
<1>6. Lex(text) = AtEnd(l)
  BY DEF Lex, LexRun, LexStart
<1> HIDE DEF l
<1>7. l.mode \in Modes /\ l.value \in Text /\ l.tokens \in Tokens
  BY <1>5 DEF Lexers
<1>8. AtEnd(l) # Append(l.tokens, <<"ERROR", <<>>>>)
  <2> DEFINE U == Append(l.tokens, <<"ERROR", <<>>>>)
             k == Len(l.tokens) + 1
  <2>1. k \in 1 .. Len(U) /\ U[k][1] = "ERROR"
    BY <1>7 DEF Tokens
  <2> QED
    BY <1>6, <2>1
<1>9. \/ l.mode \in {"space", "comment"} /\ AtEnd(l) = l.tokens
      \/ l.mode = "normal" /\ AtEnd(l) = Append(l.tokens, <<"NORMAL", l.value>>)
  BY <1>8 DEF AtEnd
<1>10. CASE l.mode \in {"space", "comment"} /\ AtEnd(l) = l.tokens
  <2>1. l.value = <<>> /\ l.mode # "error"
    BY <1>5, <1>10 DEF Lexed
  <2>2. Ink(text) = InkOf(l.tokens) \o Ink(<<>>)
    BY <1>5, <2>1 DEF Inked, InkSeen
  <2>3. InkOf(l.tokens) \in Text /\ Ink(<<>>) = <<>>
    BY <1>0, <1>7, EmptyText, InkOfMore, InkMore
  <2> QED
    BY <1>6, <1>10, <2>2, <2>3, JoinedEmpty
<1>11. CASE l.mode = "normal" /\ AtEnd(l) = Append(l.tokens, <<"NORMAL", l.value>>)
  <2>1. Ink(text) = InkOf(l.tokens) \o Ink(l.value)
    BY <1>5, <1>11 DEF Inked, InkSeen
  <2>2. InkOf(Append(l.tokens, <<"NORMAL", l.value>>)) = InkOf(l.tokens) \o Ink(l.value)
    BY <1>0, <1>7, InkOfMore
  <2> QED
    BY <1>6, <1>11, <2>1, <2>2
<1> QED
  BY <1>9, <1>10, <1>11

-------------------------------------------------------------------------------
(* What the lexer makes of the symbols that ToString writes around words    *)

Between(T) == At("space", <<>>, T)

LEMMA BetweenTyped ==
  ASSUME NEW T \in Tokens
  PROVE  Between(T) \in Lexers
<1>1. "space" \in Modes
  BY DEF Modes
<1> QED
  BY <1>1, EmptyText, AtTyped DEF Between

LEMMA LexBlank ==
  ASSUME NEW T \in Tokens, NEW c \in {"ws", "nl"}
  PROVE  LexStep(Between(T), c) = Between(T)
<1>1. BetweenTokens(T, c) = Between(T)
  BY DEF BetweenTokens, IsWhiteSpace, Between, At
<1>2. Between(T).mode = "space" /\ Between(T).tokens = T
  BY DEF Between, At
<1> QED
  BY <1>1, <1>2 DEF LexStep

LEMMA LexDelimiter ==
  ASSUME NEW T \in Tokens, NEW c \in {";", "{", "}"}
  PROVE  LexStep(Between(T), c) = Between(Append(T, <<c, <<c>>>>))
<1>1. BetweenTokens(T, c) = Between(Append(T, <<c, <<c>>>>))
  BY DEF BetweenTokens, IsWhiteSpace, IsBlockDelimiter, Between, At
<1>2. Between(T).mode = "space" /\ Between(T).tokens = T
  BY DEF Between, At
<1> QED
  BY <1>1, <1>2 DEF LexStep

(* The symbol behind a word ends it and is read as if nothing had been there.*)
LEMMA LexWordEnd ==
  ASSUME NEW T \in Tokens, NEW type \in WordTypes, NEW v \in Text, NEW c, EndsToken(c)
  PROVE  LexStep(At(EndMode(type), v, T), c) = LexStep(Between(Append(T, <<type, v>>)), c)
<1> DEFINE l == At(EndMode(type), v, T)
           U == Append(T, <<type, v>>)
<1>1. l.mode = EndMode(type) /\ l.value = v /\ l.tokens = T
  BY DEF At
<1>2. Between(U).mode = "space" /\ Between(U).tokens = U
  BY DEF Between, At
<1> HIDE DEF l, U
<1>3. LexStep(Between(U), c) = BetweenTokens(U, c)
  BY <1>2 DEF LexStep
<1>4. CASE type = "NORMAL"
  BY <1>1, <1>3, <1>4 DEF LexStep, EndMode, l, U
<1>5. CASE type = "QUOTED_STRING"
  BY <1>1, <1>3, <1>5 DEF LexStep, EndMode, l, U
<1> QED
  BY <1>4, <1>5 DEF WordTypes

LEMMA LexOne ==
  ASSUME NEW l \in Lexers, NEW c \in Symbols
  PROVE  LexRun(l, <<c>>) = LexStep(l, c) /\ LexRun(l, <<>>) = l
<1>1. <<c>> = Append(<<>>, c)
  BY SmallTexts, Zenon
<1>2. LexRun(l, <<>>) = l /\ LexRun(l, Append(<<>>, c)) = LexStep(LexRun(l, <<>>), c)
  BY EmptyText, LexRunMore
<1> QED
  BY <1>1, <1>2, Zenon

LEMMA LexTwo ==
  ASSUME NEW l \in Lexers, NEW c \in Symbols, NEW d \in Symbols
  PROVE  LexRun(l, <<c, d>>) = LexStep(LexStep(l, c), d)
<1>1. <<c, d>> = Append(<<c>>, d) /\ <<c>> \in Text
  BY SmallTexts, Zenon
<1>2. LexRun(l, Append(<<c>>, d)) = LexStep(LexRun(l, <<c>>), d)
  BY <1>1, LexRunMore
<1>3. LexRun(l, <<c>>) = LexStep(l, c)
  BY LexOne
<1> QED
  BY <1>1, <1>2, <1>3, Zenon

LEMMA LexThree ==
  ASSUME NEW l \in Lexers, NEW c \in Symbols, NEW d \in Symbols, NEW e \in Symbols
  PROVE  LexRun(l, <<c, d, e>>) = LexStep(LexStep(LexStep(l, c), d), e)
<1>1. <<c, d, e>> = Append(<<c, d>>, e) /\ <<c, d>> \in Text
  <2>1. <<c, d, e>> = Append(<<c, d>>, e)
    BY SmallTriples, Zenon
  <2>2. <<c, d>> \in Text
    BY SmallTexts, Zenon
  <2> QED
    BY <2>1, <2>2, Zenon
<1>2. LexRun(l, Append(<<c, d>>, e)) = LexStep(LexRun(l, <<c, d>>), e)
  BY <1>1, LexRunMore
<1>3. LexRun(l, <<c, d>>) = LexStep(LexStep(l, c), d)
  BY LexTwo
<1> QED
  BY <1>1, <1>2, <1>3, Zenon

LEMMA LexIndent ==
  ASSUME NEW T \in Tokens, NEW n \in Nat
  PROVE  LexRun(Between(T), Indent(n)) = Between(T)
<1> DEFINE S == {k \in Nat : LexRun(Between(T), Indent(k)) = Between(T)}
<1>1. Between(T) \in Lexers /\ "ws" \in Symbols
  BY BetweenTyped, SmallTexts
<1>2. 0 \in S
  BY <1>1, IndentMore, LexOne
<1>3. ASSUME NEW k \in S PROVE k + 1 \in S
  <2>1. k \in Nat /\ k + 1 \in Nat /\ LexRun(Between(T), Indent(k)) = Between(T)
    OBVIOUS
  <2>2. Indent(k) \in Text /\ Indent(k + 1) = Append(Indent(k), "ws")
    BY <2>1, IndentMore
  <2> DEFINE l == Between(T)
             t == Indent(k)
  <2>3. l \in Lexers /\ t \in Text /\ LexRun(l, t) = l /\ Indent(k + 1) = Append(t, "ws")
    BY <1>1, <2>1, <2>2
  <2> HIDE DEF l, t
  <2>4. LexRun(l, Append(t, "ws")) = LexStep(LexRun(l, t), "ws")
    BY <1>1, <2>3, LexRunMore
  <2>5. LexRun(Between(T), Indent(k + 1)) = LexStep(Between(T), "ws")
    BY <2>3, <2>4 DEF l
  <2> QED
    BY <2>1, <2>5, LexBlank
<1>4. S = Nat
  <2> HIDE DEF S
  <2>1. S \in SUBSET Nat
    BY DEF S
  <2> QED
    BY <1>2, <1>3, <2>1, NatSetInduction
<1> QED
  BY <1>4

(* A word behind blanks. *)
LEMMA LexIndented ==
  ASSUME NEW T \in Tokens, NEW n \in Nat, NEW type \in WordTypes, NEW v \in Text,
         ReadsBack(EndMode(type), v)
  PROVE  LexRun(Between(T), Indent(n) \o v) = At(EndMode(type), v, T)
<1>1. Between(T) \in Lexers /\ Indent(n) \in Text
  BY BetweenTyped, IndentMore
<1>2. LexRun(Between(T), Indent(n) \o v) = LexRun(LexRun(Between(T), Indent(n)), v)
  BY <1>1, LexJoined
<1>3. LexRun(Between(T), Indent(n)) = Between(T)
  BY LexIndent
<1>4. LexRun(Between(T), v) = At(EndMode(type), v, T)
  BY DEF ReadsBack, Between
<1> QED
  BY <1>2, <1>3, <1>4

LEMMA WordEndTyped ==
  ASSUME NEW T \in Tokens, NEW type \in WordTypes, NEW v \in Text
  PROVE  /\ At(EndMode(type), v, T) \in Lexers
         /\ type \in TokenTypes /\ Append(T, <<type, v>>) \in Tokens
<1>1. EndMode(type) \in Modes /\ type \in TokenTypes
  BY DEF EndMode, Modes, WordTypes, TokenTypes
<1> QED
  BY <1>1, AtTyped, TokenAdded

(* What follows a word. *)
LEMMA LexBehind ==
  ASSUME NEW U \in Tokens, NEW last \in WordTypes, NEW w \in Text
  PROVE  LET l == At(EndMode(last), w, U)
             T == Append(U, <<last, w>>)
         IN  /\ \A type \in WordTypes, v \in Text : ReadsBack(EndMode(type), v) =>
                  LexRun(l, <<"ws">> \o v) = At(EndMode(type), v, T)
             /\ LexRun(l, <<";", "nl">>) = Between(Append(T, <<";", <<";">>>>))
             /\ LexRun(l, <<"ws", "{", "nl">>) = Between(Append(T, <<"{", <<"{">>>>))
<1> DEFINE l == At(EndMode(last), w, U)
           T == Append(U, <<last, w>>)
<1>1. l \in Lexers /\ T \in Tokens
  BY WordEndTyped
<1>2. Between(T) \in Lexers
  BY <1>1, BetweenTyped
<1>3. "ws" \in Symbols /\ "nl" \in Symbols /\ ";" \in Symbols /\ "{" \in Symbols
  BY DEF Symbols
<1>4. EndsToken("ws") /\ EndsToken(";")
  BY DEF EndsToken, IsWhiteSpace, IsBlockDelimiter
<1>5. LexStep(l, "ws") = LexStep(Between(T), "ws") /\ LexStep(l, ";") = LexStep(Between(T), ";")
  BY <1>4, LexWordEnd
<1> HIDE DEF l, T
<1>6. LexStep(l, "ws") = Between(T)
  BY <1>1, <1>5, LexBlank
<1>7. ASSUME NEW c \in {";", "{"}
      PROVE  LexStep(LexStep(Between(T), c), "nl") = Between(Append(T, <<c, <<c>>>>))
  <2>1. LexStep(Between(T), c) = Between(Append(T, <<c, <<c>>>>))
    BY <1>1, LexDelimiter
  <2>2. c \in TokenTypes /\ <<c>> \in Text
    <3>1. c \in Symbols
      BY <1>3
    <3>2. <<c>> \in Text
      BY <3>1, SmallTexts, Zenon
    <3> QED
      BY <3>1, <3>2 DEF TokenTypes
  <2>3. Append(T, <<c, <<c>>>>) \in Tokens
    BY <1>1, <2>2, TokenAdded
  <2> QED
    BY <2>1, <2>3, LexBlank
<1>8. LexRun(l, <<";", "nl">>) = Between(Append(T, <<";", <<";">>>>))
  <2>1. LexRun(l, <<";", "nl">>) = LexStep(LexStep(l, ";"), "nl")
    BY <1>1, <1>3, LexTwo
  <2> QED
    BY <1>5, <1>7, <2>1
<1>9. LexRun(l, <<"ws", "{", "nl">>) = Between(Append(T, <<"{", <<"{">>>>))
  <2>1. LexRun(l, <<"ws", "{", "nl">>) = LexStep(LexStep(LexStep(l, "ws"), "{"), "nl")
    BY <1>1, <1>3, LexThree
  <2> QED
    BY <1>6, <1>7, <2>1
<1>10. ASSUME NEW type \in WordTypes, NEW v \in Text, ReadsBack(EndMode(type), v)
       PROVE  LexRun(l, <<"ws">> \o v) = At(EndMode(type), v, T)
  <2>1. <<"ws">> \in Text
    BY <1>3, SmallTexts, Zenon
  <2>2. LexRun(l, <<"ws">> \o v) = LexRun(LexRun(l, <<"ws">>), v)
    BY <1>1, <2>1, LexJoined
  <2>3. LexRun(l, <<"ws">>) = Between(T)
    BY <1>1, <1>3, <1>6, LexOne
  <2>4. LexRun(Between(T), v) = At(EndMode(type), v, T)
    BY <1>1, <1>10 DEF ReadsBack, Between
  <2> QED
    BY <2>2, <2>3, <2>4
<1> QED
  BY <1>8, <1>9, <1>10 DEF l, T

LEMMA LexClose ==
  ASSUME NEW T \in Tokens, NEW d \in Nat
  PROVE  LexRun(Between(T), CloseLine(d)) = Between(Append(T, <<"}", <<"}">>>>))
<1> DEFINE U == Append(T, <<"}", <<"}">>>>)
<1>1. Between(T) \in Lexers /\ "}" \in Symbols /\ "nl" \in Symbols
  BY BetweenTyped, SmallTexts
<1>2. U \in Tokens
  <2>1. "}" \in TokenTypes /\ <<"}">> \in Text
    <3>1. <<"}">> \in Text
      BY <1>1, SmallTexts, Zenon
    <3> QED
      BY <1>1, <3>1 DEF TokenTypes
  <2> QED
    BY <2>1, TokenAdded
<1>3. 2 * d \in Nat
  OBVIOUS
<1>4. Indent(2 * d) \in Text /\ <<"}", "nl">> \in Text
  <2>1. <<"}", "nl">> \in Text
    BY <1>1, SmallTexts, Zenon
  <2> QED
    BY <1>3, <2>1, IndentMore
<1>5. LexRun(Between(T), CloseLine(d)) = LexRun(LexRun(Between(T), Indent(2 * d)), <<"}", "nl">>)
  BY <1>1, <1>4, LexJoined DEF CloseLine
<1>6. LexRun(Between(T), Indent(2 * d)) = Between(T)
  BY <1>3, LexIndent
<1>7. LexRun(Between(T), <<"}", "nl">>) = LexStep(LexStep(Between(T), "}"), "nl")
  BY <1>1, LexTwo
<1>8. LexStep(Between(T), "}") = Between(U)
  BY LexDelimiter
<1> HIDE DEF U
<1>9. LexStep(Between(U), "nl") = Between(U)
  BY <1>2, LexBlank
<1> QED
  BY <1>5, <1>6, <1>7, <1>8, <1>9 DEF U

(* The ink of these symbols. *)
LEMMA InkBehind ==
  /\ \A v \in Text : Ink(<<"ws">> \o v) = Ink(v)
  /\ Ink(<<";", "nl">>) = Ink(<<";">>)
  /\ Ink(<<"ws", "{", "nl">>) = Ink(<<"{">>)
  /\ \A d \in Nat : Ink(CloseLine(d)) = Ink(<<"}">>)
  /\ \A n \in Nat, v \in Text : Ink(Indent(n) \o v) = Ink(v)
<1>1. /\ "ws" \in Symbols /\ "nl" \in Symbols /\ ";" \in Symbols /\ "{" \in Symbols
      /\ "}" \in Symbols
  BY DEF Symbols
<1>2. Drop("ws") = <<>> /\ Drop("nl") = <<>>
  BY DEF Drop, IsWhiteSpace
<1>3. ASSUME NEW t \in Text
      PROVE  Ink(t) \in Text /\ Ink(t) \o <<>> = Ink(t) /\ <<>> \o Ink(t) = Ink(t)
  <2>1. Ink(t) \in Text
    BY InkJoined
  <2> QED
    BY <2>1, JoinedEmpty
<1>4. ASSUME NEW t \in Text, NEW c \in {"ws", "nl"} PROVE Ink(Append(t, c)) = Ink(t)
  <2>1. Ink(Append(t, c)) = Ink(t) \o Drop(c)
    BY <1>1, InkMore
  <2> QED
    BY <1>2, <1>3, <2>1
<1>5. ASSUME NEW v \in Text PROVE Ink(<<"ws">> \o v) = Ink(v)
  <2>1. <<"ws">> \in Text
    BY <1>1, SmallTexts, Zenon
  <2>2. Ink(<<"ws">> \o v) = Ink(<<"ws">>) \o Ink(v)
    BY <2>1, InkJoined
  <2>3. Ink(<<"ws">>) = <<>>
    BY <1>1, <1>2, InkOne
  <2> QED
    BY <1>3, <2>2, <2>3
<1>6. ASSUME NEW c \in Symbols PROVE Ink(<<c, "nl">>) = Ink(<<c>>)
  <2>1. <<c, "nl">> = Append(<<c>>, "nl") /\ <<c>> \in Text
    BY <1>1, SmallTexts, Zenon
  <2> QED
    BY <1>4, <2>1
<1>7. Ink(<<"ws", "{", "nl">>) = Ink(<<"{">>)
  <2>1. /\ <<"ws", "{", "nl">> = Append(<<"ws", "{">>, "nl") /\ <<"ws", "{">> \in Text
        /\ <<"{">> \in Text
    BY <1>1, SmallTexts, Zenon
  <2>2. <<"ws", "{">> = <<"ws">> \o <<"{">>
    <3>1. /\ <<"ws", "{">> = Append(<<"ws">>, "{") /\ <<"{">> = Append(<<>>, "{")
          /\ <<"ws">> \in Text
      BY <1>1, SmallTexts, Zenon
    <3>2. <<"ws">> \o Append(<<>>, "{") = Append(<<"ws">> \o <<>>, "{")
      BY <1>1, <3>1, EmptyText, JoinedAppend
    <3> QED
      BY <3>1, <3>2, JoinedEmpty, Zenon
  <2> QED
    BY <1>4, <1>5, <2>1, <2>2
<1>8. ASSUME NEW n \in Nat, NEW v \in Text PROVE Ink(Indent(n) \o v) = Ink(v)
  <2>1. Indent(n) \in Text
    BY IndentMore
  <2>2. Ink(Indent(n) \o v) = Ink(Indent(n)) \o Ink(v)
    BY <2>1, InkJoined
  <2> QED
    BY <1>3, <2>2, InkIndent
<1>9. ASSUME NEW d \in Nat PROVE Ink(CloseLine(d)) = Ink(<<"}">>)
  <2>1. 2 * d \in Nat
    OBVIOUS
  <2>2. <<"}", "nl">> \in Text
    BY <1>1, SmallTexts, Zenon
  <2> QED
    BY <1>1, <1>6, <1>8, <2>1, <2>2 DEF CloseLine
<1> QED
  BY <1>1, <1>5, <1>6, <1>7, <1>8, <1>9

-------------------------------------------------------------------------------
(* What ToString has printed when its last statement is not ended yet       *)

LineOf(st) == Indent(2 * st.depth) \o WordsText(st.tokens)
Body(st)   == LineOf(st) \o (IF st.block THEN <<"ws", "{", "nl">> ELSE <<";", "nl">>)
Open(st)   == st.depth + (IF st.block THEN 1 ELSE 0)

(* All statements but the last, with the ends of the blocks behind them.    *)
Above(s) == FlattenSeq([i \in 1 .. Len(s) - 1 |-> StatementText(s, i)])

LEMMA BodyTyped ==
  ASSUME NEW st \in Statement
  PROVE  /\ LineOf(st) \in Text /\ Body(st) \in Text /\ Open(st) \in Int
         /\ st.depth \in Int /\ st.tokens \in Seq(Text) /\ st.block \in BOOLEAN
<1>1. st.depth \in Int /\ st.tokens \in Seq(Text) /\ st.block \in BOOLEAN
  BY DEF Statement
<1>2. 2 * st.depth \in Int /\ Open(st) \in Int
  BY <1>1 DEF Open
<1>3. Indent(2 * st.depth) \in Text
  BY <1>2, IndentTyped
<1>4. WordsText(st.tokens) \in Text
  BY <1>1, EmptyText, WordsTextMore
<1>5. LineOf(st) \in Text
  BY <1>3, <1>4, Joined DEF LineOf
<1>6. <<"ws", "{", "nl">> \in Text /\ <<";", "nl">> \in Text
  BY SmallTexts, Zenon
<1>7. Body(st) \in Text
  BY <1>5, <1>6, Joined DEF Body
<1> QED
  BY <1>1, <1>2, <1>5, <1>7

LEMMA TextIs ==
  ASSUME NEW s \in Statements, NEW i \in 1 .. Len(s)
  PROVE  LET depth == IF i = Len(s) THEN 0 ELSE s[i + 1].depth
         IN  /\ StatementText(s, i) = Body(s[i]) \o Closing(Open(s[i]), depth)
             /\ StatementText(s, i) \in Text
<1> DEFINE depth == IF i = Len(s) THEN 0 ELSE s[i + 1].depth
<1>1. StatementText(s, i) = Body(s[i]) \o Closing(Open(s[i]), depth)
  BY DEF StatementText, Body, LineOf, Open, Indent, WordsText
<1>2. s[i] \in Statement /\ (i # Len(s) => s[i + 1] \in Statement)
  BY DEF Statements
<1>3. depth \in Int
  BY <1>2, BodyTyped
<1> HIDE DEF depth
<1>4. Body(s[i]) \in Text /\ Open(s[i]) \in Int
  BY <1>2, BodyTyped
<1>5. Closing(Open(s[i]), depth) \in Text
  BY <1>3, <1>4, ClosingTyped
<1> QED
  BY <1>1, <1>4, <1>5, Joined DEF depth

(* The text of a statement is that of the next one's depth. *)
LEMMA TextSame ==
  ASSUME NEW s, NEW t, NEW i \in 1 .. Len(s) - 1, Len(s) \in Nat, Len(t) >= Len(s), Len(t) \in Nat,
         t[i] = s[i], t[i + 1].depth = s[i + 1].depth
  PROVE  StatementText(t, i) = StatementText(s, i)
<1>1. i # Len(s) /\ i # Len(t)
  OBVIOUS
<1> QED
  BY <1>1 DEF StatementText

(* The last statement is changed, but not its depth. *)
LEMMA AboveSame ==
  ASSUME NEW s, NEW t, Len(s) \in Nat, Len(t) = Len(s),
         \A i \in 1 .. Len(s) - 1 : t[i] = s[i],
         t[Len(s)].depth = s[Len(s)].depth
  PROVE  Above(t) = Above(s)
<1>1. ASSUME NEW i \in 1 .. Len(s) - 1 PROVE StatementText(t, i) = StatementText(s, i)
  <2>1. i + 1 \in 1 .. Len(s) - 1 \/ i + 1 = Len(s)
    OBVIOUS
  <2>2. t[i] = s[i] /\ t[i + 1].depth = s[i + 1].depth
    BY <2>1
  <2>3. Len(t) >= Len(s) /\ Len(t) \in Nat
    OBVIOUS
  <2> QED
    BY <2>2, <2>3, TextSame
<1> QED
  BY <1>1 DEF Above

(* A statement more: what follows the one before it is now known. *)
LEMMA AboveMore ==
  ASSUME NEW s \in Statements, NEW st \in Statement
  PROVE  LET n == Len(s)
         IN  /\ Above(s) \in Text
             /\ s = <<>> => Above(Append(s, st)) = <<>>
             /\ s # <<>> => Above(Append(s, st)) =
                              Above(s) \o (Body(s[n]) \o Closing(Open(s[n]), st.depth))
<1> DEFINE n == Len(s)
           t == Append(s, st)
           f == [i \in 1 .. n |-> StatementText(t, i)]
<1>1. /\ n \in Nat /\ t \in Statements /\ Len(t) = n + 1 /\ t[n + 1] = st
      /\ \A i \in 1 .. n : t[i] = s[i]
  BY DEF Statements
<1>2. s = <<>> <=> n = 0
  BY DEF Statements
<1>3. CASE n = 0
  <2>1. Above(s) = <<>> /\ Above(t) = <<>>
    <3>1. Len(s) - 1 = -1 /\ Len(t) - 1 = 0
      BY <1>1, <1>3
    <3>2. 1 .. -1 = {} /\ 1 .. 0 = {}
      OBVIOUS
    <3> HIDE DEF t
    <3>3. Above(s) = FlattenSeq([i \in {} |-> StatementText(s, i)])
      BY <3>1, <3>2 DEF Above
    <3>4. Above(t) = FlattenSeq([i \in {} |-> StatementText(t, i)])
      BY <3>1, <3>2 DEF Above
    <3>5. [i \in {} |-> StatementText(s, i)] = <<>> /\ [i \in {} |-> StatementText(t, i)] = <<>>
      OBVIOUS
    <3> QED
      BY <3>3, <3>4, <3>5, FlattenEmpty
  <2> QED
    BY <1>2, <1>3, <2>1, EmptyText
<1>4. CASE n # 0
  <2> DEFINE m == n - 1
  <2>1. m \in Nat /\ m + 1 = n /\ n \in 1 .. n /\ \A i \in 1 .. m : i \in 1 .. n
    BY <1>1, <1>4
  <2>2. ASSUME NEW i \in 1 .. n PROVE StatementText(t, i) \in Text
    <3>1. i \in 1 .. Len(t)
      BY <1>1
    <3> HIDE DEF t
    <3> QED
      BY <1>1, <3>1, TextIs
  <2>3. ASSUME NEW i \in 1 .. m PROVE StatementText(t, i) = StatementText(s, i)
    <3>1. i \in 1 .. Len(s) - 1 /\ i + 1 \in 1 .. n
      BY <1>1
    <3>2. t[i] = s[i] /\ t[i + 1] = s[i + 1] /\ Len(t) >= Len(s) /\ Len(t) \in Nat
      BY <1>1, <2>1, <3>1
    <3> HIDE DEF t
    <3> QED
      BY <1>1, <3>1, <3>2, TextSame DEF n
  <2>4. StatementText(t, n) = Body(s[n]) \o Closing(Open(s[n]), st.depth)
    <3> HIDE DEF t, n
    <3>1. n \in 1 .. Len(t) /\ n # Len(t) /\ t[n] = s[n] /\ t[n + 1].depth = st.depth
      BY <1>1, <2>1
    <3>2. StatementText(t, n) = Body(t[n]) \o Closing(Open(t[n]), t[n + 1].depth)
      BY <1>1, <3>1, TextIs
    <3> QED
      BY <3>1, <3>2
  <2>5. Above(s) = FlattenSeq([i \in 1 .. m |-> f[i]])
    <3>1. [i \in 1 .. m |-> f[i]] = [i \in 1 .. m |-> StatementText(s, i)]
      BY <2>1, <2>3
    <3> QED
      BY <3>1 DEF Above
  <2>6. Above(t) = FlattenSeq([i \in 1 .. m + 1 |-> f[i]])
    <3>1. Len(t) - 1 = n
      BY <1>1
    <3>2. [i \in 1 .. m + 1 |-> f[i]] = [i \in 1 .. n |-> StatementText(t, i)]
      BY <2>1
    <3> HIDE DEF t, f, m, n
    <3> QED
      BY <3>1, <3>2 DEF Above
  <2>7. f[m + 1] = StatementText(t, n) /\ \A i \in 1 .. m + 1 : f[i] \in Text
    BY <2>1, <2>2
  <2> HIDE DEF f, m, n, t
  <2>8. /\ FlattenSeq([i \in 1 .. m |-> f[i]]) \in Text
        /\ FlattenSeq([i \in 1 .. m + 1 |-> f[i]]) =
             FlattenSeq([i \in 1 .. m |-> f[i]]) \o f[m + 1]
    BY <2>1, <2>7, FlattenOf
  <2>9. Above(s) \in Text /\ Above(t) = Above(s) \o StatementText(t, n)
    BY <2>5, <2>6, <2>7, <2>8
  <2>10. s # <<>>
    BY <1>2, <1>4
  <2> QED
    BY <2>4, <2>9, <2>10 DEF t, n
<1> QED
  BY <1>3, <1>4

(* All of it. *)
LEMMA WholeText ==
  ASSUME NEW s \in Statements
  PROVE  LET n == Len(s)
         IN  /\ s = <<>> => ConfigToString(s) = <<>>
             /\ s # <<>> => ConfigToString(s) = Above(s) \o (Body(s[n]) \o Closing(Open(s[n]), 0))
<1> DEFINE n == Len(s)
           f == [i \in 1 .. n |-> StatementText(s, i)]
           m == n - 1
<1>1. n \in Nat /\ DOMAIN s = 1 .. n /\ (s = <<>> <=> n = 0)
  BY DEF Statements
<1>2. ConfigToString(s) = FlattenSeq(f)
  BY <1>1 DEF ConfigToString
<1>3. CASE n = 0
  <2>1. f = <<>>
    BY <1>3
  <2> HIDE DEF f
  <2> QED
    BY <1>1, <1>2, <1>3, <2>1, FlattenEmpty
<1>4. CASE n # 0
  <2>1. m \in Nat /\ m + 1 = n /\ n \in 1 .. n /\ \A i \in 1 .. m : i \in 1 .. n
    BY <1>1, <1>4
  <2>2. \A i \in 1 .. n : StatementText(s, i) \in Text
    BY TextIs
  <2>3. f[m + 1] = StatementText(s, n) /\ \A i \in 1 .. m + 1 : f[i] \in Text
    BY <2>1, <2>2
  <2>4. StatementText(s, n) = Body(s[n]) \o Closing(Open(s[n]), 0)
    BY <2>1, TextIs
  <2>5. Above(s) = FlattenSeq([i \in 1 .. m |-> f[i]])
    <3>1. [i \in 1 .. m |-> f[i]] = [i \in 1 .. m |-> StatementText(s, i)]
      BY <2>1
    <3> QED
      BY <3>1 DEF Above
  <2>6. f = [i \in 1 .. m + 1 |-> f[i]]
    BY <2>1
  <2> HIDE DEF f, m, n
  <2>7. FlattenSeq([i \in 1 .. m + 1 |-> f[i]]) =
             FlattenSeq([i \in 1 .. m |-> f[i]]) \o f[m + 1]
    BY <2>1, <2>3, FlattenOf
  <2>8. ConfigToString(s) = Above(s) \o StatementText(s, n)
    BY <1>2, <2>3, <2>5, <2>6, <2>7
  <2>9. s # <<>>
    BY <1>1, <1>4
  <2> QED
    BY <2>4, <2>8, <2>9 DEF n
<1> QED
  BY <1>3, <1>4

-------------------------------------------------------------------------------
(* What a token adds to the statements, element by element                  *)

(* t is s with other words or another ending of its last statement.         *)
LastChanged(s, t) ==
  LET n == Len(s)
  IN  /\ Len(t) = n /\ \A i \in 1 .. n - 1 : t[i] = s[i]
      /\ t[n] \in Statement /\ t[n].depth = s[n].depth

LEMMA LastChangedTo ==
  ASSUME NEW s \in Statements, s # <<>>, NEW t, NEW new \in Statement,
         new.depth = s[Len(s)].depth, t = [s EXCEPT ![Len(s)] = new]
  PROVE  LastChanged(s, t) /\ t[Len(s)] = new
<1> DEFINE n == Len(s)
<1>1. n \in Nat /\ n # 0 /\ n \in DOMAIN s /\ DOMAIN s = 1 .. n /\ s \in Seq(Statement)
  BY DEF Statements
<1> HIDE DEF n
<1>2. t = [s EXCEPT ![n] = new]
  BY DEF n
<1>3. t[n] = new
  BY <1>1, <1>2
<1>4. \A i \in 1 .. n - 1 : t[i] = s[i]
  BY <1>1, <1>2
<1>5. Len(t) = n
  <2>1. DOMAIN t = 1 .. n
    BY <1>1, <1>2
  <2>2. t \in Seq(Statement)
    BY <1>1, <1>2
  <2> QED
    BY <1>1, <2>1, <2>2
<1> QED
  BY <1>3, <1>4, <1>5 DEF LastChanged, n

LEMMA LastStatement ==
  ASSUME NEW s \in Statements, s # <<>>
  PROVE  s[Len(s)] \in Statement
BY DEF Statements

LEMMA AddFirst ==
  ASSUME NEW p, NEW type \in WordTypes, NEW v, p.last \notin WordTypes
  PROVE  Add(p, type, v) =
           Append(p.statements, [depth |-> p.depth, tokens |-> <<v>>, block |-> FALSE])
BY DEF Add, WordTypes

LEMMA AddNext ==
  ASSUME NEW p \in Parsers, NEW type \in WordTypes, NEW v \in Text, p.last \in WordTypes,
         p.statements # <<>>
  PROVE  LET s == p.statements
             t == Add(p, type, v)
             n == Len(s)
         IN  /\ LastChanged(s, t) /\ t[n].block = s[n].block
             /\ t[n].tokens = Append(s[n].tokens, v)
<1> DEFINE s == p.statements
           n == Len(s)
           new == [s[n] EXCEPT !.tokens = Append(@, v)]
<1>1. s \in Statements /\ s[n] \in Statement
  BY LastStatement DEF Parsers
<1>2. Add(p, type, v) = [s EXCEPT ![n] = new]
  BY DEF Add, WordTypes
<1>3. \A st \in Statement :
        LET u == [st EXCEPT !.tokens = Append(st.tokens, v)]
        IN  /\ u \in Statement /\ u.depth = st.depth /\ u.block = st.block
            /\ u.tokens = Append(st.tokens, v)
  <2> SUFFICES ASSUME NEW st \in Statement
               PROVE  LET u == [st EXCEPT !.tokens = Append(st.tokens, v)]
                      IN  /\ u \in Statement /\ u.depth = st.depth /\ u.block = st.block
                          /\ u.tokens = Append(st.tokens, v)
    OBVIOUS
  <2>1. Append(st.tokens, v) \in Seq(Text)
    BY DEF Statement
  <2> QED
    BY <2>1 DEF Statement
<1>4. /\ new \in Statement /\ new.depth = s[n].depth /\ new.block = s[n].block
      /\ new.tokens = Append(s[n].tokens, v)
  BY <1>1, <1>3
<1> HIDE DEF new
<1>5. LastChanged(s, Add(p, type, v)) /\ Add(p, type, v)[n] = new
  BY <1>1, <1>2, <1>4, LastChangedTo
<1> QED
  BY <1>4, <1>5

LEMMA AddBlock ==
  ASSUME NEW p \in Parsers, NEW v, p.statements # <<>>
  PROVE  LET s == p.statements
             t == Add(p, "{", v)
             n == Len(s)
         IN  LastChanged(s, t) /\ t[n].block = TRUE /\ t[n].tokens = s[n].tokens
<1> DEFINE s == p.statements
           n == Len(s)
           new == [s[n] EXCEPT !.block = TRUE]
<1>1. s \in Statements /\ s[n] \in Statement
  BY LastStatement DEF Parsers
<1>2. Add(p, "{", v) = [s EXCEPT ![n] = new]
  BY DEF Add, WordTypes
<1>3. \A st \in Statement :
        LET u == [st EXCEPT !.block = TRUE]
        IN  u \in Statement /\ u.depth = st.depth /\ u.block = TRUE /\ u.tokens = st.tokens
  BY DEF Statement
<1>4. /\ new \in Statement /\ new.depth = s[n].depth /\ new.block = TRUE
      /\ new.tokens = s[n].tokens
  BY <1>1, <1>3
<1> HIDE DEF new
<1>5. LastChanged(s, Add(p, "{", v)) /\ Add(p, "{", v)[n] = new
  BY <1>1, <1>2, <1>4, LastChangedTo
<1> QED
  BY <1>4, <1>5

LEMMA AddNothing ==
  ASSUME NEW p, NEW v, NEW type \in {";", "}"}
  PROVE  Add(p, type, v) = p.statements
BY DEF Add, WordTypes

LEMMA AboveChanged ==
  ASSUME NEW s \in Statements, s # <<>>, NEW t, LastChanged(s, t)
  PROVE  Above(t) = Above(s) /\ Len(t) = Len(s) /\ t # <<>> /\ Above(s) \in Text
<1>1. Len(s) \in Nat /\ Len(s) # 0 /\ s[Len(s)] \in Statement
  BY LastStatement DEF Statements
<1>2. Above(s) \in Text
  BY <1>1, AboveMore
<1>3. Len(t) = Len(s) /\ Above(t) = Above(s)
  BY <1>1, AboveSame DEF LastChanged
<1> QED
  BY <1>1, <1>2, <1>3

-------------------------------------------------------------------------------
(* x is what ToString has printed of the statements of p, and the lexer     *)
(* finds in it the tokens T that Parse has read.                            *)

(* The last token is a word, which is not ended yet. *)
WordShown(x, p, T) ==
  LET s == p.statements
      n == Len(s)
  IN  /\ \E U \in Tokens, v \in Text :
           T = Append(U, <<p.last, v>>) /\ LexRun(LexStart, x) = At(EndMode(p.last), v, U)
      /\ s # <<>> /\ s[n].depth = p.depth /\ s[n].block = FALSE /\ s[n].tokens # <<>>
      /\ x = Above(s) \o LineOf(s[n])

(* The last token is a delimiter, or there is none; blocks have been closed *)
(* down to the depth where the next statement stands.                       *)
EndShown(x, p, T) ==
  LET s == p.statements
      n == Len(s)
  IN  /\ LexRun(LexStart, x) = Between(T)
      /\ \/ s = <<>> /\ x = <<>> /\ p.depth = 0
         \/ /\ s # <<>> /\ p.depth <= Open(s[n])
            /\ x = Above(s) \o (Body(s[n]) \o Closing(Open(s[n]), p.depth))

Shown(x, p, T) ==
  /\ x \in Text /\ Ink(x) = InkOf(T)
  /\ p.last \in WordTypes => WordShown(x, p, T)
  /\ p.last \notin WordTypes => EndShown(x, p, T)

LEMMA ShownMore ==
  ASSUME NEW x \in Text, NEW T \in Tokens, Ink(x) = InkOf(T), NEW y \in Text,
         NEW type \in TokenTypes, NEW v \in Text, Ink(y) = Ink(v)
  PROVE  /\ x \o y \in Text /\ Ink(x \o y) = InkOf(Append(T, <<type, v>>))
         /\ LexRun(LexStart, x \o y) = LexRun(LexRun(LexStart, x), y)
<1>1. LexStart \in Lexers
  BY DEF LexStart, Lexers, Modes, Text, Tokens
<1>2. Ink(x \o y) = Ink(x) \o Ink(y)
  BY InkJoined
<1>3. InkOf(Append(T, <<type, v>>)) = InkOf(T) \o Ink(v)
  BY InkOfMore
<1> QED
  BY <1>1, <1>2, <1>3, Joined, LexJoined

(* What an accepted token makes of the state of Parse. *)
After(p, type, v) ==
  [ok |-> TRUE, last |-> type, depth |-> p.depth + Change(type), statements |-> Add(p, type, v)]

LEMMA AfterFields ==
  ASSUME NEW p, NEW type, NEW v
  PROVE  /\ After(p, type, v).last = type
         /\ After(p, type, v).depth = p.depth + Change(type)
         /\ After(p, type, v).statements = Add(p, type, v)
BY DEF After

LEMMA Changes ==
  /\ \A type \in WordTypes \cup {";"} : Change(type) = 0
  /\ Change("{") = 1 /\ Change("}") = -1
BY DEF Change, WordTypes

(* The first word of a statement. *)
LEMMA ShowFirst ==
  ASSUME NEW p \in Parsers, NEW T \in Tokens, NEW x, Shown(x, p, T), p.depth >= 0,
         p.last \notin WordTypes, NEW type \in WordTypes, NEW v \in Text,
         ReadsBack(EndMode(type), v)
  PROVE  \E y : Shown(y, After(p, type, v), Append(T, <<type, v>>))
<1> DEFINE s == p.statements
           d == p.depth
           st == [depth |-> d, tokens |-> <<v>>, block |-> FALSE]
           t == Append(s, st)
           more == Indent(2 * d) \o v
           q == After(p, type, v)
<1>1. s \in Statements /\ d \in Nat /\ 2 * d \in Nat
  BY DEF Parsers
<1>2. /\ x \in Text /\ Ink(x) = InkOf(T) /\ LexRun(LexStart, x) = Between(T)
      /\ \/ s = <<>> /\ x = <<>> /\ d = 0
         \/ /\ s # <<>>
            /\ x = Above(s) \o (Body(s[Len(s)]) \o Closing(Open(s[Len(s)]), d))
  BY DEF Shown, EndShown
<1>3. st \in Statement /\ st.depth = d /\ st.block = FALSE /\ st.tokens = <<v>> /\ <<v>> # <<>>
  <2>1. <<v>> \in Seq(Text)
    OBVIOUS
  <2> QED
    BY <1>1, <2>1 DEF Statement
<1>4. LineOf(st) = more
  <2>1. WordsText(<<v>>) = v
    <3>1. <<>> \in Seq(Text)
      OBVIOUS
    <3> QED
      BY <3>1, WordsTextMore
  <2> HIDE DEF st
  <2> QED
    BY <1>3, <2>1 DEF LineOf
<1>5. /\ q.last = type /\ q.depth = d /\ q.statements = t
  <2>1. q.last = type /\ q.depth = d + Change(type) /\ q.statements = Add(p, type, v)
    BY AfterFields
  <2>2. Change(type) = 0
    BY Changes
  <2>3. Add(p, type, v) = t
    BY AddFirst, Zenon
  <2> HIDE DEF q, t, d
  <2>4. d + 0 = d
    BY <1>1
  <2> QED
    BY <2>1, <2>2, <2>3, <2>4, Zenon
<1>6. t # <<>> /\ t[Len(t)] = st
  BY <1>1 DEF Statements
<1> HIDE DEF st, q
<1>7. Above(t) = x
  <2>1. /\ s = <<>> => Above(t) = <<>>
        /\ s # <<>> =>
             Above(t) = Above(s) \o (Body(s[Len(s)]) \o Closing(Open(s[Len(s)]), st.depth))
    BY <1>1, <1>3, AboveMore
  <2> QED
    BY <1>2, <1>3, <2>1, Zenon
<1>8. more \in Text /\ Ink(more) = Ink(v)
  BY <1>1, IndentMore, Joined, InkBehind
<1>9. type \in TokenTypes
  BY WordEndTyped
<1> HIDE DEF s, d, t, more
<1>10. /\ x \o more \in Text /\ Ink(x \o more) = InkOf(Append(T, <<type, v>>))
       /\ LexRun(LexStart, x \o more) = LexRun(Between(T), more)
  BY <1>2, <1>8, <1>9, ShownMore
<1>11. LexRun(Between(T), more) = At(EndMode(type), v, T)
  BY <1>1, LexIndented DEF more
<1>12. WordShown(x \o more, q, Append(T, <<type, v>>))
  BY <1>3, <1>4, <1>5, <1>6, <1>7, <1>10, <1>11 DEF WordShown
<1>13. Shown(x \o more, q, Append(T, <<type, v>>))
  BY <1>5, <1>10, <1>12 DEF Shown
<1> QED
  BY <1>13 DEF q

LEMMA LexBehindWord ==
  ASSUME NEW U \in Tokens, NEW last \in WordTypes, NEW w \in Text,
         NEW type \in WordTypes, NEW v \in Text, ReadsBack(EndMode(type), v)
  PROVE  LexRun(At(EndMode(last), w, U), <<"ws">> \o v)
           = At(EndMode(type), v, Append(U, <<last, w>>))
BY LexBehind

(* One more word of a statement. *)
LEMMA ShowNext ==
  ASSUME NEW p \in Parsers, NEW T \in Tokens, NEW x, Shown(x, p, T),
         p.last \in WordTypes, NEW type \in WordTypes, NEW v \in Text,
         ReadsBack(EndMode(type), v)
  PROVE  \E y : Shown(y, After(p, type, v), Append(T, <<type, v>>))
<1> DEFINE s == p.statements
           n == Len(s)
           t == Add(p, type, v)
           more == <<"ws">> \o v
           q == After(p, type, v)
<1>1. s \in Statements /\ p.depth \in Int
  BY DEF Parsers
<1>2. x \in Text /\ Ink(x) = InkOf(T) /\ WordShown(x, p, T)
  BY DEF Shown
<1>3. PICK U \in Tokens, w \in Text :
        T = Append(U, <<p.last, w>>) /\ LexRun(LexStart, x) = At(EndMode(p.last), w, U)
  BY <1>2 DEF WordShown
<1>4. /\ s # <<>> /\ s[n].depth = p.depth /\ s[n].block = FALSE /\ s[n].tokens # <<>>
      /\ x = Above(s) \o LineOf(s[n])
  BY <1>2 DEF WordShown
<1>5. LastChanged(s, t) /\ t[n].block = FALSE /\ t[n].tokens = Append(s[n].tokens, v)
  BY <1>4, AddNext
<1>6. q.last = type /\ q.depth = p.depth /\ q.statements = t
  <2>1. q.last = type /\ q.depth = p.depth + Change(type) /\ q.statements = t
    BY AfterFields
  <2>2. Change(type) = 0
    BY Changes
  <2>3. p.depth + 0 = p.depth
    BY <1>1
  <2> QED
    BY <2>1, <2>2, <2>3, Zenon
<1> HIDE DEF q, t, s, n
<1>7. Above(t) = Above(s) /\ Len(t) = n /\ t # <<>> /\ Above(s) \in Text
  BY <1>1, <1>4, <1>5, AboveChanged DEF n
<1>8. s[n] \in Statement /\ s[n].tokens \in Seq(Text) /\ s[n].depth \in Int /\ LineOf(s[n]) \in Text
  BY <1>1, <1>4, LastStatement, BodyTyped DEF n
<1>9. "ws" \in Symbols /\ <<"ws">> \in Text
  BY SmallTexts, Zenon
<1>10. more \in Text /\ Ink(more) = Ink(v)
  BY <1>9, Joined, InkBehind
<1>11. LineOf(t[n]) = LineOf(s[n]) \o more
  <2>1. WordsText(Append(s[n].tokens, v)) = WordsText(s[n].tokens) \o more
    BY <1>4, <1>8, WordsTextMore
  <2>2. t[n].depth = s[n].depth
    BY <1>5 DEF LastChanged, n
  <2>3. WordsText(s[n].tokens) \in Text
    BY <1>8, EmptyText, WordsTextMore
  <2>4. Indent(2 * s[n].depth) \in Text
    <3>1. 2 * s[n].depth \in Int
      BY <1>8
    <3> QED
      BY <3>1, IndentTyped
  <2> HIDE DEF more
  <2> DEFINE i == Indent(2 * s[n].depth)
             j == WordsText(s[n].tokens)
  <2>5. LineOf(t[n]) = i \o (j \o more) /\ LineOf(s[n]) = i \o j
    BY <1>5, <2>1, <2>2 DEF LineOf
  <2> HIDE DEF i, j
  <2>6. Associates(i, j, more)
    BY <1>10, <2>3, <2>4, JoinedAssociates DEF i, j
  <2> QED
    BY <2>5, <2>6, Zenon DEF Associates
<1>12. x \o more = Above(t) \o LineOf(t[n])
  <2> DEFINE a == Above(s)
             b == LineOf(s[n])
  <2>1. a \in Text /\ b \in Text /\ more \in Text /\ x = a \o b
    BY <1>4, <1>7, <1>8, <1>10
  <2>2. Above(t) = a /\ LineOf(t[n]) = b \o more
    BY <1>7, <1>11
  <2> HIDE DEF a, b, more
  <2>3. Associates(a, b, more)
    BY <2>1, JoinedAssociates
  <2> QED
    BY <2>1, <2>2, <2>3, Zenon DEF Associates
<1>13. LexRun(At(EndMode(p.last), w, U), more) = At(EndMode(type), v, T)
  <2>1. LexRun(At(EndMode(p.last), w, U), <<"ws">> \o v)
          = At(EndMode(type), v, Append(U, <<p.last, w>>))
    BY LexBehindWord
  <2> QED
    BY <1>3, <2>1, Zenon DEF more
<1>14. type \in TokenTypes
  BY WordEndTyped
<1> HIDE DEF more
<1>15. /\ x \o more \in Text /\ Ink(x \o more) = InkOf(Append(T, <<type, v>>))
       /\ LexRun(LexStart, x \o more) = LexRun(LexRun(LexStart, x), more)
  BY <1>2, <1>10, <1>14, ShownMore
<1>16. t[n].depth = p.depth /\ t[n].tokens # <<>>
  <2>1. t[n].depth = s[n].depth
    BY <1>5 DEF LastChanged, n
  <2>2. Append(s[n].tokens, v) # <<>>
    BY <1>8
  <2> QED
    BY <1>4, <1>5, <2>1, <2>2
<1>17. WordShown(x \o more, q, Append(T, <<type, v>>))
  BY <1>3, <1>5, <1>6, <1>7, <1>12, <1>13, <1>15, <1>16 DEF WordShown
<1>18. Shown(x \o more, q, Append(T, <<type, v>>))
  BY <1>6, <1>15, <1>17 DEF Shown
<1> QED
  BY <1>18 DEF q

(* The delimiters behind a word and behind a block, and their texts.        *)
EndTypes  == {";", "{"}
Opens(c)  == c = "{"
Closer    == "}"
IsSign(v, c) == v = <<c>>

Ending(c) == IF Opens(c) THEN <<"ws", "{", "nl">> ELSE <<";", "nl">>

LEMMA SignTypes ==
  /\ \A c \in EndTypes : /\ c \in TokenTypes /\ c \notin WordTypes
                        /\ Change(c) = IF Opens(c) THEN 1 ELSE 0
  /\ Closer \in TokenTypes /\ Closer \notin WordTypes /\ Change(Closer) = -1
<1>1. /\ \A c \in EndTypes : c \in TokenTypes /\ c \notin WordTypes
      /\ Closer \in TokenTypes /\ Closer \notin WordTypes
  BY DEF TokenTypes, Symbols, WordTypes, EndTypes, Closer
<1>2. ASSUME NEW c \in EndTypes PROVE Change(c) = IF Opens(c) THEN 1 ELSE 0
  <2>1. c = ";" \/ c = "{"
    BY Zenon DEF EndTypes
  <2>2. ";" \in WordTypes \cup {";"} /\ ";" # "{"
    OBVIOUS
  <2> QED
    BY <2>1, <2>2, Changes, Zenon DEF Opens
<1> QED
  BY <1>1, <1>2, Changes, Zenon DEF Closer

(* What they look like to the lexer and without blanks. *)
LEMMA LexSigns ==
  /\ \A U \in Tokens, last \in WordTypes, w \in Text, c \in EndTypes : \A v : IsSign(v, c) =>
       LexRun(At(EndMode(last), w, U), Ending(c)) =
         Between(Append(Append(U, <<last, w>>), <<c, v>>))
  /\ \A T \in Tokens, d \in Nat : \A v : IsSign(v, Closer) =>
       LexRun(Between(T), CloseLine(d)) = Between(Append(T, <<Closer, v>>))
  /\ \A c \in EndTypes : \A v : IsSign(v, c) => Ink(Ending(c)) = Ink(v)
  /\ \A c \in EndTypes : Ending(c) \in Text
  /\ \A d \in Nat : \A v : IsSign(v, Closer) => Ink(CloseLine(d)) = Ink(v)
<1>1. \A c \in EndTypes : \/ c = ";" /\ Ending(c) = <<";", "nl">>
                          \/ c = "{" /\ Ending(c) = <<"ws", "{", "nl">>
  <2> SUFFICES ASSUME NEW c \in EndTypes
               PROVE  \/ c = ";" /\ Ending(c) = <<";", "nl">>
                      \/ c = "{" /\ Ending(c) = <<"ws", "{", "nl">>
    OBVIOUS
  <2>1. ";" # "{" /\ (c = ";" \/ c = "{")
    BY Zenon DEF EndTypes
  <2>2. c = "{" => Ending(c) = <<"ws", "{", "nl">>
    BY Zenon DEF Ending, Opens
  <2>3. c = ";" => Ending(c) = <<";", "nl">>
    <3>1. c = ";" => ~Opens(c)
      BY <2>1, Zenon DEF Opens
    <3> QED
      BY <3>1, Zenon DEF Ending
  <2> QED
    BY <2>1, <2>2, <2>3, Zenon
<1>2. ASSUME NEW U \in Tokens, NEW last \in WordTypes, NEW w \in Text, NEW c \in EndTypes,
             NEW v, IsSign(v, c)
      PROVE  LexRun(At(EndMode(last), w, U), Ending(c)) =
               Between(Append(Append(U, <<last, w>>), <<c, v>>))
  BY <1>1, <1>2, LexBehind, Zenon DEF IsSign
<1>3. ASSUME NEW c \in EndTypes PROVE Ending(c) \in Text
  <2>1. <<"ws", "{", "nl">> \in Text /\ <<";", "nl">> \in Text
    BY SmallTexts, Zenon
  <2> QED
    BY <1>1, <2>1, Zenon
<1>4. ASSUME NEW c \in EndTypes, NEW v, IsSign(v, c) PROVE Ink(Ending(c)) = Ink(v)
  BY <1>1, <1>4, InkBehind, Zenon DEF IsSign
<1>5. ASSUME NEW T \in Tokens, NEW d \in Nat, NEW v, IsSign(v, Closer)
      PROVE  LexRun(Between(T), CloseLine(d)) = Between(Append(T, <<Closer, v>>))
  BY <1>5, LexClose, Zenon DEF IsSign, Closer
<1>6. ASSUME NEW d \in Nat, NEW v, IsSign(v, Closer) PROVE Ink(CloseLine(d)) = Ink(v)
  BY <1>6, InkBehind, Zenon DEF IsSign, Closer
<1> QED
  BY <1>2, <1>3, <1>4, <1>5, <1>6, Zenon

(* The end of a statement or the beginning of its block. *)
LEMMA ShowEnd ==
  ASSUME NEW p \in Parsers, NEW T \in Tokens, NEW x, Shown(x, p, T),
         p.last \in WordTypes, NEW type \in EndTypes, NEW v \in Text, IsSign(v, type)
  PROVE  \E y : Shown(y, After(p, type, v), Append(T, <<type, v>>))
<1> DEFINE s == p.statements
           n == Len(s)
           t == Add(p, type, v)
           more == Ending(type)
           q == After(p, type, v)
           V == Append(T, <<type, v>>)
<1>1. s \in Statements /\ p.depth \in Int
  BY DEF Parsers
<1>2. x \in Text /\ Ink(x) = InkOf(T) /\ WordShown(x, p, T)
  BY DEF Shown
<1>3. PICK U \in Tokens, w \in Text :
        T = Append(U, <<p.last, w>>) /\ LexRun(LexStart, x) = At(EndMode(p.last), w, U)
  BY <1>2 DEF WordShown
<1>4. /\ s # <<>> /\ s[n].depth = p.depth /\ s[n].block = FALSE
      /\ x = Above(s) \o LineOf(s[n])
  BY <1>2 DEF WordShown
<1>5. LastChanged(s, t) /\ t[n].block = Opens(type) /\ t[n].tokens = s[n].tokens
  <2>1. CASE type = "{"
    <3>1. Opens(type) = TRUE
      BY <2>1, Zenon DEF Opens
    <3> QED
      BY <1>4, <2>1, <3>1, AddBlock, Zenon
  <2>2. CASE type = ";"
    <3>1. t = s
      BY <2>2, AddNothing
    <3>2. s[n] \in Statement /\ Len(s) = n
      BY <1>1, <1>4, LastStatement, Zenon
    <3>3. LastChanged(s, t)
      BY <3>1, <3>2, Zenon DEF LastChanged
    <3>4. Opens(type) = FALSE
      <4>1. ";" # "{"
        OBVIOUS
      <4> QED
        BY <2>2, <4>1, Zenon DEF Opens
    <3> QED
      BY <1>4, <3>1, <3>3, <3>4, Zenon
  <2> QED
    BY <2>1, <2>2, Zenon DEF EndTypes
<1>6. q.last = type /\ q.statements = t /\ q.depth = p.depth + Change(type)
  BY AfterFields
<1> HIDE DEF q, t, s, n
<1>7. Above(t) = Above(s) /\ Len(t) = n /\ t # <<>> /\ Above(s) \in Text
  BY <1>1, <1>4, <1>5, AboveChanged DEF n
<1>8. s[n] \in Statement /\ LineOf(s[n]) \in Text
  BY <1>1, <1>4, LastStatement, BodyTyped DEF n
<1>9. t[n] \in Statement /\ t[n].depth = s[n].depth
  BY <1>5 DEF LastChanged, n
<1>10. LineOf(t[n]) = LineOf(s[n])
  BY <1>5, <1>9 DEF LineOf
<1>11. Body(t[n]) = LineOf(s[n]) \o more
  BY <1>5, <1>10, Zenon DEF Body, Ending
<1>12. Open(t[n]) = q.depth /\ q.depth \in Int /\ q.depth <= q.depth
  <2>1. Open(t[n]) = t[n].depth + (IF t[n].block THEN 1 ELSE 0)
    BY Zenon DEF Open
  <2>2. Change(type) = (IF t[n].block THEN 1 ELSE 0)
    BY <1>5, SignTypes, Zenon
  <2>3. t[n].depth = p.depth
    BY <1>4, <1>9, Zenon
  <2>4. Open(t[n]) = q.depth
    BY <1>6, <2>1, <2>2, <2>3, Zenon
  <2>5. Open(t[n]) \in Int
    BY <1>9, BodyTyped
  <2>6. \A i \in Int : i <= i
    OBVIOUS
  <2> QED
    BY <2>4, <2>5, <2>6, Zenon
<1>13. Closing(Open(t[n]), q.depth) = <<>>
  BY <1>12, ClosingNone, Zenon
<1>14. type \in TokenTypes /\ type \notin WordTypes
  BY SignTypes
<1>15. more \in Text /\ Ink(more) = Ink(v)
  BY LexSigns
<1>16. LexRun(At(EndMode(p.last), w, U), more) = Between(V)
  BY <1>3, LexSigns
<1> HIDE DEF more
<1>17. /\ x \o more \in Text /\ Ink(x \o more) = InkOf(V)
       /\ LexRun(LexStart, x \o more) = Between(V)
  BY <1>2, <1>3, <1>14, <1>15, <1>16, ShownMore
<1>18. x \o more = Above(t) \o (Body(t[n]) \o Closing(Open(t[n]), q.depth))
  <2>1. Body(t[n]) \in Text
    BY <1>9, BodyTyped
  <2>2. Body(t[n]) \o <<>> = Body(t[n])
    BY <2>1, JoinedEmpty
  <2>3. Associates(Above(s), LineOf(s[n]), more)
    BY <1>7, <1>8, <1>15, JoinedAssociates
  <2> QED
    BY <1>4, <1>7, <1>11, <1>13, <2>2, <2>3, Zenon DEF Associates
<1> HIDE DEF V
<1>19. q.depth <= Open(t[n])
  BY <1>12, Zenon
<1>20. EndShown(x \o more, q, V)
  BY <1>6, <1>7, <1>17, <1>18, <1>19 DEF EndShown
<1>21. Shown(x \o more, q, V)
  BY <1>6, <1>14, <1>17, <1>20 DEF Shown
<1> QED
  BY <1>21 DEF q, V

(* The end of a block. *)
LEMMA ShowClose ==
  ASSUME NEW p \in Parsers, NEW T \in Tokens, NEW x, Shown(x, p, T),
         p.last \notin WordTypes, p.depth > 0, NEW v \in Text, IsSign(v, Closer)
  PROVE  \E y : Shown(y, After(p, Closer, v), Append(T, <<Closer, v>>))
<1> DEFINE s == p.statements
           d == p.depth
           q == After(p, Closer, v)
           V == Append(T, <<Closer, v>>)
           more == CloseLine(d - 1)
           st == s[Len(s)]
<1>1. s \in Statements /\ d \in Int /\ d > 0
  BY DEF Parsers
<1>2. /\ x \in Text /\ Ink(x) = InkOf(T) /\ LexRun(LexStart, x) = Between(T)
      /\ \/ s = <<>> /\ x = <<>> /\ d = 0
         \/ s # <<>> /\ d <= Open(st) /\ x = Above(s) \o (Body(st) \o Closing(Open(st), d))
  BY DEF Shown, EndShown
<1>3. s # <<>> /\ d <= Open(st) /\ x = Above(s) \o (Body(st) \o Closing(Open(st), d))
  <2> HIDE DEF s, d, st
  <2>1. d # 0
    BY <1>1
  <2> QED
    BY <1>2, <2>1, Zenon
<1>4. q.last = Closer /\ q.statements = s /\ q.depth = d - 1
  <2>1. q.last = Closer /\ q.depth = d + Change(Closer) /\ q.statements = Add(p, Closer, v)
    BY AfterFields
  <2>2. Add(p, Closer, v) = s
    <3>1. "}" \in {";", "}"}
      OBVIOUS
    <3> QED
      BY <3>1, AddNothing, Zenon DEF Closer
  <2> HIDE DEF q, d, s
  <2>3. q.depth = d - 1
    BY <1>1, <2>1, SignTypes
  <2> QED
    BY <2>1, <2>2, <2>3
<1>5. st \in Statement
  BY <1>1, <1>3, LastStatement
<1> HIDE DEF q, d, s, st
<1>6. Body(st) \in Text /\ Open(st) \in Int
  BY <1>5, BodyTyped
<1>7. Above(s) \in Text
  BY <1>1, <1>5, AboveMore
<1>8. d - 1 \in Nat
  BY <1>1
<1>9. /\ Closing(Open(st), d) \in Text /\ more \in Text
      /\ Closing(Open(st), d - 1) = Closing(Open(st), d) \o more
  BY <1>1, <1>3, <1>6, ClosingMore
<1>10. Ink(more) = Ink(v) /\ LexRun(Between(T), more) = Between(V)
  BY <1>8, LexSigns
<1>11. Closer \in TokenTypes /\ Closer \notin WordTypes
  BY SignTypes
<1> HIDE DEF more
<1>12. /\ x \o more \in Text /\ Ink(x \o more) = InkOf(V)
       /\ LexRun(LexStart, x \o more) = Between(V)
  BY <1>2, <1>9, <1>10, <1>11, ShownMore
<1>13. x \o more = Above(s) \o (Body(st) \o Closing(Open(st), d - 1))
  <2>1. PICK a \in Text : a = Above(s)
    BY <1>7
  <2>2. PICK b \in Text : b = Body(st)
    BY <1>6
  <2>3. PICK c \in Text : c = Closing(Open(st), d)
    BY <1>9
  <2>4. PICK e \in Text : e = more
    BY <1>9
  <2>5. PICK bc \in Text : bc = b \o c
    BY Joined
  <2>6. Associates(a, bc, e)
    BY JoinedAssociates
  <2>7. Associates(b, c, e)
    BY JoinedAssociates
  <2>8. x = a \o bc /\ Closing(Open(st), d - 1) = c \o e
    BY <1>3, <1>9, <2>1, <2>2, <2>3, <2>4, <2>5, Zenon
  <2>9. x \o e = a \o (b \o (c \o e))
    BY <2>5, <2>6, <2>7, <2>8, Zenon DEF Associates
  <2> QED
    BY <2>1, <2>2, <2>4, <2>8, <2>9, Zenon
<1>14. d - 1 <= Open(st)
  BY <1>1, <1>3, <1>6
<1> HIDE DEF V
<1>15. EndShown(x \o more, q, V)
  BY <1>3, <1>4, <1>12, <1>13, <1>14 DEF EndShown, st
<1>16. Shown(x \o more, q, V)
  BY <1>4, <1>11, <1>12, <1>15 DEF Shown
<1> QED
  BY <1>16 DEF q, V

(* Which tokens may follow, and what their texts are. *)
LEMMA FollowCases ==
  ASSUME NEW p, NEW type, MayFollow(p, type)
  PROVE  \/ type \in WordTypes
         \/ type \in EndTypes /\ p.last \in WordTypes
         \/ type = Closer /\ p.depth > 0 /\ p.last \notin WordTypes
<1>1. \/ type \in WordTypes
      \/ type = ";" /\ p.last \in WordTypes
      \/ type = "{" /\ p.last = "NORMAL"
      \/ type = "}" /\ p.depth > 0 /\ p.last \in {";", "}", "{"}
  BY DEF MayFollow
<1>2. "NORMAL" \in WordTypes /\ \A c \in {";", "}", "{"} : c \notin WordTypes
  BY DEF WordTypes
<1> QED
  BY <1>1, <1>2, Zenon DEF EndTypes, Closer

LEMMA GoodCases ==
  ASSUME NEW type, NEW v, GoodToken(<<type, v>>)
  PROVE  /\ type \in WordTypes => ReadsBack(EndMode(type), v)
         /\ type \in EndTypes \/ type = Closer => IsSign(v, type)
<1>1. <<type, v>>[1] = type /\ <<type, v>>[2] = v
  OBVIOUS
<1>2. type \in EndTypes \/ type = Closer => type \in {";", "{", "}"}
  BY Zenon DEF EndTypes, Closer
<1> QED
  BY <1>1, <1>2, Zenon DEF GoodToken, IsSign

LEMMA StepIsAfter ==
  ASSUME NEW p, NEW type, NEW v, p.ok, MayFollow(p, type)
  PROVE  ParseStep(p, <<type, v>>) = After(p, type, v)
<1>1. <<type, v>>[1] = type /\ <<type, v>>[2] = v
  OBVIOUS
<1> QED
  BY <1>1, Zenon DEF ParseStep, After, Change

(* What has been printed follows every token that Parse accepts. *)
LEMMA ShowStep ==
  ASSUME NEW p \in Parsers, p.ok, p.depth >= 0, NEW T \in Tokens, NEW x, Shown(x, p, T),
         NEW type \in TokenTypes, NEW v \in Text, GoodToken(<<type, v>>), MayFollow(p, type)
  PROVE  \E y : Shown(y, ParseStep(p, <<type, v>>), Append(T, <<type, v>>))
<1>1. ParseStep(p, <<type, v>>) = After(p, type, v)
  BY StepIsAfter
<1>2. \E y : Shown(y, After(p, type, v), Append(T, <<type, v>>))
  <2>1. CASE type \in WordTypes /\ p.last \notin WordTypes
    BY <2>1, GoodCases, ShowFirst
  <2>2. CASE type \in WordTypes /\ p.last \in WordTypes
    BY <2>2, GoodCases, ShowNext
  <2>3. CASE type \in EndTypes /\ p.last \in WordTypes
    <3>1. IsSign(v, type)
      BY <2>3, GoodCases
    <3> QED
      BY <2>3, <3>1, ShowEnd
  <2>4. CASE type = Closer /\ p.depth > 0 /\ p.last \notin WordTypes
    <3>1. IsSign(v, Closer)
      BY <2>4, GoodCases
    <3> QED
      BY <2>4, <3>1, ShowClose
  <2> QED
    BY <2>1, <2>2, <2>3, <2>4, FollowCases
<1> QED
  BY <1>1, <1>2

LEMMA TokensSplit ==
  ASSUME NEW tokens \in Tokens, NEW k \in 0 .. Len(tokens) - 1
  PROVE  /\ SubSeq(tokens, 1, k) \in Tokens
         /\ SubSeq(tokens, 1, k + 1) =
              Append(SubSeq(tokens, 1, k), <<tokens[k + 1][1], tokens[k + 1][2]>>)
         /\ tokens[k + 1][1] \in TokenTypes /\ tokens[k + 1][2] \in Text
         /\ tokens[k + 1] = <<tokens[k + 1][1], tokens[k + 1][2]>>
         /\ SubSeq(tokens, 1, 0) = <<>> /\ SubSeq(tokens, 1, Len(tokens)) = tokens
<1>1. Len(tokens) \in Nat /\ k \in Nat /\ k + 1 \in 1 .. Len(tokens) /\ k <= Len(tokens)
  BY DEF Tokens
<1>2. tokens[k + 1] \in TokenTypes \X Text
  BY <1>1 DEF Tokens
<1>3. tokens[k + 1] = <<tokens[k + 1][1], tokens[k + 1][2]>>
  BY <1>2
<1>4. SubSeq(tokens, 1, k) \in Tokens /\ SubSeq(tokens, 1, 0) = <<>>
  BY <1>1 DEF Tokens
<1>5. SubSeq(tokens, 1, Len(tokens)) = tokens
  BY <1>1 DEF Tokens
<1>6. SubSeq(tokens, 1, k + 1) = Append(SubSeq(tokens, 1, k), tokens[k + 1])
  BY <1>1 DEF Tokens
<1> QED
  BY <1>2, <1>3, <1>4, <1>5, <1>6

(* The state of Parse after any number of tokens can be printed. *)
LEMMA RunShown ==
  ASSUME NEW tokens \in Tokens, AllGood(tokens), NEW g, ParseRun(tokens, g), g[Len(tokens)].ok
  PROVE  \E x : Shown(x, g[Len(tokens)], tokens)
<1> DEFINE N == Len(tokens)
           T(k) == SubSeq(tokens, 1, k)
           S == {k \in 0 .. N : \E x : Shown(x, g[k], T(k))}
<1>1. N \in Nat /\ N \in 0 .. N /\ 0 \in 0 .. N /\ N \in Int /\ 0 \in Int
  BY DEF Tokens
<1>2. \A k \in 0 .. N : g[k].ok /\ g[k].depth >= 0 /\ g[k] \in Parsers
  BY <1>1, ParseOk DEF ParseRun
<1>3. T(0) = <<>> /\ T(N) = tokens
  BY <1>1 DEF Tokens
<1>4. 0 \in S
  <2>1. g[0] = ParseStart
    BY DEF ParseRun
  <2>2. "START" \notin WordTypes
    BY DEF WordTypes
  <2>3. LexRun(LexStart, <<>>) = LexStart
    <3>1. LexStart \in Lexers
      BY DEF LexStart, Lexers, Modes, Text, Tokens
    <3>2. "ws" \in Symbols
      BY DEF Symbols
    <3> QED
      BY <3>1, <3>2, LexOne
  <2>4. LexStart = Between(<<>>)
    BY DEF LexStart, Between, At
  <2>5. Ink(<<>>) = InkOf(<<>>)
    BY DEF Ink, InkOf, FlattenSeq
  <2>6. EndShown(<<>>, ParseStart, <<>>)
    BY <2>3, <2>4 DEF EndShown, ParseStart
  <2>7. ParseStart.last = "START"
    BY DEF ParseStart
  <2>8. Shown(<<>>, ParseStart, <<>>)
    BY <2>2, <2>5, <2>6, <2>7, EmptyText DEF Shown
  <2> QED
    BY <1>1, <1>3, <2>1, <2>8
<1>5. ASSUME NEW k \in S, k < N PROVE k + 1 \in S
  <2> DEFINE n == k + 1
             type == tokens[n][1]
             v == tokens[n][2]
  <2>1. k \in 0 .. N /\ k \in 0 .. Len(tokens) - 1 /\ n \in 1 .. N /\ n \in 0 .. N /\ n - 1 = k
    BY <1>1, <1>5
  <2>2. PICK x : Shown(x, g[k], T(k))
    OBVIOUS
  <2>3. /\ T(k) \in Tokens /\ T(n) = Append(T(k), <<type, v>>)
        /\ type \in TokenTypes /\ v \in Text /\ tokens[n] = <<type, v>>
    BY <2>1, TokensSplit
  <2> HIDE DEF T, n, type, v, N
  <2>4. GoodToken(<<type, v>>)
    BY <2>1, <2>3 DEF AllGood, N
  <2>5. g[n] = ParseStep(g[k], <<type, v>>)
    BY <2>1, <2>3 DEF ParseRun, N
  <2>6. MayFollow(g[k], type)
    <3>1. g[n].ok => MayFollow(g[n - 1], tokens[n][1])
      BY <2>1, ParseTurn DEF N
    <3> QED
      BY <1>2, <2>1, <3>1 DEF type
  <2>7. \E y : Shown(y, ParseStep(g[k], <<type, v>>), Append(T(k), <<type, v>>))
    BY <1>2, <2>1, <2>2, <2>3, <2>4, <2>6, ShowStep
  <2>8. n \in S
    BY <2>1, <2>3, <2>5, <2>7
  <2> QED
    BY <2>8 DEF n
<1>6. S = 0 .. N
  <2> HIDE DEF S, N
  <2>1. S \in SUBSET (0 .. N)
    BY DEF S
  <2>2. 0 \in 0 .. N /\ N \in Int /\ 0 \in Int
    BY <1>1
  <2> QED
    BY <1>4, <1>5, <2>1, <2>2, UpInduction
<1>7. N \in S
  BY <1>1, <1>6
<1> QED
  BY <1>3, <1>7

(* The printed text has the tokens of the one that was parsed, and its ink. *)
LEMMA Reprinted ==
  ASSUME NEW text \in Text, Parse(text).ok
  PROVE  LET printed == ConfigToString(Parse(text).statements)
         IN  Lex(printed) = Lex(text) /\ Ink(printed) = InkOf(Lex(text))
<1> DEFINE tokens == Lex(text)
           N == Len(tokens)
<1>1. tokens \in Tokens /\ AllGood(tokens)
  BY LexTyped, LexGood
<1>2. PICK g : ParseRun(tokens, g) /\ FoldLeft(ParseStep, ParseStart, tokens) = g[N]
  BY <1>1, ParseRuns
<1> DEFINE p == g[N]
           s == p.statements
           n == Len(s)
<1>3. Parse(text) = Complete(p)
  BY <1>2 DEF Parse, ParseStart
<1>4. p.ok /\ p.depth = 0 /\ p.last \in {"START", ";", "}"} /\ Parse(text).statements = s
  <2>1. \A q : /\ Complete(q).ok <=> q.ok /\ q.depth = 0 /\ q.last \in {"START", ";", "}"}
               /\ Complete(q).statements = q.statements
    BY DEF Complete
  <2> HIDE DEF p
  <2> QED
    BY <1>3, <2>1, Zenon DEF s
<1>5. p \in Parsers
  <2>1. N \in 0 .. N
    BY <1>1 DEF Tokens
  <2> QED
    BY <1>2, <2>1 DEF ParseRun
<1>6. s \in Statements
  BY <1>5 DEF Parsers
<1>7. p.last \notin WordTypes
  BY <1>4, Zenon DEF WordTypes
<1>8. PICK x : Shown(x, p, tokens)
  BY <1>1, <1>2, <1>4, RunShown
<1> HIDE DEF tokens, s, n, p
<1>9. Ink(x) = InkOf(tokens) /\ LexRun(LexStart, x) = Between(tokens)
  BY <1>7, <1>8 DEF Shown, EndShown
<1>10. \/ s = <<>> /\ x = <<>>
       \/ s # <<>> /\ x = Above(s) \o (Body(s[n]) \o Closing(Open(s[n]), p.depth))
  BY <1>7, <1>8, Zenon DEF Shown, EndShown, s, n
<1>11. p.depth = 0
  BY <1>4
<1>12. ConfigToString(s) = x
  BY <1>6, <1>10, <1>11, WholeText, Zenon DEF n
<1>13. Lex(x) = tokens
  <2>1. Lex(x) = AtEnd(LexRun(LexStart, x))
    BY DEF Lex, LexRun, LexStart
  <2>2. Between(tokens).mode = "space" /\ Between(tokens).tokens = tokens
    BY DEF Between, At
  <2>3. AtEnd(Between(tokens)) = tokens
    BY <2>2 DEF AtEnd
  <2> QED
    BY <1>9, <2>1, <2>3
<1>14. Parse(text).statements = s
  BY <1>4
<1> QED
  BY <1>9, <1>12, <1>13, <1>14, Zenon DEF tokens

(* No token that was accepted is an error. *)
LEMMA NoError ==
  ASSUME NEW text \in Text, Parse(text).ok
  PROVE  \A k \in 1 .. Len(Lex(text)) : Lex(text)[k][1] # "ERROR"
<1> DEFINE tokens == Lex(text)
           N == Len(tokens)
<1>1. tokens \in Tokens
  BY LexTyped
<1>2. PICK g : ParseRun(tokens, g) /\ FoldLeft(ParseStep, ParseStart, tokens) = g[N]
  BY <1>1, ParseRuns
<1>3. g[N].ok
  BY <1>2 DEF Parse, ParseStart, Complete
<1>4. N \in 0 .. N /\ \A k \in 1 .. N : k \in 0 .. N
  BY <1>1 DEF Tokens
<1> HIDE DEF tokens
<1>5. ASSUME NEW k \in 1 .. N PROVE tokens[k][1] # "ERROR"
  <2>1. g[k].ok
    BY <1>2, <1>3, <1>4, ParseOk
  <2>2. tokens[k][1] \in WordTypes \cup {";", "{", "}"}
    BY <1>2, <2>1, ParseTurns, Zenon DEF Turn
  <2>3. "ERROR" \notin WordTypes \cup {";", "{", "}"}
    BY DEF WordTypes
  <2> QED
    BY <2>2, <2>3
<1> QED
  BY <1>5 DEF tokens

LEMMA GivenPrinted == Given => PrintedIsRead
<1> SUFFICES ASSUME phase = "parsed", config.ok, file \in Files, config = ParseFile(file)
             PROVE  LET printed == ConfigToString(config.statements)
                    IN  /\ Parse(printed) = config
                        /\ "#" \in Range(file) \/ Ink(printed) = Ink(file)
  BY DEF Given, PrintedIsRead
<1> DEFINE printed == ConfigToString(config.statements)
<1>1. file # Unreadable
  BY DEF ParseFile, NoConfig
<1>2. file \in Text
  BY <1>1, FileIsText
<1>3. config = Parse(file)
  BY <1>1 DEF ParseFile
<1>4. Parse(file).ok
  BY <1>3
<1>5. Lex(printed) = Lex(file) /\ Ink(printed) = InkOf(Lex(file))
  BY <1>2, <1>3, <1>4, Reprinted
<1> HIDE DEF printed
<1>6. Parse(printed) = config
  BY <1>3, <1>5 DEF Parse
<1>7. "#" \notin Range(file) => Ink(file) = InkOf(Lex(file))
  BY <1>2, <1>4, NoError, LexInk
<1> QED
  BY <1>5, <1>6, <1>7 DEF printed

(* Of any file that is accepted ToString prints a text that is parsed as the*)
(* same configuration and differs from the file in blanks and comments only.*)
THEOREM PrintedReadsBack == Spec => []PrintedIsRead
<1>1. Init => Given
  BY DEF Init, Given
<1>2. Spec => []Given
  BY <1>1, NextGiven, SpecInv, PTL DEF Spec
<1> QED
  BY <1>2, GivenPrinted, PTL
===============================================================================
