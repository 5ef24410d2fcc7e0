------------------------------ MODULE SetInduction ------------------------------
(***************************************************************************)
(* Induction over the natural numbers for sets instead of predicates: the  *)
(* library's rule takes the predicate as a parameter, this one a set that  *)
(* can be defined by any formula.                                          *)
(***************************************************************************)
EXTENDS Integers, FiniteSetsExt, WellFoundedInduction, TLAPS

Less == {p \in Nat \X Nat : p[1] < p[2]}

LEMMA LessWellFounded == IsWellFoundedOn(Less, Nat)
<1>1. OpToRel(<, Nat) = Less
  BY DEF OpToRel, Less
<1> QED
  BY <1>1, NatLessThanWellFounded

(* Every set of natural numbers that is not empty has a least element.      *)
LEMMA NatMinimum ==
  ASSUME NEW T \in SUBSET Nat, T # {}
  PROVE  \E m \in T : \A n \in T : m <= n
<1>1. PICK m \in T : \A n \in T : ~(<<n, m>> \in Less)
  BY LessWellFounded, WFMin
<1>2. ASSUME NEW n \in T PROVE ~(n < m)
  <2>1. <<n, m>> \in Less <=> n < m
    BY DEF Less
  <2> QED
    BY <1>1, <2>1
<1> QED
  BY <1>2

(* A set that contains 0 and with every number the next one is Nat.         *)
LEMMA NatSetInduction ==
  ASSUME NEW S \in SUBSET Nat, 0 \in S, \A n \in S : n + 1 \in S
  PROVE  S = Nat
<1> SUFFICES ASSUME Nat \ S # {} PROVE FALSE
  OBVIOUS
<1>1. PICK m \in Nat \ S : \A n \in Nat \ S : m <= n
  BY NatMinimum
<1>2. m - 1 \in S
  BY <1>1
<1> QED
  BY <1>1, <1>2

(* From the first number of an interval, upwards.                           *)
LEMMA UpInduction ==
  ASSUME NEW a \in Int, NEW b \in Int, NEW S \in SUBSET (a .. b), a \in S,
         \A n \in S : n < b => n + 1 \in S
  PROVE  S = a .. b
<1> DEFINE T == {k \in Nat : a + k <= b /\ a + k \notin S}
<1> SUFFICES ASSUME NEW m \in a .. b, m \notin S PROVE FALSE
  OBVIOUS
<1>1. m - a \in T
  OBVIOUS
<1>2. PICK k \in T : \A n \in T : k <= n
  <2> HIDE DEF T
  <2>1. T \in SUBSET Nat
    BY DEF T
  <2> QED
    BY <1>1, <2>1, NatMinimum
<1>3. k # 0 /\ k - 1 \in Nat /\ k - 1 \notin T
  BY <1>2
<1>4. a + (k - 1) \in S
  BY <1>2, <1>3
<1>5. (a + (k - 1)) + 1 \in S
  BY <1>2, <1>3, <1>4
<1> QED
  BY <1>2, <1>3, <1>5

(* From the last number of an interval, downwards.                          *)
LEMMA DownInduction ==
  ASSUME NEW a \in Int, NEW b \in Int, NEW S \in SUBSET (a .. b), b \in S,
         \A n \in S : a < n => n - 1 \in S
  PROVE  S = a .. b
<1> DEFINE T == {k \in Nat : a <= b - k /\ b - k \notin S}
<1> SUFFICES ASSUME NEW m \in a .. b, m \notin S PROVE FALSE
  OBVIOUS
<1>1. b - m \in T
  OBVIOUS
<1>2. PICK k \in T : \A n \in T : k <= n
  <2> HIDE DEF T
  <2>1. T \in SUBSET Nat
    BY DEF T
  <2> QED
    BY <1>1, <2>1, NatMinimum
<1>3. k # 0 /\ k - 1 \in Nat /\ k - 1 \notin T
  BY <1>2
<1>4. b - (k - 1) \in S
  BY <1>2, <1>3
<1>5. (b - (k - 1)) - 1 \in S
  BY <1>2, <1>3, <1>4
<1> QED
  BY <1>2, <1>3, <1>5

(* The parts i .. j of a sequence of N elements, from the shorter ones to   *)
(* the longer ones.                                                         *)
LEMMA PartInduction ==
  ASSUME NEW N \in Nat, NEW S,
         \A i \in 1 .. N + 1, j \in 0 .. N :
           (\A a \in 1 .. N + 1, b \in 0 .. N : b - a < j - i => <<a, b>> \in S) => <<i, j>> \in S
  PROVE  \A i \in 1 .. N + 1, j \in 0 .. N : <<i, j>> \in S
<1> DEFINE T == {n \in Nat : \E i \in 1 .. N + 1, j \in 0 .. N :
                                n = (j - i) + (N + 1) /\ <<i, j>> \notin S}
<1> SUFFICES ASSUME NEW c \in 1 .. N + 1, NEW d \in 0 .. N, <<c, d>> \notin S PROVE FALSE
  OBVIOUS
<1>1. (d - c) + (N + 1) \in T
  <2>1. (d - c) + (N + 1) \in Nat
    OBVIOUS
  <2>2. \E i \in 1 .. N + 1, j \in 0 .. N :
          (d - c) + (N + 1) = (j - i) + (N + 1) /\ <<i, j>> \notin S
    <3> WITNESS c \in 1 .. N + 1, d \in 0 .. N
    <3> QED
      OBVIOUS
  <2> QED
    BY <2>1, <2>2
<1>2. PICK n \in T : \A m \in T : n <= m
  <2> HIDE DEF T
  <2>1. T \in SUBSET Nat
    BY DEF T
  <2> QED
    BY <1>1, <2>1, NatMinimum
<1>3. PICK i \in 1 .. N + 1, j \in 0 .. N : n = (j - i) + (N + 1) /\ <<i, j>> \notin S
  BY <1>2
<1>4. ASSUME NEW a \in 1 .. N + 1, NEW b \in 0 .. N, b - a < j - i PROVE <<a, b>> \in S
  <2>1. (b - a) + (N + 1) \in Nat /\ (b - a) + (N + 1) < n
    BY <1>3, <1>4
  <2> DEFINE m == (b - a) + (N + 1)
  <2>2. m \notin T
    <3>1. m \in Int /\ n \in Int /\ m < n
      BY <1>3, <2>1
    <3> HIDE DEF m, T
    <3> QED
      BY <1>2, <3>1
  <2>3. ASSUME <<a, b>> \notin S PROVE FALSE
    <3>1. \E k \in 1 .. N + 1, l \in 0 .. N :
            (b - a) + (N + 1) = (l - k) + (N + 1) /\ <<k, l>> \notin S
      <4> WITNESS a \in 1 .. N + 1, b \in 0 .. N
      <4> QED
        BY <2>3
    <3> QED
      BY <2>1, <2>2, <3>1
  <2> QED
    BY <2>3
<1> QED
  BY <1>3, <1>4

(* A set of integers that is bounded from above has a largest element.      *)
LEMMA IntMaximum ==
  ASSUME NEW S \in SUBSET Int, S # {}, NEW b \in Int, \A n \in S : n <= b
  PROVE  \E m \in S : \A n \in S : n <= m
<1> DEFINE T == {k \in Nat : b - k \in S}
<1>1. T # {}
  <2>1. PICK n \in S : TRUE
    OBVIOUS
  <2>2. b - n \in T
    BY <2>1
  <2> QED
    BY <2>2
<1>2. PICK k \in T : \A j \in T : k <= j
  BY <1>1, NatMinimum
<1>3. \A n \in S : b - n \in T
  OBVIOUS
<1>4. b - k \in S /\ \A n \in S : n <= b - k
  BY <1>2, <1>3
<1> QED
  BY <1>4

-------------------------------------------------------------------------------
(* Folds.  FoldLeft(op, a, s) is it[DOMAIN s] for a function it on the sets  *)
(* T of positions with it[T] = IF T = {} THEN a ELSE op(it[T \ {Max(T)}], e)*)
(* where e is the element of s at Max(T).                                    *)

LEMMA MaxOfPositions ==
  ASSUME NEW n \in Nat, NEW T \in SUBSET (1 .. n), T # {}
  PROVE  /\ Max(T) \in T
         /\ \A k \in T : k <= Max(T)
<1>1. T \in SUBSET Int /\ \A k \in T : k <= n
  OBVIOUS
<1>2. \E m \in T : \A k \in T : k <= m
  <2>1. n \in Int
    OBVIOUS
  <2> QED
    BY <1>1, <2>1, IntMaximum, Zenon
<1>3. \E m \in T : \A k \in T : m >= k
  BY <1>1, <1>2
<1> QED
  BY <1>1, <1>3 DEF Max

LEMMA WithoutMax ==
  ASSUME NEW n \in Nat, NEW T \in SUBSET (1 .. n + 1), T # {}
  PROVE  T \ {Max(T)} \in SUBSET (1 .. n)
<1>1. Max(T) \in T /\ \A k \in T : k <= Max(T)
  BY MaxOfPositions, n + 1 \in Nat
<1>2. ASSUME NEW k \in T \ {Max(T)} PROVE k \in 1 .. n
  <2>1. k \in 1 .. n + 1 /\ Max(T) \in 1 .. n + 1 /\ k <= Max(T) /\ k # Max(T)
    BY <1>1
  <2> QED
    BY <2>1
<1> QED
  BY <1>2

(* A value that holds of the base and is kept by every step is that of the  *)
(* result.                                                                  *)
LEMMA FoldTyped ==
  ASSUME NEW N \in Nat, NEW V, NEW it, it[{}] \in V,
         \A T \in SUBSET (1 .. N) : T # {} /\ it[T \ {Max(T)}] \in V => it[T] \in V
  PROVE  it[1 .. N] \in V
<1> DEFINE S == {k \in Nat : \A T \in SUBSET (1 .. N) : T \subseteq 1 .. k => it[T] \in V}
<1>1. 0 \in S
  <2> SUFFICES ASSUME NEW T \in SUBSET (1 .. N), T \subseteq 1 .. 0 PROVE it[T] \in V
    OBVIOUS
  <2>1. T = {}
    OBVIOUS
  <2> QED
    BY <2>1
<1>2. ASSUME NEW k \in S PROVE k + 1 \in S
  <2>1. k \in Nat /\ \A T \in SUBSET (1 .. N) : T \subseteq 1 .. k => it[T] \in V
    OBVIOUS
  <2>2. ASSUME NEW T \in SUBSET (1 .. N), T \subseteq 1 .. k + 1, T # {} PROVE it[T] \in V
    <3>1. T \ {Max(T)} \in SUBSET (1 .. k)
      BY <2>1, <2>2, WithoutMax
    <3>2. T \ {Max(T)} \in SUBSET (1 .. N)
      OBVIOUS
    <3> QED
      BY <2>1, <2>2, <3>1, <3>2
  <2>3. \A T \in SUBSET (1 .. N) : T \subseteq 1 .. k + 1 => it[T] \in V
    BY <2>2
  <2> QED
    BY <2>1, <2>3
<1>3. S = Nat
  <2> HIDE DEF S
  <2>1. S \in SUBSET Nat
    BY DEF S
  <2> QED
    BY <1>1, <1>2, <2>1, NatSetInduction
<1>4. N \in S
  BY <1>3
<1>5. \A T \in SUBSET (1 .. N) : T \subseteq 1 .. N => it[T] \in V
  BY <1>4
<1> QED
  BY <1>5

(* it is the function of the fold of F over the positions 1 .. N, with     *)
(* values in V and the base a.                                              *)
FoldsTo(it, N, V, a, F) ==
  /\ it \in [SUBSET (1 .. N) -> V]
  /\ it[{}] = a
  /\ \A T \in SUBSET (1 .. N) : T # {} => it[T] = F[<<it[T \ {Max(T)}], Max(T)>>]

(* The function of a fold exists: what FoldLeft chooses is not arbitrary.   *)
LEMMA FoldExists ==
  ASSUME NEW N \in Nat, NEW V, NEW a \in V, NEW F \in [V \X (1 .. N) -> V]
  PROVE  \E it : FoldsTo(it, N, V, a, F)
<1> DEFINE Is(it, T) == it[T] = IF T = {} THEN a ELSE F[<<it[T \ {Max(T)}], Max(T)>>]
           S == {k \in Nat : \E it \in [SUBSET (1 .. N) -> V] :
                   \A T \in SUBSET (1 .. N) : T \subseteq 1 .. k => Is(it, T)}
<1>1. 0 \in S
  <2> DEFINE it == [T \in SUBSET (1 .. N) |-> a]
  <2>1. it \in [SUBSET (1 .. N) -> V]
    OBVIOUS
  <2>2. ASSUME NEW T \in SUBSET (1 .. N), T \subseteq 1 .. 0 PROVE Is(it, T)
    <3>1. T = {}
      BY <2>2
    <3> QED
      BY <3>1
  <2> QED
    BY <2>1, <2>2
<1>2. ASSUME NEW k \in S PROVE k + 1 \in S
  <2>1. k \in Nat
    OBVIOUS
  <2>2. PICK it \in [SUBSET (1 .. N) -> V] :
          \A T \in SUBSET (1 .. N) : T \subseteq 1 .. k => Is(it, T)
    OBVIOUS
  <2> DEFINE new == [T \in SUBSET (1 .. N) |->
                       IF T # {} THEN F[<<it[T \ {Max(T)}], Max(T)>>] ELSE a]
  <2>3. ASSUME NEW T \in SUBSET (1 .. N), T # {}
        PROVE  Max(T) \in 1 .. N /\ it[T \ {Max(T)}] \in V
    <3>1. Max(T) \in T
      BY <2>3, MaxOfPositions
    <3>2. T \ {Max(T)} \in SUBSET (1 .. N)
      OBVIOUS
    <3> QED
      BY <3>1, <3>2
  <2>4. ASSUME NEW T \in SUBSET (1 .. N) PROVE new[T] \in V
    <3>1. CASE T = {}
      BY <3>1
    <3>2. CASE T # {}
      <4>1. new[T] = F[<<it[T \ {Max(T)}], Max(T)>>]
        BY <3>2
      <4>2. <<it[T \ {Max(T)}], Max(T)>> \in V \X (1 .. N)
        BY <2>3, <3>2
      <4> HIDE DEF new
      <4> QED
        BY <4>1, <4>2
    <3> QED
      BY <3>1, <3>2
  <2>5. new \in [SUBSET (1 .. N) -> V]
    BY <2>4
  <2>6. ASSUME NEW T \in SUBSET (1 .. N), T \subseteq 1 .. k PROVE new[T] = it[T]
    BY <2>2, <2>6
  <2>7. ASSUME NEW T \in SUBSET (1 .. N), T \subseteq 1 .. k + 1 PROVE Is(new, T)
    <3>1. CASE T = {}
      BY <3>1
    <3>2. CASE T # {}
      <4>1. T \ {Max(T)} \in SUBSET (1 .. k)
        BY <2>1, <2>7, <3>2, WithoutMax
      <4>2. T \ {Max(T)} \in SUBSET (1 .. N)
        OBVIOUS
      <4>3. new[T \ {Max(T)}] = it[T \ {Max(T)}]
        BY <2>6, <4>1, <4>2
      <4>4. new[T] = F[<<it[T \ {Max(T)}], Max(T)>>]
        BY <3>2
      <4> HIDE DEF new
      <4> QED
        BY <3>2, <4>3, <4>4
    <3> QED
      BY <3>1, <3>2
  <2>8. \E i \in [SUBSET (1 .. N) -> V] :
          \A T \in SUBSET (1 .. N) : T \subseteq 1 .. k + 1 => Is(i, T)
    <3> HIDE DEF new, Is
    <3> QED
      BY <2>5, <2>7
  <2>9. k + 1 \in Nat
    BY <2>1
  <2> HIDE DEF Is
  <2> QED
    BY <2>8, <2>9
<1>3. S = Nat
  <2> HIDE DEF S
  <2>1. S \in SUBSET Nat
    BY DEF S
  <2> QED
    BY <1>1, <1>2, <2>1, NatSetInduction
<1>4. PICK it \in [SUBSET (1 .. N) -> V] :
        \A T \in SUBSET (1 .. N) : T \subseteq 1 .. N => Is(it, T)
  <2>1. N \in S
    BY <1>3
  <2> QED
    BY <2>1
<1>5. it[{}] = a
  <2>1. {} \in SUBSET (1 .. N) /\ {} \subseteq 1 .. N
    OBVIOUS
  <2> QED
    BY <1>4, <2>1
<1>6. \A T \in SUBSET (1 .. N) : T # {} => it[T] = F[<<it[T \ {Max(T)}], Max(T)>>]
  BY <1>4
<1> QED
  BY <1>5, <1>6 DEF FoldsTo

(* A function that follows the recursion wherever it has been typed so far  *)
(* is typed everywhere.                                                     *)
LEMMA FoldFollowed ==
  ASSUME NEW N \in Nat, NEW V, NEW a \in V, NEW F \in [V \X (1 .. N) -> V],
         NEW it, it = [T \in SUBSET (1 .. N) |-> it[T]], it[{}] = a,
         \A T \in SUBSET (1 .. N) : T # {} /\ it[T \ {Max(T)}] \in V
                                     => it[T] = F[<<it[T \ {Max(T)}], Max(T)>>]
  PROVE  FoldsTo(it, N, V, a, F)
<1> DEFINE S == {k \in Nat : \A T \in SUBSET (1 .. N) : T \subseteq 1 .. k => it[T] \in V}
<1>1. 0 \in S
  <2> SUFFICES ASSUME NEW T \in SUBSET (1 .. N), T \subseteq 1 .. 0 PROVE it[T] \in V
    OBVIOUS
  <2>1. T = {}
    OBVIOUS
  <2> QED
    BY <2>1
<1>2. ASSUME NEW k \in S PROVE k + 1 \in S
  <2>1. k \in Nat /\ \A T \in SUBSET (1 .. N) : T \subseteq 1 .. k => it[T] \in V
    OBVIOUS
  <2>2. ASSUME NEW T \in SUBSET (1 .. N), T \subseteq 1 .. k + 1, T # {} PROVE it[T] \in V
    <3>1. T \ {Max(T)} \in SUBSET (1 .. k) /\ Max(T) \in 1 .. N
      BY <2>1, <2>2, WithoutMax, MaxOfPositions
    <3>2. T \ {Max(T)} \in SUBSET (1 .. N)
      OBVIOUS
    <3>3. it[T \ {Max(T)}] \in V
      BY <2>1, <3>1, <3>2
    <3>4. it[T] = F[<<it[T \ {Max(T)}], Max(T)>>]
      BY <2>2, <3>3
    <3> QED
      BY <3>1, <3>3, <3>4
  <2>3. \A T \in SUBSET (1 .. N) : T \subseteq 1 .. k + 1 => it[T] \in V
    BY <2>1, <2>2
  <2>4. k + 1 \in Nat
    BY <2>1
  <2> QED
    BY <2>3, <2>4, Zenon
<1>3. S = Nat
  <2> HIDE DEF S
  <2>1. S \in SUBSET Nat
    BY DEF S
  <2> QED
    BY <1>1, <1>2, <2>1, NatSetInduction
<1>4. \A T \in SUBSET (1 .. N) : it[T] \in V
  <2>1. N \in S
    BY <1>3
  <2> QED
    BY <2>1
<1>5. it \in [SUBSET (1 .. N) -> V]
  BY <1>4
<1>6. ASSUME NEW T \in SUBSET (1 .. N), T # {}
      PROVE  it[T] = F[<<it[T \ {Max(T)}], Max(T)>>]
  <2>1. T \ {Max(T)} \in SUBSET (1 .. N)
    OBVIOUS
  <2> QED
    BY <1>4, <1>6, <2>1
<1> QED
  BY <1>5, <1>6 DEF FoldsTo

(* The values of a fold after each turn: g[k] is what the first k positions *)
(* have made of the base.                                                   *)
Turns(g, N, V, a, F) ==
  /\ g \in [0 .. N -> V]
  /\ g[0] = a
  /\ \A k \in 0 .. N - 1 : g[k + 1] = F[<<g[k], k + 1>>]

LEMMA FoldTurns ==
  ASSUME NEW N \in Nat, NEW V, NEW a, NEW F, NEW it, FoldsTo(it, N, V, a, F)
  PROVE  \E g : Turns(g, N, V, a, F) /\ it[1 .. N] = g[N]
<1> DEFINE g == [k \in 0 .. N |-> it[1 .. k]]
<1>1. ASSUME NEW k \in 0 .. N PROVE 1 .. k \in SUBSET (1 .. N)
  OBVIOUS
<1>2. g \in [0 .. N -> V]
  BY <1>1 DEF FoldsTo
<1>3. g[0] = a
  <2>1. 0 \in 0 .. N /\ 1 .. 0 = {}
    OBVIOUS
  <2> QED
    BY <2>1 DEF FoldsTo
<1>4. ASSUME NEW k \in 0 .. N - 1 PROVE g[k + 1] = F[<<g[k], k + 1>>]
  <2>1. k \in 0 .. N /\ k + 1 \in 0 .. N /\ k + 1 \in 1 .. k + 1 /\ k \in Nat /\ k + 1 \in Nat
    OBVIOUS
  <2>2. 1 .. k + 1 \in SUBSET (1 .. N) /\ 1 .. k + 1 # {}
    BY <1>1, <2>1
  <2>3. Max(1 .. k + 1) \in 1 .. k + 1 /\ k + 1 <= Max(1 .. k + 1)
    BY <2>1, MaxOfPositions
  <2>4. Max(1 .. k + 1) = k + 1
    BY <2>1, <2>3
  <2>5. (1 .. k + 1) \ {k + 1} = 1 .. k
    BY <2>1
  <2>6. it[1 .. k + 1] = F[<<it[1 .. k], k + 1>>]
    BY <2>2, <2>4, <2>5 DEF FoldsTo
  <2> QED
    BY <2>1, <2>6
<1>5. it[1 .. N] = g[N]
  OBVIOUS
<1> HIDE DEF g
<1> QED
  BY <1>2, <1>3, <1>4, <1>5 DEF Turns

(* A fold and one with a position more, which begins alike, agree on what   *)
(* the positions of both make.                                              *)
SameTurns(N, V, F, G) == \A v \in V, i \in 1 .. N : F[<<v, i>>] = G[<<v, i>>]

LEMMA TurnsAgree ==
  ASSUME NEW N \in Nat, NEW M, M = N + 1, NEW V, NEW a, NEW F, NEW G, NEW g, NEW h,
         Turns(g, N, V, a, F), Turns(h, M, V, a, G), SameTurns(N, V, F, G)
  PROVE  g[N] = h[N]
<1> DEFINE S == {j \in Nat : j <= N => g[j] = h[j]}
<1>1. 0 \in S
  BY DEF Turns
<1>2. ASSUME NEW j \in S PROVE j + 1 \in S
  <2>1. j \in Nat /\ (j <= N => g[j] = h[j])
    OBVIOUS
  <2>2. ASSUME j + 1 <= N PROVE g[j + 1] = h[j + 1]
    <3>1. /\ j \in 0 .. N - 1 /\ j \in 0 .. M - 1 /\ j <= N
          /\ j + 1 \in 1 .. N /\ j \in 0 .. N
      BY <2>1, <2>2
    <3>2. g[j] \in V /\ g[j] = h[j]
      BY <2>1, <3>1 DEF Turns
    <3>3. g[j + 1] = F[<<g[j], j + 1>>] /\ h[j + 1] = G[<<h[j], j + 1>>]
      BY <3>1 DEF Turns
    <3> QED
      BY <3>1, <3>2, <3>3 DEF SameTurns
  <2> QED
    BY <2>1, <2>2
<1>3. S = Nat
  <2> HIDE DEF S
  <2>1. S \in SUBSET Nat
    BY DEF S
  <2> QED
    BY <1>1, <1>2, <2>1, NatSetInduction
<1> QED
  BY <1>3

LEMMA TurnsTyped ==
  ASSUME NEW N \in Nat, NEW V, NEW a, NEW F, NEW g, Turns(g, N, V, a, F)
  PROVE  g[N] \in V
BY DEF Turns

(* With one position more a fold makes one turn more. *)
OneMore(N, M, V, a, F, G, g, h) ==
  /\ N \in Nat /\ M = N + 1
  /\ Turns(g, N, V, a, F)
  /\ Turns(h, M, V, a, G)
  /\ SameTurns(N, V, F, G)

LEMMA TurnsAppend ==
  ASSUME NEW N, NEW M, NEW V, NEW a, NEW F, NEW G, NEW g, NEW h,
         OneMore(N, M, V, a, F, G, g, h)
  PROVE  h[M] = G[<<g[N], M>>]
<1>1. N \in Nat /\ M = N + 1 /\ N \in 0 .. N /\ N \in 0 .. M - 1
  BY DEF OneMore
<1>2. g[N] = h[N]
  BY TurnsAgree DEF OneMore
<1>3. h[N + 1] = G[<<h[N], N + 1>>]
  BY <1>1 DEF OneMore, Turns
<1> QED
  BY <1>1, <1>2, <1>3
================================================================================
