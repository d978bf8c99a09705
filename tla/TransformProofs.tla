-------------------------- MODULE TransformProofs ---------------------------
(***************************************************************************)
(* The transformers' promises, for texts and addresses of any length and   *)
(* pages that add anything to them, any number of times.                   *)
(*                                                                         *)
(* What a reader sees of a text is cleaned character by character, so that *)
(* a page's additions can be followed from one text to the next: Shown.    *)
(***************************************************************************)
EXTENDS TransformProperties, SequenceTheorems, WellFoundedInduction, TLAPS

-----------------------------------------------------------------------------
(* Induction.  The library's theorems take the predicate as an operator;   *)
(* these take the set of what it is true of.                               *)

\* A set with 0 and with the next of its every number has all numbers.
LEMMA NatSetInduction ==
    ASSUME NEW T, 0 \in T, \A n \in Nat : n \in T => n + 1 \in T
    PROVE  Nat \subseteq T
<1> DEFINE U == Nat \ T
<1> SUFFICES ASSUME U # {} PROVE FALSE
  OBVIOUS
<1>1. PICK x \in U : \A y \in U : ~(<<y, x>> \in OpToRel(<, Nat))
  <2>1. U \subseteq Nat
    OBVIOUS
  <2> HIDE DEF U
  <2>2. QED
    BY <2>1, NatLessThanWellFounded, WFMin
<1>2. \A y \in U : ~(y < x)
  BY <1>1, Zenon DEF OpToRel
<1>3. x # 0 /\ x - 1 \in Nat
  OBVIOUS
<1>4. x - 1 \in T
  BY <1>2, <1>3
<1>5. QED
  BY <1>3, <1>4

\* A set with the empty text and with every longer one of its texts has all.
LEMMA TextInduction ==
    ASSUME NEW S, NEW T, <<>> \in T,
           \A s \in Seq(S), c \in S : s \in T => Append(s, c) \in T
    PROVE  Seq(S) \subseteq T
<1> DEFINE U == {n \in Nat : \A s \in Seq(S) : Len(s) = n => s \in T}
<1>1. 0 \in U
  OBVIOUS
<1>2. ASSUME NEW n \in Nat, n \in U
      PROVE  n + 1 \in U
  <2> SUFFICES ASSUME NEW s \in Seq(S), Len(s) = n + 1
               PROVE  s \in T
    OBVIOUS
  <2>1. s # <<>>
    OBVIOUS
  <2>2. PICK r \in Seq(S), c \in S : s = Append(r, c)
    BY <2>1, SequenceEmptyOrAppend
  <2>3. Len(r) = n
    BY <2>2, AppendProperties
  <2>4. QED
    BY <1>2, <2>2, <2>3
<1>3. Nat \subseteq U
  <2> HIDE DEF U
  <2>1. QED
    BY <1>1, <1>2, NatSetInduction
<1>4. QED
  BY <1>3

\* A set of numbers has its least.
LEMMA MinOf ==
    ASSUME NEW T \in SUBSET Nat, T # {}
    PROVE  Min(T) \in T /\ \A y \in T : Min(T) <= y
<1>1. PICK x \in T : \A y \in T : ~(<<y, x>> \in OpToRel(<, Nat))
  BY NatLessThanWellFounded, WFMin
<1>2. \A y \in T : ~(y < x)
  BY <1>1, Zenon DEF OpToRel
<1>3. \A y \in T : x <= y
  BY <1>2
<1>4. QED
  BY <1>3 DEF Min

\* A bounded set of numbers that is not empty has its greatest.
LEMMA MaxOf ==
    ASSUME NEW n \in Nat, NEW T \in SUBSET (0..n), T # {}
    PROVE  Max(T) \in T /\ \A y \in T : y <= Max(T)
<1> DEFINE R == {n - y : y \in T}
<1>1. R \in SUBSET Nat /\ R # {}
  <2>1. \A y \in T : y \in 0..n /\ n - y \in Nat
    OBVIOUS
  <2>2. PICK y \in T : TRUE
    OBVIOUS
  <2>3. n - y \in R
    OBVIOUS
  <2>4. QED
    BY <2>1, <2>3
<1>2. Min(R) \in R /\ \A x \in R : Min(R) <= x
  BY <1>1, MinOf
<1>3. PICK z \in T : Min(R) = n - z
  BY <1>2
<1>4. \A y \in T : z >= y
  <2> SUFFICES ASSUME NEW y \in T PROVE z >= y
    OBVIOUS
  <2>1. n - y \in R
    OBVIOUS
  <2>2. n - z <= n - y
    BY <2>1, <1>2, <1>3
  <2>3. y \in 0..n /\ z \in 0..n
    OBVIOUS
  <2>4. QED
    BY <2>2, <2>3
<1>5. QED
  BY <1>4 DEF Max

-----------------------------------------------------------------------------
(* Folds.  What FoldLeft computes with a step G is the value at DOMAIN s   *)
(* of a function that obeys FoldOf.                                        *)

Operation(G, V, S) == G \in [V -> [S -> V]]

FoldOf(h, V, v, G, s) ==
    /\ h[{}] = v
    /\ \A t \in SUBSET DOMAIN s :
          t # {} /\ h[t \ {Max(t)}] \in V => h[t] = G[h[t \ {Max(t)}]][s[Max(t)]]

\* The last element of a prefix.
LEMMA MaxPrefix ==
    ASSUME NEW n \in Nat
    PROVE  /\ Max(1..n + 1) = n + 1
           /\ (1..n + 1) \ {n + 1} = 1..n
           /\ \A t \in SUBSET (1..n + 1) :
                 /\ n + 1 \in t => Max(t) = n + 1 /\ t \ {n + 1} \in SUBSET (1..n)
                 /\ n + 1 \notin t => t \in SUBSET (1..n)
                 /\ t # {} => Max(t) \in t
<1>1. ASSUME NEW t \in SUBSET (1..n + 1), t # {}
      PROVE  Max(t) \in t /\ \A y \in t : y <= Max(t)
  <2>1. t \in SUBSET (0..n + 1) /\ n + 1 \in Nat
    OBVIOUS
  <2>2. QED
    BY <1>1, <2>1, MaxOf
<1>2. ASSUME NEW t \in SUBSET (1..n + 1), n + 1 \in t
      PROVE  Max(t) = n + 1
  <2>1. Max(t) \in t /\ n + 1 <= Max(t)
    BY <1>1, <1>2
  <2>2. Max(t) \in 1..n + 1
    BY <2>1
  <2>3. QED
    BY <2>1, <2>2
<1>3. (1..n + 1) \ {n + 1} = 1..n /\ n + 1 \in 1..n + 1
  OBVIOUS
<1>4. QED
  BY <1>1, <1>2, <1>3

FoldIs(h, V, v, G, s) ==
    /\ h \in [SUBSET DOMAIN s -> V]
    /\ \A t \in SUBSET DOMAIN s :
          h[t] = IF t = {} THEN v ELSE G[h[t \ {Max(t)}]][s[Max(t)]]

\* There is a function that obeys the equations.
LEMMA FoldExists ==
    ASSUME NEW V, NEW S, NEW v \in V, NEW G, Operation(G, V, S), NEW s \in Seq(S)
    PROVE  \E h : FoldIs(h, V, v, G, s)
<1>0. G \in [V -> [S -> V]]
  BY DEF Operation
<1> DEFINE Good(h, r) ==
              /\ h \in [SUBSET DOMAIN r -> V]
              /\ \A t \in SUBSET DOMAIN r :
                    h[t] = IF t = {} THEN v ELSE G[h[t \ {Max(t)}]][r[Max(t)]]
           T == {r \in Seq(S) : \E h : Good(h, r)}
<1>1. <<>> \in T
  <2> DEFINE h == [t \in SUBSET DOMAIN <<>> |-> v]
  <2>1. Good(h, <<>>)
    OBVIOUS
  <2>2. <<>> \in Seq(S)
    OBVIOUS
  <2> HIDE DEF Good, h
  <2>3. QED
    BY <2>1, <2>2
<1>2. ASSUME NEW r \in Seq(S), NEW c \in S, r \in T
      PROVE  Append(r, c) \in T
  <2>1. PICK h : Good(h, r)
    BY <1>2
  <2> DEFINE n == Len(r)
             q == Append(r, c)
             k == [t \in SUBSET (1..n + 1) |->
                      IF n + 1 \in t THEN G[h[t \ {n + 1}]][c] ELSE h[t]]
  <2>2. /\ n \in Nat /\ DOMAIN r = 1..n /\ q \in Seq(S) /\ DOMAIN q = 1..n + 1
        /\ q[n + 1] = c /\ \A i \in 1..n : q[i] = r[i]
    OBVIOUS
  <2> HIDE DEF n, q
  <2>3. ASSUME NEW t \in SUBSET (1..n + 1)
        PROVE  /\ k[t] \in V
               /\ k[t] = IF t = {} THEN v ELSE G[k[t \ {Max(t)}]][q[Max(t)]]
    <3>1. CASE n + 1 \in t
      <4>1. Max(t) = n + 1 /\ t \ {n + 1} \in SUBSET (1..n)
        BY <2>2, <3>1, MaxPrefix
      <4>2. k[t] = G[h[t \ {n + 1}]][c] /\ k[t \ {n + 1}] = h[t \ {n + 1}]
        BY <3>1, <4>1
      <4>3. h[t \ {n + 1}] \in V
        BY <2>1, <2>2, <4>1
      <4>4. QED
        BY <1>0, <2>2, <3>1, <4>1, <4>2, <4>3
    <3>2. CASE n + 1 \notin t
      <4>1. t \in SUBSET (1..n) /\ (t # {} => Max(t) \in t)
        BY <2>2, <3>2, MaxPrefix
      <4>2. k[t] = h[t] /\ k[t \ {Max(t)}] = h[t \ {Max(t)}]
        BY <3>2, <4>1
      <4>3. t # {} => q[Max(t)] = r[Max(t)]
        BY <2>2, <4>1
      <4>4. QED
        BY <2>1, <2>2, <4>1, <4>2, <4>3
    <3>3. QED
      BY <3>1, <3>2
  <2>4. Good(k, q)
    BY <2>2, <2>3
  <2> HIDE DEF k, Good
  <2>5. q \in T
    BY <2>2, <2>4
  <2>6. QED
    BY <2>5 DEF q
<1>3. Seq(S) \subseteq T
  <2> HIDE DEF T
  <2>1. QED
    BY <1>1, <1>2, TextInduction
<1>4. \E h : Good(h, s)
  <2> HIDE DEF Good
  <2>1. QED
    BY <1>3
<1>5. QED
  BY <1>4 DEF FoldIs

\* It is the value of the prefixes that counts.
LEMMA FoldPrefix ==
    ASSUME NEW V, NEW S, NEW v \in V, NEW G, Operation(G, V, S),
           NEW s \in Seq(S), NEW r \in Seq(S), NEW h, NEW k,
           Len(s) <= Len(r), \A i \in 1..Len(s) : s[i] = r[i],
           FoldOf(h, V, v, G, s), FoldOf(k, V, v, G, r)
    PROVE  h[1..Len(s)] \in V /\ k[1..Len(s)] = h[1..Len(s)]
<1>0. /\ DOMAIN s = 1..Len(s) /\ DOMAIN r = 1..Len(r)
      /\ Len(s) \in Nat /\ Len(r) \in Nat
      /\ \A i \in 1..Len(s) : s[i] \in S
  OBVIOUS
<1>6. G \in [V -> [S -> V]]
  BY DEF Operation
<1> DEFINE T == {n \in Nat : n <= Len(s) => h[1..n] \in V /\ k[1..n] = h[1..n]}
<1>1. 0 \in T
  <2>1. 1..0 = {}
    OBVIOUS
  <2>2. QED
    BY <2>1 DEF FoldOf
<1>2. ASSUME NEW n \in Nat, n \in T
      PROVE  n + 1 \in T
  <2> SUFFICES ASSUME n + 1 <= Len(s)
               PROVE  h[1..n + 1] \in V /\ k[1..n + 1] = h[1..n + 1]
    OBVIOUS
  <2>1. h[1..n] \in V /\ k[1..n] = h[1..n]
    BY <1>2
  <2>2. Max(1..n + 1) = n + 1 /\ (1..n + 1) \ {n + 1} = 1..n
    BY MaxPrefix
  <2>3. /\ (1..n + 1) \in SUBSET DOMAIN s /\ (1..n + 1) \in SUBSET DOMAIN r
        /\ n + 1 \in 1..n + 1 /\ s[n + 1] = r[n + 1] /\ s[n + 1] \in S
    <3>1. n + 1 \in 1..Len(s) /\ n + 1 \in 1..n + 1
      BY <1>0
    <3>2. ASSUME NEW i \in 1..n + 1
          PROVE  i \in 1..Len(s) /\ i \in 1..Len(r)
      <4>1. i \in Nat /\ 1 <= i /\ i <= n + 1
        OBVIOUS
      <4>2. i <= Len(s)
        BY <1>0, <4>1
      <4>3. i <= Len(r)
        BY <1>0, <4>2, <4>1
      <4>4. QED
        BY <1>0, <4>1, <4>2, <4>3
    <3>3. QED
      BY <1>0, <3>1, <3>2
  <2>4. h[1..n + 1] = G[h[1..n]][s[n + 1]] /\ k[1..n + 1] = G[k[1..n]][r[n + 1]]
    BY <2>1, <2>2, <2>3, ZenonT(40) DEF FoldOf
  <2>5. QED
    BY <1>6, <2>1, <2>3, <2>4
<1>3. Nat \subseteq T
  <2> HIDE DEF T
  <2>1. QED
    BY <1>1, <1>2, NatSetInduction
<1>4. Len(s) \in T
  BY <1>0, <1>3
<1>5. QED
  BY <1>0, <1>4

\* A fold does one step more for one element more.
LEMMA FoldStep ==
    ASSUME NEW V, NEW S, NEW v \in V, NEW G, Operation(G, V, S),
           NEW s \in Seq(S), NEW c \in S, NEW h, NEW k,
           FoldOf(h, V, v, G, s), FoldOf(k, V, v, G, Append(s, c))
    PROVE  /\ h[DOMAIN s] \in V
           /\ k[DOMAIN Append(s, c)] = G[h[DOMAIN s]][c]
<1> DEFINE r == Append(s, c)
           n == Len(s)
<1>1. /\ r \in Seq(S) /\ Len(r) = n + 1 /\ n \in Nat /\ r[n + 1] = c
      /\ \A i \in 1..n : r[i] = s[i]
      /\ DOMAIN s = 1..n /\ DOMAIN r = 1..n + 1
  OBVIOUS
<1> HIDE DEF r, n
<1>2. n <= Len(r) /\ \A i \in 1..n : s[i] = r[i]
  BY <1>1
<1>3. h[1..n] \in V /\ k[1..n] = h[1..n]
  <2>1. FoldOf(k, V, v, G, r)
    BY DEF r
  <2>2. Len(s) <= Len(r) /\ \A i \in 1..Len(s) : s[i] = r[i]
    BY <1>2 DEF n
  <2>3. r \in Seq(S)
    BY <1>1
  <2>5. h[1..Len(s)] \in V /\ k[1..Len(s)] = h[1..Len(s)]
    BY <2>1, <2>2, <2>3, FoldPrefix
  <2>4. QED
    BY <2>5 DEF n
<1>4. Max(1..n + 1) = n + 1 /\ (1..n + 1) \ {n + 1} = 1..n
  BY <1>1, MaxPrefix
<1>8. n + 1 \in 1..n + 1
  BY <1>1
<1>5. (1..n + 1) \in SUBSET DOMAIN r
  BY <1>1
<1>6. k[1..n + 1] = G[k[1..n]][r[n + 1]]
  BY <1>3, <1>4, <1>5, <1>8, Zenon DEF FoldOf, r
<1>7. QED
  BY <1>1, <1>3, <1>6 DEF r

\* What is the fold of every text obeys the equations of a fold.
LEMMA Folded ==
    ASSUME NEW V, NEW S, NEW v \in V, NEW G, Operation(G, V, S), NEW F,
           \A s \in Seq(S) : \E h : FoldOf(h, V, v, G, s) /\ F[s] = h[DOMAIN s]
    PROVE  /\ F[<<>>] = v
           /\ \A s \in Seq(S) :
                 F[s] \in V /\ \A c \in S : F[Append(s, c)] = G[F[s]][c]
<1>1. <<>> \in Seq(S) /\ DOMAIN <<>> = {}
  OBVIOUS
<1>2. PICK e : FoldOf(e, V, v, G, <<>>) /\ F[<<>>] = e[DOMAIN <<>>]
  BY <1>1
<1>3. ASSUME NEW s \in Seq(S)
      PROVE  F[s] \in V
  <2>1. PICK h : FoldOf(h, V, v, G, s) /\ F[s] = h[DOMAIN s]
    OBVIOUS
  <2>2. s \in Seq(S) /\ Len(s) <= Len(s) /\ \A i \in 1..Len(s) : s[i] = s[i]
    OBVIOUS
  <2>3. h[1..Len(s)] \in V
    BY <2>1, <2>2, FoldPrefix
  <2>4. QED
    BY <2>1, <2>3
<1>4. ASSUME NEW s \in Seq(S), NEW c \in S
      PROVE  F[Append(s, c)] = G[F[s]][c]
  <2>1. PICK h : FoldOf(h, V, v, G, s) /\ F[s] = h[DOMAIN s]
    OBVIOUS
  <2>2. Append(s, c) \in Seq(S)
    OBVIOUS
  <2>3. PICK k : /\ FoldOf(k, V, v, G, Append(s, c))
                 /\ F[Append(s, c)] = k[DOMAIN Append(s, c)]
    BY <2>2
  <2>4. FoldOf(h, V, v, G, s)
    BY <2>1
  <2>5. FoldOf(k, V, v, G, Append(s, c))
    BY <2>3
  <2>6. k[DOMAIN Append(s, c)] = G[h[DOMAIN s]][c]
    BY <2>4, <2>5, FoldStep
  <2>7. QED
    BY <2>1, <2>3, <2>6
<1>5. QED
  BY <1>1, <1>2, <1>3, <1>4 DEF FoldOf

-----------------------------------------------------------------------------
(* The folds of the model, one character or parameter at a time.           *)

\* The last element of a part of a text.
LEMMA LastElement ==
    ASSUME NEW S, NEW s \in Seq(S), NEW t \in SUBSET DOMAIN s, t # {}
    PROVE  s[Max(t)] \in S
<1>1. Len(s) \in Nat /\ DOMAIN s = 1..Len(s)
  OBVIOUS
<1>2. t \in SUBSET (0..Len(s))
  BY <1>1
<1>3. Max(t) \in t
  BY <1>1, <1>2, MaxOf
<1>4. Max(t) \in 1..Len(s)
  BY <1>1, <1>3
<1>5. QED
  BY <1>4, ElementOfSeq

\* A fold goes only where its step is known.
FoldKnown(h, V, S, v, G, s) ==
    /\ h = [t \in SUBSET DOMAIN s |-> h[t]]
    /\ \A t \in SUBSET DOMAIN s :
          /\ h[t \ {Max(t)}] \in V
          /\ t = {} => h[t] = v
          /\ t # {} => s[Max(t)] \in S /\ h[t] = G[h[t \ {Max(t)}]][s[Max(t)]]

\* There is a function that obeys the equations and is known everywhere.
LEMMA KnownFoldExists ==
    ASSUME NEW V, NEW S, NEW v \in V, NEW G, Operation(G, V, S), NEW s \in Seq(S)
    PROVE  \E h : FoldKnown(h, V, S, v, G, s)
<1>1. PICK h : FoldIs(h, V, v, G, s)
  BY FoldExists
<1>2. /\ h \in [SUBSET DOMAIN s -> V]
      /\ \A t \in SUBSET DOMAIN s :
            h[t] = IF t = {} THEN v ELSE G[h[t \ {Max(t)}]][s[Max(t)]]
  BY <1>1 DEF FoldIs
<1>3. \A t \in SUBSET DOMAIN s : t # {} => s[Max(t)] \in S
  BY LastElement
<1>4. \A t \in SUBSET DOMAIN s : t \ {Max(t)} \in SUBSET DOMAIN s
  OBVIOUS
<1>5. \A t \in SUBSET DOMAIN s : h[t \ {Max(t)}] \in V
  BY <1>2, <1>4
<1>6. h = [t \in SUBSET DOMAIN s |-> h[t]]
  BY <1>2
<1>7. FoldKnown(h, V, S, v, G, s)
  BY <1>2, <1>3, <1>5, <1>6 DEF FoldKnown
<1>8. QED
  BY <1>7

\* One character more, for Squeeze.
Put(out, c, spaces) ==
    IF c \notin spaces THEN Append(out, c)
    ELSE IF out = <<>> \/ Last(out) = "space" THEN out ELSE Append(out, "space")

\* It makes texts of texts.
LEMMA PutType ==
    ASSUME NEW S, "space" \in S, NEW spaces, NEW o \in Seq(S), NEW c \in S
    PROVE  Put(o, c, spaces) \in Seq(S)
BY DEF Put, Last

\* Squeeze is the fold of Put.
LEMMA SqueezeStep ==
    ASSUME NEW S, "space" \in S, NEW spaces
    PROVE  /\ Squeeze(<<>>, spaces) = <<>>
           /\ \A s \in Seq(S) :
                 /\ Squeeze(s, spaces) \in Seq(S)
                 /\ \A c \in S : Squeeze(Append(s, c), spaces) = Put(Squeeze(s, spaces), c, spaces)
<1> DEFINE V == Seq(S)
           v == <<>>
           G == [o \in V |-> [c \in S |-> Put(o, c, spaces)]]
           F == [s \in Seq(S) |-> Squeeze(s, spaces)]
<1>1. Operation(G, V, S) /\ v \in V /\ \A o \in V, c \in S : G[o][c] = Put(o, c, spaces)
  <2>1. \A o \in V, c \in S : Put(o, c, spaces) \in V
    BY PutType
  <2>2. QED
    BY <2>1 DEF Operation
<1>2. ASSUME NEW s \in Seq(S)
      PROVE  \E h : FoldOf(h, V, v, G, s) /\ F[s] = h[DOMAIN s]
  <2> DEFINE h == CHOOSE g : g = [t \in SUBSET DOMAIN s |->
                    IF t = {} THEN <<>> ELSE Put(g[t \ {Max(t)}], s[Max(t)], spaces)]
  <2>1. Squeeze(s, spaces) = h[DOMAIN s]
    BY Zenon DEF Squeeze, FoldLeft, MapThenFoldSet, Put
  <2>2. F[s] = Squeeze(s, spaces)
    OBVIOUS
  <2>3. \E g : g = [t \in SUBSET DOMAIN s |->
                    IF t = {} THEN <<>> ELSE Put(g[t \ {Max(t)}], s[Max(t)], spaces)]
    <3> HIDE DEF V, G
    <3>1. PICK g : FoldKnown(g, V, S, v, G, s)
      <4> HIDE DEF v
      <4>1. QED
        BY <1>1, KnownFoldExists
    <3>2. \A t \in SUBSET DOMAIN s :
             g[t] = IF t = {} THEN <<>> ELSE Put(g[t \ {Max(t)}], s[Max(t)], spaces)
      BY <1>1, <3>1 DEF FoldKnown
    <3>3. QED
      BY <3>1, <3>2 DEF FoldKnown
  <2> HIDE DEF F
  <2>4. h = [t \in SUBSET DOMAIN s |->
                    IF t = {} THEN <<>> ELSE Put(h[t \ {Max(t)}], s[Max(t)], spaces)]
    BY <2>3, Zenon
  <2> HIDE DEF h
  <2>5. ASSUME NEW t \in SUBSET DOMAIN s, t # {}, h[t \ {Max(t)}] \in V
        PROVE  h[t] = G[h[t \ {Max(t)}]][s[Max(t)]]
    <3>1. h[t] = Put(h[t \ {Max(t)}], s[Max(t)], spaces)
      BY <2>4, <2>5
    <3>2. s[Max(t)] \in S
      BY <2>5, LastElement
    <3> HIDE DEF V, G
    <3>3. QED
      BY <1>1, <2>5, <3>1, <3>2
  <2>6. h[{}] = v
    BY <2>4
  <2>7. FoldOf(h, V, v, G, s)
    <3> HIDE DEF V, G, v
    <3>1. QED
      BY <2>5, <2>6 DEF FoldOf
  <2>8. QED
    BY <2>1, <2>2, <2>7
<1>3. F[<<>>] = v /\ \A s \in Seq(S) : F[s] \in V /\ \A c \in S : F[Append(s, c)] = G[F[s]][c]
  <2> HIDE DEF V, v, G, F
  <2>1. QED
    BY <1>1, <1>2, Folded
<1>4. \A s \in Seq(S) : F[s] = Squeeze(s, spaces) /\ \A c \in S : Append(s, c) \in Seq(S)
  OBVIOUS
<1>5. <<>> \in Seq(S)
  OBVIOUS
<1>6. ASSUME NEW s \in Seq(S), NEW c \in S
      PROVE  Squeeze(Append(s, c), spaces) = Put(Squeeze(s, spaces), c, spaces)
  <2>1. F[Append(s, c)] = Squeeze(Append(s, c), spaces) /\ F[s] = Squeeze(s, spaces)
    BY <1>4
  <2>2. F[s] \in V /\ F[Append(s, c)] = G[F[s]][c]
    BY <1>3
  <2> HIDE DEF V, G, F
  <2>3. QED
    BY <1>1, <2>1, <2>2
<1>7. QED
  <2> HIDE DEF G, F
  <2>1. QED
    BY <1>3, <1>4, <1>5, <1>6

\* One character more, for invisibleReplacer.
Replaced(out, c) ==
    IF c \in ZeroWidth THEN out ELSE Append(out, IF c = "nbsp" THEN "space" ELSE c)

\* It makes texts of texts.
LEMMA ReplacedType ==
    ASSUME NEW S, "space" \in S, NEW o \in Seq(S), NEW c \in S
    PROVE  Replaced(o, c) \in Seq(S)
<1>1. (IF c = "nbsp" THEN "space" ELSE c) \in S
  OBVIOUS
<1>2. QED
  BY <1>1 DEF Replaced

\* invisibleReplacer is the fold of Replaced.
LEMMA ReplacerStep ==
    ASSUME NEW S, "space" \in S
    PROVE  /\ invisibleReplacer(<<>>) = <<>>
           /\ \A s \in Seq(S) :
                 /\ invisibleReplacer(s) \in Seq(S)
                 /\ \A c \in S : invisibleReplacer(Append(s, c)) = Replaced(invisibleReplacer(s), c)
<1> DEFINE V == Seq(S)
           v == <<>>
           G == [o \in V |-> [c \in S |-> Replaced(o, c)]]
           F == [s \in Seq(S) |-> invisibleReplacer(s)]
<1>1. Operation(G, V, S) /\ v \in V /\ \A o \in V, c \in S : G[o][c] = Replaced(o, c)
  <2>1. \A o \in V, c \in S : Replaced(o, c) \in V
    BY ReplacedType
  <2>2. QED
    BY <2>1 DEF Operation
<1>2. ASSUME NEW s \in Seq(S)
      PROVE  \E h : FoldOf(h, V, v, G, s) /\ F[s] = h[DOMAIN s]
  <2> DEFINE h == CHOOSE g : g = [t \in SUBSET DOMAIN s |->
                    IF t = {} THEN <<>> ELSE Replaced(g[t \ {Max(t)}], s[Max(t)])]
  <2>1. invisibleReplacer(s) = h[DOMAIN s]
    BY Zenon DEF invisibleReplacer, FoldLeft, MapThenFoldSet, Replaced
  <2>2. F[s] = invisibleReplacer(s)
    OBVIOUS
  <2>3. \E g : g = [t \in SUBSET DOMAIN s |->
                    IF t = {} THEN <<>> ELSE Replaced(g[t \ {Max(t)}], s[Max(t)])]
    <3> HIDE DEF V, G
    <3>1. PICK g : FoldKnown(g, V, S, v, G, s)
      <4> HIDE DEF v
      <4>1. QED
        BY <1>1, KnownFoldExists
    <3>2. \A t \in SUBSET DOMAIN s :
             g[t] = IF t = {} THEN <<>> ELSE Replaced(g[t \ {Max(t)}], s[Max(t)])
      BY <1>1, <3>1 DEF FoldKnown
    <3>3. QED
      BY <3>1, <3>2 DEF FoldKnown
  <2> HIDE DEF F
  <2>4. h = [t \in SUBSET DOMAIN s |->
                    IF t = {} THEN <<>> ELSE Replaced(h[t \ {Max(t)}], s[Max(t)])]
    BY <2>3, Zenon
  <2> HIDE DEF h
  <2>5. ASSUME NEW t \in SUBSET DOMAIN s, t # {}, h[t \ {Max(t)}] \in V
        PROVE  h[t] = G[h[t \ {Max(t)}]][s[Max(t)]]
    <3>1. h[t] = Replaced(h[t \ {Max(t)}], s[Max(t)])
      BY <2>4, <2>5
    <3>2. s[Max(t)] \in S
      BY <2>5, LastElement
    <3> HIDE DEF V, G
    <3>3. QED
      BY <1>1, <2>5, <3>1, <3>2
  <2>6. h[{}] = v
    BY <2>4
  <2>7. FoldOf(h, V, v, G, s)
    <3> HIDE DEF V, G, v
    <3>1. QED
      BY <2>5, <2>6 DEF FoldOf
  <2>8. QED
    BY <2>1, <2>2, <2>7
<1>3. F[<<>>] = v /\ \A s \in Seq(S) : F[s] \in V /\ \A c \in S : F[Append(s, c)] = G[F[s]][c]
  <2> HIDE DEF V, v, G, F
  <2>1. QED
    BY <1>1, <1>2, Folded
<1>4. \A s \in Seq(S) : F[s] = invisibleReplacer(s) /\ \A c \in S : Append(s, c) \in Seq(S)
  OBVIOUS
<1>5. <<>> \in Seq(S)
  OBVIOUS
<1>6. ASSUME NEW s \in Seq(S), NEW c \in S
      PROVE  invisibleReplacer(Append(s, c)) = Replaced(invisibleReplacer(s), c)
  <2>1. F[Append(s, c)] = invisibleReplacer(Append(s, c)) /\ F[s] = invisibleReplacer(s)
    BY <1>4
  <2>2. F[s] \in V /\ F[Append(s, c)] = G[F[s]][c]
    BY <1>3
  <2> HIDE DEF V, G, F
  <2>3. QED
    BY <1>1, <2>1, <2>2
<1>7. QED
  <2> HIDE DEF G, F
  <2>1. QED
    BY <1>3, <1>4, <1>5, <1>6

\* One parameter more, for Query.
Queried(out, p, k) == IF p.parses /\ p.key = k THEN Append(out, p) ELSE out

\* It makes queries of queries.
LEMMA QueriedType ==
    ASSUME NEW S, NEW k, NEW o \in Seq(S), NEW c \in S
    PROVE  Queried(o, c, k) \in Seq(S)
BY DEF Queried

\* Query is the fold of Queried.
LEMMA QueryStep ==
    ASSUME NEW S, NEW k
    PROVE  /\ Query(<<>>, k) = <<>>
           /\ \A s \in Seq(S) :
                 /\ Query(s, k) \in Seq(S)
                 /\ \A c \in S : Query(Append(s, c), k) = Queried(Query(s, k), c, k)
<1> DEFINE V == Seq(S)
           v == <<>>
           G == [o \in V |-> [c \in S |-> Queried(o, c, k)]]
           F == [s \in Seq(S) |-> Query(s, k)]
<1>1. Operation(G, V, S) /\ v \in V /\ \A o \in V, c \in S : G[o][c] = Queried(o, c, k)
  <2>1. \A o \in V, c \in S : Queried(o, c, k) \in V
    BY QueriedType
  <2>2. QED
    BY <2>1 DEF Operation
<1>2. ASSUME NEW s \in Seq(S)
      PROVE  \E h : FoldOf(h, V, v, G, s) /\ F[s] = h[DOMAIN s]
  <2> DEFINE h == CHOOSE g : g = [t \in SUBSET DOMAIN s |->
                    IF t = {} THEN <<>> ELSE Queried(g[t \ {Max(t)}], s[Max(t)], k)]
  <2>1. Query(s, k) = h[DOMAIN s]
    BY Zenon DEF Query, FoldLeft, MapThenFoldSet, Queried
  <2>2. F[s] = Query(s, k)
    OBVIOUS
  <2>3. \E g : g = [t \in SUBSET DOMAIN s |->
                    IF t = {} THEN <<>> ELSE Queried(g[t \ {Max(t)}], s[Max(t)], k)]
    <3> HIDE DEF V, G
    <3>1. PICK g : FoldKnown(g, V, S, v, G, s)
      <4> HIDE DEF v
      <4>1. QED
        BY <1>1, KnownFoldExists
    <3>2. \A t \in SUBSET DOMAIN s :
             g[t] = IF t = {} THEN <<>> ELSE Queried(g[t \ {Max(t)}], s[Max(t)], k)
      BY <1>1, <3>1 DEF FoldKnown
    <3>3. QED
      BY <3>1, <3>2 DEF FoldKnown
  <2> HIDE DEF F
  <2>4. h = [t \in SUBSET DOMAIN s |->
                    IF t = {} THEN <<>> ELSE Queried(h[t \ {Max(t)}], s[Max(t)], k)]
    BY <2>3, Zenon
  <2> HIDE DEF h
  <2>5. ASSUME NEW t \in SUBSET DOMAIN s, t # {}, h[t \ {Max(t)}] \in V
        PROVE  h[t] = G[h[t \ {Max(t)}]][s[Max(t)]]
    <3>1. h[t] = Queried(h[t \ {Max(t)}], s[Max(t)], k)
      BY <2>4, <2>5
    <3>2. s[Max(t)] \in S
      BY <2>5, LastElement
    <3> HIDE DEF V, G
    <3>3. QED
      BY <1>1, <2>5, <3>1, <3>2
  <2>6. h[{}] = v
    BY <2>4
  <2>7. FoldOf(h, V, v, G, s)
    <3> HIDE DEF V, G, v
    <3>1. QED
      BY <2>5, <2>6 DEF FoldOf
  <2>8. QED
    BY <2>1, <2>2, <2>7
<1>3. F[<<>>] = v /\ \A s \in Seq(S) : F[s] \in V /\ \A c \in S : F[Append(s, c)] = G[F[s]][c]
  <2> HIDE DEF V, v, G, F
  <2>1. QED
    BY <1>1, <1>2, Folded
<1>4. \A s \in Seq(S) : F[s] = Query(s, k) /\ \A c \in S : Append(s, c) \in Seq(S)
  OBVIOUS
<1>5. <<>> \in Seq(S)
  OBVIOUS
<1>6. ASSUME NEW s \in Seq(S), NEW c \in S
      PROVE  Query(Append(s, c), k) = Queried(Query(s, k), c, k)
  <2>1. F[Append(s, c)] = Query(Append(s, c), k) /\ F[s] = Query(s, k)
    BY <1>4
  <2>2. F[s] \in V /\ F[Append(s, c)] = G[F[s]][c]
    BY <1>3
  <2> HIDE DEF V, G, F
  <2>3. QED
    BY <1>1, <2>1, <2>2
<1>7. QED
  <2> HIDE DEF G, F
  <2>1. QED
    BY <1>3, <1>4, <1>5, <1>6

-----------------------------------------------------------------------------
(* Cleaning, one character at a time.                                      *)

Low(c) == IF c \in DOMAIN LowerOf THEN LowerOf[c] ELSE c

\* What collapseWhitespace takes for white space, and the characters that it
\* takes for what they are; those that the extension's parser does.
Known == Ascii \cup {"nbsp"}
Plain == Characters \ {"emsp", "nel"}
Clear == Characters \ {"bom", "nel"}

\* One character more, for a text that is cleaned: by a reader, who knows all
\* white space, and by collapseWhitespace.
Gap(o) == IF o = <<>> \/ Last(o) = "space" THEN o ELSE Append(o, "space")
Step(o, c) == IF c \in ZeroWidth THEN o ELSE IF c \in White THEN Gap(o) ELSE Append(o, c)
Clean(o, c) == IF c \in ZeroWidth THEN o ELSE IF c \in Known THEN Gap(o) ELSE Append(o, c)

Cleaned(s) == Squeeze(invisibleReplacer(s), Ascii)
Kept(s) == Squeeze(invisibleReplacer(s), White)
Seen(s) == ToLower(Kept(s))
Shown(s) == TrimRight(Seen(s))

\* What the characters are to ToLower and to the spaces.
LEMMA CharacterFacts ==
    /\ \A c \in {"space", "a", "A", "|", "-", "linkedin", "LinkedIn"} : c \in Characters
    /\ \A c \in White \cup ZeroWidth : c \in Characters /\ Low(c) = c
    /\ \A c \in Characters : /\ Low(c) \in Characters
                             /\ Low(c) \in White <=> c \in White
                             /\ Low(c) \in ZeroWidth <=> c \in ZeroWidth
                             /\ Low(c) = "space" <=> c = "space"
    /\ \A c \in White : c \notin ZeroWidth
    /\ Low("A") = "a" /\ Low("a") = "a" /\ Low("LinkedIn") = "linkedin"
    /\ \A c \in {"|", "-"} : Low(c) = c /\ c \notin White \cup ZeroWidth
    /\ \A c \in {"a", "linkedin"} : c \notin White \cup ZeroWidth
    /\ "space" \in White
<1> USE DEF White, Ascii, ZeroWidth
<1>1. DOMAIN LowerOf = {"A", "LinkedIn"} /\ LowerOf["A"] = "a" /\ LowerOf["LinkedIn"] = "linkedin"
  BY DEF LowerOf
<1>2. /\ Low("A") = "a" /\ Low("LinkedIn") = "linkedin"
      /\ \A c : c \notin {"A", "LinkedIn"} => Low(c) = c
  BY <1>1 DEF Low
<1>3. /\ \A c \in {"space", "a", "A", "|", "-", "linkedin", "LinkedIn"} : c \in Characters
      /\ \A c \in White \cup ZeroWidth : c \in Characters
  BY TransformAssumption
<1>4. ASSUME NEW c \in Characters
      PROVE  /\ Low(c) \in Characters
             /\ Low(c) \in White <=> c \in White
             /\ Low(c) \in ZeroWidth <=> c \in ZeroWidth
             /\ Low(c) = "space" <=> c = "space"
  <2>1. CASE c = "A"
    BY <1>2, <1>3, <2>1
  <2>2. CASE c = "LinkedIn"
    BY <1>2, <1>3, <2>2
  <2>3. CASE c \notin {"A", "LinkedIn"}
    BY <1>2, <2>3
  <2>4. QED
    BY <2>1, <2>2, <2>3
<1>5. QED
  BY <1>2, <1>3, <1>4

\* Texts in lower case.
LEMMA LowerText ==
    ASSUME NEW s \in Seq(Characters)
    PROVE  /\ ToLower(s) \in Seq(Characters)
           /\ Len(ToLower(s)) = Len(s)
           /\ \A i \in 1..Len(s) : ToLower(s)[i] = Low(s[i])
           /\ ToLower(s) = <<>> <=> s = <<>>
           /\ s # <<>> => Last(ToLower(s)) = Low(Last(s))
<1> DEFINE C == Characters
           n == Len(s)
           l == [i \in 1..n |-> Low(s[i])]
<1>1. n \in Nat /\ DOMAIN s = 1..n /\ \A i \in 1..n : s[i] \in C
  OBVIOUS
<1>2. ToLower(s) = l
  BY <1>1 DEF ToLower, Low
<1>3. \A i \in 1..n : Low(s[i]) \in C
  BY <1>1, CharacterFacts
<1> HIDE DEF C, n
<1>4. l \in Seq(C) /\ Len(l) = n /\ \A i \in 1..n : l[i] = Low(s[i])
  BY <1>1, <1>3
<1> HIDE DEF l
<1>5. ToLower(s) = <<>> <=> s = <<>>
  BY <1>1, <1>2, <1>4 DEF n, C
<1>6. s # <<>> => Last(ToLower(s)) = Low(Last(s))
  <2>1. s # <<>> => n \in 1..n
    BY <1>1 DEF n
  <2>2. QED
    BY <1>1, <1>2, <1>4, <2>1 DEF Last, n
<1>7. QED
  BY <1>2, <1>4, <1>5, <1>6 DEF n, C

\* ToLower, one character more.
LEMMA LowerAppend ==
    ASSUME NEW s \in Seq(Characters), NEW c \in Characters
    PROVE  ToLower(Append(s, c)) = Append(ToLower(s), Low(c))
<1> DEFINE r == Append(s, c)
           n == Len(s)
<1>1. /\ r \in Seq(Characters) /\ n \in Nat /\ Len(r) = n + 1 /\ r[n + 1] = c
      /\ \A i \in 1..n : r[i] = s[i]
  OBVIOUS
<1>2. /\ ToLower(s) \in Seq(Characters) /\ Len(ToLower(s)) = n
      /\ \A i \in 1..n : ToLower(s)[i] = Low(s[i])
  BY LowerText
<1> HIDE DEF r, n
<1>3. /\ ToLower(r) \in Seq(Characters) /\ Len(ToLower(r)) = n + 1
      /\ \A i \in 1..n + 1 : ToLower(r)[i] = Low(r[i])
  <2>1. r \in Seq(Characters)
    BY <1>1
  <2>2. QED
    BY <1>1, <2>1, LowerText
<1>4. Low(c) \in Characters
  BY CharacterFacts
<1>5. /\ Append(ToLower(s), Low(c)) \in Seq(Characters)
      /\ Len(Append(ToLower(s), Low(c))) = n + 1
      /\ Append(ToLower(s), Low(c))[n + 1] = Low(c)
      /\ \A i \in 1..n : Append(ToLower(s), Low(c))[i] = ToLower(s)[i]
  BY <1>2, <1>4
<1>6. \A i \in 1..n + 1 : ToLower(r)[i] = Append(ToLower(s), Low(c))[i]
  <2> SUFFICES ASSUME NEW i \in 1..n + 1
               PROVE  ToLower(r)[i] = Append(ToLower(s), Low(c))[i]
    OBVIOUS
  <2>1. CASE i = n + 1
    BY <1>1, <1>3, <1>5, <2>1
  <2>2. CASE i \in 1..n
    BY <1>1, <1>2, <1>3, <1>5, <2>2
  <2>3. n \in Nat
    BY <1>1
  <2>4. i = n + 1 \/ i \in 1..n
    BY <2>3
  <2>5. QED
    BY <2>1, <2>2, <2>4
<1>7. ToLower(r) = Append(ToLower(s), Low(c))
  BY <1>3, <1>5, <1>6, SeqEqual
<1>8. QED
  BY <1>7 DEF r

\* What a step leaves.
LEMMA StepType ==
    ASSUME NEW o \in Seq(Characters), NEW c \in Characters
    PROVE  /\ Gap(o) \in Seq(Characters)
           /\ Step(o, c) \in Seq(Characters)
           /\ Gap(Gap(o)) = Gap(o)
           /\ TrimRight(Gap(o)) = TrimRight(o)
           /\ TrimRight(o) \in Seq(Characters)
<1>1. "space" \in Characters
  BY CharacterFacts
<1> DEFINE C == Characters
<1>2. o \in Seq(C) /\ c \in C /\ "space" \in C
  BY <1>1
<1> HIDE DEF C
<1>3. /\ Gap(o) \in Seq(C)
      /\ Gap(Gap(o)) = Gap(o)
  BY <1>2 DEF Gap, Last
<1>4. Step(o, c) \in Seq(C)
  BY <1>2, <1>3 DEF Step
<1>5. TrimRight(o) \in Seq(C)
  BY <1>2 DEF TrimRight, Front, Last
<1>6. TrimRight(Gap(o)) = TrimRight(o)
  <2>1. CASE o = <<>> \/ Last(o) = "space"
    BY <2>1 DEF Gap
  <2>2. CASE o # <<>> /\ Last(o) # "space"
    <3> DEFINE r == Append(o, "space")
    <3>1. r # <<>> /\ Last(r) = "space" /\ Front(r) = o
      BY <1>2 DEF Last, Front
    <3>2. Gap(o) = r
      BY <2>2 DEF Gap
    <3> HIDE DEF r
    <3>3. QED
      BY <2>2, <3>1, <3>2 DEF TrimRight
  <2>3. QED
    BY <2>1, <2>2
<1>7. QED
  BY <1>3, <1>4, <1>5, <1>6 DEF C

\* A text is cleaned step by step.
LEMMA SqueezedStep ==
    ASSUME NEW gaps, gaps = Ascii \/ gaps = White
    PROVE  /\ Squeeze(invisibleReplacer(<<>>), gaps) = <<>>
           /\ \A s \in Seq(Characters) :
                 /\ Squeeze(invisibleReplacer(s), gaps) \in Seq(Characters)
                 /\ \A c \in Characters :
                       Squeeze(invisibleReplacer(Append(s, c)), gaps)
                          = IF c \in ZeroWidth THEN Squeeze(invisibleReplacer(s), gaps)
                            ELSE IF c \in gaps \cup {"nbsp"}
                            THEN Gap(Squeeze(invisibleReplacer(s), gaps))
                            ELSE Append(Squeeze(invisibleReplacer(s), gaps), c)
<1> DEFINE K(s) == Squeeze(invisibleReplacer(s), gaps)
<1>1. "space" \in Characters /\ "space" \in gaps
  BY CharacterFacts DEF Ascii
<1>2. /\ invisibleReplacer(<<>>) = <<>>
      /\ \A s \in Seq(Characters) :
            /\ invisibleReplacer(s) \in Seq(Characters)
            /\ \A c \in Characters :
                  invisibleReplacer(Append(s, c)) = Replaced(invisibleReplacer(s), c)
  BY <1>1, ReplacerStep
<1>3. /\ Squeeze(<<>>, gaps) = <<>>
      /\ \A s \in Seq(Characters) :
            /\ Squeeze(s, gaps) \in Seq(Characters)
            /\ \A c \in Characters :
                  Squeeze(Append(s, c), gaps) = Put(Squeeze(s, gaps), c, gaps)
  BY <1>1, SqueezeStep
<1>4. ASSUME NEW s \in Seq(Characters), NEW c \in Characters
      PROVE  K(Append(s, c)) = IF c \in ZeroWidth THEN K(s)
                               ELSE IF c \in gaps \cup {"nbsp"} THEN Gap(K(s)) ELSE Append(K(s), c)
  <2>1. CASE c \in ZeroWidth
    BY <1>2, <2>1 DEF Replaced
  <2>2. CASE c \notin ZeroWidth
    <3> DEFINE d == IF c = "nbsp" THEN "space" ELSE c
    <3>1. invisibleReplacer(Append(s, c)) = Append(invisibleReplacer(s), d) /\ d \in Characters
      BY <1>1, <1>2, <2>2 DEF Replaced
    <3>2. K(Append(s, c)) = Put(K(s), d, gaps)
      BY <1>2, <1>3, <3>1
    <3>3. d \in gaps <=> c \in gaps \cup {"nbsp"}
      BY <1>1
    <3>4. d \notin gaps => d = c
      BY <1>1
    <3> HIDE DEF K, d
    <3>5. QED
      BY <2>2, <3>2, <3>3, <3>4 DEF Put, Gap
  <2>3. QED
    BY <2>1, <2>2
<1>5. QED
  BY <1>2, <1>3, <1>4

\* A reader, one character more.
LEMMA KeptStep ==
    /\ Kept(<<>>) = <<>>
    /\ \A s \in Seq(Characters) :
          /\ Kept(s) \in Seq(Characters)
          /\ \A c \in Characters : Kept(Append(s, c)) = Step(Kept(s), c)
<1>1. \A c : c \in White \cup {"nbsp"} <=> c \in White
  BY DEF White
<1>2. /\ Kept(<<>>) = <<>>
      /\ \A s \in Seq(Characters) :
            /\ Kept(s) \in Seq(Characters)
            /\ \A c \in Characters :
                  Kept(Append(s, c)) = IF c \in ZeroWidth THEN Kept(s)
                                       ELSE IF c \in White \cup {"nbsp"} THEN Gap(Kept(s))
                                       ELSE Append(Kept(s), c)
  BY SqueezedStep, Zenon DEF Kept
<1>3. QED
  BY <1>1, <1>2 DEF Step

\* collapseWhitespace, one character more.
LEMMA CleanedStep ==
    /\ Cleaned(<<>>) = <<>>
    /\ \A s \in Seq(Characters) :
          /\ Cleaned(s) \in Seq(Characters)
          /\ \A c \in Characters : Cleaned(Append(s, c)) = Clean(Cleaned(s), c)
BY SqueezedStep DEF Cleaned, Clean, Known

\* Lower case before a step is lower case after it.
LEMMA LowerStep ==
    ASSUME NEW o \in Seq(Characters), NEW c \in Characters
    PROVE  ToLower(Step(o, c)) = Step(ToLower(o), Low(c))
<1>1. "space" \in Characters /\ Low("space") = "space"
  BY CharacterFacts 
<1>2. ToLower(Append(o, c)) = Append(ToLower(o), Low(c))
  BY LowerAppend
<1>3. ToLower(Append(o, "space")) = Append(ToLower(o), "space")
  BY <1>1, LowerAppend
<1>4. /\ ToLower(o) = <<>> <=> o = <<>>
      /\ o # <<>> => Last(ToLower(o)) = Low(Last(o)) /\ Last(o) \in Characters
  BY LowerText DEF Last
<1>5. /\ Low(c) \in White <=> c \in White
      /\ Low(c) \in ZeroWidth <=> c \in ZeroWidth
      /\ o # <<>> => (Last(ToLower(o)) = "space" <=> Last(o) = "space")
  BY <1>4, CharacterFacts
<1>6. ToLower(Gap(o)) = Gap(ToLower(o))
  BY <1>3, <1>4, <1>5 DEF Gap
<1>7. QED
  BY <1>2, <1>5, <1>6 DEF Step

\* So what is seen is cleaned step by step, from lower case characters.
LEMMA SeenStep ==
    /\ Seen(<<>>) = <<>>
    /\ \A s \in Seq(Characters) :
          /\ Seen(s) \in Seq(Characters)
          /\ \A c \in Characters : Seen(Append(s, c)) = Step(Seen(s), Low(c))
<1>1. <<>> \in Seq(Characters)
  OBVIOUS
<1>2. Seen(<<>>) = <<>>
  BY <1>1, KeptStep, LowerText DEF Seen
<1>3. QED
  BY <1>2, KeptStep, LowerText, LowerStep DEF Seen

-----------------------------------------------------------------------------
(* What cleaning leaves.                                                   *)

\* Where there is no other white space, collapseWhitespace is a reader.
LEMMA PlainIs ==
    /\ \A s \in Seq(Plain) :
          s \in Seq(Characters) /\ Cleaned(s) \in Seq(Plain) /\ Cleaned(s) = Kept(s)
    /\ Plain \subseteq Characters /\ "space" \in Plain
<1> DEFINE T == {t \in Seq(Plain) : Cleaned(t) \in Seq(Plain) /\ Cleaned(t) = Kept(t)}
<1>1. /\ \A c \in Plain : c \in Characters /\ (c \in White <=> c \in Known)
      /\ "space" \in Plain
  BY CharacterFacts DEF Plain, White, Known, Ascii
<1>2. \A s \in Seq(Plain) : s \in Seq(Characters)
  BY <1>1
<1>3. <<>> \in T
  <2>1. <<>> \in Seq(Plain)
    OBVIOUS
  <2>2. Cleaned(<<>>) = <<>> /\ Kept(<<>>) = <<>>
    BY KeptStep, CleanedStep
  <2>3. QED
    BY <2>1, <2>2
<1>4. ASSUME NEW t \in Seq(Plain), NEW c \in Plain, t \in T
      PROVE  Append(t, c) \in T
  <2>1. /\ t \in Seq(Characters) /\ c \in Characters /\ (c \in White <=> c \in Known)
        /\ Append(t, c) \in Seq(Plain)
    BY <1>1, <1>2
  <2>2. /\ Cleaned(Append(t, c)) = Clean(Cleaned(t), c)
        /\ Kept(Append(t, c)) = Step(Kept(t), c)
    BY <2>1, KeptStep, CleanedStep
  <2>3. Clean(Cleaned(t), c) = Step(Kept(t), c)
    BY <1>4, <2>1 DEF Clean, Step
  <2>4. Clean(Cleaned(t), c) \in Seq(Plain)
    <3> DEFINE o == Cleaned(t)
               P == Plain
    <3>1. o \in Seq(P) /\ c \in P /\ "space" \in P
      BY <1>1, <1>4
    <3> HIDE DEF o, P
    <3>2. Append(o, c) \in Seq(P) /\ Append(o, "space") \in Seq(P)
      BY <3>1
    <3>3. Clean(o, c) \in Seq(P)
      BY <3>1, <3>2 DEF Clean, Gap
    <3>4. QED
      BY <3>3 DEF o, P
  <2>5. QED
    BY <2>1, <2>2, <2>3, <2>4
<1>5. Seq(Plain) \subseteq T
  <2> HIDE DEF T
  <2>1. QED
    BY <1>3, <1>4, TextInduction
<1>6. QED
  BY <1>1, <1>2, <1>5

\* collapseWhitespace is what is kept, trimmed at the end.
LEMMA CollapseIs ==
    ASSUME NEW s \in Seq(Characters)
    PROVE  /\ collapseWhitespace(s) = TrimRight(Cleaned(s))
           /\ collapseWhitespace(s) \in Seq(Characters)
           /\ s \in Seq(Plain) => /\ collapseWhitespace(s) \in Seq(Plain)
                                 /\ ToLower(collapseWhitespace(s)) = Shown(s)
<1> DEFINE o == Cleaned(s)
<1>1. o \in Seq(Characters)
  BY CleanedStep
<1>2. collapseWhitespace(s) = TrimRight(o)
  BY DEF collapseWhitespace, Collapse, Cleaned
<1>3. s \in Seq(Plain) => o \in Seq(Plain) /\ Shown(s) = TrimRight(ToLower(o))
  BY PlainIs DEF Shown, Seen
<1> HIDE DEF o
<1>4. TrimRight(o) \in Seq(Characters)
  BY <1>1, CharacterFacts, StepType
<1>5. ToLower(TrimRight(o)) = TrimRight(ToLower(o))
  <2>1. CASE o = <<>>
    BY <1>1, <2>1, LowerText DEF TrimRight
  <2>2. CASE o # <<>>
    <3>1. PICK r \in Seq(Characters), c \in Characters : o = Append(r, c)
      BY <1>1, <2>2, SequenceEmptyOrAppend
    <3>2. ToLower(o) = Append(ToLower(r), Low(c)) /\ ToLower(r) \in Seq(Characters)
      BY <3>1, LowerAppend, LowerText
    <3>3. Low(c) \in Characters /\ (Low(c) = "space" <=> c = "space")
      BY CharacterFacts
    <3>4. o # <<>> /\ Last(o) = c /\ Front(o) = r
      BY <3>1 DEF Last, Front
    <3>5. ToLower(o) # <<>> /\ Last(ToLower(o)) = Low(c) /\ Front(ToLower(o)) = ToLower(r)
      BY <3>2, <3>3 DEF Last, Front
    <3>6. QED
      BY <3>3, <3>4, <3>5 DEF TrimRight
  <2>3. QED
    BY <2>1, <2>2
<1>6. o \in Seq(Plain) => TrimRight(o) \in Seq(Plain)
  <2> DEFINE P == Plain
  <2> HIDE DEF P
  <2>1. o \in Seq(P) => TrimRight(o) \in Seq(P)
    BY DEF TrimRight, Front, Last
  <2>2. QED
    BY <2>1 DEF P
<1>7. QED
  BY <1>2, <1>3, <1>4, <1>5, <1>6 DEF o

\* A text without invisible characters and without a space that follows
\* none, as it is before its end is trimmed.
Neat(o) ==
    \A i \in 1..Len(o) :
        /\ o[i] \notin {"tab", "nbsp"} \cup ZeroWidth
        /\ o[i] = "space" => i # 1 /\ o[i - 1] # "space"

\* One character more.
LEMMA NeatAppend ==
    ASSUME NEW o \in Seq(Characters), NEW c \in Characters
    PROVE  Neat(Append(o, c)) <=>
              /\ Neat(o)
              /\ c \notin {"tab", "nbsp"} \cup ZeroWidth
              /\ c = "space" => o # <<>> /\ Last(o) # "space"
<1> DEFINE r == Append(o, c)
           n == Len(o)
<1>1. /\ n \in Nat /\ Len(r) = n + 1 /\ r[n + 1] = c /\ \A i \in 1..n : r[i] = o[i]
      /\ o = <<>> <=> n = 0
      /\ Last(o) = o[n]
  BY DEF Last
<1> HIDE DEF r, n
<1>2. ASSUME Neat(r)
      PROVE  /\ Neat(o)
             /\ c \notin {"tab", "nbsp"} \cup ZeroWidth
             /\ c = "space" => o # <<>> /\ Last(o) # "space"
  <2>1. \A i \in 1..n + 1 : /\ r[i] \notin {"tab", "nbsp"} \cup ZeroWidth
                            /\ r[i] = "space" => i # 1 /\ r[i - 1] # "space"
    BY <1>1, <1>2 DEF Neat
  <2>2. ASSUME NEW i \in 1..n
        PROVE  /\ o[i] \notin {"tab", "nbsp"} \cup ZeroWidth
               /\ o[i] = "space" => i # 1 /\ o[i - 1] # "space"
    <3>1. n \in Nat /\ i \in 1..n + 1 /\ (i # 1 => i - 1 \in 1..n)
      BY <1>1
    <3>2. QED
      BY <1>1, <2>1, <3>1
  <2>3. n + 1 \in 1..n + 1 /\ (n + 1 # 1 => n # 0 /\ n \in 1..n /\ (n + 1) - 1 = n)
    BY <1>1
  <2>4. QED
    BY <1>1, <2>1, <2>2, <2>3 DEF Neat, n
<1>3. ASSUME Neat(o), c \notin {"tab", "nbsp"} \cup ZeroWidth,
             c = "space" => o # <<>> /\ Last(o) # "space"
      PROVE  Neat(r)
  <2>1. ASSUME NEW i \in 1..n + 1
        PROVE  /\ r[i] \notin {"tab", "nbsp"} \cup ZeroWidth
               /\ r[i] = "space" => i # 1 /\ r[i - 1] # "space"
    <3>1. CASE i = n + 1
      <4>1. n # 0 => n \in 1..n /\ i - 1 = n /\ i # 1
        BY <1>1, <3>1
      <4>2. QED
        BY <1>1, <1>3, <3>1, <4>1
    <3>2. CASE i # n + 1
      <4>1. n \in Nat /\ i \in 1..n /\ (i # 1 => i - 1 \in 1..n)
        BY <1>1, <3>2
      <4>2. \A j \in 1..n : /\ o[j] \notin {"tab", "nbsp"} \cup ZeroWidth
                            /\ o[j] = "space" => j # 1 /\ o[j - 1] # "space"
        BY <1>3 DEF Neat, n
      <4>3. QED
        BY <1>1, <4>1, <4>2
    <3>3. QED
      BY <3>1, <3>2
  <2>2. QED
    BY <1>1, <2>1 DEF Neat
<1>4. QED
  BY <1>2, <1>3 DEF r

\* A step leaves a neat text.
LEMMA StepNeat ==
    ASSUME NEW o \in Seq(Characters), NEW c \in Characters, Neat(o)
    PROVE  Neat(Step(o, c)) /\ Neat(Clean(o, c))
<1>1. "space" \in Characters
  BY CharacterFacts
<1>2. Neat(Gap(o))
  BY <1>1, NeatAppend DEF Gap, ZeroWidth
<1>3. c \notin Known \cup ZeroWidth => Neat(Append(o, c))
  BY NeatAppend DEF Known, Ascii
<1>4. c \notin White => c \notin Known
  BY DEF White, Known
<1>5. QED
  BY <1>2, <1>3, <1>4 DEF Step, Clean

\* What is cleaned is neat.
LEMMA CleanedNeat ==
    ASSUME NEW s \in Seq(Characters)
    PROVE  Neat(Cleaned(s))
<1> DEFINE T == {t \in Seq(Characters) : Neat(Cleaned(t))}
<1>1. <<>> \in T
  BY CleanedStep DEF Neat
<1>2. \A t \in Seq(Characters), c \in Characters : t \in T => Append(t, c) \in T
  BY CleanedStep, StepNeat
<1>3. Seq(Characters) \subseteq T
  <2> HIDE DEF T
  <2>1. QED
    BY <1>1, <1>2, TextInduction
<1>4. QED
  BY <1>3

\* What is neat already is clean.
LEMMA NeatCleaned ==
    ASSUME NEW s \in Seq(Characters), Neat(s)
    PROVE  Cleaned(s) = s
<1> DEFINE T == {t \in Seq(Characters) : Neat(t) => Cleaned(t) = t}
<1>1. <<>> \in T
  BY CleanedStep
<1>2. ASSUME NEW t \in Seq(Characters), NEW c \in Characters, t \in T
      PROVE  Append(t, c) \in T
  <2> SUFFICES ASSUME Neat(Append(t, c))
               PROVE  Cleaned(Append(t, c)) = Append(t, c)
    OBVIOUS
  <2>1. /\ Neat(t)
        /\ c \notin {"tab", "nbsp"} \cup ZeroWidth
        /\ c = "space" => t # <<>> /\ Last(t) # "space"
    BY NeatAppend
  <2>2. Cleaned(t) = t
    BY <1>2, <2>1
  <2>3. Clean(t, c) = Append(t, c)
    BY <2>1 DEF Clean, Gap, Known, Ascii
  <2>4. QED
    BY <2>2, <2>3, CleanedStep
<1>3. Seq(Characters) \subseteq T
  <2> HIDE DEF T
  <2>1. QED
    BY <1>1, <1>2, TextInduction
<1>4. QED
  BY <1>3

\* Tidy is neat, and trimmed at the end.
LEMMA TidyIs ==
    ASSUME NEW s \in Seq(Characters)
    PROVE  Tidy(s) <=> Neat(s) /\ (s # <<>> => Last(s) # "space")
<1> DEFINE n == Len(s)
<1>1. /\ DOMAIN s = 1..n /\ n \in Nat /\ Last(s) = s[n]
      /\ s # <<>> => n \in 1..n
      /\ s = <<>> => n = 0
  BY DEF Last
<1> HIDE DEF n
<1>2. Tidy(s) => Neat(s)
  BY <1>1 DEF Tidy, Neat, n
<1>3. Tidy(s) => (s # <<>> => Last(s) # "space")
  BY <1>1 DEF Tidy, n
<1>4. ASSUME Neat(s), s # <<>> => Last(s) # "space", NEW i \in 1..n
      PROVE  /\ s[i] \notin {"tab", "nbsp"} \cup ZeroWidth
             /\ s[i] = "space" => i \notin {1, n} /\ s[i - 1] # "space"
  <2>1. s # <<>>
    BY <1>1, <1>4
  <2>2. QED
    BY <1>1, <1>4, <2>1 DEF Neat, n
<1>5. Neat(s) /\ (s # <<>> => Last(s) # "space") => Tidy(s)
  BY <1>1, <1>4 DEF Tidy, n
<1>6. QED
  BY <1>2, <1>3, <1>5

\* Cleaned texts are tidy, and tidy ones are clean.
LEMMA CollapseTidy ==
    ASSUME NEW s \in Seq(Characters)
    PROVE  Tidy(collapseWhitespace(s))
<1> DEFINE o == Cleaned(s)
           t == TrimRight(o)
<1>1. o \in Seq(Characters) /\ Neat(o)
  BY CleanedStep, CleanedNeat
<1>2. collapseWhitespace(s) = t /\ t \in Seq(Characters)
  BY CollapseIs
<1> HIDE DEF o
<1>3. CASE o = <<>> \/ Last(o) # "space"
  <2>1. t = o
    BY <1>3 DEF TrimRight
  <2>2. QED
    BY <1>1, <1>2, <1>3, <2>1, TidyIs
<1>4. CASE o # <<>> /\ Last(o) = "space"
  <2>1. PICK r \in Seq(Characters), c \in Characters : o = Append(r, c)
    BY <1>1, <1>4, SequenceEmptyOrAppend
  <2>2. Last(o) = c /\ Front(o) = r
    BY <2>1 DEF Last, Front
  <2>3. Neat(r) /\ r # <<>> /\ Last(r) # "space"
    BY <1>1, <1>4, <2>1, <2>2, NeatAppend
  <2>4. t = r
    BY <1>4, <2>2 DEF TrimRight
  <2>5. QED
    BY <1>2, <2>3, <2>4, TidyIs
<1>5. QED
  BY <1>3, <1>4

\* A tidy text is left as it is.
LEMMA TidyCollapse ==
    ASSUME NEW s \in Seq(Characters), Tidy(s)
    PROVE  collapseWhitespace(s) = s
<1>1. Neat(s) /\ (s # <<>> => Last(s) # "space")
  BY TidyIs
<1>2. Cleaned(s) = s
  BY <1>1, NeatCleaned
<1>3. QED
  BY <1>1, <1>2, CollapseIs DEF TrimRight

\* A text that neither begins nor ends with white space is not trimmed.
LEMMA TrimSpaceIs ==
    ASSUME NEW S, NEW s \in Seq(S), s # <<>> => s[1] \notin White /\ Last(s) \notin White
    PROVE  TrimSpace(s) = s
<1> DEFINE solid == {i \in DOMAIN s : s[i] \notin White}
           n == Len(s)
<1>1. n \in Nat /\ DOMAIN s = 1..n /\ (s = <<>> <=> n = 0) /\ Last(s) = s[n]
  BY DEF Last
<1> HIDE DEF n
<1>2. CASE s = <<>>
  <2>1. solid = {}
    BY <1>1, <1>2
  <2>2. QED
    BY <1>2, <2>1 DEF TrimSpace
<1>3. CASE s # <<>>
  <2>1. 1 \in solid /\ n \in solid /\ n \in 1..n
    BY <1>1, <1>3
  <2>2. solid \in SUBSET Nat /\ solid \in SUBSET (0..n) /\ \A i \in solid : i \in 1..n
    BY <1>1
  <2>3. TrimSpace(s) = SubSeq(s, Min(solid), Max(solid))
    BY <2>1 DEF TrimSpace
  <2> HIDE DEF solid
  <2>4. Min(solid) \in solid /\ Min(solid) <= 1
    BY <2>1, <2>2, MinOf
  <2>5. Max(solid) \in solid /\ n <= Max(solid)
    BY <1>1, <2>1, <2>2, MaxOf
  <2>6. Min(solid) = 1 /\ Max(solid) = n
    <3>1. Min(solid) \in 1..n /\ Max(solid) \in 1..n
      BY <2>2, <2>4, <2>5
    <3> DEFINE m == Min(solid)
               k == Max(solid)
    <3>2. m \in 1..n /\ k \in 1..n /\ m <= 1 /\ n <= k
      BY <2>4, <2>5, <3>1
    <3> HIDE DEF m, k
    <3>3. m = 1 /\ k = n
      BY <1>1, <3>2
    <3>4. QED
      BY <3>3 DEF m, k
  <2>7. SubSeq(s, 1, n) = s
    BY SubSeqFull DEF n
  <2>8. QED
    BY <2>3, <2>6, <2>7
<1>4. QED
  BY <1>2, <1>3

\* Nor is a tidy one.
LEMMA TidyTrimmed ==
    ASSUME NEW s \in Seq(Plain), Tidy(s)
    PROVE  TrimSpace(s) = s /\ normalize(s) = ToLower(s)
<1>1. \A i \in DOMAIN s : s[i] \in Plain
  OBVIOUS
<1>2. s # <<>> => 1 \in DOMAIN s /\ Len(s) \in DOMAIN s
  OBVIOUS
<1>3. s # <<>> => s[1] \notin White /\ Last(s) \notin White
  BY <1>1, <1>2 DEF Tidy, White, Ascii, Last, Plain
<1>4. QED
  BY <1>3, TrimSpaceIs DEF normalize

\* Trimmed, a neat text is tidy.
LEMMA TrimTidy ==
    ASSUME NEW s \in Seq(Characters), Neat(s)
    PROVE  TrimSpace(s) \in Seq(Characters) /\ Tidy(TrimSpace(s))
<1> DEFINE solid == {i \in DOMAIN s : s[i] \notin White}
           n == Len(s)
<1>1. n \in Nat /\ DOMAIN s = 1..n /\ \A i \in 1..n : s[i] \in Characters
  OBVIOUS
<1>2. \A i \in 1..n : /\ s[i] \notin {"tab", "nbsp"} \cup ZeroWidth
                      /\ s[i] = "space" => i # 1 /\ s[i - 1] # "space"
  BY DEF Neat
<1>3. CASE solid = {}
  <2>1. TrimSpace(s) = <<>>
    BY <1>3 DEF TrimSpace
  <2>2. QED
    BY <2>1 DEF Tidy
<1>4. CASE solid # {}
  <2>1. solid \in SUBSET Nat /\ solid \in SUBSET (0..n)
    BY <1>1
  <2>2. TrimSpace(s) = SubSeq(s, Min(solid), Max(solid))
    BY <1>4 DEF TrimSpace
  <2>3. Min(solid) \in solid /\ Max(solid) \in solid /\ Min(solid) <= Max(solid)
    <3> HIDE DEF solid, n
    <3>1. Min(solid) \in solid /\ \A y \in solid : Min(solid) <= y
      BY <1>4, <2>1, MinOf
    <3>2. Max(solid) \in solid
      BY <1>1, <1>4, <2>1, MaxOf
    <3>3. QED
      BY <3>1, <3>2
  <2> DEFINE m == Min(solid)
             k == Max(solid)
             y == SubSeq(s, m, k)
  <2>4. /\ m \in 1..n /\ k \in 1..n /\ m <= k
        /\ s[m] # "space" /\ s[k] # "space"
    BY <1>1, <2>3, CharacterFacts
  <2> HIDE DEF m, k, n
  <2>5. /\ y \in Seq(Characters) /\ Len(y) = k - m + 1
        /\ \A i \in 1..k - m + 1 : y[i] = s[m + i - 1]
    <3>1. m \in Int /\ k \in Int /\ \A i \in m..k : s[i] \in Characters
      BY <1>1, <2>4
    <3>2. /\ y \in Seq(Characters)
          /\ Len(y) = IF m <= k THEN k - m + 1 ELSE 0
          /\ \A i \in 1..k - m + 1 : y[i] = s[m + i - 1]
      BY <3>1, SubSeqProperties
    <3>3. QED
      BY <2>4, <3>2
  <2> HIDE DEF y
  <2>6. ASSUME NEW i \in 1..k - m + 1
        PROVE  /\ y[i] \notin {"tab", "nbsp"} \cup ZeroWidth
               /\ y[i] = "space" => i \notin {1, k - m + 1} /\ y[i - 1] # "space"
    <3>1. m + i - 1 \in 1..n /\ y[i] = s[m + i - 1]
      BY <1>1, <2>4, <2>5
    <3>2. i = 1 => m + i - 1 = m
      BY <1>1, <2>4
    <3>3. i = k - m + 1 => m + i - 1 = k
      BY <1>1, <2>4
    <3>4. i # 1 => i - 1 \in 1..k - m + 1 /\ m + (i - 1) - 1 = (m + i - 1) - 1
      BY <1>1, <2>4
    <3>5. i # 1 => y[i - 1] = s[(m + i - 1) - 1]
      BY <2>5, <3>4
    <3>6. QED
      BY <1>2, <2>4, <3>1, <3>2, <3>3, <3>5
  <2>7. Tidy(y)
    <3>1. DOMAIN y = 1..k - m + 1
      BY <2>5
    <3>2. QED
      BY <2>5, <2>6, <3>1 DEF Tidy
  <2>8. TrimSpace(s) = y
    BY <2>2 DEF y, m, k
  <2>9. QED
    BY <2>5, <2>7, <2>8
<1>5. QED
  BY <1>3, <1>4

\* normalize sees of a cleaned text what a reader sees, and of a tidy one.
LEMMA NormalizeShown ==
    ASSUME NEW s \in Seq(Plain)
    PROVE  /\ normalize(collapseWhitespace(s)) = Shown(s)
           /\ Tidy(s) => normalize(s) = Shown(s)
<1>1. s \in Seq(Characters)
  BY PlainIs
<1>2. normalize(collapseWhitespace(s)) = Shown(s)
  BY <1>1, CollapseIs, CollapseTidy, TidyTrimmed
<1>3. QED
  BY <1>1, <1>2, TidyCollapse

-----------------------------------------------------------------------------
(* What a page adds, and a reader does not see.                            *)

\* A character more behind two texts.
LEMMA ConcatAppend ==
    ASSUME NEW S, NEW s \in Seq(S), NEW t \in Seq(S), NEW c \in S
    PROVE  s \o Append(t, c) = Append(s \o t, c)
<1>1. <<c>> \in Seq(S) /\ s \o t \in Seq(S)
  OBVIOUS
<1>2. s \o Append(t, c) = s \o (t \o <<c>>)
  BY AppendIsConcat
<1>3. (s \o t) \o <<c>> = s \o (t \o <<c>>)
  BY <1>1, ConcatAssociative
<1>4. (s \o t) \o <<c>> = Append(s \o t, c)
  BY <1>1, AppendIsConcat
<1>5. QED
  BY <1>2, <1>3, <1>4

\* Whatever follows, what was seen alike is seen alike.
LEMMA SeenAfter ==
    ASSUME NEW u \in Seq(Characters), NEW v \in Seq(Characters), Seen(u) = Seen(v),
           NEW b \in Seq(Characters)
    PROVE  Seen(u \o b) = Seen(v \o b)
<1> DEFINE T == {t \in Seq(Characters) : Seen(u \o t) = Seen(v \o t)}
<1>1. <<>> \in T
  BY ConcatEmptySeq
<1>2. ASSUME NEW t \in Seq(Characters), NEW c \in Characters, t \in T
      PROVE  Append(t, c) \in T
  <2>1. u \o t \in Seq(Characters) /\ v \o t \in Seq(Characters)
    OBVIOUS
  <2>2. /\ Seen(Append(u \o t, c)) = Step(Seen(u \o t), Low(c))
        /\ Seen(Append(v \o t, c)) = Step(Seen(v \o t), Low(c))
    BY <2>1, SeenStep
  <2>3. u \o Append(t, c) = Append(u \o t, c) /\ v \o Append(t, c) = Append(v \o t, c)
    BY ConcatAppend
  <2>4. Append(t, c) \in Seq(Characters)
    OBVIOUS
  <2>5. QED
    BY <1>2, <2>2, <2>3, <2>4
<1>3. Seq(Characters) \subseteq T
  <2> HIDE DEF T
  <2>1. QED
    BY <1>1, <1>2, TextInduction
<1>4. QED
  BY <1>3

\* A text before, at and behind a place.
LEMMA Halves ==
    ASSUME NEW S, NEW s \in Seq(S), NEW i \in 1..Len(s) + 1
    PROVE  /\ SubSeq(s, 1, i - 1) \in Seq(S) /\ SubSeq(s, i, Len(s)) \in Seq(S)
           /\ s = SubSeq(s, 1, i - 1) \o SubSeq(s, i, Len(s))
           /\ i = 1 => SubSeq(s, 1, i - 1) = <<>>
           /\ i = Len(s) + 1 => SubSeq(s, i, Len(s)) = <<>>
<1>1. Len(s) \in Nat /\ i - 1 \in 0..Len(s) /\ i \in Int
  OBVIOUS
<1>2. \A j \in 1..Len(s) : s[j] \in S
  OBVIOUS
<1>3. SubSeq(s, 1, i - 1) \in Seq(S)
  BY <1>1, <1>2, SubSeqProperties
<1>4. SubSeq(s, i, Len(s)) \in Seq(S)
  BY <1>1, <1>2, SubSeqProperties
<1>5. SubSeq(s, 1, i - 1) \o SubSeq(s, i, Len(s)) = s
  <2> DEFINE k == i - 1
  <2>1. 1 \in 1..Len(s) + 1 /\ k \in 1 - 1..Len(s) /\ Len(s) \in k..Len(s) /\ k + 1 = i
    BY <1>1
  <2> HIDE DEF k
  <2>2. SubSeq(s, 1, k) \o SubSeq(s, k + 1, Len(s)) = SubSeq(s, 1, Len(s))
    BY <2>1, ConcatAdjacentSubSeq
  <2>3. SubSeq(s, 1, Len(s)) = s
    BY SubSeqFull
  <2>4. QED
    BY <2>1, <2>2, <2>3 DEF k
<1>6. i = 1 => SubSeq(s, 1, i - 1) = <<>>
  BY SubSeqEmpty
<1>7. i = Len(s) + 1 => SubSeq(s, i, Len(s)) = <<>>
  BY <1>1, SubSeqEmpty
<1>8. QED
  BY <1>3, <1>4, <1>5, <1>6, <1>7

\* The place itself is the last of what is before it and the first of what
\* is behind it.
LEMMA AtPlace ==
    ASSUME NEW S, NEW s \in Seq(S), NEW i \in 1..Len(s)
    PROVE  /\ SubSeq(s, 1, i) = Append(SubSeq(s, 1, i - 1), s[i])
           /\ SubSeq(s, i, Len(s)) = <<s[i]>> \o SubSeq(s, i + 1, Len(s))
           /\ SubSeq(s, 1, i - 1) \in Seq(S)
           /\ SubSeq(s, i + 1, Len(s)) \in Seq(S)
           /\ s = Append(SubSeq(s, 1, i - 1), s[i]) \o SubSeq(s, i + 1, Len(s))
<1>1. Len(s) \in Nat /\ i \in 1..Len(s) + 1 /\ i + 1 \in 1..Len(s) + 1 /\ s[i] \in S
  OBVIOUS
<1>2. /\ SubSeq(s, 1, i - 1) \in Seq(S) /\ SubSeq(s, i, Len(s)) \in Seq(S)
      /\ s = SubSeq(s, 1, i - 1) \o SubSeq(s, i, Len(s))
  BY <1>1, Halves
<1>3. /\ SubSeq(s, 1, (i + 1) - 1) \in Seq(S) /\ SubSeq(s, i + 1, Len(s)) \in Seq(S)
      /\ s = SubSeq(s, 1, (i + 1) - 1) \o SubSeq(s, i + 1, Len(s))
  BY <1>1, Halves
<1>4. (i + 1) - 1 = i
  OBVIOUS
<1>5. SubSeq(s, 1, i) = SubSeq(s, 1, i - 1) \o <<s[i]>>
  <2>1. 1 \in 1..Len(s) /\ i \in 1..Len(s)
    OBVIOUS
  <2>2. QED
    BY <2>1, SubSeqRecursiveSecond
<1>6. SubSeq(s, 1, i - 1) \o <<s[i]>> = Append(SubSeq(s, 1, i - 1), s[i])
  BY <1>1, <1>2, AppendIsConcat
<1>7. SubSeq(s, i, Len(s)) = <<s[i]>> \o SubSeq(s, i + 1, Len(s))
  <2>1. Len(s) \in i..Len(s)
    OBVIOUS
  <2>2. QED
    BY <2>1, SubSeqRecursiveFirst
<1>8. QED
  BY <1>2, <1>3, <1>4, <1>5, <1>6, <1>7

\* What white space and what has no width do at the end of a text.
LEMMA SeenSpaces ==
    ASSUME NEW s \in Seq(Characters), NEW c \in Characters
    PROVE  /\ Append(s, c) \in Seq(Characters)
           /\ Seen(s) \in Seq(Characters)
           /\ c \in White => Seen(Append(s, c)) = Gap(Seen(s))
           /\ c \in ZeroWidth => Seen(Append(s, c)) = Seen(s)
           /\ Gap(Gap(Seen(s))) = Gap(Seen(s))
           /\ TrimRight(Gap(Seen(s))) = TrimRight(Seen(s))
<1>1. /\ Seen(s) \in Seq(Characters) /\ Seen(Append(s, c)) = Step(Seen(s), Low(c))
  BY SeenStep
<1>2. /\ Low(c) \in White <=> c \in White
      /\ Low(c) \in ZeroWidth <=> c \in ZeroWidth
  BY CharacterFacts
<1>3. \A d \in White : d \notin ZeroWidth
  BY CharacterFacts
<1>4. /\ Gap(Gap(Seen(s))) = Gap(Seen(s)) /\ TrimRight(Gap(Seen(s))) = TrimRight(Seen(s))
  BY <1>1, StepType
<1>5. Append(s, c) \in Seq(Characters)
  OBVIOUS
<1>6. (c \in White => Step(Seen(s), Low(c)) = Gap(Seen(s)))
      /\ (c \in ZeroWidth => Step(Seen(s), Low(c)) = Seen(s))
  BY <1>2, <1>3 DEF Step
<1>7. QED
  BY <1>1, <1>4, <1>5, <1>6

\* White space beside white space or at the ends, and what has no width
\* anywhere, is not seen.
LEMMA InsertShown ==
    ASSUME NEW s \in Seq(Characters), NEW i \in 1..Len(s) + 1, NEW c \in Characters,
           c \in White \cup ZeroWidth,
           c \in White => \/ i \in {1, Len(s) + 1}
                          \/ \E j \in {i - 1, i} \cap DOMAIN s : s[j] \in White
    PROVE  InsertAt(s, i, c) \in Seq(Characters) /\ Shown(InsertAt(s, i, c)) = Shown(s)
<1> DEFINE a == SubSeq(s, 1, i - 1)
           b == SubSeq(s, i, Len(s))
           t == InsertAt(s, i, c)
<1>1. /\ a \in Seq(Characters) /\ b \in Seq(Characters) /\ s = a \o b
      /\ i = 1 => a = <<>>
      /\ i = Len(s) + 1 => b = <<>>
  BY Halves
<1>2. t = Append(a, c) \o b
  <2>1. t = (a \o <<c>>) \o b
    BY DEF InsertAt
  <2>2. QED
    BY <1>1, <2>1, AppendIsConcat
<1>3. Append(a, c) \in Seq(Characters) /\ t \in Seq(Characters)
  <2> HIDE DEF a, b, t
  <2>1. Append(a, c) \in Seq(Characters)
    BY <1>1
  <2>2. QED
    BY <1>1, <1>2, <2>1
<1> SUFFICES Shown(t) = Shown(s)
  BY <1>3
<1>4. Seen(Append(a, c)) = Seen(a) => Shown(t) = Shown(s)
  <2> HIDE DEF a, b, t
  <2>1. ASSUME Seen(Append(a, c)) = Seen(a)
        PROVE  Seen(Append(a, c) \o b) = Seen(a \o b)
    BY <1>1, <1>3, <2>1, SeenAfter
  <2>2. QED
    BY <1>1, <1>2, <2>1 DEF Shown
<1>5. CASE c \in ZeroWidth
  <2>1. Seen(Append(a, c)) = Seen(a)
    <3> HIDE DEF a
    <3>1. QED
      BY <1>1, <1>5, SeenSpaces
  <2>2. QED
    BY <1>3, <1>4, <2>1
<1>6. CASE c \in White
  <2>1. CASE i = 1
    <3>1. Seen(a) = <<>> /\ Gap(<<>>) = <<>>
      BY <1>1, <2>1, SeenStep DEF Gap
    <3>2. Seen(Append(a, c)) = Gap(Seen(a))
      <4> HIDE DEF a
      <4>1. QED
        BY <1>1, <1>6, SeenSpaces
    <3>3. QED
      BY <1>3, <1>4, <3>1, <3>2
  <2>2. CASE i = Len(s) + 1
    <3>1. b = <<>>
      BY <1>1, <2>2
    <3> HIDE DEF a, b, t
    <3>2. t = Append(a, c) /\ s = a
      BY <1>1, <1>2, <1>3, <3>1, ConcatEmptySeq
    <3>3. Seen(Append(a, c)) = Gap(Seen(a)) /\ TrimRight(Gap(Seen(a))) = TrimRight(Seen(a))
      BY <1>1, <1>6, SeenSpaces
    <3>4. QED
      BY <1>3, <3>2, <3>3 DEF Shown
  <2>3. CASE i - 1 \in DOMAIN s /\ s[i - 1] \in White
    <3> DEFINE j == i - 1
               r == SubSeq(s, 1, j - 1)
    <3>1. j \in 1..Len(s) /\ s[j] \in Characters /\ s[j] \in White /\ a = SubSeq(s, 1, j)
      BY <2>3
    <3>2. a = Append(r, s[j]) /\ r \in Seq(Characters)
      <4> HIDE DEF j
      <4>1. QED
        BY <3>1, AtPlace
    <3> HIDE DEF a, r, j, t, b
    <3>3. Seen(a) = Gap(Seen(r)) /\ Gap(Gap(Seen(r))) = Gap(Seen(r))
      BY <3>1, <3>2, SeenSpaces
    <3>4. Seen(Append(a, c)) = Gap(Seen(a))
      BY <1>1, <1>6, SeenSpaces
    <3>5. QED
      BY <1>3, <1>4, <3>3, <3>4
  <2>4. CASE i \in DOMAIN s /\ s[i] \in White
    <3> DEFINE w == s[i]
               r == SubSeq(s, i + 1, Len(s))
    <3>1. i \in 1..Len(s) /\ w \in Characters /\ w \in White
      BY <2>4
    <3>2. b = <<w>> \o r /\ r \in Seq(Characters) /\ s = Append(a, w) \o r
      BY <3>1, AtPlace
    <3> HIDE DEF a, r, t, b, w
    <3>3. t = Append(Append(a, c), w) \o r
      <4>1. <<w>> \in Seq(Characters)
        BY <3>1
      <4> DEFINE d == <<w>>
                 e == Append(a, c)
      <4>2. d \in Seq(Characters) /\ e \in Seq(Characters) /\ b = d \o r
        BY <1>3, <3>2, <4>1
      <4>3. t = e \o b
        BY <1>2
      <4>4. t = (e \o d) \o r
        <5> HIDE DEF d, e
        <5>1. (e \o d) \o r = e \o (d \o r)
          <6>1. d \in Seq(Characters)
            BY <4>2
          <6>2. e \in Seq(Characters)
            BY <4>2
          <6>3. r \in Seq(Characters)
            BY <3>2
          <6>4. QED
            BY <6>1, <6>2, <6>3, ConcatAssociative
        <5>2. QED
          BY <4>2, <4>3, <5>1
      <4>5. e \o d = Append(e, w)
        <5> HIDE DEF e
        <5>1. QED
          BY <3>1, <4>2, AppendIsConcat
      <4>6. QED
        BY <4>4, <4>5
    <3>4. /\ Seen(Append(a, w)) = Gap(Seen(a)) /\ Gap(Gap(Seen(a))) = Gap(Seen(a))
          /\ Append(a, w) \in Seq(Characters)
      BY <1>1, <3>1, SeenSpaces
    <3>5. Seen(Append(a, c)) = Gap(Seen(a))
      BY <1>1, <1>6, SeenSpaces
    <3>6. /\ Seen(Append(Append(a, c), w)) = Gap(Seen(Append(a, c)))
          /\ Append(Append(a, c), w) \in Seq(Characters)
      BY <1>3, <3>1, SeenSpaces
    <3>7. Seen(Append(Append(a, c), w)) = Seen(Append(a, w))
      BY <3>4, <3>5, <3>6
    <3>8. Seen(Append(Append(a, c), w) \o r) = Seen(Append(a, w) \o r)
      BY <3>2, <3>4, <3>6, <3>7, SeenAfter
    <3>9. QED
      BY <1>3, <3>2, <3>3, <3>8 DEF Shown
  <2>5. QED
    BY <1>6, <2>1, <2>2, <2>3, <2>4
<1>7. QED
  BY <1>5, <1>6

\* A character for one that is cleaned alike, but for its case.
LEMMA ReplaceShown ==
    ASSUME NEW s \in Seq(Characters), NEW i \in 1..Len(s), NEW c \in Characters,
           \A o : Step(o, Low(c)) = Step(o, Low(s[i]))
    PROVE  [s EXCEPT ![i] = c] \in Seq(Characters) /\ Shown([s EXCEPT ![i] = c]) = Shown(s)
<1> DEFINE t == [s EXCEPT ![i] = c]
           a == SubSeq(s, 1, i - 1)
           b == SubSeq(s, i + 1, Len(s))
<1>1. /\ t \in Seq(Characters) /\ Len(t) = Len(s) /\ t[i] = c
      /\ \A j \in 1..Len(s) : j # i => t[j] = s[j]
      /\ i \in 1..Len(t)
  BY ExceptSeq
<1>2. SubSeq(t, 1, i - 1) = a /\ SubSeq(t, i + 1, Len(t)) = b
  <2> HIDE DEF t
  <2> DEFINE n == Len(s)
  <2>1. i \in 1..n /\ n \in Nat /\ i - 1 \in Int /\ 1 \in Int /\ i + 1 \in Int
    OBVIOUS
  <2>2. \A j \in 1..n : s[j] \in Characters /\ t[j] \in Characters
    BY <1>1
  <2> HIDE DEF n
  <2>3. ASSUME NEW p \in Int, NEW q \in Int, \A j \in p..q : j \in 1..n /\ j # i
        PROVE  SubSeq(t, p, q) = SubSeq(s, p, q)
    <3>1. /\ SubSeq(t, p, q) \in Seq(Characters)
          /\ Len(SubSeq(t, p, q)) = IF p <= q THEN q - p + 1 ELSE 0
          /\ \A j \in 1..q - p + 1 : SubSeq(t, p, q)[j] = t[p + j - 1]
      <4>1. \A j \in p..q : t[j] \in Characters
        BY <2>2, <2>3
      <4>2. QED
        BY <4>1, SubSeqProperties
    <3>2. /\ SubSeq(s, p, q) \in Seq(Characters)
          /\ Len(SubSeq(s, p, q)) = IF p <= q THEN q - p + 1 ELSE 0
          /\ \A j \in 1..q - p + 1 : SubSeq(s, p, q)[j] = s[p + j - 1]
      <4>1. \A j \in p..q : s[j] \in Characters
        BY <2>2, <2>3
      <4>2. QED
        BY <4>1, SubSeqProperties
    <3>3. \A j \in 1..q - p + 1 : t[p + j - 1] = s[p + j - 1]
      <4>1. \A j \in 1..q - p + 1 : p + j - 1 \in p..q
        OBVIOUS
      <4>2. \A j \in p..q : t[j] = s[j]
        BY <1>1, <2>3 DEF n
      <4>3. QED
        BY <4>1, <4>2
    <3>4. \A j \in 1..Len(SubSeq(t, p, q)) : j \in 1..q - p + 1
      BY <3>1
    <3>5. Len(SubSeq(t, p, q)) = Len(SubSeq(s, p, q))
      BY <3>1, <3>2
    <3>6. \A j \in 1..Len(SubSeq(t, p, q)) : SubSeq(t, p, q)[j] = SubSeq(s, p, q)[j]
      BY <3>1, <3>2, <3>3, <3>4
    <3>7. QED
      BY <3>1, <3>2, <3>5, <3>6, SeqEqual
  <2>4. \A j \in 1..i - 1 : j \in 1..n /\ j # i
    BY <2>1
  <2>5. \A j \in i + 1..n : j \in 1..n /\ j # i
    BY <2>1
  <2>6. SubSeq(t, 1, i - 1) = SubSeq(s, 1, i - 1)
    BY <2>1, <2>3, <2>4
  <2>7. SubSeq(t, i + 1, n) = SubSeq(s, i + 1, n)
    BY <2>1, <2>3, <2>5
  <2>8. QED
    BY <1>1, <2>6, <2>7 DEF n
<1>3. s = Append(a, s[i]) \o b /\ a \in Seq(Characters) /\ b \in Seq(Characters)
  BY AtPlace
<1>4. t = Append(a, c) \o b
  <2> HIDE DEF t
  <2>1. t = Append(SubSeq(t, 1, i - 1), t[i]) \o SubSeq(t, i + 1, Len(t))
    BY <1>1, AtPlace
  <2>2. QED
    BY <1>1, <1>2, <2>1
<1>5. s[i] \in Characters
  OBVIOUS
<1> HIDE DEF t, a, b
<1>6. Seen(Append(a, c)) = Seen(Append(a, s[i]))
  <2>1. /\ Seen(Append(a, c)) = Step(Seen(a), Low(c))
        /\ Seen(Append(a, s[i])) = Step(Seen(a), Low(s[i]))
    BY <1>3, <1>5, SeenStep
  <2>2. Step(Seen(a), Low(c)) = Step(Seen(a), Low(s[i]))
    OBVIOUS
  <2>3. QED
    BY <2>1, <2>2
<1>7. Append(a, c) \in Seq(Characters) /\ Append(a, s[i]) \in Seq(Characters)
  BY <1>3, <1>5
<1>8. Seen(Append(a, c) \o b) = Seen(Append(a, s[i]) \o b)
  BY <1>3, <1>6, <1>7, SeenAfter
<1>9. t \in Seq(Characters) /\ Shown(t) = Shown(s)
  BY <1>1, <1>3, <1>4, <1>8 DEF Shown
<1>10. QED
  BY <1>9 DEF t

-----------------------------------------------------------------------------
(* What a parser makes of a text is cleaned as the text.                   *)

\* An end that is trimmed is not seen, and nothing is trimmed to nothing.
LEMMA TrimmedShown ==
    ASSUME NEW m \in Seq(Characters)
    PROVE  /\ TrimRight(m) \in Seq(Characters)
           /\ Shown(TrimRight(m)) = Shown(m)
           /\ m \in Seq(Plain) => TrimRight(m) \in Seq(Plain)
<1>1. CASE m = <<>> \/ Last(m) # "space"
  BY <1>1 DEF TrimRight
<1>2. CASE m # <<>> /\ Last(m) = "space"
  <2>1. PICK r \in Seq(Characters), c \in Characters : m = Append(r, c)
    BY <1>2, SequenceEmptyOrAppend
  <2>2. Last(m) = c /\ Front(m) = r
    BY <2>1 DEF Last, Front
  <2>3. TrimRight(m) = r
    BY <1>2, <2>2 DEF TrimRight
  <2>4. Seen(m) = Gap(Seen(r)) /\ TrimRight(Gap(Seen(r))) = TrimRight(Seen(r))
    BY <1>2, <2>1, <2>2, SeenSpaces, CharacterFacts
  <2>5. m \in Seq(Plain) => r \in Seq(Plain)
    <3> DEFINE P == Plain
    <3> HIDE DEF P
    <3>1. m \in Seq(P) /\ m # <<>> => Front(m) \in Seq(P)
      BY DEF Front
    <3>2. QED
      BY <1>2, <2>2, <3>1 DEF P
  <2>6. QED
    BY <2>1, <2>3, <2>4, <2>5 DEF Shown
<1>3. QED
  BY <1>1, <1>2

\* What is seen is neat.
LEMMA SeenNeat ==
    ASSUME NEW s \in Seq(Characters)
    PROVE  Neat(Seen(s))
<1> DEFINE T == {t \in Seq(Characters) : Neat(Seen(t))}
<1>1. <<>> \in T
  BY SeenStep DEF Neat
<1>2. ASSUME NEW t \in Seq(Characters), NEW c \in Characters, t \in T
      PROVE  Append(t, c) \in T
  <2>1. Low(c) \in Characters /\ Seen(t) \in Seq(Characters)
    BY CharacterFacts, SeenStep
  <2>2. Neat(Step(Seen(t), Low(c)))
    BY <1>2, <2>1, StepNeat
  <2>3. QED
    BY <2>2, SeenStep
<1>3. Seq(Characters) \subseteq T
  <2> HIDE DEF T
  <2>1. QED
    BY <1>1, <1>2, TextInduction
<1>4. QED
  BY <1>3

\* A text of which something is seen is not blank.
LEMMA ShownBlank ==
    ASSUME NEW s \in Seq(Characters)
    PROVE  Shown(s) = <<>> <=> Seen(s) = <<>>
<1> DEFINE o == Seen(s)
<1>1. o \in Seq(Characters) /\ Neat(o)
  BY SeenStep, SeenNeat
<1>2. Shown(s) = TrimRight(o)
  BY DEF Shown
<1> HIDE DEF o
<1>3. CASE o # <<>> /\ Last(o) = "space"
  <2>1. PICK r \in Seq(Characters), c \in Characters : o = Append(r, c)
    BY <1>1, <1>3, SequenceEmptyOrAppend
  <2>2. Last(o) = c /\ Front(o) = r
    BY <2>1 DEF Last, Front
  <2>3. r # <<>>
    BY <1>1, <1>3, <2>1, <2>2, NeatAppend
  <2>4. QED
    BY <1>2, <1>3, <2>2, <2>3 DEF TrimRight, o
<1>4. CASE ~(o # <<>> /\ Last(o) = "space")
  BY <1>2, <1>4 DEF TrimRight, o
<1>5. QED
  BY <1>3, <1>4

Squeezed(s) == Squeeze(s, JsWhite)

\* The parser, one character more.
LEMMA SqueezedOne ==
    /\ Squeezed(<<>>) = <<>>
    /\ \A s \in Seq(Characters) :
          /\ Squeezed(s) \in Seq(Characters)
          /\ \A c \in Characters :
                /\ c \notin JsWhite => Squeezed(Append(s, c)) = Append(Squeezed(s), c)
                /\ c \in JsWhite =>
                      /\ \/ Squeezed(Append(s, c)) = Squeezed(s)
                         \/ /\ Squeezed(Append(s, c)) = Append(Squeezed(s), "space")
                            /\ Squeezed(s) # <<>>
                      /\ Seen(Squeezed(Append(s, c))) = Gap(Seen(Squeezed(s)))
<1>1. "space" \in Characters
  BY CharacterFacts
<1>2. /\ Squeezed(<<>>) = <<>>
      /\ \A t \in Seq(Characters) :
            /\ Squeezed(t) \in Seq(Characters)
            /\ \A c \in Characters : Squeezed(Append(t, c)) = Put(Squeezed(t), c, JsWhite)
  BY <1>1, SqueezeStep DEF Squeezed
<1>3. ASSUME NEW s \in Seq(Characters), NEW c \in Characters, c \in JsWhite
      PROVE  /\ \/ Squeezed(Append(s, c)) = Squeezed(s)
                \/ /\ Squeezed(Append(s, c)) = Append(Squeezed(s), "space")
                   /\ Squeezed(s) # <<>>
             /\ Seen(Squeezed(Append(s, c))) = Gap(Seen(Squeezed(s)))
  <2> DEFINE m == Squeezed(s)
             n == Squeezed(Append(s, c))
  <2>1. m \in Seq(Characters) /\ n = Put(m, c, JsWhite)
    BY <1>2
  <2> HIDE DEF m, n
  <2>2. CASE m = <<>>
    <3>1. n = m /\ Seen(m) = <<>> /\ Gap(<<>>) = <<>>
      BY <1>3, <2>1, <2>2, SeenStep DEF Put, Gap
    <3>2. QED
      BY <3>1 DEF m, n
  <2>3. CASE m # <<>> /\ Last(m) = "space"
    <3>1. PICK r \in Seq(Characters), d \in Characters : m = Append(r, d)
      BY <2>1, <2>3, SequenceEmptyOrAppend
    <3>2. d = "space"
      BY <2>3, <3>1 DEF Last
    <3>3. Seen(m) = Gap(Seen(r)) /\ Gap(Gap(Seen(r))) = Gap(Seen(r))
      BY <3>1, <3>2, SeenSpaces, CharacterFacts
    <3>4. n = m
      BY <1>3, <2>1, <2>3 DEF Put
    <3>5. QED
      BY <3>3, <3>4 DEF m, n
  <2>4. CASE m # <<>> /\ Last(m) # "space"
    <3>1. n = Append(m, "space")
      BY <1>3, <2>1, <2>4 DEF Put
    <3>2. Seen(Append(m, "space")) = Gap(Seen(m))
      BY <1>1, <2>1, SeenSpaces, CharacterFacts
    <3>3. QED
      BY <2>4, <3>1, <3>2 DEF m, n
  <2>5. QED
    BY <2>2, <2>3, <2>4
<1>4. \A s \in Seq(Characters), c \in Characters :
         c \notin JsWhite => Squeezed(Append(s, c)) = Append(Squeezed(s), c)
  BY <1>2 DEF Put
<1>5. QED
  BY <1>2, <1>3, <1>4

\* The parser sees what a reader sees, if it takes all white space for it, and
\* nothing else.
LEMMA SqueezedClear ==
    ASSUME NEW s \in Seq(Clear)
    PROVE  Seen(Squeezed(s)) = Seen(s)
<1> DEFINE T == {t \in Seq(Clear) : Seen(Squeezed(t)) = Seen(t)}
<1>1. /\ \A c \in Clear : c \in Characters /\ (c \in JsWhite <=> c \in White)
      /\ \A t \in Seq(Clear) : t \in Seq(Characters)
  <2>1. \A c \in Clear : c \in Characters /\ (c \in JsWhite <=> c \in White)
    BY DEF Clear, JsWhite, White, Ascii
  <2>2. QED
    BY <2>1
<1>2. <<>> \in T
  <2>1. <<>> \in Seq(Clear)
    OBVIOUS
  <2>2. QED
    BY <2>1, SqueezedOne
<1>3. ASSUME NEW t \in Seq(Clear), NEW c \in Clear, t \in T
      PROVE  Append(t, c) \in T
  <2>1. /\ t \in Seq(Characters) /\ c \in Characters /\ (c \in JsWhite <=> c \in White)
        /\ Append(t, c) \in Seq(Clear) /\ Seen(Squeezed(t)) = Seen(t)
    BY <1>1, <1>3
  <2>2. CASE c \in White
    BY <2>1, <2>2, SqueezedOne, SeenSpaces
  <2>3. CASE c \notin White
    <3>1. Squeezed(Append(t, c)) = Append(Squeezed(t), c) /\ Squeezed(t) \in Seq(Characters)
      BY <2>1, <2>3, SqueezedOne
    <3>2. QED
      BY <2>1, <3>1, SeenStep
  <2>4. QED
    BY <2>2, <2>3
<1>4. Seq(Clear) \subseteq T
  <2> HIDE DEF T
  <2>1. QED
    BY <1>2, <1>3, TextInduction
<1>5. QED
  BY <1>4

\* A byte order mark among it adds nothing to read, and takes nothing.
LEMMA SqueezedBlank ==
    ASSUME NEW s \in Seq(Characters \ {"nel"})
    PROVE  /\ Squeezed(s) \in Seq(Plain)
           /\ Seen(Squeezed(s)) = <<>> <=> Seen(s) = <<>>
<1> DEFINE C == Characters \ {"nel"}
           T == {t \in Seq(C) : /\ Squeezed(t) \in Seq(Plain)
                                /\ Seen(Squeezed(t)) = <<>> <=> Seen(t) = <<>>}
<1>1. /\ \A c \in C : /\ c \in Characters
                      /\ c \in JsWhite => c \in White \cup ZeroWidth
                      /\ c \notin JsWhite => c \in Plain /\ c \notin White
      /\ "space" \in Plain
  BY PlainIs DEF Plain, JsWhite, White, Ascii, ZeroWidth
<1>2. \A t \in Seq(C) : t \in Seq(Characters)
  BY <1>1
<1>3. <<>> \in T
  <2>1. <<>> \in Seq(C) /\ <<>> \in Seq(Plain) /\ <<>> \in Seq(Characters)
    OBVIOUS
  <2>2. QED
    BY <2>1, SqueezedOne
<1>4. ASSUME NEW t \in Seq(C), NEW c \in C, t \in T
      PROVE  Append(t, c) \in T
  <2> DEFINE m == Squeezed(t)
             n == Squeezed(Append(t, c))
  <2>1. /\ t \in Seq(Characters) /\ c \in Characters /\ m \in Seq(Characters)
        /\ m \in Seq(Plain) /\ (Seen(m) = <<>> <=> Seen(t) = <<>>)
        /\ Append(t, c) \in Seq(C)
    BY <1>1, <1>2, <1>4, SqueezedOne
  <2>2. \A o \in Seq(Characters) : /\ Gap(o) = <<>> <=> o = <<>>
                                   /\ \A d \in Characters : Append(o, d) # <<>>
    BY DEF Gap
  <2>3. CASE c \in JsWhite
    <3>1. (n = m \/ n = Append(m, "space")) /\ Seen(n) = Gap(Seen(m))
      BY <2>1, <2>3, SqueezedOne
    <3>2. Seen(Append(t, c)) = Gap(Seen(t)) \/ Seen(Append(t, c)) = Seen(t)
      BY <1>1, <2>1, <2>3, SeenSpaces
    <3>3. n \in Seq(Plain)
      <4> HIDE DEF m, n
      <4> DEFINE P == Plain
      <4>1. m \in Seq(P) /\ "space" \in P
        BY <1>1, <2>1
      <4> HIDE DEF P
      <4>2. Append(m, "space") \in Seq(P)
        BY <4>1
      <4>3. n \in Seq(P)
        BY <3>1, <4>1, <4>2
      <4>4. QED
        BY <4>3 DEF P
    <3> HIDE DEF m, n
    <3>4. Seen(n) = <<>> <=> Seen(Append(t, c)) = <<>>
      BY <2>1, <2>2, <3>1, <3>2, SeenStep
    <3>5. QED
      BY <2>1, <3>3, <3>4 DEF n
  <2>4. CASE c \notin JsWhite
    <3>1. n = Append(m, c) /\ c \in Plain
      BY <1>1, <2>1, <2>4, SqueezedOne
    <3>2. Low(c) \in White <=> c \in White
      BY <2>1, CharacterFacts
    <3>3. /\ Seen(n) = Step(Seen(m), Low(c)) /\ Seen(Append(t, c)) = Step(Seen(t), Low(c))
          /\ Low(c) \notin White
      BY <1>1, <2>1, <2>4, <3>1, <3>2, SeenStep
    <3>4. /\ Seen(m) \in Seq(Characters) /\ Seen(t) \in Seq(Characters) /\ Low(c) \in Characters
      BY <2>1, SeenStep, CharacterFacts
    <3>5. Step(Seen(m), Low(c)) = <<>> <=> Step(Seen(t), Low(c)) = <<>>
      BY <2>1, <2>2, <3>3, <3>4 DEF Step
    <3>6. n \in Seq(Plain)
      BY <2>1, <3>1
    <3>7. QED
      BY <2>1, <3>3, <3>5, <3>6
  <2>5. QED
    BY <2>3, <2>4
<1>5. Seq(C) \subseteq T
  <2> HIDE DEF T, C
  <2>1. QED
    BY <1>3, <1>4, TextInduction
<1>6. QED
  BY <1>5

\* Of what the parser finds nothing there is nothing to read.
LEMMA SqueezedNothing ==
    ASSUME NEW s \in Seq(Characters), TrimRight(Squeezed(s)) = <<>>
    PROVE  Seen(s) = <<>>
<1> DEFINE T == {t \in Seq(Characters) :
                    /\ Squeezed(t) = <<>> => Seen(t) = <<>>
                    /\ TrimRight(Squeezed(t)) = <<>> => Squeezed(t) = <<>>}
<1>1. \A c \in JsWhite : c \in White \cup ZeroWidth
  BY DEF JsWhite, White, Ascii, ZeroWidth
<1>2. <<>> \in T
  BY SqueezedOne, SeenStep
<1>3. ASSUME NEW t \in Seq(Characters), NEW c \in Characters, t \in T
      PROVE  Append(t, c) \in T
  <2> DEFINE m == Squeezed(t)
             n == Squeezed(Append(t, c))
             C == Characters
  <2>1. /\ m \in Seq(C) /\ Append(t, c) \in Seq(C)
        /\ m = <<>> => Seen(t) = <<>>
        /\ TrimRight(m) = <<>> => m = <<>>
    BY <1>3, SqueezedOne
  <2>2. \A d \in C : Append(m, d) # <<>> /\ Last(Append(m, d)) = d /\ Front(Append(m, d)) = m
    <3> HIDE DEF m, C
    <3> SUFFICES ASSUME NEW d \in C
                 PROVE  Append(m, d) # <<>> /\ Last(Append(m, d)) = d /\ Front(Append(m, d)) = m
      OBVIOUS
    <3>1. Append(m, d) # <<>> /\ Last(Append(m, d)) = d
      BY <2>1 DEF Last
    <3>2. Front(Append(m, d)) = m
      BY <2>1 DEF Front
    <3>3. QED
      BY <3>1, <3>2
  <2>3. CASE c \in JsWhite
    <3>1. n = m \/ (n = Append(m, "space") /\ m # <<>>)
      BY <2>3, SqueezedOne
    <3>2. Seen(Append(t, c)) = Gap(Seen(t)) \/ Seen(Append(t, c)) = Seen(t)
      BY <1>1, <2>3, SeenSpaces
    <3>3. "space" \in C /\ Gap(<<>>) = <<>>
      BY CharacterFacts DEF Gap
    <3> HIDE DEF m, n, C
    <3>4. TrimRight(n) = <<>> => n = <<>>
      BY <2>1, <2>2, <3>1, <3>3 DEF TrimRight
    <3>5. n = <<>> => Seen(Append(t, c)) = <<>>
      BY <2>1, <2>2, <3>1, <3>2, <3>3
    <3>6. QED
      BY <2>1, <3>4, <3>5 DEF n, C
  <2>4. CASE c \notin JsWhite
    <3>1. n = Append(m, c) /\ c \in C /\ c # "space"
      BY <2>4, SqueezedOne DEF JsWhite, Ascii
    <3> HIDE DEF m, n, C
    <3>2. n # <<>> /\ TrimRight(n) = n
      BY <2>2, <3>1 DEF TrimRight
    <3>3. QED
      BY <2>1, <3>2 DEF n, C
  <2>5. QED
    BY <2>3, <2>4
<1>4. Seq(Characters) \subseteq T
  <2> HIDE DEF T
  <2>1. QED
    BY <1>2, <1>3, TextInduction
<1>5. QED
  BY <1>4

\* What a reader sees of what the extension has parsed.
LEMMA TextOfShown ==
    ASSUME NEW s \in Seq(Characters)
    PROVE  /\ textOf(s) \in Seq(Characters)
           /\ textOf(s) = <<>> => Shown(s) = <<>>
           /\ s \in Seq(Clear) => Shown(textOf(s)) = Shown(s)
           /\ s \in Seq(Characters \ {"nel"}) =>
                 /\ textOf(s) \in Seq(Plain)
                 /\ Shown(textOf(s)) = <<>> <=> Shown(s) = <<>>
<1> DEFINE m == Squeezed(s)
<1>1. textOf(s) = TrimRight(m) /\ m \in Seq(Characters)
  BY SqueezedOne DEF textOf, Collapse, Squeezed
<1>2. textOf(s) = <<>> => Shown(s) = <<>>
  BY <1>1, SqueezedNothing, ShownBlank
<1>3. s \in Seq(Clear) => Shown(m) = Shown(s)
  BY SqueezedClear DEF Shown
<1>4. s \in Seq(Characters \ {"nel"}) =>
         m \in Seq(Plain) /\ (Shown(m) = <<>> <=> Shown(s) = <<>>)
  BY <1>1, SqueezedBlank, ShownBlank
<1> HIDE DEF m
<1>5. /\ textOf(s) \in Seq(Characters) /\ Shown(textOf(s)) = Shown(m)
      /\ m \in Seq(Plain) => textOf(s) \in Seq(Plain)
  BY <1>1, TrimmedShown
<1>6. QED
  BY <1>2, <1>3, <1>4, <1>5

-----------------------------------------------------------------------------
(* The site's name behind a title.                                         *)

\* Four characters behind a text, one by one.
LEMMA FourAppended ==
    ASSUME NEW S, NEW s \in Seq(S), NEW a \in S, NEW b \in S, NEW c \in S, NEW d \in S
    PROVE  s \o <<a, b, c, d>> = Append(Append(Append(Append(s, a), b), c), d)
<1> DEFINE u == <<a, b, c, d>>
           e1 == Append(<<>>, a)
           e2 == Append(e1, b)
           e3 == Append(e2, c)
           e4 == Append(e3, d)
<1>1. u \in Seq(S) /\ Len(u) = 4 /\ u[1] = a /\ u[2] = b /\ u[3] = c /\ u[4] = d
  OBVIOUS
<1>2. <<>> \in Seq(S) /\ Len(<<>>) = 0
  OBVIOUS
<1> HIDE DEF u
<1>3. e1 \in Seq(S) /\ Len(e1) = 1 /\ e1[1] = a
  BY <1>2, AppendProperties
<1> HIDE DEF e1
<1>4. e2 \in Seq(S) /\ Len(e2) = 2 /\ e2[1] = a /\ e2[2] = b
  <2>1. e1 \in Seq(S)
    BY <1>3
  <2>2. /\ e2 \in Seq(S) /\ Len(e2) = Len(e1) + 1 /\ e2[Len(e1) + 1] = b
        /\ \A i \in 1..Len(e1) : e2[i] = e1[i]
    BY <2>1, AppendProperties
  <2> HIDE DEF e2
  <2>3. QED
    BY <1>3, <2>2
<1> HIDE DEF e2
<1>5. e3 \in Seq(S) /\ Len(e3) = 3 /\ e3[1] = a /\ e3[2] = b /\ e3[3] = c
  <2>1. e2 \in Seq(S)
    BY <1>4
  <2>2. /\ e3 \in Seq(S) /\ Len(e3) = Len(e2) + 1 /\ e3[Len(e2) + 1] = c
        /\ \A i \in 1..Len(e2) : e3[i] = e2[i]
    BY <2>1, AppendProperties
  <2> HIDE DEF e3
  <2>3. QED
    BY <1>4, <2>2
<1> HIDE DEF e3
<1>6. e4 \in Seq(S) /\ Len(e4) = 4 /\ e4[1] = a /\ e4[2] = b /\ e4[3] = c /\ e4[4] = d
  <2>1. e3 \in Seq(S)
    BY <1>5
  <2>2. /\ e4 \in Seq(S) /\ Len(e4) = Len(e3) + 1 /\ e4[Len(e3) + 1] = d
        /\ \A i \in 1..Len(e3) : e4[i] = e3[i]
    BY <2>1, AppendProperties
  <2> HIDE DEF e4
  <2>3. QED
    BY <1>5, <2>2
<1> HIDE DEF e4
<1>7. u = e4
  <2>1. \A i \in 1..4 : u[i] = e4[i]
    BY <1>1, <1>6
  <2>2. QED
    BY <1>1, <1>6, <2>1, SeqEqual
<1>8. s \o e1 = Append(s, a)
  <2>1. s \o e1 = Append(s \o <<>>, a)
    BY <1>2, ConcatAppend DEF e1
  <2>2. QED
    BY <2>1, ConcatEmptySeq
<1>9. s \o e2 = Append(s \o e1, b)
  BY <1>3, ConcatAppend DEF e2
<1>10. s \o e3 = Append(s \o e2, c)
  BY <1>4, ConcatAppend DEF e3
<1>11. s \o e4 = Append(s \o e3, d)
  BY <1>5, ConcatAppend DEF e4
<1>12. QED
  BY <1>7, <1>8, <1>9, <1>10, <1>11 DEF u

\* The site's name is seen behind what was seen before.
LEMMA TagShown ==
    ASSUME NEW s \in Seq(Characters), NEW bar \in {"|", "-"}
    PROVE  /\ s \o <<"space", bar, "space", "LinkedIn">> \in Seq(Characters)
           /\ Shown(s) # <<>> =>
                 Shown(s \o <<"space", bar, "space", "LinkedIn">>)
                    = Shown(s) \o <<"space", bar, "space", "linkedin">>
<1> DEFINE C == Characters
           o == Seen(s)
           t1 == Append(s, "space")
           t2 == Append(t1, bar)
           t3 == Append(t2, "space")
           t4 == Append(t3, "LinkedIn")
<1>1. "space" \in C /\ bar \in C /\ "LinkedIn" \in C /\ "linkedin" \in C
  BY CharacterFacts
<1>2. s \o <<"space", bar, "space", "LinkedIn">> = t4
  BY <1>1, FourAppended
<1>3. t1 \in Seq(C) /\ t2 \in Seq(C) /\ t3 \in Seq(C) /\ t4 \in Seq(C)
  BY <1>1
<1>4. /\ Low("space") = "space" /\ Low(bar) = bar /\ Low("LinkedIn") = "linkedin"
      /\ "space" \in White /\ "space" \notin ZeroWidth
      /\ bar \notin White \cup ZeroWidth /\ "linkedin" \notin White \cup ZeroWidth
  BY <1>1, CharacterFacts
<1>5. o \in Seq(C) /\ Neat(o) /\ Gap(o) \in Seq(C)
  BY <1>1, SeenStep, SeenNeat, StepType
<1>6. Seen(t1) = Gap(o)
  BY <1>1, <1>4, SeenStep DEF Step
<1> HIDE DEF o, t1, t2, t3, t4
<1>7. Seen(t2) = Append(Gap(o), bar)
  BY <1>1, <1>3, <1>4, <1>6, SeenStep DEF Step, t2
<1>8. Seen(t3) = Append(Append(Gap(o), bar), "space")
  <2>1. Seen(t3) = Gap(Append(Gap(o), bar))
    BY <1>1, <1>3, <1>4, <1>7, SeenStep DEF Step, t3
  <2>2. Append(Gap(o), bar) # <<>> /\ Last(Append(Gap(o), bar)) = bar /\ bar # "space"
    BY <1>1, <1>5 DEF Last
  <2>3. QED
    BY <2>1, <2>2 DEF Gap
<1>9. Seen(t4) = Append(Append(Append(Gap(o), bar), "space"), "linkedin")
  BY <1>1, <1>3, <1>4, <1>8, SeenStep DEF Step, t4
<1>10. Shown(t4) = Seen(t4)
  <2>1. Append(Append(Gap(o), bar), "space") \in Seq(C)
    BY <1>1, <1>5
  <2>2. Last(Seen(t4)) = "linkedin"
    BY <1>1, <1>9, <2>1 DEF Last
  <2>3. QED
    BY <2>2 DEF Shown, TrimRight
<1>11. ASSUME Shown(s) # <<>>
       PROVE  Gap(o) = Append(TrimRight(o), "space") /\ TrimRight(o) \in Seq(C)
  <2>1. o # <<>>
    BY <1>11 DEF Shown, TrimRight, o
  <2>2. CASE Last(o) = "space"
    <3>1. PICK r \in Seq(C), c \in C : o = Append(r, c)
      BY <1>5, <2>1, SequenceEmptyOrAppend
    <3>2. Last(o) = c /\ Front(o) = r
      BY <3>1 DEF Last, Front
    <3>3. QED
      BY <2>1, <2>2, <3>1, <3>2 DEF Gap, TrimRight
  <2>3. CASE Last(o) # "space"
    BY <1>5, <2>1, <2>3 DEF Gap, TrimRight
  <2>4. QED
    BY <2>2, <2>3
<1>12. ASSUME Shown(s) # <<>>
       PROVE  Shown(t4) = Shown(s) \o <<"space", bar, "space", "linkedin">>
  <2> DEFINE w == TrimRight(o)
  <2>1. Shown(s) = w
    BY DEF Shown, o
  <2>2. w \in Seq(C) /\ Gap(o) = Append(w, "space")
    BY <1>11, <1>12
  <2>3. w \o <<"space", bar, "space", "linkedin">>
           = Append(Append(Append(Append(w, "space"), bar), "space"), "linkedin")
    <3> HIDE DEF w
    <3>1. QED
      BY <1>1, <2>2, FourAppended
  <2>4. QED
    BY <1>9, <1>10, <2>1, <2>2, <2>3
<1>13. QED
  BY <1>2, <1>3, <1>12

\* A suffix, character by character.
LEMMA SuffixIs ==
    ASSUME NEW S, NEW s \in Seq(S), NEW t \in Seq(S)
    PROVE  IsSuffix(s, t) <=>
              Len(s) <= Len(t) /\ \A i \in 1..Len(s) : s[i] = t[Len(t) - Len(s) + i]
<1> DEFINE n == Len(s)
           m == Len(t)
           rs == Reverse(s)
           rt == Reverse(t)
<1>1. n \in Nat /\ m \in Nat
  OBVIOUS
<1>2. /\ rs \in Seq(S) /\ Len(rs) = n /\ \A i \in 1..n : rs[i] = s[n - i + 1]
      /\ rt \in Seq(S) /\ Len(rt) = m /\ \A i \in 1..m : rt[i] = t[m - i + 1]
  <2>1. rs \in Seq(S) /\ Len(rs) = n /\ \A i \in 1..n : rs[i] = s[n - i + 1]
    BY DEF Reverse
  <2>2. rt \in Seq(S) /\ Len(rt) = m /\ \A i \in 1..m : rt[i] = t[m - i + 1]
    BY DEF Reverse
  <2>3. QED
    BY <2>1, <2>2
<1>3. IsSuffix(s, t) <=> n <= m /\ SubSeq(rs, 1, n) = SubSeq(rt, 1, n)
  BY <1>2 DEF IsSuffix, IsPrefix
<1> HIDE DEF n, m, rs, rt
<1>4. SubSeq(rs, 1, n) = rs
  <2>1. SubSeq(rs, 1, Len(rs)) = rs
    BY <1>2, SubSeqFull
  <2>2. QED
    BY <1>2, <2>1
<1>5. ASSUME n <= m
      PROVE  SubSeq(rt, 1, n) = rs <=> \A i \in 1..n : s[i] = t[m - n + i]
  <2>1. \A i \in 1..n : i \in 1..m /\ rt[i] \in S
    BY <1>1, <1>2, <1>5
  <2>2. /\ SubSeq(rt, 1, n) \in Seq(S)
        /\ Len(SubSeq(rt, 1, n)) = IF 1 <= n THEN n - 1 + 1 ELSE 0
        /\ \A i \in 1..n - 1 + 1 : SubSeq(rt, 1, n)[i] = rt[1 + i - 1]
    <3>1. 1 \in Int /\ n \in Int
      BY <1>1
    <3>2. QED
      BY <2>1, <3>1, SubSeqProperties
  <2>3. Len(SubSeq(rt, 1, n)) = n
    BY <1>1, <2>2
  <2>4. \A i \in 1..n : SubSeq(rt, 1, n)[i] = t[m - i + 1]
    <3>1. ASSUME NEW i \in 1..n
          PROVE  SubSeq(rt, 1, n)[i] = t[m - i + 1]
      <4>1. i \in 1..n - 1 + 1 /\ 1 + i - 1 = i
        BY <1>1
      <4>2. SubSeq(rt, 1, n)[i] = rt[i]
        BY <2>2, <4>1
      <4>3. QED
        BY <1>2, <2>1, <4>2
    <3>2. QED
      BY <3>1
  <2>5. SubSeq(rt, 1, n) = rs <=> \A i \in 1..n : SubSeq(rt, 1, n)[i] = rs[i]
    <3>1. ASSUME \A i \in 1..n : SubSeq(rt, 1, n)[i] = rs[i]
          PROVE  SubSeq(rt, 1, n) = rs
      <4>1. SubSeq(rt, 1, n) \in Seq(S) /\ rs \in Seq(S)
        BY <1>2, <2>2
      <4>2. Len(SubSeq(rt, 1, n)) = Len(rs)
        BY <1>2, <2>3
      <4>3. \A i \in 1..Len(SubSeq(rt, 1, n)) : SubSeq(rt, 1, n)[i] = rs[i]
        BY <2>3, <3>1
      <4>4. QED
        BY <4>1, <4>2, <4>3, SeqEqual
    <3>2. QED
      BY <3>1
  <2>6. SubSeq(rt, 1, n) = rs <=> \A i \in 1..n : t[m - i + 1] = s[n - i + 1]
    BY <1>2, <2>4, <2>5
  <2>7. ASSUME \A i \in 1..n : t[m - i + 1] = s[n - i + 1], NEW i \in 1..n
        PROVE  s[i] = t[m - n + i]
    <3> DEFINE j == n - i + 1
    <3>1. j \in 1..n /\ n - j + 1 = i /\ m - j + 1 = m - n + i
      BY <1>1
    <3>2. QED
      BY <2>7, <3>1
  <2>8. ASSUME \A i \in 1..n : s[i] = t[m - n + i], NEW i \in 1..n
        PROVE  t[m - i + 1] = s[n - i + 1]
    <3> DEFINE j == n - i + 1
    <3>1. j \in 1..n /\ m - n + j = m - i + 1
      BY <1>1
    <3>2. QED
      BY <2>8, <3>1
  <2>9. QED
    BY <2>6, <2>7, <2>8
<1>6. QED
  BY <1>3, <1>4, <1>5 DEF n, m

\* What is left of a title when a board's name is removed.
LEMMA StripSuffix ==
    ASSUME NEW x \in Seq(Characters), Tidy(x),
           NEW bar \in {"|", "-"},
           IsSuffix(<<"space", bar, "space", "linkedin">>, ToLower(x))
    PROVE  /\ Len(x) - 4 \in 1..Len(x)
           /\ stripBoardSuffix(x) \in Seq(Characters)
           /\ Tidy(stripBoardSuffix(x))
           /\ x \in Seq(Plain) => /\ stripBoardSuffix(x) = SubSeq(x, 1, Len(x) - 4)
                                 /\ stripBoardSuffix(x) \in Seq(Plain)
<1> DEFINE suffix == <<"space", bar, "space", "linkedin">>
           n == Len(x)
           k == n - 4
           y == SubSeq(x, 1, k)
<1>1. n \in Nat /\ DOMAIN x = 1..n /\ \A i \in 1..n : x[i] \in Characters
  OBVIOUS
<1>2. suffix \in Seq(Characters) /\ Len(suffix) = 4 /\ suffix[1] = "space"
  <2>1. "space" \in Characters /\ bar \in Characters /\ "linkedin" \in Characters
    BY CharacterFacts
  <2>2. QED
    BY <2>1
<1>3. IsSuffix(suffix, ToLower(x)) /\ suffix \in boardSuffixes
  BY DEF boardSuffixes
<1> HIDE DEF suffix
<1>4. ToLower(x) \in Seq(Characters) /\ Len(ToLower(x)) = n
      /\ \A i \in 1..n : ToLower(x)[i] = Low(x[i])
  BY LowerText
<1>5. 4 <= n /\ ToLower(x)[n - 4 + 1] = "space"
  <2>1. Len(suffix) <= Len(ToLower(x))
        /\ \A i \in 1..Len(suffix) : suffix[i] = ToLower(x)[Len(ToLower(x)) - Len(suffix) + i]
    BY <1>2, <1>3, <1>4, SuffixIs
  <2>2. QED
    BY <1>2, <1>4, <2>1
<1> HIDE DEF n
<1>6. k \in Nat /\ k + 1 \in 1..n /\ n - 4 + 1 = k + 1
  BY <1>1, <1>5
<1>7. x[k + 1] = "space"
  <2>1. Low(x[k + 1]) = "space" /\ x[k + 1] \in Characters
    BY <1>1, <1>4, <1>5, <1>6
  <2>2. QED
    BY <2>1, CharacterFacts
<1>8. \A i \in 1..n : /\ x[i] \notin {"tab", "nbsp"} \cup ZeroWidth
                      /\ x[i] = "space" => i \notin {1, n} /\ x[i - 1] # "space"
  BY <1>1 DEF Tidy, n
<1>9. k + 1 # 1 /\ x[(k + 1) - 1] # "space"
  BY <1>6, <1>7, <1>8
<1>10. k \in 1..n /\ x[k] # "space" /\ \A i \in 1..k : i \in 1..n
  BY <1>1, <1>6, <1>9
<1>11. y \in Seq(Characters) /\ Len(y) = k /\ \A i \in 1..k : y[i] = x[i]
  <2> HIDE DEF k
  <2>1. 1 \in Int /\ k \in Int /\ 1 <= k
    BY <1>6, <1>10
  <2>2. \A i \in 1..k : x[i] \in Characters
    BY <1>1, <1>10
  <2>3. /\ y \in Seq(Characters)
        /\ Len(y) = IF 1 <= k THEN k - 1 + 1 ELSE 0
        /\ \A i \in 1..k - 1 + 1 : y[i] = x[1 + i - 1]
    BY <2>1, <2>2, SubSeqProperties
  <2>4. ASSUME NEW i \in 1..k
        PROVE  y[i] = x[i]
    <3>1. i \in 1..k - 1 + 1 /\ 1 + i - 1 = i
      BY <2>1
    <3>2. QED
      BY <2>3, <3>1
  <2>5. QED
    BY <2>1, <2>3, <2>4
<1> HIDE DEF y, k
<1>12. Tidy(y)
  <2>1. DOMAIN y = 1..k
    BY <1>11
  <2>2. ASSUME NEW i \in 1..k
        PROVE  /\ y[i] \notin {"tab", "nbsp"} \cup ZeroWidth
               /\ y[i] = "space" => i \notin {1, k} /\ y[i - 1] # "space"
    <3>1. i \in 1..n /\ y[i] = x[i] /\ (i # 1 => i - 1 \in 1..k)
      BY <1>6, <1>10, <1>11
    <3>2. QED
      BY <1>8, <1>10, <1>11, <3>1
  <2>3. QED
    BY <1>11, <2>1, <2>2 DEF Tidy
<1>13. stripBoardSuffix(x) = TrimSpace(y)
  BY <1>3 DEF stripBoardSuffix, y, k, n
<1>14. stripBoardSuffix(x) \in Seq(Characters) /\ Tidy(stripBoardSuffix(x))
  BY <1>11, <1>12, <1>13, TidyIs, TrimTidy
<1>15. x \in Seq(Plain) => y \in Seq(Plain)
  <2>1. x \in Seq(Plain) => \A i \in 1..n : x[i] \in Plain
    BY <1>1
  <2>2. x \in Seq(Plain) => \A i \in 1..k : y[i] \in Plain
    BY <1>10, <1>11, <2>1
  <2> DEFINE P == Plain
  <2> HIDE DEF P
  <2>3. (\A i \in 1..k : y[i] \in P) => y \in Seq(P)
    BY <1>6, <1>11
  <2>4. QED
    BY <2>2, <2>3 DEF P
<1>16. x \in Seq(Plain) => stripBoardSuffix(x) = y
  BY <1>12, <1>13, <1>15, TidyTrimmed
<1>17. QED
  BY <1>10, <1>14, <1>15, <1>16 DEF y, k, n

\* stripBoardSuffix leaves tidy texts.
LEMMA StripTidy ==
    ASSUME NEW x \in Seq(Characters), Tidy(x)
    PROVE  /\ stripBoardSuffix(x) \in Seq(Characters) /\ Tidy(stripBoardSuffix(x))
           /\ x \in Seq(Plain) => (stripBoardSuffix(x) = <<>> <=> x = <<>>)
<1>1. CASE \E suffix \in boardSuffixes : IsSuffix(suffix, ToLower(x))
  <2>1. PICK bar \in {"|", "-"} : IsSuffix(<<"space", bar, "space", "linkedin">>, ToLower(x))
    BY <1>1 DEF boardSuffixes
  <2> DEFINE y == stripBoardSuffix(x)
             k == Len(x) - 4
  <2>2. /\ k \in 1..Len(x) /\ y \in Seq(Characters) /\ Tidy(y)
        /\ x \in Seq(Plain) => y = SubSeq(x, 1, k)
    BY <2>1, StripSuffix
  <2> HIDE DEF y, k
  <2>3. x # <<>> /\ SubSeq(x, 1, k) # <<>>
    BY <2>2
  <2>4. QED
    BY <2>2, <2>3 DEF y
<1>2. CASE ~\E suffix \in boardSuffixes : IsSuffix(suffix, ToLower(x))
  BY <1>2 DEF stripBoardSuffix
<1>3. QED
  BY <1>1, <1>2

\* Of a tagged title the title is left.
LEMMA StripTagged ==
    ASSUME NEW x \in Seq(Plain), Tidy(x), NEW w \in Seq(Characters), NEW bar \in {"|", "-"},
           ToLower(x) = w \o <<"space", bar, "space", "linkedin">>
    PROVE  normalize(stripBoardSuffix(x)) = w
<1> DEFINE suffix == <<"space", bar, "space", "linkedin">>
           l == ToLower(x)
           k == Len(w)
           y == stripBoardSuffix(x)
<1>0. x \in Seq(Characters)
  BY PlainIs
<1>1. suffix \in Seq(Characters) /\ Len(suffix) = 4
  <2>1. "space" \in Characters /\ bar \in Characters /\ "linkedin" \in Characters
    BY CharacterFacts
  <2>2. QED
    BY <2>1
<1>2. l = w \o suffix
  OBVIOUS
<1> HIDE DEF suffix
<1>3. k \in Nat /\ l \in Seq(Characters) /\ Len(l) = Len(x) /\ \A i \in 1..Len(x) : l[i] = Low(x[i])
  <2>1. \A z \in Seq(Characters) : /\ ToLower(z) \in Seq(Characters) /\ Len(ToLower(z)) = Len(z)
                                   /\ \A i \in 1..Len(z) : ToLower(z)[i] = Low(z[i])
    BY LowerText
  <2>2. k \in Nat
    OBVIOUS
  <2>3. QED
    BY <1>0, <2>1, <2>2, Zenon
<1> HIDE DEF l
<1>4. /\ Len(l) = k + 4
      /\ \A i \in 1..k + 4 : l[i] = IF i <= k THEN w[i] ELSE suffix[i - k]
  <2>1. suffix \in Seq(Characters)
    BY <1>1
  <2>2. /\ Len(w \o suffix) = Len(w) + Len(suffix)
        /\ \A i \in 1..Len(w) + Len(suffix) :
              (w \o suffix)[i] = IF i <= Len(w) THEN w[i] ELSE suffix[i - Len(w)]
    BY <2>1, ConcatProperties
  <2>3. QED
    BY <1>1, <1>2, <2>2
<1> HIDE DEF k
<1>5. IsSuffix(suffix, l)
  <2>1. ASSUME NEW i \in 1..4
        PROVE  suffix[i] = l[Len(l) - 4 + i]
    <3>1. Len(l) - 4 + i = k + i /\ k + i \in 1..k + 4 /\ ~(k + i <= k) /\ (k + i) - k = i
      BY <1>3, <1>4
    <3>2. QED
      BY <1>4, <3>1
  <2>2. 4 <= Len(l)
    BY <1>3, <1>4
  <2>3. QED
    BY <1>1, <1>3, <2>1, <2>2, SuffixIs
<1>6. /\ y = SubSeq(x, 1, Len(x) - 4) /\ y \in Seq(Plain) /\ y \in Seq(Characters) /\ Tidy(y)
      /\ Len(x) - 4 \in 1..Len(x)
  BY <1>0, <1>5, StripSuffix DEF suffix, l
<1>7. Len(x) - 4 = k /\ k \in 1..Len(x) /\ Len(x) \in Nat
  BY <1>3, <1>4, <1>6
<1>8. Len(y) = k /\ \A i \in 1..k : y[i] = x[i] /\ i \in 1..Len(x) /\ i \in 1..k + 4 /\ i <= k
  <2> HIDE DEF y
  <2>1. /\ Len(y) = IF 1 <= k THEN k - 1 + 1 ELSE 0
        /\ \A i \in 1..k - 1 + 1 : y[i] = x[1 + i - 1]
    <3>1. 1 \in Int /\ k \in Int /\ \A i \in 1..k : x[i] \in Characters
      BY <1>0, <1>7
    <3>2. y = SubSeq(x, 1, k)
      BY <1>6, <1>7
    <3>3. QED
      BY <3>1, <3>2, SubSeqProperties
  <2>2. ASSUME NEW i \in 1..k
        PROVE  y[i] = x[i] /\ i \in 1..Len(x) /\ i \in 1..k + 4 /\ i <= k
    <3>1. i \in 1..k - 1 + 1 /\ 1 + i - 1 = i
      BY <1>3
    <3>2. y[i] = x[i]
      BY <2>1, <3>1
    <3>3. i \in 1..Len(x) /\ i \in 1..k + 4 /\ i <= k
      BY <1>7
    <3>4. QED
      BY <3>2, <3>3
  <2>3. QED
    BY <1>7, <2>1, <2>2
<1> HIDE DEF y
<1>9. ToLower(y) = w
  <2>1. /\ ToLower(y) \in Seq(Characters) /\ Len(ToLower(y)) = k
        /\ \A i \in 1..k : ToLower(y)[i] = Low(y[i])
    BY <1>6, <1>8, LowerText
  <2>2. \A i \in 1..k : ToLower(y)[i] = w[i]
    BY <1>3, <1>4, <1>8, <2>1
  <2>3. Len(w) = k
    BY DEF k
  <2>4. QED
    BY <2>1, <2>2, <2>3, SeqEqual
<1>10. QED
  BY <1>6, <1>9, TidyTrimmed DEF y

-----------------------------------------------------------------------------
(* Addresses.                                                              *)

\* Query, one parameter more.
LEMMA QueryOne ==
    ASSUME NEW k
    PROVE  /\ Query(<<>>, k) = <<>>
           /\ \A q \in Seq(Parameters) :
                 /\ Query(q, k) \in Seq(Parameters)
                 /\ \A p \in Parameters : Query(Append(q, p), k) = Queried(Query(q, k), p, k)
BY QueryStep

\* What Query finds is of that key, and is found again.
LEMMA QueryTwice ==
    ASSUME NEW q \in Seq(Parameters), NEW k
    PROVE  /\ Query(q, k) \in Seq(Parameters)
           /\ Query(Query(q, k), k) = Query(q, k)
           /\ \A i \in 1..Len(Query(q, k)) : Query(q, k)[i].key = k
<1> DEFINE T == {r \in Seq(Parameters) :
                    /\ Query(Query(r, k), k) = Query(r, k)
                    /\ \A i \in 1..Len(Query(r, k)) : Query(r, k)[i].key = k}
<1>1. <<>> \in T
  BY QueryOne
<1>2. ASSUME NEW r \in Seq(Parameters), NEW p \in Parameters, r \in T
      PROVE  Append(r, p) \in T
  <2> DEFINE o == Query(r, k)
  <2>1. /\ o \in Seq(Parameters) /\ Query(Append(r, p), k) = Queried(o, p, k)
        /\ Query(o, k) = o /\ \A i \in 1..Len(o) : o[i].key = k
    BY <1>2, QueryOne
  <2> SUFFICES /\ Query(Query(Append(r, p), k), k) = Query(Append(r, p), k)
               /\ \A i \in 1..Len(Query(Append(r, p), k)) : Query(Append(r, p), k)[i].key = k
    OBVIOUS
  <2> HIDE DEF o
  <2>2. CASE p.parses /\ p.key = k
    <3>1. Query(Append(r, p), k) = Append(o, p)
      BY <2>1, <2>2 DEF Queried
    <3>2. Query(Append(o, p), k) = Append(o, p)
      <4>1. Query(Append(o, p), k) = Queried(Query(o, k), p, k)
        BY <2>1, QueryOne
      <4>2. QED
        BY <2>1, <2>2, <4>1 DEF Queried
    <3>3. \A i \in 1..Len(Append(o, p)) : Append(o, p)[i].key = k
      <4>1. /\ Len(Append(o, p)) = Len(o) + 1 /\ Append(o, p)[Len(o) + 1] = p
            /\ \A i \in 1..Len(o) : Append(o, p)[i] = o[i]
            /\ Len(o) \in Nat
        BY <2>1
      <4>2. QED
        BY <2>1, <2>2, <4>1
    <3>4. QED
      BY <3>1, <3>2, <3>3
  <2>3. CASE ~(p.parses /\ p.key = k)
    BY <2>1, <2>3 DEF Queried
  <2>4. QED
    BY <2>2, <2>3
<1>3. Seq(Parameters) \subseteq T
  <2> HIDE DEF T
  <2>1. QED
    BY <1>1, <1>2, TextInduction
<1>4. QED
  BY <1>3, QueryOne

\* A parameter of another key, before or behind the others, changes nothing.
LEMMA QueryAdded ==
    ASSUME NEW q \in Seq(Parameters), NEW p \in Parameters, NEW k, p.key # k
    PROVE  Query(<<p>> \o q, k) = Query(q, k) /\ Query(q \o <<p>>, k) = Query(q, k)
<1> DEFINE d == <<p>>
           T == {r \in Seq(Parameters) : Query(d \o r, k) = Query(r, k)}
<1>1. d \in Seq(Parameters) /\ d = Append(<<>>, p) /\ <<>> \in Seq(Parameters)
  <2>1. <<>> \in Seq(Parameters)
    OBVIOUS
  <2>2. Append(<<>>, p) = <<>> \o d
    BY <2>1, AppendIsConcat
  <2>3. d \in Seq(Parameters)
    OBVIOUS
  <2> HIDE DEF d
  <2>4. <<>> \o d = d
    BY <2>3, ConcatEmptySeq
  <2>5. QED
    BY <2>1, <2>2, <2>3, <2>4
<1>5. q \o d = Append(q, p)
  BY AppendIsConcat
<1> HIDE DEF d
<1>2. Query(d, k) = Query(<<>>, k)
  BY <1>1, QueryOne DEF Queried
<1>3. <<>> \in T
  <2>1. d \o <<>> = d
    BY <1>1, ConcatEmptySeq
  <2>2. QED
    BY <1>1, <1>2, <2>1
<1>4. ASSUME NEW r \in Seq(Parameters), NEW c \in Parameters, r \in T
      PROVE  Append(r, c) \in T
  <2>1. d \o r \in Seq(Parameters) /\ d \o Append(r, c) = Append(d \o r, c)
    BY <1>1, ConcatAppend
  <2>2. Query(Append(d \o r, c), k) = Queried(Query(d \o r, k), c, k)
    BY <2>1, QueryOne
  <2>3. Query(Append(r, c), k) = Queried(Query(r, k), c, k)
    BY QueryOne
  <2>4. Append(r, c) \in Seq(Parameters)
    OBVIOUS
  <2>5. QED
    BY <1>4, <2>1, <2>2, <2>3, <2>4
<1>6. Seq(Parameters) \subseteq T
  <2> HIDE DEF T
  <2>1. QED
    BY <1>3, <1>4, TextInduction
<1>7. Query(Append(q, p), k) = Query(q, k)
  BY QueryOne DEF Queried
<1>8. QED
  BY <1>5, <1>6, <1>7 DEF d

\* What is encoded is what was not tracking.
LEMMA EncodeIs ==
    ASSUME NEW q \in Seq(Parameters)
    PROVE  Encode(q) = Query(q, "id")
<1> DEFINE parts == [k \in DOMAIN Keys |->
                        IF Keys[k] \in trackingParams THEN <<>> ELSE Query(q, Keys[k])]
           o == Query(q, "id")
<1>1. DOMAIN Keys = 1..3 /\ Keys[1] = "id" /\ Keys[2] = "ref" /\ Keys[3] = "utm_source"
  BY DEF Keys
<1>2. o \in Seq(Parameters)
  BY QueryTwice
<1>3. DOMAIN parts = 1..3 /\ parts[1] = o /\ parts[2] = <<>> /\ parts[3] = <<>>
  BY <1>1 DEF trackingParams
<1>4. Encode(q) = FlattenSeq(parts)
  BY DEF Encode
<1>5. Len(parts) = 3
  <2>1. parts = [k \in 1..3 |-> parts[k]]
    BY <1>1
  <2> HIDE DEF parts
  <2>2. QED
    BY <2>1
<1> HIDE DEF parts, o
<1> DEFINE f == CHOOSE g : g = [i \in 1..3 |-> IF i = 1 THEN parts[i] ELSE g[i - 1] \o parts[i]]
<1>6. FlattenSeq(parts) = f[3]
  <2>1. ~(Len(parts) = 0)
    BY <1>5
  <2>2. FlattenSeq(parts)
           = (CHOOSE g : g = [i \in 1..Len(parts) |->
                                IF i = 1 THEN parts[i] ELSE g[i - 1] \o parts[i]])[Len(parts)]
    BY <2>1, Zenon DEF FlattenSeq
  <2>3. QED
    BY <1>5, <2>2, Zenon
<1>7. o \o <<>> = o
  BY <1>2, ConcatEmptySeq
<1>8. f = [i \in 1..3 |-> IF i = 1 THEN parts[i] ELSE f[i - 1] \o parts[i]]
  <2> DEFINE g == [i \in 1..3 |-> o]
  <2>1. ASSUME NEW i \in 1..3
        PROVE  g[i] = IF i = 1 THEN parts[i] ELSE g[i - 1] \o parts[i]
    <3>1. i = 1 \/ i = 2 \/ i = 3
      OBVIOUS
    <3>2. CASE i = 1
      BY <1>3, <3>2
    <3>3. CASE i = 2
      <4>1. i # 1 /\ g[i] = o /\ g[i - 1] = o /\ parts[i] = <<>>
        BY <1>3, <3>3
      <4>2. QED
        BY <1>7, <4>1, Zenon
    <3>4. CASE i = 3
      <4>1. i # 1 /\ g[i] = o /\ g[i - 1] = o /\ parts[i] = <<>>
        BY <1>3, <3>4
      <4>2. QED
        BY <1>7, <4>1, Zenon
    <3>5. QED
      BY <3>1, <3>2, <3>3, <3>4
  <2>2. g = [i \in 1..3 |-> IF i = 1 THEN parts[i] ELSE g[i - 1] \o parts[i]]
    BY <2>1
  <2> HIDE DEF g
  <2>3. QED
    BY <2>2, Zenon
<1> HIDE DEF f
<1>9. f[1] = o /\ f[2] = f[1] \o <<>> /\ f[3] = f[2] \o <<>>
  <2>1. \A i \in 1..3 : f[i] = IF i = 1 THEN parts[i] ELSE f[i - 1] \o parts[i]
    BY <1>8, Zenon
  <2>2. 1 \in 1..3 /\ 2 \in 1..3 /\ 3 \in 1..3 /\ 2 - 1 = 1 /\ 3 - 1 = 2 /\ 2 # 1 /\ 3 # 1
    OBVIOUS
  <2>3. f[1] = parts[1]
    BY <2>1, <2>2
  <2>4. f[2] = f[2 - 1] \o parts[2]
    BY <2>1, <2>2, Zenon
  <2>5. f[3] = f[3 - 1] \o parts[3]
    BY <2>1, <2>2, Zenon
  <2>6. QED
    BY <1>3, <2>2, <2>3, <2>4, <2>5, Zenon
<1>10. QED
  BY <1>4, <1>6, <1>7, <1>9 DEF o

-----------------------------------------------------------------------------
(* The key.                                                                *)

\* No separator.
NoBar(s) == \A i \in DOMAIN s : s[i] # "|"

IsPayload(p, S, c, t) ==
    /\ p \in Seq(S \cup {"|"})
    /\ Len(p) = Len(c) + 1 + Len(t)
    /\ \A i \in 1..Len(c) : p[i] = c[i]
    /\ p[Len(c) + 1] = "|"
    /\ \A i \in 1..Len(t) : p[Len(c) + 1 + i] = t[i]

\* What stands where in the payload.
LEMMA PayloadAt ==
    ASSUME NEW S, NEW c \in Seq(S), NEW t \in Seq(S)
    PROVE  IsPayload(Payload(c, t), S, c, t)
<1> DEFINE d == c \o <<"|">>
<1>1. /\ c \in Seq(S \cup {"|"}) /\ t \in Seq(S \cup {"|"})
      /\ <<"|">> \in Seq(S \cup {"|"}) /\ Len(<<"|">>) = 1 /\ <<"|">>[1] = "|"
  OBVIOUS
<1>2. /\ d \in Seq(S \cup {"|"}) /\ Len(d) = Len(c) + 1
      /\ \A i \in 1..Len(c) : d[i] = c[i]
      /\ d[Len(c) + 1] = "|"
  BY <1>1
<1>3. Payload(c, t) = d \o t
  BY DEF Payload
<1> HIDE DEF d
<1>4. /\ d \o t \in Seq(S \cup {"|"}) /\ Len(d \o t) = Len(d) + Len(t)
      /\ \A i \in 1..Len(d) : (d \o t)[i] = d[i]
      /\ \A i \in 1..Len(t) : (d \o t)[Len(d) + i] = t[i]
  BY <1>1, <1>2
<1>5. QED
  BY <1>1, <1>2, <1>3, <1>4 DEF IsPayload

\* Neither company is the longer one: the first separator ends both.
LEMMA NotLonger ==
    ASSUME NEW S, NEW c \in Seq(S), NEW t \in Seq(S), NEW d \in Seq(S), NEW u \in Seq(S),
           NoBar(d), Payload(c, t) = Payload(d, u)
    PROVE  Len(d) <= Len(c)
<1> SUFFICES ASSUME Len(c) < Len(d) PROVE FALSE
  OBVIOUS
<1>1. IsPayload(Payload(c, t), S, c, t) /\ IsPayload(Payload(d, u), S, d, u)
  BY PayloadAt
<1>2. Payload(c, t)[Len(c) + 1] = "|"
  BY <1>1 DEF IsPayload
<1>3. \A i \in 1..Len(d) : Payload(d, u)[i] = d[i]
  BY <1>1 DEF IsPayload
<1>4. Len(c) + 1 \in 1..Len(d)
  OBVIOUS
<1>5. d[Len(c) + 1] = "|"
  BY <1>2, <1>3, <1>4
<1>6. QED
  BY <1>4, <1>5 DEF NoBar

\* Equal payloads are of equal texts, if no company has the separator in it.
LEMMA PayloadSeparates ==
    ASSUME NEW S, NEW c \in Seq(S), NEW t \in Seq(S), NEW d \in Seq(S), NEW u \in Seq(S),
           NoBar(c), NoBar(d), Payload(c, t) = Payload(d, u)
    PROVE  c = d /\ t = u
<1>1. Len(c) = Len(d)
  <2>1. Len(d) <= Len(c) /\ Len(c) <= Len(d)
    BY NotLonger
  <2>2. QED
    BY <2>1
<1>2. IsPayload(Payload(c, t), S, c, t) /\ IsPayload(Payload(c, t), S, d, u)
  BY PayloadAt
<1> DEFINE p == Payload(c, t)
<1>3. /\ Len(p) = Len(c) + 1 + Len(t) /\ Len(p) = Len(c) + 1 + Len(u)
      /\ \A i \in 1..Len(c) : p[i] = c[i] /\ p[i] = d[i]
      /\ \A i \in 1..Len(t) : p[Len(c) + 1 + i] = t[i]
      /\ \A i \in 1..Len(u) : p[Len(c) + 1 + i] = u[i]
  BY <1>1, <1>2 DEF IsPayload
<1>4. Len(t) = Len(u)
  <2> HIDE DEF p
  <2>1. Len(c) \in Nat /\ Len(t) \in Nat /\ Len(u) \in Nat
    OBVIOUS
  <2>2. QED
    BY <1>3, <2>1
<1>5. \A i \in 1..Len(c) : c[i] = d[i]
  BY <1>3
<1>6. ASSUME NEW i \in 1..Len(t)
      PROVE  t[i] = u[i]
  <2> HIDE DEF p
  <2>1. p[Len(c) + 1 + i] = t[i] /\ p[Len(c) + 1 + i] = u[i]
    BY <1>3, <1>4
  <2>2. QED
    BY <2>1
<1> HIDE DEF p
<1>7. c = d
  BY <1>1, <1>5, SeqEqual
<1>8. t = u
  BY <1>4, <1>6, SeqEqual
<1>9. QED
  BY <1>7, <1>8

\* TrimSpace takes nothing but what stands at the ends.
LEMMA TrimNoBar ==
    ASSUME NEW S, NEW s \in Seq(S)
    PROVE  TrimSpace(s) \in Seq(S) /\ (NoBar(s) => NoBar(TrimSpace(s)))
<1> DEFINE solid == {i \in DOMAIN s : s[i] \notin White}
           trimmed == TrimSpace(s)
<1>1. CASE solid = {}
  <2>1. trimmed = <<>>
    BY <1>1 DEF TrimSpace
  <2> HIDE DEF trimmed
  <2>2. trimmed \in Seq(S) /\ NoBar(trimmed)
    BY <2>1 DEF NoBar
  <2>3. QED
    BY <2>2 DEF trimmed
<1>2. CASE solid # {}
  <2>1. solid \in SUBSET Nat /\ solid \in SUBSET (0..Len(s)) /\ Len(s) \in Nat
    OBVIOUS
  <2>2. Min(solid) \in DOMAIN s /\ Max(solid) \in DOMAIN s
    BY <1>2, <2>1, MinOf, MaxOf
  <2>3. trimmed = SubSeq(s, Min(solid), Max(solid))
    BY <1>2 DEF TrimSpace
  <2> DEFINE m == Min(solid)
             k == Max(solid)
  <2> HIDE DEF trimmed, m, k, solid
  <2>4. m \in 1..Len(s) /\ k \in 1..Len(s) /\ trimmed = SubSeq(s, m, k)
    BY <2>2, <2>3 DEF m, k
  <2>5. /\ trimmed \in Seq(S)
        /\ \A i \in DOMAIN trimmed :
              i + m - 1 \in DOMAIN s /\ trimmed[i] = s[i + m - 1]
    BY <2>4
  <2>6. NoBar(s) => NoBar(trimmed)
    BY <2>5 DEF NoBar
  <2>7. QED
    BY <2>5, <2>6 DEF trimmed
<1>3. QED
  BY <1>1, <1>2

\* What normalize leaves of a text without separator has none.
LEMMA NormalizeNoBar ==
    ASSUME NEW S, NEW s \in Seq(S)
    PROVE  /\ normalize(s) \in Seq(S \cup {"a", "linkedin"})
           /\ NoBar(s) => NoBar(normalize(s))
<1> DEFINE trimmed == TrimSpace(s)
<1>1. trimmed \in Seq(S) /\ (NoBar(s) => NoBar(trimmed))
  BY TrimNoBar
<1>2. normalize(s) = ToLower(trimmed)
  BY DEF normalize
<1> HIDE DEF trimmed
<1>3. DOMAIN LowerOf = {"A", "LinkedIn"} /\ LowerOf["A"] = "a" /\ LowerOf["LinkedIn"] = "linkedin"
  BY DEF LowerOf
<1>4. \A i \in DOMAIN trimmed :
         ToLower(trimmed)[i] \in S \cup {"a", "linkedin"}
         /\ (trimmed[i] # "|" => ToLower(trimmed)[i] # "|")
  BY <1>1, <1>3 DEF ToLower
<1>5. ToLower(trimmed) \in Seq(S \cup {"a", "linkedin"}) /\ DOMAIN ToLower(trimmed) = DOMAIN trimmed
  <2>1. ToLower(trimmed) = [i \in 1..Len(trimmed) |-> ToLower(trimmed)[i]]
    BY <1>1 DEF ToLower
  <2>2. \A i \in 1..Len(trimmed) : ToLower(trimmed)[i] \in S \cup {"a", "linkedin"}
    BY <1>1, <1>4
  <2> DEFINE l == ToLower(trimmed)
             n == Len(trimmed)
  <2>3. /\ l = [i \in 1..n |-> l[i]] /\ n \in Nat
        /\ \A i \in 1..n : l[i] \in S \cup {"a", "linkedin"}
        /\ DOMAIN trimmed = 1..n
    BY <1>1, <2>1, <2>2
  <2> HIDE DEF l, n
  <2>4. l \in [1..n -> S \cup {"a", "linkedin"}]
    BY <2>3
  <2>5. l \in Seq(S \cup {"a", "linkedin"}) /\ DOMAIN l = DOMAIN trimmed
    BY <2>3, <2>4
  <2>6. QED
    BY <2>5 DEF l
<1>6. QED
  BY <1>1, <1>2, <1>4, <1>5 DEF NoBar

\* Two submissions have the same key only if they are of the same user, the
\* same company and the same title, up to case and surrounding space, unless
\* the separator of Key occurs in a company.
THEOREM KeyTellsApart ==
    ASSUME NEW S, NEW user, NEW other,
           NEW company \in Seq(S), NEW title \in Seq(S),
           NEW company2 \in Seq(S), NEW title2 \in Seq(S),
           NoBar(company), NoBar(company2),
           Key(user, company, title) = Key(other, company2, title2)
    PROVE  /\ user = other
           /\ normalize(company) = normalize(company2)
           /\ normalize(title) = normalize(title2)
<1>1. /\ user = other
      /\ Payload(normalize(company), normalize(title))
            = Payload(normalize(company2), normalize(title2))
  BY DEF Key
<1> DEFINE T == S \cup {"a", "linkedin"}
<1>2. /\ normalize(company) \in Seq(T) /\ normalize(title) \in Seq(T)
      /\ normalize(company2) \in Seq(T) /\ normalize(title2) \in Seq(T)
      /\ NoBar(normalize(company)) /\ NoBar(normalize(company2))
  BY NormalizeNoBar
<1> HIDE DEF T
<1>3. QED
  BY <1>1, <1>2, PayloadSeparates

-----------------------------------------------------------------------------
(* The inductive invariant.                                                *)

Texts == Seq(Characters)
AnyPage == [title : Texts, company : Texts, url : Addresses]

\* A page shows what its posting says, and the site's name behind its title
\* at most.
PageInv ==
    /\ posting \in Postings
    /\ noise \in 0..MaxNoise
    /\ tagged \in BOOLEAN
    /\ parsed \in BOOLEAN
    /\ page \in AnyPage
    /\ Shown(page.company) = Written(posting.company)
    /\ ~tagged => Shown(page.title) = Written(posting.title)
    /\ tagged /\ Written(posting.title) # <<>> =>
          \E bar \in {"|", "-"} :
              Shown(page.title)
                 = Written(posting.title) \o <<"space", bar, "space", "linkedin">>
    /\ Query(page.url.query, "id") = Query(posting.url.query, "id")

\* A refusal by a client, or by what stands before the transformers.
Refused ==
    /\ event = NoEvent
    /\ \/ verdict \in {"none", "unsupported", "source", "applied_at"}
       \/ verdict = "job_title" /\ page.title = <<>>
       \/ verdict = "company" /\ page.company = <<>>
       \/ verdict = "url" /\ Absent(page.url)
       \/ verdict = "unparsed" /\ (textOf(page.title) = <<>> \/ textOf(page.company) = <<>>)

Made(source, title, company, url) ==
    /\ \E at \in {"now", "given"} :
          event = [source |-> source, userID |-> UserID, jobTitle |-> title,
                   company |-> company, url |-> url, appliedAt |-> at]
    /\ verdict = Validate(event)

\* What the extension sends of a text: what its parser makes of it, or the text.
Taken(s) == IF parsed THEN textOf(s) ELSE s

\* An event says what its page says, with or without its own parsing.
EventInv ==
    \/ Refused
    \/ Made("dashboard", TrimSpace(page.title), TrimSpace(page.company), TrimURL(page.url))
    \/ Made("chrome", stripBoardSuffix(collapseWhitespace(Taken(page.title))),
            collapseWhitespace(Taken(page.company)), stripTrackingParams(TrimURL(page.url)))
    \/ ~parsed /\ Made("scraper", collapseWhitespace(page.title),
                        collapseWhitespace(page.company), TrimURL(page.url))

TransformInv ==
    PageInv /\ EventInv /\ (verdict = "none" => event = NoEvent /\ ~parsed)

\* What Validate says, and of what.
LEMMA ValidateIs ==
    ASSUME NEW e
    PROVE  /\ Validate(e) \in {"job_title", "company", "url", "invalid_url", "ok"}
           /\ Validate(e) = "job_title" <=> e.jobTitle = <<>>
           /\ Validate(e) = "company" <=> e.jobTitle # <<>> /\ e.company = <<>>
           /\ Validate(e) = "ok" => /\ e.jobTitle # <<>> /\ e.company # <<>>
                                    /\ e.url.form = "http" /\ ~e.url.padded
BY DEF Validate

\* The postings.
LEMMA PostingIs ==
    ASSUME NEW p \in Postings
    PROVE  /\ p \in AnyPage
           /\ Tidy(p.title) /\ Tidy(p.company)
           /\ Shown(p.title) = Written(p.title) /\ Shown(p.company) = Written(p.company)
           /\ Written(p.title) \in Texts
           /\ \A suffix \in boardSuffixes : ~IsSuffix(suffix, Written(p.title))
<1>1. /\ p = [title |-> p.title, company |-> p.company, url |-> p.url]
      /\ \A s \in {p.title, p.company} : s \in Seq(Characters \ (White \ {"space"})) /\ Tidy(s)
      /\ \A suffix \in boardSuffixes : ~IsSuffix(suffix, Written(p.title))
      /\ p.url \in Addresses
  BY PostingsAssumption DEF Written
<1>2. \A s \in Seq(Characters \ (White \ {"space"})) : s \in Seq(Plain)
  <2>1. \A c \in Characters \ (White \ {"space"}) : c \in Plain
    BY DEF Plain, White
  <2>2. QED
    BY <2>1
<1>3. /\ p.title \in Seq(Plain) /\ p.company \in Seq(Plain) /\ Tidy(p.title) /\ Tidy(p.company)
      /\ p.title \in Texts /\ p.company \in Texts
  BY <1>1, <1>2, PlainIs DEF Texts
<1>4. p \in AnyPage
  BY <1>1, <1>3 DEF AnyPage
<1>5. /\ normalize(p.title) = Shown(p.title) /\ normalize(p.company) = Shown(p.company)
      /\ normalize(p.title) = ToLower(p.title)
  BY <1>3, NormalizeShown, TidyTrimmed
<1>6. Written(p.title) \in Texts
  BY <1>3, <1>5, LowerText DEF Texts, Written
<1>7. QED
  BY <1>1, <1>3, <1>4, <1>5, <1>6 DEF Written

\* The invariant holds at first.
LEMMA TransformInitInv ==
    ASSUME TransformInit
    PROVE  TransformInv
<1>1. posting \in Postings /\ page = posting /\ noise = 0 /\ tagged = FALSE /\ parsed = FALSE
      /\ event = NoEvent /\ verdict = "none"
  BY DEF TransformInit
<1>2. 0 \in 0..MaxNoise
  BY TransformAssumption
<1>3. PageInv
  BY <1>1, <1>2, PostingIs DEF PageInv
<1>4. EventInv
  BY <1>1 DEF EventInv, Refused
<1>5. QED
  BY <1>1, <1>3, <1>4 DEF TransformInv

\* What Show changes.
LEMMA ShowIs ==
    ASSUME TransformInv, NEW value, NEW field \in {"title", "company", "url"}, Show(field, value)
    PROVE  /\ posting' = posting /\ parsed' = parsed
           /\ page'.title = IF field = "title" THEN value ELSE page.title
           /\ page'.company = IF field = "company" THEN value ELSE page.company
           /\ page'.url = IF field = "url" THEN value ELSE page.url
           /\ page' = [title |-> page'.title, company |-> page'.company, url |-> page'.url]
           /\ EventInv' /\ (verdict' = "none" => event' = NoEvent /\ ~parsed')
<1>1. /\ verdict = "none"
      /\ page' = [page EXCEPT ![field] = value]
      /\ posting' = posting /\ parsed' = parsed /\ event' = event /\ verdict' = verdict
  BY DEF Show
<1>2. event = NoEvent /\ ~parsed /\ page \in AnyPage
  BY <1>1 DEF TransformInv, PageInv
<1>3. /\ page'.title = IF field = "title" THEN value ELSE page.title
      /\ page'.company = IF field = "company" THEN value ELSE page.company
      /\ page'.url = IF field = "url" THEN value ELSE page.url
      /\ page' = [title |-> page'.title, company |-> page'.company, url |-> page'.url]
  BY <1>1, <1>2 DEF AnyPage
<1>4. EventInv' /\ (verdict' = "none" => event' = NoEvent /\ ~parsed')
  BY <1>1, <1>2 DEF EventInv, Refused
<1>5. QED
  BY <1>1, <1>3, <1>4

\* What Add counts.
LEMMA AddIs ==
    ASSUME TransformInv, NEW value, NEW field, Add(field, value)
    PROVE  noise' \in 0..MaxNoise /\ tagged' = tagged /\ Show(field, value)
<1>1. noise < MaxNoise /\ noise' = noise + 1 /\ tagged' = tagged /\ Show(field, value)
  BY DEF Add
<1>2. noise \in 0..MaxNoise /\ MaxNoise \in Nat
  BY TransformAssumption DEF TransformInv, PageInv
<1>3. QED
  BY <1>1, <1>2

\* A text that is shown as before.
LEMMA SameShown ==
    ASSUME TransformInv, NEW field \in {"title", "company"}, NEW value \in Texts,
           Shown(value) = Shown(page[field]), Add(field, value)
    PROVE  TransformInv'
<1>1. /\ posting' = posting /\ parsed' = parsed /\ noise' \in 0..MaxNoise /\ tagged' = tagged
      /\ page'.title = IF field = "title" THEN value ELSE page.title
      /\ page'.company = IF field = "company" THEN value ELSE page.company
      /\ page'.url = page.url
      /\ page' = [title |-> page'.title, company |-> page'.company, url |-> page'.url]
      /\ EventInv' /\ (verdict' = "none" => event' = NoEvent /\ ~parsed')
  BY AddIs, ShowIs
<1>2. PageInv
  BY DEF TransformInv
<1>3. page.title \in Texts /\ page.company \in Texts /\ page.url \in Addresses
  BY <1>2 DEF PageInv, AnyPage
<1>4. page' \in AnyPage
  BY <1>1, <1>3 DEF AnyPage
<1>5. Shown(page'.title) = Shown(page.title) /\ Shown(page'.company) = Shown(page.company)
  BY <1>1
<1>6. PageInv'
  BY <1>1, <1>2, <1>4, <1>5 DEF PageInv, Written
<1>7. QED
  BY <1>1, <1>6 DEF TransformInv

\* The page adds space, or what has no width.
LEMMA SpoilInv ==
    ASSUME TransformInv, NEW field \in {"title", "company"}, Spoil(field)
    PROVE  TransformInv'
<1> DEFINE s == page[field]
<1>1. s \in Seq(Characters)
  BY DEF TransformInv, PageInv, AnyPage, Texts
<1>2. PICK i \in 1..Len(s) + 1, c \in Noise :
         /\ c \in White =>
               \/ i \in {1, Len(s) + 1}
               \/ \E j \in {i - 1, i} \cap DOMAIN s : s[j] \in White
         /\ Add(field, InsertAt(s, i, c))
  BY DEF Spoil
<1>3. c \in Characters /\ c \in White \cup ZeroWidth
  BY TransformAssumption, CharacterFacts
<1>4. InsertAt(s, i, c) \in Texts /\ Shown(InsertAt(s, i, c)) = Shown(s)
  <2> HIDE DEF s
  <2>1. QED
    BY <1>1, <1>2, <1>3, InsertShown DEF Texts
<1>5. QED
  BY <1>2, <1>4, SameShown

\* The page shows a space as another one.
LEMMA HardenInv ==
    ASSUME TransformInv, Harden
    PROVE  TransformInv'
<1> DEFINE s == page.title
<1>1. s \in Seq(Characters)
  BY DEF TransformInv, PageInv, AnyPage, Texts
<1>2. PICK i \in DOMAIN s, c \in (Noise \cap White) \ {"space"} :
         s[i] = "space" /\ Add("title", [s EXCEPT ![i] = c])
  BY DEF Harden
<1>3. c \in Characters /\ Low(c) = c /\ Low("space") = "space" /\ c \in White
  BY CharacterFacts
<1>4. \A o : Step(o, Low(c)) = Step(o, Low(s[i]))
  BY <1>2, <1>3, CharacterFacts DEF Step
<1>5. [s EXCEPT ![i] = c] \in Texts /\ Shown([s EXCEPT ![i] = c]) = Shown(s)
  <2> HIDE DEF s
  <2>1. i \in 1..Len(s)
    BY <1>1
  <2>2. QED
    BY <1>1, <1>3, <1>4, <2>1, ReplaceShown DEF Texts
<1>6. QED
  BY <1>2, <1>5, SameShown

\* The page shows a letter in upper case.
LEMMA CapitaliseInv ==
    ASSUME TransformInv, Capitalise
    PROVE  TransformInv'
<1> DEFINE s == page.title
<1>1. s \in Seq(Characters)
  BY DEF TransformInv, PageInv, AnyPage, Texts
<1>2. PICK i \in DOMAIN s :
         s[i] = "a" /\ Add("title", [s EXCEPT ![i] = "A"])
  BY DEF Capitalise
<1>3. "A" \in Characters /\ Low("A") = "a" /\ Low("a") = "a"
  BY CharacterFacts
<1>4. \A o : Step(o, Low("A")) = Step(o, Low(s[i]))
  BY <1>2, <1>3
<1>5. [s EXCEPT ![i] = "A"] \in Texts /\ Shown([s EXCEPT ![i] = "A"]) = Shown(s)
  <2> HIDE DEF s
  <2>1. i \in 1..Len(s)
    BY <1>1
  <2>2. QED
    BY <1>1, <1>3, <1>4, <2>1, ReplaceShown DEF Texts
<1>6. QED
  BY <1>2, <1>5, SameShown

\* The page puts the site's name behind the title.
LEMMA TagInv ==
    ASSUME TransformInv, Tag
    PROVE  TransformInv'
<1>1. PICK bar \in {"|", "-"} :
         Show("title", page.title \o <<"space", bar, "space", "LinkedIn">>)
  BY DEF Tag
<1>2. ~tagged /\ tagged' = TRUE /\ noise' = noise
  BY DEF Tag
<1> DEFINE t == page.title \o <<"space", bar, "space", "LinkedIn">>
<1>3. PageInv
  BY DEF TransformInv
<1>4. page.title \in Seq(Characters) /\ page.company \in Texts /\ page.url \in Addresses
  BY <1>3 DEF PageInv, AnyPage, Texts
<1>5. /\ t \in Texts
      /\ Shown(page.title) # <<>> =>
            Shown(t) = Shown(page.title) \o <<"space", bar, "space", "linkedin">>
  BY <1>4, TagShown DEF Texts
<1> HIDE DEF t
<1>6. Show("title", t)
  BY <1>1 DEF t
<1>7. /\ posting' = posting /\ parsed' = parsed
      /\ page'.title = t /\ page'.company = page.company /\ page'.url = page.url
      /\ page' = [title |-> page'.title, company |-> page'.company, url |-> page'.url]
      /\ EventInv' /\ (verdict' = "none" => event' = NoEvent /\ ~parsed')
  BY <1>6, ShowIs
<1>8. page' \in AnyPage
  BY <1>4, <1>5, <1>7 DEF AnyPage
<1>9. PageInv'
  BY <1>2, <1>3, <1>5, <1>7, <1>8 DEF PageInv, Written
<1>10. QED
  BY <1>7, <1>9 DEF TransformInv

\* An address that has the same parameters, but for what tracks.
LEMMA SameQuery ==
    ASSUME TransformInv, NEW u \in Addresses, Query(u.query, "id") = Query(page.url.query, "id"),
           Add("url", u)
    PROVE  TransformInv'
<1>1. /\ posting' = posting /\ parsed' = parsed /\ noise' \in 0..MaxNoise /\ tagged' = tagged
      /\ page'.title = page.title /\ page'.company = page.company /\ page'.url = u
      /\ page' = [title |-> page'.title, company |-> page'.company, url |-> page'.url]
      /\ EventInv' /\ (verdict' = "none" => event' = NoEvent /\ ~parsed')
  BY AddIs, ShowIs
<1>2. PageInv
  BY DEF TransformInv
<1>3. page' \in AnyPage
  BY <1>1, <1>2 DEF PageInv, AnyPage
<1>4. PageInv'
  BY <1>1, <1>2, <1>3 DEF PageInv, Written
<1>5. QED
  BY <1>1, <1>4 DEF TransformInv

\* A link is shared.
LEMMA ShareInv ==
    ASSUME TransformInv, Share
    PROVE  TransformInv'
<1>1. PICK k \in trackingParams, place \in {"first", "final"} :
         Add("url", [page.url EXCEPT !.query =
                        IF place = "first"
                        THEN <<[key |-> k, parses |-> TRUE, value |-> 0]>> \o @
                        ELSE @ \o <<[key |-> k, parses |-> TRUE, value |-> 0]>>])
  BY DEF Share
<1> DEFINE p == [key |-> k, parses |-> TRUE, value |-> 0]
           q == page.url.query
           r == IF place = "first" THEN <<p>> \o q ELSE q \o <<p>>
           u == [page.url EXCEPT !.query = r]
<1>2. page.url \in Addresses
  BY DEF TransformInv, PageInv, AnyPage
<1>3. p \in Parameters /\ p.key # "id" /\ q \in Seq(Parameters)
  BY <1>2 DEF Parameters, trackingParams, Addresses
<1>4. Add("url", u)
  BY <1>1
<1> HIDE DEF p
<1>5. <<p>> \in Seq(Parameters)
  BY <1>3
<1>6. r \in Seq(Parameters) /\ Query(r, "id") = Query(q, "id")
  <2> HIDE DEF q
  <2>1. Query(<<p>> \o q, "id") = Query(q, "id") /\ Query(q \o <<p>>, "id") = Query(q, "id")
    BY <1>3, QueryAdded
  <2>2. <<p>> \o q \in Seq(Parameters) /\ q \o <<p>> \in Seq(Parameters)
    <3> DEFINE d == <<p>>
    <3>1. d \in Seq(Parameters)
      BY <1>5
    <3> HIDE DEF d
    <3>2. d \o q \in Seq(Parameters) /\ q \o d \in Seq(Parameters)
      BY <1>3, <3>1
    <3>3. QED
      BY <3>2 DEF d
  <2>3. QED
    BY <2>1, <2>2
<1> HIDE DEF r
<1>7. u \in Addresses /\ u.query = r
  BY <1>2, <1>6 DEF Addresses
<1> HIDE DEF u
<1>8. QED
  BY <1>4, <1>6, <1>7, SameQuery DEF q

\* An address gets a space before it.
LEMMA PadInv ==
    ASSUME TransformInv, Pad
    PROVE  TransformInv'
<1> DEFINE u == [page.url EXCEPT !.padded = TRUE]
<1>1. Add("url", u)
  BY DEF Pad
<1>2. page.url \in Addresses
  BY DEF TransformInv, PageInv, AnyPage
<1>3. u \in Addresses /\ u.query = page.url.query
  BY <1>2 DEF Addresses
<1> HIDE DEF u
<1>4. QED
  BY <1>1, <1>3, SameQuery

\* A request as a source sends it: of the page's texts, or of what the
\* extension's parser makes of them.
AsSent(source, t, c, at) ==
    /\ source \in {"dashboard", "chrome", "scraper"} /\ at \in {"none", "now", "given"}
    /\ \/ ~parsed' /\ t = page.title /\ c = page.company
       \/ /\ source = "chrome" /\ parsed'
          /\ t = textOf(page.title) /\ c = textOf(page.company)

\* The transformers make such an event, and Validate judges it.
LEMMA ForInv ==
    ASSUME TransformInv, NEW id \in Spellings, NEW source, NEW t, NEW c, NEW at,
           AsSent(source, t, c, at), parsed' \in BOOLEAN,
           UNCHANGED <<posting, page, noise, tagged>>,
           event' = For(source, [userID |-> id, title |-> t, company |-> c,
                                 url |-> page.url, appliedAt |-> at]),
           verdict' = Validate(event')
    PROVE  TransformInv'
<1> DEFINE req == [userID |-> id, title |-> t, company |-> c,
                   url |-> page.url, appliedAt |-> at]
<1>1. PageInv /\ PageInv'
  BY DEF TransformInv, PageInv, Written
<1>2. page' = page
  OBVIOUS
<1>3. /\ req.userID = id /\ req.title = t /\ req.company = c /\ req.url = page.url
      /\ req.appliedAt = at
      /\ event' = For(source, req)
  OBVIOUS
<1> HIDE DEF req
<1>4. PICK when \in {"now", "given"} : appliedAtOrNow(at) = when
  BY DEF AsSent, appliedAtOrNow
<1>5. TrimSpace(id) = UserID
  BY TransformAssumption
<1>6. verdict' # "none"
  BY ValidateIs
<1>7. CASE source = "dashboard"
  <2>1. event' = [source |-> "dashboard", userID |-> UserID, jobTitle |-> TrimSpace(page.title),
                  company |-> TrimSpace(page.company), url |-> TrimURL(page.url),
                  appliedAt |-> when]
    BY <1>3, <1>4, <1>5, <1>7 DEF For, FromDashboard, Canonical, AsSent
  <2>2. Made("dashboard", TrimSpace(page.title), TrimSpace(page.company), TrimURL(page.url))'
    BY <1>2, <2>1 DEF Made
  <2>3. EventInv'
    BY <2>2 DEF EventInv
  <2>4. QED
    BY <1>1, <1>6, <2>3 DEF TransformInv
<1>8. CASE source = "chrome"
  <2>1. t = Taken(page.title)' /\ c = Taken(page.company)'
    BY <1>2 DEF AsSent, Taken
  <2>2. event' = [source |-> "chrome", userID |-> UserID,
                  jobTitle |-> stripBoardSuffix(collapseWhitespace(t)),
                  company |-> collapseWhitespace(c),
                  url |-> stripTrackingParams(TrimURL(page.url)), appliedAt |-> when]
    BY <1>3, <1>4, <1>5, <1>8 DEF For, FromChromeExt, Canonical
  <2>3. Made("chrome", stripBoardSuffix(collapseWhitespace(Taken(page.title))),
             collapseWhitespace(Taken(page.company)), stripTrackingParams(TrimURL(page.url)))'
    BY <1>2, <2>1, <2>2 DEF Made
  <2>4. EventInv'
    BY <2>3 DEF EventInv
  <2>5. QED
    BY <1>1, <1>6, <2>4 DEF TransformInv
<1>9. CASE source = "scraper"
  <2>1. event' = [source |-> "scraper", userID |-> UserID,
                  jobTitle |-> collapseWhitespace(page.title),
                  company |-> collapseWhitespace(page.company),
                  url |-> TrimURL(page.url), appliedAt |-> when]
    BY <1>3, <1>4, <1>5, <1>9 DEF For, FromScraper, Canonical, AsSent
  <2>2. Made("scraper", collapseWhitespace(page.title),
             collapseWhitespace(page.company), TrimURL(page.url))'
    BY <1>2, <2>1 DEF Made
  <2>3. EventInv'
    BY <1>9, <2>2 DEF EventInv, AsSent
  <2>4. QED
    BY <1>1, <1>6, <2>3 DEF TransformInv
<1>10. QED
  BY <1>7, <1>8, <1>9 DEF AsSent

\* A refusal leaves no event.
LEMMA RefusedInv ==
    ASSUME TransformInv, UNCHANGED <<posting, page, noise, tagged>>, parsed' \in BOOLEAN,
           Refused', verdict' # "none"
    PROVE  TransformInv'
<1>1. PageInv'
  BY DEF TransformInv, PageInv, Written
<1>2. EventInv' /\ event' = NoEvent
  BY DEF EventInv, Refused
<1>3. QED
  BY <1>1, <1>2 DEF TransformInv

\* submitOne transforms and validates.
LEMMA TransformStepInv ==
    ASSUME TransformInv, NEW source \in Sources, Transform(source)
    PROVE  TransformInv'
<1>1. PICK id \in Spellings, at \in {"none", "given"} :
         /\ event' = IF source = "unspecified" THEN NoEvent ELSE For(source, Request(id, at))
         /\ verdict' = IF source = "unspecified" THEN "unsupported" ELSE Validate(event')
  BY DEF Transform
<1>2. /\ UNCHANGED <<posting, page, noise, tagged>>
      /\ ~parsed' /\ parsed' \in BOOLEAN
  BY DEF Transform, TransformInv, PageInv
<1>3. CASE source = "unspecified"
  <2>1. Refused' /\ verdict' # "none"
    BY <1>1, <1>3 DEF Refused
  <2>2. QED
    BY <1>2, <2>1, RefusedInv
<1>4. CASE source # "unspecified"
  <2>1. AsSent(source, page.title, page.company, at)
    BY <1>2, <1>4 DEF AsSent, Sources
  <2>2. /\ event' = For(source, [userID |-> id, title |-> page.title, company |-> page.company,
                                 url |-> page.url, appliedAt |-> at])
        /\ verdict' = Validate(event')
    BY <1>1, <1>4 DEF Request
  <2>3. QED
    BY <1>2, <2>1, <2>2, ForInv
<1>5. QED
  BY <1>3, <1>4

\* The command line client refuses, or asks.
LEMMA RunCLIInv ==
    ASSUME TransformInv, RunCLI
    PROVE  TransformInv'
<1>1. PICK id \in Spellings, at \in {"now", "given", "garbled"} :
         /\ event' = IF BuildRequest(Request(id, at)) = "ok" THEN FromDashboard(Request(id, at))
                     ELSE NoEvent
         /\ verdict' = IF BuildRequest(Request(id, at)) = "ok" THEN Validate(event')
                       ELSE BuildRequest(Request(id, at))
  BY DEF RunCLI
<1>2. /\ UNCHANGED <<posting, page, noise, tagged>>
      /\ ~parsed' /\ parsed' \in BOOLEAN
  BY DEF RunCLI, TransformInv, PageInv
<1>3. /\ Request(id, at) = [userID |-> id, title |-> page.title, company |-> page.company,
                        url |-> page.url, appliedAt |-> at]
      /\ Request(id, at).title = page.title /\ Request(id, at).company = page.company
      /\ Request(id, at).url = page.url /\ Request(id, at).appliedAt = at
  BY DEF Request
<1>4. CASE BuildRequest(Request(id, at)) = "ok"
  <2>1. at # "garbled"
    BY <1>3, <1>4 DEF BuildRequest
  <2>2. AsSent("dashboard", page.title, page.company, at)
    BY <1>2, <2>1 DEF AsSent
  <2>3. For("dashboard", Request(id, at)) = FromDashboard(Request(id, at))
    BY DEF For
  <2>4. /\ event' = For("dashboard", [userID |-> id, title |-> page.title,
                          company |-> page.company, url |-> page.url, appliedAt |-> at])
        /\ verdict' = Validate(event')
    BY <1>1, <1>3, <1>4, <2>3
  <2>5. QED
    BY <1>2, <2>2, <2>4, ForInv
<1>5. CASE BuildRequest(Request(id, at)) # "ok"
  <2>1. \/ BuildRequest(Request(id, at)) = "applied_at"
        \/ BuildRequest(Request(id, at)) = "job_title" /\ page.title = <<>>
        \/ BuildRequest(Request(id, at)) = "company" /\ page.company = <<>>
        \/ BuildRequest(Request(id, at)) = "url" /\ Absent(page.url)
    BY <1>3, <1>5 DEF BuildRequest
  <2>2. Refused' /\ verdict' # "none"
    BY <1>1, <1>2, <1>5, <2>1 DEF Refused
  <2>3. QED
    BY <1>2, <2>2, RefusedInv
<1>6. QED
  BY <1>4, <1>5

\* A request, and the same at another time.
Asked(id, t, c, a, at) ==
    [userID |-> id, title |-> t, company |-> c, url |-> a, appliedAt |-> at]
Timed(r, at) == [r EXCEPT !.appliedAt = at]

\* A request with its time.
LEMMA TimedAsked ==
    ASSUME NEW id, NEW t, NEW c, NEW a, NEW before, NEW at
    PROVE  Timed(Asked(id, t, c, a, before), at) = Asked(id, t, c, a, at)
<1>1. Timed(Asked(id, t, c, a, before), at)
        = [[userID |-> id, title |-> t, company |-> c, url |-> a, appliedAt |-> before]
               EXCEPT !.appliedAt = at]
  BY Zenon DEF Timed, Asked
<1>2. Asked(id, t, c, a, at)
        = [userID |-> id, title |-> t, company |-> c, url |-> a, appliedAt |-> at]
  BY Zenon DEF Asked
<1>3. QED
  BY <1>1, <1>2

\* What a browser may name: a source, or none or no known one; a time, or none.
Named == Sources \cup {"", "unknown"}
Times == {"", "given", "garbled"}

\* The gateway passes on what it is sent, or refuses its source or time.
LEMMA PostInv ==
    ASSUME TransformInv, NEW id \in Spellings, NEW source, NEW t, NEW c, NEW sent \in Times,
           source \in Named,
           \/ ~parsed' /\ t = page.title /\ c = page.company
           \/ /\ source = "chrome" /\ parsed'
              /\ t = textOf(page.title) /\ c = textOf(page.company),
           UNCHANGED <<posting, page, noise, tagged>>, parsed' \in BOOLEAN,
           Post([userID |-> id, title |-> t, company |-> c, url |-> page.url,
                 appliedAt |-> sent], source)
    PROVE  TransformInv'
<1> DEFINE req == [userID |-> id, title |-> t, company |-> c, url |-> page.url,
                   appliedAt |-> sent]
           via == parseSource(source)
           at == parseAppliedAt(sent)
<1>1. \/ event' = NoEvent /\ verdict' \in {"source", "applied_at"}
      \/ /\ via # "invalid" /\ at # "garbled"
         /\ event' = For(via, [req EXCEPT !.appliedAt = at])
         /\ verdict' = Validate(event')
  BY DEF Post
<1>2. CASE event' = NoEvent /\ verdict' \in {"source", "applied_at"}
  <2>1. Refused' /\ verdict' # "none"
    BY <1>2 DEF Refused
  <2>2. QED
    BY <2>1, RefusedInv
<1>3. CASE /\ via # "invalid" /\ at # "garbled"
           /\ event' = For(via, [req EXCEPT !.appliedAt = at])
           /\ verdict' = Validate(event')
  <2>1. [req EXCEPT !.appliedAt = at]
           = [userID |-> id, title |-> t, company |-> c, url |-> page.url, appliedAt |-> at]
    <3>1. [req EXCEPT !.appliedAt = at] = Timed(Asked(id, t, c, page.url, sent), at)
      BY Zenon DEF Timed, Asked
    <3>2. Timed(Asked(id, t, c, page.url, sent), at) = Asked(id, t, c, page.url, at)
      <4> HIDE DEF at
      <4>1. QED
        BY TimedAsked
    <3> HIDE DEF req, at
    <3>3. QED
      BY <3>1, <3>2, Zenon DEF Asked
  <2>2. via \in {"dashboard", "chrome", "scraper"} /\ (source = "chrome" => via = "chrome")
    BY <1>3 DEF parseSource, Sources, Named
  <2>3. at \in {"now", "given"}
    BY <1>3 DEF parseAppliedAt, Times
  <2>4. AsSent(via, t, c, at)
    BY <2>2, <2>3 DEF AsSent
  <2> HIDE DEF req, via, at
  <2>5. /\ event' = For(via, [userID |-> id, title |-> t, company |-> c,
                              url |-> page.url, appliedAt |-> at])
        /\ verdict' = Validate(event')
    BY <1>3, <2>1
  <2>6. QED
    BY <2>4, <2>5, ForInv
<1>4. QED
  BY <1>1, <1>2, <1>3

\* Somebody posts to the gateway.
LEMMA PostAnyInv ==
    ASSUME TransformInv, PostAny
    PROVE  TransformInv'
<1>1. PICK source \in Named, id \in Spellings, at \in Times : Post(Request(id, at), source)
  BY DEF PostAny, Named, Times
<1>2. /\ UNCHANGED <<posting, page, noise, tagged>>
      /\ ~parsed' /\ parsed' \in BOOLEAN
  BY DEF PostAny, TransformInv, PageInv
<1>3. Post([userID |-> id, title |-> page.title, company |-> page.company, url |-> page.url,
            appliedAt |-> at], source)
  BY <1>1 DEF Request
<1>4. QED
  BY <1>2, <1>3, PostInv

\* The extension refuses, or posts what it has parsed.
LEMMA SubmitJobInv ==
    ASSUME TransformInv, submitJob
    PROVE  TransformInv'
<1>0. /\ \E id \in Spellings :
            LET scraped == [Request(id, "") EXCEPT !.title = textOf(page.title),
                                                   !.company = textOf(page.company)]
            IN  \/ /\ scraped.title = <<>> \/ scraped.company = <<>>
                   /\ event' = NoEvent /\ verdict' = "unparsed"
                \/ Post(scraped, "chrome")
      /\ parsed' = TRUE
      /\ UNCHANGED <<posting, page, noise, tagged>>
  BY DEF submitJob
<1> PICK id \in Spellings :
       LET scraped == [Request(id, "") EXCEPT !.title = textOf(page.title),
                                              !.company = textOf(page.company)]
       IN  \/ /\ scraped.title = <<>> \/ scraped.company = <<>>
              /\ event' = NoEvent /\ verdict' = "unparsed"
           \/ Post(scraped, "chrome")
  BY <1>0
<1> DEFINE scraped == [Request(id, "") EXCEPT !.title = textOf(page.title),
                                              !.company = textOf(page.company)]
<1>1. scraped = [userID |-> id, title |-> textOf(page.title), company |-> textOf(page.company),
                 url |-> page.url, appliedAt |-> ""]
  <2> DEFINE a == page.url
             at == ""
             t == textOf(page.title)
             c == textOf(page.company)
             title == page.title
             company == page.company
             r == [userID |-> id, title |-> title, company |-> company, url |-> a, appliedAt |-> at]
             q == [r EXCEPT !.title = t]
  <2>1. scraped = [r EXCEPT !.title = t, !.company = c]
    BY DEF Request
  <2> HIDE DEF a, at, t, c, title, company, scraped
  <2>2. q = [userID |-> id, title |-> t, company |-> company, url |-> a, appliedAt |-> at]
    OBVIOUS
  <2>3. [r EXCEPT !.title = t, !.company = c] = [q EXCEPT !.company = c]
    BY Zenon
  <2> HIDE DEF q, r
  <2>4. [q EXCEPT !.company = c]
           = [userID |-> id, title |-> t, company |-> c, url |-> a, appliedAt |-> at]
    BY <2>2
  <2>5. QED
    BY <2>1, <2>3, <2>4 DEF a, at, t, c
<1>2. UNCHANGED <<posting, page, noise, tagged>> /\ parsed' /\ parsed' \in BOOLEAN
  BY <1>0
<1>3. \/ /\ scraped.title = <<>> \/ scraped.company = <<>>
         /\ event' = NoEvent /\ verdict' = "unparsed"
      \/ Post(scraped, "chrome")
  OBVIOUS
<1> HIDE DEF scraped
<1>4. scraped.title = textOf(page.title) /\ scraped.company = textOf(page.company)
  BY <1>1
<1>5. CASE /\ scraped.title = <<>> \/ scraped.company = <<>>
           /\ event' = NoEvent /\ verdict' = "unparsed"
  <2>1. Refused' /\ verdict' # "none"
    BY <1>2, <1>4, <1>5 DEF Refused
  <2>2. QED
    BY <1>2, <2>1, RefusedInv
<1>6. CASE Post(scraped, "chrome")
  <2>1. "chrome" \in Named /\ "" \in Times
    BY DEF Sources, Named, Times
  <2>2. Post([userID |-> id, title |-> textOf(page.title), company |-> textOf(page.company),
              url |-> page.url, appliedAt |-> ""], "chrome")
    BY <1>1, <1>6
  <2>3. QED
    BY <1>2, <2>1, <2>2, PostInv
<1>7. QED
  BY <1>3, <1>5, <1>6

\* Every step keeps the invariant.
LEMMA TransformNextInv ==
    ASSUME TransformInv, [TransformNext]_transformVars
    PROVE  TransformInv'
<1>1. CASE Spoil("title") \/ Spoil("company")
  BY <1>1, SpoilInv
<1>2. CASE Harden
  BY <1>2, HardenInv
<1>3. CASE Capitalise
  BY <1>3, CapitaliseInv
<1>4. CASE Tag
  BY <1>4, TagInv
<1>5. CASE Share
  BY <1>5, ShareInv
<1>6. CASE \E source \in Sources : Transform(source)
  BY <1>6, TransformStepInv
<1>7. CASE RunCLI
  BY <1>7, RunCLIInv
<1>8. CASE PostAny
  BY <1>8, PostAnyInv
<1>9. CASE submitJob
  BY <1>9, SubmitJobInv
<1>10. CASE Pad
  BY <1>10, PadInv
<1>11. CASE UNCHANGED transformVars
  BY <1>11 DEF transformVars, TransformInv, PageInv, EventInv, Refused, Made, Taken, Written
<1>12. QED
  BY <1>1, <1>2, <1>3, <1>4, <1>5, <1>6, <1>7, <1>8, <1>9, <1>10, <1>11 DEF TransformNext

\* The invariant always holds.
LEMMA TransformAlways == TransformSpec => []TransformInv
<1>1. TransformInit => TransformInv
  BY TransformInitInv
<1>2. TransformInv /\ [TransformNext]_transformVars => TransformInv'
  BY TransformNextInv
<1>3. QED
  BY <1>1, <1>2, PTL DEF TransformSpec

-----------------------------------------------------------------------------
(* The events.                                                             *)

\* What a made event has.
LEMMA MadeIs ==
    ASSUME NEW source, NEW title, NEW company, NEW url, source # "none",
           Made(source, title, company, url)
    PROVE  /\ event.source = source /\ event.userID = UserID /\ event.jobTitle = title
           /\ event.company = company /\ event.url = url
           /\ event.appliedAt \in {"now", "given"}
           /\ event # NoEvent /\ verdict = Validate(event)
<1>1. PICK at \in {"now", "given"} :
         event = [source |-> source, userID |-> UserID, jobTitle |-> title,
                  company |-> company, url |-> url, appliedAt |-> at]
  BY DEF Made
<1>2. event.source = source /\ NoEvent.source = "none"
  BY <1>1 DEF NoEvent
<1>3. QED
  BY <1>1, <1>2 DEF Made

\* An event is one of the three.
LEMMA EventIs ==
    ASSUME TransformInv, ~Refused
    PROVE  \/ /\ event.source = "dashboard"
              /\ Made("dashboard", TrimSpace(page.title), TrimSpace(page.company),
                      TrimURL(page.url))
           \/ /\ event.source = "chrome"
              /\ Made("chrome", stripBoardSuffix(collapseWhitespace(Taken(page.title))),
                      collapseWhitespace(Taken(page.company)),
                      stripTrackingParams(TrimURL(page.url)))
           \/ /\ event.source = "scraper" /\ ~parsed
              /\ Made("scraper", collapseWhitespace(page.title),
                      collapseWhitespace(page.company), TrimURL(page.url))
<1>1. CASE Made("dashboard", TrimSpace(page.title), TrimSpace(page.company), TrimURL(page.url))
  BY <1>1, MadeIs
<1>2. CASE Made("chrome", stripBoardSuffix(collapseWhitespace(Taken(page.title))),
                collapseWhitespace(Taken(page.company)), stripTrackingParams(TrimURL(page.url)))
  BY <1>2, MadeIs
<1>3. CASE ~parsed /\ Made("scraper", collapseWhitespace(page.title),
                            collapseWhitespace(page.company), TrimURL(page.url))
  BY <1>3, MadeIs
<1>4. QED
  BY <1>1, <1>2, <1>3 DEF TransformInv, EventInv

\* The page and the posting are of the characters there are.
LEMMA PageIs ==
    ASSUME TransformInv
    PROVE  /\ page.title \in Seq(Characters) /\ page.company \in Seq(Characters)
           /\ page.url \in Addresses
           /\ posting \in Postings
           /\ posting.title \in Seq(Characters) /\ posting.company \in Seq(Characters)
           /\ Taken(page.title) \in Seq(Characters) /\ Taken(page.company) \in Seq(Characters)
BY PostingIs, TextOfShown DEF TransformInv, PageInv, AnyPage, Texts, Taken

\* A text that lacks some characters.
LEMMA LackIs ==
    ASSUME NEW s \in Seq(Characters), NEW C,
           \A i \in DOMAIN s : s[i] \notin C
    PROVE  s \in Seq(Characters \ C)
<1> DEFINE S == Characters \ C
<1>1. s \in [1..Len(s) -> S] /\ Len(s) \in Nat
  OBVIOUS
<1>2. QED
  BY <1>1

\* Without Unknown white space, what is sent of a text is blank exactly if
\* there is nothing to read, and is read alike if the parser meets no mark.
LEMMA TakenIs ==
    ASSUME TransformInv, NEW s \in Seq(Characters), \A i \in DOMAIN s : s[i] \notin Unknown
    PROVE  /\ Taken(s) \in Seq(Plain)
           /\ Shown(Taken(s)) = <<>> <=> Shown(s) = <<>>
           /\ (parsed => \A i \in DOMAIN s : s[i] # "bom") => Shown(Taken(s)) = Shown(s)
<1>1. CASE parsed
  <2>1. Unknown = {"nel"} /\ Taken(s) = textOf(s)
    BY <1>1 DEF Unknown, Taken
  <2>2. s \in Seq(Characters \ {"nel"})
    BY <2>1, LackIs
  <2>3. textOf(s) \in Seq(Plain) /\ (Shown(textOf(s)) = <<>> <=> Shown(s) = <<>>)
    BY <2>2, TextOfShown
  <2>4. ASSUME \A i \in DOMAIN s : s[i] # "bom"
        PROVE  Shown(textOf(s)) = Shown(s)
    <3>1. s \in Seq(Characters \ {"bom", "nel"})
      <4>1. \A i \in DOMAIN s : s[i] \notin {"bom", "nel"}
        BY <2>1, <2>4
      <4>2. QED
        BY <4>1, LackIs
    <3>2. QED
      BY <3>1, TextOfShown DEF Clear
  <2>5. QED
    BY <1>1, <2>1, <2>3, <2>4
<1>2. CASE ~parsed
  <2>1. Unknown = {"emsp", "nel"} /\ Taken(s) = s
    BY <1>2 DEF Unknown, Taken
  <2>2. s \in Seq(Characters \ {"emsp", "nel"})
    BY <2>1, LackIs
  <2>3. QED
    BY <2>1, <2>2 DEF Plain
<1>3. QED
  BY <1>1, <1>2

\* What the conditions on a page say of its texts.
LEMMA InPage ==
    ASSUME TransformInv, In(page) \cap Unknown = {}
    PROVE  /\ \A i \in DOMAIN page.title : page.title[i] \notin Unknown
           /\ \A i \in DOMAIN page.company : page.company[i] \notin Unknown
           /\ "bom" \notin In(page) =>
                 /\ \A i \in DOMAIN page.title : page.title[i] # "bom"
                 /\ \A i \in DOMAIN page.company : page.company[i] # "bom"
BY DEF In

\* Of what is refused there is no event.
LEMMA RefusedIs ==
    ASSUME Refused
    PROVE  /\ event = NoEvent /\ event.source = "none"
           /\ verdict \in {"none", "unsupported", "source", "applied_at", "job_title", "company",
                           "url", "unparsed"}
BY DEF Refused, NoEvent

\* Blank texts, cleaned.
LEMMA BlankIs ==
    /\ TrimSpace(<<>>) = <<>> /\ collapseWhitespace(<<>>) = <<>> /\ stripBoardSuffix(<<>>) = <<>>
    /\ \A s \in Seq(Plain) : collapseWhitespace(s) = <<>> <=> Shown(s) = <<>>
<1> DEFINE n == <<>>
<1>1. n \in Seq(Characters) /\ n \in Seq(Plain) /\ Len(n) = 0 /\ Tidy(n)
  BY DEF Tidy
<1>2. TrimSpace(n) = n
  BY <1>1, TidyTrimmed
<1>3. collapseWhitespace(n) = n
  BY <1>1, TidyCollapse
<1>4. stripBoardSuffix(n) = n
  <2>1. ToLower(n) \in Seq(Characters) /\ Len(ToLower(n)) = 0
    BY <1>1, LowerText
  <2>2. ASSUME NEW bar \in {"|", "-"}
        PROVE  ~IsSuffix(<<"space", bar, "space", "linkedin">>, ToLower(n))
    <3> DEFINE suffix == <<"space", bar, "space", "linkedin">>
    <3>1. suffix \in Seq(Characters) /\ Len(suffix) = 4
      BY CharacterFacts
    <3> HIDE DEF suffix, n
    <3>2. ~(Len(suffix) <= Len(ToLower(n)))
      BY <2>1, <3>1
    <3>3. ~IsSuffix(suffix, ToLower(n))
      BY <2>1, <3>1, <3>2, SuffixIs
    <3>4. QED
      BY <3>3 DEF suffix
  <2>3. QED
    BY <2>2 DEF stripBoardSuffix, boardSuffixes
<1>5. ASSUME NEW s \in Seq(Plain)
      PROVE  collapseWhitespace(s) = <<>> <=> Shown(s) = <<>>
  BY CollapseIs, LowerText, PlainIs
<1>6. QED
  BY <1>2, <1>3, <1>4, <1>5

\* The extension leaves a title that is read as the posting's as it cleaned it.
LEMMA Unstripped ==
    ASSUME TransformInv, NEW s \in Seq(Plain), Shown(s) = Written(posting.title)
    PROVE  stripBoardSuffix(collapseWhitespace(s)) = collapseWhitespace(s)
<1> DEFINE x == collapseWhitespace(s)
<1>1. ToLower(x) = Written(posting.title)
  BY PlainIs, CollapseIs
<1>2. \A suffix \in boardSuffixes : ~IsSuffix(suffix, ToLower(x))
  BY <1>1, PageIs, PostingIs
<1>3. QED
  BY <1>2 DEF stripBoardSuffix

-----------------------------------------------------------------------------
(* What the transformers promise.                                          *)

\* The variables have their values, and an event of a scraped page is clean
\* (transform.go, canonical.go).
THEOREM TransformTypeCorrect == TransformSpec => []TransformTypeOK
<1>1. ASSUME TransformInv
      PROVE  TransformTypeOK
  <2>1. posting \in Postings /\ noise \in 0..MaxNoise /\ tagged \in BOOLEAN /\ parsed \in BOOLEAN
    BY <1>1 DEF TransformInv, PageInv
  <2>2. CASE Refused
    BY <2>1, <2>2, RefusedIs DEF TransformTypeOK
  <2>3. CASE ~Refused
    <3>1. /\ Tidy(collapseWhitespace(page.title)) /\ Tidy(collapseWhitespace(page.company))
          /\ Tidy(stripBoardSuffix(collapseWhitespace(Taken(page.title))))
          /\ Tidy(collapseWhitespace(Taken(page.company)))
      BY <1>1, PageIs, CollapseIs, CollapseTidy, StripTidy
    <3>2. /\ event # NoEvent /\ verdict = Validate(event) /\ event.appliedAt \in {"now", "given"}
          /\ event.source \in {"chrome", "scraper"} => Tidy(event.jobTitle) /\ Tidy(event.company)
      BY <1>1, <2>3, <3>1, EventIs, MadeIs
    <3>3. verdict \in {"job_title", "company", "url", "invalid_url", "ok"}
      BY <3>2, ValidateIs
    <3>4. QED
      BY <2>1, <3>2, <3>3 DEF TransformTypeOK
  <2>4. QED
    BY <2>2, <2>3
<1>2. QED
  BY <1>1, TransformAlways, PTL

\* However a posting is submitted, its key is the same: cleaning undoes what a
\* page adds (collapseWhitespace, stripBoardSuffix and the key of dedup.go), but
\* for white space that it does not know and marks that the parser has read.
THEOREM SourcesAgreeCorrect == TransformSpec => []SourcesAgree
<1>1. ASSUME TransformInv
      PROVE  SourcesAgree
  <2> SUFFICES ASSUME Accepted,
                      In(page) \cap Unknown = {}, parsed => "bom" \notin In(page),
                      \/ event.source = "chrome" /\ (tagged => Written(posting.title) # <<>>)
                      \/ event.source = "scraper" /\ ~tagged
               PROVE  EventKey = KeyOf(posting)
    BY DEF SourcesAgree
  <2> DEFINE t == Taken(page.title)
             c == Taken(page.company)
  <2>1. ~Refused
    BY RefusedIs DEF Accepted
  <2>2. PageInv /\ event.userID = UserID
    BY <1>1, <2>1, EventIs, MadeIs DEF TransformInv
  <2>3. /\ t \in Seq(Plain) /\ Shown(t) = Shown(page.title)
        /\ c \in Seq(Plain) /\ Shown(c) = Shown(page.company)
    BY <1>1, PageIs, InPage, TakenIs
  <2>4. ~parsed => t = page.title /\ c = page.company
    BY DEF Taken
  <2> HIDE DEF t, c
  <2>5. normalize(collapseWhitespace(c)) = Written(posting.company)
    BY <2>2, <2>3, NormalizeShown DEF PageInv
  <2>6. ~tagged => normalize(collapseWhitespace(t)) = Written(posting.title)
    BY <2>2, <2>3, NormalizeShown DEF PageInv
  <2>7. CASE event.source = "scraper"
    <3>1. event.jobTitle = collapseWhitespace(t) /\ event.company = collapseWhitespace(c)
      BY <1>1, <2>1, <2>4, <2>7, EventIs, MadeIs
    <3>2. QED
      BY <2>2, <2>5, <2>6, <2>7, <3>1 DEF EventKey, KeyOf, Key, Written
  <2>8. CASE event.source = "chrome"
    <3>1. /\ event.jobTitle = stripBoardSuffix(collapseWhitespace(t))
          /\ event.company = collapseWhitespace(c)
      BY <1>1, <2>1, <2>8, EventIs, MadeIs DEF t, c
    <3>2. normalize(event.jobTitle) = Written(posting.title)
      <4>1. CASE ~tagged
        BY <1>1, <2>2, <2>3, <2>6, <3>1, <4>1, Unstripped DEF PageInv
      <4>2. CASE tagged
        <5>1. PICK bar \in {"|", "-"} :
                 Shown(page.title)
                    = Written(posting.title) \o <<"space", bar, "space", "linkedin">>
          BY <2>2, <2>8, <4>2 DEF PageInv
        <5> DEFINE x == collapseWhitespace(t)
                   w == Written(posting.title)
        <5>2. /\ x \in Seq(Plain) /\ Tidy(x) /\ w \in Seq(Characters)
              /\ ToLower(x) = w \o <<"space", bar, "space", "linkedin">>
          <6>1. x \in Seq(Plain) /\ ToLower(x) = Shown(t) /\ Tidy(x)
            BY <2>3, PlainIs, CollapseIs, CollapseTidy
          <6>2. w \in Seq(Characters)
            BY <1>1, PageIs, PostingIs DEF Texts
          <6>3. QED
            BY <2>3, <5>1, <6>1, <6>2
        <5> HIDE DEF x, w
        <5>3. normalize(stripBoardSuffix(x)) = w
          BY <5>2, StripTagged
        <5>4. QED
          BY <3>1, <5>3 DEF x, w
      <4>3. QED
        BY <4>1, <4>2
    <3>3. QED
      BY <2>2, <2>5, <3>1, <3>2 DEF EventKey, KeyOf, Key, Written
  <2>9. QED
    BY <2>7, <2>8
<1>2. QED
  BY <1>1, TransformAlways, PTL

\* What an event of a page says of a refusal, and of an acceptance.
LEMMA CleanedVerdict ==
    ASSUME TransformInv, ~tagged, event.source \in {"chrome", "scraper"},
           In(page) \cap Unknown = {}
    PROVE  /\ event.jobTitle = <<>> <=> Written(posting.title) = <<>>
           /\ event.company = <<>> <=> Written(posting.company) = <<>>
           /\ verdict = Validate(event)
<1> DEFINE t == Taken(page.title)
           c == Taken(page.company)
           x == collapseWhitespace(t)
           y == collapseWhitespace(c)
<1>1. ~Refused
  BY RefusedIs
<1>2. /\ t \in Seq(Plain) /\ c \in Seq(Plain)
      /\ Shown(t) = <<>> <=> Written(posting.title) = <<>>
      /\ Shown(c) = <<>> <=> Written(posting.company) = <<>>
  BY PageIs, InPage, TakenIs DEF TransformInv, PageInv
<1>3. ~parsed => t = page.title /\ c = page.company
  BY DEF Taken
<1>4. /\ \/ event.jobTitle = x
         \/ event.jobTitle = stripBoardSuffix(x)
      /\ event.company = y /\ verdict = Validate(event)
  BY <1>1, <1>3, EventIs, MadeIs
<1> HIDE DEF t, c
<1>5. /\ x \in Seq(Plain) /\ x \in Seq(Characters) /\ Tidy(x)
      /\ x = <<>> <=> Shown(t) = <<>>
      /\ y = <<>> <=> Shown(c) = <<>>
  BY <1>2, PlainIs, CollapseIs, CollapseTidy, BlankIs
<1> HIDE DEF x, y
<1>6. stripBoardSuffix(x) = <<>> <=> x = <<>>
  BY <1>5, StripTidy
<1>7. QED
  BY <1>2, <1>4, <1>5, <1>6

\* Something behind a text, and it is not empty.
LEMMA LongerText ==
    ASSUME NEW S, NEW a \in Seq(S), NEW b \in Seq(S), b # <<>>
    PROVE  a \o b # <<>>
<1>1. a \o b \in Seq(S)
  OBVIOUS
<1>2. Len(a \o b) = Len(a) + Len(b) /\ Len(a) \in Nat /\ Len(b) \in Nat
  OBVIOUS
<1>3. Len(b) # 0
  OBVIOUS
<1>4. Len(a \o b) # 0
  BY <1>2, <1>3
<1>5. QED
  BY <1>4

\* With the site's name behind it, a title that says something says more.
LEMMA TaggedBlank ==
    ASSUME PageInv, Shown(page.title) = <<>>
    PROVE  Written(posting.title) = <<>>
<1> SUFFICES ASSUME Written(posting.title) # <<>>
             PROVE  FALSE
  OBVIOUS
<1>1. PICK bar \in {"|", "-"} :
         Shown(page.title) = Written(posting.title) \o <<"space", bar, "space", "linkedin">>
  BY DEF PageInv
<1> DEFINE w == Written(posting.title)
           suffix == <<"space", bar, "space", "linkedin">>
<1>2. w \in Seq(Characters)
  BY PostingIs DEF PageInv, Texts
<1>3. suffix \in Seq(Characters) /\ suffix # <<>>
  BY CharacterFacts
<1> HIDE DEF w, suffix
<1>4. w \o suffix # <<>>
  BY <1>2, <1>3, LongerText
<1>5. QED
  BY <1>1, <1>4 DEF w, suffix

\* What has nothing to read is refused, but for white space that is Unknown,
\* what has is not, and no client refuses what says something (canonical.go's
\* Validate, BuildRequest of the command line client, submitJob of the
\* extension).
THEOREM BlankRefusedCorrect == TransformSpec => []BlankRefused
<1>1. ASSUME TransformInv
      PROVE  BlankRefused
  <2> DEFINE title == Written(posting.title)
             company == Written(posting.company)
  <2>1. ASSUME event.source \in {"chrome", "scraper"}, ~tagged, In(page) \cap Unknown = {}
        PROVE  CASE title = <<>> -> verdict = "job_title"
                 [] title # <<>> /\ company = <<>> -> verdict = "company"
                 [] OTHER -> verdict \in {"ok", "url", "invalid_url"}
    <3> HIDE DEF title, company
    <3>1. /\ event.jobTitle = <<>> <=> title = <<>>
          /\ event.company = <<>> <=> company = <<>>
          /\ verdict = Validate(event)
      BY <1>1, <2>1, CleanedVerdict DEF title, company
    <3>2. /\ title = <<>> => verdict = "job_title"
          /\ title # <<>> /\ company = <<>> => verdict = "company"
          /\ title # <<>> /\ company # <<>> => verdict \in {"ok", "url", "invalid_url"}
      BY <3>1, ValidateIs
    <3>3. QED
      BY <3>2
  <2>2. ASSUME event = NoEvent, verdict \in {"job_title", "company", "url"},
               NEW id \in Spellings
        PROVE  Validate(FromDashboard(Request(id, "given"))) # "ok"
    <3> DEFINE e == FromDashboard(Request(id, "given"))
    <3>1. Refused
      BY <1>1, <2>2, EventIs, MadeIs
    <3>2. \/ page.title = <<>>
          \/ page.company = <<>>
          \/ Absent(page.url)
      BY <2>2, <3>1 DEF Refused
    <3>3. /\ e.jobTitle = TrimSpace(page.title) /\ e.company = TrimSpace(page.company)
          /\ e.url = TrimURL(page.url)
      BY DEF FromDashboard, Canonical, Request
    <3>4. Absent(page.url) => TrimURL(page.url).form # "http"
      BY <1>1, PageIs DEF Absent, TrimURL, Addresses
    <3>5. e.jobTitle = <<>> \/ e.company = <<>> \/ e.url.form # "http"
      BY <3>2, <3>3, <3>4, BlankIs
    <3> HIDE DEF e
    <3>6. Validate(e) # "ok"
      BY <3>5, ValidateIs
    <3>7. QED
      BY <3>6 DEF e
  <2>3. ASSUME verdict = "unparsed"
        PROVE  title = <<>> \/ company = <<>>
    <3>1. Refused
      BY <1>1, <2>3, EventIs, MadeIs, ValidateIs
    <3>2. textOf(page.title) = <<>> \/ textOf(page.company) = <<>>
      BY <2>3, <3>1 DEF Refused
    <3>3. Shown(page.title) = <<>> \/ Shown(page.company) = <<>>
      BY <1>1, <3>2, PageIs, TextOfShown
    <3>4. Shown(page.title) = <<>> => title = <<>>
      BY <1>1, TaggedBlank DEF TransformInv, PageInv
    <3>5. QED
      BY <1>1, <3>3, <3>4 DEF TransformInv, PageInv
  <2>4. QED
    BY <2>1, <2>2, <2>3 DEF BlankRefused
<1>2. QED
  BY <1>1, TransformAlways, PTL

\* The address that the extension's event has is the posting's, but for what
\* tracks (stripTrackingParams), whoever shared the link.
THEOREM AddressKeptCorrect == TransformSpec => []AddressKept
<1>1. ASSUME TransformInv
      PROVE  AddressKept
  <2> SUFFICES ASSUME Accepted, event.source = "chrome"
               PROVE  /\ ~Tracked(event.url) /\ ~event.url.padded
                      /\ Query(event.url.query, "id") = Query(posting.url.query, "id")
    BY DEF AddressKept
  <2>1. ~Refused
    BY RefusedIs DEF Accepted
  <2> DEFINE url == TrimURL(page.url)
  <2>2. event.url = stripTrackingParams(url) /\ verdict = Validate(event)
    BY <1>1, <2>1, EventIs, MadeIs
  <2>3. /\ url \in Addresses
        /\ Query(url.query, "id") = Query(posting.url.query, "id")
    <3>1. page.url \in Addresses /\ Query(page.url.query, "id") = Query(posting.url.query, "id")
      BY <1>1, PageIs DEF TransformInv, PageInv
    <3>2. url \in Addresses /\ url.query = page.url.query
      BY <3>1 DEF TrimURL, Addresses
    <3>3. QED
      BY <3>1, <3>2
  <2> HIDE DEF url
  <2>4. event.url.form # "malformed" /\ ~event.url.padded
    BY <2>2, ValidateIs DEF Accepted
  <2>5. CASE ~Tracked(url)
    <3>1. event.url = url
      BY <2>2, <2>5 DEF stripTrackingParams
    <3>2. QED
      BY <2>3, <2>4, <2>5, <3>1
  <2>6. CASE Tracked(url)
    <3> DEFINE q == url.query
               r == Query(q, "id")
    <3>1. url.form # "malformed"
      BY <2>2, <2>4 DEF stripTrackingParams
    <3>2. event.url.query = Encode(q)
      BY <2>2, <2>3, <2>6, <3>1 DEF stripTrackingParams, Addresses
    <3>3. q \in Seq(Parameters)
      BY <2>3 DEF Addresses
    <3> HIDE DEF q
    <3>4. event.url.query = r
      BY <3>2, <3>3, EncodeIs
    <3>5. /\ r \in Seq(Parameters) /\ Query(r, "id") = r
          /\ \A i \in 1..Len(r) : r[i].key = "id"
      BY <3>3, QueryTwice
    <3> HIDE DEF r
    <3>6. ~Tracked(event.url)
      BY <3>4, <3>5 DEF Tracked, trackingParams
    <3>7. QED
      BY <2>3, <2>4, <3>4, <3>5, <3>6 DEF q, r
  <2>7. QED
    BY <2>5, <2>6
<1>2. QED
  BY <1>1, TransformAlways, PTL

\* An accepted event shares its key with a posting only if it has the same
\* words, unless a company has the separator of Key in it (dedup.go).
THEOREM KeysTellApartCorrect == TransformSpec => []KeysTellApart
<1>1. ASSUME TransformInv
      PROVE  KeysTellApart
  <2> SUFFICES ASSUME Accepted, NEW p \in Postings,
                      ~Contains(p.company, "|"), ~Contains(event.company, "|"),
                      KeyOf(p) = EventKey
               PROVE  SameWords(p)
    BY DEF KeysTellApart
  <2>1. ~Refused
    BY RefusedIs DEF Accepted
  <2>2. p.company \in Seq(Characters) /\ p.title \in Seq(Characters)
    BY PostingIs DEF AnyPage, Texts
  <2>3. /\ TrimSpace(page.title) \in Seq(Characters)
        /\ TrimSpace(page.company) \in Seq(Characters)
        /\ collapseWhitespace(page.title) \in Seq(Characters)
        /\ collapseWhitespace(page.company) \in Seq(Characters)
        /\ collapseWhitespace(Taken(page.company)) \in Seq(Characters)
        /\ stripBoardSuffix(collapseWhitespace(Taken(page.title))) \in Seq(Characters)
    BY <1>1, PageIs, TrimNoBar, CollapseIs, CollapseTidy, StripTidy
  <2>4. event.company \in Seq(Characters) /\ event.jobTitle \in Seq(Characters)
    BY <1>1, <2>1, <2>3, EventIs, MadeIs
  <2>5. NoBar(p.company) /\ NoBar(event.company)
    BY <2>2, <2>4 DEF NoBar, Contains
  <2>6. Key(UserID, p.company, p.title) = Key(event.userID, event.company, event.jobTitle)
    BY DEF KeyOf, EventKey
  <2>7. QED
    BY <2>2, <2>4, <2>5, <2>6, KeyTellsApart DEF SameWords, Written
<1>2. QED
  BY <1>1, TransformAlways, PTL
=============================================================================
