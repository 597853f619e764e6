--------------------------- MODULE ContainerProofs ---------------------------
(***************************************************************************)
(* Proofs about the containers. Those of two pieces of data, for any keys, *)
(* values, objects and lists: the map in a sorted vector, the hash map     *)
(* with a vector of its nodes, the maps of the plugins; they rest on what  *)
(* FoldLeft goes through, by induction over sets of numbers. And the queue *)
(* that threads share, for any finite sets of threads and any items: types *)
(* and mutual exclusion, that no wakeup is lost, that it implements        *)
(* FifoQueue.                                                              *)
(***************************************************************************)
EXTENDS ProducerConsumerQueue, MCContainers, NaturalsInduction, WellFoundedInduction,
        FunctionTheorems, FiniteSetTheorems, SequenceTheorems, TLAPS

-----------------------------------------------------------------------------
(* Induction and folds. The library's induction is over an operator; here  *)
(* it is over a set, from the fact that < is well founded.                 *)

Less == {p \in Nat \X Nat : p[1] < p[2]}

(* The natural numbers are well founded.                                   *)
LEMMA LessWellFounded == IsWellFoundedOn(Less, Nat)
  BY NatLessThanWellFounded, Zenon DEF OpToRel, Less

(* A set of numbers has a least one.                                       *)
LEMMA LeastExists ==
  ASSUME NEW T \in SUBSET Nat, T # {}
  PROVE  \E x \in T : \A y \in T : x <= y
<1>1. T \subseteq Nat
  OBVIOUS
<1>2. PICK x \in T : \A y \in T : ~(<<y, x>> \in Less)
  BY <1>1, LessWellFounded, WFMin, Zenon
<1>3. \A y \in T : x \in Nat /\ y \in Nat
  OBVIOUS
<1>4. \A y \in T : ~(y < x)
  BY <1>2, <1>3 DEF Less
<1> QED
  BY <1>3, <1>4

(* A set of numbers that has 0 and the next of each of its own has all.    *)
LEMMA SetInduction ==
  ASSUME NEW T \in SUBSET Nat, 0 \in T, \A n \in T : n + 1 \in T
  PROVE  T = Nat
<1> SUFFICES ASSUME Nat \ T # {} PROVE FALSE
  OBVIOUS
<1>1. PICK x \in Nat \ T : \A y \in Nat \ T : x <= y
  <2> DEFINE rest == Nat \ T
  <2>1. rest \in SUBSET Nat /\ rest # {}
    OBVIOUS
  <2> HIDE DEF rest
  <2>2. \E x \in rest : \A y \in rest : x <= y
    BY <2>1, LeastExists
  <2> QED
    BY <2>2 DEF rest
<1>2. x - 1 \in Nat /\ ~(x <= x - 1) /\ x = (x - 1) + 1
  BY <1>1
<1>3. x - 1 \in T
  BY <1>1, <1>2
<1> QED
  BY <1>1, <1>2, <1>3

(* The largest of the numbers up to n that have n among them.              *)
LEMMA MaxLast ==
  ASSUME NEW n \in Nat, NEW s \in SUBSET (1..n), n \in s
  PROVE  Max(s) = n
<1>1. \A y \in s : n >= y
  OBVIOUS
<1>2. \A x \in s : (\A y \in s : x >= y) => x = n
  OBVIOUS
<1> QED
  BY <1>1, <1>2 DEF Max

(* The largest of some numbers is one of them.                             *)
LEMMA MaxIn ==
  ASSUME NEW n \in Nat, NEW s \in SUBSET (1..n), s # {}
  PROVE  Max(s) \in s
<1> DEFINE above == {m \in Nat : \A y \in s : m >= y}
<1>1. above \in SUBSET Nat /\ n \in above
  OBVIOUS
<1>2. PICK m \in above : \A y \in above : m <= y
  <2> HIDE DEF above
  <2> QED
    BY <1>1, LeastExists
<1>3. m \in Nat /\ \A y \in s : m >= y
  BY <1>2
<1>4. m \in s
  <2> SUFFICES ASSUME m \notin s PROVE FALSE
    OBVIOUS
  <2>1. \A y \in s : m - 1 >= y
    BY <1>3
  <2>2. m - 1 \in Nat
    <3>1. PICK y \in s : TRUE
      OBVIOUS
    <3>2. y \in Nat /\ m - 1 >= y /\ m \in Nat
      BY <3>1, <2>1, <1>3
    <3> QED
      BY <3>2
  <2>3. m - 1 \in above /\ ~(m <= m - 1)
    BY <2>1, <2>2
  <2> HIDE DEF above
  <2> QED
    BY <1>2, <2>3
<1> HIDE DEF above
<1> QED
  BY <1>3, <1>4 DEF Max

(* A fold over a list takes the value of the elements before the last, and *)
(* the last.                                                               *)
Round(G, base, list, g, s) == IF s = {} THEN base ELSE G[<<g[s \ {Max(s)}], list[Max(s)]>>]
FoldsUpTo(G, D, base, list, n, g) ==
    /\ g \in [SUBSET (1..n) -> D]
    /\ \A s \in SUBSET (1..n) : g[s] = Round(G, base, list, g, s)

(* One element more.                                                       *)
LEMMA FoldNext ==
  ASSUME NEW D, NEW E, NEW G \in [D \X E -> D], NEW base \in D, NEW list \in Seq(E),
         NEW n \in Nat, n < Len(list), NEW g, FoldsUpTo(G, D, base, list, n, g)
  PROVE  \E h : FoldsUpTo(G, D, base, list, n + 1, h)
<1> DEFINE h == [s \in SUBSET (1..n + 1) |-> IF n + 1 \in s THEN G[<<g[s \ {n + 1}], list[n + 1]>>]
                                                          ELSE g[s]]
<1>1. g \in [SUBSET (1..n) -> D] /\ \A s \in SUBSET (1..n) : g[s] = Round(G, base, list, g, s)
  BY DEF FoldsUpTo
<1>2. list[n + 1] \in E
  OBVIOUS
<1>3. \A s \in SUBSET (1..n + 1) : s \ {n + 1} \in SUBSET (1..n)
  OBVIOUS
<1>4. \A s \in SUBSET (1..n + 1) : n + 1 \notin s => s \in SUBSET (1..n)
  OBVIOUS
<1>5. \A s \in SUBSET (1..n) : s \in SUBSET (1..n + 1) /\ n + 1 \notin s
  OBVIOUS
<1>6. \A s \in SUBSET (1..n) : h[s] = g[s]
  BY <1>5
<1>7. h \in [SUBSET (1..n + 1) -> D]
  <2>1. ASSUME NEW s \in SUBSET (1..n + 1)
        PROVE  (IF n + 1 \in s THEN G[<<g[s \ {n + 1}], list[n + 1]>>] ELSE g[s]) \in D
    <3>1. CASE n + 1 \in s
      <4>1. <<g[s \ {n + 1}], list[n + 1]>> \in D \X E
        BY <1>1, <1>2, <1>3
      <4> QED
        BY <4>1, <3>1
    <3>2. CASE n + 1 \notin s
      BY <3>2, <1>1, <1>4
    <3> QED
      BY <3>1, <3>2
  <2> QED
    BY <2>1
<1>8. ASSUME NEW s \in SUBSET (1..n + 1) PROVE h[s] = Round(G, base, list, h, s)
  <2>1. CASE n + 1 \in s
    <3>1. Max(s) = n + 1 /\ s # {}
      BY <2>1, MaxLast
    <3>2. h[s] = G[<<g[s \ {n + 1}], list[n + 1]>>]
      BY <2>1
    <3>3. h[s \ {n + 1}] = g[s \ {n + 1}]
      BY <1>3, <1>6
    <3> HIDE DEF h
    <3> QED
      BY <3>1, <3>2, <3>3 DEF Round
  <2>2. CASE n + 1 \notin s
    <3>1. s \in SUBSET (1..n)
      BY <2>2, <1>4
    <3>2. h[s] = g[s] /\ g[s] = Round(G, base, list, g, s)
      BY <3>1, <1>1, <1>6
    <3> HIDE DEF h
    <3>3. CASE s = {}
      BY <3>2, <3>3 DEF Round
    <3>4. CASE s # {}
      <4>1. s \ {Max(s)} \in SUBSET (1..n)
        BY <3>1
      <4>2. h[s \ {Max(s)}] = g[s \ {Max(s)}]
        BY <4>1, <1>6
      <4> QED
        BY <4>2, <3>2, <3>4 DEF Round
    <3> QED
      BY <3>3, <3>4
  <2> QED
    BY <2>1, <2>2
<1> HIDE DEF h
<1>9. FoldsUpTo(G, D, base, list, n + 1, h)
  BY <1>7, <1>8 DEF FoldsUpTo
<1> QED
  BY <1>9

(* A function that is applied over a list has a table of its values.       *)
LEMMA FoldTable ==
  ASSUME NEW D, NEW E, NEW G \in [D \X E -> D], NEW base \in D, NEW list \in Seq(E)
  PROVE  \E g : FoldsUpTo(G, D, base, list, Len(list), g)
<1> DEFINE T == {n \in Nat : n > Len(list) \/ \E g : FoldsUpTo(G, D, base, list, n, g)}
<1>1. 0 \in T
  <2> DEFINE g == [s \in SUBSET (1..0) |-> base]
  <2>1. \A s \in SUBSET (1..0) : s = {}
    OBVIOUS
  <2>2. FoldsUpTo(G, D, base, list, 0, g)
    BY <2>1 DEF FoldsUpTo, Round
  <2> QED
    BY <2>2
<1>2. ASSUME NEW n \in T PROVE n + 1 \in T
  <2>1. n \in Nat /\ n + 1 \in Nat /\ Len(list) \in Nat
    OBVIOUS
  <2>2. CASE n < Len(list)
    <3>1. \E g : FoldsUpTo(G, D, base, list, n, g)
      BY <2>1, <2>2
    <3>2. \E h : FoldsUpTo(G, D, base, list, n + 1, h)
      BY <3>1, <2>1, <2>2, FoldNext, Zenon
    <3> QED
      BY <3>2, <2>1
  <2>3. CASE ~(n < Len(list))
    BY <2>1, <2>3
  <2> QED
    BY <2>2, <2>3
<1>3. T \in SUBSET Nat
  OBVIOUS
<1>4. T = Nat
  <2> HIDE DEF T
  <2> QED
    BY <1>1, <1>2, <1>3, SetInduction
<1>5. Len(list) \in Nat /\ ~(Len(list) > Len(list))
  OBVIOUS
<1>6. Len(list) \in T
  <2> HIDE DEF T
  <2> QED
    BY <1>4, <1>5
<1> QED
  BY <1>5, <1>6

(* The numbers up to one of them.                                          *)
LEMMA Prefix ==
  ASSUME NEW n \in Nat, NEW i \in 1..n
  PROVE  /\ 1..i \in SUBSET (1..n) /\ 1..i # {} /\ Max(1..i) = i
         /\ (1..i) \ {i} = 1..i - 1 /\ 1..i - 1 \in SUBSET (1..n)
<1>1. i \in Nat /\ 1..i \in SUBSET (1..i) /\ i \in 1..i
  OBVIOUS
<1>2. Max(1..i) = i
  BY <1>1, MaxLast
<1> QED
  BY <1>1, <1>2

(* What a fold that has a table goes through.                              *)
FoldsIn(G, D, base, list, g) ==
    /\ g[{}] = base
    /\ \A s \in SUBSET (1..Len(list)) : s # {} /\ g[s \ {Max(s)}] \in D
                                        => g[s] = G[<<g[s \ {Max(s)}], list[Max(s)]>>]
RunsOver(G, D, base, list, g, h) ==
    /\ h \in [0..Len(list) -> D] /\ h[0] = base /\ h[Len(list)] = g[1..Len(list)]
    /\ \A i \in 1..Len(list) : h[i] = G[<<h[i - 1], list[i]>>]

(* There is such a run, and it ends with the value of the fold.            *)
LEMMA FoldRuns ==
  ASSUME NEW D, NEW E, NEW G \in [D \X E -> D], NEW base \in D, NEW list \in Seq(E),
         NEW g, FoldsIn(G, D, base, list, g)
  PROVE  \E h : RunsOver(G, D, base, list, g, h)
<1> DEFINE n == Len(list)
<1>1. n \in Nat /\ \A i \in 1..n : list[i] \in E
  OBVIOUS
<1>2. /\ g[{}] = base
      /\ \A s \in SUBSET (1..n) : s # {} /\ g[s \ {Max(s)}] \in D
                                  => g[s] = G[<<g[s \ {Max(s)}], list[Max(s)]>>]
  BY DEF FoldsIn
<1> HIDE DEF n
<1>3. g[1..0] = base
  <2>1. 1..0 = {}
    OBVIOUS
  <2> QED
    BY <2>1, <1>2
<1>4. ASSUME NEW i \in 1..n, g[1..i - 1] \in D PROVE g[1..i] = G[<<g[1..i - 1], list[i]>>]
  <2>1. /\ 1..i \in SUBSET (1..n) /\ 1..i # {} /\ Max(1..i) = i
        /\ (1..i) \ {i} = 1..i - 1
    BY <1>1, Prefix
  <2> QED
    BY <2>1, <1>2, <1>4
<1>5. \A i \in 0..n : g[1..i] \in D
  <2> DEFINE T == {i \in Nat : i > n \/ g[1..i] \in D}
  <2>1. 0 \in T
    BY <1>3
  <2>2. ASSUME NEW i \in T PROVE i + 1 \in T
    <3>1. CASE i + 1 > n
      BY <3>1
    <3>2. CASE ~(i + 1 > n)
      <4>1. i + 1 \in 1..n /\ i \in Nat /\ ~(i > n) /\ (i + 1) - 1 = i
        BY <3>2, <1>1
      <4>2. <<g[1..i], list[i + 1]>> \in D \X E
        BY <4>1, <1>1
      <4>3. g[1..i + 1] = G[<<g[1..i], list[i + 1]>>]
        BY <4>1, <1>4
      <4>4. g[1..i + 1] \in D
        BY <4>2, <4>3
      <4> QED
        BY <4>1, <4>4
    <3> QED
      BY <3>1, <3>2
  <2>3. T \in SUBSET Nat
    OBVIOUS
  <2>4. T = Nat
    <3> HIDE DEF T
    <3> QED
      BY <2>1, <2>2, <2>3, SetInduction
  <2>5. \A i \in 0..n : i \in T /\ ~(i > n)
    BY <2>4, <1>1
  <2> QED
    BY <2>5
<1> DEFINE h == [i \in 0..n |-> g[1..i]]
<1>6. h \in [0..n -> D] /\ h[0] = base /\ h[n] = g[1..n]
  BY <1>1, <1>3, <1>5
<1>7. ASSUME NEW i \in 1..n PROVE h[i] = G[<<h[i - 1], list[i]>>]
  <2>1. i \in 0..n /\ i - 1 \in 0..n
    BY <1>1
  <2> QED
    BY <2>1, <1>4, <1>5
<1> HIDE DEF h
<1> QED
  BY <1>6, <1>7 DEF n, RunsOver

-----------------------------------------------------------------------------
(* The map in a sorted vector                                              *)

FlatEntries == Keys \X Values

(* Later entries have larger keys.                                         *)
SortedVectors == {d \in Seq(FlatEntries) :
                    \A i, j \in 1..Len(d) : i < j => d[i][1] < d[j][1]}

FlatInv == data \in SortedVectors /\ ret \in FlatEntries \cup {Absent}

(* What is assumed of keys and values.                                     *)
LEMMA FlatAssumed ==
  /\ Keys \subseteq Nat /\ Default \in Values /\ Absent \notin Values
  /\ Lists \subseteq Seq(FlatEntries)
<1>1. Flat!FlatMapAssumption
  BY ContainersAssumption, Zenon DEF ContainersAssumption
<1> QED
  BY <1>1 DEF Flat!FlatMapAssumption, FlatEntries

(* An entry is a key and a value.                                          *)
LEMMA EntryIs ==
  ASSUME NEW e \in FlatEntries
  PROVE  e[1] \in Keys /\ e[1] \in Nat /\ e[2] \in Values /\ e = <<e[1], e[2]>>
<1>1. PICK k \in Keys, v \in Values : e = <<k, v>>
  BY DEF FlatEntries
<1>2. k \in Nat
  BY FlatAssumed
<1> QED
  BY <1>1, <1>2

(* An element goes in between those before its place and those from there. *)
LEMMA InsertedAt ==
  ASSUME NEW S, NEW s \in Seq(S), NEW u \in 1..Len(s) + 1, NEW e \in S
  PROVE  LET r == Flat!InsertAt(s, u, e) IN
         /\ r \in Seq(S) /\ Len(r) = Len(s) + 1 /\ r[u] = e
         /\ \A i \in 1..Len(s) + 1 : /\ i < u => r[i] = s[i]
                                     /\ i > u => r[i] = s[i - 1]
<1> DEFINE n == Len(s)
           p == SubSeq(s, 1, u - 1)
           q == SubSeq(s, u, n)
<1>1. n \in Nat /\ u \in Int /\ u - 1 \in Int /\ u - 1 <= n /\ 1 <= u /\ u <= n + 1
  OBVIOUS
<1>2. /\ p \in Seq(S) /\ Len(p) = u - 1 /\ \A i \in 1..u - 1 : p[i] = s[i]
  <2>1. \A i \in 1..u - 1 : s[i] \in S
    OBVIOUS
  <2>2. /\ p \in Seq(S) /\ Len(p) = (IF 1 <= u - 1 THEN (u - 1) - 1 + 1 ELSE 0)
        /\ \A i \in 1..(u - 1) - 1 + 1 : p[i] = s[1 + i - 1]
    BY <1>1, <2>1, SubSeqProperties
  <2> HIDE DEF p
  <2>3. Len(p) = u - 1 /\ (u - 1) - 1 + 1 = u - 1
    BY <2>2, <1>1
  <2>4. \A i \in 1..u - 1 : 1 + i - 1 = i
    BY <1>1
  <2> QED
    BY <2>2, <2>3, <2>4
<1>3. /\ q \in Seq(S) /\ Len(q) = n - u + 1 /\ \A i \in 1..n - u + 1 : q[i] = s[u + i - 1]
  <2>1. \A i \in u..n : s[i] \in S
    OBVIOUS
  <2>2. /\ q \in Seq(S) /\ Len(q) = (IF u <= n THEN n - u + 1 ELSE 0)
        /\ \A i \in 1..n - u + 1 : q[i] = s[u + i - 1]
    BY <1>1, <2>1, SubSeqProperties
  <2> HIDE DEF q
  <2> QED
    BY <2>2, <1>1
<1> DEFINE r == Flat!InsertAt(s, u, e)
<1>4. r = p \o <<e>> \o q
  BY DEF Flat!InsertAt
<1> HIDE DEF p, q, r, n
<1>5. /\ r \in Seq(S) /\ Len(r) = n + 1
      /\ \A i \in 1..n + 1 : r[i] = IF i <= u - 1 THEN p[i] ELSE IF i = u THEN e ELSE q[i - u]
  <2> DEFINE t == p \o <<e>>
  <2>1. /\ t \in Seq(S) /\ Len(t) = u
        /\ \A i \in 1..u : t[i] = IF i <= u - 1 THEN p[i] ELSE e
    BY <1>1, <1>2
  <2>2. r = t \o q
    BY <1>4
  <2> HIDE DEF t
  <2>a. /\ r \in Seq(S) /\ Len(r) = Len(t) + Len(q)
        /\ \A i \in 1..Len(t) + Len(q) : r[i] = IF i <= Len(t) THEN t[i] ELSE q[i - Len(t)]
    BY <2>1, <2>2, <1>3, ConcatProperties
  <2>b. Len(t) = u /\ Len(t) + Len(q) = n + 1
    BY <2>1, <1>1, <1>3
  <2>3. r \in Seq(S) /\ Len(r) = n + 1
    BY <2>a, <2>b
  <2>4. \A i \in 1..n + 1 : r[i] = IF i <= u THEN t[i] ELSE q[i - u]
    BY <2>a, <2>b
  <2> QED
    BY <2>1, <2>3, <2>4, <1>1
<1>6. r[u] = e
  BY <1>5, <1>1
<1>7. ASSUME NEW i \in 1..n + 1, i > u PROVE r[i] = s[i - 1]
  <2>1. i - u \in 1..n - u + 1 /\ u + (i - u) - 1 = i - 1 /\ ~(i <= u - 1) /\ i # u
    BY <1>1, <1>7
  <2>2. r[i] = q[i - u]
    BY <2>1, <1>5
  <2>3. q[i - u] = s[u + (i - u) - 1]
    BY <2>1, <1>3
  <2> QED
    BY <2>1, <2>2, <2>3
<1>8. ASSUME NEW i \in 1..n + 1, i < u PROVE r[i] = s[i]
  BY <1>1, <1>2, <1>5, <1>8
<1> QED
  BY <1>5, <1>6, <1>7, <1>8 DEF r, n

(* An element goes, those after it move up.                                *)
LEMMA RemovedAt ==
  ASSUME NEW S, NEW s \in Seq(S), NEW u \in 1..Len(s)
  PROVE  LET r == Flat!RemoveAt(s, u) IN
         /\ r \in Seq(S) /\ Len(r) = Len(s) - 1
         /\ \A i \in 1..Len(s) - 1 : r[i] = IF i < u THEN s[i] ELSE s[i + 1]
<1> DEFINE n == Len(s)
           p == SubSeq(s, 1, u - 1)
           q == SubSeq(s, u + 1, n)
<1>1. n \in Nat /\ u \in Int /\ u - 1 \in Int /\ u + 1 \in Int /\ u <= n /\ 1 <= u
  OBVIOUS
<1>2. /\ p \in Seq(S) /\ Len(p) = u - 1 /\ \A i \in 1..u - 1 : p[i] = s[i]
  <2>1. \A i \in 1..u - 1 : s[i] \in S
    OBVIOUS
  <2>2. /\ p \in Seq(S) /\ Len(p) = (IF 1 <= u - 1 THEN (u - 1) - 1 + 1 ELSE 0)
        /\ \A i \in 1..(u - 1) - 1 + 1 : p[i] = s[1 + i - 1]
    BY <1>1, <2>1, SubSeqProperties
  <2> HIDE DEF p
  <2>3. Len(p) = u - 1 /\ (u - 1) - 1 + 1 = u - 1
    BY <2>2, <1>1
  <2>4. \A i \in 1..u - 1 : 1 + i - 1 = i
    BY <1>1
  <2> QED
    BY <2>2, <2>3, <2>4
<1>3. /\ q \in Seq(S) /\ Len(q) = n - u /\ \A i \in 1..n - u : q[i] = s[u + i]
  <2>1. \A i \in u + 1..n : s[i] \in S
    OBVIOUS
  <2>2. /\ q \in Seq(S) /\ Len(q) = (IF u + 1 <= n THEN n - (u + 1) + 1 ELSE 0)
        /\ \A i \in 1..n - (u + 1) + 1 : q[i] = s[(u + 1) + i - 1]
    BY <1>1, <2>1, SubSeqProperties
  <2> HIDE DEF q
  <2>3. Len(q) = n - u /\ n - (u + 1) + 1 = n - u
    BY <2>2, <1>1
  <2>4. \A i \in 1..n - u : (u + 1) + i - 1 = u + i
    BY <1>1
  <2> QED
    BY <2>2, <2>3, <2>4
<1> DEFINE r == Flat!RemoveAt(s, u)
<1>4. r = p \o q
  BY DEF Flat!RemoveAt
<1> HIDE DEF p, q, r, n
<1>5. r \in Seq(S) /\ Len(r) = n - 1
  <2>1. r \in Seq(S) /\ Len(r) = Len(p) + Len(q)
    BY <1>2, <1>3, <1>4, ConcatProperties
  <2> QED
    BY <2>1, <1>1, <1>2, <1>3
<1>6. \A i \in 1..n - 1 : r[i] = IF i <= u - 1 THEN p[i] ELSE q[i - (u - 1)]
  BY <1>1, <1>2, <1>3, <1>4
<1>7. ASSUME NEW i \in 1..n - 1 PROVE r[i] = IF i < u THEN s[i] ELSE s[i + 1]
  <2>1. CASE i < u
    BY <2>1, <1>1, <1>2, <1>6
  <2>2. CASE ~(i < u)
    <3>1. i - (u - 1) \in 1..n - u /\ u + (i - (u - 1)) = i + 1 /\ ~(i <= u - 1)
      BY <2>2, <1>1
    <3>2. r[i] = q[i - (u - 1)]
      BY <3>1, <1>6
    <3>3. q[i - (u - 1)] = s[u + (i - (u - 1))]
      BY <3>1, <1>3
    <3> QED
      BY <3>1, <3>2, <3>3, <2>2
  <2> QED
    BY <2>1, <2>2
<1> QED
  BY <1>5, <1>7 DEF r, n

(* upper_bound finds the first entry that is not below the key.            *)
LEMMA UpperBoundIs ==
  ASSUME NEW d \in SortedVectors, NEW k \in Keys
  PROVE  LET u == Flat!UpperBound(d, k) IN
         /\ u \in 1..Len(d) + 1
         /\ \A i \in 1..Len(d) : (i < u <=> d[i][1] < k) /\ d[i] \in FlatEntries
         /\ Flat!Hit(d, k) <=> \E i \in 1..Len(d) : d[i][1] = k
         /\ \A i \in 1..Len(d) : d[i][1] = k => i = u
<1> DEFINE from == {i \in 1..Len(d) : k <= d[i][1]}
           u == Flat!UpperBound(d, k)
<1>1. d \in Seq(FlatEntries) /\ \A i, j \in 1..Len(d) : i < j => d[i][1] < d[j][1]
  BY DEF SortedVectors
<1>2. Len(d) \in Nat /\ DOMAIN d = 1..Len(d) /\ \A i \in 1..Len(d) : d[i] \in FlatEntries
  BY <1>1
<1>3. k \in Nat /\ \A i \in 1..Len(d) : d[i][1] \in Nat
  BY <1>2, FlatAssumed DEF FlatEntries
<1>4. CASE from = {}
  <2>1. u = Len(d) + 1
    BY <1>2, <1>4 DEF Flat!UpperBound, Flat!End
  <2>2. \A i \in 1..Len(d) : d[i][1] < k
    BY <1>3, <1>4
  <2>3. ~Flat!Hit(d, k)
    BY <2>1 DEF Flat!Hit, Flat!End
  <2> HIDE DEF u
  <2> QED
    BY <2>1, <2>2, <2>3, <1>2, <1>3 DEF u
<1>5. CASE from # {}
  <2>1. from \in SUBSET Nat
    BY <1>2
  <2>2. u = CHOOSE i \in from : \A j \in from : i <= j
    BY <1>2, <1>5 DEF Flat!UpperBound
  <2>3. u \in from /\ \A j \in from : u <= j
    <3> HIDE DEF from, u
    <3>1. \E i \in from : \A j \in from : i <= j
      BY <2>1, <1>5, LeastExists
    <3> QED
      BY <3>1, <2>2
  <2>4. u \in 1..Len(d) /\ k <= d[u][1]
    BY <2>3
  <2>5. \A i \in 1..Len(d) : i < u => d[i][1] < k
    BY <2>3, <2>4, <1>2, <1>3
  <2>6. Flat!Hit(d, k) <=> d[u][1] = k
    BY <2>4, <1>2 DEF Flat!Hit, Flat!End
  <2> HIDE DEF u, from
  <2>7. \A i \in 1..Len(d) : u < i => k < d[i][1]
    BY <2>4, <1>1, <1>2, <1>3
  <2>8. \A i \in 1..Len(d) : i < u <=> d[i][1] < k
    BY <2>4, <2>5, <2>7, <1>2, <1>3
  <2>9. \A i \in 1..Len(d) : d[i][1] = k => i = u
    BY <2>4, <2>5, <2>7, <1>2, <1>3
  <2> QED
    BY <2>4, <2>6, <2>8, <2>9, <1>2 DEF u
<1> QED
  BY <1>4, <1>5

(* An entry whose key is not there goes in at its place.                   *)
LEMMA InsertedSorted ==
  ASSUME NEW d \in SortedVectors, NEW e \in FlatEntries, ~Flat!Hit(d, e[1])
  PROVE  LET u == Flat!UpperBound(d, e[1])
             r == Flat!InsertAt(d, u, e) IN
         /\ u \in 1..Len(d) + 1 /\ r \in SortedVectors /\ Len(r) = Len(d) + 1 /\ r[u] = e
         /\ \A i \in 1..Len(d) + 1 : (i < u => r[i] = d[i]) /\ (i > u => r[i] = d[i - 1])
<1> DEFINE k == e[1]
           u == Flat!UpperBound(d, k)
           r == Flat!InsertAt(d, u, e)
<1>1. d \in Seq(FlatEntries) /\ \A i, j \in 1..Len(d) : i < j => d[i][1] < d[j][1]
  BY DEF SortedVectors
<1>2. k \in Keys /\ k \in Nat /\ Len(d) \in Nat
  BY <1>1, EntryIs
<1>3. \A i \in 1..Len(d) : d[i] \in FlatEntries /\ d[i][1] \in Nat
  BY <1>1, EntryIs
<1>4. /\ u \in 1..Len(d) + 1
      /\ \A i \in 1..Len(d) : (i < u <=> d[i][1] < k) /\ d[i][1] # k
  <2> HIDE DEF k, u
  <2> QED
    BY <1>2, UpperBoundIs DEF k, u
<1> HIDE DEF u
<1>5. /\ r \in Seq(FlatEntries) /\ Len(r) = Len(d) + 1 /\ r[u] = e
      /\ \A i \in 1..Len(d) + 1 : (i < u => r[i] = d[i]) /\ (i > u => r[i] = d[i - 1])
  BY <1>1, <1>4, InsertedAt
<1> HIDE DEF r
<1>6. ASSUME NEW i \in 1..Len(r), NEW j \in 1..Len(r), i < j PROVE r[i][1] < r[j][1]
  <2>1. CASE j < u
    BY <2>1, <1>1, <1>2, <1>4, <1>5, <1>6
  <2>2. CASE j = u
    <3>1. i < u /\ i \in 1..Len(d) /\ r[i] = d[i] /\ r[j] = e
      BY <2>2, <1>2, <1>4, <1>5, <1>6
    <3> QED
      BY <3>1, <1>4
  <2>3. CASE j > u /\ i = u
    <3>1. j - 1 \in 1..Len(d) /\ ~(j - 1 < u) /\ r[j] = d[j - 1] /\ r[i] = e
      BY <2>3, <1>2, <1>4, <1>5, <1>6
    <3>2. ~(d[j - 1][1] < k) /\ d[j - 1][1] # k /\ d[j - 1][1] \in Nat
      BY <3>1, <1>3, <1>4
    <3>3. k < d[j - 1][1]
      BY <3>2, <1>2
    <3> QED
      BY <3>1, <3>3
  <2>4. CASE j > u /\ i < u
    <3>1. /\ j - 1 \in 1..Len(d) /\ ~(j - 1 < u) /\ r[j] = d[j - 1]
          /\ i \in 1..Len(d) /\ r[i] = d[i]
      BY <2>4, <1>2, <1>4, <1>5, <1>6
    <3>2. /\ ~(d[j - 1][1] < k) /\ d[j - 1][1] # k /\ d[j - 1][1] \in Nat
          /\ d[i][1] < k /\ d[i][1] \in Nat
      BY <3>1, <2>4, <1>3, <1>4
    <3>3. d[i][1] < d[j - 1][1]
      BY <3>2, <1>2
    <3> QED
      BY <3>1, <3>3
  <2>5. CASE j > u /\ i > u
    <3>1. /\ j - 1 \in 1..Len(d) /\ r[j] = d[j - 1]
          /\ i - 1 \in 1..Len(d) /\ r[i] = d[i - 1] /\ i - 1 < j - 1
      BY <2>5, <1>2, <1>4, <1>5, <1>6
    <3> QED
      BY <3>1, <1>1
  <2> QED
    BY <2>1, <2>2, <2>3, <2>4, <2>5, <1>2, <1>4, <1>5
<1>7. r \in SortedVectors
  BY <1>5, <1>6 DEF SortedVectors
<1> QED
  BY <1>4, <1>5, <1>7 DEF u, r, k

(* Emplace keeps the vector sorted, and the key is at its upper bound.     *)
LEMMA EmplacedSorted ==
  ASSUME NEW d \in SortedVectors, NEW e \in FlatEntries
  PROVE  /\ Flat!Emplaced(d, e) \in SortedVectors
         /\ Flat!UpperBound(d, e[1]) \in 1..Len(Flat!Emplaced(d, e))
         /\ Flat!Emplaced(d, e)[Flat!UpperBound(d, e[1])][1] = e[1]
<1>a. e[1] \in Keys
  BY EntryIs
<1>b. Flat!UpperBound(d, e[1]) \in 1..Len(d) + 1 /\ Len(d) \in Nat
  BY <1>a, UpperBoundIs DEF SortedVectors
<1>1. CASE Flat!Hit(d, e[1])
  <2>1. Flat!UpperBound(d, e[1]) # Len(d) + 1 /\ d[Flat!UpperBound(d, e[1])][1] = e[1]
    BY <1>1 DEF Flat!Hit, Flat!End
  <2>2. Flat!Emplaced(d, e) = d
    BY <1>1 DEF Flat!Emplaced
  <2> QED
    BY <2>1, <2>2, <1>b
<1>2. CASE ~Flat!Hit(d, e[1])
  <2> DEFINE r == Flat!InsertAt(d, Flat!UpperBound(d, e[1]), e)
  <2>1. Flat!Emplaced(d, e) = r
    BY <1>2 DEF Flat!Emplaced
  <2>2. r \in SortedVectors /\ Len(r) = Len(d) + 1 /\ r[Flat!UpperBound(d, e[1])] = e
    BY <1>2, InsertedSorted
  <2> HIDE DEF r
  <2> QED
    BY <2>1, <2>2, <1>b
<1> QED
  BY <1>1, <1>2

(* A list is emplaced entry by entry.                                      *)
LEMMA EmplacedAllRuns ==
  ASSUME NEW d \in SortedVectors, NEW list \in Seq(FlatEntries)
  PROVE  \E h \in [0..Len(list) -> SortedVectors] :
            /\ h[0] = d /\ h[Len(list)] = Flat!EmplacedAll(d, list)
            /\ \A i \in 1..Len(list) : h[i] = Flat!Emplaced(h[i - 1], list[i])
<1> DEFINE n == Len(list)
           IsFold(c) == c = [s \in SUBSET (1..n) |->
                               IF s = {} THEN d
                               ELSE Flat!Emplaced(c[s \ {Max(s)}], list[Max(s)])]
           G == [p \in SortedVectors \X FlatEntries |-> Flat!Emplaced(p[1], p[2])]
<1>1. n \in Nat /\ DOMAIN list = 1..n /\ \A i \in 1..n : list[i] \in FlatEntries
  OBVIOUS
<1>2. \E c : IsFold(c)
  <2>1. G \in [SortedVectors \X FlatEntries -> SortedVectors]
    BY EmplacedSorted
  <2>2. \A a \in SortedVectors, e \in FlatEntries : G[<<a, e>>] = Flat!Emplaced(a, e)
    OBVIOUS
  <2> HIDE DEF G
  <2>3. PICK g : FoldsUpTo(G, SortedVectors, d, list, n, g)
    BY <2>1, FoldTable, Zenon
  <2>4. /\ g \in [SUBSET (1..n) -> SortedVectors]
        /\ \A s \in SUBSET (1..n) : g[s] = Round(G, d, list, g, s)
    BY <2>3 DEF FoldsUpTo
  <2>5. ASSUME NEW s \in SUBSET (1..n)
        PROVE  g[s] = IF s = {} THEN d ELSE Flat!Emplaced(g[s \ {Max(s)}], list[Max(s)])
    <3>1. CASE s = {}
      BY <3>1, <2>4 DEF Round
    <3>2. CASE s # {}
      <4>1. Max(s) \in s /\ s \ {Max(s)} \in SUBSET (1..n)
        BY <3>2, <1>1, MaxIn
      <4>2. g[s \ {Max(s)}] \in SortedVectors /\ list[Max(s)] \in FlatEntries
        BY <4>1, <2>4, <1>1
      <4>3. G[<<g[s \ {Max(s)}], list[Max(s)]>>]
               = Flat!Emplaced(g[s \ {Max(s)}], list[Max(s)])
        BY <4>2, <2>2
      <4> QED
        BY <4>3, <3>2, <2>4 DEF Round
    <3> QED
      BY <3>1, <3>2
  <2>6. IsFold(g)
    BY <2>4, <2>5
  <2> QED
    BY <2>6
<1>3. Flat!EmplacedAll(d, list) = (CHOOSE c : IsFold(c))[1..n]
  BY <1>1 DEF Flat!EmplacedAll, Flat!FoldLeft, Flat!MapThenFoldSet, Max, Flat!Max
<1>4. PICK c : IsFold(c) /\ Flat!EmplacedAll(d, list) = c[1..n]
  <2> HIDE DEF IsFold
  <2> QED
    BY <1>2, <1>3
<1>5. \A s \in SUBSET (1..n) :
         c[s] = IF s = {} THEN d ELSE Flat!Emplaced(c[s \ {Max(s)}], list[Max(s)])
  BY <1>4
<1> HIDE DEF IsFold
<1>a. G \in [SortedVectors \X FlatEntries -> SortedVectors]
  BY EmplacedSorted
<1>b. \A a \in SortedVectors, e \in FlatEntries : G[<<a, e>>] = Flat!Emplaced(a, e)
  OBVIOUS
<1> HIDE DEF G
<1>6. ASSUME NEW s \in SUBSET (1..n), s # {}, c[s \ {Max(s)}] \in SortedVectors
      PROVE  c[s] = G[<<c[s \ {Max(s)}], list[Max(s)]>>]
  <2>1. Max(s) \in s
    BY <1>1, <1>6, MaxIn
  <2>2. list[Max(s)] \in FlatEntries
    BY <1>1, <2>1
  <2> QED
    BY <1>5, <1>6, <1>b, <2>2
<1>7. FoldsIn(G, SortedVectors, d, list, c)
  BY <1>5, <1>6 DEF FoldsIn
<1>8. PICK h : RunsOver(G, SortedVectors, d, list, c, h)
  BY <1>a, <1>7, FoldRuns, Zenon
<1>9. /\ h \in [0..n -> SortedVectors] /\ h[0] = d /\ h[n] = c[1..n]
      /\ \A i \in 1..n : h[i] = G[<<h[i - 1], list[i]>>]
  BY <1>8 DEF RunsOver
<1>10. ASSUME NEW i \in 1..n PROVE h[i] = Flat!Emplaced(h[i - 1], list[i])
  <2>1. i - 1 \in 0..n /\ h[i - 1] \in SortedVectors /\ list[i] \in FlatEntries
    BY <1>1, <1>9
  <2> QED
    BY <2>1, <1>9, <1>b
<1> QED
  BY <1>4, <1>9, <1>10

(* Emplacing a list keeps the vector sorted.                               *)
LEMMA EmplacedAllSorted ==
  ASSUME NEW d \in SortedVectors, NEW list \in Seq(FlatEntries)
  PROVE  Flat!EmplacedAll(d, list) \in SortedVectors
<1>1. PICK h \in [0..Len(list) -> SortedVectors] : h[Len(list)] = Flat!EmplacedAll(d, list)
  BY EmplacedAllRuns
<1>2. Len(list) \in 0..Len(list)
  OBVIOUS
<1> QED
  BY <1>1, <1>2

(* An iterator refers to an entry, or it is the end.                       *)
LEMMA AtEntry ==
  ASSUME NEW d \in SortedVectors, NEW i \in 1..Len(d) + 1
  PROVE  Flat!At(d, i) \in FlatEntries \cup {Absent}
<1>1. d \in Seq(FlatEntries) /\ Len(d) \in Nat
  BY DEF SortedVectors
<1>2. i = Len(d) + 1 \/ d[i] \in FlatEntries
  BY <1>1
<1> QED
  BY <1>2 DEF Flat!At, Flat!End

(* find() refers to the entry with the key or is the end.                  *)
LEMMA FindIs ==
  ASSUME NEW d \in SortedVectors, NEW k \in Keys
  PROVE  /\ Flat!find(d, k) \in 1..Len(d) + 1
         /\ Flat!Hit(d, k) => /\ Flat!find(d, k) = Flat!UpperBound(d, k)
                              /\ Flat!find(d, k) \in 1..Len(d) /\ d[Flat!find(d, k)][1] = k
         /\ ~Flat!Hit(d, k) => Flat!find(d, k) = Len(d) + 1
<1> DEFINE u == Flat!UpperBound(d, k)
<1>1. u \in 1..Len(d) + 1 /\ Len(d) \in Nat
  BY UpperBoundIs DEF SortedVectors
<1> HIDE DEF u
<1>2. CASE Flat!Hit(d, k)
  <2>1. u # Len(d) + 1 /\ d[u][1] = k /\ Flat!find(d, k) = u
    BY <1>2 DEF Flat!Hit, Flat!End, Flat!find, u
  <2> QED
    BY <2>1, <1>1, <1>2 DEF u
<1>3. CASE ~Flat!Hit(d, k)
  BY <1>1, <1>3 DEF Flat!find, Flat!End
<1> QED
  BY <1>2, <1>3

(* The entry of a key is replaced.                                         *)
LEMMA AssignedSorted ==
  ASSUME NEW d \in SortedVectors, NEW k \in Keys, NEW v \in Values, Flat!Hit(d, k)
  PROVE  /\ Flat!UpperBound(d, k) \in 1..Len(d)
         /\ [d EXCEPT ![Flat!UpperBound(d, k)] = <<k, v>>] \in SortedVectors
<1> DEFINE u == Flat!UpperBound(d, k)
           r == [d EXCEPT ![u] = <<k, v>>]
<1>1. u \in 1..Len(d) /\ d[u][1] = k
  BY FindIs
<1>2. d \in Seq(FlatEntries) /\ \A i, j \in 1..Len(d) : i < j => d[i][1] < d[j][1]
  BY DEF SortedVectors
<1>3. <<k, v>> \in FlatEntries /\ <<k, v>>[1] = k
  BY DEF FlatEntries
<1> HIDE DEF u
<1>4. /\ r \in Seq(FlatEntries) /\ Len(r) = Len(d)
      /\ \A i \in 1..Len(d) : r[i] = IF i = u THEN <<k, v>> ELSE d[i]
  BY <1>1, <1>2, <1>3
<1> HIDE DEF r
<1>5. \A i \in 1..Len(d) : r[i][1] = d[i][1]
  BY <1>1, <1>3, <1>4
<1>6. r \in SortedVectors
  BY <1>2, <1>4, <1>5 DEF SortedVectors
<1> QED
  BY <1>1, <1>6 DEF r, u

(* An entry is removed.                                                    *)
LEMMA RemovedSorted ==
  ASSUME NEW d \in SortedVectors, NEW u \in 1..Len(d)
  PROVE  /\ Flat!RemoveAt(d, u) \in SortedVectors
         /\ u \in 1..Len(Flat!RemoveAt(d, u)) + 1
<1> DEFINE r == Flat!RemoveAt(d, u)
<1>1. /\ d \in Seq(FlatEntries) /\ Len(d) \in Nat
      /\ \A i, j \in 1..Len(d) : i < j => d[i][1] < d[j][1]
  BY DEF SortedVectors
<1>2. /\ r \in Seq(FlatEntries) /\ Len(r) = Len(d) - 1
      /\ \A i \in 1..Len(d) - 1 : r[i] = IF i < u THEN d[i] ELSE d[i + 1]
  BY <1>1, RemovedAt
<1> HIDE DEF r
<1>3. ASSUME NEW i \in 1..Len(r), NEW j \in 1..Len(r), i < j PROVE r[i][1] < r[j][1]
  <2> DEFINE a == IF i < u THEN i ELSE i + 1
             b == IF j < u THEN j ELSE j + 1
  <2>1. a \in 1..Len(d) /\ b \in 1..Len(d) /\ a < b
    BY <1>1, <1>2, <1>3
  <2>2. r[i] = d[a] /\ r[j] = d[b]
    BY <1>2
  <2> HIDE DEF a, b
  <2> QED
    BY <2>1, <2>2, <1>1
<1>4. r \in SortedVectors
  BY <1>2, <1>3 DEF SortedVectors
<1>5. u \in 1..Len(r) + 1
  BY <1>1, <1>2
<1> QED
  BY <1>4, <1>5 DEF r

(* At the beginning the vector is empty.                                   *)
LEMMA FlatBegins == Flat!Init => FlatInv
<1>1. << >> \in SortedVectors
  BY DEF SortedVectors
<1> QED
  BY <1>1 DEF Flat!Init, FlatInv

(* Every call keeps the vector sorted.                                     *)
LEMMA FlatKeeps == FlatInv /\ Flat!Next => FlatInv'
<1> SUFFICES ASSUME FlatInv, Flat!Next PROVE FlatInv'
  OBVIOUS
<1>a. data \in SortedVectors /\ ret \in FlatEntries \cup {Absent}
  BY DEF FlatInv
<1>b. Len(data) \in Nat /\ data \in Seq(FlatEntries)
  BY <1>a DEF SortedVectors
<1>c. << >> \in SortedVectors
  BY DEF SortedVectors
<1>1. ASSUME NEW k \in Keys, Flat!Find(k) PROVE FlatInv'
  <2>1. Flat!find(data, k) \in 1..Len(data) + 1
    BY <1>a, FindIs
  <2>2. Flat!At(data, Flat!find(data, k)) \in FlatEntries \cup {Absent}
    BY <2>1, <1>a, AtEntry
  <2> QED
    BY <2>2, <1>1, <1>a DEF Flat!Find, FlatInv
<1>2. ASSUME NEW k \in Keys, NEW v \in Values, Flat!Emplace(k, v) PROVE FlatInv'
  <2>1. <<k, v>> \in FlatEntries
    BY DEF FlatEntries
  <2>2. data' \in SortedVectors /\ Flat!UpperBound(data, k) \in 1..Len(data')
    <3>1. <<k, v>>[1] = k /\ data' = Flat!Emplaced(data, <<k, v>>)
      BY <1>2 DEF Flat!Emplace
    <3> QED
      BY <3>1, <2>1, <1>a, EmplacedSorted
  <2>3. Flat!UpperBound(data, k) \in 1..Len(data') + 1
    BY <2>2
  <2>4. Flat!At(data', Flat!UpperBound(data, k)) \in FlatEntries \cup {Absent}
    BY <2>2, <2>3, AtEntry
  <2>5. ret' = Flat!At(data', Flat!UpperBound(data, k))
    BY <1>2 DEF Flat!Emplace
  <2> QED
    BY <2>2, <2>4, <2>5 DEF FlatInv
<1>3. ASSUME NEW k \in Keys, NEW v \in Values, Flat!InsertOrAssign(k, v) PROVE FlatInv'
  <2>1. <<k, v>> \in FlatEntries /\ <<k, v>>[1] = k
    BY DEF FlatEntries
  <2>2. data' \in SortedVectors /\ Flat!UpperBound(data, k) \in 1..Len(data') + 1
    <3>1. CASE Flat!Hit(data, k)
      <4>1. data' = [data EXCEPT ![Flat!UpperBound(data, k)] = <<k, v>>]
        BY <3>1, <1>3 DEF Flat!InsertOrAssign
      <4>2. data' \in SortedVectors /\ Flat!UpperBound(data, k) \in 1..Len(data)
        BY <4>1, <3>1, <1>a, AssignedSorted
      <4>3. Len(data') = Len(data)
        BY <4>1, <1>b
      <4> QED
        BY <4>2, <4>3, <1>b
    <3>2. CASE ~Flat!Hit(data, k)
      <4>1. data' = Flat!InsertAt(data, Flat!UpperBound(data, k), <<k, v>>)
        BY <3>2, <1>3 DEF Flat!InsertOrAssign
      <4>2. /\ data' \in SortedVectors /\ Len(data') = Len(data) + 1
            /\ Flat!UpperBound(data, k) \in 1..Len(data) + 1
        BY <4>1, <3>2, <2>1, <1>a, InsertedSorted
      <4> QED
        BY <4>2, <1>b
    <3> QED
      BY <3>1, <3>2
  <2>4. Flat!At(data', Flat!UpperBound(data, k)) \in FlatEntries \cup {Absent}
    BY <2>2, AtEntry
  <2>5. ret' = Flat!At(data', Flat!UpperBound(data, k))
    BY <1>3 DEF Flat!InsertOrAssign
  <2> QED
    BY <2>2, <2>4, <2>5 DEF FlatInv
<1>4. ASSUME NEW i \in 1..Len(data), Flat!EraseAt(i) PROVE FlatInv'
  <2>1. data' = Flat!RemoveAt(data, i) /\ ret' = Flat!At(data', i)
    BY <1>4 DEF Flat!EraseAt
  <2>2. data' \in SortedVectors /\ i \in 1..Len(data') + 1
    BY <2>1, <1>a, RemovedSorted
  <2>3. Flat!At(data', i) \in FlatEntries \cup {Absent}
    BY <2>2, AtEntry
  <2> QED
    BY <2>1, <2>2, <2>3 DEF FlatInv
<1>5. ASSUME NEW k \in Keys, Flat!EraseKey(k) PROVE FlatInv'
  <2>1. CASE Flat!Hit(data, k)
    <3>1. Flat!find(data, k) \in 1..Len(data)
      BY <2>1, <1>a, FindIs
    <3>2. Flat!EraseAt(Flat!find(data, k))
      BY <2>1, <1>5 DEF Flat!EraseKey
    <3> QED
      BY <3>1, <3>2, <1>4
  <2>2. CASE ~Flat!Hit(data, k)
    BY <2>2, <1>5, <1>a DEF Flat!EraseKey, FlatInv
  <2> QED
    BY <2>1, <2>2
<1>6. ASSUME NEW list \in Lists, Flat!InsertList(list) \/ Flat!Load(list) PROVE FlatInv'
  <2>1. list \in Seq(FlatEntries)
    BY FlatAssumed
  <2>2. /\ Flat!EmplacedAll(data, list) \in SortedVectors
        /\ Flat!EmplacedAll(<< >>, list) \in SortedVectors
    BY <2>1, <1>a, <1>c, EmplacedAllSorted
  <2> QED
    BY <2>2, <1>6 DEF Flat!InsertList, Flat!Load, FlatInv
<1>7. ASSUME Flat!Begin \/ Flat!Clear PROVE FlatInv'
  <2>1. 1 \in 1..Len(data) + 1
    BY <1>b
  <2>2. Flat!At(data, 1) \in FlatEntries \cup {Absent}
    BY <2>1, <1>a, AtEntry
  <2> QED
    BY <2>2, <1>7, <1>a, <1>c DEF Flat!Begin, Flat!Clear, FlatInv
<1>8. \A k \in Keys : Flat!Index(k) => Flat!Emplace(k, Default)
  BY DEF Flat!Index
<1>9. \A k \in Keys : Flat!AtKey(k) => Flat!Find(k)
  BY DEF Flat!AtKey
<1>10. Default \in Values /\ DOMAIN data = 1..Len(data)
  BY <1>b, FlatAssumed
<1> QED
  BY <1>1, <1>2, <1>3, <1>4, <1>5, <1>6, <1>7, <1>8, <1>9, <1>10 DEF Flat!Next

(* The invariant is what the vector promises.                              *)
LEMMA FlatMeant == FlatInv => Flat!TypeOK /\ Flat!Sorted
<1> SUFFICES ASSUME FlatInv PROVE Flat!TypeOK /\ Flat!Sorted
  OBVIOUS
<1>1. /\ data \in Seq(FlatEntries) /\ Len(data) \in Nat
      /\ ret \in FlatEntries \cup {Absent}
      /\ \A i, j \in 1..Len(data) : i < j => data[i][1] < data[j][1]
  BY DEF FlatInv, SortedVectors
<1>2. \A i \in 1..Len(data) - 1 : /\ i \in 1..Len(data) /\ i + 1 \in 1..Len(data)
                                  /\ i < i + 1
  BY <1>1
<1> QED
  BY <1>1, <1>2 DEF Flat!TypeOK, Flat!Sorted, FlatEntries

(* The function that a vector of entries stands for.                       *)
Bar(d) == [k \in Keys |-> IF \E i \in DOMAIN d : d[i][1] = k
                            THEN d[CHOOSE i \in DOMAIN d : d[i][1] = k][2]
                            ELSE Absent]
FlatMaps == [Keys -> Values \cup {Absent}]

(* What an entry of a list does to the function.                           *)
AddedOne(m, e) == IF m[e[1]] = Absent THEN [m EXCEPT ![e[1]] = e[2]] ELSE m

(* The function has the value of each entry and nothing else.              *)
LEMMA BarIs ==
  ASSUME NEW d \in SortedVectors
  PROVE  /\ Bar(d) \in FlatMaps
         /\ \A i \in 1..Len(d) : Bar(d)[d[i][1]] = d[i][2]
         /\ \A k \in Keys : (\A i \in 1..Len(d) : d[i][1] # k) => Bar(d)[k] = Absent
<1>1. /\ d \in Seq(FlatEntries) /\ DOMAIN d = 1..Len(d) /\ Len(d) \in Nat
      /\ \A i, j \in 1..Len(d) : i < j => d[i][1] < d[j][1]
  BY DEF SortedVectors
<1>2. \A i \in 1..Len(d) : d[i][1] \in Keys /\ d[i][1] \in Nat /\ d[i][2] \in Values
  BY <1>1, EntryIs
<1>3. \A i, j \in 1..Len(d) : d[i][1] = d[j][1] => i = j
  <2> TAKE i, j \in 1..Len(d)
  <2> HAVE d[i][1] = d[j][1]
  <2>1. ~(d[i][1] < d[j][1]) /\ ~(d[j][1] < d[i][1])
    BY <1>2
  <2>2. ~(i < j) /\ ~(j < i)
    BY <2>1, <1>1
  <2> QED
    BY <2>2
<1>4. ASSUME NEW i \in 1..Len(d) PROVE Bar(d)[d[i][1]] = d[i][2]
  <2> DEFINE c == CHOOSE j \in DOMAIN d : d[j][1] = d[i][1]
  <2>1. c \in DOMAIN d /\ d[c][1] = d[i][1]
    BY <1>1
  <2>2. c = i
    <3> HIDE DEF c
    <3> QED
      BY <2>1, <1>1, <1>3
  <2>3. Bar(d)[d[i][1]] = d[c][2]
    BY <1>1, <1>2 DEF Bar
  <2> HIDE DEF c
  <2> QED
    BY <2>2, <2>3
<1>5. ASSUME NEW k \in Keys, \A i \in 1..Len(d) : d[i][1] # k PROVE Bar(d)[k] = Absent
  BY <1>1, <1>5 DEF Bar
<1>6. \A k \in Keys : Bar(d)[k] \in Values \cup {Absent}
  <2> TAKE k \in Keys
  <2>1. CASE \E i \in 1..Len(d) : d[i][1] = k
    BY <2>1, <1>2, <1>4
  <2>2. CASE ~\E i \in 1..Len(d) : d[i][1] = k
    BY <2>2, <1>5
  <2> QED
    BY <2>1, <2>2
<1>7. Bar(d) \in FlatMaps
  BY <1>6 DEF FlatMaps, Bar
<1> QED
  BY <1>4, <1>5, <1>7

(* A key is hit if and only if the function has a value for it, and then   *)
(* the entry at its upper bound has that value.                            *)
LEMMA HitIs ==
  ASSUME NEW d \in SortedVectors, NEW k \in Keys
  PROVE  /\ Flat!Hit(d, k) <=> Bar(d)[k] # Absent
         /\ Flat!Hit(d, k) => /\ Flat!UpperBound(d, k) \in 1..Len(d)
                              /\ d[Flat!UpperBound(d, k)] = <<k, Bar(d)[k]>>
<1>1. d \in Seq(FlatEntries) /\ \A i \in 1..Len(d) : d[i] \in FlatEntries
  BY DEF SortedVectors
<1>2. Flat!Hit(d, k) <=> \E i \in 1..Len(d) : d[i][1] = k
  BY UpperBoundIs
<1>3. CASE Flat!Hit(d, k)
  <2> DEFINE u == Flat!UpperBound(d, k)
  <2>1. u \in 1..Len(d) /\ d[u][1] = k
    BY <1>3, FindIs
  <2> HIDE DEF u
  <2>2. d[u] = <<d[u][1], d[u][2]>> /\ d[u][2] \in Values
    BY <2>1, <1>1, EntryIs
  <2>3. Bar(d)[k] = d[u][2]
    BY <2>1, BarIs
  <2> QED
    BY <2>1, <2>2, <2>3, <1>3, FlatAssumed DEF u
<1>4. CASE ~Flat!Hit(d, k)
  <2>1. Bar(d)[k] = Absent
    BY <1>2, <1>4, BarIs
  <2> QED
    BY <2>1, <1>4
<1> QED
  BY <1>3, <1>4

(* Two functions are the same if they agree on every key.                  *)
LEMMA MapsAgree ==
  ASSUME NEW m \in FlatMaps, NEW n \in FlatMaps, \A k \in Keys : m[k] = n[k]
  PROVE  m = n
  BY DEF FlatMaps

(* A function with one value changed.                                      *)
LEMMA MapExcept ==
  ASSUME NEW m \in FlatMaps, NEW k \in Keys, NEW v \in Values \cup {Absent}
  PROVE  /\ [m EXCEPT ![k] = v] \in FlatMaps
         /\ [m EXCEPT ![k] = v][k] = v
         /\ \A j \in Keys : j # k => [m EXCEPT ![k] = v][j] = m[j]
  BY DEF FlatMaps

(* What an entry does to a function is again a function.                   *)
LEMMA AddedIs ==
  ASSUME NEW m \in FlatMaps, NEW e \in FlatEntries
  PROVE  AddedOne(m, e) \in FlatMaps
  BY EntryIs, MapExcept DEF AddedOne

(* A vector whose entries are those of d but for that of k stands for the  *)
(* function of d but for k.                                                *)
LEMMA BarExcept ==
  ASSUME NEW d \in SortedVectors, NEW r \in SortedVectors, NEW k \in Keys,
         NEW v \in Values \cup {Absent}, Bar(r)[k] = v,
         \A i \in 1..Len(d) : d[i][1] # k => \E j \in 1..Len(r) : r[j] = d[i],
         \A j \in 1..Len(r) : r[j][1] # k => \E i \in 1..Len(d) : r[j] = d[i]
  PROVE  Bar(r) = [Bar(d) EXCEPT ![k] = v]
<1>1. Bar(d) \in FlatMaps /\ Bar(r) \in FlatMaps
  BY BarIs
<1>2. ASSUME NEW q \in Keys, q # k PROVE Bar(r)[q] = Bar(d)[q]
  <2>1. CASE \E i \in 1..Len(d) : d[i][1] = q
    <3>1. PICK i \in 1..Len(d) : d[i][1] = q
      BY <2>1
    <3>2. PICK j \in 1..Len(r) : r[j] = d[i]
      BY <3>1, <1>2
    <3>3. Bar(d)[q] = d[i][2]
      BY <3>1, BarIs
    <3>4. Bar(r)[r[j][1]] = r[j][2]
      BY <3>2, BarIs
    <3> QED
      BY <3>1, <3>2, <3>3, <3>4
  <2>2. CASE ~\E i \in 1..Len(d) : d[i][1] = q
    <3>1. \A j \in 1..Len(r) : r[j][1] # q
      BY <2>2, <1>2
    <3>2. Bar(r)[q] = Absent
      BY <3>1, BarIs
    <3>3. Bar(d)[q] = Absent
      BY <2>2, BarIs
    <3> QED
      BY <3>2, <3>3
  <2> QED
    BY <2>1, <2>2
<1> DEFINE b == Bar(d)
           m == [b EXCEPT ![k] = v]
<1>a. b \in FlatMaps
  BY <1>1
<1> HIDE DEF b
<1>3. m \in FlatMaps /\ m[k] = v /\ \A j \in Keys : j # k => m[j] = b[j]
  BY <1>a, MapExcept
<1> HIDE DEF m
<1>4. \A q \in Keys : Bar(r)[q] = m[q]
  BY <1>2, <1>3 DEF b
<1>5. Bar(r) = m
  BY <1>1, <1>3, <1>4, MapsAgree
<1> QED
  BY <1>5 DEF m, b

(* An entry that goes in at its place.                                     *)
LEMMA InsertedBar ==
  ASSUME NEW d \in SortedVectors, NEW e \in FlatEntries, ~Flat!Hit(d, e[1])
  PROVE  LET r == Flat!InsertAt(d, Flat!UpperBound(d, e[1]), e) IN
         /\ r \in SortedVectors
         /\ Bar(r) = [Bar(d) EXCEPT ![e[1]] = e[2]]
<1> DEFINE u == Flat!UpperBound(d, e[1])
           r == Flat!InsertAt(d, u, e)
<1>1. /\ u \in 1..Len(d) + 1 /\ r \in SortedVectors /\ Len(r) = Len(d) + 1 /\ r[u] = e
      /\ \A i \in 1..Len(d) + 1 : (i < u => r[i] = d[i]) /\ (i > u => r[i] = d[i - 1])
  BY InsertedSorted
<1>2. Len(d) \in Nat /\ e[1] \in Keys /\ e[2] \in Values
  BY EntryIs DEF SortedVectors
<1> HIDE DEF u, r
<1>3. Bar(r)[e[1]] = e[2]
  <2>1. u \in 1..Len(r)
    BY <1>1
  <2> QED
    BY <2>1, <1>1, BarIs
<1>4. \A i \in 1..Len(d) : \E j \in 1..Len(r) : r[j] = d[i]
  <2> TAKE i \in 1..Len(d)
  <2>1. CASE i < u
    <3>1. i \in 1..Len(d) + 1 /\ r[i] = d[i]
      BY <2>1, <1>1, <1>2
    <3> QED
      BY <3>1, <1>1
  <2>2. CASE ~(i < u)
    <3>1. i + 1 \in 1..Len(d) + 1 /\ i + 1 > u /\ (i + 1) - 1 = i
      BY <2>2, <1>1, <1>2
    <3>2. r[i + 1] = d[(i + 1) - 1]
      BY <3>1, <1>1
    <3> QED
      BY <3>1, <3>2, <1>1
  <2> QED
    BY <2>1, <2>2
<1>5. \A j \in 1..Len(r) : r[j][1] # e[1] => \E i \in 1..Len(d) : r[j] = d[i]
  <2> TAKE j \in 1..Len(r)
  <2> HAVE r[j][1] # e[1]
  <2>1. j # u /\ j \in 1..Len(d) + 1
    BY <1>1
  <2>2. CASE j < u
    <3>1. j \in 1..Len(d) /\ r[j] = d[j]
      BY <2>1, <2>2, <1>1, <1>2
    <3> QED
      BY <3>1
  <2>3. CASE j > u
    <3>1. j - 1 \in 1..Len(d) /\ r[j] = d[j - 1]
      BY <2>1, <2>3, <1>1, <1>2
    <3> QED
      BY <3>1
  <2> QED
    BY <2>1, <2>2, <2>3, <1>1
<1>6. Bar(r) = [Bar(d) EXCEPT ![e[1]] = e[2]]
  <2> DEFINE k == e[1]
             v == e[2]
  <2>1. k \in Keys /\ v \in Values \cup {Absent} /\ Bar(r)[k] = v
    BY <1>2, <1>3
  <2>2. \A j \in 1..Len(r) : r[j][1] # k => \E i \in 1..Len(d) : r[j] = d[i]
    BY <1>5
  <2> HIDE DEF k, v
  <2>3. Bar(r) = [Bar(d) EXCEPT ![k] = v]
    BY <1>1, <1>4, <2>1, <2>2, BarExcept
  <2> QED
    BY <2>3 DEF k, v
<1> QED
  BY <1>1, <1>6 DEF r, u

(* Emplace adds an entry as the function does.                             *)
LEMMA EmplacedBar ==
  ASSUME NEW d \in SortedVectors, NEW e \in FlatEntries
  PROVE  Bar(Flat!Emplaced(d, e)) = AddedOne(Bar(d), e)
<1>1. e[1] \in Keys
  BY EntryIs
<1>2. CASE Flat!Hit(d, e[1])
  <2>1. Bar(d)[e[1]] # Absent
    BY <1>1, <1>2, HitIs
  <2> QED
    BY <2>1, <1>2 DEF Flat!Emplaced, AddedOne
<1>3. CASE ~Flat!Hit(d, e[1])
  <2>1. Bar(d)[e[1]] = Absent
    BY <1>1, <1>3, HitIs
  <2>2. Flat!Emplaced(d, e) = Flat!InsertAt(d, Flat!UpperBound(d, e[1]), e)
    BY <1>3 DEF Flat!Emplaced
  <2>3. Bar(Flat!Emplaced(d, e)) = [Bar(d) EXCEPT ![e[1]] = e[2]]
    BY <2>2, <1>3, InsertedBar
  <2> QED
    BY <2>1, <2>3 DEF AddedOne
<1> QED
  BY <1>2, <1>3

(* The entry of a key is replaced.                                         *)
LEMMA AssignedBar ==
  ASSUME NEW d \in SortedVectors, NEW k \in Keys, NEW v \in Values, Flat!Hit(d, k)
  PROVE  Bar([d EXCEPT ![Flat!UpperBound(d, k)] = <<k, v>>]) = [Bar(d) EXCEPT ![k] = v]
<1> DEFINE u == Flat!UpperBound(d, k)
           r == [d EXCEPT ![u] = <<k, v>>]
<1>1. u \in 1..Len(d) /\ r \in SortedVectors /\ d \in Seq(FlatEntries)
  BY AssignedSorted DEF SortedVectors
<1>2. d[u] = <<k, Bar(d)[k]>>
  BY HitIs
<1>3. Len(r) = Len(d) /\ \A i \in 1..Len(d) : r[i] = IF i = u THEN <<k, v>> ELSE d[i]
  BY <1>1
<1> HIDE DEF u, r
<1>4. r[u] = <<k, v>> /\ u \in 1..Len(r)
  BY <1>1, <1>3
<1>5. Bar(r)[k] = v
  <2>1. Bar(r)[r[u][1]] = r[u][2]
    BY <1>1, <1>4, BarIs
  <2> QED
    BY <2>1, <1>4
<1>6. \A i \in 1..Len(d) : d[i][1] # k => r[i] = d[i]
  BY <1>2, <1>3
<1>7. \A i \in 1..Len(d) : r[i][1] # k => r[i] = d[i]
  BY <1>3
<1>8. Bar(r) = [Bar(d) EXCEPT ![k] = v]
  BY <1>1, <1>3, <1>5, <1>6, <1>7, BarExcept
<1> QED
  BY <1>8 DEF r, u

(* An entry is removed.                                                    *)
LEMMA RemovedBar ==
  ASSUME NEW d \in SortedVectors, NEW u \in 1..Len(d)
  PROVE  LET r == Flat!RemoveAt(d, u) IN
         /\ r \in SortedVectors /\ Len(r) = Len(d) - 1
         /\ \A i \in 1..Len(d) - 1 : r[i] = IF i < u THEN d[i] ELSE d[i + 1]
         /\ Bar(r) = [Bar(d) EXCEPT ![d[u][1]] = Absent]
<1> DEFINE r == Flat!RemoveAt(d, u)
           k == d[u][1]
<1>1. /\ d \in Seq(FlatEntries) /\ Len(d) \in Nat
      /\ \A i, j \in 1..Len(d) : i < j => d[i][1] < d[j][1]
  BY DEF SortedVectors
<1>2. /\ r \in Seq(FlatEntries) /\ Len(r) = Len(d) - 1
      /\ \A i \in 1..Len(d) - 1 : r[i] = IF i < u THEN d[i] ELSE d[i + 1]
  BY <1>1, RemovedAt
<1>3. r \in SortedVectors
  BY RemovedSorted
<1>4. \A i \in 1..Len(d) : d[i][1] \in Nat /\ d[i][1] \in Keys
  BY <1>1, EntryIs
<1>5. \A i \in 1..Len(d) : i # u => d[i][1] # k
  <2> TAKE i \in 1..Len(d)
  <2> HAVE i # u
  <2>1. d[i][1] < d[u][1] \/ d[u][1] < d[i][1]
    BY <1>1
  <2> QED
    BY <2>1, <1>4
<1> HIDE DEF r, k
<1>6. \A j \in 1..Len(r) : \E i \in 1..Len(d) : r[j] = d[i] /\ i # u
  <2> TAKE j \in 1..Len(r)
  <2> DEFINE i == IF j < u THEN j ELSE j + 1
  <2>1. i \in 1..Len(d) /\ i # u /\ r[j] = d[i]
    BY <1>1, <1>2
  <2> QED
    BY <2>1
<1>7. \A i \in 1..Len(d) : d[i][1] # k => \E j \in 1..Len(r) : r[j] = d[i]
  <2> TAKE i \in 1..Len(d)
  <2> HAVE d[i][1] # k
  <2>1. i # u
    BY DEF k
  <2>2. CASE i < u
    <3>1. i \in 1..Len(r) /\ r[i] = d[i]
      BY <2>2, <1>1, <1>2
    <3> QED
      BY <3>1
  <2>3. CASE ~(i < u)
    <3>1. i - 1 \in 1..Len(r) /\ ~(i - 1 < u) /\ (i - 1) + 1 = i
      BY <2>1, <2>3, <1>1, <1>2
    <3>2. r[i - 1] = d[(i - 1) + 1]
      BY <3>1, <1>2
    <3> QED
      BY <3>1, <3>2
  <2> QED
    BY <2>2, <2>3
<1>8. k \in Keys
  BY <1>4 DEF k
<1>9. Bar(r)[k] = Absent
  <2>1. \A j \in 1..Len(r) : r[j][1] # k
    BY <1>5, <1>6
  <2> QED
    BY <2>1, <1>3, <1>8, BarIs
<1>10. Bar(r) = [Bar(d) EXCEPT ![k] = Absent]
  BY <1>3, <1>6, <1>7, <1>8, <1>9, BarExcept
<1> QED
  BY <1>2, <1>3, <1>10 DEF r, k

(* The entry after j is the one at the first position above j.             *)
LEMMA AfterIs ==
  ASSUME NEW d \in SortedVectors, NEW j \in Int, NEW u \in 1..Len(d) + 1,
         \A i \in 1..Len(d) : i < u <=> d[i][1] <= j
  PROVE  Flat!Ordered!After(Bar(d), j) = Flat!At(d, u)
<1> DEFINE b == Bar(d)
           above == {k \in Keys : k > j /\ b[k] # Absent}
<1>1. /\ d \in Seq(FlatEntries) /\ Len(d) \in Nat
      /\ \A i, l \in 1..Len(d) : i < l => d[i][1] < d[l][1]
  BY DEF SortedVectors
<1>2. \A i \in 1..Len(d) : /\ d[i][1] \in Keys /\ d[i][1] \in Nat /\ d[i][2] \in Values
                           /\ d[i] = <<d[i][1], d[i][2]>> /\ b[d[i][1]] = d[i][2]
  BY <1>1, EntryIs, BarIs
<1>3. \A k \in above : \E i \in 1..Len(d) : d[i][1] = k /\ i >= u
  <2> TAKE k \in above
  <2>1. k \in Keys /\ k > j /\ b[k] # Absent
    OBVIOUS
  <2>2. PICK i \in 1..Len(d) : d[i][1] = k
    BY <2>1, BarIs
  <2> HIDE DEF above, b
  <2>3. ~(d[i][1] <= j)
    BY <2>1, <2>2, <1>2
  <2>4. ~(i < u)
    BY <2>3
  <2>5. i >= u
    BY <2>4, <1>1
  <2> QED
    BY <2>2, <2>5
<1>4. Flat!Ordered!After(b, j) = IF above = {} THEN Absent
           ELSE Flat!Ordered!Entry(b, CHOOSE k \in above : \A l \in above : k <= l)
  BY DEF Flat!Ordered!After
<1>5. CASE u = Len(d) + 1
  <2>1. above = {}
    <3> HIDE DEF above
    <3> QED
      BY <1>1, <1>3, <1>5
  <2> QED
    BY <2>1, <1>4, <1>5 DEF Flat!At, Flat!End
<1>6. CASE u # Len(d) + 1
  <2> DEFINE first == d[u][1]
  <2>1. u \in 1..Len(d)
    BY <1>1, <1>6
  <2>2. ~(first <= j) /\ first \in Keys /\ first \in Nat /\ b[first] \in Values
    <3> HIDE DEF above, b
    <3>1. ~(u < u)
      BY <2>1
    <3> QED
      BY <3>1, <2>1, <1>2
  <2>3. first \in above
    <3> HIDE DEF first, b
    <3>1. first > j
      BY <2>2
    <3> QED
      BY <3>1, <2>2, FlatAssumed
  <2> HIDE DEF b, above
  <2>4. \A l \in above : first <= l
    <3> TAKE l \in above
    <3>1. PICK i \in 1..Len(d) : d[i][1] = l /\ i >= u
      BY <1>3
    <3>2. i = u \/ u < i
      BY <3>1, <2>1
    <3>3. i = u \/ d[u][1] < d[i][1]
      BY <3>2, <2>1, <1>1
    <3> QED
      BY <3>1, <3>3, <2>1, <1>2
  <2>5. \A k \in above : (\A l \in above : k <= l) => k = first
    <3> TAKE k \in above
    <3> HAVE \A l \in above : k <= l
    <3>1. k <= first /\ first <= k
      BY <2>3, <2>4
    <3>2. k \in Nat
      BY <1>2, <1>3
    <3> QED
      BY <3>1, <3>2, <2>2
  <2>6. (CHOOSE k \in above : \A l \in above : k <= l) = first
    <3> HIDE DEF first
    <3> QED
      BY <2>3, <2>4, <2>5
  <2>7. Flat!Ordered!After(b, j) = Flat!Ordered!Entry(b, first)
    BY <2>3, <2>6, <1>4
  <2>8. Flat!Ordered!Entry(b, first) = <<first, b[first]>>
    BY <2>2, FlatAssumed DEF Flat!Ordered!Entry
  <2>9. <<first, b[first]>> = d[u]
    BY <2>1, <1>2
  <2> QED
    BY <2>7, <2>8, <2>9, <1>6 DEF Flat!At, Flat!End, b
<1> QED
  BY <1>5, <1>6

(* The function goes through a list entry by entry.                        *)
LEMMA AddedRuns ==
  ASSUME NEW m \in FlatMaps, NEW list \in Seq(FlatEntries)
  PROVE  \E h \in [0..Len(list) -> FlatMaps] :
            /\ h[0] = m /\ h[Len(list)] = Flat!Ordered!Added(m, list)
            /\ \A i \in 1..Len(list) : h[i] = AddedOne(h[i - 1], list[i])
<1> DEFINE n == Len(list)
           IsFold(c) == c = [s \in SUBSET (1..n) |->
                               IF s = {} THEN m
                               ELSE IF c[s \ {Max(s)}][list[Max(s)][1]] = Absent
                                      THEN [c[s \ {Max(s)}] EXCEPT ![list[Max(s)][1]] = list[Max(s)][2]]
                                      ELSE c[s \ {Max(s)}]]
           G == [p \in FlatMaps \X FlatEntries |-> AddedOne(p[1], p[2])]
<1>1. n \in Nat /\ DOMAIN list = 1..n /\ \A i \in 1..n : list[i] \in FlatEntries
  OBVIOUS
<1>a. G \in [FlatMaps \X FlatEntries -> FlatMaps]
  BY AddedIs
<1>b. \A a \in FlatMaps, e \in FlatEntries : G[<<a, e>>] = AddedOne(a, e)
  OBVIOUS
<1> HIDE DEF G
<1>c. ASSUME NEW s \in SUBSET (1..n), s # {}
      PROVE  Max(s) \in s /\ s \ {Max(s)} \in SUBSET (1..n) /\ list[Max(s)] \in FlatEntries
  BY <1>1, <1>c, MaxIn
<1>2. \E c : IsFold(c)
  <2>1. PICK g : FoldsUpTo(G, FlatMaps, m, list, n, g)
    BY <1>a, FoldTable, Zenon
  <2>2. /\ g \in [SUBSET (1..n) -> FlatMaps]
        /\ \A s \in SUBSET (1..n) : g[s] = Round(G, m, list, g, s)
    BY <2>1 DEF FoldsUpTo
  <2>3. \A s \in SUBSET (1..n) :
           g[s] = IF s = {} THEN m ELSE AddedOne(g[s \ {Max(s)}], list[Max(s)])
    <3> TAKE s \in SUBSET (1..n)
    <3>1. CASE s = {}
      BY <3>1, <2>2 DEF Round
    <3>2. CASE s # {}
      <4>1. g[s \ {Max(s)}] \in FlatMaps /\ list[Max(s)] \in FlatEntries
        BY <3>2, <2>2, <1>c
      <4>2. G[<<g[s \ {Max(s)}], list[Max(s)]>>] = AddedOne(g[s \ {Max(s)}], list[Max(s)])
        BY <4>1, <1>b
      <4> QED
        BY <4>2, <3>2, <2>2 DEF Round
    <3> QED
      BY <3>1, <3>2
  <2>4. IsFold(g)
    BY <2>2, <2>3 DEF AddedOne
  <2> QED
    BY <2>4
<1>3. Flat!Ordered!Added(m, list) = (CHOOSE c : IsFold(c))[1..n]
  BY <1>1 DEF Flat!Ordered!Added, Flat!Ordered!FoldLeft, Flat!Ordered!MapThenFoldSet,
              Max, Flat!Ordered!Max
<1>4. PICK c : IsFold(c) /\ Flat!Ordered!Added(m, list) = c[1..n]
  <2> HIDE DEF IsFold
  <2> QED
    BY <1>2, <1>3
<1>5. \A s \in SUBSET (1..n) :
         c[s] = IF s = {} THEN m ELSE AddedOne(c[s \ {Max(s)}], list[Max(s)])
  BY <1>4 DEF AddedOne
<1> HIDE DEF IsFold
<1>6. c[{}] = m
  BY <1>5
<1>7. ASSUME NEW s \in SUBSET (1..n), s # {}, c[s \ {Max(s)}] \in FlatMaps
      PROVE  c[s] = G[<<c[s \ {Max(s)}], list[Max(s)]>>]
  BY <1>5, <1>7, <1>b, <1>c
<1>d. FoldsIn(G, FlatMaps, m, list, c)
  BY <1>6, <1>7 DEF FoldsIn
<1>e. PICK h : RunsOver(G, FlatMaps, m, list, c, h)
  BY <1>a, <1>d, FoldRuns, Zenon
<1>8. /\ h \in [0..n -> FlatMaps] /\ h[0] = m /\ h[n] = c[1..n]
      /\ \A i \in 1..n : h[i] = G[<<h[i - 1], list[i]>>]
  BY <1>e DEF RunsOver
<1>9. ASSUME NEW i \in 1..n PROVE h[i] = AddedOne(h[i - 1], list[i])
  <2>1. i - 1 \in 0..n /\ h[i - 1] \in FlatMaps /\ list[i] \in FlatEntries
    BY <1>1, <1>8
  <2> QED
    BY <2>1, <1>8, <1>b
<1> QED
  BY <1>4, <1>8, <1>9

(* A list of one entry.                                                    *)
LEMMA AddedSingle ==
  ASSUME NEW m \in FlatMaps, NEW e \in FlatEntries
  PROVE  Flat!Ordered!Added(m, <<e>>) = AddedOne(m, e)
<1> DEFINE list == <<e>>
<1>1. list \in Seq(FlatEntries) /\ Len(list) = 1 /\ list[1] = e
  OBVIOUS
<1> HIDE DEF list
<1>2. PICK h \in [0..1 -> FlatMaps] :
            /\ h[0] = m /\ h[1] = Flat!Ordered!Added(m, list)
            /\ \A i \in 1..1 : h[i] = AddedOne(h[i - 1], list[i])
  BY <1>1, AddedRuns
<1>3. 1 \in 1..1 /\ 1 - 1 = 0
  OBVIOUS
<1>4. h[1] = AddedOne(h[0], list[1])
  BY <1>2, <1>3
<1> QED
  BY <1>1, <1>2, <1>4 DEF list

(* The vector and the function stay in step through a list.                *)
LEMMA EmplacedAllBar ==
  ASSUME NEW d \in SortedVectors, NEW list \in Seq(FlatEntries)
  PROVE  Bar(Flat!EmplacedAll(d, list)) = Flat!Ordered!Added(Bar(d), list)
<1> DEFINE n == Len(list)
<1>1. n \in Nat /\ \A i \in 1..n : list[i] \in FlatEntries
  OBVIOUS
<1>2. PICK g \in [0..n -> SortedVectors] :
            /\ g[0] = d /\ g[n] = Flat!EmplacedAll(d, list)
            /\ \A i \in 1..n : g[i] = Flat!Emplaced(g[i - 1], list[i])
  BY EmplacedAllRuns
<1>3. PICK h \in [0..n -> FlatMaps] :
            /\ h[0] = Bar(d) /\ h[n] = Flat!Ordered!Added(Bar(d), list)
            /\ \A i \in 1..n : h[i] = AddedOne(h[i - 1], list[i])
  BY BarIs, AddedRuns
<1> HIDE DEF n
<1> DEFINE T == {i \in Nat : i > n \/ Bar(g[i]) = h[i]}
<1>4. 0 \in T
  BY <1>2, <1>3
<1>5. ASSUME NEW i \in T PROVE i + 1 \in T
  <2>1. CASE i + 1 > n
    BY <2>1
  <2>2. CASE ~(i + 1 > n)
    <3>1. i + 1 \in 1..n /\ i \in 0..n /\ ~(i > n) /\ (i + 1) - 1 = i
      BY <2>2, <1>1
    <3>2. g[i] \in SortedVectors /\ Bar(g[i]) = h[i] /\ list[i + 1] \in FlatEntries
      BY <3>1, <1>1, <1>2
    <3>3. g[i + 1] = Flat!Emplaced(g[i], list[i + 1]) /\ h[i + 1] = AddedOne(h[i], list[i + 1])
      BY <3>1, <1>2, <1>3
    <3>4. Bar(g[i + 1]) = h[i + 1]
      BY <3>2, <3>3, EmplacedBar
    <3> QED
      BY <3>1, <3>4
  <2> QED
    BY <2>1, <2>2
<1>6. T \in SUBSET Nat
  OBVIOUS
<1>7. T = Nat
  <2> HIDE DEF T
  <2> QED
    BY <1>4, <1>5, <1>6, SetInduction
<1>8. n \in T /\ ~(n > n)
  <2> HIDE DEF T
  <2> QED
    BY <1>1, <1>7
<1>9. Bar(g[n]) = h[n]
  BY <1>8
<1> QED
  BY <1>2, <1>3, <1>9

(* The map that the vector stands for is that of its module, and calls of  *)
(* the one are calls of the other.                                         *)
LEMMA BarIsMap == Flat!mapBar = Bar(data) /\ Flat!mapBar' = Bar(data')
  BY DEF Flat!mapBar, Bar

(* Where an empty vector stands.                                           *)
LEMMA EmptyBar == Bar(<< >>) = Flat!Ordered!Nothing
  BY DEF Bar, Flat!Ordered!Nothing

(* At the beginning both are empty.                                        *)
LEMMA MapBegins == Flat!Init => Flat!Ordered!Init
  BY BarIsMap, EmptyBar DEF Flat!Init, Flat!Ordered!Init

(* The calls of the map.                                                   *)
LEMMA OrderedCalls ==
  /\ \A k \in Keys : Flat!Ordered!Find(k)
       <=> ret' = Flat!Ordered!Entry(Bar(data), k) /\ Bar(data') = Bar(data)
  /\ Flat!Ordered!Begin
       <=> ret' = Flat!Ordered!After(Bar(data), -1) /\ Bar(data') = Bar(data)
  /\ \A k \in Keys, v \in Values : Flat!Ordered!Add(k, v)
       <=> /\ Bar(data') = Flat!Ordered!Added(Bar(data), <<<<k, v>>>>)
           /\ ret' = Flat!Ordered!Entry(Bar(data'), k)
  /\ \A k \in Keys, v \in Values : Flat!Ordered!Put(k, v)
       <=> /\ Bar(data') = [Bar(data) EXCEPT ![k] = v]
           /\ ret' = Flat!Ordered!Entry(Bar(data'), k)
  /\ \A k \in Keys : Flat!Ordered!Erase(k)
       <=> /\ Bar(data') = [Bar(data) EXCEPT ![k] = Absent]
           /\ ret' = IF Bar(data)[k] = Absent THEN Absent ELSE Flat!Ordered!After(Bar(data), k)
  /\ Flat!Ordered!Clear <=> Bar(data') = Flat!Ordered!Nothing /\ ret' = Absent
  /\ \A list \in Lists : Flat!Ordered!AddList(list)
       <=> Bar(data') = Flat!Ordered!Added(Bar(data), list) /\ ret' = Absent
  /\ \A list \in Lists : Flat!Ordered!Replace(list)
       <=> Bar(data') = Flat!Ordered!Added(Flat!Ordered!Nothing, list) /\ ret' = Absent
  BY BarIsMap DEF Flat!Ordered!Find, Flat!Ordered!Begin, Flat!Ordered!Add, Flat!Ordered!Put,
     Flat!Ordered!Erase, Flat!Ordered!Clear, Flat!Ordered!AddList, Flat!Ordered!Replace

(* An iterator to a key's entry refers to the entry of the function.       *)
LEMMA EntryAt ==
  ASSUME NEW d \in SortedVectors, NEW k \in Keys, Flat!Hit(d, k)
  PROVE  Flat!At(d, Flat!UpperBound(d, k)) = Flat!Ordered!Entry(Bar(d), k)
<1>1. /\ Bar(d)[k] # Absent /\ Flat!UpperBound(d, k) \in 1..Len(d)
      /\ d[Flat!UpperBound(d, k)] = <<k, Bar(d)[k]>>
  BY HitIs
<1>2. Len(d) \in Nat
  BY DEF SortedVectors
<1>3. Flat!UpperBound(d, k) # Len(d) + 1
  BY <1>1, <1>2
<1> QED
  BY <1>1, <1>3 DEF Flat!At, Flat!End, Flat!Ordered!Entry

(* The key that was put in has the entry at its old upper bound.           *)
LEMMA EntryPut ==
  ASSUME NEW r \in SortedVectors, NEW k \in Keys, NEW u \in 1..Len(r), r[u][1] = k
  PROVE  Flat!At(r, u) = Flat!Ordered!Entry(Bar(r), k)
<1>1. Flat!Hit(r, k) /\ u = Flat!UpperBound(r, k)
  BY UpperBoundIs
<1> QED
  BY <1>1, EntryAt

(* The entry at the place of one that was removed is the next one.         *)
LEMMA EntryRemoved ==
  ASSUME NEW d \in SortedVectors, NEW u \in 1..Len(d)
  PROVE  /\ Bar(d)[d[u][1]] # Absent /\ d[u][1] \in Keys
         /\ Flat!At(Flat!RemoveAt(d, u), u) = Flat!Ordered!After(Bar(d), d[u][1])
<1> DEFINE r == Flat!RemoveAt(d, u)
           k == d[u][1]
<1>1. /\ d \in Seq(FlatEntries) /\ Len(d) \in Nat
      /\ \A i, l \in 1..Len(d) : i < l => d[i][1] < d[l][1]
  BY DEF SortedVectors
<1>2. /\ Len(r) = Len(d) - 1
      /\ \A i \in 1..Len(d) - 1 : r[i] = IF i < u THEN d[i] ELSE d[i + 1]
  BY RemovedBar
<1>3. \A i \in 1..Len(d) : d[i][1] \in Nat /\ d[i][1] \in Keys /\ d[i][2] \in Values
  BY <1>1, EntryIs
<1> HIDE DEF r
<1>4. u + 1 \in 1..Len(d) + 1
  BY <1>1
<1>5. Flat!At(r, u) = Flat!At(d, u + 1)
  <2>1. CASE u = Len(d)
    BY <2>1, <1>1, <1>2 DEF Flat!At, Flat!End
  <2>2. CASE u # Len(d)
    <3>1. u \in 1..Len(d) - 1 /\ ~(u < u) /\ u # Len(r) + 1 /\ u + 1 # Len(d) + 1
      BY <2>2, <1>1, <1>2
    <3>2. r[u] = d[u + 1]
      BY <3>1, <1>2
    <3> QED
      BY <3>1, <3>2 DEF Flat!At, Flat!End
  <2> QED
    BY <2>1, <2>2
<1>6. \A i \in 1..Len(d) : i < u + 1 <=> d[i][1] <= k
  <2> TAKE i \in 1..Len(d)
  <2>1. CASE i < u
    BY <2>1, <1>1, <1>3
  <2>2. CASE i = u
    BY <2>2, <1>3
  <2>3. CASE u < i
    <3>1. d[u][1] < d[i][1]
      BY <2>3, <1>1
    <3>2. ~(d[i][1] <= k) /\ ~(i < u + 1)
      BY <3>1, <2>3, <1>3
    <3> QED
      BY <3>2
  <2> QED
    BY <2>1, <2>2, <2>3
<1>7. k \in Int
  BY <1>3
<1> HIDE DEF k
<1>8. Flat!Ordered!After(Bar(d), k) = Flat!At(d, u + 1)
  BY <1>4, <1>6, <1>7, AfterIs
<1>9. Bar(d)[d[u][1]] # Absent
  BY <1>3, BarIs, FlatAssumed
<1> QED
  BY <1>3, <1>5, <1>8, <1>9 DEF r, k

(* Each call of the vector is a call of the map, which the vector stands   *)
(* for.                                                                    *)
LEMMA MapSteps == FlatInv /\ Flat!Next => Flat!Ordered!Next
<1> SUFFICES ASSUME FlatInv, Flat!Next PROVE Flat!Ordered!Next
  OBVIOUS
<1>a. data \in SortedVectors /\ data \in Seq(FlatEntries) /\ Len(data) \in Nat
  BY DEF FlatInv, SortedVectors
<1>b. data' \in SortedVectors
  BY FlatKeeps DEF FlatInv
<1>1. ASSUME NEW k \in Keys, Flat!Find(k) PROVE Flat!Ordered!Find(k)
  <2>1. ret' = Flat!At(data, Flat!find(data, k)) /\ data' = data
    BY <1>1 DEF Flat!Find
  <2>2. CASE Flat!Hit(data, k)
    <3>1. Flat!find(data, k) = Flat!UpperBound(data, k)
      BY <2>2, <1>a, FindIs
    <3>2. ret' = Flat!Ordered!Entry(Bar(data), k)
      BY <3>1, <2>1, <2>2, <1>a, EntryAt
    <3> QED
      BY <3>2, <2>1, OrderedCalls
  <2>3. CASE ~Flat!Hit(data, k)
    <3>1. Flat!find(data, k) = Len(data) + 1 /\ Bar(data)[k] = Absent
      BY <2>3, <1>a, FindIs, HitIs
    <3>2. ret' = Flat!Ordered!Entry(Bar(data), k)
      BY <3>1, <2>1 DEF Flat!At, Flat!End, Flat!Ordered!Entry
    <3> QED
      BY <3>2, <2>1, OrderedCalls
  <2> QED
    BY <2>2, <2>3
<1>2. ASSUME NEW k \in Keys, NEW v \in Values, Flat!Emplace(k, v)
      PROVE  Flat!Ordered!Add(k, v)
  <2> DEFINE e == <<k, v>>
  <2>1. e \in FlatEntries /\ e[1] = k
    BY DEF FlatEntries
  <2>2. data' = Flat!Emplaced(data, e) /\ ret' = Flat!At(data', Flat!UpperBound(data, k))
    BY <1>2 DEF Flat!Emplace
  <2> HIDE DEF e
  <2>3. Bar(data') = Flat!Ordered!Added(Bar(data), <<e>>)
    BY <2>1, <2>2, <1>a, EmplacedBar, AddedSingle, BarIs
  <2>4. Flat!UpperBound(data, k) \in 1..Len(data') /\ data'[Flat!UpperBound(data, k)][1] = k
    BY <2>1, <2>2, <1>a, EmplacedSorted
  <2>5. ret' = Flat!Ordered!Entry(Bar(data'), k)
    BY <2>2, <2>4, <1>b, EntryPut
  <2> QED
    BY <2>3, <2>5, OrderedCalls DEF e
<1>3. ASSUME NEW k \in Keys, NEW v \in Values, Flat!InsertOrAssign(k, v)
      PROVE  Flat!Ordered!Put(k, v)
  <2> DEFINE u == Flat!UpperBound(data, k)
  <2>1. <<k, v>> \in FlatEntries /\ <<k, v>>[1] = k /\ <<k, v>>[2] = v
    BY DEF FlatEntries
  <2>2. /\ Bar(data') = [Bar(data) EXCEPT ![k] = v]
        /\ u \in 1..Len(data') /\ data'[u][1] = k
    <3>1. CASE Flat!Hit(data, k)
      <4>1. data' = [data EXCEPT ![u] = <<k, v>>]
        BY <3>1, <1>3 DEF Flat!InsertOrAssign
      <4>2. u \in 1..Len(data)
        BY <3>1, <1>a, AssignedSorted
      <4>3. Bar(data') = [Bar(data) EXCEPT ![k] = v]
        BY <4>1, <3>1, <1>a, AssignedBar
      <4> HIDE DEF u
      <4>4. Len(data') = Len(data) /\ data'[u] = <<k, v>>
        BY <4>1, <4>2, <1>a
      <4> QED
        BY <4>2, <4>3, <4>4
    <3>2. CASE ~Flat!Hit(data, k)
      <4> DEFINE e == <<k, v>>
      <4>1. data' = Flat!InsertAt(data, u, e)
        BY <3>2, <1>3 DEF Flat!InsertOrAssign
      <4>2. e \in FlatEntries /\ e[1] = k /\ e[2] = v
        BY <2>1
      <4> HIDE DEF e
      <4>3. /\ Len(data') = Len(data) + 1 /\ u \in 1..Len(data) + 1 /\ data'[u] = e
        BY <4>1, <4>2, <3>2, <1>a, InsertedSorted
      <4>4. Bar(data') = [Bar(data) EXCEPT ![k] = v]
        BY <4>1, <4>2, <3>2, <1>a, InsertedBar
      <4> QED
        BY <4>2, <4>3, <4>4
    <3> QED
      BY <3>1, <3>2
  <2>3. ret' = Flat!At(data', u)
    BY <1>3 DEF Flat!InsertOrAssign
  <2> HIDE DEF u
  <2>4. ret' = Flat!Ordered!Entry(Bar(data'), k)
    BY <2>2, <2>3, <1>b, EntryPut
  <2> QED
    BY <2>2, <2>4, OrderedCalls
<1>4. ASSUME NEW i \in 1..Len(data), Flat!EraseAt(i)
      PROVE  data[i][1] \in Keys /\ Flat!Ordered!Erase(data[i][1])
  <2> DEFINE k == data[i][1]
  <2>1. data' = Flat!RemoveAt(data, i) /\ ret' = Flat!At(data', i)
    BY <1>4 DEF Flat!EraseAt
  <2>2. /\ Bar(data)[k] # Absent /\ k \in Keys
        /\ ret' = Flat!Ordered!After(Bar(data), k)
    BY <2>1, <1>a, EntryRemoved
  <2>3. Bar(data') = [Bar(data) EXCEPT ![k] = Absent]
    BY <2>1, <1>a, RemovedBar
  <2> HIDE DEF k
  <2>4. Flat!Ordered!Erase(k)
    BY <2>2, <2>3, OrderedCalls
  <2> QED
    BY <2>2, <2>4 DEF k
<1>5. ASSUME NEW k \in Keys, Flat!EraseKey(k) PROVE Flat!Ordered!Erase(k)
  <2>1. CASE Flat!Hit(data, k)
    <3>1. Flat!find(data, k) \in 1..Len(data) /\ data[Flat!find(data, k)][1] = k
      BY <2>1, <1>a, FindIs
    <3>2. Flat!EraseAt(Flat!find(data, k))
      BY <2>1, <1>5 DEF Flat!EraseKey
    <3> QED
      BY <3>1, <3>2, <1>4
  <2>2. CASE ~Flat!Hit(data, k)
    <3>1. ret' = Absent /\ data' = data
      BY <2>2, <1>5 DEF Flat!EraseKey
    <3>2. Bar(data)[k] = Absent /\ Bar(data) \in FlatMaps
      BY <2>2, <1>a, HitIs, BarIs
    <3> DEFINE b == Bar(data)
    <3>3. b \in FlatMaps /\ b[k] = Absent
      BY <3>2
    <3> HIDE DEF b
    <3>4. [b EXCEPT ![k] = Absent] = b
      BY <3>3 DEF FlatMaps
    <3>5. Bar(data') = [Bar(data) EXCEPT ![k] = Absent]
      BY <3>1, <3>4 DEF b
    <3> QED
      BY <3>1, <3>2, <3>5, OrderedCalls
  <2> QED
    BY <2>1, <2>2
<1>6. ASSUME NEW list \in Lists PROVE /\ Flat!InsertList(list) => Flat!Ordered!AddList(list)
                                      /\ Flat!Load(list) => Flat!Ordered!Replace(list)
  <2>1. list \in Seq(FlatEntries) /\ << >> \in SortedVectors
    BY FlatAssumed DEF SortedVectors
  <2>2. Bar(Flat!EmplacedAll(data, list)) = Flat!Ordered!Added(Bar(data), list)
    BY <2>1, <1>a, EmplacedAllBar
  <2>3. Bar(Flat!EmplacedAll(<< >>, list)) = Flat!Ordered!Added(Flat!Ordered!Nothing, list)
    BY <2>1, EmplacedAllBar, EmptyBar
  <2>4. Flat!InsertList(list) => Flat!Ordered!AddList(list)
    BY <2>2, OrderedCalls DEF Flat!InsertList
  <2>5. Flat!Load(list) => Flat!Ordered!Replace(list)
    BY <2>3, OrderedCalls DEF Flat!Load
  <2> QED
    BY <2>4, <2>5
<1>7. Flat!Begin => Flat!Ordered!Begin
  <2> SUFFICES ASSUME Flat!Begin PROVE Flat!Ordered!Begin
    OBVIOUS
  <2>1. ret' = Flat!At(data, 1) /\ data' = data
    BY DEF Flat!Begin
  <2>2. -1 \in Int /\ 1 \in 1..Len(data) + 1
    BY <1>a
  <2>3. \A i \in 1..Len(data) : i < 1 <=> data[i][1] <= -1
    BY <1>a, EntryIs
  <2>4. Flat!Ordered!After(Bar(data), -1) = Flat!At(data, 1)
    BY <2>2, <2>3, <1>a, AfterIs
  <2> QED
    BY <2>1, <2>4, OrderedCalls
<1>8. Flat!Clear => Flat!Ordered!Clear
  BY EmptyBar, OrderedCalls DEF Flat!Clear
<1>9. /\ \A k \in Keys : Flat!Index(k) => Flat!Emplace(k, Default)
      /\ \A k \in Keys : Flat!AtKey(k) => Flat!Find(k)
  BY DEF Flat!Index, Flat!AtKey
<1>10. Default \in Values /\ DOMAIN data = 1..Len(data)
  BY <1>a, FlatAssumed
<1> QED
  BY <1>1, <1>2, <1>3, <1>4, <1>5, <1>6, <1>7, <1>8, <1>9, <1>10
  DEF Flat!Next, Flat!Ordered!Next

-----------------------------------------------------------------------------
(* The hash map and the vector of its nodes                                *)

VecAny == VecValues \cup {Moved}
VecEntries(V) == VecKeys \X V

(* A vector that has each node of a map once.                              *)
Matches(m, s) == /\ \A i, j \in 1..Len(s) : s[i] = s[j] => i = j
                 /\ \A k \in VecKeys : m[k] # Absent <=> \E i \in 1..Len(s) : s[i] = k

(* Maps of values of V with such a vector.                                 *)
Matched(V) == {c \in [map : [VecKeys -> V \cup {Absent}], vec : Seq(VecKeys)] :
                 Matches(c.map, c.vec)}

VecInv == /\ m_map \in [Maps -> [VecKeys -> VecAny \cup {Absent}]]
          /\ m_vector \in [Maps -> Seq(VecKeys)]
          /\ \A x \in Maps : Matches(m_map[x], m_vector[x])

(* What is assumed of the values.                                          *)
LEMMA VecAssumed ==
  /\ Moved \notin VecValues /\ Absent \notin VecAny /\ Absent \notin VecValues
  /\ VecValues \subseteq VecAny /\ Moved \in VecAny
  /\ VecLists \subseteq Seq(VecEntries(VecValues))
<1>1. Vec!VectorMapAssumption
  BY ContainersAssumption, Zenon DEF ContainersAssumption
<1> QED
  BY <1>1 DEF Vec!VectorMapAssumption, VecAny, VecEntries

(* A map and a vector that match.                                          *)
LEMMA MatchedIs ==
  ASSUME NEW V, NEW m, NEW s
  PROVE  [map |-> m, vec |-> s] \in Matched(V)
            <=> m \in [VecKeys -> V \cup {Absent}] /\ s \in Seq(VecKeys) /\ Matches(m, s)
  BY DEF Matched

(* The other way around.                                                   *)
LEMMA MatchedFields ==
  ASSUME NEW V, NEW c \in Matched(V)
  PROVE  /\ c.map \in [VecKeys -> V \cup {Absent}] /\ c.vec \in Seq(VecKeys)
         /\ Matches(c.map, c.vec)
  BY DEF Matched

(* Nothing matches nothing.                                                *)
LEMMA EmptyMatched == ASSUME NEW V PROVE Vec!Empty \in Matched(V)
<1>1. /\ Vec!Nothing \in [VecKeys -> V \cup {Absent}] /\ << >> \in Seq(VecKeys)
      /\ \A k \in VecKeys : Vec!Nothing[k] = Absent
  BY DEF Vec!Nothing
<1>2. Matches(Vec!Nothing, << >>)
  BY <1>1 DEF Matches
<1> QED
  BY <1>1, <1>2, MatchedIs DEF Vec!Empty

(* An entry whose key is not there is added to both.                       *)
LEMMA EmplacedMatches ==
  ASSUME NEW V, Absent \notin V, NEW c \in Matched(V), NEW e \in VecEntries(V)
  PROVE  /\ Vec!Emplaced(c, e) \in Matched(V) /\ e[1] \in VecKeys /\ e[2] \in V
         /\ \A k \in VecKeys : Vec!Emplaced(c, e).map[k]
                                  = IF k = e[1] /\ c.map[k] = Absent THEN e[2] ELSE c.map[k]
<1> DEFINE m == c.map
           s == c.vec
<1>1. m \in [VecKeys -> V \cup {Absent}] /\ s \in Seq(VecKeys) /\ Matches(m, s)
  BY MatchedFields
<1>2. e[1] \in VecKeys /\ e[2] \in V
  BY DEF VecEntries
<1>3. CASE m[e[1]] # Absent
  <2>1. Vec!Emplaced(c, e) = c
    BY <1>3 DEF Vec!Emplaced
  <2>2. \A k \in VecKeys : ~(k = e[1] /\ c.map[k] = Absent)
    BY <1>3
  <2> QED
    BY <2>1, <2>2, <1>2
<1>4. CASE m[e[1]] = Absent
  <2> DEFINE f == [m EXCEPT ![e[1]] = e[2]]
             t == Append(s, e[1])
  <2>1. Vec!Emplaced(c, e) = [map |-> f, vec |-> t]
    BY <1>4 DEF Vec!Emplaced
  <2> HIDE DEF m, s
  <2>2. /\ f \in [VecKeys -> V \cup {Absent}]
        /\ \A k \in VecKeys : f[k] = IF k = e[1] THEN e[2] ELSE m[k]
    BY <1>1, <1>2
  <2>3. /\ t \in Seq(VecKeys) /\ Len(t) = Len(s) + 1 /\ Len(s) \in Nat
        /\ t[Len(s) + 1] = e[1] /\ \A i \in 1..Len(s) : t[i] = s[i]
    BY <1>1, <1>2
  <2> HIDE DEF f, t
  <2>4. \A i \in 1..Len(s) : s[i] # e[1]
    BY <1>1, <1>2, <1>4 DEF Matches
  <2>5. \A i \in 1..Len(t) : i \in 1..Len(s) \/ i = Len(s) + 1
    BY <2>3
  <2>6. \A i, j \in 1..Len(t) : t[i] = t[j] => i = j
    BY <2>3, <2>4, <2>5, <1>1 DEF Matches
  <2>7. ASSUME NEW k \in VecKeys PROVE f[k] # Absent <=> \E i \in 1..Len(t) : t[i] = k
    <3>1. CASE k = e[1]
      <4>1. Len(s) + 1 \in 1..Len(t)
        BY <2>3
      <4> QED
        BY <4>1, <3>1, <2>2, <2>3, <1>2
    <3>2. CASE k # e[1]
      <4>1. f[k] # Absent <=> \E i \in 1..Len(s) : s[i] = k
        BY <3>2, <2>2, <1>1 DEF Matches
      <4>2. \A i \in 1..Len(s) : i \in 1..Len(t)
        BY <2>3
      <4> QED
        BY <4>1, <4>2, <3>2, <2>3, <2>5
    <3> QED
      BY <3>1, <3>2
  <2>8. Matches(f, t)
    BY <2>6, <2>7 DEF Matches
  <2>9. Vec!Emplaced(c, e) \in Matched(V) /\ Vec!Emplaced(c, e).map = f
    BY <2>1, <2>2, <2>3, <2>8, MatchedIs
  <2>10. \A k \in VecKeys : f[k] = IF k = e[1] /\ m[k] = Absent THEN e[2] ELSE m[k]
    BY <2>2, <1>4
  <2> QED
    BY <2>9, <2>10, <1>2 DEF m
<1> QED
  BY <1>3, <1>4

(* A list is emplaced entry by entry.                                      *)
LEMMA FilledRuns ==
  ASSUME NEW V, Absent \notin V, NEW d \in Matched(V), NEW list \in Seq(VecEntries(V))
  PROVE  \E h \in [0..Len(list) -> Matched(V)] :
            /\ h[0] = d /\ h[Len(list)] = Vec!Filled(d, list)
            /\ \A i \in 1..Len(list) : h[i] = Vec!Emplaced(h[i - 1], list[i])
<1> DEFINE n == Len(list)
           IsFold(c) == c = [s \in SUBSET (1..n) |->
                               IF s = {} THEN d
                               ELSE Vec!Emplaced(c[s \ {Max(s)}], list[Max(s)])]
           G == [p \in Matched(V) \X VecEntries(V) |-> Vec!Emplaced(p[1], p[2])]
<1>1. n \in Nat /\ DOMAIN list = 1..n /\ \A i \in 1..n : list[i] \in VecEntries(V)
  OBVIOUS
<1>2. \E c : IsFold(c)
  <2>1. G \in [Matched(V) \X VecEntries(V) -> Matched(V)]
    <3>1. \A a \in Matched(V), e \in VecEntries(V) : Vec!Emplaced(a, e) \in Matched(V)
      BY EmplacedMatches
    <3> QED
      BY <3>1
  <2>2. \A a \in Matched(V), e \in VecEntries(V) : G[<<a, e>>] = Vec!Emplaced(a, e)
    OBVIOUS
  <2> HIDE DEF G
  <2>3. PICK g : FoldsUpTo(G, Matched(V), d, list, n, g)
    BY <2>1, FoldTable, Zenon
  <2>4. /\ g \in [SUBSET (1..n) -> Matched(V)]
        /\ \A s \in SUBSET (1..n) : g[s] = Round(G, d, list, g, s)
    BY <2>3 DEF FoldsUpTo
  <2>5. ASSUME NEW s \in SUBSET (1..n)
        PROVE  g[s] = IF s = {} THEN d ELSE Vec!Emplaced(g[s \ {Max(s)}], list[Max(s)])
    <3>1. CASE s = {}
      BY <3>1, <2>4 DEF Round
    <3>2. CASE s # {}
      <4>1. Max(s) \in s /\ s \ {Max(s)} \in SUBSET (1..n)
        BY <3>2, <1>1, MaxIn
      <4>2. g[s \ {Max(s)}] \in Matched(V) /\ list[Max(s)] \in VecEntries(V)
        BY <4>1, <2>4, <1>1
      <4>3. G[<<g[s \ {Max(s)}], list[Max(s)]>>]
               = Vec!Emplaced(g[s \ {Max(s)}], list[Max(s)])
        BY <4>2, <2>2
      <4> QED
        BY <4>3, <3>2, <2>4 DEF Round
    <3> QED
      BY <3>1, <3>2
  <2>6. IsFold(g)
    BY <2>4, <2>5
  <2> QED
    BY <2>6
<1>3. Vec!Filled(d, list) = (CHOOSE c : IsFold(c))[1..n]
  BY <1>1 DEF Vec!Filled, Vec!FoldLeft, Vec!MapThenFoldSet, Max, Vec!Max
<1>4. PICK c : IsFold(c) /\ Vec!Filled(d, list) = c[1..n]
  <2> HIDE DEF IsFold
  <2> QED
    BY <1>2, <1>3
<1>5. \A s \in SUBSET (1..n) :
         c[s] = IF s = {} THEN d ELSE Vec!Emplaced(c[s \ {Max(s)}], list[Max(s)])
  BY <1>4
<1> HIDE DEF IsFold
<1>a. G \in [Matched(V) \X VecEntries(V) -> Matched(V)]
  <2>1. \A a \in Matched(V), e \in VecEntries(V) : Vec!Emplaced(a, e) \in Matched(V)
    BY EmplacedMatches
  <2> QED
    BY <2>1
<1>b. \A a \in Matched(V), e \in VecEntries(V) : G[<<a, e>>] = Vec!Emplaced(a, e)
  OBVIOUS
<1> HIDE DEF G
<1>6. ASSUME NEW s \in SUBSET (1..n), s # {}, c[s \ {Max(s)}] \in Matched(V)
      PROVE  c[s] = G[<<c[s \ {Max(s)}], list[Max(s)]>>]
  <2>1. Max(s) \in s
    BY <1>1, <1>6, MaxIn
  <2>2. list[Max(s)] \in VecEntries(V)
    BY <1>1, <2>1
  <2> QED
    BY <1>5, <1>6, <1>b, <2>2
<1>7. FoldsIn(G, Matched(V), d, list, c)
  BY <1>5, <1>6 DEF FoldsIn
<1>8. PICK h : RunsOver(G, Matched(V), d, list, c, h)
  BY <1>a, <1>7, FoldRuns, Zenon
<1>9. /\ h \in [0..n -> Matched(V)] /\ h[0] = d /\ h[n] = c[1..n]
      /\ \A i \in 1..n : h[i] = G[<<h[i - 1], list[i]>>]
  BY <1>8 DEF RunsOver
<1>10. ASSUME NEW i \in 1..n PROVE h[i] = Vec!Emplaced(h[i - 1], list[i])
  <2>1. i - 1 \in 0..n /\ h[i - 1] \in Matched(V) /\ list[i] \in VecEntries(V)
    BY <1>1, <1>9
  <2> QED
    BY <2>1, <1>9, <1>b
<1> QED
  BY <1>4, <1>9, <1>10

(* A filled map and vector match.                                          *)
LEMMA FilledMatches ==
  ASSUME NEW V, Absent \notin V, NEW d \in Matched(V), NEW list \in Seq(VecEntries(V))
  PROVE  Vec!Filled(d, list) \in Matched(V)
<1>1. PICK h \in [0..Len(list) -> Matched(V)] : h[Len(list)] = Vec!Filled(d, list)
  BY FilledRuns
<1>2. Len(list) \in 0..Len(list)
  OBVIOUS
<1> QED
  BY <1>1, <1>2

(* Where an entry goes in the vector.                                      *)
LEMMA EmplacedVec ==
  ASSUME NEW c, NEW e
  PROVE  Vec!Emplaced(c, e).vec = IF c.map[e[1]] # Absent THEN c.vec ELSE Append(c.vec, e[1])
  BY DEF Vec!Emplaced

(* Filled with the entries of a map, an empty map has the values of that   *)
(* map, and its nodes in their order.                                      *)
LEMMA FilledCopies ==
  ASSUME NEW V, Absent \notin V, NEW m \in [VecKeys -> V \cup {Absent}], NEW s \in Seq(VecKeys),
         Matches(m, s), NEW list \in Seq(VecEntries(V)), Len(list) = Len(s),
         \A i \in 1..Len(s) : list[i] = <<s[i], m[s[i]]>>
  PROVE  /\ Vec!Filled(Vec!Empty, list) \in Matched(V)
         /\ Vec!Filled(Vec!Empty, list).map = m /\ Vec!Filled(Vec!Empty, list).vec = s
<1> DEFINE n == Len(s)
           had(i, k) == \E j \in 1..i : s[j] = k
<1>1. n \in Nat /\ Len(list) = n /\ \A i \in 1..n : s[i] \in VecKeys
  OBVIOUS
<1>2. PICK h \in [0..n -> Matched(V)] :
            /\ h[0] = Vec!Empty /\ h[n] = Vec!Filled(Vec!Empty, list)
            /\ \A i \in 1..n : h[i] = Vec!Emplaced(h[i - 1], list[i])
  <2>1. Vec!Empty \in Matched(V)
    BY EmptyMatched
  <2>2. \E h \in [0..Len(list) -> Matched(V)] :
            /\ h[0] = Vec!Empty /\ h[Len(list)] = Vec!Filled(Vec!Empty, list)
            /\ \A i \in 1..Len(list) : h[i] = Vec!Emplaced(h[i - 1], list[i])
    BY <2>1, FilledRuns
  <2> QED
    BY <2>2, <1>1
<1> DEFINE inOrder(i) == Len(h[i].vec) = i /\ \A j \in 1..i : h[i].vec[j] = s[j]
           T == {i \in Nat : \/ i > n
                             \/ /\ inOrder(i)
                                /\ \A k \in VecKeys :
                                     h[i].map[k] = IF had(i, k) THEN m[k] ELSE Absent}
<1>3. 0 \in T
  <2>1. \A k \in VecKeys : ~had(0, k) /\ Vec!Empty.map[k] = Absent
    BY DEF Vec!Empty, Vec!Nothing
  <2>2. inOrder(0)
    BY <1>2 DEF Vec!Empty
  <2> HIDE DEF had, inOrder
  <2> QED
    BY <2>1, <2>2, <1>2
<1>4. ASSUME NEW i \in T PROVE i + 1 \in T
  <2>1. CASE i + 1 > n
    BY <2>1
  <2>2. CASE ~(i + 1 > n)
    <3>1. i + 1 \in 1..n /\ i \in 0..n /\ ~(i > n) /\ (i + 1) - 1 = i
      BY <2>2, <1>1
    <3>2. \A k \in VecKeys : h[i].map[k] = IF had(i, k) THEN m[k] ELSE Absent
      BY <3>1
    <3>a. inOrder(i)
      BY <3>1
    <3>3. /\ h[i + 1] = Vec!Emplaced(h[i], list[i + 1]) /\ h[i] \in Matched(V)
          /\ list[i + 1] \in VecEntries(V)
      <4> HIDE DEF T, had, n, inOrder
      <4>1. h[i] \in Matched(V)
        BY <3>1, <1>2
      <4>2. h[i + 1] = Vec!Emplaced(h[(i + 1) - 1], list[i + 1])
        BY <3>1, <1>2, Zenon
      <4>3. h[i + 1] = Vec!Emplaced(h[i], list[i + 1])
        BY <3>1, <4>2
      <4>4. list[i + 1] \in VecEntries(V)
        BY <3>1, <1>1
      <4> QED
        BY <4>1, <4>3, <4>4
    <3>4. \A k \in VecKeys : had(i + 1, k) <=> had(i, k) \/ s[i + 1] = k
      BY <3>1
    <3>b. ~had(i, s[i + 1])
      BY <3>1 DEF Matches
    <3> HIDE DEF had, T, inOrder
    <3> DEFINE e == list[i + 1]
    <3>5. e[1] = s[i + 1] /\ e[2] = m[s[i + 1]] /\ s[i + 1] \in VecKeys
      BY <3>1, <1>1
    <3>6. \A k \in VecKeys : h[i + 1].map[k]
             = IF k = s[i + 1] /\ h[i].map[k] = Absent THEN m[s[i + 1]] ELSE h[i].map[k]
      <4>1. \A k \in VecKeys : Vec!Emplaced(h[i], e).map[k]
               = IF k = e[1] /\ h[i].map[k] = Absent THEN e[2] ELSE h[i].map[k]
        BY <3>3, EmplacedMatches
      <4> HIDE DEF e
      <4> QED
        BY <4>1, <3>3, <3>5 DEF e
    <3>7. ASSUME NEW k \in VecKeys
          PROVE  h[i + 1].map[k] = IF had(i + 1, k) THEN m[k] ELSE Absent
      <4>1. CASE s[i + 1] = k
        <5>1. m[k] \in V \cup {Absent}
          OBVIOUS
        <5>2. m[k] # Absent
          BY <4>1, <3>1 DEF Matches
        <5> QED
          BY <5>2, <4>1, <3>2, <3>4, <3>6
      <4>2. CASE s[i + 1] # k
        BY <4>2, <3>2, <3>4, <3>6
      <4> QED
        BY <4>1, <4>2
    <3>8. inOrder(i + 1)
      <4>1. h[i].map[s[i + 1]] = Absent
        BY <3>b, <3>2, <3>5
      <4>2. h[i + 1].vec = Append(h[i].vec, s[i + 1])
        <5>1. Vec!Emplaced(h[i], e).vec
                = IF h[i].map[e[1]] # Absent THEN h[i].vec ELSE Append(h[i].vec, e[1])
          BY EmplacedVec
        <5>2. h[i + 1] = Vec!Emplaced(h[i], e)
          BY <3>3
        <5> HIDE DEF e
        <5> QED
          BY <5>1, <5>2, <4>1, <3>5
      <4>3. h[i].vec \in Seq(VecKeys)
        BY <3>3, MatchedFields
      <4> DEFINE v == h[i].vec
                 w == h[i + 1].vec
      <4>4. w = Append(v, s[i + 1]) /\ v \in Seq(VecKeys) /\ Len(v) = i
        BY <4>2, <4>3, <3>a DEF inOrder
      <4>5. \A j \in 1..i : v[j] = s[j]
        BY <3>a DEF inOrder
      <4>6. Len(w) = i + 1 /\ \A j \in 1..i + 1 : w[j] = s[j]
        <5> HIDE DEF v, w
        <5> QED
          BY <4>4, <4>5
      <4> QED
        BY <4>6 DEF inOrder
    <3> QED
      BY <3>1, <3>7, <3>8 DEF T
  <2> QED
    BY <2>1, <2>2
<1>5. T \in SUBSET Nat
  OBVIOUS
<1>6. T = Nat
  <2> HIDE DEF T
  <2> QED
    BY <1>3, <1>4, <1>5, SetInduction
<1>7. /\ inOrder(n)
      /\ \A k \in VecKeys : h[n].map[k] = IF had(n, k) THEN m[k] ELSE Absent
  <2>1. n \in T /\ ~(n > n)
    BY <1>1, <1>6
  <2> HIDE DEF inOrder, had
  <2> QED
    BY <2>1
<1>8. h[n] \in Matched(V)
  BY <1>1, <1>2
<1>9. h[n].map \in [VecKeys -> V \cup {Absent}] /\ h[n].vec \in Seq(VecKeys)
  BY <1>8, MatchedFields
<1>10. \A k \in VecKeys : h[n].map[k] = m[k]
  <2> HIDE DEF inOrder
  <2> QED
    BY <1>7 DEF Matches
<1>12. h[n].vec = s
  <2>1. Len(h[n].vec) = n /\ \A j \in 1..n : h[n].vec[j] = s[j]
    BY <1>7
  <2> DEFINE w == h[n].vec
  <2>2. w \in Seq(VecKeys) /\ Len(w) = Len(s) /\ \A j \in 1..Len(s) : w[j] = s[j]
    BY <1>9, <2>1
  <2> HIDE DEF w
  <2>3. w = s
    BY <2>2
  <2> QED
    BY <2>3 DEF w
<1> HIDE DEF T, had, inOrder
<1>11. h[n].map = m
  BY <1>9, <1>10
<1> QED
  BY <1>2, <1>8, <1>11, <1>12

(* The entries of a map, in the order of its vector.                       *)
LEMMA EntriesAre ==
  ASSUME VecInv, NEW x \in Maps
  PROVE  /\ m_map[x] \in [VecKeys -> VecAny \cup {Absent}] /\ m_vector[x] \in Seq(VecKeys)
         /\ Matches(m_map[x], m_vector[x])
         /\ Vec!Entries(x) \in Seq(VecEntries(VecAny))
         /\ Vec!Filled(Vec!Empty, Vec!Entries(x)) \in Matched(VecAny)
         /\ Vec!Filled(Vec!Empty, Vec!Entries(x)).map = m_map[x]
         /\ Vec!Filled(Vec!Empty, Vec!Entries(x)).vec = m_vector[x]
<1> DEFINE m == m_map[x]
           s == m_vector[x]
           list == Vec!Entries(x)
<1>1. m \in [VecKeys -> VecAny \cup {Absent}] /\ s \in Seq(VecKeys) /\ Matches(m, s)
  BY DEF VecInv
<1>2. list = [i \in DOMAIN s |-> <<s[i], m[s[i]]>>]
  BY DEF Vec!Entries
<1> HIDE DEF m, s, list
<1>3. Len(s) \in Nat /\ DOMAIN s = 1..Len(s) /\ \A i \in 1..Len(s) : s[i] \in VecKeys
  BY <1>1
<1>4. \A i \in 1..Len(s) : <<s[i], m[s[i]]>> \in VecEntries(VecAny)
  <2>1. ASSUME NEW i \in 1..Len(s) PROVE m[s[i]] \in VecAny
    <3>1. m[s[i]] # Absent
      BY <1>1, <1>3 DEF Matches
    <3> QED
      BY <3>1, <1>1, <1>3
  <2> QED
    BY <2>1, <1>3 DEF VecEntries
<1>5. list \in [1..Len(s) -> VecEntries(VecAny)]
  BY <1>2, <1>3, <1>4
<1>6. list \in Seq(VecEntries(VecAny)) /\ Len(list) = Len(s)
  BY <1>3, <1>5
<1>7. \A i \in 1..Len(s) : list[i] = <<s[i], m[s[i]]>>
  BY <1>2, <1>3
<1>8. Absent \notin VecAny
  BY VecAssumed
<1>9. /\ Vec!Filled(Vec!Empty, list) \in Matched(VecAny)
      /\ Vec!Filled(Vec!Empty, list).map = m /\ Vec!Filled(Vec!Empty, list).vec = s
  BY <1>1, <1>6, <1>7, <1>8, FilledCopies
<1> QED
  BY <1>1, <1>6, <1>9 DEF m, s, list

(* The entries of a map and its vector, in the order of the vector.        *)
VecPairs(c) == [i \in DOMAIN c.vec |-> <<c.vec[i], c.map[c.vec[i]]>>]
VecPart(x) == [map |-> m_map[x], vec |-> m_vector[x]]

(* They are as many as the vector has nodes.                               *)
LEMMA PairsAre ==
  ASSUME NEW V, NEW c \in Matched(V)
  PROVE  /\ c.vec \in Seq(VecKeys) /\ Len(c.vec) \in Nat
         /\ VecPairs(c) \in Seq(VecEntries(V)) /\ Len(VecPairs(c)) = Len(c.vec)
         /\ DOMAIN VecPairs(c) = 1..Len(c.vec)
         /\ \A i \in 1..Len(c.vec) : /\ VecPairs(c)[i] = <<c.vec[i], c.map[c.vec[i]]>>
                                     /\ c.vec[i] \in VecKeys /\ c.map[c.vec[i]] # Absent
<1> DEFINE m == c.map
           s == c.vec
           p == VecPairs(c)
<1>1. m \in [VecKeys -> V \cup {Absent}] /\ s \in Seq(VecKeys) /\ Matches(m, s)
  BY MatchedFields
<1>2. p = [i \in DOMAIN s |-> <<s[i], m[s[i]]>>]
  BY DEF VecPairs
<1> HIDE DEF m, s, p
<1>3. Len(s) \in Nat /\ DOMAIN s = 1..Len(s) /\ \A i \in 1..Len(s) : s[i] \in VecKeys
  BY <1>1
<1>4. \A i \in 1..Len(s) : m[s[i]] # Absent
  BY <1>1, <1>3 DEF Matches
<1>5. \A i \in 1..Len(s) : <<s[i], m[s[i]]>> \in VecEntries(V)
  BY <1>1, <1>3, <1>4 DEF VecEntries
<1>6. p \in [1..Len(s) -> VecEntries(V)]
  BY <1>2, <1>3, <1>5
<1>7. p \in Seq(VecEntries(V)) /\ Len(p) = Len(s) /\ DOMAIN p = 1..Len(s)
  BY <1>3, <1>6
<1>8. \A i \in 1..Len(s) : p[i] = <<s[i], m[s[i]]>>
  BY <1>2, <1>3
<1> QED
  BY <1>1, <1>3, <1>4, <1>7, <1>8 DEF m, s, p

(* Sequences with the same elements are the same.                          *)
LEMMA SeqAlike ==
  ASSUME NEW S, NEW s \in Seq(S), NEW t \in Seq(S), Len(s) = Len(t),
         \A i \in 1..Len(s) : s[i] = t[i]
  PROVE  s = t
  OBVIOUS

(* To emplace is to add to the list of entries.                            *)
LEMMA EmplacedAdds ==
  ASSUME NEW V, Absent \notin V, NEW c \in Matched(V), NEW e \in VecEntries(V)
  PROVE  VecPairs(Vec!Emplaced(c, e)) = Vec!EntryList!Added(VecPairs(c), e)
<1> DEFINE d == Vec!Emplaced(c, e)
           p == VecPairs(c)
           q == VecPairs(d)
           n == Len(c.vec)
<1>1. /\ d \in Matched(V) /\ e[1] \in VecKeys /\ e[2] \in V
      /\ \A k \in VecKeys : d.map[k] = IF k = e[1] /\ c.map[k] = Absent THEN e[2] ELSE c.map[k]
  BY EmplacedMatches
<1>2. /\ c.vec \in Seq(VecKeys) /\ n \in Nat
      /\ p \in Seq(VecEntries(V)) /\ Len(p) = n /\ DOMAIN p = 1..n
      /\ \A i \in 1..n : /\ p[i] = <<c.vec[i], c.map[c.vec[i]]>>
                         /\ c.vec[i] \in VecKeys /\ c.map[c.vec[i]] # Absent
  BY PairsAre
<1>3. /\ d.vec \in Seq(VecKeys) /\ q \in Seq(VecEntries(V)) /\ Len(q) = Len(d.vec)
      /\ \A i \in 1..Len(d.vec) : q[i] = <<d.vec[i], d.map[d.vec[i]]>>
  BY <1>1, PairsAre
<1>4. d.vec = IF c.map[e[1]] # Absent THEN c.vec ELSE Append(c.vec, e[1])
  BY EmplacedVec
<1>5. Matches(c.map, c.vec)
  BY MatchedFields
<1>6. c.map[e[1]] # Absent => d = c
  BY DEF Vec!Emplaced
<1>7. e = <<e[1], e[2]>>
  BY DEF VecEntries
<1> HIDE DEF d, p, q, n
<1>8. (\E i \in DOMAIN p : p[i][1] = e[1]) <=> c.map[e[1]] # Absent
  BY <1>1, <1>2, <1>5 DEF Matches, n
<1>9. CASE c.map[e[1]] # Absent
  <2>1. q = p
    BY <1>6, <1>9 DEF p, q
  <2> QED
    BY <2>1, <1>8, <1>9 DEF Vec!EntryList!Added, p, q, d
<1>10. CASE c.map[e[1]] = Absent
  <2>1. Vec!EntryList!Added(p, e) = Append(p, e)
    BY <1>8, <1>10 DEF Vec!EntryList!Added
  <2> DEFINE v == c.vec
             w == d.vec
  <2>2. w = Append(v, e[1]) /\ v \in Seq(VecKeys) /\ Len(v) = n
    BY <1>2, <1>4, <1>10 DEF n
  <2> HIDE DEF v, w
  <2>3. /\ Len(w) = n + 1 /\ w[n + 1] = e[1] /\ \A i \in 1..n : w[i] = v[i]
    BY <1>1, <1>2, <2>2
  <2>4. /\ Append(p, e) \in Seq(VecEntries(V)) /\ Len(Append(p, e)) = n + 1
        /\ Append(p, e)[n + 1] = e /\ \A i \in 1..n : Append(p, e)[i] = p[i]
    BY <1>2
  <2>5. q[n + 1] = <<e[1], d.map[e[1]]>>
    <3>1. n + 1 \in 1..Len(d.vec)
      BY <1>2, <2>3 DEF w
    <3> QED
      BY <3>1, <1>3, <2>3 DEF w
  <2>6. q[n + 1] = e
    BY <2>5, <1>1, <1>7, <1>10
  <2>7. ASSUME NEW i \in 1..n PROVE q[i] = p[i]
    <3>1. i \in 1..Len(d.vec)
      BY <1>2, <2>3 DEF w
    <3>2. q[i] = <<c.vec[i], d.map[c.vec[i]]>>
      BY <3>1, <1>3, <2>3 DEF v, w
    <3>3. d.map[c.vec[i]] = c.map[c.vec[i]]
      BY <1>1, <1>2
    <3> QED
      BY <3>2, <3>3, <1>2
  <2>8. \A i \in 1..n + 1 : i \in 1..n \/ i = n + 1
    BY <1>2
  <2>9. Len(q) = n + 1
    BY <1>3, <2>3 DEF w
  <2> DEFINE a == Append(p, e)
  <2>10. a \in Seq(VecEntries(V)) /\ Len(q) = Len(a) /\ \A i \in 1..Len(q) : q[i] = a[i]
    BY <2>4, <2>6, <2>7, <2>8, <2>9
  <2> HIDE DEF a
  <2>11. q = a
    BY <2>10, <1>3, SeqAlike
  <2> QED
    BY <2>1, <2>11 DEF a, p, q, d
<1> QED
  BY <1>9, <1>10

(* A list of entries is added entry by entry.                              *)
EntriesAdded(list) == Vec!EntryList!FoldLeft(Vec!EntryList!Added, << >>, list)

(* The list stays one of entries.                                          *)
LEMMA AddedTyped ==
  ASSUME NEW V, NEW s \in Seq(VecEntries(V)), NEW e \in VecEntries(V)
  PROVE  Vec!EntryList!Added(s, e) \in Seq(VecEntries(V))
<1>1. Append(s, e) \in Seq(VecEntries(V))
  OBVIOUS
<1> QED
  BY <1>1 DEF Vec!EntryList!Added

(* Each of its rounds is one entry.                                        *)
LEMMA EntriesRuns ==
  ASSUME NEW V, NEW list \in Seq(VecEntries(V))
  PROVE  \E h \in [0..Len(list) -> Seq(VecEntries(V))] :
            /\ h[0] = << >> /\ h[Len(list)] = EntriesAdded(list)
            /\ \A i \in 1..Len(list) : h[i] = Vec!EntryList!Added(h[i - 1], list[i])
<1> DEFINE n == Len(list)
           IsFold(c) == c = [s \in SUBSET (1..n) |->
                               IF s = {} THEN << >>
                               ELSE Vec!EntryList!Added(c[s \ {Max(s)}], list[Max(s)])]
           G == [p \in Seq(VecEntries(V)) \X VecEntries(V) |-> Vec!EntryList!Added(p[1], p[2])]
<1>1. n \in Nat /\ DOMAIN list = 1..n /\ \A i \in 1..n : list[i] \in VecEntries(V)
  OBVIOUS
<1>0. << >> \in Seq(VecEntries(V))
  OBVIOUS
<1>2. \E c : IsFold(c)
  <2>1. G \in [Seq(VecEntries(V)) \X VecEntries(V) -> Seq(VecEntries(V))]
    <3>1. \A a \in Seq(VecEntries(V)), e \in VecEntries(V) : Vec!EntryList!Added(a, e) \in Seq(VecEntries(V))
      BY AddedTyped
    <3> QED
      BY <3>1
  <2>2. \A a \in Seq(VecEntries(V)), e \in VecEntries(V) : G[<<a, e>>] = Vec!EntryList!Added(a, e)
    OBVIOUS
  <2> HIDE DEF G
  <2>3. PICK g : FoldsUpTo(G, Seq(VecEntries(V)), << >>, list, n, g)
    BY <1>0, <2>1, FoldTable, Zenon
  <2>4. /\ g \in [SUBSET (1..n) -> Seq(VecEntries(V))]
        /\ \A s \in SUBSET (1..n) : g[s] = Round(G, << >>, list, g, s)
    BY <2>3 DEF FoldsUpTo
  <2>5. ASSUME NEW s \in SUBSET (1..n)
        PROVE  g[s] = IF s = {} THEN << >> ELSE Vec!EntryList!Added(g[s \ {Max(s)}], list[Max(s)])
    <3>1. CASE s = {}
      BY <3>1, <2>4 DEF Round
    <3>2. CASE s # {}
      <4>1. Max(s) \in s /\ s \ {Max(s)} \in SUBSET (1..n)
        BY <3>2, <1>1, MaxIn
      <4>2. g[s \ {Max(s)}] \in Seq(VecEntries(V)) /\ list[Max(s)] \in VecEntries(V)
        BY <4>1, <2>4, <1>1
      <4>3. G[<<g[s \ {Max(s)}], list[Max(s)]>>]
               = Vec!EntryList!Added(g[s \ {Max(s)}], list[Max(s)])
        BY <4>2, <2>2
      <4> QED
        BY <4>3, <3>2, <2>4 DEF Round
    <3> QED
      BY <3>1, <3>2
  <2>6. IsFold(g)
    BY <2>4, <2>5
  <2> QED
    BY <2>6
<1>3. EntriesAdded(list) = (CHOOSE c : IsFold(c))[1..n]
  BY <1>1 DEF EntriesAdded, Vec!EntryList!FoldLeft, Vec!EntryList!MapThenFoldSet, Max, Vec!EntryList!Max
<1>4. PICK c : IsFold(c) /\ EntriesAdded(list) = c[1..n]
  <2> HIDE DEF IsFold
  <2> QED
    BY <1>2, <1>3
<1>5. \A s \in SUBSET (1..n) :
         c[s] = IF s = {} THEN << >> ELSE Vec!EntryList!Added(c[s \ {Max(s)}], list[Max(s)])
  BY <1>4
<1> HIDE DEF IsFold
<1>a. G \in [Seq(VecEntries(V)) \X VecEntries(V) -> Seq(VecEntries(V))]
  <2>1. \A a \in Seq(VecEntries(V)), e \in VecEntries(V) : Vec!EntryList!Added(a, e) \in Seq(VecEntries(V))
    BY AddedTyped
  <2> QED
    BY <2>1
<1>b. \A a \in Seq(VecEntries(V)), e \in VecEntries(V) : G[<<a, e>>] = Vec!EntryList!Added(a, e)
  OBVIOUS
<1> HIDE DEF G
<1>6. ASSUME NEW s \in SUBSET (1..n), s # {}, c[s \ {Max(s)}] \in Seq(VecEntries(V))
      PROVE  c[s] = G[<<c[s \ {Max(s)}], list[Max(s)]>>]
  <2>1. Max(s) \in s
    BY <1>1, <1>6, MaxIn
  <2>2. list[Max(s)] \in VecEntries(V)
    BY <1>1, <2>1
  <2> QED
    BY <1>5, <1>6, <1>b, <2>2
<1>7. FoldsIn(G, Seq(VecEntries(V)), << >>, list, c)
  BY <1>5, <1>6 DEF FoldsIn
<1>8. PICK h : RunsOver(G, Seq(VecEntries(V)), << >>, list, c, h)
  BY <1>0, <1>a, <1>7, FoldRuns, Zenon
<1>9. /\ h \in [0..n -> Seq(VecEntries(V))] /\ h[0] = << >> /\ h[n] = c[1..n]
      /\ \A i \in 1..n : h[i] = G[<<h[i - 1], list[i]>>]
  BY <1>8 DEF RunsOver
<1>10. ASSUME NEW i \in 1..n PROVE h[i] = Vec!EntryList!Added(h[i - 1], list[i])
  <2>1. i - 1 \in 0..n /\ h[i - 1] \in Seq(VecEntries(V)) /\ list[i] \in VecEntries(V)
    <3>1. i - 1 \in 0..n
      BY <1>1
    <3>2. h[i - 1] \in Seq(VecEntries(V))
      <4> HIDE DEF n
      <4> QED
        BY <3>1, <1>9, Zenon
    <3> QED
      BY <3>1, <3>2, <1>1
  <2> QED
    BY <2>1, <1>9, <1>b
<1> QED
  BY <1>4, <1>9, <1>10

(* A map filled with a list has the entries of that list.                  *)
LEMMA FilledAdds ==
  ASSUME NEW V, Absent \notin V, NEW list \in Seq(VecEntries(V))
  PROVE  VecPairs(Vec!Filled(Vec!Empty, list)) = EntriesAdded(list)
<1> DEFINE n == Len(list)
<1>1. n \in Nat /\ \A i \in 1..n : list[i] \in VecEntries(V)
  OBVIOUS
<1>2. PICK h \in [0..n -> Matched(V)] :
            /\ h[0] = Vec!Empty /\ h[n] = Vec!Filled(Vec!Empty, list)
            /\ \A i \in 1..n : h[i] = Vec!Emplaced(h[i - 1], list[i])
  <2>1. Vec!Empty \in Matched(V)
    BY EmptyMatched
  <2> QED
    BY <2>1, FilledRuns
<1>3. PICK g \in [0..n -> Seq(VecEntries(V))] :
            /\ g[0] = << >> /\ g[n] = EntriesAdded(list)
            /\ \A i \in 1..n : g[i] = Vec!EntryList!Added(g[i - 1], list[i])
  BY EntriesRuns
<1> DEFINE T == {i \in Nat : i > n \/ VecPairs(h[i]) = g[i]}
<1>4. 0 \in T
  <2>1. VecPairs(Vec!Empty) = << >>
    BY DEF VecPairs, Vec!Empty
  <2> QED
    BY <2>1, <1>2, <1>3
<1>5. ASSUME NEW i \in T PROVE i + 1 \in T
  <2>1. CASE i + 1 > n
    BY <2>1
  <2>2. CASE ~(i + 1 > n)
    <3>1. i + 1 \in 1..n /\ i \in 0..n /\ ~(i > n) /\ (i + 1) - 1 = i
      BY <2>2, <1>1
    <3>2. VecPairs(h[i]) = g[i]
      BY <3>1
    <3> HIDE DEF T, n
    <3>3. h[i] \in Matched(V) /\ list[i + 1] \in VecEntries(V)
      BY <3>1, <1>1, <1>2
    <3>4. /\ h[i + 1] = Vec!Emplaced(h[(i + 1) - 1], list[i + 1])
          /\ g[i + 1] = Vec!EntryList!Added(g[(i + 1) - 1], list[i + 1])
      BY <3>1, <1>2, <1>3, Zenon
    <3>5. /\ h[i + 1] = Vec!Emplaced(h[i], list[i + 1])
          /\ g[i + 1] = Vec!EntryList!Added(g[i], list[i + 1])
      BY <3>1, <3>4
    <3>6. VecPairs(Vec!Emplaced(h[i], list[i + 1]))
            = Vec!EntryList!Added(VecPairs(h[i]), list[i + 1])
      BY <3>3, EmplacedAdds
    <3>7. VecPairs(h[i + 1]) = g[i + 1]
      BY <3>2, <3>5, <3>6
    <3> QED
      BY <3>1, <3>7 DEF T
  <2> QED
    BY <2>1, <2>2
<1>6. T \in SUBSET Nat
  OBVIOUS
<1>7. T = Nat
  <2> HIDE DEF T
  <2> QED
    BY <1>4, <1>5, <1>6, SetInduction
<1>8. VecPairs(h[n]) = g[n]
  <2>1. n \in T /\ ~(n > n)
    BY <1>1, <1>7
  <2> QED
    BY <2>1
<1> QED
  BY <1>2, <1>3, <1>8

(* The list that an object stands for.                                     *)
LEMMA VecBarIs ==
  /\ Vec!entriesBar = [x \in Maps |-> Vec!Entries(x)]
  /\ Vec!entriesBar' = [x \in Maps |-> Vec!Entries(x)']
  /\ \A x \in Maps : Vec!Entries(x) = VecPairs(VecPart(x))
<1>1. \A x \in Maps : Vec!Entries(x) = VecPairs(VecPart(x))
  BY DEF Vec!Entries, VecPairs, VecPart
<1> QED
  BY <1>1 DEF Vec!entriesBar

(* One map and its vector are replaced.                                    *)
LEMMA SetKeeps ==
  ASSUME VecInv, NEW x \in Maps, NEW c \in Matched(VecAny), Vec!Set(x, c)
  PROVE  VecInv'
<1>1. /\ c.map \in [VecKeys -> VecAny \cup {Absent}] /\ c.vec \in Seq(VecKeys)
      /\ Matches(c.map, c.vec)
  BY MatchedFields
<1>2. m_map' = [m_map EXCEPT ![x] = c.map] /\ m_vector' = [m_vector EXCEPT ![x] = c.vec]
  BY DEF Vec!Set
<1>3. /\ m_map' \in [Maps -> [VecKeys -> VecAny \cup {Absent}]]
      /\ m_vector' \in [Maps -> Seq(VecKeys)]
  BY <1>1, <1>2 DEF VecInv
<1>4. ASSUME NEW y \in Maps PROVE Matches(m_map'[y], m_vector'[y])
  <2>1. CASE y = x
    <3>1. m_map'[y] = c.map /\ m_vector'[y] = c.vec
      BY <2>1, <1>2 DEF VecInv
    <3> QED
      BY <3>1, <1>1
  <2>2. CASE y # x
    <3>1. m_map'[y] = m_map[y] /\ m_vector'[y] = m_vector[y]
      BY <2>2, <1>2 DEF VecInv
    <3>2. Matches(m_map[y], m_vector[y])
      BY DEF VecInv
    <3> QED
      BY <3>1, <3>2
  <2> QED
    BY <2>1, <2>2
<1> QED
  BY <1>3, <1>4 DEF VecInv

(* The other lists stay.                                                   *)
LEMMA SetPairs ==
  ASSUME VecInv, NEW x \in Maps, NEW c, Vec!Set(x, c)
  PROVE  Vec!EntryList!Becomes(x, VecPairs(c))
<1>1. m_map' = [m_map EXCEPT ![x] = c.map] /\ m_vector' = [m_vector EXCEPT ![x] = c.vec]
  BY DEF Vec!Set
<1>2. /\ m_map \in [Maps -> [VecKeys -> VecAny \cup {Absent}]]
      /\ m_vector \in [Maps -> Seq(VecKeys)]
  BY DEF VecInv
<1>3. /\ m_map'[x] = c.map /\ m_vector'[x] = c.vec
      /\ \A y \in Maps \ {x} : m_map'[y] = m_map[y] /\ m_vector'[y] = m_vector[y]
  BY <1>1, <1>2
<1>4. Vec!Entries(x)' = VecPairs(c)
  BY <1>3 DEF Vec!Entries, VecPairs
<1>5. \A y \in Maps \ {x} : Vec!Entries(y)' = Vec!Entries(y)
  BY <1>3 DEF Vec!Entries
<1>6. [y \in Maps |-> Vec!Entries(y)'] = [[y \in Maps |-> Vec!Entries(y)] EXCEPT ![x] = VecPairs(c)]
  BY <1>4, <1>5
<1> QED
  BY <1>6, VecBarIs DEF Vec!EntryList!Becomes

(* A node is erased, the one pointer to it with it.                        *)
LEMMA EraseKeeps ==
  ASSUME VecInv, NEW x \in Maps, NEW k \in VecKeys, Vec!Erase(x, k)
  PROVE  VecInv' /\ Vec!EntryList!Erase(x, k)
<1> DEFINE m == m_map[x]
           s == m_vector[x]
<1>1. m \in [VecKeys -> VecAny \cup {Absent}] /\ s \in Seq(VecKeys) /\ Matches(m, s)
  BY DEF VecInv
<1>2. PICK u \in DOMAIN s : /\ s[u] = k
                            /\ Vec!Set(x, [map |-> [m EXCEPT ![k] = Absent],
                                           vec |-> Vec!RemoveAt(s, u)])
  BY DEF Vec!Erase
<1> DEFINE f == [m EXCEPT ![k] = Absent]
           t == Flat!RemoveAt(s, u)
<1>3. Vec!Set(x, [map |-> f, vec |-> t])
  <2>1. Vec!RemoveAt(s, u) = t
    BY DEF Vec!RemoveAt, Flat!RemoveAt
  <2> HIDE DEF t, m, s
  <2> QED
    BY <2>1, <1>2
<1> HIDE DEF m, s
<1>4. u \in 1..Len(s) /\ Len(s) \in Nat
  BY <1>1, <1>2
<1>5. /\ f \in [VecKeys -> VecAny \cup {Absent}]
      /\ \A j \in VecKeys : f[j] = IF j = k THEN Absent ELSE m[j]
  BY <1>1
<1>6. /\ t \in Seq(VecKeys) /\ Len(t) = Len(s) - 1
      /\ \A i \in 1..Len(s) - 1 : t[i] = IF i < u THEN s[i] ELSE s[i + 1]
  BY <1>1, <1>4, RemovedAt
<1> HIDE DEF f, t
<1>7. \A i, j \in 1..Len(t) : t[i] = t[j] => i = j
  <2> SUFFICES ASSUME NEW i \in 1..Len(t), NEW j \in 1..Len(t), t[i] = t[j] PROVE i = j
    OBVIOUS
  <2> DEFINE a == IF i < u THEN i ELSE i + 1
             b == IF j < u THEN j ELSE j + 1
  <2>1. a \in 1..Len(s) /\ b \in 1..Len(s) /\ (a = b => i = j)
    BY <1>4, <1>6
  <2>2. s[a] = s[b]
    BY <1>4, <1>6
  <2> HIDE DEF a, b
  <2> QED
    BY <2>1, <2>2, <1>1 DEF Matches
<1>8. ASSUME NEW j \in VecKeys PROVE f[j] # Absent <=> \E i \in 1..Len(t) : t[i] = j
  <2>1. m[j] # Absent <=> \E i \in 1..Len(s) : s[i] = j
    BY <1>1 DEF Matches
  <2>2. ASSUME NEW i \in 1..Len(t), t[i] = j PROVE f[j] # Absent
    <3> DEFINE a == IF i < u THEN i ELSE i + 1
    <3>1. a \in 1..Len(s) /\ a # u
      BY <1>4, <1>6
    <3>2. s[a] = j
      BY <2>2, <1>4, <1>6
    <3> HIDE DEF a
    <3>3. j # k
      BY <3>1, <3>2, <1>1, <1>2, <1>4 DEF Matches
    <3> QED
      BY <3>1, <3>2, <3>3, <2>1, <1>5
  <2>3. ASSUME f[j] # Absent PROVE \E i \in 1..Len(t) : t[i] = j
    <3>1. j # k /\ m[j] # Absent
      BY <2>3, <1>5
    <3>2. PICK a \in 1..Len(s) : s[a] = j
      BY <3>1, <2>1
    <3>3. a # u
      BY <3>1, <3>2, <1>2
    <3> DEFINE i == IF a < u THEN a ELSE a - 1
    <3>4. i \in 1..Len(t) /\ t[i] = s[a]
      BY <3>3, <1>4, <1>6
    <3> HIDE DEF i
    <3> QED
      BY <3>2, <3>4
  <2> QED
    BY <2>2, <2>3
<1>9. [map |-> f, vec |-> t] \in Matched(VecAny)
  <2>1. Matches(f, t)
    BY <1>7, <1>8 DEF Matches
  <2> QED
    BY <2>1, <1>5, <1>6, MatchedIs
<1> DEFINE c == [map |-> f, vec |-> t]
           p == Vec!Entries(x)
           q == VecPairs(c)
           n == Len(s)
<1>10. VecInv' /\ Vec!EntryList!Becomes(x, q)
  BY <1>3, <1>9, SetKeeps, SetPairs
<1>11. /\ p \in Seq(VecEntries(VecAny)) /\ Len(p) = n /\ DOMAIN p = 1..n
       /\ \A i \in 1..n : p[i] = <<s[i], m[s[i]]>>
  <2>1. VecPart(x) \in Matched(VecAny) /\ VecPart(x).map = m /\ VecPart(x).vec = s
    BY <1>1, MatchedIs DEF VecPart, m, s
  <2>2. p = VecPairs(VecPart(x))
    BY VecBarIs
  <2> HIDE DEF p
  <2> QED
    BY <2>1, <2>2, PairsAre
<1>12. /\ q \in Seq(VecEntries(VecAny)) /\ Len(q) = n - 1
       /\ \A i \in 1..n - 1 : q[i] = <<t[i], f[t[i]]>> /\ t[i] \in VecKeys
  <2>1. c.map = f /\ c.vec = t
    OBVIOUS
  <2> HIDE DEF c
  <2>2. c \in Matched(VecAny)
    BY <1>9 DEF c
  <2> QED
    BY <2>1, <2>2, <1>6, PairsAre
<1> DEFINE r == Flat!RemoveAt(p, u)
<1>13. /\ r \in Seq(VecEntries(VecAny)) /\ Len(r) = n - 1
       /\ \A i \in 1..n - 1 : r[i] = IF i < u THEN p[i] ELSE p[i + 1]
  <2> HIDE DEF p
  <2>1. u \in 1..Len(p)
    BY <1>4, <1>11
  <2> QED
    BY <2>1, <1>11, RemovedAt
<1> HIDE DEF c, p, q, r
<1>14. ASSUME NEW i \in 1..n - 1 PROVE q[i] = r[i]
  <2> DEFINE a == IF i < u THEN i ELSE i + 1
  <2>1. a \in 1..n /\ a # u /\ t[i] = s[a] /\ r[i] = p[a]
    BY <1>4, <1>6, <1>13
  <2> HIDE DEF a
  <2>2. s[a] # k
    BY <2>1, <1>1, <1>2, <1>4 DEF Matches
  <2>3. f[t[i]] = m[s[a]]
    BY <2>1, <2>2, <1>5, <1>12
  <2> QED
    BY <2>1, <2>3, <1>11, <1>12
<1>15. q = r
  BY <1>12, <1>13, <1>14, SeqAlike
<1>16. Vec!EntryList!RemoveAt(p, u) = r
  BY DEF Vec!EntryList!RemoveAt, Flat!RemoveAt, r
<1>17. Vec!entriesBar[x] = p
  BY VecBarIs DEF p
<1>18. u \in DOMAIN p /\ p[u][1] = k
  BY <1>2, <1>4, <1>11
<1> QED
  BY <1>10, <1>15, <1>16, <1>17, <1>18 DEF Vec!EntryList!Erase

(* The nodes are sorted: as many different ones as there are, so all.      *)
LEMMA SortVecKeeps ==
  ASSUME VecInv, NEW x \in Maps, Vec!SortVec(x)
  PROVE  VecInv' /\ Vec!EntryList!Sort(x)
<1> DEFINE m == m_map[x]
           s == m_vector[x]
           nodes == Vec!Nodes(x)
           n == Len(s)
<1>1. m \in [VecKeys -> VecAny \cup {Absent}] /\ s \in Seq(VecKeys) /\ Matches(m, s)
  BY DEF VecInv
<1>2. PICK t \in [1..n -> nodes] :
        Vec!IsInjective(t) /\ m_vector' = [m_vector EXCEPT ![x] = t] /\ UNCHANGED m_map
  BY DEF Vec!SortVec
<1>3. nodes = {k \in VecKeys : m[k] # Absent}
  BY DEF Vec!Nodes
<1> HIDE DEF m, s, nodes
<1>4. n \in Nat /\ \A i \in 1..n : s[i] \in VecKeys
  BY <1>1
<1>5. s \in Bijection(1..n, nodes)
  <2>1. s \in [1..n -> nodes]
    BY <1>1, <1>3, <1>4 DEF Matches
  <2>2. IsInjective(s)
    BY <1>1, <2>1 DEF Matches, IsInjective
  <2>3. \A k \in nodes : \E i \in 1..n : s[i] = k
    BY <1>1, <1>3 DEF Matches
  <2> QED
    BY <2>1, <2>2, <2>3 DEF Bijection, Injection, Surjection
<1>6. IsFiniteSet(1..n)
  BY <1>4, FS_Interval
<1>7. IsFiniteSet(nodes) /\ Cardinality(nodes) = Cardinality(1..n)
  <2>1. ExistsBijection(1..n, nodes)
    BY <1>5 DEF ExistsBijection
  <2> HIDE DEF n
  <2> QED
    BY <2>1, <1>6, FS_Bijection
<1>8. t \in Injection(1..n, nodes)
  BY <1>2 DEF Injection, IsInjective, Vec!IsInjective
<1>9. t \in Surjection(1..n, nodes)
  <2> HIDE DEF n
  <2> QED
    BY <1>7, <1>8, FS_Injection
<1>10. t \in Seq(VecKeys) /\ Len(t) = n
  BY <1>2, <1>3, <1>4
<1>11. Matches(m, t)
  <2>1. \A i, j \in 1..n : t[i] = t[j] => i = j
    BY <1>8 DEF Injection, IsInjective
  <2>2. \A k \in nodes : \E i \in 1..n : t[i] = k
    BY <1>9 DEF Surjection
  <2>3. \A i \in 1..n : t[i] \in nodes
    BY <1>2
  <2> QED
    BY <2>1, <2>2, <2>3, <1>3, <1>10 DEF Matches
<1>12. [map |-> m, vec |-> t] \in Matched(VecAny)
  BY <1>1, <1>10, <1>11, MatchedIs
<1>13. Vec!Set(x, [map |-> m, vec |-> t])
  <2>1. m_map' = [m_map EXCEPT ![x] = m]
    BY <1>2 DEF VecInv, m
  <2> QED
    BY <2>1, <1>2 DEF Vec!Set
<1> DEFINE c == [map |-> m, vec |-> t]
           p == Vec!Entries(x)
           q == VecPairs(c)
<1>14. VecInv' /\ Vec!EntryList!Becomes(x, q)
  BY <1>12, <1>13, SetKeeps, SetPairs
<1>15. DOMAIN p = 1..n /\ \A i \in 1..n : p[i] = <<s[i], m[s[i]]>>
  <2>1. VecPart(x) \in Matched(VecAny) /\ VecPart(x).map = m /\ VecPart(x).vec = s
    BY <1>1, MatchedIs DEF VecPart, m, s
  <2>2. p = VecPairs(VecPart(x))
    BY VecBarIs
  <2> HIDE DEF p
  <2> QED
    BY <2>1, <2>2, PairsAre
<1>16. q = [i \in 1..n |-> <<t[i], m[t[i]]>>]
  BY <1>10 DEF VecPairs
<1> HIDE DEF c, p, q
<1> DEFINE order == [i \in 1..n |-> CHOOSE j \in 1..n : s[j] = t[i]]
<1>17. \A i \in 1..n : order[i] \in 1..n /\ s[order[i]] = t[i]
  BY <1>1, <1>10, <1>11 DEF Matches
<1>18. ASSUME NEW i \in 1..n PROVE \E j \in 1..n : order[j] = i
  <2>1. PICK j \in 1..n : t[j] = s[i]
    BY <1>1, <1>4, <1>10, <1>11 DEF Matches
  <2>2. s[order[j]] = s[i] /\ order[j] \in 1..n
    BY <2>1, <1>17
  <2> HIDE DEF order
  <2>3. order[j] = i
    BY <2>2, <1>1 DEF Matches
  <2> QED
    BY <2>3
<1>19. order \in [1..n -> 1..n]
  <2>1. \A i \in 1..n : (CHOOSE j \in 1..n : s[j] = t[i]) \in 1..n
    BY <1>17
  <2> QED
    BY <2>1
<1> HIDE DEF order
<1>20. q = [i \in 1..n |-> p[order[i]]]
  BY <1>15, <1>16, <1>17
<1>21. Vec!entriesBar[x] = p
  BY VecBarIs DEF p
<1> HIDE DEF n
<1> QED
  BY <1>14, <1>15, <1>18, <1>19, <1>20, <1>21 DEF Vec!EntryList!Sort

(* A move takes the entries of the source over and leaves it the keys.     *)
LEMMA MoveSets ==
  ASSUME VecInv, NEW x \in Maps, NEW y \in Maps, x # y, Vec!Move(x, y)
  PROVE  VecInv' /\ Vec!EntryList!Move(x, y)
<1> DEFINE c == Vec!Filled(Vec!Empty, Vec!Entries(y))
           f == [k \in VecKeys |-> IF k \in Vec!Nodes(y) THEN Moved ELSE Absent]
<1>1. /\ m_map[y] \in [VecKeys -> VecAny \cup {Absent}] /\ m_vector[y] \in Seq(VecKeys)
      /\ Matches(m_map[y], m_vector[y])
      /\ c \in Matched(VecAny) /\ c.map = m_map[y] /\ c.vec = m_vector[y]
  BY EntriesAre
<1>2. /\ m_map' = [m_map EXCEPT ![x] = c.map, ![y] = f]
      /\ m_vector' = [m_vector EXCEPT ![x] = c.vec]
  BY DEF Vec!Move
<1>3. Moved \in VecAny /\ Absent \notin VecAny
  BY VecAssumed
<1>4. /\ f \in [VecKeys -> VecAny \cup {Absent}]
      /\ \A k \in VecKeys : f[k] # Absent <=> m_map[y][k] # Absent
  BY <1>3 DEF Vec!Nodes
<1> HIDE DEF c, f
<1>5. /\ c.map \in [VecKeys -> VecAny \cup {Absent}] /\ c.vec \in Seq(VecKeys)
      /\ Matches(c.map, c.vec)
  BY <1>1, MatchedFields
<1>6. /\ m_map \in [Maps -> [VecKeys -> VecAny \cup {Absent}]]
      /\ m_vector \in [Maps -> Seq(VecKeys)]
      /\ \A z \in Maps : Matches(m_map[z], m_vector[z])
  BY DEF VecInv
<1>7. /\ m_map' \in [Maps -> [VecKeys -> VecAny \cup {Absent}]]
      /\ m_vector' \in [Maps -> Seq(VecKeys)]
  BY <1>2, <1>4, <1>5, <1>6
<1>8. /\ m_map'[x] = c.map /\ m_vector'[x] = c.vec
      /\ m_map'[y] = f /\ m_vector'[y] = m_vector[y]
      /\ \A z \in Maps \ {x, y} : m_map'[z] = m_map[z] /\ m_vector'[z] = m_vector[z]
  BY <1>2, <1>6
<1>9. Matches(f, m_vector[y])
  BY <1>1, <1>4 DEF Matches
<1>10. \A z \in Maps : Matches(m_map'[z], m_vector'[z])
  BY <1>5, <1>6, <1>8, <1>9
<1> DEFINE p == Vec!Entries(y)
           left == [i \in DOMAIN p |-> <<p[i][1], Moved>>]
<1>11. p = [i \in DOMAIN m_vector[y] |-> <<m_vector[y][i], m_map[y][m_vector[y][i]]>>]
  BY DEF Vec!Entries
<1>12. Vec!Entries(x)' = p
  BY <1>1, <1>8 DEF Vec!Entries
<1>13. Vec!Entries(y)' = left
  <2>1. \A i \in DOMAIN m_vector[y] : f[m_vector[y][i]] = Moved
    <3> DEFINE s == m_vector[y]
               m == m_map[y]
    <3>1. s \in Seq(VecKeys) /\ Matches(m, s)
      BY <1>1
    <3> HIDE DEF s, m
    <3>2. \A i \in DOMAIN s : s[i] \in VecKeys /\ m[s[i]] # Absent
      BY <3>1 DEF Matches
    <3> QED
      BY <3>2 DEF s, m, f, Vec!Nodes
  <2>2. Vec!Entries(y)' = [i \in DOMAIN m_vector[y] |-> <<m_vector[y][i], f[m_vector[y][i]]>>]
    BY <1>8 DEF Vec!Entries
  <2> QED
    BY <2>1, <2>2, <1>11
<1>14. \A z \in Maps \ {x, y} : Vec!Entries(z)' = Vec!Entries(z)
  BY <1>8 DEF Vec!Entries
<1> HIDE DEF p
<1>15. Vec!entriesBar[y] = p
  BY VecBarIs DEF p
<1>16. [z \in Maps |-> Vec!Entries(z)']
         = [[z \in Maps |-> Vec!Entries(z)] EXCEPT ![x] = p, ![y] = left]
  BY <1>12, <1>13, <1>14
<1>17. Vec!EntryList!Move(x, y)
  BY <1>15, <1>16, VecBarIs DEF Vec!EntryList!Move
<1> QED
  BY <1>7, <1>10, <1>17 DEF VecInv

(* The calls on one map.                                                   *)
LEMMA OneMapKeeps ==
  ASSUME VecInv, NEW x \in Maps
  PROVE  /\ \A k \in VecKeys, v \in VecValues :
               Vec!Emplace(x, k, v) => VecInv' /\ Vec!EntryList!Emplace(x, k, v)
         /\ \A list \in VecLists :
               Vec!AssignList(x, list) => VecInv' /\ Vec!EntryList!AssignList(x, list)
         /\ Vec!Clear(x) => VecInv' /\ Vec!EntryList!Clear(x)
<1>a. /\ m_map[x] \in [VecKeys -> VecAny \cup {Absent}] /\ m_vector[x] \in Seq(VecKeys)
      /\ Matches(m_map[x], m_vector[x])
  BY DEF VecInv
<1>b. Absent \notin VecAny /\ Absent \notin VecValues /\ VecValues \subseteq VecAny
  BY VecAssumed
<1>c. \A c \in Matched(VecValues) : c \in Matched(VecAny)
  BY <1>b DEF Matched
<1>d. Vec!entriesBar[x] = VecPairs(VecPart(x))
  BY VecBarIs
<1>1. ASSUME NEW k \in VecKeys, NEW v \in VecValues, Vec!Emplace(x, k, v)
      PROVE  VecInv' /\ Vec!EntryList!Emplace(x, k, v)
  <2> DEFINE d == VecPart(x)
             e == <<k, v>>
  <2>1. d \in Matched(VecAny)
    BY <1>a, MatchedIs DEF VecPart
  <2>2. e \in VecEntries(VecAny)
    BY <1>b DEF VecEntries
  <2>3. Vec!Set(x, Vec!Emplaced(d, e))
    BY <1>1 DEF Vec!Emplace, VecPart
  <2> HIDE DEF d, e
  <2>4. Vec!Emplaced(d, e) \in Matched(VecAny)
    BY <2>1, <2>2, <1>b, EmplacedMatches
  <2>5. VecPairs(Vec!Emplaced(d, e)) = Vec!EntryList!Added(VecPairs(d), e)
    BY <2>1, <2>2, <1>b, EmplacedAdds
  <2>6. VecInv' /\ Vec!EntryList!Becomes(x, VecPairs(Vec!Emplaced(d, e)))
    BY <2>3, <2>4, SetKeeps, SetPairs
  <2> QED
    BY <2>5, <2>6, <1>d DEF Vec!EntryList!Emplace, d, e
<1>2. ASSUME NEW list \in VecLists, Vec!AssignList(x, list)
      PROVE  VecInv' /\ Vec!EntryList!AssignList(x, list)
  <2>1. list \in Seq(VecEntries(VecValues))
    BY VecAssumed
  <2> DEFINE c == Vec!Filled(Vec!Empty, list)
  <2>2. Vec!Empty \in Matched(VecValues)
    BY EmptyMatched
  <2>3. c \in Matched(VecAny)
    BY <2>1, <2>2, <1>b, <1>c, FilledMatches
  <2>4. Vec!Set(x, c)
    BY <1>2 DEF Vec!AssignList
  <2>5. VecPairs(c) = EntriesAdded(list)
    BY <2>1, <1>b, FilledAdds
  <2> HIDE DEF c
  <2>6. VecInv' /\ Vec!EntryList!Becomes(x, VecPairs(c))
    BY <2>3, <2>4, SetKeeps, SetPairs
  <2> QED
    BY <2>5, <2>6 DEF Vec!EntryList!AssignList, EntriesAdded
<1>3. ASSUME Vec!Clear(x) PROVE VecInv' /\ Vec!EntryList!Clear(x)
  <2>1. Vec!Set(x, Vec!Empty)
    BY <1>3 DEF Vec!Clear
  <2>2. Vec!Empty \in Matched(VecAny)
    BY EmptyMatched
  <2>3. VecPairs(Vec!Empty) = << >>
    BY DEF VecPairs, Vec!Empty
  <2>4. VecInv' /\ Vec!EntryList!Becomes(x, VecPairs(Vec!Empty))
    BY <2>1, <2>2, SetKeeps, SetPairs
  <2> QED
    BY <2>3, <2>4 DEF Vec!EntryList!Clear
<1> QED
  BY <1>1, <1>2, <1>3

(* A copy takes the entries of the source over.                            *)
LEMMA CopySets ==
  ASSUME VecInv, NEW x \in Maps, NEW y \in Maps, Vec!Copy(x, y)
  PROVE  VecInv' /\ Vec!EntryList!Copy(x, y)
<1>1. CASE x = y
  <2>1. Vec!Clear(x)
    BY <1>1 DEF Vec!Copy
  <2>2. VecInv' /\ Vec!EntryList!Clear(x)
    BY <2>1, OneMapKeeps
  <2> QED
    BY <2>2, <1>1 DEF Vec!EntryList!Clear, Vec!EntryList!Copy
<1>2. CASE x # y
  <2> DEFINE c == Vec!Filled(Vec!Empty, Vec!Entries(y))
  <2>1. c \in Matched(VecAny) /\ c.map = m_map[y] /\ c.vec = m_vector[y]
    BY EntriesAre
  <2>2. Vec!Set(x, c)
    BY <1>2 DEF Vec!Copy
  <2> HIDE DEF c
  <2>3. VecInv' /\ Vec!EntryList!Becomes(x, VecPairs(c))
    BY <2>1, <2>2, SetKeeps, SetPairs
  <2>4. VecPairs(c) = Vec!Entries(y)
    BY <2>1 DEF VecPairs, Vec!Entries
  <2>5. Vec!entriesBar[y] = Vec!Entries(y)
    BY VecBarIs
  <2> QED
    BY <2>3, <2>4, <2>5, <1>2 DEF Vec!EntryList!Copy
<1> QED
  BY <1>1, <1>2

(* Every call keeps the map and the vector in step, and is that of a list. *)
LEMMA VecKeeps == VecInv /\ Vec!Next => VecInv' /\ Vec!EntryList!Next
<1> SUFFICES ASSUME VecInv, Vec!Next PROVE VecInv' /\ Vec!EntryList!Next
  OBVIOUS
<1>1. PICK x \in Maps :
         \/ \E k \in VecKeys : Vec!Erase(x, k)
         \/ \E k \in VecKeys, v \in VecValues : Vec!Emplace(x, k, v)
         \/ \E list \in VecLists : Vec!AssignList(x, list)
         \/ Vec!Clear(x) \/ Vec!SortVec(x)
         \/ \E y \in Maps : Vec!Copy(x, y) \/ Vec!Move(x, y)
  BY DEF Vec!Next
<1>2. ASSUME NEW y \in Maps, Vec!Move(x, y) PROVE VecInv' /\ Vec!EntryList!Move(x, y)
  <2>1. CASE x = y
    <3>1. Vec!Clear(x)
      BY <2>1, <1>2 DEF Vec!Move
    <3>2. VecInv' /\ Vec!EntryList!Clear(x)
      BY <3>1, OneMapKeeps
    <3> QED
      BY <3>2, <2>1 DEF Vec!EntryList!Move
  <2>2. CASE x # y
    BY <2>2, <1>2, MoveSets
  <2> QED
    BY <2>1, <2>2
<1>3. CASE \E k \in VecKeys : Vec!Erase(x, k)
  BY <1>3, EraseKeeps DEF Vec!EntryList!Next
<1>4. CASE \E k \in VecKeys, v \in VecValues : Vec!Emplace(x, k, v)
  BY <1>4, OneMapKeeps DEF Vec!EntryList!Next
<1>5. CASE \E list \in VecLists : Vec!AssignList(x, list)
  BY <1>5, OneMapKeeps DEF Vec!EntryList!Next
<1>6. CASE Vec!Clear(x)
  BY <1>6, OneMapKeeps DEF Vec!EntryList!Next
<1>7. CASE Vec!SortVec(x)
  BY <1>7, SortVecKeeps DEF Vec!EntryList!Next
<1>8. CASE \E y \in Maps : Vec!Copy(x, y) \/ Vec!Move(x, y)
  BY <1>8, <1>2, CopySets DEF Vec!EntryList!Next
<1> QED
  BY <1>1, <1>3, <1>4, <1>5, <1>6, <1>7, <1>8

(* At the beginning every map and vector is empty.                         *)
LEMMA VecBegins == Vec!Init => VecInv
<1> SUFFICES ASSUME Vec!Init PROVE VecInv
  OBVIOUS
<1>1. /\ Vec!Nothing \in [VecKeys -> VecAny \cup {Absent}] /\ << >> \in Seq(VecKeys)
      /\ \A k \in VecKeys : Vec!Nothing[k] = Absent
  BY DEF Vec!Nothing
<1>2. Matches(Vec!Nothing, << >>)
  BY <1>1 DEF Matches
<1>3. /\ m_map \in [Maps -> [VecKeys -> VecAny \cup {Absent}]]
      /\ m_vector \in [Maps -> Seq(VecKeys)]
      /\ \A x \in Maps : m_map[x] = Vec!Nothing /\ m_vector[x] = << >>
  <2> HIDE DEF VecAny
  <2> QED
    BY <1>1 DEF Vec!Init
<1>4. \A x \in Maps : Matches(m_map[x], m_vector[x])
  BY <1>2, <1>3
<1> QED
  BY <1>3, <1>4 DEF VecInv

(* The invariant is what the map and its vector promise.                   *)
LEMMA VecMeant == VecInv => Vec!TypeOK /\ Vec!InStep
<1> SUFFICES ASSUME VecInv PROVE Vec!TypeOK /\ Vec!InStep
  OBVIOUS
<1>1. Vec!TypeOK
  BY DEF VecInv, VecAny, Vec!TypeOK
<1>2. ASSUME NEW x \in Maps
      PROVE  Vec!IsInjective(m_vector[x]) /\ Vec!ToSet(m_vector[x]) = Vec!Nodes(x)
  <2> DEFINE m == m_map[x]
             s == m_vector[x]
  <2>1. s \in Seq(VecKeys) /\ Matches(m, s)
    BY DEF VecInv
  <2>2. Vec!Nodes(x) = {k \in VecKeys : m[k] # Absent}
    BY DEF Vec!Nodes
  <2> HIDE DEF m, s
  <2>3. DOMAIN s = 1..Len(s) /\ \A i \in 1..Len(s) : s[i] \in VecKeys
    BY <2>1
  <2>4. Vec!IsInjective(s)
    BY <2>1, <2>3 DEF Matches, Vec!IsInjective
  <2>5. Vec!ToSet(s) = {k \in VecKeys : m[k] # Absent}
    BY <2>1, <2>3 DEF Matches, Vec!ToSet
  <2> QED
    BY <2>2, <2>4, <2>5 DEF s
<1> QED
  BY <1>1, <1>2 DEF Vec!InStep

-----------------------------------------------------------------------------
(* The plugins of the game                                                 *)

(* A position of the first active plugin of its partial index.             *)
IsFirst(list, j) ==
    /\ ~Plugins!Skipped(list[j])
    /\ \A h \in 1..j - 1 : \/ Plugins!Skipped(list[h])
                           \/ Plugins!PartialIndex(list[h]) # Plugins!PartialIndex(list[j])

(* Those plugins up to the n-th of the list.                               *)
FirstsUpTo(list, n) == {list[i] : i \in {j \in 1..n : IsFirst(list, j)}}

(* Plugins by index: no two of an index.                                   *)
Distinct(index) == /\ \A p \in index : Plugins!IsMod(p)
                   /\ \A p, q \in index :
                         Plugins!PartialIndex(p) = Plugins!PartialIndex(q) => p = q

(* Every name is of a plugin, every plugin's name is there.                *)
Named(names, index) ==
    /\ \A e \in names : \E p \in index : e = <<p.name, Plugins!PartialIndex(p)>>
    /\ \A p \in index : \E e \in names : e[1] = p.name

(* Both maps have what there is up to the n-th.                            *)
Holds(list, n, index, names) == index = FirstsUpTo(list, n) /\ Named(names, index)

ModTyped == /\ modAt \in Nat /\ populates \in 0..MaxPopulates
            /\ populated \in {TRUE, FALSE}
            /\ found \in {"none", "plugin", "nothing", "dangling"}
            /\ mods \in {NoMod} \cup ModLists

PopulatePlaced ==
    /\ modAt # 0 \/ populated = TRUE => mods # NoMod /\ populates >= 1
    /\ modAt # 0 /\ populated = TRUE => populates >= 2
    /\ found = "dangling" => populates >= 2
    /\ modAt = 1 => index_map = {}
    /\ modAt >= 2 => /\ modAt <= Len(mods) + 2
                     /\ Holds(mods, modAt - 2, index_map, name_map)
    /\ modAt = 0 /\ populated = TRUE => Holds(mods, Len(mods), index_map, name_map)

ModInv == ModTyped /\ Distinct(index_map) /\ PopulatePlaced

(* What is assumed of the lists of plugins.                                *)
LEMMA ModAssumed ==
  /\ \A list \in ModLists : /\ list \in Seq(ToSet(list))
                            /\ \A i \in 1..Len(list) :
                                 list[i] # NoMod => Plugins!IsMod(list[i])
  /\ Lowers \subseteq Nat /\ MaxPopulates \in Nat
<1>1. Plugins!PluginInfoAssumption
  BY ContainersAssumption, Zenon DEF ContainersAssumption
<1>2. \A list : Plugins!ToSet(list) = ToSet(list)
  BY DEF Plugins!ToSet, ToSet
<1>3. /\ \A list \in ModLists : /\ list \in Seq(ToSet(list))
                                /\ \A i \in DOMAIN list :
                                     list[i] # NoMod => Plugins!IsMod(list[i])
      /\ Lowers \subseteq Nat /\ MaxPopulates \in Nat
  BY <1>1, <1>2 DEF Plugins!PluginInfoAssumption
<1>4. \A list \in ModLists : DOMAIN list = 1..Len(list)
  BY <1>3
<1> QED
  BY <1>3, <1>4

(* The parts of a form id of a light plugin: numbers of 12 bits.           *)
Bits12 == 0..4095
Upper(n) == n \div 4096
Lower(n) == n % 4096
Lower13(n) == n % 8192
Joined(x, l) == x * 4096 + l
LightIndex(x) == 254 * 4096 + x
LightByte == 254

(* The parts of a number that is put together.                             *)
LEMMA TwelveBits ==
  ASSUME NEW q \in Nat, NEW l \in Bits12
  PROVE  Upper(Joined(q, l)) = q /\ Lower(Joined(q, l)) = l
<1> DEFINE n == q * 4096 + l
           d == n \div 4096
           r == n % 4096
<1>1. n \in Nat /\ n = q * 4096 + l /\ l \in 0..4095
  BY DEF Bits12
<1> HIDE DEF n
<1>2. n = 4096 * d + r
  BY <1>1
<1>3. d \in Int
  BY <1>1
<1>4. r \in Int /\ r >= 0 /\ r < 4096
  BY <1>1
<1> HIDE DEF d, r
<1>5. d = q /\ r = l
  <2>1. 0 <= l /\ l < 4096 /\ l \in Int /\ q \in Int
    BY <1>1
  <2>2. 4096 * d + r = q * 4096 + l
    BY <1>1, <1>2
  <2>3. d = q
    BY <2>1, <2>2, <1>3, <1>4
  <2> QED
    BY <2>1, <2>2, <2>3, <1>3, <1>4
<1> QED
  BY <1>5 DEF d, r, n, Upper, Lower, Joined

(* What is put together is what is taken apart.                            *)
LEMMA Parts12 ==
  /\ \A n \in Nat : Lower(n) \in Bits12
  /\ \A x, l \in Bits12 : Upper(Joined(x, l)) = x /\ Lower(Joined(x, l)) = l
  /\ \A l \in Bits12 : Upper(l) = 0 /\ Lower(l) = l /\ Lower13(l) = l
<1>1. ASSUME NEW n \in Nat PROVE Lower(n) \in Bits12
  <2>1. n % 4096 >= 0 /\ n % 4096 < 4096 /\ n % 4096 \in Int
    OBVIOUS
  <2> DEFINE l == n % 4096
  <2>2. l \in Int /\ l >= 0 /\ l < 4096
    BY <2>1
  <2> HIDE DEF l
  <2>3. l \in 0..4095
    BY <2>2
  <2> QED
    BY <2>3 DEF Lower, Bits12, l
<1>2. ASSUME NEW x \in Bits12, NEW l \in Bits12
      PROVE  Upper(Joined(x, l)) = x /\ Lower(Joined(x, l)) = l
  <2>1. x \in Nat
    BY DEF Bits12
  <2> QED
    BY <2>1, TwelveBits, Zenon
<1>3. ASSUME NEW l \in Bits12
      PROVE  Upper(l) = 0 /\ Lower(l) = l /\ Lower13(l) = l
  <2>1. 0 \in Bits12
    BY DEF Bits12
  <2>2. Joined(0, l) = l
    BY DEF Joined, Bits12
  <2>3. Lower13(l) = l
    BY DEF Bits12, Lower13
  <2> QED
    BY <2>1, <2>2, <2>3, <1>2
<1> QED
  BY <1>1, <1>2, <1>3

(* A plugin's form ids, when it is a light one.                            *)
LEMMA LightFormIds ==
  ASSUME NEW p, Plugins!IsMod(p), p.light \in {TRUE}, NEW lower \in Nat
  PROVE  LET id == Plugins!GetFormID(p, lower) IN
         /\ p.index \in Bits12 /\ Plugins!PartialIndex(p) = LightIndex(p.index)
         /\ id[1] = LightByte /\ Upper(id[2]) = p.index
         /\ Plugins!GetFormID(p, Plugins!GetFormIDLower(p, id)) = id
<1> DEFINE l == Lower(lower)
           x == p.index
           id == Plugins!GetFormID(p, lower)
<1>1. p.light /\ p.light = TRUE
  OBVIOUS
<1>2. x \in Bits12
  <2>1. (IF p.light THEN 4096 - 1 ELSE 256 - 3) = 4096 - 1
    BY <1>1, SMT
  <2>2. x \in 0..(IF p.light THEN 4096 - 1 ELSE 256 - 3)
    BY DEF Plugins!IsMod
  <2>3. x \in 0..4096 - 1
    <3> HIDE DEF x
    <3> QED
      BY <2>1, <2>2, SMT
  <2> HIDE DEF x
  <2> QED
    BY <2>3 DEF Bits12
<1>3. Plugins!PartialIndex(p) = LightIndex(Lower13(x))
  BY <1>1, SMT DEF Plugins!PartialIndex, LightIndex, Lower13
<1>4. \A n : Plugins!GetFormID(p, n) = <<254 + (Upper(x) % 2), Joined(Lower(x), Lower(n))>>
  BY <1>1, SMT DEF Plugins!GetFormID, Upper, Lower, Joined
<1>5. \A i : Plugins!GetFormIDLower(p, i) = Lower(i[2])
  BY <1>1, SMT DEF Plugins!GetFormIDLower, Lower
<1>6. /\ Upper(x) = 0 /\ Lower(x) = x /\ Lower13(x) = x
      /\ l \in Bits12 /\ Lower(l) = l
      /\ Upper(Joined(x, l)) = x /\ Lower(Joined(x, l)) = l
  <2> HIDE DEF x
  <2>1. l \in Bits12
    BY Parts12
  <2> HIDE DEF l
  <2> QED
    BY <2>1, <1>2, Parts12, Zenon
<1>7. 254 + (0 % 2) = 254
  OBVIOUS
<1>8. id = <<254, Joined(x, l)>>
  <2>1. id = <<254 + (Upper(x) % 2), Joined(Lower(x), l)>>
    BY <1>4
  <2> HIDE DEF x, l, id
  <2>2. id = <<254 + (0 % 2), Joined(x, l)>>
    BY <2>1, <1>6
  <2> QED
    BY <2>2, <1>7
<1>9. id[1] = LightByte /\ id[2] = Joined(x, l)
  <2> HIDE DEF x, l, id
  <2> QED
    BY <1>8 DEF LightByte
<1>10. Plugins!GetFormIDLower(p, id) = l
  <2>1. Plugins!GetFormIDLower(p, id) = Lower(id[2])
    BY <1>5, Zenon
  <2> HIDE DEF x, l, id
  <2> QED
    BY <2>1, <1>6, <1>9
<1>11. Plugins!GetFormID(p, l) = id
  <2>1. Plugins!GetFormID(p, l) = <<254 + (Upper(x) % 2), Joined(Lower(x), Lower(l))>>
    BY <1>4, Zenon
  <2>2. id = <<254 + (Upper(x) % 2), Joined(Lower(x), l)>>
    BY <1>4
  <2>3. Lower(l) = l
    BY <1>6
  <2> HIDE DEF x, l, id
  <2> QED
    BY <2>1, <2>2, <2>3
<1>12. Plugins!GetFormID(p, Plugins!GetFormIDLower(p, id)) = id
  <2> HIDE DEF l, id
  <2> QED
    BY <1>10, <1>11
<1>13. Upper(id[2]) = x /\ Plugins!PartialIndex(p) = LightIndex(x)
  <2> HIDE DEF x, l, id
  <2> QED
    BY <1>3, <1>6, <1>9
<1> HIDE DEF id, x
<1>14. x \in Bits12 /\ id[1] = LightByte /\ Upper(id[2]) = x /\ Plugins!PartialIndex(p) = LightIndex(x)
  BY <1>2, <1>9, <1>13
<1> QED
  BY <1>12, <1>14, Zenon DEF id, x

(* And when it is not.                                                     *)
LEMMA OtherFormIds ==
  ASSUME NEW p, Plugins!IsMod(p), p.light \in {FALSE}, NEW lower \in Nat
  PROVE  LET id == Plugins!GetFormID(p, lower) IN
         /\ p.index \in 0..253 /\ Plugins!PartialIndex(p) = p.index
         /\ id[1] = p.index
         /\ Plugins!GetFormID(p, Plugins!GetFormIDLower(p, id)) = id
<1> DEFINE l == lower % 16777216
           id == Plugins!GetFormID(p, lower)
<1>1. ~p.light /\ p.light = FALSE
  OBVIOUS
<1>2. p.index \in 0..253
  BY <1>1 DEF Plugins!IsMod
<1>3. l % 16777216 = l
  OBVIOUS
<1>4. Plugins!PartialIndex(p) = p.index
  BY <1>1 DEF Plugins!PartialIndex
<1>5. id = <<p.index, l>>
  BY <1>1 DEF Plugins!GetFormID
<1> HIDE DEF id, l
<1>6. Plugins!GetFormIDLower(p, id) = l
  BY <1>1, <1>5 DEF Plugins!GetFormIDLower
<1>7. Plugins!GetFormID(p, l) = <<p.index, l>>
  <2>1. Plugins!GetFormID(p, l) = <<p.index, l % 16777216>>
    BY <1>1 DEF Plugins!GetFormID
  <2> QED
    BY <2>1, <1>3
<1> QED
  BY <1>2, <1>4, <1>5, <1>6, <1>7 DEF id

(* Form ids lead back to their plugins.                                    *)
LEMMA FormIdsGood == Distinct(index_map) => Plugins!FormIdsResolve
<1> SUFFICES ASSUME Distinct(index_map), NEW p \in index_map, NEW lower \in Lowers
             PROVE  LET id == Plugins!GetFormID(p, lower) IN
                    /\ ~Plugins!IsTemporary(id)
                    /\ Plugins!GetPluginPartialIndex(id) = Plugins!PartialIndex(p)
                    /\ \A q \in index_map : Plugins!IsFormInMod(q, id) <=> q = p
                    /\ Plugins!GetFormID(p, Plugins!GetFormIDLower(p, id)) = id
  BY DEF Plugins!FormIdsResolve
<1> DEFINE id == Plugins!GetFormID(p, lower)
<1>1. lower \in Nat
  BY ModAssumed
<1>2. /\ \A q \in index_map : Plugins!IsMod(q)
      /\ \A q \in index_map : Plugins!PartialIndex(q) = Plugins!PartialIndex(p) => q = p
  BY DEF Distinct
<1>3. \A q \in index_map : q.light \in {TRUE} \/ q.light \in {FALSE}
  BY <1>2 DEF Plugins!IsMod
<1>4. ASSUME NEW q \in index_map, q.light \in {TRUE}
      PROVE  /\ q.index \in Bits12 /\ Plugins!PartialIndex(q) = LightIndex(q.index)
             /\ Plugins!IsFormInMod(q, id) <=> id[1] = LightByte /\ Upper(id[2]) = q.index
  <2>1. q.light = TRUE /\ q.light
    BY <1>4
  <2> HIDE DEF id
  <2>2. Plugins!IsMod(q)
    BY <1>2
  <2>3. q.index \in Bits12 /\ Plugins!PartialIndex(q) = LightIndex(q.index)
    BY <2>2, <1>1, <1>4, LightFormIds, Zenon
  <2>4. Plugins!IsFormInMod(q, id) <=> id[1] = LightByte /\ Upper(id[2]) = q.index
    BY <2>1, SMT DEF Plugins!IsFormInMod, Upper, LightByte
  <2> QED
    BY <2>3, <2>4
<1>5. ASSUME NEW q \in index_map, q.light \in {FALSE}
      PROVE  /\ q.index \in 0..253 /\ Plugins!PartialIndex(q) = q.index
             /\ Plugins!IsFormInMod(q, id) <=> id[1] = q.index
  <2>1. q.light = FALSE /\ ~q.light
    BY <1>5
  <2> HIDE DEF id
  <2> QED
    BY <2>1, <1>1, <1>2, <1>5, OtherFormIds DEF Plugins!IsFormInMod, Upper, LightByte
<1>6. CASE p.light \in {TRUE}
  <2>1. /\ p.index \in Bits12 /\ Plugins!PartialIndex(p) = LightIndex(p.index)
        /\ id[1] = LightByte /\ Upper(id[2]) = p.index
        /\ Plugins!GetFormID(p, Plugins!GetFormIDLower(p, id)) = id
    <3>1. Plugins!IsMod(p)
      BY <1>2
    <3> QED
      BY <3>1, <1>1, <1>6, LightFormIds, Zenon DEF id
  <2> HIDE DEF id
  <2>2. ~Plugins!IsTemporary(id)
    BY <2>1 DEF Plugins!IsTemporary, LightByte
  <2>3. Plugins!GetPluginPartialIndex(id) = Plugins!PartialIndex(p)
    BY <2>1, <2>2 DEF Plugins!GetPluginPartialIndex, Upper, LightIndex, LightByte
  <2>4. ASSUME NEW q \in index_map PROVE Plugins!IsFormInMod(q, id) <=> q = p
    <3>1. CASE q.light \in {TRUE}
      <4>1. Plugins!IsFormInMod(q, id) <=> p.index = q.index
        BY <3>1, <2>1, <1>4
      <4>2. p.index = q.index => Plugins!PartialIndex(q) = Plugins!PartialIndex(p)
        BY <3>1, <2>1, <1>4
      <4> QED
        BY <4>1, <4>2, <1>2
    <3>2. CASE q.light \in {FALSE}
      <4>1. ~Plugins!IsFormInMod(q, id)
        <5> DEFINE y == q.index
        <5>1. y \in 0..253 /\ (Plugins!IsFormInMod(q, id) <=> id[1] = y)
          BY <3>2, <1>5, Zenon
        <5> HIDE DEF y
        <5> QED
          BY <5>1, <2>1 DEF LightByte
      <4>2. q # p
        BY <3>2, <1>6
      <4> QED
        BY <4>1, <4>2
    <3> QED
      BY <3>1, <3>2, <1>3
  <2> QED
    BY <2>1, <2>2, <2>3, <2>4 DEF id
<1>7. CASE p.light \in {FALSE}
  <2>1. /\ p.index \in 0..253 /\ Plugins!PartialIndex(p) = p.index
        /\ id[1] = p.index
        /\ Plugins!GetFormID(p, Plugins!GetFormIDLower(p, id)) = id
    BY <1>1, <1>2, <1>7, OtherFormIds
  <2> HIDE DEF id
  <2>2. ~Plugins!IsTemporary(id)
    BY <2>1 DEF Plugins!IsTemporary, LightByte
  <2>3. Plugins!GetPluginPartialIndex(id) = Plugins!PartialIndex(p)
    BY <2>1, <2>2 DEF Plugins!GetPluginPartialIndex, Upper, LightIndex, LightByte
  <2>4. ASSUME NEW q \in index_map PROVE Plugins!IsFormInMod(q, id) <=> q = p
    <3>1. CASE q.light \in {TRUE}
      <4>1. ~Plugins!IsFormInMod(q, id)
        <5> DEFINE x == p.index
        <5>1. Plugins!IsFormInMod(q, id) => id[1] = LightByte
          BY <3>1, <1>4, Zenon
        <5>2. x \in 0..253 /\ id[1] = x
          BY <2>1
        <5> HIDE DEF x
        <5> QED
          BY <5>1, <5>2 DEF LightByte
      <4>2. q # p
        BY <3>1, <1>7
      <4> QED
        BY <4>1, <4>2
    <3>2. CASE q.light \in {FALSE}
      <4>1. Plugins!IsFormInMod(q, id) <=> p.index = q.index
        BY <3>2, <2>1, <1>5
      <4>2. p.index = q.index => Plugins!PartialIndex(q) = Plugins!PartialIndex(p)
        BY <3>2, <2>1, <1>5
      <4> QED
        BY <4>1, <4>2, <1>2
    <3> QED
      BY <3>1, <3>2, <1>3
  <2> QED
    BY <2>1, <2>2, <2>3, <2>4 DEF id
<1> QED
  BY <1>3, <1>6, <1>7

(* One more of the list is a plugin more when it is a first one.           *)
LEMMA FirstsNext ==
  ASSUME NEW list, NEW n \in Nat
  PROVE  /\ FirstsUpTo(list, 0) = {}
         /\ IsFirst(list, n + 1) => FirstsUpTo(list, n + 1) = FirstsUpTo(list, n) \cup {list[n + 1]}
         /\ ~IsFirst(list, n + 1) => FirstsUpTo(list, n + 1) = FirstsUpTo(list, n)
<1>1. 1..0 = {} /\ 1..n + 1 = 1..n \cup {n + 1}
  OBVIOUS
<1>2. FirstsUpTo(list, 0) = {}
  BY <1>1 DEF FirstsUpTo
<1>3. CASE IsFirst(list, n + 1)
  <2>1. {j \in 1..n + 1 : IsFirst(list, j)} = {j \in 1..n : IsFirst(list, j)} \cup {n + 1}
    BY <1>1, <1>3
  <2> QED
    BY <2>1, <1>2, <1>3 DEF FirstsUpTo
<1>4. CASE ~IsFirst(list, n + 1)
  <2>1. {j \in 1..n + 1 : IsFirst(list, j)} = {j \in 1..n : IsFirst(list, j)}
    BY <1>1, <1>4
  <2> QED
    BY <2>1, <1>2, <1>4 DEF FirstsUpTo
<1> QED
  BY <1>3, <1>4

(* Every active plugin's partial index is that of a first one.             *)
LEMMA FirstsCover ==
  ASSUME NEW list, NEW n \in Nat, NEW k \in 1..n, ~Plugins!Skipped(list[k])
  PROVE  \E q \in FirstsUpTo(list, n) :
            Plugins!PartialIndex(q) = Plugins!PartialIndex(list[k])
<1> DEFINE T == {j \in 1..n : /\ ~Plugins!Skipped(list[j])
                              /\ Plugins!PartialIndex(list[j]) = Plugins!PartialIndex(list[k])}
<1>1. PICK x \in T : \A y \in T : x <= y
  <2>1. T \in SUBSET Nat /\ T # {}
    OBVIOUS
  <2> HIDE DEF T
  <2> QED
    BY <2>1, LeastExists
<1>2. x \in 1..n /\ \A h \in 1..x - 1 : h \in 1..n /\ ~(x <= h)
  OBVIOUS
<1>3. \A h \in 1..x - 1 : h \notin T
  <2> HIDE DEF T
  <2> QED
    BY <1>1, <1>2
<1>4. IsFirst(list, x)
  BY <1>2, <1>3 DEF IsFirst
<1>5. list[x] \in FirstsUpTo(list, n)
  BY <1>2, <1>4 DEF FirstsUpTo
<1> QED
  BY <1>5

(* One name more, or none when the name is there.                          *)
LEMMA NamedNext ==
  ASSUME NEW names, NEW index, Named(names, index), NEW entry,
         NEW names1, names1 = IF \E e \in names : e[1] = entry.name THEN names
                              ELSE names \cup {<<entry.name, Plugins!PartialIndex(entry)>>}
  PROVE  Named(names1, index \cup {entry})
<1> DEFINE index1 == index \cup {entry}
           new == <<entry.name, Plugins!PartialIndex(entry)>>
<1>1. \A e \in names1 : e \in names \/ e = new
  OBVIOUS
<1>2. \A e \in names : e \in names1
  OBVIOUS
<1>3. \E e \in names1 : e[1] = entry.name
  <2>1. CASE \E e \in names : e[1] = entry.name
    BY <2>1
  <2>2. CASE ~\E e \in names : e[1] = entry.name
    <3>1. new \in names1 /\ new[1] = entry.name
      BY <2>2
    <3> QED
      BY <3>1
  <2> QED
    BY <2>1, <2>2
<1>4. entry \in index1 /\ \A p \in index : p \in index1
  OBVIOUS
<1>5. \A p \in index1 : p \in index \/ p = entry
  OBVIOUS
<1> HIDE DEF index1
<1>6. ASSUME NEW e \in names1
      PROVE  \E p \in index1 : e = <<p.name, Plugins!PartialIndex(p)>>
  BY <1>1, <1>4, Zenon DEF Named
<1>7. ASSUME NEW p \in index1 PROVE \E e \in names1 : e[1] = p.name
  BY <1>2, <1>3, <1>5, Zenon DEF Named
<1> QED
  BY <1>6, <1>7, Zenon DEF Named, index1

(* At first both maps are empty.                                           *)
LEMMA ModBegins == Plugins!Init => ModInv
<1> SUFFICES ASSUME Plugins!Init PROVE ModInv
  OBVIOUS
<1> USE DEF Plugins!Init
<1>1. ModTyped
  <2>1. 0 \in 0..MaxPopulates
    BY ModAssumed
  <2> QED
    BY <2>1 DEF ModTyped
<1>2. Distinct(index_map)
  BY DEF Distinct
<1>3. PopulatePlaced
  BY DEF PopulatePlaced
<1> QED
  BY <1>1, <1>2, <1>3 DEF ModInv

(* The next position is of a first one.                                    *)
LEMMA FirstAt ==
  ASSUME NEW list, NEW n \in Nat
  PROVE  IsFirst(list, n + 1) <=>
           /\ ~Plugins!Skipped(list[n + 1])
           /\ \A h \in 1..n : \/ Plugins!Skipped(list[h])
                              \/ Plugins!PartialIndex(list[h]) # Plugins!PartialIndex(list[n + 1])
<1> DEFINE j == n + 1
<1>1. j - 1 = n
  OBVIOUS
<1> HIDE DEF j
<1>2. IsFirst(list, j) <=>
           /\ ~Plugins!Skipped(list[j])
           /\ \A h \in 1..n : \/ Plugins!Skipped(list[h])
                              \/ Plugins!PartialIndex(list[h]) # Plugins!PartialIndex(list[j])
  BY <1>1 DEF IsFirst
<1> QED
  BY <1>2 DEF j

(* The maps after one more of the list.                                    *)
LEMMA MapsAfterAdd ==
  ASSUME ModInv, Plugins!AddMod
  PROVE  Distinct(index_map') /\ Holds(mods, modAt - 1, index_map', name_map')
<1> DEFINE n == modAt - 2
           p == mods[modAt - 1]
           taken == {q \in index_map : Plugins!PartialIndex(q) = Plugins!PartialIndex(p)}
           entry == IF taken = {} THEN p ELSE CHOOSE q \in taken : TRUE
<1>1. /\ modAt \in Nat /\ modAt >= 2 /\ modAt <= Len(mods) + 1
      /\ Holds(mods, n, index_map, name_map)
      /\ mods \in ModLists /\ Distinct(index_map)
  BY DEF ModInv, ModTyped, PopulatePlaced, Plugins!AddMod, Plugins!Loops
<1>2. n \in Nat /\ n + 1 = modAt - 1 /\ n + 1 \in 1..Len(mods)
  <2>1. Len(mods) \in Nat
    BY <1>1, ModAssumed
  <2> QED
    BY <2>1, <1>1
<1>3. p = mods[n + 1] /\ (p # NoMod => Plugins!IsMod(p))
  BY <1>1, <1>2, ModAssumed
<1> HIDE DEF n
<1>4. index_map = FirstsUpTo(mods, n) /\ Named(name_map, index_map)
  BY <1>1 DEF Holds
<1>5. CASE Plugins!Skipped(p)
  <2>1. index_map' = index_map /\ name_map' = name_map
    BY <1>5 DEF Plugins!AddMod
  <2>2. ~IsFirst(mods, n + 1)
    BY <1>3, <1>5 DEF IsFirst
  <2>3. FirstsUpTo(mods, n + 1) = index_map
    BY <2>2, <1>2, <1>4, FirstsNext
  <2> QED
    BY <2>1, <2>3, <1>1, <1>2, <1>4 DEF Holds
<1>6. CASE ~Plugins!Skipped(p)
  <2>1. /\ index_map' = index_map \cup {entry}
        /\ name_map' = IF \E e \in name_map : e[1] = entry.name THEN name_map
                      ELSE name_map \cup {<<entry.name, Plugins!PartialIndex(entry)>>}
    BY <1>6, Zenon DEF Plugins!AddMod
  <2>2. CASE taken = {}
    <3>1. entry = p
      BY <2>2
    <3>2. IsFirst(mods, n + 1)
      <4>1. ASSUME NEW k \in 1..n, ~Plugins!Skipped(mods[k])
            PROVE  Plugins!PartialIndex(mods[k]) # Plugins!PartialIndex(p)
        <5>1. PICK q \in index_map : Plugins!PartialIndex(q) = Plugins!PartialIndex(mods[k])
          BY <4>1, <1>2, <1>4, FirstsCover
        <5> QED
          BY <5>1, <2>2
      <4>2. mods[n + 1] = p
        BY <1>3
      <4> HIDE DEF p
      <4>3. /\ ~Plugins!Skipped(mods[n + 1])
            /\ \A k \in 1..n :
                  \/ Plugins!Skipped(mods[k])
                  \/ Plugins!PartialIndex(mods[k]) # Plugins!PartialIndex(mods[n + 1])
        BY <4>1, <4>2, <1>6
      <4> QED
        BY <4>3, <1>2, FirstAt
    <3>3. FirstsUpTo(mods, n + 1) = index_map \cup {p}
      BY <3>2, <1>2, <1>3, <1>4, FirstsNext
    <3>4. Plugins!IsMod(p)
      BY <1>3, <1>6 DEF Plugins!Skipped
    <3>5. \A q \in index_map : Plugins!PartialIndex(q) # Plugins!PartialIndex(p)
      BY <2>2
    <3> HIDE DEF p, taken, entry
    <3>6. index_map' = index_map \cup {p}
      BY <3>1, <2>1
    <3>7. Distinct(index_map')
      BY <3>4, <3>5, <3>6, <1>1, Zenon DEF Distinct
    <3> QED
      <4>1. Named(name_map', index_map \cup {entry})
        BY <2>1, <1>4, NamedNext
      <4>2. Named(name_map', index_map')
        BY <4>1, <2>1
      <4>3. index_map' = FirstsUpTo(mods, modAt - 1)
        BY <3>3, <3>6, <1>2
      <4> QED
        BY <4>2, <4>3, <3>7 DEF Holds
  <2>3. CASE taken # {}
    <3>1. entry \in taken
      BY <2>3
    <3>2. entry \in index_map /\ Plugins!PartialIndex(entry) = Plugins!PartialIndex(p)
      BY <3>1
    <3> HIDE DEF entry
    <3>3. ~IsFirst(mods, n + 1)
      <4>1. PICK k \in 1..n : entry = mods[k] /\ IsFirst(mods, k)
        BY <3>2, <1>4 DEF FirstsUpTo
      <4>2. ~Plugins!Skipped(mods[k])
        BY <4>1 DEF IsFirst
      <4>3. mods[n + 1] = p
        BY <1>3
      <4> HIDE DEF p, taken
      <4>4. Plugins!PartialIndex(mods[k]) = Plugins!PartialIndex(mods[n + 1])
        BY <4>1, <4>3, <3>2
      <4> QED
        BY <4>2, <4>4, <1>2, FirstAt
    <3>4. FirstsUpTo(mods, n + 1) = index_map
      BY <3>3, <1>2, <1>4, FirstsNext
    <3> HIDE DEF p, taken
    <3>5. index_map' = index_map /\ index_map \cup {entry} = index_map
      BY <3>2, <2>1
    <3>6. Named(name_map', index_map \cup {entry})
      BY <2>1, <1>4, NamedNext
    <3> QED
      BY <3>4, <3>5, <3>6, <1>1, <1>2 DEF Holds
  <2> QED
    BY <2>2, <2>3
<1> QED
  BY <1>5, <1>6

(* Every step keeps the maps right, up to where Populate has got.          *)
LEMMA ModKeeps == ModInv /\ Plugins!Next => ModInv'
<1> SUFFICES ASSUME ModInv, Plugins!Next PROVE ModInv'
  OBVIOUS
<1> USE DEF ModInv
<1>1. CASE Plugins!GameLoads
  <2>1. /\ mods = NoMod /\ mods' \in ModLists
        /\ UNCHANGED <<index_map, name_map, populated, modAt, populates, found>>
    BY <1>1 DEF Plugins!GameLoads
  <2>2. modAt = 0 /\ populated # TRUE
    BY <2>1 DEF PopulatePlaced, ModTyped
  <2>3. ModTyped' /\ Distinct(index_map)'
    BY <2>1 DEF ModTyped
  <2>4. PopulatePlaced'
    BY <2>1, <2>2 DEF PopulatePlaced
  <2> QED
    BY <2>3, <2>4
<1>2. CASE Plugins!PopulateStart
  <2>1. /\ modAt = 0 /\ mods # NoMod /\ populates < MaxPopulates
        /\ index_map' = {} /\ modAt' = 1 /\ populates' = populates + 1
        /\ UNCHANGED <<mods, name_map, populated, found>>
    BY <1>2 DEF Plugins!PopulateStart
  <2>2. populates \in Nat /\ populates' \in 0..MaxPopulates /\ populates' >= 1
    BY <2>1, ModAssumed DEF ModTyped
  <2>3. ModTyped'
    BY <2>1, <2>2 DEF ModTyped
  <2>4. Distinct(index_map)'
    BY <2>1 DEF Distinct
  <2>5. populated = TRUE => populates' >= 2
    BY <2>1, <2>2 DEF PopulatePlaced
  <2>6. PopulatePlaced'
    BY <2>1, <2>2, <2>5 DEF PopulatePlaced
  <2> QED
    BY <2>3, <2>4, <2>6
<1>3. CASE Plugins!ClearNames
  <2>1. /\ modAt = 1 /\ name_map' = {} /\ modAt' = 2
        /\ UNCHANGED <<mods, index_map, populated, populates, found>>
    BY <1>3 DEF Plugins!ClearNames
  <2>2. index_map = {} /\ mods # NoMod /\ populates >= 1 /\ (populated = TRUE => populates >= 2)
    BY <2>1 DEF PopulatePlaced
  <2>3. ModTyped' /\ Distinct(index_map)'
    BY <2>1 DEF ModTyped
  <2>4. Holds(mods, 0, index_map', name_map')
    BY <2>1, <2>2, FirstsNext DEF Holds, Named
  <2>5. Len(mods) \in Nat
    BY <2>2, ModAssumed DEF ModTyped
  <2>6. PopulatePlaced'
    BY <2>1, <2>2, <2>4, <2>5 DEF PopulatePlaced
  <2> QED
    BY <2>3, <2>6
<1>4. CASE Plugins!AddMod
  <2>1. /\ modAt' = modAt + 1 /\ modAt >= 2 /\ modAt <= Len(mods) + 1
        /\ UNCHANGED <<mods, populated, populates, found>>
    BY <1>4 DEF Plugins!AddMod, Plugins!Loops
  <2>2. Distinct(index_map') /\ Holds(mods, modAt - 1, index_map', name_map')
    BY <1>4, MapsAfterAdd
  <2>3. modAt \in Nat /\ Len(mods) \in Nat /\ mods # NoMod /\ populates >= 1
        /\ (populated = TRUE => populates >= 2)
    BY <2>1, ModAssumed DEF ModTyped, PopulatePlaced
  <2>4. ModTyped'
    <3>1. modAt' \in Nat
      BY <2>1, <2>3
    <3> QED
      BY <2>1, <3>1 DEF ModTyped
  <2>5. modAt' - 2 = modAt - 1 /\ modAt' >= 2 /\ modAt' <= Len(mods) + 2 /\ modAt' # 1
    BY <2>1, <2>3
  <2>6. Holds(mods', modAt' - 2, index_map', name_map')
    BY <2>1, <2>2, <2>5
  <2>7. PopulatePlaced'
    BY <2>1, <2>3, <2>5, <2>6 DEF PopulatePlaced
  <2> QED
    BY <2>2, <2>4, <2>7
<1>5. CASE Plugins!PopulateEnd
  <2>1. /\ modAt >= 2 /\ modAt = Len(mods) + 2 /\ populated' = TRUE /\ modAt' = 0
        /\ UNCHANGED <<mods, index_map, name_map, populates, found>>
    BY <1>5 DEF Plugins!PopulateEnd
  <2>2. mods # NoMod /\ populates >= 1 /\ Holds(mods, modAt - 2, index_map, name_map)
    BY <2>1 DEF PopulatePlaced, ModTyped
  <2>3. Len(mods) \in Nat
    BY <2>2, ModAssumed DEF ModTyped
  <2>4. Holds(mods, Len(mods), index_map, name_map)
    <3>1. modAt - 2 = Len(mods)
      BY <2>1, <2>3
    <3> QED
      BY <3>1, <2>2
  <2>5. ModTyped' /\ Distinct(index_map)'
    BY <2>1 DEF ModTyped
  <2>6. PopulatePlaced'
    BY <2>1, <2>2, <2>4 DEF PopulatePlaced
  <2> QED
    BY <2>5, <2>6
<1>6. ASSUME NEW name, Plugins!Lookup(name) PROVE ModInv'
  <2>1. /\ found' \in {"nothing", "plugin", "dangling"}
        /\ UNCHANGED <<mods, index_map, name_map, populated, modAt, populates>>
    BY <1>6 DEF Plugins!Lookup
  <2>2. found' = "dangling" => populates' >= 2
    <3> SUFFICES ASSUME found' = "dangling" PROVE populates >= 2
      BY <2>1
    <3>1. populated = TRUE
      BY <1>6 DEF Plugins!Lookup, ModTyped
    <3>2. PICK x \in name_map : \A p \in index_map : Plugins!PartialIndex(p) # x[2]
      BY <1>6 DEF Plugins!Lookup
    <3>3. modAt = 0 => \E p \in index_map : x = <<p.name, Plugins!PartialIndex(p)>>
      BY <3>1, <3>2 DEF PopulatePlaced, Holds, Named
    <3>4. modAt # 0
      BY <3>2, <3>3
    <3> QED
      BY <3>1, <3>4 DEF PopulatePlaced
  <2>3. ModTyped' /\ Distinct(index_map)'
    BY <2>1 DEF ModTyped
  <2>4. PopulatePlaced'
    BY <2>1, <2>2 DEF PopulatePlaced
  <2> QED
    BY <2>3, <2>4
<1> QED
  BY <1>1, <1>2, <1>3, <1>4, <1>5, <1>6 DEF Plugins!Next

(* What the maps promise, and where form ids lead.                         *)
LEMMA ModMeant == ModInv => Plugins!TypeOK /\ Plugins!Complete /\ Plugins!FormIdsResolve
<1> SUFFICES ASSUME ModInv PROVE Plugins!TypeOK /\ Plugins!Complete /\ Plugins!FormIdsResolve
  OBVIOUS
<1> USE DEF ModInv
<1>1. Plugins!TypeOK
  BY DEF ModTyped, Distinct, Plugins!TypeOK
<1>2. Plugins!FormIdsResolve
  BY FormIdsGood
<1>3. Plugins!Complete
  <2> SUFFICES ASSUME modAt = 0 /\ populated
               PROVE  /\ index_map = Plugins!Firsts(Plugins!PartialIndex)
                      /\ \A e \in name_map : \E p \in index_map :
                            e = <<p.name, Plugins!PartialIndex(p)>>
                      /\ {e[1] : e \in name_map} = {p.name : p \in index_map}
    BY DEF Plugins!Complete
  <2>1. populated = TRUE
    BY DEF ModTyped
  <2>2. mods \in ModLists /\ Holds(mods, Len(mods), index_map, name_map)
    BY <2>1 DEF PopulatePlaced, ModTyped
  <2>3. DOMAIN mods = 1..Len(mods)
    BY <2>2, ModAssumed
  <2>4. Plugins!Firsts(Plugins!PartialIndex) = FirstsUpTo(mods, Len(mods))
    BY <2>3, Zenon DEF Plugins!Firsts, FirstsUpTo, IsFirst
  <2>5. index_map = Plugins!Firsts(Plugins!PartialIndex)
    BY <2>2, <2>4 DEF Holds
  <2>6. /\ \A e \in name_map : \E p \in index_map : e = <<p.name, Plugins!PartialIndex(p)>>
        /\ \A p \in index_map : \E e \in name_map : e[1] = p.name
    BY <2>2, Zenon DEF Holds, Named
  <2>7. \A e \in name_map : \E p \in index_map : e[1] = p.name
    BY <2>6
  <2> QED
    <3>1. {e[1] : e \in name_map} = {p.name : p \in index_map}
      BY <2>6, <2>7
    <3> QED
      BY <2>5, <2>6, <3>1, Zenon
<1> QED
  BY <1>1, <1>2, <1>3

(* A name dangles only between the clears of a Populate that runs again.   *)
LEMMA ModDangles == ModInv => Plugins!DanglesBetweenClears
<1> SUFFICES ASSUME ModInv PROVE Plugins!DanglesBetweenClears
  OBVIOUS
<1> USE DEF ModInv
<1>1. ASSUME populated = TRUE, modAt # 1, NEW x \in name_map
      PROVE  \E p \in index_map : Plugins!PartialIndex(p) = x[2]
  <2>1. Named(name_map, index_map)
    BY <1>1 DEF PopulatePlaced, Holds, ModTyped
  <2>2. PICK p \in index_map : x = <<p.name, Plugins!PartialIndex(p)>>
    BY <1>1, <2>1 DEF Named
  <2> QED
    BY <2>2
<1>2. populated = TRUE /\ modAt = 1 => populates > 1
  BY DEF PopulatePlaced, ModTyped
<1>3. found = "dangling" => populates > 1
  <2>1. populates \in Nat
    BY DEF ModTyped
  <2> QED
    BY <2>1 DEF PopulatePlaced
<1>4. ASSUME populated, \E e \in name_map : \A p \in index_map : Plugins!PartialIndex(p) # e[2]
      PROVE  modAt = 1 /\ populates > 1
  <2>1. populated = TRUE
    BY <1>4 DEF ModTyped
  <2>2. modAt = 1
    BY <1>1, <1>4, <2>1
  <2> QED
    BY <1>2, <2>1, <2>2
<1> QED
  BY <1>3, <1>4 DEF Plugins!DanglesBetweenClears

-----------------------------------------------------------------------------
(* The three containers                                                    *)

ContainersInv == FlatInv /\ VecInv /\ ModInv

(* Every step keeps the three invariants.                                  *)
LEMMA ContainersKeep == ContainersInv /\ [ContainersNext]_containersVars => ContainersInv'
<1> SUFFICES ASSUME ContainersInv, [ContainersNext]_containersVars PROVE ContainersInv'
  OBVIOUS
<1>a. FlatInv /\ VecInv /\ ModInv
  BY DEF ContainersInv
<1>1. UNCHANGED flatVars => FlatInv'
  BY <1>a DEF flatVars, FlatInv
<1>2. UNCHANGED vecVars => VecInv'
  BY <1>a DEF vecVars, VecInv
<1>3. UNCHANGED modVars => ModInv'
  BY <1>a DEF modVars, ModInv, ModTyped, PopulatePlaced
<1>4. CASE FlatStep
  BY <1>a, <1>2, <1>3, <1>4, FlatKeeps DEF FlatStep, ContainersInv
<1>5. CASE VecStep
  BY <1>a, <1>1, <1>3, <1>5, VecKeeps DEF VecStep, ContainersInv
<1>6. CASE ModStep
  BY <1>a, <1>1, <1>2, <1>6, ModKeeps DEF ModStep, ContainersInv
<1>7. CASE UNCHANGED containersVars
  BY <1>1, <1>2, <1>3, <1>7 DEF containersVars, ContainersInv
<1> QED
  BY <1>4, <1>5, <1>6, <1>7 DEF ContainersNext

(* They hold in every state.                                               *)
LEMMA ContainersHold == ContainersSpec => []ContainersInv
<1>1. ContainersInit => ContainersInv
  BY FlatBegins, VecBegins, ModBegins DEF ContainersInit, ContainersInv
<1> QED
  BY <1>1, ContainersKeep, PTL DEF ContainersSpec

(* Map.h:87-400, Vector.h:27-242, IPluginInfo.cpp:14-52: after every call  *)
(* the vector of the flat map is sorted without duplicates and the vector  *)
(* of the hash map has each of its nodes once; after Populate the maps of  *)
(* the plugins agree, a form id leads back to its plugin, and a name leads *)
(* to a plugin that is gone only between the clears of a later Populate.   *)
THEOREM ContainersInStep == ContainersSpec => []InStep
<1>1. ContainersInv => InStep
  BY FlatMeant, VecMeant, ModMeant, ModDangles DEF ContainersInv, InStep
<1> QED
  BY <1>1, ContainersHold, PTL

(* Map.h:87-400: the sorted vector is a map. Whatever its calls find, add, *)
(* replace, remove and load, in any order, is what the same calls of a map *)
(* with ordered keys would, the first of equal keys of a list included,    *)
(* and the iterator that a call returns refers to the same entry.          *)
THEOREM SortedVectorIsMap == ContainersSpec => IsMap
<1>1. ContainersInit => Flat!Ordered!Init
  BY MapBegins DEF ContainersInit
<1>2. ContainersInv /\ [ContainersNext]_containersVars
      => [Flat!Ordered!Next]_(Flat!Ordered!vars)
  <2> SUFFICES ASSUME ContainersInv, [ContainersNext]_containersVars
               PROVE  Flat!Ordered!Next \/ UNCHANGED Flat!Ordered!vars
    OBVIOUS
  <2>1. CASE FlatStep
    BY <2>1, MapSteps DEF FlatStep, ContainersInv
  <2>2. CASE UNCHANGED <<data, ret>>
    <3>1. data' = data /\ ret' = ret
      BY <2>2
    <3>2. Flat!mapBar' = Flat!mapBar
      BY <3>1, BarIsMap
    <3> QED
      BY <3>1, <3>2 DEF Flat!Ordered!vars
  <2> QED
    BY <2>1, <2>2 DEF ContainersNext, VecStep, ModStep, containersVars, flatVars
<1> QED
  BY <1>1, <1>2, ContainersHold, PTL DEF ContainersSpec, IsMap, Flat!IsMap, Flat!Ordered!Spec

(* Vector.h:24-229: vectormaps are lists of entries without two of a key,  *)
(* call by call. Erasing, sorting, copying and moving change the map and   *)
(* the vector in step, a copy or move takes over all entries of its source *)
(* in their order, and an object assigned to itself ends empty.            *)
THEOREM VectorMapIsEntryList == ContainersSpec => IsEntryList
<1>1. ContainersInit => Vec!EntryList!Init
  <2> SUFFICES ASSUME Vec!Init PROVE Vec!EntryList!Init
    BY DEF ContainersInit
  <2>1. \A x \in Maps : Vec!Entries(x) = << >>
    BY DEF Vec!Init, Vec!Entries
  <2> QED
    BY <2>1, VecBarIs DEF Vec!EntryList!Init
<1>2. ContainersInv /\ [ContainersNext]_containersVars
      => [Vec!EntryList!Next]_(Vec!entriesBar)
  <2> SUFFICES ASSUME ContainersInv, [ContainersNext]_containersVars
               PROVE  Vec!EntryList!Next \/ UNCHANGED Vec!entriesBar
    OBVIOUS
  <2>1. CASE VecStep
    BY <2>1, VecKeeps DEF VecStep, ContainersInv
  <2>2. CASE UNCHANGED <<m_map, m_vector>>
    <3>1. m_map' = m_map /\ m_vector' = m_vector
      BY <2>2
    <3> QED
      BY <3>1 DEF Vec!entriesBar, Vec!Entries
  <2> QED
    BY <2>1, <2>2 DEF ContainersNext, FlatStep, ModStep, containersVars, vecVars
<1> QED
  BY <1>1, <1>2, ContainersHold, PTL DEF ContainersSpec, IsEntryList, Vec!IsEntryList,
     Vec!EntryList!Spec

-----------------------------------------------------------------------------
(* The queue that threads share                                            *)

USE ThreadsAssumption, NoneAssumption

(* What the types need of the exclusion and the exclusion of the types.    *)
Safe == TypeOK /\ Exclusion

(* Nobody has the lock and the buffer is empty.                            *)
LEMMA InitSafe == Init => Safe
<1> SUFFICES ASSUME Init PROVE Safe
  OBVIOUS
<1>1. TypeOK
  BY DEF Init, TypeOK, Threads, ProducerPC, ConsumerPC
<1>2. Exclusion
  BY DEF Init, Exclusion, Threads, Inside
<1> QED
  BY <1>1, <1>2 DEF Safe

(* The steps of a producer keep the types and the exclusion.               *)
LEMMA ProducerSafe ==
  ASSUME Safe, NEW p \in Producers, ProducerNext(p)
  PROVE  Safe'
<1> USE DEF Safe, TypeOK, Threads, ProducerPC, ConsumerPC
<1>1. CASE Push(p)
  <2>1. PICK x \in todo : arg' = [arg EXCEPT ![p] = x] /\ todo' = todo \ {x}
    BY <1>1 DEF Push
  <2>2. TypeOK'
    BY <1>1, <2>1 DEF Push
  <2>3. Exclusion'
    BY <1>1 DEF Push, Exclusion, Inside
  <2> QED
    BY <2>2, <2>3
<1>2. CASE PushLock(p)
  <2>1. TypeOK'
    BY <1>2 DEF PushLock
  <2>2. Exclusion'
    BY <1>2 DEF PushLock, Exclusion, Inside
  <2> QED
    BY <2>1, <2>2
<1>3. CASE PushEmplace(p)
  <2>1. arg[p] \in Items
    BY <1>3 DEF PushEmplace
  <2>2. TypeOK'
    BY <1>3, <2>1 DEF PushEmplace
  <2>3. mutex = p
    BY <1>3 DEF PushEmplace, Exclusion, Inside
  <2>4. Exclusion'
    BY <1>3, <2>3 DEF PushEmplace, Exclusion, Inside
  <2> QED
    BY <2>2, <2>4
<1>4. CASE PushNotify(p)
  <2>1. TypeOK'
    BY <1>4 DEF PushNotify, Waiters
  <2>2. Exclusion'
    BY <1>4 DEF PushNotify, Exclusion, Inside, Waiters
  <2> QED
    BY <2>1, <2>2
<1> QED
  BY <1>1, <1>2, <1>3, <1>4 DEF ProducerNext

(* The steps of a consumer keep the types and the exclusion.               *)
LEMMA ConsumerSafe ==
  ASSUME Safe, NEW c \in Consumers, ConsumerNext(c)
  PROVE  Safe'
<1> USE DEF Safe, TypeOK, Threads, ProducerPC, ConsumerPC
<1>1. CASE Pop(c)
  <2>1. TypeOK'
    BY <1>1 DEF Pop
  <2>2. Exclusion'
    BY <1>1 DEF Pop, Exclusion, Inside
  <2> QED
    BY <2>1, <2>2
<1>2. CASE PopLock(c)
  <2>1. TypeOK'
    BY <1>2 DEF PopLock
  <2>2. Exclusion'
    BY <1>2 DEF PopLock, Exclusion, Inside
  <2> QED
    BY <2>1, <2>2
<1>3. CASE PopCheck(c)
  <2>1. TypeOK'
    BY <1>3 DEF PopCheck
  <2>2. Exclusion'
    BY <1>3 DEF PopCheck, Exclusion, Inside
  <2> QED
    BY <2>1, <2>2
<1>4. CASE PopWait(c)
  <2>1. TypeOK'
    BY <1>4 DEF PopWait
  <2>2. mutex = c
    BY <1>4 DEF PopWait, Exclusion, Inside
  <2>3. Exclusion'
    BY <1>4, <2>2 DEF PopWait, Exclusion, Inside
  <2> QED
    BY <2>1, <2>3
<1>5. CASE PopFront(c)
  <2>1. /\ mutex = c
        /\ queue # << >>
    BY <1>5 DEF PopFront, Exclusion, Inside
  <2>2. Head(queue) \in Items /\ Tail(queue) \in Seq(Items)
    BY <2>1
  <2>3. TypeOK'
    BY <1>5, <2>2 DEF PopFront
  <2>4. Exclusion'
    BY <1>5, <2>1 DEF PopFront, Exclusion, Inside
  <2> QED
    BY <2>3, <2>4
<1>6. CASE SpuriousWakeup(c)
  <2>1. TypeOK'
    BY <1>6 DEF SpuriousWakeup
  <2>2. Exclusion'
    BY <1>6 DEF SpuriousWakeup, Exclusion, Inside
  <2> QED
    BY <2>1, <2>2
<1> QED
  BY <1>1, <1>2, <1>3, <1>4, <1>5, <1>6 DEF ConsumerNext

(* A step that changes nothing keeps it.                                   *)
LEMMA StutterSafe == Safe /\ UNCHANGED vars => Safe'
  BY DEF Safe, TypeOK, Exclusion, vars

(* So does every step of a producer or a consumer.                         *)
LEMMA NextSafe == Safe /\ [Next]_vars => Safe'
  BY ProducerSafe, ConsumerSafe, StutterSafe DEF Next

(* Hence it holds always.                                                  *)
LEMMA AlwaysSafe == Spec => []Safe
  BY InitSafe, NextSafe, PTL DEF Spec

(* Only pushed items are stored, and each thread is where its kind can be. *)
THEOREM TypeCorrect == Spec => []TypeOK
<1>1. Safe => TypeOK
  BY DEF Safe
<1> QED
  BY <1>1, AlwaysSafe, PTL

(* At most one thread is inside a critical section of the queue, and what  *)
(* a consumer saw under the mutex is still so when it acts on it.          *)
THEOREM MutualExclusion == Spec => []Exclusion
<1>1. Safe => Exclusion
  BY DEF Safe
<1> QED
  BY <1>1, AlwaysSafe, PTL

-----------------------------------------------------------------------------
(* The lost wakeup. NoLostWakeup is inductive given the types and the      *)
(* exclusion: each step is followed by what it does to the number of       *)
(* threads in flight.                                                      *)

(* Threads can be counted.                                                 *)
LEMMA ThreadSets ==
  ASSUME NEW S \in SUBSET Threads
  PROVE  IsFiniteSet(S) /\ Cardinality(S) \in Nat
<1>1. IsFiniteSet(Threads)
  BY FS_Union DEF Threads
<1>2. IsFiniteSet(S)
  BY <1>1, FS_Subset
<1> QED
  BY <1>2, FS_CardinalityType

(* So can those in flight.                                                 *)
LEMMA InFlightFinite == /\ IsFiniteSet(InFlight)
                        /\ Cardinality(InFlight) \in Nat
                        /\ Cardinality(InFlight') \in Nat
<1>1. InFlight \in SUBSET Threads /\ InFlight' \in SUBSET Threads
  BY DEF InFlight, Threads
<1> QED
  BY <1>1, ThreadSets

(* Any step that adds no more values than threads in flight is harmless,   *)
(* unless it sends the first consumer to sleep.                            *)
LEMMA Balance ==
  ASSUME TypeOK, TypeOK', NoLostWakeup,
         Waiters' # {} => Waiters # {},
         Len(queue') - Len(queue) <= Cardinality(InFlight') - Cardinality(InFlight)
  PROVE  NoLostWakeup'
<1>1. Len(queue) \in Nat /\ Len(queue') \in Nat
  BY DEF TypeOK
<1> QED
  BY <1>1, InFlightFinite DEF NoLostWakeup

(* What a producer does loses no wakeup.                                   *)
LEMMA ProducerNoLostWakeup ==
  ASSUME Safe, Safe', NoLostWakeup, NEW p \in Producers, ProducerNext(p)
  PROVE  NoLostWakeup'
<1> USE DEF Safe, TypeOK, Threads
<1>1. CASE Push(p) \/ PushLock(p)
  <2>1. InFlight' = InFlight /\ Waiters' = Waiters /\ queue' = queue
    BY <1>1 DEF Push, PushLock, InFlight, Waiters
  <2> QED
    BY <2>1 DEF NoLostWakeup
<1>2. CASE PushEmplace(p)
  <2>1. /\ p \notin InFlight
        /\ InFlight' = InFlight \cup {p}
        /\ Waiters' = Waiters
    BY <1>2 DEF PushEmplace, InFlight, Waiters
  <2>2. Len(queue') = Len(queue) + 1
    BY <1>2 DEF PushEmplace
  <2>3. Cardinality(InFlight') = Cardinality(InFlight) + 1
    BY <2>1, InFlightFinite, FS_AddElement
  <2> QED
    BY <2>1, <2>2, <2>3, InFlightFinite, Balance
<1>3. CASE PushNotify(p)
  <2>1. CASE Waiters = {}
    <3>1. Waiters' = {}
      BY <1>3, <2>1 DEF PushNotify, Waiters
    <3> QED
      BY <3>1 DEF NoLostWakeup
  <2>2. CASE \E c \in Waiters : pc' = [pc EXCEPT ![p] = "idle", ![c] = "lock"]
    <3>1. PICK c \in Waiters : pc' = [pc EXCEPT ![p] = "idle", ![c] = "lock"]
      BY <2>2
    <3>2. /\ p \in InFlight
          /\ c \notin InFlight \ {p}
          /\ InFlight' = (InFlight \ {p}) \cup {c}
          /\ queue' = queue
      BY <1>3, <3>1 DEF PushNotify, InFlight, Waiters
    <3>3. /\ IsFiniteSet(InFlight \ {p})
          /\ Cardinality(InFlight \ {p}) = Cardinality(InFlight) - 1
      BY <3>2, InFlightFinite, FS_RemoveElement
    <3>4. Cardinality((InFlight \ {p}) \cup {c}) = Cardinality(InFlight \ {p}) + 1
      BY <3>2, <3>3, FS_AddElement
    <3>5. Cardinality(InFlight') = Cardinality(InFlight)
      BY <3>2, <3>3, <3>4, InFlightFinite
    <3>6. Waiters # {}
      BY <3>1
    <3> QED
      BY <3>2, <3>5, <3>6 DEF NoLostWakeup
  <2> QED
    BY <1>3, <2>1, <2>2 DEF PushNotify
<1> QED
  BY <1>1, <1>2, <1>3 DEF ProducerNext

(* What a consumer does loses none either.                                 *)
LEMMA ConsumerNoLostWakeup ==
  ASSUME Safe, Safe', NoLostWakeup, NEW c \in Consumers, ConsumerNext(c)
  PROVE  NoLostWakeup'
<1> USE DEF Safe, TypeOK, Threads
<1>1. CASE Pop(c) \/ SpuriousWakeup(c)
  <2>1. /\ c \notin InFlight
        /\ InFlight' = InFlight \cup {c}
        /\ queue' = queue
        /\ Waiters' \subseteq Waiters
    BY <1>1 DEF Pop, SpuriousWakeup, InFlight, Waiters
  <2>2. Cardinality(InFlight') = Cardinality(InFlight) + 1
    BY <2>1, InFlightFinite, FS_AddElement
  <2>3. Len(queue') <= Len(queue) + 1
    BY <2>1
  <2> QED
    BY <2>1, <2>2, <2>3, InFlightFinite, Balance
<1>2. CASE PopLock(c)
  <2>1. InFlight' = InFlight /\ Waiters' = Waiters /\ queue' = queue
    BY <1>2 DEF PopLock, InFlight, Waiters
  <2> QED
    BY <2>1 DEF NoLostWakeup
<1>3. CASE PopCheck(c)
  <2>1. CASE queue = << >>
    <3>1. Len(queue') = 0
      BY <1>3, <2>1 DEF PopCheck
    <3> QED
      BY <3>1, InFlightFinite DEF NoLostWakeup
  <2>2. CASE queue # << >>
    <3>1. InFlight' = InFlight /\ Waiters' = Waiters /\ queue' = queue
      BY <1>3, <2>2 DEF PopCheck, InFlight, Waiters
    <3> QED
      BY <3>1 DEF NoLostWakeup
  <2> QED
    BY <2>1, <2>2
<1>4. CASE PopWait(c)
  <2>1. Len(queue') = 0
    BY <1>4 DEF PopWait, Exclusion
  <2> QED
    BY <2>1, InFlightFinite DEF NoLostWakeup
<1>5. CASE PopFront(c)
  <2>1. /\ c \in InFlight
        /\ InFlight' = InFlight \ {c}
        /\ Waiters' = Waiters
    BY <1>5 DEF PopFront, InFlight, Waiters
  <2>2. Len(queue') = Len(queue) - 1
    BY <1>5 DEF PopFront, Exclusion
  <2>3. Cardinality(InFlight') = Cardinality(InFlight) - 1
    BY <2>1, InFlightFinite, FS_RemoveElement
  <2> QED
    BY <2>1, <2>2, <2>3, InFlightFinite, Balance
<1> QED
  BY <1>1, <1>2, <1>3, <1>4, <1>5 DEF ConsumerNext

(* No wakeup is lost: while a consumer sleeps, there are at least as many  *)
(* threads on the way to the queue as there are values in it.              *)
THEOREM NoWakeupIsLost == Spec => []NoLostWakeup
<1>1. Init => NoLostWakeup
  <2> SUFFICES ASSUME Init PROVE Waiters = {}
    BY DEF NoLostWakeup
  <2> QED
    BY DEF Init, Waiters, Threads
<1>2. Safe /\ Safe' /\ NoLostWakeup /\ [Next]_vars => NoLostWakeup'
  <2> SUFFICES ASSUME Safe, Safe', NoLostWakeup, [Next]_vars
               PROVE  NoLostWakeup'
    OBVIOUS
  <2>1. CASE UNCHANGED vars
    BY <2>1 DEF vars, NoLostWakeup, Waiters, InFlight
  <2> QED
    BY <2>1, ProducerNoLostWakeup, ConsumerNoLostWakeup DEF Next
<1> QED
  BY <1>1, <1>2, AlwaysSafe, PTL DEF Spec

-----------------------------------------------------------------------------
(* The queue implements FifoQueue: an emplace is an Enqueue, the removal   *)
(* of the front a Dequeue, and every other step leaves the contents and    *)
(* the consumers' variables alone.                                         *)
THEOREM ImplementsFifo == Spec => FifoSpec
<1>1. Init => Fifo!Init
  BY DEF Init, Fifo!Init
<1>2. ASSUME Safe, [Next]_vars
      PROVE  [Fifo!Next]_<<queue, item>>
  <2> USE DEF Safe
  <2>1. ASSUME NEW p \in Producers, PushEmplace(p)
        PROVE  Fifo!Enqueue(arg[p]) /\ arg[p] \in Items
    BY <1>2, <2>1 DEF PushEmplace, Fifo!Enqueue, TypeOK
  <2>2. ASSUME NEW p \in Producers, ProducerNext(p), ~ PushEmplace(p)
        PROVE  UNCHANGED <<queue, item>>
    BY <2>2 DEF ProducerNext, Push, PushLock, PushNotify
  <2>3. ASSUME NEW c \in Consumers, PopFront(c)
        PROVE  Fifo!Dequeue(c)
    BY <1>2, <2>3 DEF PopFront, Fifo!Dequeue, Exclusion
  <2>4. ASSUME NEW c \in Consumers, ConsumerNext(c), ~ PopFront(c)
        PROVE  UNCHANGED <<queue, item>>
    BY <2>4 DEF ConsumerNext, Pop, PopLock, PopCheck, PopWait, SpuriousWakeup
  <2>5. CASE UNCHANGED vars
    BY <2>5 DEF vars
  <2>6. CASE \E p \in Producers : ProducerNext(p)
    BY <2>1, <2>2, <2>6 DEF Fifo!Next
  <2>7. CASE \E c \in Consumers : ConsumerNext(c)
    BY <2>3, <2>4, <2>7 DEF Fifo!Next
  <2> QED
    BY <1>2, <2>5, <2>6, <2>7 DEF Next
<1> QED
  BY <1>1, <1>2, AlwaysSafe, PTL DEF Spec, FifoSpec, Fifo!Spec
=============================================================================
