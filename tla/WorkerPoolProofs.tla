-------------------------- MODULE WorkerPoolProofs --------------------------
(***************************************************************************)
(* Proofs about WorkerPool for any finite set of thread identities and any *)
(* tasks: types, one sentinel per thread, and that Stop() drains.          *)
(***************************************************************************)
EXTENDS WorkerPool, Integers, FiniteSets, SequencesExt, FiniteSetTheorems,
        SequenceTheorems, TLAPS

-----------------------------------------------------------------------------
(* Values in sequences                                                     *)

(* Where a value is in a sequence.                                         *)
Positions(v, s) == {i \in DOMAIN s : s[i] = v}

(* There are n positions in a sequence of length n.                        *)
LEMMA IntervalCount ==
  ASSUME NEW n \in Nat
  PROVE  IsFiniteSet(1..n) /\ Cardinality(1..n) = n
<1>1. n \in Int /\ 1 \in Int
  OBVIOUS
<1>2. /\ IsFiniteSet(1..n)
      /\ Cardinality(1..n) = IF 1 > n THEN 0 ELSE n - 1 + 1
  BY <1>1, FS_Interval
<1> QED
  BY <1>2

(* How often it is there is a number.                                     *)
LEMMA PositionsFinite ==
  ASSUME NEW S, NEW s \in Seq(S), NEW v
  PROVE  /\ IsFiniteSet(Positions(v, s))
         /\ Cardinality(Positions(v, s)) \in Nat
<1>1. /\ Positions(v, s) \in SUBSET (1..Len(s))
      /\ Len(s) \in Int
  BY DEF Positions
<1>2. IsFiniteSet(1..Len(s))
  BY <1>1, FS_Interval
<1>3. IsFiniteSet(Positions(v, s))
  BY <1>1, <1>2, FS_Subset
<1> QED
  BY <1>3, FS_CardinalityType

(* A value is absent if and only if it is counted 0 times.                 *)
LEMMA PositionsEmpty ==
  ASSUME NEW S, NEW s \in Seq(S), NEW v
  PROVE  Cardinality(Positions(v, s)) = 0 <=> \A i \in 1..Len(s) : s[i] # v
<1>1. Positions(v, s) = {} <=> \A i \in 1..Len(s) : s[i] # v
  BY DEF Positions
<1> QED
  BY <1>1, PositionsFinite, FS_EmptySet

(* Append adds one occurrence of what is appended.                         *)
LEMMA PositionsAppend ==
  ASSUME NEW S, NEW s \in Seq(S), NEW x \in S, NEW v
  PROVE  Cardinality(Positions(v, Append(s, x)))
           = Cardinality(Positions(v, s)) + (IF x = v THEN 1 ELSE 0)
<1> DEFINE n == Len(s) + 1
<1>1. /\ n \notin Positions(v, s)
      /\ Positions(v, Append(s, x))
           = IF x = v THEN Positions(v, s) \cup {n} ELSE Positions(v, s)
  BY DEF Positions
<1>2. CASE x = v
  <2>1. Cardinality(Positions(v, s) \cup {n}) = Cardinality(Positions(v, s)) + 1
    BY <1>1, PositionsFinite, FS_AddElement
  <2> QED
    BY <1>1, <1>2, <2>1
<1>3. CASE x # v
  BY <1>1, <1>3, PositionsFinite
<1> QED
  BY <1>2, <1>3

(* Tail takes away one occurrence of the head: the others move up.         *)
LEMMA PositionsTail ==
  ASSUME NEW S, NEW s \in Seq(S), s # << >>, NEW v
  PROVE  Cardinality(Positions(v, Tail(s)))
           = Cardinality(Positions(v, s)) - (IF Head(s) = v THEN 1 ELSE 0)
<1> DEFINE A == Positions(v, s) \ {1}
           B == Positions(v, Tail(s))
           f == [i \in A |-> i - 1]
<1>1. /\ Len(s) \in Nat \ {0}
      /\ Tail(s) \in Seq(S)
      /\ Len(Tail(s)) = Len(s) - 1
      /\ \A i \in 1..Len(s) - 1 : Tail(s)[i] = s[i + 1]
      /\ Head(s) = s[1]
  BY HeadTailProperties
<1>2. ExistsBijection(A, B)
  <2>1. A \subseteq 2..Len(s)
    BY <1>1 DEF Positions
  <2>2. f \in [A -> B]
    BY <1>1, <2>1 DEF Positions
  <2>3. \A a, b \in A : f[a] = f[b] => a = b
    BY <2>1
  <2>4. \A j \in B : j + 1 \in A /\ f[j + 1] = j
    BY <1>1 DEF Positions
  <2>5. f \in Injection(A, B) /\ f \in Surjection(A, B)
    BY <2>2, <2>3, <2>4 DEF Injection, IsInjective, Surjection
  <2> QED
    BY <2>5 DEF Bijection, ExistsBijection
<1>3. IsFiniteSet(A) /\ Cardinality(A)
        = Cardinality(Positions(v, s)) - (IF 1 \in Positions(v, s) THEN 1 ELSE 0)
  BY PositionsFinite, FS_RemoveElement
<1>4. Cardinality(B) = Cardinality(A)
  BY <1>2, <1>3, FS_Bijection
<1>5. 1 \in Positions(v, s) <=> Head(s) = v
  BY <1>1 DEF Positions
<1> QED
  BY <1>3, <1>4, <1>5

(* Append adds its element.                                                *)
LEMMA AppendElements ==
  ASSUME NEW S, NEW s \in Seq(S), NEW v \in S
  PROVE  ToSet(Append(s, v)) = ToSet(s) \cup {v}
<1>1. /\ Len(s) \in Nat
      /\ DOMAIN s = 1..Len(s)
      /\ DOMAIN Append(s, v) = 1..Len(s) + 1
      /\ \A i \in 1..Len(s) : Append(s, v)[i] = s[i]
      /\ Append(s, v)[Len(s) + 1] = v
  BY AppendProperties
<1> QED
  BY <1>1 DEF ToSet

(* Tail takes the head away.                                               *)
LEMMA TailElements ==
  ASSUME NEW S, NEW s \in Seq(S), s # << >>
  PROVE  ToSet(s) = ToSet(Tail(s)) \cup {Head(s)}
<1>1. /\ Len(s) \in Nat \ {0}
      /\ DOMAIN s = 1..Len(s)
      /\ DOMAIN Tail(s) = 1..Len(s) - 1
      /\ \A i \in 1..Len(s) - 1 : Tail(s)[i] = s[i + 1]
      /\ Head(s) = s[1]
  BY HeadTailProperties
<1>2. ASSUME NEW j \in DOMAIN s, j # 1
      PROVE  j - 1 \in DOMAIN Tail(s) /\ Tail(s)[j - 1] = s[j]
  <2>1. j - 1 \in 1..Len(s) - 1 /\ (j - 1) + 1 = j
    BY <1>1, <1>2
  <2> QED
    BY <1>1, <2>1
<1>3. ASSUME NEW j \in DOMAIN s
      PROVE  s[j] \in ToSet(Tail(s)) \cup {Head(s)}
  BY <1>1, <1>2 DEF ToSet
<1>4. 1 \in 1..Len(s) /\ \A i \in 1..Len(s) - 1 : i + 1 \in 1..Len(s)
  BY <1>1
<1>5. ToSet(Tail(s)) \cup {Head(s)} \subseteq ToSet(s)
  BY <1>1, <1>4 DEF ToSet
<1> QED
  BY <1>3, <1>5 DEF ToSet

(* An x is somewhere before a y.                                           *)
Precedes(x, y, s) == \E i, j \in DOMAIN s : i < j /\ s[i] = x /\ s[j] = y

(* What Append adds comes after all others.                                *)
LEMMA AppendPrecedes ==
  ASSUME NEW S, NEW s \in Seq(S), NEW v \in S, NEW x, NEW y
  PROVE  Precedes(x, y, Append(s, v)) <=> Precedes(x, y, s) \/ (x \in ToSet(s) /\ y = v)
<1>1. /\ Len(s) \in Nat
      /\ DOMAIN s = 1..Len(s)
      /\ DOMAIN Append(s, v) = 1..Len(s) + 1
      /\ \A i \in 1..Len(s) : Append(s, v)[i] = s[i]
      /\ Append(s, v)[Len(s) + 1] = v
  BY AppendProperties
<1>2. ASSUME NEW i \in DOMAIN Append(s, v), NEW j \in DOMAIN Append(s, v),
             i < j, Append(s, v)[i] = x, Append(s, v)[j] = y
      PROVE  Precedes(x, y, s) \/ (x \in ToSet(s) /\ y = v)
  <2>1. i \in DOMAIN s /\ s[i] = x
    BY <1>1, <1>2
  <2>2. CASE j \in DOMAIN s
    BY <1>1, <1>2, <2>1, <2>2 DEF Precedes
  <2>3. CASE j \notin DOMAIN s
    BY <1>1, <1>2, <2>1, <2>3 DEF ToSet
  <2> QED
    BY <2>2, <2>3
<1>3. ASSUME NEW i \in DOMAIN s
      PROVE  i \in DOMAIN Append(s, v) /\ Len(s) + 1 \in DOMAIN Append(s, v) /\ i < Len(s) + 1
  BY <1>1, <1>3
<1>4. Precedes(x, y, s) => Precedes(x, y, Append(s, v))
  BY <1>1, <1>3 DEF Precedes
<1>5. x \in ToSet(s) /\ y = v => Precedes(x, y, Append(s, v))
  BY <1>1, <1>3 DEF Precedes, ToSet
<1> QED
  BY <1>2, <1>4, <1>5 DEF Precedes

(* The head came before all others.                                        *)
LEMMA TailPrecedes ==
  ASSUME NEW S, NEW s \in Seq(S), s # << >>, NEW x, NEW y
  PROVE  Precedes(x, y, s) <=> Precedes(x, y, Tail(s)) \/ (x = Head(s) /\ y \in ToSet(Tail(s)))
<1>1. /\ Len(s) \in Nat \ {0}
      /\ DOMAIN s = 1..Len(s)
      /\ DOMAIN Tail(s) = 1..Len(s) - 1
      /\ \A i \in 1..Len(s) - 1 : Tail(s)[i] = s[i + 1]
      /\ Head(s) = s[1]
  BY HeadTailProperties
<1>2. ASSUME NEW j \in DOMAIN s, j # 1
      PROVE  j - 1 \in DOMAIN Tail(s) /\ Tail(s)[j - 1] = s[j]
  <2>1. j - 1 \in 1..Len(s) - 1 /\ (j - 1) + 1 = j
    BY <1>1, <1>2
  <2> QED
    BY <1>1, <2>1
<1>3. ASSUME NEW i \in DOMAIN s, NEW j \in DOMAIN s, i < j, s[i] = x, s[j] = y
      PROVE  Precedes(x, y, Tail(s)) \/ (x = Head(s) /\ y \in ToSet(Tail(s)))
  <2>1. j # 1 /\ i - 1 < j - 1
    BY <1>1, <1>3
  <2>2. j - 1 \in DOMAIN Tail(s) /\ Tail(s)[j - 1] = y
    BY <1>2, <1>3, <2>1
  <2>3. CASE i = 1
    BY <1>1, <1>3, <2>2, <2>3 DEF ToSet
  <2>4. CASE i # 1
    BY <1>2, <1>3, <2>1, <2>2, <2>4 DEF Precedes
  <2> QED
    BY <2>3, <2>4
<1>4. ASSUME NEW i \in DOMAIN Tail(s)
      PROVE  i + 1 \in DOMAIN s /\ s[i + 1] = Tail(s)[i] /\ 1 < i + 1 /\ 1 \in DOMAIN s
  BY <1>1, <1>4
<1>5. ASSUME NEW i \in DOMAIN Tail(s), NEW j \in DOMAIN Tail(s),
             i < j, Tail(s)[i] = x, Tail(s)[j] = y
      PROVE  Precedes(x, y, s)
  <2>1. i + 1 < j + 1
    BY <1>1, <1>5
  <2> QED
    BY <1>4, <1>5, <2>1 DEF Precedes
<1>6. x = Head(s) /\ y \in ToSet(Tail(s)) => Precedes(x, y, s)
  BY <1>1, <1>4 DEF Precedes, ToSet
<1> QED
  BY <1>3, <1>5, <1>6 DEF Precedes

USE WorkerPoolAssumption

-----------------------------------------------------------------------------
(* The inductive invariant                                                 *)

(* How far the loops of Start and Stop have come.                          *)
Rounds == /\ owner = "start" => next <= numThreads /\ numThreads <= Cardinality(Workers)
          /\ owner \in {"push", "join"} => next <= Len(threads)

(* Stop() has joined only threads that left their loop.                    *)
JoinedExited == owner = "join" => \A i \in 1..next : state[threads[i]] = "exited"

IInv == TypeOK /\ Rounds /\ JoinedExited /\ SentinelsMatch

WorkerStates == {"none", "pop", "process", "exited"}

-----------------------------------------------------------------------------
(* Counting threads                                                        *)

(* Workers can be counted.                                                 *)
LEMMA WorkerSets ==
  ASSUME NEW S \in SUBSET Workers
  PROVE  IsFiniteSet(S) /\ Cardinality(S) \in Nat
BY FS_Subset, FS_CardinalityType

(* The vector is as long as there are threads.                             *)
LEMMA ThreadCount ==
  ASSUME TypeOK
  PROVE  /\ Len(threads) = Cardinality(Alive)
         /\ Len(threads) \in 0..Cardinality(Workers)
<1>1. /\ threads \in [1..Len(threads) -> Alive]
      /\ Len(threads) \in Nat
      /\ Alive \in SUBSET Workers
  BY DEF TypeOK, ToSet, Alive
<1>2. threads \in Bijection(1..Len(threads), Alive)
  BY <1>1 DEF TypeOK, ToSet, Bijection, Injection, Surjection
<1>3. ExistsBijection(1..Len(threads), Alive)
  BY <1>2 DEF ExistsBijection
<1>4. IsFiniteSet(1..Len(threads)) /\ Cardinality(1..Len(threads)) = Len(threads)
  BY <1>1, IntervalCount
<1>5. Cardinality(Alive) = Len(threads)
  BY <1>3, <1>4, FS_Bijection
<1>6. Cardinality(Alive) <= Cardinality(Workers)
  BY <1>1, FS_Subset
<1> QED
  BY <1>1, <1>5, <1>6, WorkerSets

(* So can the sentinels stored and the workers that took one.              *)
LEMMA SentinelCounts ==
  ASSUME TypeOK
  PROVE  /\ StoredSentinels = Positions(Sentinel, queue)
         /\ Cardinality(StoredSentinels) \in Nat
         /\ Exited \in SUBSET Workers /\ IsFiniteSet(Exited)
         /\ Cardinality(Exited) \in Nat
<1>1. StoredSentinels = Positions(Sentinel, queue)
  BY DEF StoredSentinels, Positions
<1>2. Exited \in SUBSET Workers
  BY DEF Exited
<1> QED
  BY <1>1, <1>2, WorkerSets, PositionsFinite DEF TypeOK

(* When every thread is joined, each has taken its sentinel.               *)
LEMMA AllJoined ==
  ASSUME IInv, owner = "join", next = Len(threads)
  PROVE  /\ Exited = Alive
         /\ Cardinality(StoredSentinels) = 0
<1>1. \A i \in DOMAIN threads : state[threads[i]] = "exited"
  BY DEF IInv, JoinedExited, TypeOK
<1>2. Exited = Alive
  BY <1>1 DEF IInv, TypeOK, ToSet, Alive, Exited
<1>3. Cardinality(StoredSentinels) + Cardinality(Exited) = Len(threads)
  BY DEF IInv, SentinelsMatch, PushedSentinels
<1> QED
  BY <1>2, <1>3, ThreadCount, SentinelCounts DEF IInv


-----------------------------------------------------------------------------
(* The steps                                                               *)

(* The pool is not started to begin with.                                  *)
LEMMA InitIInv == Init => IInv
<1> SUFFICES ASSUME Init PROVE IInv
  OBVIOUS
<1>1. TypeOK
  <2>1. 0 \in 0..Cardinality(Workers)
    BY FS_CardinalityType
  <2>2. ToSet(threads) = Alive /\ IsInjective(threads)
    BY DEF Init, ToSet, Alive, IsInjective
  <2> QED
    BY <2>1, <2>2 DEF Init, TypeOK
<1>2. Rounds /\ JoinedExited
  BY DEF Init, Rounds, JoinedExited
<1>3. SentinelsMatch
  <2>1. StoredSentinels = {} /\ Exited = {}
    BY DEF Init, StoredSentinels, Exited
  <2> QED
    BY <2>1, FS_EmptySet DEF Init, SentinelsMatch, PushedSentinels
<1> QED
  BY <1>1, <1>2, <1>3 DEF IInv

(* Steps that change neither the queue nor a thread.                       *)
LEMMA OwnerMoves ==
  ASSUME IInv, SetThreadCount \/ Start \/ StartThrow \/ StartReturn \/ Stop \/ StopJoin
  PROVE  IInv'
<1> USE DEF IInv
<1>1. UNCHANGED <<threads, queue, state, task, todo, done>>
  BY DEF SetThreadCount, Start, StartThrow, StartReturn, Stop, StopJoin
<1>2. UNCHANGED <<StoredSentinels, Exited, Alive>>
  BY <1>1 DEF StoredSentinels, Exited, Alive
<1>3. /\ numThreads' \in 0..MaxThreads
      /\ owner' \in {"idle", "start", "push", "join"}
      /\ next' \in 0..Cardinality(Workers)
      /\ Rounds'
  BY <1>1, ThreadCount, WorkerSets
     DEF SetThreadCount, Start, StartThrow, StartReturn, Stop, StopJoin, TypeOK, Rounds
<1>4. TypeOK'
  BY <1>1, <1>2, <1>3 DEF TypeOK, ToSet, IsInjective
<1>5. JoinedExited'
  BY <1>1 DEF SetThreadCount, Start, StartThrow, StartReturn, Stop, StopJoin,
              JoinedExited, TypeOK
<1>6. SentinelsMatch'
  BY <1>1, <1>2, ThreadCount
     DEF SetThreadCount, Start, StartThrow, StartReturn, Stop, StopJoin,
         SentinelsMatch, PushedSentinels
<1> QED
  BY <1>3, <1>4, <1>5, <1>6

(* A thread is started and joins the vector.                               *)
LEMMA StartThreadIInv ==
  ASSUME IInv, StartThread
  PROVE  IInv'
<1> USE DEF IInv
<1>1. PICK w \in Workers :
        /\ state[w] = "none"
        /\ threads' = Append(threads, w)
        /\ state' = [state EXCEPT ![w] = "pop"]
        /\ task' = [task EXCEPT ![w] = None]
  BY DEF StartThread
<1>2. /\ owner = "start" /\ next < numThreads /\ next' = next + 1
      /\ UNCHANGED <<numThreads, queue, owner, todo, done, owed>>
  BY DEF StartThread
<1>3. Alive' = Alive \cup {w} /\ w \notin Alive
  BY <1>1 DEF TypeOK, Alive
<1>4. ToSet(threads') = ToSet(threads) \cup {w} /\ threads' \in Seq(Workers)
  BY <1>1, AppendElements DEF TypeOK
<1>5. IsInjective(threads')
  <2>1. \A i \in 1..Len(threads) : threads[i] # w
    BY <1>3 DEF TypeOK, ToSet
  <2> QED
    BY <1>1, <2>1 DEF TypeOK, IsInjective
<1>6. next' \in 0..Cardinality(Workers) /\ Rounds'
  BY <1>2, WorkerSets DEF Rounds, TypeOK
<1>7. TypeOK'
  BY <1>1, <1>2, <1>3, <1>4, <1>5, <1>6 DEF TypeOK
<1>8. StoredSentinels' = StoredSentinels /\ Exited' = Exited
  BY <1>1, <1>2 DEF StoredSentinels, Exited, TypeOK
<1>9. JoinedExited' /\ SentinelsMatch'
  BY <1>2, <1>8 DEF JoinedExited, SentinelsMatch, PushedSentinels
<1> QED
  BY <1>6, <1>7, <1>9

(* A sentinel more in the queue, until there is one per thread.            *)
LEMMA StopPushIInv ==
  ASSUME IInv, StopPush
  PROVE  IInv'
<1> USE DEF IInv
<1>1. /\ owner = "push"
      /\ UNCHANGED <<numThreads, threads, state, task, todo, done, owed>>
  BY DEF StopPush, Queue!Enqueue
<1>2. UNCHANGED <<Alive, Exited>>
  BY <1>1 DEF Alive, Exited
<1>3. CASE next < Len(threads)
  <2>1. queue' = Append(queue, Sentinel) /\ next' = next + 1 /\ owner' = "push"
    BY <1>1, <1>3 DEF StopPush, Queue!Enqueue
  <2>2. next' \in 0..Len(threads)
    BY <1>3, <2>1, ThreadCount DEF TypeOK
  <2>3. TypeOK'
    BY <1>1, <1>2, <2>1, <2>2, ThreadCount, WorkerSets DEF TypeOK, ToSet, IsInjective
  <2>4. Cardinality(StoredSentinels') = Cardinality(StoredSentinels) + 1
    <3>1. queue \in Seq(Tasks \cup {Sentinel}) /\ Sentinel \in Tasks \cup {Sentinel}
      BY DEF TypeOK
    <3>2. StoredSentinels' = Positions(Sentinel, Append(queue, Sentinel))
      BY <2>1 DEF StoredSentinels, Positions
    <3> QED
      BY <3>1, <3>2, SentinelCounts, PositionsAppend
  <2>5. SentinelsMatch'
    BY <1>1, <1>2, <2>1, <2>4, SentinelCounts DEF SentinelsMatch, PushedSentinels, TypeOK
  <2>6. Rounds' /\ JoinedExited'
    BY <1>1, <2>1, <2>2 DEF Rounds, JoinedExited
  <2> QED
    BY <2>3, <2>5, <2>6
<1>4. CASE ~ (next < Len(threads))
  <2>1. queue' = queue /\ next' = 0 /\ owner' = "join" /\ next = Len(threads)
    BY <1>1, <1>4, ThreadCount DEF StopPush, Rounds, TypeOK
  <2>2. TypeOK'
    BY <1>1, <1>2, <2>1, WorkerSets DEF TypeOK, ToSet, IsInjective
  <2>3. SentinelsMatch'
    BY <1>1, <1>2, <2>1 DEF SentinelsMatch, PushedSentinels, StoredSentinels
  <2>4. Rounds' /\ JoinedExited'
    BY <1>1, <2>1, ThreadCount DEF Rounds, JoinedExited
  <2> QED
    BY <2>2, <2>3, <2>4
<1> QED
  BY <1>3, <1>4

(* The queue holds no sentinel any more when the vector is cleared.        *)
LEMMA StopReturnIInv ==
  ASSUME IInv, StopReturn
  PROVE  IInv'
<1> USE DEF IInv
<1>1. /\ owner = "join" /\ next = Len(threads)
      /\ threads' = << >> /\ owner' = "idle"
      /\ UNCHANGED <<numThreads, queue, next, task, todo, done, owed>>
  BY DEF StopReturn
<1>2. state' = [w \in Workers |-> "none"]
  BY DEF StopReturn, TypeOK, Alive
<1>3. Alive' = {} /\ Exited' = {} /\ ToSet(threads') = {} /\ IsInjective(threads')
  BY <1>1, <1>2 DEF Alive, Exited, ToSet, IsInjective
<1>4. TypeOK'
  BY <1>1, <1>2, <1>3 DEF TypeOK
<1>5. SentinelsMatch'
  <2>1. Cardinality(StoredSentinels') = 0
    BY <1>1, AllJoined DEF StoredSentinels
  <2> QED
    BY <1>1, <1>3, <2>1, FS_EmptySet DEF SentinelsMatch, PushedSentinels
<1>6. Rounds' /\ JoinedExited'
  BY <1>1 DEF Rounds, JoinedExited
<1> QED
  BY <1>4, <1>5, <1>6

(* A task is queued.                                                       *)
LEMMA PushIInv ==
  ASSUME IInv, Push
  PROVE  IInv'
<1> USE DEF IInv
<1>1. PICK x \in todo : queue' = Append(queue, x) /\ task' = task /\ todo' = todo \ {x}
  BY DEF Push, Queue!Enqueue
<1>2. UNCHANGED <<numThreads, threads, owner, next, state, done, owed>>
  BY DEF Push
<1>3. UNCHANGED <<Alive, Exited>>
  BY <1>2 DEF Alive, Exited
<1>4. TypeOK'
  BY <1>1, <1>2, <1>3 DEF TypeOK, ToSet, IsInjective
<1>5. SentinelsMatch'
  <2>1. queue \in Seq(Tasks \cup {Sentinel}) /\ x \in Tasks \cup {Sentinel} /\ x # Sentinel
    BY DEF TypeOK
  <2>2. StoredSentinels' = Positions(Sentinel, Append(queue, x))
    BY <1>1 DEF StoredSentinels, Positions
  <2>3. Cardinality(StoredSentinels') = Cardinality(StoredSentinels)
    BY <2>1, <2>2, SentinelCounts, PositionsAppend
  <2> QED
    BY <1>2, <1>3, <2>3 DEF SentinelsMatch, PushedSentinels
<1>6. Rounds' /\ JoinedExited'
  BY <1>2 DEF Rounds, JoinedExited
<1> QED
  BY <1>4, <1>5, <1>6

(* A worker that takes a sentinel leaves its loop: one for one.            *)
LEMMA PumpPopIInv ==
  ASSUME IInv, NEW w \in Workers, PumpPop(w)
  PROVE  IInv'
<1> USE DEF IInv
<1> DEFINE v == Head(queue)
<1>1. /\ state[w] = "pop" /\ queue # << >>
      /\ queue' = Tail(queue)
      /\ task' = [task EXCEPT ![w] = v]
      /\ state' = [state EXCEPT ![w] = IF v = Sentinel THEN "exited" ELSE "process"]
      /\ UNCHANGED <<numThreads, threads, owner, next, todo, done, owed>>
  BY DEF PumpPop, Queue!Dequeue, TypeOK
<1>2. v \in Tasks \cup {Sentinel} /\ queue' \in Seq(Tasks \cup {Sentinel})
  BY <1>1 DEF TypeOK
<1>3. Alive' = Alive
  BY <1>1 DEF Alive, TypeOK
<1>4. TypeOK'
  BY <1>1, <1>2, <1>3 DEF TypeOK, ToSet, IsInjective
<1>5. Cardinality(StoredSentinels')
        = Cardinality(StoredSentinels) - (IF v = Sentinel THEN 1 ELSE 0)
  <2>1. queue \in Seq(Tasks \cup {Sentinel})
    BY DEF TypeOK
  <2>2. StoredSentinels' = Positions(Sentinel, Tail(queue))
    BY <1>1 DEF StoredSentinels, Positions
  <2> QED
    BY <1>1, <2>1, <2>2, SentinelCounts, PositionsTail
<1>6. Cardinality(Exited') = Cardinality(Exited) + (IF v = Sentinel THEN 1 ELSE 0)
  <2>1. /\ w \notin Exited
        /\ Exited' = IF v = Sentinel THEN Exited \cup {w} ELSE Exited
    BY <1>1 DEF Exited, TypeOK
  <2>2. Cardinality(Exited \cup {w}) = Cardinality(Exited) + 1
    BY <2>1, SentinelCounts, FS_AddElement
  <2> QED
    BY <2>1, <2>2, SentinelCounts
<1>7. SentinelsMatch'
  BY <1>1, <1>5, <1>6, SentinelCounts DEF SentinelsMatch, PushedSentinels
<1>8. Rounds' /\ JoinedExited'
  BY <1>1 DEF Rounds, JoinedExited, TypeOK
<1> QED
  BY <1>4, <1>7, <1>8

(* A task was run.                                                         *)
LEMMA PumpProcessIInv ==
  ASSUME IInv, NEW w \in Workers, PumpProcess(w)
  PROVE  IInv'
<1> USE DEF IInv
<1>1. /\ state[w] = "process" /\ state' = [state EXCEPT ![w] = "pop"]
      /\ done' = done \cup {task[w]}
      /\ UNCHANGED <<numThreads, threads, queue, owner, next, task, todo, owed>>
  BY DEF PumpProcess
<1>2. Alive' = Alive /\ Exited' = Exited /\ StoredSentinels' = StoredSentinels
  BY <1>1 DEF Alive, Exited, StoredSentinels, TypeOK
<1>3. TypeOK'
  BY <1>1, <1>2 DEF TypeOK, ToSet, IsInjective
<1>4. SentinelsMatch'
  BY <1>1, <1>2 DEF SentinelsMatch, PushedSentinels
<1>5. Rounds' /\ JoinedExited'
  BY <1>1 DEF Rounds, JoinedExited, TypeOK
<1> QED
  BY <1>3, <1>4, <1>5

(* Every step keeps the inductive invariant.                               *)
LEMMA NextIInv == IInv /\ [Next]_vars => IInv'
<1> SUFFICES ASSUME IInv, [Next]_vars PROVE IInv'
  OBVIOUS
<1>1. CASE UNCHANGED vars
  BY <1>1 DEF vars, IInv, TypeOK, Alive, ToSet, IsInjective, Rounds, JoinedExited,
              SentinelsMatch, StoredSentinels, Exited, PushedSentinels
<1>2. CASE Next
  BY <1>2, OwnerMoves, StartThreadIInv, StopPushIInv, StopReturnIInv, PushIInv,
     PumpPopIInv, PumpProcessIInv DEF Next, OwnerStep
<1> QED
  BY <1>1, <1>2

(* Hence it holds always.                                                  *)
LEMMA AlwaysIInv == Spec => []IInv
  BY InitIInv, NextIInv, PTL DEF Spec

(* Types, and one sentinel for each thread that Stop() stops, whatever the *)
(* threads do and however often the pool is started again.                 *)
THEOREM PoolSafe == Spec => []Safe
<1>1. IInv => Safe
  BY DEF IInv, Safe
<1> QED
  BY <1>1, AlwaysIInv, PTL

-----------------------------------------------------------------------------
(* Stop() drains. What was stored when it was called stays before every    *)
(* sentinel, so that no thread can leave before all of it is taken.        *)

Ahead(x) == \E i \in DOMAIN queue :
    queue[i] = x /\ \A j \in DOMAIN queue : queue[j] = Sentinel => i < j

Held(x) == \E w \in Workers : state[w] = "process" /\ task[w] = x

OwedFirst == owner \in {"push", "join"} =>
    \A x \in owed : x \in done \/ Held(x) \/ (Exited = {} /\ Ahead(x))

(* Sentinels are there only while Stop is under way.                       *)
LEMMA NoSentinelStored ==
  ASSUME IInv, owner \notin {"push", "join"}
  PROVE  Exited = {} /\ \A i \in DOMAIN queue : queue[i] # Sentinel
<1>1. Cardinality(StoredSentinels) = 0 /\ Cardinality(Exited) = 0
  BY SentinelCounts DEF IInv, SentinelsMatch, PushedSentinels
<1>2. Exited = {}
  BY <1>1, SentinelCounts, FS_EmptySet DEF IInv
<1>3. \A i \in 1..Len(queue) : queue[i] # Sentinel
  BY <1>1, SentinelCounts, PositionsEmpty DEF IInv, TypeOK
<1> QED
  BY <1>2, <1>3 DEF IInv, TypeOK

(* What Stop owes is in the queue before its sentinels, or being run.      *)
LEMMA StopOwedFirst ==
  ASSUME IInv, Stop
  PROVE  OwedFirst'
<1>1. Exited = {} /\ \A i \in DOMAIN queue : queue[i] # Sentinel
  BY NoSentinelStored DEF Stop
<1>2. /\ UNCHANGED <<queue, state, task, done>>
      /\ owed' = ToSet(queue) \cup {task[w] : w \in {v \in Workers : state[v] = "process"}}
  BY DEF Stop
<1>3. ASSUME NEW x \in owed'
      PROVE  Held(x)' \/ (Exited' = {} /\ Ahead(x)')
  <2>1. CASE x \in ToSet(queue)
    BY <1>1, <1>2, <2>1 DEF Exited, Ahead, ToSet
  <2>2. CASE x \in {task[w] : w \in {v \in Workers : state[v] = "process"}}
    BY <1>2, <2>2 DEF Held
  <2> QED
    BY <1>2, <1>3, <2>1, <2>2
<1> QED
  BY <1>3 DEF OwedFirst

(* A value that is put behind all others, be it a sentinel.                *)
LEMMA AppendAhead ==
  ASSUME IInv, NEW v \in Tasks \cup {Sentinel}, queue' = Append(queue, v),
         NEW x \in Tasks, Ahead(x)
  PROVE  Ahead(x)'
<1>1. /\ DOMAIN queue = 1..Len(queue) /\ Len(queue) \in Nat
      /\ DOMAIN queue' = 1..Len(queue) + 1
      /\ \A i \in 1..Len(queue) : queue'[i] = queue[i]
  BY DEF IInv, TypeOK
<1>2. PICK i \in DOMAIN queue :
        queue[i] = x /\ \A j \in DOMAIN queue : queue[j] = Sentinel => i < j
  BY DEF Ahead
<1>3. i \in DOMAIN queue' /\ queue'[i] = x
  BY <1>1, <1>2
<1>4. \A j \in DOMAIN queue' : queue'[j] = Sentinel => i < j
  BY <1>1, <1>2
<1> QED
  BY <1>3, <1>4 DEF Ahead

(* The front is taken: by then no sentinel is before a task that is owed.  *)
LEMMA PumpPopAhead ==
  ASSUME IInv, NEW w \in Workers, PumpPop(w), NEW x \in Tasks, Exited = {}, Ahead(x)
  PROVE  Held(x)' \/ (Exited' = {} /\ Ahead(x)')
<1>1. /\ state[w] = "pop" /\ queue # << >>
      /\ queue' = Tail(queue)
      /\ task' = [task EXCEPT ![w] = Head(queue)]
      /\ state' = [state EXCEPT ![w] = IF Head(queue) = Sentinel THEN "exited" ELSE "process"]
  BY DEF PumpPop, Queue!Dequeue, IInv, TypeOK
<1>2. /\ DOMAIN queue = 1..Len(queue) /\ Len(queue) \in Nat \ {0}
      /\ DOMAIN queue' = 1..Len(queue) - 1
      /\ \A i \in 1..Len(queue) - 1 : queue'[i] = queue[i + 1]
      /\ Head(queue) = queue[1]
  BY <1>1 DEF IInv, TypeOK
<1>3. PICK i \in DOMAIN queue :
        queue[i] = x /\ \A j \in DOMAIN queue : queue[j] = Sentinel => i < j
  BY DEF Ahead
<1>4. Head(queue) # Sentinel
  BY <1>2, <1>3
<1>5. Exited' = {}
  BY <1>1, <1>4 DEF Exited, IInv, TypeOK
<1>6. CASE i = 1
  BY <1>1, <1>2, <1>3, <1>4, <1>6 DEF Held, IInv, TypeOK
<1>7. CASE i # 1
  <2>1. i - 1 \in DOMAIN queue' /\ (i - 1) + 1 = i
    BY <1>2, <1>3, <1>7
  <2>2. queue'[i - 1] = x
    BY <1>2, <1>3, <2>1
  <2>3. \A j \in DOMAIN queue' : queue'[j] = Sentinel => i - 1 < j
    BY <1>2, <1>3, <2>1
  <2> QED
    BY <1>5, <2>1, <2>2, <2>3 DEF Ahead
<1> QED
  BY <1>6, <1>7

(* It stays so until Stop returns.                                         *)
LEMMA NextOwedFirst == IInv /\ OwedFirst /\ owed \subseteq Tasks /\ [Next]_vars => OwedFirst'
<1> SUFFICES ASSUME IInv, OwedFirst, owed \subseteq Tasks, [Next]_vars
             PROVE  OwedFirst'
  OBVIOUS
<1>1. CASE UNCHANGED vars
  BY <1>1 DEF vars, OwedFirst, Held, Ahead, Exited
<1>2. CASE Stop
  BY <1>2, StopOwedFirst
<1>3. CASE SetThreadCount \/ Start \/ StartThrow \/ StartThread \/ StartReturn \/ StopReturn
  <2>1. owner' \in {"idle", "start"}
    BY <1>3 DEF SetThreadCount, Start, StartThrow, StartThread, StartReturn, StopReturn
  <2> QED
    BY <2>1 DEF OwedFirst
<1>4. CASE StopPush
  <2>1. owner = "push" /\ UNCHANGED <<owed, done, state, task>>
    BY <1>4 DEF StopPush, Queue!Enqueue
  <2>2. queue' = queue \/ queue' = Append(queue, Sentinel)
    BY <1>4 DEF StopPush, Queue!Enqueue
  <2>3. \A x \in owed : Ahead(x) => Ahead(x)'
    BY <2>2, AppendAhead DEF Ahead
  <2> QED
    BY <2>1, <2>3 DEF OwedFirst, Held, Exited
<1>5. CASE StopJoin
  BY <1>5 DEF StopJoin, OwedFirst, Held, Ahead, Exited
<1>6. CASE Push
  <2>1. UNCHANGED <<owner, owed, done, state, task>>
    BY <1>6 DEF Push, Queue!Enqueue
  <2>2. \A x \in owed : Ahead(x) => Ahead(x)'
    BY <1>6, AppendAhead DEF Push, Queue!Enqueue, IInv, TypeOK
  <2> QED
    BY <2>1, <2>2 DEF OwedFirst, Held, Exited
<1>7. ASSUME NEW w \in Workers, PumpPop(w)
      PROVE  OwedFirst'
  <2>1. /\ UNCHANGED <<owner, owed, done>>
        /\ state[w] = "pop"
        /\ \A v \in Workers \ {w} : state'[v] = state[v] /\ task'[v] = task[v]
    BY <1>7 DEF PumpPop, Queue!Dequeue, IInv, TypeOK
  <2>2. \A x : Held(x) => Held(x)'
    BY <2>1 DEF Held
  <2> QED
    BY <1>7, <2>1, <2>2, PumpPopAhead DEF OwedFirst
<1>8. ASSUME NEW w \in Workers, PumpProcess(w)
      PROVE  OwedFirst'
  <2>1. /\ UNCHANGED <<owner, owed, queue, task>>
        /\ state' = [state EXCEPT ![w] = "pop"] /\ done' = done \cup {task[w]}
        /\ state \in [Workers -> WorkerStates]
    BY <1>8 DEF PumpProcess, IInv, TypeOK, WorkerStates
  <2>2. \A x : Held(x) => Held(x)' \/ x \in done'
    BY <2>1 DEF Held
  <2>3. Exited = {} => Exited' = {}
    BY <2>1 DEF Exited
  <2>4. \A x : Ahead(x) => Ahead(x)'
    BY <2>1 DEF Ahead
  <2> QED
    BY <2>1, <2>2, <2>3, <2>4 DEF OwedFirst
<1> QED
  BY <1>1, <1>2, <1>3, <1>4, <1>5, <1>6, <1>7, <1>8 DEF Next, OwnerStep

(* What is owed are tasks.                                                 *)
LEMMA NextOwedTasks == IInv /\ owed \subseteq Tasks /\ [Next]_vars => (owed \subseteq Tasks)'
<1> SUFFICES ASSUME IInv, owed \subseteq Tasks, [Next]_vars
             PROVE  owed' \subseteq Tasks
  OBVIOUS
<1>1. CASE Stop
  <2>1. ToSet(queue) \subseteq Tasks
    BY <1>1, NoSentinelStored DEF Stop, IInv, TypeOK, ToSet
  <2>2. {task[w] : w \in {v \in Workers : state[v] = "process"}} \subseteq Tasks
    BY DEF IInv, TypeOK
  <2> QED
    BY <1>1, <2>1, <2>2 DEF Stop
<1>2. CASE ~ Stop
  BY <1>2 DEF Next, OwnerStep, SetThreadCount, Start, StartThrow, StartThread, StartReturn,
     StopPush, StopJoin, StopReturn, Push, PumpPop, PumpProcess, vars
<1> QED
  BY <1>1, <1>2

(* When Stop() has joined the last thread, whatever was stored or in       *)
(* process when it was called has been processed.                          *)
THEOREM StopDrainsQueue == Spec => []StopDrains
<1>1. Init => OwedFirst /\ owed \subseteq Tasks
  BY DEF Init, OwedFirst
<1>2. IInv /\ OwedFirst => StopDrains
  <2> SUFFICES ASSUME IInv, OwedFirst, owner = "join", next = Len(threads), threads # << >>
               PROVE  owed \subseteq done
    BY DEF StopDrains
  <2>1. Exited = Alive
    BY AllJoined
  <2>2. Alive # {}
    <3>1. 1 \in DOMAIN threads
      BY DEF IInv, TypeOK
    <3>2. threads[1] \in ToSet(threads)
      BY <3>1 DEF ToSet
    <3> QED
      BY <3>2 DEF IInv, TypeOK
  <2>3. \A x : ~ Held(x)
    BY <2>1 DEF Held, Exited, Alive
  <2> QED
    BY <2>1, <2>2, <2>3 DEF OwedFirst
<1> QED
  BY <1>1, <1>2, NextOwedFirst, NextOwedTasks, AlwaysIInv, PTL DEF Spec

-----------------------------------------------------------------------------
(* The pool implements TaskExecution. A task is in one place: not pushed   *)
(* yet, stored once, with one worker, or done. Stored once says that it is *)
(* not in front of itself.                                                 *)

Once ==
    /\ \A x \in StoredTasks :
         x \notin todo /\ x \notin done /\ ~ Held(x) /\ <<x, x>> \notin InOrder
    /\ \A w \in Workers : state[w] = "process" =>
         /\ task[w] \notin todo
         /\ task[w] \notin done
         /\ \A v \in Workers : state[v] = "process" /\ task[v] = task[w] => v = w
    /\ todo \cap done = {}

(* The pairs of the order.                                                 *)
OrderIsPrecedence ==
  /\ InOrder \subseteq StoredTasks \X StoredTasks
  /\ \A x, y : <<x, y>> \in InOrder
                <=> x # Sentinel /\ y # Sentinel /\ Precedes(x, y, queue)

(* The pairs of InOrder are those in the order of the queue,               *)
LEMMA OrderOfTasks == OrderIsPrecedence
<1>1. \A x, y : Precedes(x, y, queue) => x \in ToSet(queue) /\ y \in ToSet(queue)
  BY DEF Precedes, ToSet
<1>2. InOrder = {p \in StoredTasks \X StoredTasks : Precedes(p[1], p[2], queue)}
  BY DEF InOrder, Precedes
<1> QED
  BY <1>1, <1>2 DEF StoredTasks, OrderIsPrecedence

(* in the next state too.                                                  *)
LEMMA OrderOfTasksNext == OrderIsPrecedence'
  BY OrderOfTasks, PTL

(* A value put behind all others.                                          *)
LEMMA EnqueueOrder ==
  ASSUME TypeOK, NEW v \in Tasks \cup {Sentinel}, queue' = Append(queue, v)
  PROVE  /\ v = Sentinel => StoredTasks' = StoredTasks /\ InOrder' = InOrder
         /\ v # Sentinel => /\ StoredTasks' = StoredTasks \cup {v}
                            /\ InOrder' = InOrder \cup (StoredTasks \X {v})
<1>1. ToSet(queue') = ToSet(queue) \cup {v}
  BY AppendElements DEF TypeOK
<1>2. \A x, y : Precedes(x, y, queue')
                  <=> Precedes(x, y, queue) \/ (x \in ToSet(queue) /\ y = v)
  BY AppendPrecedes DEF TypeOK
<1>3. StoredTasks' = StoredTasks \cup ({v} \ {Sentinel})
  BY <1>1 DEF StoredTasks
<1>4. \A x, y : <<x, y>> \in InOrder'
                  <=> <<x, y>> \in InOrder \/ <<x, y>> \in StoredTasks \X ({v} \ {Sentinel})
  BY <1>2, OrderOfTasks, OrderOfTasksNext
     DEF StoredTasks, OrderIsPrecedence
<1>5. InOrder' = InOrder \cup (StoredTasks \X ({v} \ {Sentinel}))
  BY <1>3, <1>4, OrderOfTasks, OrderOfTasksNext DEF OrderIsPrecedence
<1> QED
  BY <1>3, <1>5

(* The front taken away.                                                   *)
LEMMA DequeueOrder ==
  ASSUME TypeOK, queue # << >>, queue' = Tail(queue)
  PROVE  /\ Head(queue) = Sentinel => StoredTasks' = StoredTasks /\ InOrder' = InOrder
         /\ Head(queue) # Sentinel => 
              /\ StoredTasks = StoredTasks' \cup {Head(queue)}
              /\ InOrder = InOrder' \cup ({Head(queue)} \X StoredTasks')
<1> DEFINE v == Head(queue)
<1>1. ToSet(queue) = ToSet(queue') \cup {v}
  BY TailElements DEF TypeOK
<1>2. \A x, y : Precedes(x, y, queue)
                  <=> Precedes(x, y, queue') \/ (x = v /\ y \in ToSet(queue'))
  BY TailPrecedes DEF TypeOK
<1>3. StoredTasks = StoredTasks' \cup ({v} \ {Sentinel})
  BY <1>1 DEF StoredTasks
<1>4. \A x, y : <<x, y>> \in InOrder
                  <=> <<x, y>> \in InOrder' \/ <<x, y>> \in ({v} \ {Sentinel}) \X StoredTasks'
  BY <1>2, OrderOfTasks, OrderOfTasksNext
     DEF StoredTasks, OrderIsPrecedence
<1>5. InOrder = InOrder' \cup (({v} \ {Sentinel}) \X StoredTasks')
  BY <1>3, <1>4, OrderOfTasks, OrderOfTasksNext DEF OrderIsPrecedence
<1> QED
  BY <1>3, <1>5

-----------------------------------------------------------------------------
(* What TaskExecution sees of the pool.                                    *)
executionVars == <<StoredTasks, InOrder,
                   [w \in Workers |-> IF state[w] = "process" THEN {task[w]} ELSE {}],
                   done>>

(* A task is submitted once.                                               *)
LEMMA PushOnce ==
  ASSUME IInv, Once, Push
  PROVE  Once' /\ \E x \in Tasks : Execution!Submit(x)
<1>1. PICK x \in todo : queue' = Append(queue, x) /\ task' = task /\ todo' = todo \ {x}
  BY DEF Push, Queue!Enqueue
<1>2. UNCHANGED <<state, done>>
  BY DEF Push
<1>3. x \in Tasks /\ x # Sentinel
  BY DEF IInv, TypeOK
<1>4. StoredTasks' = StoredTasks \cup {x} /\ InOrder' = InOrder \cup (StoredTasks \X {x})
  BY <1>1, <1>3, EnqueueOrder DEF IInv
<1>5. x \notin StoredTasks /\ x \notin done /\ ~ Held(x)
  BY DEF Once, Held
<1>6. \A y : Held(y)' <=> Held(y)
  BY <1>1, <1>2 DEF Held
<1>7. InOrder \subseteq StoredTasks \X StoredTasks
  BY OrderOfTasks DEF OrderIsPrecedence
<1>8. \A y \in StoredTasks' :
        y \notin todo' /\ y \notin done' /\ ~ Held(y)' /\ <<y, y>> \notin InOrder'
  BY <1>1, <1>2, <1>4, <1>5, <1>6, <1>7 DEF Once
<1>9. Once'
  BY <1>1, <1>2, <1>8 DEF Once
<1>10. Execution!Submit(x)
  <2> DEFINE running == [w \in Workers |-> IF state[w] = "process" THEN {task[w]} ELSE {}]
  <2>2. \A w \in Workers : x \notin running[w]
    BY <1>5 DEF Held
  <2>3. x \notin UNION {running[w] : w \in Workers}
    <3> HIDE DEF running
    <3> QED
      BY <2>2
  <2>4. [w \in Workers |-> IF state'[w] = "process" THEN {task'[w]} ELSE {}] = running
    BY <1>1, <1>2
  <2> QED
    <3>1. x \notin Execution!Submitted
      BY <1>5, <2>3 DEF Execution!Submitted
    <3> QED
      BY <1>1, <1>2, <1>4, <2>4, <3>1 DEF Execution!Submit
<1> QED
  BY <1>3, <1>9, <1>10

(* The first in the order is taken.                                        *)
LEMMA PumpPopOnce ==
  ASSUME IInv, Once, NEW w \in Workers, PumpPop(w)
  PROVE  Once' /\ (executionVars' = executionVars
                     \/ \E x \in Tasks : Execution!Begin(w, x))
<1> PICK v : v = Head(queue)
  OBVIOUS
<1>1. /\ state[w] = "pop" /\ queue # << >>
      /\ queue' = Tail(queue)
      /\ task' = [task EXCEPT ![w] = v]
      /\ state' = [state EXCEPT ![w] = IF v = Sentinel THEN "exited" ELSE "process"]
      /\ UNCHANGED <<todo, done>>
  BY DEF PumpPop, Queue!Dequeue, IInv, TypeOK
<1>2. /\ v \in Tasks \cup {Sentinel}
      /\ state \in [Workers -> WorkerStates]
      /\ DOMAIN task = Workers
  BY <1>1 DEF IInv, TypeOK, WorkerStates
<1>3. \A u \in Workers \ {w} : state'[u] = state[u] /\ task'[u] = task[u]
  BY <1>1, <1>2
<1>4. InOrder \subseteq StoredTasks \X StoredTasks
  BY OrderOfTasks DEF OrderIsPrecedence
<1>5. CASE v = Sentinel
  <2>1. StoredTasks' = StoredTasks /\ InOrder' = InOrder
    BY <1>1, <1>5, DequeueOrder DEF IInv
  <2>2. state'[w] = "exited"
    BY <1>1, <1>2, <1>5
  <2>3. \A y : Held(y)' <=> Held(y)
    BY <1>1, <1>3, <2>2 DEF Held
  <2>4. Once'
    BY <1>1, <1>3, <2>1, <2>2, <2>3 DEF Once
  <2>5. executionVars' = executionVars
    BY <1>1, <1>3, <2>1, <2>2 DEF executionVars
  <2> QED
    BY <2>4, <2>5
<1>6. CASE v # Sentinel
  <2>1. /\ StoredTasks = StoredTasks' \cup {v}
        /\ InOrder = InOrder' \cup ({v} \X StoredTasks')
    BY <1>1, <1>6, DequeueOrder DEF IInv
  <2>2. v \notin todo /\ v \notin done /\ ~ Held(v) /\ v \notin StoredTasks'
    BY <2>1 DEF Once
  <2>3. state'[w] = "process" /\ task'[w] = v
    BY <1>1, <1>2, <1>6
  <2>4. \A y : Held(y)' <=> Held(y) \/ y = v
    BY <1>1, <1>3, <2>3 DEF Held
  <2>5. \A y \in StoredTasks' :
          y \notin todo' /\ y \notin done' /\ ~ Held(y)' /\ <<y, y>> \notin InOrder'
    BY <1>1, <2>1, <2>2, <2>4 DEF Once
  <2>6. \A u \in Workers \ {w} : state[u] = "process" => task[u] # v
    BY <2>2 DEF Held
  <2>7. \A u \in Workers : state'[u] = "process" =>
          /\ task'[u] \notin todo'
          /\ task'[u] \notin done'
          /\ \A t \in Workers : state'[t] = "process" /\ task'[t] = task'[u] => t = u
    BY <1>1, <1>3, <2>2, <2>3, <2>6 DEF Once
  <2>8. Once'
    BY <1>1, <2>5, <2>7 DEF Once
  <2>9. Execution!Begin(w, v)
    <3>1. v \in StoredTasks
      BY <2>1
    <3>2. \A y \in StoredTasks : <<y, v>> \notin InOrder
      <4>1. InOrder' \subseteq StoredTasks' \X StoredTasks'
        BY OrderOfTasksNext DEF OrderIsPrecedence
      <4> QED
        BY <2>1, <2>2, <4>1
    <3>3. InOrder' = InOrder \ ({v} \X StoredTasks)
      <4>1. InOrder' \subseteq StoredTasks' \X StoredTasks'
        BY OrderOfTasksNext DEF OrderIsPrecedence
      <4>2. \A p \in InOrder' : p \notin {v} \X StoredTasks
        BY <2>2, <4>1
      <4>3. {v} \X StoredTasks' \subseteq {v} \X StoredTasks
        BY <2>1
      <4>4. \A p \in {v} \X StoredTasks : p \in InOrder => p \in {v} \X StoredTasks'
        BY <2>1, <4>2
      <4> QED
        BY <2>1, <4>2, <4>3
    <3>4. StoredTasks' = StoredTasks \ {v}
      BY <2>1, <2>2
    <3>5. [u \in Workers |-> IF state'[u] = "process" THEN {task'[u]} ELSE {}]
            = [[u \in Workers |-> IF state[u] = "process" THEN {task[u]} ELSE {}]
                 EXCEPT ![w] = {v}]
      BY <1>1, <1>3, <2>3
    <3> QED
      BY <1>1, <3>1, <3>2, <3>3, <3>4, <3>5 DEF Execution!Begin
  <2> QED
    BY <1>2, <1>6, <2>8, <2>9
<1> QED
  BY <1>5, <1>6

(* What was taken is done.                                                 *)
LEMMA PumpProcessOnce ==
  ASSUME IInv, Once, NEW w \in Workers, PumpProcess(w)
  PROVE  Once' /\ Execution!Finish(w)
<1>1. /\ state[w] = "process" /\ state' = [state EXCEPT ![w] = "pop"]
      /\ done' = done \cup {task[w]}
      /\ UNCHANGED <<queue, task, todo>>
      /\ state \in [Workers -> WorkerStates]
  BY DEF PumpProcess, IInv, TypeOK, WorkerStates
<1>2. /\ state'[w] = "pop"
      /\ \A u \in Workers \ {w} : state'[u] = state[u]
  BY <1>1
<1>3. \A y : Held(y)' => Held(y)
  BY <1>1, <1>2 DEF Held
<1>4. \A y \in StoredTasks : y # task[w]
  BY <1>1 DEF Once, Held
<1>5. StoredTasks' = StoredTasks /\ InOrder' = InOrder
  BY <1>1 DEF StoredTasks, InOrder, ToSet
<1>6. Once'
  BY <1>1, <1>2, <1>3, <1>4, <1>5 DEF Once
<1>7. Execution!Finish(w)
  BY <1>1, <1>2, <1>5 DEF Execution!Finish, Once
<1> QED
  BY <1>6, <1>7

(* Steps that leave the tasks where they are.                              *)
LEMMA OtherOnce ==
  ASSUME IInv, Once,
         SetThreadCount \/ Start \/ StartThread \/ StartThrow \/ StartReturn \/ Stop
           \/ StopPush \/ StopJoin \/ StopReturn \/ UNCHANGED vars
  PROVE  Once' /\ executionVars' = executionVars
<1>1. UNCHANGED <<todo, done>>
  BY DEF SetThreadCount, Start, StartThread, StartThrow, StartReturn, Stop, StopPush,
         StopJoin, StopReturn, vars
<1>2. StoredTasks' = StoredTasks /\ InOrder' = InOrder
  <2>1. CASE queue' = queue
    BY <2>1 DEF StoredTasks, InOrder, ToSet
  <2>2. CASE queue' = Append(queue, Sentinel)
    BY <2>2, EnqueueOrder DEF IInv
  <2> QED
    BY <2>1, <2>2 DEF SetThreadCount, Start, StartThread, StartThrow, StartReturn, Stop,
       StopPush, StopJoin, StopReturn, vars, Queue!Enqueue
<1>3. /\ \A w \in Workers : state'[w] = "process" <=> state[w] = "process"
      /\ \A w \in Workers : state[w] = "process" => task'[w] = task[w]
  <2>1. CASE StartThread
    <3>1. PICK w \in Workers : /\ state[w] = "none"
                               /\ state' = [state EXCEPT ![w] = "pop"]
                               /\ task' = [task EXCEPT ![w] = None]
      BY <2>1 DEF StartThread
    <3> QED
      BY <3>1 DEF IInv, TypeOK
  <2>2. CASE StopReturn
    <3>1. Exited = Alive
      BY <2>2, AllJoined DEF StopReturn
    <3>2. \A w \in Workers : state[w] # "process" /\ state'[w] # "process"
      BY <2>2, <3>1 DEF StopReturn, Exited, Alive, IInv, TypeOK
    <3> QED
      BY <3>2
  <2>3. CASE ~ StartThread /\ ~ StopReturn
    BY <2>3 DEF SetThreadCount, Start, StartThrow, StartReturn, Stop, StopPush, StopJoin,
                vars, Queue!Enqueue
  <2> QED
    BY <2>1, <2>2, <2>3
<1>4. \A y : Held(y)' <=> Held(y)
  BY <1>3 DEF Held
<1>5. Once'
  BY <1>1, <1>2, <1>3, <1>4 DEF Once
<1>6. executionVars' = executionVars
  BY <1>1, <1>2, <1>3 DEF executionVars
<1> QED
  BY <1>5, <1>6

(* Hence every step is one of the abstract execution or none.              *)
LEMMA NextOnce ==
  ASSUME IInv, Once, [Next]_vars
  PROVE  Once' /\ [Execution!Next]_executionVars
BY PushOnce, PumpPopOnce, PumpProcessOnce, OtherOnce DEF Next, OwnerStep, Execution!Next

(* Nothing is submitted to begin with.                                     *)
LEMMA InitOnce == Init => Once /\ Execution!Init
<1> SUFFICES ASSUME Init PROVE Once /\ Execution!Init
  OBVIOUS
<1>1. StoredTasks = {} /\ InOrder = {}
  BY DEF Init, StoredTasks, InOrder, ToSet
<1>2. Once
  BY <1>1 DEF Init, Once
<1>3. Execution!Init
  BY <1>1 DEF Init, Execution!Init
<1> QED
  BY <1>2, <1>3

(* The pool runs tasks as TaskExecution promises: each once, begun in the  *)
(* order of the pushes, across any number of starts and stops.             *)
THEOREM PoolExecutesInOrder == Spec => ExecutionSpec
<1>1. IInv /\ Once /\ [Next]_vars
        => Once' /\ [Execution!Next]_<<StoredTasks, InOrder,
             [w \in Workers |-> IF state[w] = "process" THEN {task[w]} ELSE {}], done>>
  BY NextOnce DEF executionVars
<1> QED
  BY <1>1, InitOnce, AlwaysIInv, PTL DEF Spec, ExecutionSpec, Execution!Spec
=============================================================================
