--------------------------- MODULE TaskQueueProofs ---------------------------
(***************************************************************************)
(* Proofs about TaskQueue for any finite sets of threads and any tasks:    *)
(* the lock excludes, a task is in one place, tasks leave in order.        *)
(***************************************************************************)
EXTENDS TaskQueue, Integers, FiniteSets, SequencesExt, FiniteSetTheorems,
        SequenceTheorems, TLAPS

-----------------------------------------------------------------------------
(* Values in sequences                                                     *)

(* Where a value is in a sequence.                                         *)
Positions(v, s) == {i \in DOMAIN s : s[i] = v}

(* How often it is there is a number.                                     *)
LEMMA PositionsFinite ==
  ASSUME NEW S, NEW s \in Seq(S), NEW v
  PROVE  /\ IsFiniteSet(Positions(v, s))
         /\ Cardinality(Positions(v, s)) \in Nat
<1>1. /\ Positions(v, s) \in SUBSET (1..Len(s))
      /\ Len(s) \in Int
  BY DEF Positions
<1>2. IsFiniteSet(1..Len(s))
  BY <1>1, FS_Interval
<1>3. IsFiniteSet(Positions(v, s))
  BY <1>1, <1>2, FS_Subset
<1> QED
  BY <1>3, FS_CardinalityType

(* Append adds one occurrence of what is appended.                         *)
LEMMA PositionsAppend ==
  ASSUME NEW S, NEW s \in Seq(S), NEW x \in S, NEW v
  PROVE  Cardinality(Positions(v, Append(s, x)))
           = Cardinality(Positions(v, s)) + (IF x = v THEN 1 ELSE 0)
<1> DEFINE n == Len(s) + 1
<1>1. /\ n \notin Positions(v, s)
      /\ Positions(v, Append(s, x))
           = IF x = v THEN Positions(v, s) \cup {n} ELSE Positions(v, s)
  BY DEF Positions
<1>2. CASE x = v
  <2>1. Cardinality(Positions(v, s) \cup {n}) = Cardinality(Positions(v, s)) + 1
    BY <1>1, PositionsFinite, FS_AddElement
  <2> QED
    BY <1>1, <1>2, <2>1
<1>3. CASE x # v
  BY <1>1, <1>3, PositionsFinite
<1> QED
  BY <1>2, <1>3

(* Tail takes away one occurrence of the head: the others move up.         *)
LEMMA PositionsTail ==
  ASSUME NEW S, NEW s \in Seq(S), s # << >>, NEW v
  PROVE  Cardinality(Positions(v, Tail(s)))
           = Cardinality(Positions(v, s)) - (IF Head(s) = v THEN 1 ELSE 0)
<1> DEFINE A == Positions(v, s) \ {1}
           B == Positions(v, Tail(s))
           f == [i \in A |-> i - 1]
<1>1. /\ Len(s) \in Nat \ {0}
      /\ Tail(s) \in Seq(S)
      /\ Len(Tail(s)) = Len(s) - 1
      /\ \A i \in 1..Len(s) - 1 : Tail(s)[i] = s[i + 1]
      /\ Head(s) = s[1]
  BY HeadTailProperties
<1>2. ExistsBijection(A, B)
  <2>1. A \subseteq 2..Len(s)
    BY <1>1 DEF Positions
  <2>2. f \in [A -> B]
    BY <1>1, <2>1 DEF Positions
  <2>3. \A a, b \in A : f[a] = f[b] => a = b
    BY <2>1
  <2>4. \A j \in B : j + 1 \in A /\ f[j + 1] = j
    BY <1>1 DEF Positions
  <2>5. f \in Injection(A, B) /\ f \in Surjection(A, B)
    BY <2>2, <2>3, <2>4 DEF Injection, IsInjective, Surjection
  <2> QED
    BY <2>5 DEF Bijection, ExistsBijection
<1>3. IsFiniteSet(A) /\ Cardinality(A)
        = Cardinality(Positions(v, s)) - (IF 1 \in Positions(v, s) THEN 1 ELSE 0)
  BY PositionsFinite, FS_RemoveElement
<1>4. Cardinality(B) = Cardinality(A)
  BY <1>2, <1>3, FS_Bijection
<1>5. 1 \in Positions(v, s) <=> Head(s) = v
  BY <1>1 DEF Positions
<1> QED
  BY <1>3, <1>4, <1>5

-----------------------------------------------------------------------------
(* The inductive invariant. A task is in the hand of a thread that adds    *)
(* it, and a disposal inside ClearTasks never gets as far as the queue:    *)
(* it waits for the lock that its own thread holds.                        *)
Adding == \A t \in Threads :
    /\ pc[t] \in {"addLock", "add"} => arg[t] \in Tasks
    /\ pc[t] = "add" => back[t] # "clearDispose"

IInv == TypeOK /\ Exclusion /\ Adding /\ OnePlace

(* Threads can be counted.                                                 *)
LEMMA ThreadsFinite == IsFiniteSet(Threads) /\ None \notin Threads
  BY TaskQueueAssumption, FS_Union DEF Threads

(* So can the threads that have a task, or add it.                         *)
LEMMA PlacesFinite ==
  ASSUME NEW k
  PROVE  /\ IsFiniteSet(InHand(k)) /\ Cardinality(InHand(k)) \in Nat
         /\ IsFiniteSet(BeingAdded(k)) /\ Cardinality(BeingAdded(k)) \in Nat
<1>1. InHand(k) \subseteq Threads /\ BeingAdded(k) \subseteq Threads
  BY DEF InHand, BeingAdded
<1> QED
  BY <1>1, ThreadsFinite, FS_Subset, FS_CardinalityType

(* So can the places of a task in the queue.                               *)
LEMMA StoredCount ==
  ASSUME TypeOK, NEW k
  PROVE  Cardinality(Stored(k)) \in Nat
<1>1. Stored(k) = Positions(k, queue) /\ queue \in Seq(Tasks)
  BY DEF Stored, Positions, TypeOK
<1> QED
  BY <1>1, PositionsFinite

(* A task more or less in the queue.                                       *)
LEMMA StoredMoves ==
  ASSUME TypeOK, NEW a \in Tasks, NEW k
  PROVE  /\ queue' = Append(queue, a) =>
              Cardinality(Stored(k)') = Cardinality(Stored(k)) + (IF a = k THEN 1 ELSE 0)
         /\ queue # << >> /\ queue' = Tail(queue) /\ a = Head(queue) =>
              Cardinality(Stored(k)') = Cardinality(Stored(k)) - (IF a = k THEN 1 ELSE 0)
<1>1. Stored(k) = Positions(k, queue) /\ Stored(k)' = Positions(k, queue')
  BY DEF Stored, Positions
<1>2. queue \in Seq(Tasks)
  BY DEF TypeOK
<1>3. Cardinality(Positions(k, Append(queue, a)))
        = Cardinality(Positions(k, queue)) + (IF a = k THEN 1 ELSE 0)
  BY <1>2, PositionsAppend
<1>4. queue # << >> =>
        Cardinality(Positions(k, Tail(queue)))
          = Cardinality(Positions(k, queue)) - (IF Head(queue) = k THEN 1 ELSE 0)
  BY <1>2, PositionsTail
<1> QED
  BY <1>1, <1>3, <1>4

(* A thread more or less in a set.                                         *)
LEMMA OneMore ==
  ASSUME NEW k, NEW t
  PROVE  /\ t \notin InHand(k) =>
              Cardinality(InHand(k) \cup {t}) = Cardinality(InHand(k)) + 1
         /\ t \in InHand(k) =>
              Cardinality(InHand(k) \ {t}) = Cardinality(InHand(k)) - 1
         /\ t \notin BeingAdded(k) =>
              Cardinality(BeingAdded(k) \cup {t}) = Cardinality(BeingAdded(k)) + 1
         /\ t \in BeingAdded(k) =>
              Cardinality(BeingAdded(k) \ {t}) = Cardinality(BeingAdded(k)) - 1
BY PlacesFinite, FS_AddElement, FS_RemoveElement

-----------------------------------------------------------------------------
(* Every step is of one thread t; the others stay where they are.          *)
OnlyOf(t) == \A u \in Threads \ {t} :
    pc'[u] = pc[u] /\ back'[u] = back[u] /\ arg'[u] = arg[u] /\ task'[u] = task[u]

(* What the others have, they keep.                                        *)
LEMMA OthersStay ==
  ASSUME NEW t \in Threads, OnlyOf(t), NEW u \in Threads \ {t}
  PROVE  /\ Holds(u)' <=> Holds(u)
         /\ \A k : /\ u \in InHand(k)' <=> u \in InHand(k)
                   /\ u \in BeingAdded(k)' <=> u \in BeingAdded(k)
BY DEF OnlyOf, Holds, At, InHand, BeingAdded

(* What a step has to respect so that the lock excludes.                   *)
LEMMA ExclusionStep ==
  ASSUME IInv, NEW t \in Threads, OnlyOf(t),
         Holds(t)' <=> lock' = t,
         \/ lock' = lock
         \/ lock = None /\ lock' = t
         \/ lock = t /\ lock' = None,
         \/ queue' = queue
         \/ queue' # << >>
         \/ lock = t,
         pc'[t] = "front" => queue' # << >>
  PROVE  Exclusion'
<1>1. ASSUME NEW u \in Threads \ {t}
      PROVE  /\ Holds(u)' <=> lock' = u
             /\ pc'[u] = "front" => queue' # << >>
  <2>1. /\ Holds(u) <=> lock = u
        /\ pc[u] = "front" => queue # << >>
    BY DEF IInv, Exclusion
  <2>2. Holds(u)' <=> lock' = u
    BY <2>1, OthersStay, ThreadsFinite
  <2>3. pc'[u] = "front" => queue' # << >>
    BY <2>1 DEF OnlyOf, Holds
  <2> QED
    BY <2>2, <2>3
<1> QED
  BY <1>1 DEF Exclusion

(* Steps that leave the tasks in their places.                             *)
LEMMA PlacesStay ==
  ASSUME IInv, NEW t \in Threads, OnlyOf(t),
         UNCHANGED <<queue, object>>,
         \A k : /\ t \in InHand(k)' <=> t \in InHand(k)
                /\ t \in BeingAdded(k)' <=> t \in BeingAdded(k)
  PROVE  OnePlace'
<1>1. ASSUME NEW k
      PROVE  /\ InHand(k)' = InHand(k) /\ BeingAdded(k)' = BeingAdded(k)
             /\ Stored(k)' = Stored(k)
  <2>1. /\ InHand(k) \subseteq Threads /\ InHand(k)' \subseteq Threads
        /\ BeingAdded(k) \subseteq Threads /\ BeingAdded(k)' \subseteq Threads
    BY DEF InHand, BeingAdded
  <2>2. Stored(k)' = Stored(k)
    BY DEF Stored
  <2> QED
    BY <2>1, <2>2, OthersStay
<1> QED
  BY <1>1 DEF IInv, OnePlace

-----------------------------------------------------------------------------
(* The queue is empty to begin with.                                       *)
LEMMA InitIInv == Init => IInv
<1> SUFFICES ASSUME Init PROVE IInv
  OBVIOUS
<1>1. TypeOK
  BY TaskQueueAssumption DEF Init, TypeOK, Labels
<1>2. Exclusion
  BY ThreadsFinite DEF Init, Exclusion, Holds, At
<1>3. Adding
  BY DEF Init, Adding
<1>4. OnePlace
  <2>1. ASSUME NEW k \in Tasks \ Static
        PROVE  InHand(k) = {} /\ BeingAdded(k) = {} /\ Stored(k) = {}
    BY DEF Init, InHand, BeingAdded, Stored, At
  <2>2. Cardinality({}) = 0
    BY FS_EmptySet
  <2> QED
    <3>1. ASSUME NEW k \in Tasks \ Static
          PROVE  /\ Cardinality(InHand(k)) + Cardinality(BeingAdded(k))
                      + Cardinality(Stored(k)) = 0
                 /\ object[k] # "live"
      <4>1. object[k] # "live"
        BY DEF Init
      <4>2. /\ Cardinality(InHand(k)) = 0 /\ Cardinality(BeingAdded(k)) = 0
            /\ Cardinality(Stored(k)) = 0
        BY <2>1, <2>2
      <4> QED
        BY <4>1, <4>2
    <3> QED
      BY <3>1 DEF OnePlace
<1> QED
  BY <1>1, <1>2, <1>3, <1>4 DEF IInv

(* Time stays among what is told apart.                                    *)
LEMMA CappedTime ==
  ASSUME NEW e \in Nat
  PROVE  Min({e, MaxTime}) \in 0..MaxTime
<1>1. MaxTime \in Nat
  BY TaskQueueAssumption
<1>2. \E x \in {e, MaxTime} : \A y \in {e, MaxTime} : x <= y
  BY <1>1
<1>3. /\ Min({e, MaxTime}) \in {e, MaxTime}
      /\ \A y \in {e, MaxTime} : Min({e, MaxTime}) <= y
  BY <1>2 DEF Min
<1> QED
  BY <1>1, <1>3

(* Steps that wait for the lock, or give it back, or decide.               *)
LEMMA QuietIInv ==
  ASSUME IInv, NEW t \in Threads,
         \/ AddLock(t) \/ TakeLock(t) \/ TakeNothing(t) \/ TakeCheck(t)
         \/ RunReturn(t) \/ ClearTasks(t) \/ ClearLock(t) \/ ClearReturn(t)
         \/ Process(t)
  PROVE  IInv'
<1>a. TypeOK /\ Exclusion /\ Adding
  BY DEF IInv
<1>b. pc[t] \in Labels /\ (Holds(t) <=> lock = t) /\ lock \in Threads \cup {None}
  BY <1>a DEF TypeOK, Exclusion
<1>1. UNCHANGED <<queue, back, arg, task, object>>
  BY DEF AddLock, TakeLock, TakeNothing, TakeCheck, RunReturn, ClearTasks, ClearLock,
         ClearReturn, Process, ProcessTasks
<1>2. PICK l \in Labels : pc' = [pc EXCEPT ![t] = l]
  BY DEF AddLock, TakeLock, TakeNothing, TakeCheck, RunReturn, ClearTasks, ClearLock,
         ClearReturn, Process, ProcessTasks, Goto, Labels
<1>3. pc'[t] = l /\ OnlyOf(t)
  BY <1>a, <1>1, <1>2 DEF TypeOK, OnlyOf
<1>c. \/ /\ lock = None /\ lock' = t
         /\ \/ pc[t] = "addLock" /\ l = "add"
            \/ pc[t] = "takeLock" /\ l = "take"
            \/ pc[t] = "clearLock" /\ l = "clear"
      \/ /\ lock' = None
         /\ pc[t] \in {"take", "clear"} /\ l = "idle"
      \/ /\ lock' = lock
         /\ \/ pc[t] = "take" /\ l = "front" /\ queue # << >>
            \/ pc[t] = "run" /\ l = "dispose"
            \/ pc[t] = "idle" /\ l \in {"clearLock", "takeLock"}
  <2>1. \A m : Goto(t, m) => l = m
    BY <1>a, <1>2 DEF Goto, TypeOK
  <2> QED
    BY <2>1 DEF AddLock, TakeLock, TakeNothing, TakeCheck, RunReturn, ClearTasks, ClearLock,
         ClearReturn, Process, ProcessTasks, Acquire, Release
<1>4. TypeOK'
  <2>1. elapsed' \in [Threads -> 0..MaxTime]
    <3>1. CASE RunReturn(t)
      <4>1. PICK c \in Costs : elapsed' = [elapsed EXCEPT ![t] = Min({elapsed[t] + c, MaxTime})]
        BY <1>a, <3>1 DEF RunReturn, TypeOK
      <4>2. elapsed[t] + c \in Nat
        BY <1>a, TaskQueueAssumption DEF TypeOK
      <4> QED
        BY <1>a, <4>1, <4>2, CappedTime DEF TypeOK
    <3>2. CASE ~ RunReturn(t)
      BY <1>a, <3>2, TaskQueueAssumption DEF TypeOK, AddLock, TakeLock, TakeNothing, TakeCheck,
         ClearTasks, ClearLock, ClearReturn, Process, ProcessTasks
    <3> QED
      BY <3>1, <3>2
  <2>2. lock' \in Threads \cup {None}
    BY <1>b DEF AddLock, TakeLock, TakeNothing, TakeCheck, RunReturn, ClearTasks,
       ClearLock, ClearReturn, Process, ProcessTasks, Acquire, Release
  <2>3. budget' \in [Threads -> Budgets \cup {None}]
    BY <1>a DEF TypeOK, AddLock, TakeLock, TakeNothing, TakeCheck, RunReturn, ClearTasks,
       ClearLock, ClearReturn, Process, ProcessTasks
  <2>4. clears' \in 0..MaxClears
    BY <1>a, TaskQueueAssumption DEF TypeOK, AddLock, TakeLock, TakeNothing, TakeCheck,
       RunReturn, ClearTasks, ClearLock, ClearReturn, Process, ProcessTasks
  <2> QED
    BY <1>a, <1>1, <1>2, <2>1, <2>2, <2>3, <2>4 DEF TypeOK
<1>5. /\ Holds(t)' <=> lock' = t
      /\ lock' = lock \/ (lock = None /\ lock' = t) \/ (lock = t /\ lock' = None)
      /\ pc'[t] = "front" => queue' # << >>
  BY <1>b, <1>c, <1>1, <1>3, ThreadsFinite DEF Holds, At
<1>6. Exclusion'
  BY <1>1, <1>3, <1>5, ExclusionStep
<1>7. Adding'
  <2>1. /\ l = "add" => pc[t] = "addLock" /\ lock = None
        /\ l # "addLock"
    BY <1>c
  <2>2. l = "add" => back[t] # "clearDispose"
    BY <1>b, <2>1, ThreadsFinite DEF Holds, At
  <2> QED
    BY <1>a, <1>1, <1>3, <2>1, <2>2 DEF Adding, OnlyOf
<1>8. \A k : /\ t \in InHand(k)' <=> t \in InHand(k)
             /\ t \in BeingAdded(k)' <=> t \in BeingAdded(k)
  BY <1>c, <1>1, <1>3 DEF InHand, BeingAdded, At
<1>9. OnePlace'
  BY <1>1, <1>3, <1>8, PlacesStay
<1> QED
  BY <1>4, <1>6, <1>7, <1>9 DEF IInv

-----------------------------------------------------------------------------
(* Steps that move a task.                                                 *)

(* What they all respect.                                                  *)
LEMMA Parts ==
  ASSUME IInv, NEW k \in Tasks \ Static
  PROVE  /\ TypeOK /\ Exclusion /\ Adding
         /\ Cardinality(InHand(k)) \in Nat /\ Cardinality(BeingAdded(k)) \in Nat
         /\ Cardinality(Stored(k)) \in Nat
         /\ Cardinality(InHand(k)) + Cardinality(BeingAdded(k)) + Cardinality(Stored(k))
               = IF object[k] = "live" THEN 1 ELSE 0
BY PlacesFinite, StoredCount DEF IInv, OnePlace

(* A new task: none of its kind was anywhere.                              *)
LEMMA AddTaskIInv ==
  ASSUME IInv, NEW t \in Threads, NEW a \in Tasks, AddTask(t, a)
  PROVE  IInv'
<1>a. TypeOK /\ Exclusion /\ Adding
  BY DEF IInv
<1>1. /\ pc[t] \in {"idle", "run", "dispose", "clearDispose"}
      /\ object' = [object EXCEPT ![a] = "live"]
      /\ back' = [back EXCEPT ![t] = pc[t]]
      /\ arg' = [arg EXCEPT ![t] = a]
      /\ pc' = [pc EXCEPT ![t] = "addLock"]
      /\ UNCHANGED <<queue, lock, task, budget, elapsed, clears>>
  BY DEF AddTask, Goto
<1>2. /\ pc'[t] = "addLock" /\ back'[t] = pc[t] /\ arg'[t] = a /\ task'[t] = task[t]
      /\ OnlyOf(t)
  BY <1>a, <1>1 DEF TypeOK, OnlyOf
<1>3. TypeOK'
  BY <1>a, <1>1 DEF TypeOK, Labels
<1>4. Exclusion'
  <2>1. Holds(t)' <=> Holds(t)
    BY <1>1, <1>2 DEF Holds, At
  <2>2. Holds(t)' <=> lock' = t
    BY <1>a, <1>1, <2>1 DEF Exclusion
  <2> QED
    BY <1>1, <1>2, <2>2, ExclusionStep
<1>5. Adding'
  BY <1>a, <1>1, <1>2 DEF Adding, OnlyOf
<1>6. OnePlace'
  <2>1. ASSUME NEW k \in Tasks \ Static
        PROVE  Cardinality(InHand(k)') + Cardinality(BeingAdded(k)') + Cardinality(Stored(k)')
                 = IF object'[k] = "live" THEN 1 ELSE 0
    <3>1. InHand(k)' = InHand(k) /\ Stored(k)' = Stored(k)
      BY <1>1, <1>2, OthersStay DEF InHand, Stored, At
    <3>2. /\ t \notin BeingAdded(k)
          /\ BeingAdded(k)' = IF k = a THEN BeingAdded(k) \cup {t} ELSE BeingAdded(k)
      BY <1>1, <1>2, OthersStay DEF BeingAdded
    <3>3. k = a => object[k] = "new" /\ object'[k] = "live"
      BY <1>a, <1>1 DEF AddTask, MayAdd, TypeOK
    <3>4. k # a => object'[k] = object[k]
      BY <1>a, <1>1 DEF TypeOK
    <3>5. CASE k = a
      <4>1. Cardinality(BeingAdded(k)') = Cardinality(BeingAdded(k)) + 1
        BY <3>2, <3>5, OneMore
      <4> QED
        BY <3>1, <3>3, <3>5, <4>1, Parts
    <3>6. CASE k # a
      BY <3>1, <3>2, <3>4, <3>6, Parts
    <3> QED
      BY <3>5, <3>6
  <2> QED
    BY <2>1 DEF OnePlace
<1> QED
  BY <1>3, <1>4, <1>5, <1>6 DEF IInv

(* From the adder to the queue.                                            *)
LEMMA AddEmplaceIInv ==
  ASSUME IInv, NEW t \in Threads, AddEmplace(t)
  PROVE  IInv'
<1>a. TypeOK /\ Exclusion /\ Adding
  BY DEF IInv
<1> PICK a : a = arg[t]
  OBVIOUS
<1>1. /\ pc[t] = "add"
      /\ queue' = Append(queue, a)
      /\ lock' = None
      /\ pc' = [pc EXCEPT ![t] = back[t]]
      /\ UNCHANGED <<back, arg, task, budget, elapsed, object, clears>>
  BY DEF AddEmplace, Goto, Release
<1>2. /\ pc'[t] = back[t] /\ arg'[t] = arg[t] /\ task'[t] = task[t] /\ back'[t] = back[t]
      /\ a \in Tasks /\ back[t] \in {"idle", "run", "dispose"}
      /\ OnlyOf(t) /\ lock = t
  BY <1>a, <1>1 DEF TypeOK, OnlyOf, Adding, Exclusion, Holds
<1>3. TypeOK'
  BY <1>a, <1>1, <1>2 DEF TypeOK, Labels
<1>4. Exclusion'
  <2>1. ~ Holds(t)' /\ lock' # t
    BY <1>1, <1>2, ThreadsFinite DEF Holds, At
  <2> QED
    BY <1>1, <1>2, <2>1, ExclusionStep
<1>5. Adding'
  BY <1>a, <1>1, <1>2 DEF Adding, OnlyOf
<1>6. OnePlace'
  <2>1. ASSUME NEW k \in Tasks \ Static
        PROVE  Cardinality(InHand(k)') + Cardinality(BeingAdded(k)') + Cardinality(Stored(k)')
                 = IF object'[k] = "live" THEN 1 ELSE 0
    <3>1. InHand(k)' = InHand(k)
      BY <1>1, <1>2, OthersStay DEF InHand, At
    <3>2. /\ k = a => t \in BeingAdded(k)
          /\ BeingAdded(k)' = IF k = a THEN BeingAdded(k) \ {t} ELSE BeingAdded(k)
      BY <1>1, <1>2, OthersStay DEF BeingAdded
    <3>3. Cardinality(Stored(k)') = Cardinality(Stored(k)) + (IF a = k THEN 1 ELSE 0)
      BY <1>a, <1>1, <1>2, StoredMoves
    <3>4. object'[k] = object[k]
      BY <1>1
    <3>5. CASE k = a
      <4>1. Cardinality(BeingAdded(k)') = Cardinality(BeingAdded(k)) - 1
        BY <3>2, <3>5, OneMore
      <4> QED
        BY <3>1, <3>3, <3>4, <3>5, <4>1, Parts
    <3>6. CASE k # a
      BY <3>1, <3>2, <3>3, <3>4, <3>6, Parts
    <3> QED
      BY <3>5, <3>6
  <2> QED
    BY <2>1 DEF OnePlace
<1> QED
  BY <1>3, <1>4, <1>5, <1>6 DEF IInv

(* From the queue into the hand of a thread.                               *)
LEMMA TakeIInv ==
  ASSUME IInv, NEW t \in Threads, TakeFront(t) \/ ClearPop(t)
  PROVE  IInv'
<1>a. TypeOK /\ Exclusion /\ Adding
  BY DEF IInv
<1> PICK a : a = Head(queue)
  OBVIOUS
<1>1. /\ queue # << >> /\ queue' = Tail(queue)
      /\ task' = [task EXCEPT ![t] = a]
      /\ UNCHANGED <<back, arg, budget, elapsed, object, clears>>
      /\ \/ pc[t] = "front" /\ pc' = [pc EXCEPT ![t] = "run"] /\ lock' = None
         \/ pc[t] = "clear" /\ pc' = [pc EXCEPT ![t] = "clearDispose"] /\ lock' = lock
  BY DEF TakeFront, ClearPop, Goto, Release
<1>2. /\ arg'[t] = arg[t] /\ task'[t] = a /\ back'[t] = back[t]
      /\ a \in Tasks /\ queue' \in Seq(Tasks)
      /\ \/ pc[t] = "front" /\ pc'[t] = "run" /\ lock' = None
         \/ pc[t] = "clear" /\ pc'[t] = "clearDispose" /\ lock' = lock
      /\ OnlyOf(t) /\ lock = t
  BY <1>a, <1>1 DEF TypeOK, OnlyOf, Exclusion, Holds, At
<1>3. TypeOK'
  BY <1>a, <1>1, <1>2 DEF TypeOK, Labels
<1>4. Exclusion'
  <2>1. Holds(t)' <=> lock' = t
    BY <1>2, ThreadsFinite DEF Holds, At
  <2> QED
    BY <1>1, <1>2, <2>1, ExclusionStep
<1>5. Adding'
  BY <1>a, <1>1, <1>2 DEF Adding, OnlyOf
<1>6. OnePlace'
  <2>1. ASSUME NEW k \in Tasks \ Static
        PROVE  Cardinality(InHand(k)') + Cardinality(BeingAdded(k)') + Cardinality(Stored(k)')
                 = IF object'[k] = "live" THEN 1 ELSE 0
    <3>1. BeingAdded(k)' = BeingAdded(k)
      BY <1>2, OthersStay DEF BeingAdded
    <3>2. /\ t \notin InHand(k)
          /\ InHand(k)' = IF k = a THEN InHand(k) \cup {t} ELSE InHand(k)
      <4>1. t \notin InHand(k) /\ (t \in InHand(k)' <=> k = a)
        BY <1>2 DEF InHand, At
      <4>2. InHand(k) \subseteq Threads /\ InHand(k)' \subseteq Threads
        BY DEF InHand
      <4>3. \A u \in Threads \ {t} : u \in InHand(k)' <=> u \in InHand(k)
        BY <1>2, OthersStay
      <4>4. CASE k = a
        BY <4>1, <4>2, <4>3, <4>4
      <4>5. CASE k # a
        BY <4>1, <4>2, <4>3, <4>5
      <4> QED
        BY <4>4, <4>5
    <3>3. Cardinality(Stored(k)') = Cardinality(Stored(k)) - (IF a = k THEN 1 ELSE 0)
      BY <1>a, <1>1, <1>2, StoredMoves
    <3>4. object'[k] = object[k]
      BY <1>1
    <3>5. CASE k = a
      <4>1. Cardinality(InHand(k)') = Cardinality(InHand(k)) + 1
        BY <3>2, <3>5, OneMore
      <4> QED
        BY <3>1, <3>3, <3>4, <3>5, <4>1, Parts
    <3>6. CASE k # a
      BY <3>1, <3>2, <3>3, <3>4, <3>6, Parts
    <3> QED
      BY <3>5, <3>6
  <2> QED
    BY <2>1 DEF OnePlace
<1> QED
  BY <1>3, <1>4, <1>5, <1>6 DEF IInv

(* Disposed of: it was only in this hand.                                  *)
LEMMA DisposeIInv ==
  ASSUME IInv, NEW t \in Threads, DisposeReturn(t) \/ ClearDispose(t)
  PROVE  IInv'
<1>a. TypeOK /\ Exclusion /\ Adding
  BY DEF IInv
<1> PICK a : a = task[t]
  OBVIOUS
<1>1. /\ UNCHANGED <<queue, lock, back, arg, task, budget, elapsed, clears>>
      /\ object' = IF a \in Static THEN object ELSE [object EXCEPT ![a] = "deleted"]
      /\ \/ pc[t] = "dispose" /\ pc' = [pc EXCEPT ![t] = "idle"]
         \/ pc[t] = "dispose" /\ pc' = [pc EXCEPT ![t] = "takeLock"]
         \/ pc[t] = "clearDispose" /\ pc' = [pc EXCEPT ![t] = "clear"]
  BY DEF DisposeReturn, ClearDispose, Disposed, Goto
<1>2. /\ arg'[t] = arg[t] /\ task'[t] = a /\ back'[t] = back[t]
      /\ \/ pc[t] = "dispose" /\ pc'[t] \in {"idle", "takeLock"}
         \/ pc[t] = "clearDispose" /\ pc'[t] = "clear"
      /\ OnlyOf(t)
  BY <1>a, <1>1 DEF TypeOK, OnlyOf
<1>3. TypeOK'
  BY <1>a, <1>1 DEF TypeOK, Labels
<1>4. Exclusion'
  <2>1. Holds(t)' <=> Holds(t)
    BY <1>2 DEF Holds, At
  <2>2. Holds(t)' <=> lock' = t
    BY <1>a, <1>1, <2>1 DEF Exclusion
  <2> QED
    BY <1>1, <1>2, <2>2, ExclusionStep
<1>5. Adding'
  BY <1>a, <1>1, <1>2 DEF Adding, OnlyOf
<1>6. OnePlace'
  <2>1. ASSUME NEW k \in Tasks \ Static
        PROVE  Cardinality(InHand(k)') + Cardinality(BeingAdded(k)') + Cardinality(Stored(k)')
                 = IF object'[k] = "live" THEN 1 ELSE 0
    <3>1. BeingAdded(k)' = BeingAdded(k) /\ Stored(k)' = Stored(k)
      BY <1>1, <1>2, OthersStay DEF BeingAdded, Stored
    <3>2. /\ k = a => t \in InHand(k)
          /\ InHand(k)' = IF k = a THEN InHand(k) \ {t} ELSE InHand(k)
      BY <1>2, OthersStay DEF InHand, At
    <3>3. k = a => object'[k] = "deleted"
      BY <1>a, <1>1 DEF TypeOK
    <3>4. k # a => object'[k] = object[k]
      BY <1>a, <1>1 DEF TypeOK
    <3>5. CASE k = a
      <4>1. Cardinality(InHand(k)) # 0
        BY <3>2, <3>5, PlacesFinite, FS_EmptySet
      <4> QED
        <5>1. Cardinality(InHand(k)') = Cardinality(InHand(k)) - 1
          BY <3>2, <3>5, OneMore
        <5> QED
          BY <3>1, <3>3, <3>5, <4>1, <5>1, Parts
    <3>6. CASE k # a
      BY <3>1, <3>2, <3>4, <3>6, Parts
    <3> QED
      BY <3>5, <3>6
  <2> QED
    BY <2>1 DEF OnePlace
<1> QED
  BY <1>3, <1>4, <1>5, <1>6 DEF IInv

(* Every step keeps the inductive invariant.                               *)
LEMMA NextIInv == IInv /\ [Next]_vars => IInv'
<1> SUFFICES ASSUME IInv, [Next]_vars PROVE IInv'
  OBVIOUS
<1>1. CASE UNCHANGED vars
  <2>1. TypeOK'
    BY <1>1 DEF vars, IInv, TypeOK
  <2>2. Exclusion'
    BY <1>1 DEF vars, IInv, Exclusion, Holds, At
  <2>3. Adding'
    BY <1>1 DEF vars, IInv, Adding
  <2>4. OnePlace'
    BY <1>1 DEF vars, IInv, OnePlace, InHand, BeingAdded, Stored, At
  <2> QED
    BY <2>1, <2>2, <2>3, <2>4 DEF IInv
<1>2. ASSUME NEW t \in Threads, Call(t)
      PROVE  IInv'
  BY <1>2, AddTaskIInv, QuietIInv DEF Call
<1>3. ASSUME NEW t \in Threads, Step(t)
      PROVE  IInv'
  BY <1>3, AddEmplaceIInv, TakeIInv, DisposeIInv, QuietIInv DEF Step
<1>4. ASSUME NEW t \in Main, Process(t)
      PROVE  IInv'
  BY <1>4, QuietIInv DEF Threads
<1> QED
  BY <1>1, <1>2, <1>3, <1>4 DEF Next

(* Hence it holds always.                                                  *)
LEMMA AlwaysIInv == Spec => []IInv
  BY InitIInv, NextIInv, PTL DEF Spec

(* The lock protects what a thread saw of the queue, and a task is in one  *)
(* place as long as it lives, whoever adds, runs and clears.               *)
THEOREM QueueSafe == Spec => []Safe
<1>1. IInv => Safe
  BY DEF IInv, Safe
<1> QED
  BY <1>1, AlwaysIInv, PTL

-----------------------------------------------------------------------------
(* Tasks leave in the order added: an emplacement is an enqueue, a take by *)
(* the main loop or by ClearTasks a dequeue, all else is invisible.        *)
THEOREM QueueIsFifo == Spec => FifoSpec
<1>1. Init => Fifo!Init
  BY DEF Init, Fifo!Init
<1>2. IInv /\ [Next]_vars => [Fifo!Next]_<<queue, task>>
  <2> SUFFICES ASSUME IInv, [Next]_vars PROVE [Fifo!Next]_<<queue, task>>
    OBVIOUS
  <2>1. ASSUME NEW t \in Threads, AddEmplace(t)
        PROVE  Fifo!Next
    <3>1. arg[t] \in Tasks
      BY <2>1 DEF IInv, Adding, AddEmplace
    <3>2. PICK a \in Tasks : a = arg[t]
      BY <3>1
    <3>3. Fifo!Enqueue(a)
      BY <2>1, <3>2 DEF AddEmplace, Fifo!Enqueue
    <3> QED
      BY <3>3 DEF Fifo!Next
  <2>2. ASSUME NEW t \in Threads, TakeFront(t) \/ ClearPop(t)
        PROVE  Fifo!Next
    <3>1. Fifo!Dequeue(t)
      BY <2>2 DEF TakeFront, ClearPop, Fifo!Dequeue
    <3> QED
      BY <3>1 DEF Fifo!Next
  <2>3. ASSUME NEW t \in Threads,
               \/ Call(t) \/ AddLock(t) \/ TakeLock(t) \/ TakeNothing(t)
               \/ TakeCheck(t) \/ RunReturn(t) \/ DisposeReturn(t) \/ ClearLock(t)
               \/ ClearDispose(t) \/ ClearReturn(t) \/ Process(t)
        PROVE  UNCHANGED <<queue, task>>
    BY <2>3 DEF Call, AddTask, ClearTasks, AddLock, TakeLock, TakeNothing, TakeCheck,
       RunReturn, DisposeReturn, ClearLock, ClearDispose, ClearReturn, Process, ProcessTasks
  <2> QED
    BY <2>1, <2>2, <2>3 DEF Next, Step, Threads, vars
<1> QED
  BY <1>1, <1>2, AlwaysIInv, PTL DEF Spec, FifoSpec, Fifo!Spec
=============================================================================
