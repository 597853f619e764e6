---------------------- MODULE RunConcurrentTasksProofs ----------------------
(***************************************************************************)
(* Proofs about RunConcurrentTasks for any calls, nested or not, and any   *)
(* finite set of workers: every task is accounted for, and the frame of a  *)
(* call outlives what its tasks do with it.                                *)
(***************************************************************************)
EXTENDS RunConcurrentTasks, Integers, FiniteSets, SequencesExt, FiniteSetTheorems,
        SequenceTheorems, TLAPS

-----------------------------------------------------------------------------
(* Values in sequences                                                     *)

(* Where a value is in a sequence.                                         *)
Positions(v, s) == {i \in DOMAIN s : s[i] = v}

(* How often it is there is a number.                                     *)
LEMMA PositionsFinite ==
  ASSUME NEW S, NEW s \in Seq(S), NEW v
  PROVE  /\ IsFiniteSet(Positions(v, s))
         /\ Cardinality(Positions(v, s)) \in Nat
<1>1. /\ Positions(v, s) \in SUBSET (1..Len(s))
      /\ Len(s) \in Int
  BY DEF Positions
<1>2. IsFiniteSet(1..Len(s))
  BY <1>1, FS_Interval
<1>3. IsFiniteSet(Positions(v, s))
  BY <1>1, <1>2, FS_Subset
<1> QED
  BY <1>3, FS_CardinalityType

(* Append adds one occurrence of what is appended.                         *)
LEMMA PositionsAppend ==
  ASSUME NEW S, NEW s \in Seq(S), NEW x \in S, NEW v
  PROVE  Cardinality(Positions(v, Append(s, x)))
           = Cardinality(Positions(v, s)) + (IF x = v THEN 1 ELSE 0)
<1> DEFINE n == Len(s) + 1
<1>1. /\ n \notin Positions(v, s)
      /\ Positions(v, Append(s, x))
           = IF x = v THEN Positions(v, s) \cup {n} ELSE Positions(v, s)
  BY DEF Positions
<1>2. CASE x = v
  <2>1. Cardinality(Positions(v, s) \cup {n}) = Cardinality(Positions(v, s)) + 1
    BY <1>1, PositionsFinite, FS_AddElement
  <2> QED
    BY <1>1, <1>2, <2>1
<1>3. CASE x # v
  BY <1>1, <1>3, PositionsFinite
<1> QED
  BY <1>2, <1>3

(* Tail takes away one occurrence of the head: the others move up.         *)
LEMMA PositionsTail ==
  ASSUME NEW S, NEW s \in Seq(S), s # << >>, NEW v
  PROVE  Cardinality(Positions(v, Tail(s)))
           = Cardinality(Positions(v, s)) - (IF Head(s) = v THEN 1 ELSE 0)
<1> DEFINE A == Positions(v, s) \ {1}
           B == Positions(v, Tail(s))
           f == [i \in A |-> i - 1]
<1>1. /\ Len(s) \in Nat \ {0}
      /\ Tail(s) \in Seq(S)
      /\ Len(Tail(s)) = Len(s) - 1
      /\ \A i \in 1..Len(s) - 1 : Tail(s)[i] = s[i + 1]
      /\ Head(s) = s[1]
  BY HeadTailProperties
<1>2. ExistsBijection(A, B)
  <2>1. A \subseteq 2..Len(s)
    BY <1>1 DEF Positions
  <2>2. f \in [A -> B]
    BY <1>1, <2>1 DEF Positions
  <2>3. \A a, b \in A : f[a] = f[b] => a = b
    BY <2>1
  <2>4. \A j \in B : j + 1 \in A /\ f[j + 1] = j
    BY <1>1 DEF Positions
  <2>5. f \in Injection(A, B) /\ f \in Surjection(A, B)
    BY <2>2, <2>3, <2>4 DEF Injection, IsInjective, Surjection
  <2> QED
    BY <2>5 DEF Bijection, ExistsBijection
<1>3. IsFiniteSet(A) /\ Cardinality(A)
        = Cardinality(Positions(v, s)) - (IF 1 \in Positions(v, s) THEN 1 ELSE 0)
  BY PositionsFinite, FS_RemoveElement
<1>4. Cardinality(B) = Cardinality(A)
  BY <1>2, <1>3, FS_Bijection
<1>5. 1 \in Positions(v, s) <=> Head(s) = v
  BY <1>1 DEF Positions
<1> QED
  BY <1>3, <1>4, <1>5

-----------------------------------------------------------------------------
(* The inductive invariant: what is accounted for, and how far a call is   *)
(* that has created so many tasks and counted so many.                     *)
CallProgress == \A a \in Callers :
    /\ caller[a] = "idle" => created[a] = 0
    /\ caller[a] = "create" => created[a] < num[a]
    /\ caller[a] \in {"check", "block", "asleep", "returned"} => created[a] = num[a]
    /\ caller[a] = "returned" => c[a] = num[a]

IInv == TypeOK /\ TasksAccounted /\ CallProgress /\ OneNotification

(* The tasks of a call that are stored, run or about to be counted are     *)
(* those created and not counted.                                          *)
LEMMA AtFinite ==
  ASSUME NEW a, NEW s
  PROVE  IsFiniteSet(At(a, s)) /\ Cardinality(At(a, s)) \in Nat
<1>1. At(a, s) \subseteq Workers /\ IsFiniteSet(Workers)
  BY RunConcurrentAssumption DEF At
<1> QED
  BY <1>1, FS_Subset, FS_CardinalityType

Balanced(a) ==
  /\ Cardinality(Stored(a)) \in Nat
  /\ Cardinality(At(a, "run")) \in Nat
  /\ Cardinality(At(a, "increment")) \in Nat
  /\ created[a] \in Nat /\ num[a] \in Nat /\ c[a] \in Nat /\ executed[a] \in Nat
  /\ created[a] = Cardinality(Stored(a)) + Cardinality(At(a, "run")) + executed[a]
  /\ executed[a] = c[a] + Cardinality(At(a, "increment"))
  /\ created[a] <= num[a]

(* The sums of the inductive invariant say what was created and executed.  *)
LEMMA Balance ==
  ASSUME IInv
  PROVE  /\ TypeOK /\ TasksAccounted /\ CallProgress /\ OneNotification
         /\ \A a \in Callers : Balanced(a)
<1>1. ASSUME NEW a \in Callers
      PROVE  Balanced(a)
  <2>1. Cardinality(Stored(a)) \in Nat
    <3>1. Stored(a) = Positions(a, queue) /\ queue \in Seq(Callers)
      BY DEF Stored, Positions, IInv, TypeOK
    <3> QED
      BY <3>1, PositionsFinite
  <2>2. /\ created[a] = Cardinality(Stored(a)) + Cardinality(At(a, "run")) + executed[a]
        /\ executed[a] = c[a] + Cardinality(At(a, "increment"))
    BY DEF IInv, TasksAccounted
  <2>3. /\ created[a] \in Nat /\ num[a] \in Nat /\ c[a] \in Nat /\ executed[a] \in Nat
        /\ created[a] <= num[a]
    BY RunConcurrentAssumption DEF IInv, TypeOK
  <2>4. /\ Cardinality(At(a, "run")) \in Nat
        /\ Cardinality(At(a, "increment")) \in Nat
    BY AtFinite
  <2> QED
    BY <2>1, <2>2, <2>3, <2>4 DEF Balanced
<1> QED
  BY <1>1 DEF IInv

(* A task that has still to be counted.                                    *)
LEMMA Uncounted ==
  ASSUME IInv, NEW w \in Workers, worker[w] \in {"run", "increment"}
  PROVE  /\ task[w] \in Callers
         /\ created[task[w]] > 0
         /\ c[task[w]] < num[task[w]]
         /\ worker[w] = "increment" => Cardinality(At(task[w], "increment")) > 0
<1> PICK a : a = task[w]
  OBVIOUS
<1>1. a \in Callers /\ Balanced(a)
  BY Balance DEF TypeOK
<1>2. w \in At(a, worker[w])
  BY DEF At
<1>3. Cardinality(At(a, worker[w])) # 0
  BY <1>2, AtFinite, FS_EmptySet
<1>4. CASE worker[w] = "run"
  <2>1. Cardinality(At(a, "run")) # 0
    BY <1>3, <1>4
  <2>2. created[a] > 0 /\ c[a] < num[a]
    BY <1>1, <2>1 DEF Balanced
  <2> QED
    BY <1>1, <1>4, <2>2
<1>5. CASE worker[w] = "increment"
  <2>1. Cardinality(At(a, "increment")) # 0
    BY <1>3, <1>5
  <2>2. created[a] > 0 /\ c[a] < num[a] /\ Cardinality(At(a, "increment")) > 0
    BY <1>1, <2>1 DEF Balanced
  <2> QED
    BY <1>1, <1>5, <2>2
<1> QED
  BY <1>4, <1>5

(* When the tasks of a call are all counted, none is left.                 *)
LEMMA AllCounted ==
  ASSUME IInv, NEW a \in Callers, c[a] = num[a]
  PROVE  executed[a] = num[a] /\ created[a] = num[a]
BY Balance DEF Balanced

(* What an Append and a Tail do to the tasks that are stored.              *)
LEMMA StoredMoves ==
  ASSUME TypeOK, NEW a \in Callers, NEW b \in Callers
  PROVE  /\ queue' = Append(queue, a) =>
              Cardinality(Stored(b)') = Cardinality(Stored(b)) + (IF a = b THEN 1 ELSE 0)
         /\ queue # << >> /\ queue' = Tail(queue) /\ a = Head(queue) =>
              Cardinality(Stored(b)') = Cardinality(Stored(b)) - (IF a = b THEN 1 ELSE 0)
<1>1. Stored(b) = Positions(b, queue) /\ Stored(b)' = Positions(b, queue')
  BY DEF Stored, Positions
<1>2. queue \in Seq(Callers)
  BY DEF TypeOK
<1>3. Cardinality(Positions(b, Append(queue, a)))
        = Cardinality(Positions(b, queue)) + (IF a = b THEN 1 ELSE 0)
  BY <1>2, PositionsAppend
<1>4. queue # << >> =>
        Cardinality(Positions(b, Tail(queue)))
          = Cardinality(Positions(b, queue)) - (IF Head(queue) = b THEN 1 ELSE 0)
  BY <1>2, PositionsTail
<1> QED
  BY <1>1, <1>3, <1>4

(* One worker more, or less.                                               *)
LEMMA OneMore ==
  ASSUME NEW a, NEW s, NEW w
  PROVE  /\ w \notin At(a, s) => Cardinality(At(a, s) \cup {w}) = Cardinality(At(a, s)) + 1
         /\ w \in At(a, s) => Cardinality(At(a, s) \ {w}) = Cardinality(At(a, s)) - 1
BY AtFinite, FS_AddElement, FS_RemoveElement

-----------------------------------------------------------------------------
(* There are no tasks to begin with.                                       *)
LEMMA InitIInv == Init => IInv
<1> SUFFICES ASSUME Init PROVE IInv
  OBVIOUS
<1>1. TypeOK
  BY DEF Init, TypeOK
<1>2. \A a \in Callers : \A s \in {"run", "increment", "notify"} : At(a, s) = {}
  BY DEF Init, At
<1>3. \A a \in Callers : Stored(a) = {}
  BY DEF Init, Stored
<1>4. TasksAccounted /\ OneNotification
  <2>1. ASSUME NEW a \in Callers
        PROVE  /\ At(a, "run") = {} /\ At(a, "increment") = {} /\ At(a, "notify") = {}
               /\ Stored(a) = {}
               /\ created[a] = 0 /\ executed[a] = 0 /\ c[a] = 0
    BY <1>2, <1>3 DEF Init
  <2>2. Cardinality({}) = 0
    BY FS_EmptySet
  <2> QED
    BY <2>1, <2>2 DEF TasksAccounted, OneNotification
<1>5. CallProgress
  BY DEF Init, CallProgress
<1> QED
  BY <1>1, <1>4, <1>5 DEF IInv

(* The steps of a caller that touch no task.                               *)
LEMMA CallerMoves ==
  ASSUME IInv, UNCHANGED <<num, created, c, queue, worker, task, executed>>,
         caller' \in [Callers -> {"idle", "create", "check", "block", "asleep", "returned"}],
         inside' \in [Workers -> Inner \cup {None}],
         missed' \subseteq Callers,
         CallProgress'
  PROVE  IInv'
<1>1. TypeOK'
  BY DEF IInv, TypeOK
<1>2. TasksAccounted'
  BY DEF IInv, TasksAccounted, Stored, At
<1>3. OneNotification'
  BY DEF IInv, OneNotification, At
<1> QED
  BY <1>1, <1>2, <1>3 DEF IInv

(* A call for no functions returns, another one creates its tasks.         *)
LEMMA EnterIInv ==
  ASSUME IInv, NEW a \in Callers, Enter(a),
         inside' \in [Workers -> Inner \cup {None}]
  PROVE  IInv'
<1>1. caller[a] = "idle" /\ created[a] = 0 /\ c[a] = 0
  <2>1. CallProgress /\ Balanced(a)
    BY Balance
  <2>2. caller[a] = "idle" /\ created[a] = 0
    BY <2>1 DEF CallProgress, Enter
  <2>3. c[a] = 0
    <3>1. /\ Cardinality(Stored(a)) \in Nat /\ Cardinality(At(a, "run")) \in Nat
          /\ Cardinality(At(a, "increment")) \in Nat
          /\ executed[a] \in Nat /\ c[a] \in Nat
          /\ 0 = Cardinality(Stored(a)) + Cardinality(At(a, "run")) + executed[a]
          /\ executed[a] = c[a] + Cardinality(At(a, "increment"))
      BY <2>1, <2>2 DEF Balanced
    <3>2. executed[a] = 0
      BY <3>1
    <3> QED
      BY <3>1, <3>2
  <2> QED
    BY <2>2, <2>3
<1>2. caller' \in [Callers -> {"idle", "create", "check", "block", "asleep", "returned"}]
  BY DEF Enter, IInv, TypeOK
<1>3. CallProgress'
  BY <1>1 DEF Enter, IInv, CallProgress, TypeOK
<1> QED
  BY <1>2, <1>3, CallerMoves DEF Enter, IInv, TypeOK

(* A caller that looks, falls asleep or wakes changes nothing else.        *)
LEMMA WaitIInv ==
  ASSUME IInv, NEW a \in Callers, Check(a) \/ Block(a) \/ SpuriousWakeup(a)
  PROVE  IInv'
<1>1. caller' \in [Callers -> {"idle", "create", "check", "block", "asleep", "returned"}]
  BY DEF Check, Block, SpuriousWakeup, IInv, TypeOK
<1>2. CallProgress'
  BY DEF Check, Block, SpuriousWakeup, IInv, TypeOK, CallProgress, workerVars
<1> QED
  BY <1>1, <1>2, CallerMoves DEF Check, Block, SpuriousWakeup, workerVars, IInv, TypeOK

(* A task is created and put in the queue.                                 *)
LEMMA CreateIInv ==
  ASSUME IInv, NEW a \in Callers, Create(a)
  PROVE  IInv'
<1>a. /\ TypeOK /\ TasksAccounted /\ CallProgress /\ OneNotification
      /\ \A b \in Callers : Balanced(b)
  BY Balance
<1>1. /\ caller[a] = "create" /\ created[a] < num[a]
      /\ queue' = Append(queue, a)
      /\ created' = [created EXCEPT ![a] = @ + 1]
      /\ caller' = [caller EXCEPT ![a] = IF created[a] + 1 = num[a] THEN "check" ELSE "create"]
      /\ UNCHANGED <<num, c, worker, task, inside, executed, missed>>
  BY <1>a DEF Create, Queue!Enqueue, TypeOK
<1>2. TypeOK'
  BY <1>a, <1>1 DEF TypeOK
<1>3. \A b, s : At(b, s)' = At(b, s)
  BY <1>1 DEF At
<1>4. CallProgress'
  BY <1>a, <1>1 DEF CallProgress, TypeOK
<1>5. OneNotification'
  BY <1>a, <1>1, <1>3 DEF OneNotification
<1>6. TasksAccounted'
  <2>1. \A b \in Callers : Cardinality(Stored(b)')
                             = Cardinality(Stored(b)) + (IF a = b THEN 1 ELSE 0)
    BY <1>a, <1>1, StoredMoves DEF TypeOK
  <2>2. ASSUME NEW b \in Callers
        PROVE  /\ created'[b] = Cardinality(Stored(b)')
                                  + Cardinality(At(b, "run")) + executed[b]
               /\ executed[b] = c[b] + Cardinality(At(b, "increment"))
    <3>1. created'[b] = created[b] + (IF a = b THEN 1 ELSE 0)
      BY <1>a, <1>1 DEF TypeOK
    <3>2. Balanced(b)
      BY <1>a
    <3> QED
      BY <2>1, <3>1, <3>2 DEF Balanced
  <2> QED
    BY <1>a, <1>1, <1>3, <2>2 DEF TasksAccounted
<1> QED
  BY <1>2, <1>4, <1>5, <1>6 DEF IInv

(* A worker takes a task.                                                  *)
LEMMA PopTaskIInv ==
  ASSUME IInv, NEW w \in Workers, PopTask(w)
  PROVE  IInv'
<1>a. /\ TypeOK /\ TasksAccounted /\ CallProgress /\ OneNotification
      /\ \A b \in Callers : Balanced(b)
  BY Balance
<1> PICK a : a = Head(queue)
  OBVIOUS
<1>1. /\ worker[w] = "pop" /\ queue # << >> /\ queue' = Tail(queue)
      /\ task' = [task EXCEPT ![w] = a]
      /\ worker' = [worker EXCEPT ![w] = "run"]
      /\ UNCHANGED <<caller, num, created, c, inside, executed, missed>>
  BY DEF PopTask, Queue!Dequeue, callerVars
<1>2. a \in Callers /\ queue' \in Seq(Callers)
  BY <1>a, <1>1 DEF TypeOK
<1>3. TypeOK'
  BY <1>a, <1>1, <1>2 DEF TypeOK
<1>4. ASSUME NEW b \in Callers
      PROVE  /\ Cardinality(At(b, "run")') = Cardinality(At(b, "run"))
               + (IF b = a THEN 1 ELSE 0)
             /\ Cardinality(At(b, "increment")') = Cardinality(At(b, "increment"))
  <2>1. /\ w \notin At(b, "run")
        /\ At(b, "run")' = IF b = a THEN At(b, "run") \cup {w} ELSE At(b, "run")
        /\ At(b, "increment")' = At(b, "increment")
    BY <1>a, <1>1 DEF At, TypeOK
  <2> QED
    BY <2>1, OneMore, AtFinite
<1>5. CallProgress'
  BY <1>a, <1>1 DEF CallProgress
<1>6. OneNotification'
  <2>1. \A b \in Callers : At(b, "notify")' = At(b, "notify")
    BY <1>a, <1>1 DEF At, TypeOK
  <2> QED
    BY <1>a, <1>1, <2>1 DEF OneNotification
<1>7. TasksAccounted'
  <2>1. \A b \in Callers : Cardinality(Stored(b)')
                             = Cardinality(Stored(b)) - (IF a = b THEN 1 ELSE 0)
    BY <1>a, <1>1, <1>2, StoredMoves
  <2>2. ASSUME NEW b \in Callers
        PROVE  /\ created[b] = Cardinality(Stored(b)')
                                  + Cardinality(At(b, "run")') + executed[b]
               /\ executed[b] = c[b] + Cardinality(At(b, "increment")')
    <3>1. Balanced(b)
      BY <1>a
    <3> QED
      BY <1>4, <2>1, <3>1 DEF Balanced
  <2> QED
    BY <1>a, <1>1, <2>2 DEF TasksAccounted
<1> QED
  BY <1>3, <1>5, <1>6, <1>7 DEF IInv

(* A task is run and counted.                                              *)
LEMMA RunTaskIInv ==
  ASSUME IInv, NEW w \in Workers, RunTask(w)
  PROVE  IInv'
<1>a. /\ TypeOK /\ TasksAccounted /\ CallProgress /\ OneNotification
      /\ \A b \in Callers : Balanced(b)
  BY Balance
<1> PICK a : a = task[w]
  OBVIOUS
<1>1. /\ worker[w] = "run"
      /\ executed' = [executed EXCEPT ![a] = @ + 1]
      /\ inside' = [inside EXCEPT ![w] = None]
      /\ worker' = [worker EXCEPT ![w] = "increment"]
      /\ UNCHANGED <<caller, num, created, c, queue, task, missed>>
  BY DEF RunTask, Returning, callerVars
<1>2. a \in Callers /\ task' = [task EXCEPT ![w] = a]
  BY <1>a, <1>1 DEF TypeOK
<1>3. TypeOK'
  BY <1>a, <1>1, <1>2 DEF TypeOK
<1>4. ASSUME NEW b \in Callers
      PROVE  /\ Cardinality(At(b, "run")') = Cardinality(At(b, "run"))
               - (IF b = a THEN 1 ELSE 0)
             /\ Cardinality(At(b, "increment")') = Cardinality(At(b, "increment"))
               + (IF b = a THEN 1 ELSE 0)
  <2>1. /\ b = a => w \in At(b, "run")
        /\ w \notin At(b, "increment")
        /\ At(b, "run")' = IF b = a THEN At(b, "run") \ {w} ELSE At(b, "run")
        /\ At(b, "increment")' = IF b = a THEN At(b, "increment") \cup {w}
                                         ELSE At(b, "increment")
    BY <1>a, <1>1, <1>2 DEF At, TypeOK
  <2> QED
    BY <2>1, OneMore, AtFinite
<1>5. CallProgress'
  BY <1>a, <1>1 DEF CallProgress
<1>6. OneNotification'
  <2>1. \A b \in Callers : At(b, "notify")' = At(b, "notify")
    BY <1>a, <1>1 DEF At, TypeOK
  <2> QED
    BY <1>a, <1>1, <2>1 DEF OneNotification
<1>7. TasksAccounted'
  <2>1. ASSUME NEW b \in Callers
        PROVE  /\ created[b] = Cardinality(Stored(b)) + Cardinality(At(b, "run")') + executed'[b]
               /\ executed'[b] = c[b] + Cardinality(At(b, "increment")')
    <3>1. executed'[b] = executed[b] + (IF b = a THEN 1 ELSE 0)
      BY <1>a, <1>1 DEF TypeOK
    <3>2. Balanced(b)
      BY <1>a
    <3> QED
      BY <1>4, <3>1, <3>2 DEF Balanced
  <2> QED
    BY <1>a, <1>1, <2>1 DEF TasksAccounted, Stored
<1> QED
  BY <1>3, <1>5, <1>6, <1>7 DEF IInv

(* The counter reaches the number of functions once, so one task notifies. *)
LEMMA IncrementIInv ==
  ASSUME IInv, NEW w \in Workers, Increment(w)
  PROVE  IInv'
<1>a. /\ TypeOK /\ TasksAccounted /\ CallProgress /\ OneNotification
      /\ \A b \in Callers : Balanced(b)
  BY Balance
<1> PICK a : a = task[w]
  OBVIOUS
<1> PICK t : t = IF c[a] + 1 = num[a] THEN "notify" ELSE "pop"
  OBVIOUS
<1>1. /\ worker[w] = "increment"
      /\ c' = [c EXCEPT ![a] = @ + 1]
      /\ UNCHANGED <<caller, num, created, queue, task, inside, executed, missed>>
  BY DEF Increment, callerVars
<1>2. a \in Callers /\ task' = [task EXCEPT ![w] = a] /\ c'[a] = c[a] + 1
  BY <1>a, <1>1 DEF TypeOK
<1>3. worker' = [worker EXCEPT ![w] = t]
  BY <1>2 DEF Increment
<1>4. TypeOK'
  BY <1>a, <1>1, <1>2, <1>3 DEF TypeOK
<1>5. ASSUME NEW b \in Callers
      PROVE  /\ Cardinality(At(b, "run")') = Cardinality(At(b, "run"))
             /\ Cardinality(At(b, "increment")') = Cardinality(At(b, "increment"))
               - (IF b = a THEN 1 ELSE 0)
             /\ Cardinality(At(b, "notify")') = Cardinality(At(b, "notify"))
               + (IF b = a /\ t = "notify" THEN 1 ELSE 0)
  <2>1. /\ At(b, "run")' = At(b, "run")
        /\ b = a => w \in At(b, "increment")
        /\ At(b, "increment")' = IF b = a THEN At(b, "increment") \ {w}
                                         ELSE At(b, "increment")
        /\ w \notin At(b, "notify")
        /\ At(b, "notify")' = IF b = a /\ t = "notify" THEN At(b, "notify") \cup {w}
                                                      ELSE At(b, "notify")
    BY <1>a, <1>1, <1>2, <1>3 DEF At, TypeOK
  <2> QED
    BY <2>1, OneMore, AtFinite
<1>6. c[a] < num[a] /\ \A b \in Callers \ {a} : c'[b] = c[b]
  BY <1>a, <1>1, Uncounted DEF TypeOK
<1>7. CallProgress'
  BY <1>a, <1>1, <1>6 DEF CallProgress, TypeOK
<1>8. OneNotification'
  <2>1. At(a, "notify") = {} /\ Cardinality(At(a, "notify")) = 0
    <3>1. c[a] # num[a]
      <4>1. Balanced(a)
        BY <1>a, <1>2
      <4> QED
        BY <1>6, <4>1 DEF Balanced
    <3> QED
      BY <1>a, <1>2, <3>1, FS_EmptySet DEF OneNotification
  <2>2. ASSUME NEW b \in Callers \ {a}
        PROVE  At(b, "notify")' = At(b, "notify")
    BY <1>a, <1>1, <1>2, <1>3 DEF At, TypeOK
  <2>3. t = "notify" => c'[a] = num[a]
    BY <1>2
  <2>4. t # "notify" => At(a, "notify")' = {}
    BY <1>a, <1>1, <1>3, <2>1 DEF At, TypeOK
  <2>5. Cardinality(At(a, "notify")') <= 1
    BY <1>2, <1>5, <2>1
  <2>6. ASSUME NEW b \in Callers
        PROVE  /\ Cardinality(At(b, "notify")') <= 1
               /\ At(b, "notify")' # {} => c'[b] = num[b]
    <3>1. CASE b = a
      BY <3>1, <2>3, <2>4, <2>5
    <3>2. CASE b # a
      BY <1>a, <1>6, <2>2, <3>2 DEF OneNotification
    <3> QED
      BY <3>1, <3>2
  <2> QED
    BY <1>1, <2>6 DEF OneNotification
<1>9. TasksAccounted'
  <2>1. ASSUME NEW b \in Callers
        PROVE  /\ created[b] = Cardinality(Stored(b)) + Cardinality(At(b, "run")') + executed[b]
               /\ executed[b] = c'[b] + Cardinality(At(b, "increment")')
    <3>1. c'[b] = c[b] + (IF b = a THEN 1 ELSE 0)
      BY <1>a, <1>1 DEF TypeOK
    <3>2. Balanced(b)
      BY <1>a
    <3> QED
      BY <1>5, <3>1, <3>2 DEF Balanced
  <2> QED
    BY <1>a, <1>1, <2>1 DEF TasksAccounted, Stored
<1> QED
  BY <1>4, <1>7, <1>8, <1>9 DEF IInv

(* The last task notifies the caller.                                      *)
LEMMA NotifyIInv ==
  ASSUME IInv, NEW w \in Workers, Notify(w)
  PROVE  IInv'
<1>a. /\ TypeOK /\ TasksAccounted /\ CallProgress /\ OneNotification
      /\ \A b \in Callers : Balanced(b)
  BY Balance
<1> PICK a : a = task[w]
  OBVIOUS
<1>1. /\ worker[w] = "notify"
      /\ caller' = [caller EXCEPT ![a] = IF @ = "asleep" THEN "check" ELSE @]
      /\ missed' = IF caller[a] = "block" THEN missed \cup {a} ELSE missed
      /\ worker' = [worker EXCEPT ![w] = "pop"]
      /\ UNCHANGED <<num, created, c, queue, task, inside, executed>>
  BY DEF Notify
<1>2. a \in Callers /\ task' = [task EXCEPT ![w] = a]
  BY <1>a, <1>1 DEF TypeOK
<1>3. TypeOK'
  BY <1>a, <1>1, <1>2 DEF TypeOK
<1>4. \A b \in Callers : \A s \in {"run", "increment"} : At(b, s)' = At(b, s)
  BY <1>a, <1>1 DEF At, TypeOK
<1>5. \A b \in Callers : At(b, "notify")' \subseteq At(b, "notify")
  BY <1>a, <1>1 DEF At, TypeOK
<1>6. CallProgress'
  BY <1>a, <1>1 DEF CallProgress, TypeOK
<1>7. OneNotification'
  <2>1. \A b \in Callers : Cardinality(At(b, "notify")') <= Cardinality(At(b, "notify"))
    BY <1>5, AtFinite, FS_Subset
  <2>2. \A b \in Callers : Cardinality(At(b, "notify")') \in Nat
    BY <1>5, AtFinite, FS_Subset, FS_CardinalityType
  <2> QED
    <3>1. ASSUME NEW b \in Callers
          PROVE  /\ Cardinality(At(b, "notify")') <= 1
                 /\ At(b, "notify")' # {} => c[b] = num[b]
      <4>1. Cardinality(At(b, "notify")) \in Nat /\ Cardinality(At(b, "notify")) <= 1
        BY <1>a, AtFinite DEF OneNotification
      <4>2. Cardinality(At(b, "notify")') <= Cardinality(At(b, "notify"))
        BY <2>1
      <4>3. At(b, "notify")' # {} => c[b] = num[b]
        BY <1>a, <1>5 DEF OneNotification
      <4> QED
        BY <2>2, <4>1, <4>2, <4>3
    <3> QED
      BY <1>1, <3>1 DEF OneNotification
<1>8. TasksAccounted'
  <2>1. \A b \in Callers : Stored(b)' = Stored(b)
    BY <1>1 DEF Stored
  <2>2. \A b \in Callers : At(b, "run")' = At(b, "run")
                          /\ At(b, "increment")' = At(b, "increment")
    BY <1>4
  <2> QED
    BY <1>a, <1>1, <2>1, <2>2 DEF TasksAccounted
<1> QED
  BY <1>3, <1>6, <1>7, <1>8 DEF IInv

(* Every step keeps the inductive invariant.                               *)
LEMMA NextIInv == IInv /\ [Next]_vars => IInv'
<1> SUFFICES ASSUME IInv, [Next]_vars PROVE IInv'
  OBVIOUS
<1>1. CASE UNCHANGED vars
  <2>1. CallProgress'
    BY <1>1 DEF vars, IInv, CallProgress
  <2> QED
    BY <1>1, <2>1, CallerMoves DEF vars, IInv, TypeOK
<1>2. ASSUME NEW a \in Callers, Call(a)
      PROVE  IInv'
  BY <1>2, EnterIInv DEF Call, IInv, TypeOK
<1>3. ASSUME NEW w \in Workers, NEW a \in Inner, CallInner(w, a)
      PROVE  IInv'
  <2>1. inside' \in [Workers -> Inner \cup {None}]
    BY <1>3 DEF CallInner, IInv, TypeOK
  <2> QED
    BY <1>3, <2>1, EnterIInv, RunConcurrentAssumption DEF CallInner
<1> QED
  BY <1>1, <1>2, <1>3, WaitIInv, CreateIInv, PopTaskIInv, RunTaskIInv, IncrementIInv,
     NotifyIInv DEF Next, CallerStep, WorkerStep

(* Hence it holds always.                                                  *)
LEMMA AlwaysIInv == Spec => []IInv
  BY InitIInv, NextIInv, PTL DEF Spec

(* No task of a call is lost or counted twice, whatever its functions      *)
(* throw and however the calls and the workers interleave.                 *)
THEOREM TasksSafe == Spec => []Safe
<1>1. IInv => Safe
  BY DEF IInv, Safe
<1> QED
  BY <1>1, AlwaysIInv, PTL

(* The frame of a call exists as long as a task may count in it; the call  *)
(* returns only after every function has ended; one task notifies.         *)
THEOREM FrameSafe == Spec => []FrameOutlivesTasks
<1>1. IInv => FrameOutlivesTasks
  <2> SUFFICES ASSUME IInv PROVE FrameOutlivesTasks
    OBVIOUS
  <2>1. ReturnsWhenDone
    BY AllCounted DEF IInv, CallProgress, ReturnsWhenDone
  <2>2. FrameAlive
    <3>1. ASSUME NEW w \in Workers, worker[w] \in {"run", "increment"}
          PROVE  Live(task[w])
      <4>1. /\ task[w] \in Callers /\ created[task[w]] > 0 /\ c[task[w]] < num[task[w]]
            /\ created[task[w]] \in Nat /\ num[task[w]] \in Nat /\ c[task[w]] \in Nat
        <5>1. task[w] \in Callers /\ created[task[w]] > 0 /\ c[task[w]] < num[task[w]]
          BY <3>1, Uncounted
        <5>2. Balanced(task[w])
          BY <5>1, Balance
        <5> QED
          BY <5>1, <5>2 DEF Balanced
      <4>2. caller[task[w]] # "idle" /\ caller[task[w]] # "returned"
        BY <4>1, Balance DEF CallProgress
      <4> QED
        BY <4>1, <4>2, Balance DEF Live, TypeOK
    <3> QED
      BY <3>1 DEF FrameAlive
  <2> QED
    BY <2>1, <2>2 DEF IInv, FrameOutlivesTasks
<1> QED
  BY <1>1, AlwaysIInv, PTL
=============================================================================
