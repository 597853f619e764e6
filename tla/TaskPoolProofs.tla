--------------------------- MODULE TaskPoolProofs ---------------------------
(***************************************************************************)
(* Proofs about TaskPool for any tasks, budgets and costs: which tasks a   *)
(* frame runs first, and that it runs every fixed task. And about          *)
(* ActorTask, the inside of some of these tasks: for which actors a        *)
(* function is called, whatever the host does with them.                   *)
(***************************************************************************)
EXTENDS MCTaskPool, Integers, FiniteSets, SequencesExt, FiniteSetTheorems,
        SequenceTheorems, TLAPS

-----------------------------------------------------------------------------
(* Values in sequences                                                     *)

(* Append adds its element.                                                *)
LEMMA AppendElements ==
  ASSUME NEW S, NEW s \in Seq(S), NEW v \in S
  PROVE  ToSet(Append(s, v)) = ToSet(s) \cup {v}
<1>1. /\ Len(s) \in Nat
      /\ DOMAIN s = 1..Len(s)
      /\ DOMAIN Append(s, v) = 1..Len(s) + 1
      /\ \A i \in 1..Len(s) : Append(s, v)[i] = s[i]
      /\ Append(s, v)[Len(s) + 1] = v
  BY AppendProperties
<1> QED
  BY <1>1 DEF ToSet

(* Tail takes the head away.                                               *)
LEMMA TailElements ==
  ASSUME NEW S, NEW s \in Seq(S), s # << >>
  PROVE  ToSet(s) = ToSet(Tail(s)) \cup {Head(s)}
<1>1. /\ Len(s) \in Nat \ {0}
      /\ DOMAIN s = 1..Len(s)
      /\ DOMAIN Tail(s) = 1..Len(s) - 1
      /\ \A i \in 1..Len(s) - 1 : Tail(s)[i] = s[i + 1]
      /\ Head(s) = s[1]
  BY HeadTailProperties
<1>2. ASSUME NEW j \in DOMAIN s, j # 1
      PROVE  j - 1 \in DOMAIN Tail(s) /\ Tail(s)[j - 1] = s[j]
  <2>1. j - 1 \in 1..Len(s) - 1 /\ (j - 1) + 1 = j
    BY <1>1, <1>2
  <2> QED
    BY <1>1, <2>1
<1>3. ASSUME NEW j \in DOMAIN s
      PROVE  s[j] \in ToSet(Tail(s)) \cup {Head(s)}
  BY <1>1, <1>2 DEF ToSet
<1>4. 1 \in 1..Len(s) /\ \A i \in 1..Len(s) - 1 : i + 1 \in 1..Len(s)
  BY <1>1
<1>5. ToSet(Tail(s)) \cup {Head(s)} \subseteq ToSet(s)
  BY <1>1, <1>4 DEF ToSet
<1> QED
  BY <1>3, <1>5 DEF ToSet

-----------------------------------------------------------------------------
(* The inductive invariant                                                 *)

(* The parts of TypeOK: the queues, the fixed tasks, and the rest.         *)
QueuesTyped == /\ prio \in Seq(PrioTasks) /\ normal \in Seq(NormalTasks)
               /\ state \in [Tasks -> {"new", "stored", "taken", "disposed"}]
FixedTyped == /\ fixed \in Seq(FixedTasks) /\ IsInjective(fixed)
              /\ capacity \in Nat /\ Len(fixed) <= capacity
              /\ index \in 0..(Len(fixed) + 1) /\ end \in 0..Len(fixed)
              /\ due \subseteq FixedTasks
              /\ broken \in BOOLEAN
HookTyped == /\ poolBudget \in 0..MaxBudget
             /\ running = IF phase = "out" THEN None ELSE Main
             /\ hook \in {"none", "plain", "budget"}
             /\ phase \in Phases
             /\ task \in [{Main} -> Tasks \cup {None}]
             /\ budget \in 0..MaxBudget \cup {None}
             /\ elapsed \in 0..(MaxBudget + 1)
             /\ early \subseteq PrioTasks
Typed == QueuesTyped /\ FixedTyped /\ HookTyped

(* The types, grouped by what the steps change.                            *)
LEMMA TypedIsTypeOK == Typed <=> TypeOK
  BY DEF Typed, QueuesTyped, FixedTyped, HookTyped, TypeOK

(* Where the hook is fits what it has at hand.                             *)
InFrame == /\ phase # "out" => hook # "none"
           /\ hook # "budget" => budget = None
           /\ phase = "prioRun" => task[Main] \in PrioTasks
           /\ phase = "normalRun" => task[Main] \in NormalTasks
           /\ phase = "fixedRun" => index <= end

(* A priority task that was there when the frame began waits, runs, or is  *)
(* disposed of.                                                            *)
EarlyPlaced == \A k \in early \ Static :
    \/ k \in ToSet(prio)
    \/ phase = "prioRun" /\ task[Main] = k /\ state[k] = "taken"
    \/ state[k] = "disposed"

(* What is due is still before the iteration.                              *)
DueAhead == \A f \in due : \E i \in DOMAIN fixed :
    /\ fixed[i] = f
    /\ phase = "fixed" => i \in index..end
    /\ phase = "fixedRun" => i \in (index + 1)..end

IInv == Typed /\ InFrame /\ EarlyPlaced /\ PriorityFirst /\ DueAhead

-----------------------------------------------------------------------------
(* All queues are empty and the hook is not installed.                     *)
LEMMA InitIInv == Init => IInv
<1> SUFFICES ASSUME Init PROVE IInv
  OBVIOUS
<1>1. QueuesTyped
  BY DEF Init, QueuesTyped
<1>2. FixedTyped
  <2>1. /\ fixed \in Seq(FixedTasks) /\ IsInjective(fixed)
        /\ capacity \in Nat /\ Len(fixed) <= capacity
    BY TaskPoolAssumption DEF Init
  <2>2. Len(fixed) \in Nat
    BY <2>1
  <2>3. index \in 0..(Len(fixed) + 1) /\ end \in 0..Len(fixed)
    BY <2>2 DEF Init
  <2> QED
    BY <2>1, <2>3 DEF Init, FixedTyped
<1>3. HookTyped
  BY TaskPoolAssumption DEF Init, HookTyped, Phases
<1>4. InFrame /\ EarlyPlaced /\ PriorityFirst /\ DueAhead
  BY DEF Init, InFrame, EarlyPlaced, PriorityFirst, DueAhead
<1> QED
  BY <1>1, <1>2, <1>3, <1>4 DEF IInv, Typed

-----------------------------------------------------------------------------
(* The calls                                                               *)

(* A task that is new, or that adds itself, is stored.                     *)
LEMMA StoreIInv ==
  ASSUME IInv, NEW k \in Tasks, Store(k),
         state[k] = "new" \/ k \in Static,
         UNCHANGED <<fixedVars, frameVars, poolBudget, hook>>
  PROVE  IInv'
<1>a. QueuesTyped /\ FixedTyped /\ HookTyped /\ InFrame /\ EarlyPlaced /\ PriorityFirst
      /\ DueAhead
  BY DEF IInv, Typed
<1>1. /\ state' = [state EXCEPT ![k] = "stored"]
      /\ \/ k \in PrioTasks /\ prio' = Append(prio, k) /\ normal' = normal
         \/ k \in NormalTasks /\ normal' = Append(normal, k) /\ prio' = prio
  BY DEF Store, Tasks
<1>2. UNCHANGED <<fixed, capacity, broken, running, phase, task, budget, elapsed, index,
                  end, early, due, poolBudget, hook>>
  BY DEF fixedVars, frameVars
<1>3. Typed'
  <2>1. QueuesTyped'
    <3>1. CASE k \in PrioTasks /\ prio' = Append(prio, k) /\ normal' = normal
      BY <1>a, <1>1, <3>1 DEF QueuesTyped
    <3>2. CASE k \in NormalTasks /\ normal' = Append(normal, k) /\ prio' = prio
      BY <1>a, <1>1, <3>2 DEF QueuesTyped
    <3> QED
      BY <1>1, <3>1, <3>2
  <2>2. FixedTyped' /\ HookTyped'
    BY <1>a, <1>2 DEF FixedTyped, HookTyped
  <2> QED
    BY <2>1, <2>2 DEF Typed
<1>4. InFrame' /\ DueAhead'
  BY <1>a, <1>2 DEF InFrame, DueAhead
<1>5. \A x \in Tasks \ Static : state[x] = "disposed" => state'[x] = "disposed"
  BY <1>a, <1>1 DEF QueuesTyped
<1>6. \A x \in Tasks \ Static : state[x] = "taken" => state'[x] = "taken"
  BY <1>a, <1>1 DEF QueuesTyped
<1>7. early \subseteq Tasks
  BY <1>a DEF HookTyped, Tasks
<1>8. ToSet(prio) \subseteq ToSet(prio')
  <2>1. CASE prio' = prio
    BY <2>1
  <2>2. CASE k \in PrioTasks /\ prio' = Append(prio, k)
    <3>1. prio \in Seq(PrioTasks)
      BY <1>a DEF QueuesTyped
    <3> QED
      BY <2>2, <3>1, AppendElements
  <2> QED
    BY <1>1, <2>1, <2>2
<1>9. EarlyPlaced'
  BY <1>a, <1>2, <1>5, <1>6, <1>7, <1>8 DEF EarlyPlaced
<1>10. PriorityFirst'
  BY <1>a, <1>2, <1>5, <1>7 DEF PriorityFirst
<1> QED
  BY <1>3, <1>4, <1>9, <1>10 DEF IInv

(* A fixed task is added.                                                  *)
LEMMA AddTaskFixedIInv ==
  ASSUME IInv, NEW f \in FixedTasks, AddTaskFixed(f)
  PROVE  IInv'
<1>a. QueuesTyped /\ FixedTyped /\ HookTyped /\ InFrame /\ EarlyPlaced /\ PriorityFirst
      /\ DueAhead
  BY DEF IInv, Typed
<1>1. /\ f \notin ToSet(fixed) /\ fixed' = Append(fixed, f)
      /\ UNCHANGED <<prio, normal, state, running, phase, task, budget, elapsed, index,
                     end, early, due, poolBudget, hook>>
  BY DEF AddTaskFixed, queueVars, frameVars
<1>2. /\ Len(fixed) \in Nat /\ DOMAIN fixed = 1..Len(fixed)
      /\ fixed' \in Seq(FixedTasks)
      /\ Len(fixed') = Len(fixed) + 1 /\ DOMAIN fixed' = 1..(Len(fixed) + 1)
      /\ \A i \in DOMAIN fixed : fixed'[i] = fixed[i]
      /\ fixed'[Len(fixed) + 1] = f
  BY <1>a, <1>1 DEF FixedTyped
<1>3. capacity' \in Nat /\ Len(fixed') <= capacity'
  <2>1. capacity' = IF Len(fixed) = capacity THEN Grown(capacity) ELSE capacity
    BY DEF AddTaskFixed
  <2>2. Len(fixed) = capacity => Grown(capacity) \in Nat /\ Grown(capacity) >= capacity + 1
    BY <1>2 DEF Grown
  <2>3. capacity \in Nat /\ Len(fixed) <= capacity
    BY <1>a DEF FixedTyped
  <2>4. CASE Len(fixed) = capacity
    <3>1. capacity' = Grown(capacity)
      BY <2>1, <2>4
    <3>2. Len(fixed') = capacity + 1
      BY <1>2, <2>4
    <3>3. capacity' \in Nat /\ capacity' >= capacity + 1
      BY <2>2, <2>4, <3>1
    <3> QED
      BY <3>2, <3>3
  <2>5. CASE Len(fixed) # capacity
    <3>1. capacity' = capacity
      BY <2>1, <2>5
    <3>2. Len(fixed') = Len(fixed) + 1 /\ Len(fixed) \in Nat
      BY <1>2
    <3> QED
      BY <2>3, <2>5, <3>1, <3>2
  <2> QED
    BY <2>4, <2>5
<1>3b. broken' \in BOOLEAN
  BY <1>a DEF AddTaskFixed, FixedTyped
<1>4. IsInjective(fixed')
  BY <1>a, <1>1, <1>2 DEF FixedTyped, IsInjective, ToSet
<1>5. Typed'
  <2>1. FixedTyped'
    BY <1>a, <1>1, <1>2, <1>3, <1>3b, <1>4 DEF FixedTyped
  <2>2. QueuesTyped' /\ HookTyped'
    BY <1>a, <1>1 DEF QueuesTyped, HookTyped
  <2> QED
    BY <2>1, <2>2 DEF Typed
<1>6. DueAhead'
  BY <1>a, <1>1, <1>2 DEF DueAhead
<1>7. InFrame' /\ EarlyPlaced' /\ PriorityFirst'
  BY <1>a, <1>1 DEF InFrame, EarlyPlaced, PriorityFirst
<1> QED
  BY <1>5, <1>6, <1>7 DEF IInv

(* The budget, the hook put in place.                                      *)
LEMMA SettingIInv ==
  ASSUME IInv,
         \/ \E b \in 0..MaxBudget : SetBudget(b)
         \/ Install
  PROVE  IInv'
<1>a. QueuesTyped /\ FixedTyped /\ HookTyped /\ InFrame /\ EarlyPlaced /\ PriorityFirst
      /\ DueAhead
  BY DEF IInv, Typed
<1>1. UNCHANGED <<prio, normal, state, fixed, capacity, broken, running, phase, task,
                  budget, elapsed, index, end, early, due>>
  BY DEF SetBudget, Install, queueVars, fixedVars, frameVars
<1>2. /\ poolBudget' \in 0..MaxBudget
      /\ \/ hook' = hook
         \/ hook = "none" /\ hook' \in {"plain", "budget"}
  BY <1>a DEF SetBudget, Install, HookTyped
<1>3. Typed'
  <2>1. HookTyped'
    BY <1>a, <1>1, <1>2 DEF HookTyped
  <2>2. QueuesTyped' /\ FixedTyped'
    BY <1>a, <1>1 DEF QueuesTyped, FixedTyped
  <2> QED
    BY <2>1, <2>2 DEF Typed
<1>4. InFrame' /\ PriorityFirst'
  BY <1>a, <1>1, <1>2 DEF InFrame, PriorityFirst
<1>5. EarlyPlaced' /\ DueAhead'
  BY <1>a, <1>1 DEF EarlyPlaced, DueAhead
<1> QED
  BY <1>3, <1>4, <1>5 DEF IInv

-----------------------------------------------------------------------------
(* The hook                                                                *)

(* A frame begins with the prioritized queue.                              *)
LEMMA FrameBeginIInv == IInv /\ FrameBegin => IInv'
<1> SUFFICES ASSUME IInv, FrameBegin PROVE IInv'
  OBVIOUS
<1>a. QueuesTyped /\ FixedTyped /\ HookTyped /\ InFrame /\ EarlyPlaced /\ PriorityFirst
      /\ DueAhead
  BY DEF IInv, Typed
<1>1. /\ hook # "none" /\ phase' = "prio" /\ running' = Main
      /\ budget' = (IF hook = "budget" THEN poolBudget ELSE None) /\ elapsed' = 0
      /\ early' = ToSet(prio) /\ due' = ToSet(fixed)
      /\ UNCHANGED <<prio, normal, state, fixed, capacity, broken, task, index, end,
                     poolBudget, hook>>
  BY DEF FrameBegin, BeginProcess, queueVars, fixedVars
<1>2. QueuesTyped' /\ FixedTyped'
  BY <1>a, <1>1 DEF QueuesTyped, FixedTyped, ToSet
<1>3. HookTyped'
  <2>1. ToSet(prio) \subseteq PrioTasks
    BY <1>a DEF QueuesTyped, ToSet
  <2>2. MaxBudget \in Nat
    BY TaskPoolAssumption
  <2> QED
    BY <1>a, <1>1, <2>1, <2>2 DEF HookTyped, Phases
<1>4. InFrame' /\ EarlyPlaced' /\ PriorityFirst'
  BY <1>a, <1>1 DEF InFrame, EarlyPlaced, PriorityFirst
<1>5. DueAhead'
  BY <1>a, <1>1 DEF DueAhead, ToSet
<1> QED
  BY <1>2, <1>3, <1>4, <1>5 DEF IInv, Typed

(* The hook takes the first prioritized task.                              *)
LEMMA PrioTakeIInv == IInv /\ PrioTake => IInv'
<1> SUFFICES ASSUME IInv, PrioTake PROVE IInv'
  OBVIOUS
<1>a. QueuesTyped /\ FixedTyped /\ HookTyped /\ InFrame /\ EarlyPlaced /\ PriorityFirst
      /\ DueAhead
  BY DEF IInv, Typed
<1>1. PICK h : h = Head(prio)
  OBVIOUS
<1>2. /\ phase = "prio" /\ phase' = "prioRun"
      /\ prio # << >> /\ prio' = Tail(prio)
      /\ task' = [task EXCEPT ![Main] = h]
      /\ state' = [state EXCEPT ![h] = "taken"]
      /\ UNCHANGED <<normal, fixed, capacity, broken, running, budget, elapsed, index,
                     end, early, due, poolBudget, hook>>
  BY <1>1 DEF PrioTake, Prio!Dequeue, fixedVars
<1>3. /\ h \in PrioTasks /\ Tail(prio) \in Seq(PrioTasks)
      /\ ToSet(prio) = ToSet(prio') \cup {h}
  BY <1>a, <1>1, <1>2, TailElements DEF QueuesTyped
<1>4. h \in Tasks /\ h \notin NormalTasks
  BY <1>3, TaskPoolAssumption DEF Tasks
<1>5. state'[h] = "taken" /\ \A k \in Tasks : k # h => state'[k] = state[k]
  BY <1>a, <1>2, <1>4 DEF QueuesTyped
<1>6. task'[Main] = h
  BY <1>a, <1>2 DEF HookTyped
<1>7. QueuesTyped'
  BY <1>a, <1>2, <1>3, <1>4 DEF QueuesTyped
<1>8. FixedTyped' /\ DueAhead'
  BY <1>a, <1>2 DEF FixedTyped, DueAhead
<1>9. HookTyped'
  BY <1>a, <1>2, <1>4 DEF HookTyped, Phases
<1>10. InFrame' /\ PriorityFirst'
  BY <1>a, <1>2, <1>3, <1>6 DEF InFrame, PriorityFirst
<1>11. EarlyPlaced'
  <2>1. early \subseteq Tasks
    BY <1>a DEF HookTyped, Tasks
  <2> QED
    BY <1>a, <1>2, <1>3, <1>5, <1>6, <2>1 DEF EarlyPlaced
<1> QED
  BY <1>7, <1>8, <1>9, <1>10, <1>11 DEF IInv, Typed

(* It takes the first task.                                                *)
LEMMA NormalTakeIInv == IInv /\ NormalTake => IInv'
<1> SUFFICES ASSUME IInv, NormalTake PROVE IInv'
  OBVIOUS
<1>a. QueuesTyped /\ FixedTyped /\ HookTyped /\ InFrame /\ EarlyPlaced /\ PriorityFirst
      /\ DueAhead
  BY DEF IInv, Typed
<1>1. PICK h : h = Head(normal)
  OBVIOUS
<1>2. /\ phase = "normal" /\ phase' = "normalRun"
      /\ normal # << >> /\ normal' = Tail(normal)
      /\ task' = [task EXCEPT ![Main] = h]
      /\ state' = [state EXCEPT ![h] = "taken"]
      /\ UNCHANGED <<prio, fixed, capacity, broken, running, budget, elapsed, index,
                     end, early, due, poolBudget, hook>>
  BY <1>1 DEF NormalTake, Normal!Dequeue, fixedVars
<1>3. /\ h \in NormalTasks /\ Tail(normal) \in Seq(NormalTasks)
      /\ ToSet(normal) = ToSet(normal') \cup {h}
  BY <1>a, <1>1, <1>2, TailElements DEF QueuesTyped
<1>4. h \in Tasks /\ h \notin PrioTasks
  BY <1>3, TaskPoolAssumption DEF Tasks
<1>5. state'[h] = "taken" /\ \A k \in Tasks : k # h => state'[k] = state[k]
  BY <1>a, <1>2, <1>4 DEF QueuesTyped
<1>6. task'[Main] = h
  BY <1>a, <1>2 DEF HookTyped
<1>7. QueuesTyped'
  BY <1>a, <1>2, <1>3, <1>4 DEF QueuesTyped
<1>8. FixedTyped' /\ DueAhead'
  BY <1>a, <1>2 DEF FixedTyped, DueAhead
<1>9. HookTyped'
  BY <1>a, <1>2, <1>4 DEF HookTyped, Phases
<1>10. InFrame'
  BY <1>a, <1>2, <1>3, <1>6 DEF InFrame
<1>11. EarlyPlaced' /\ PriorityFirst'
  <2>1. early \subseteq PrioTasks
    BY <1>a DEF HookTyped
  <2> QED
    BY <1>a, <1>2, <1>4, <1>5, <2>1 DEF EarlyPlaced, PriorityFirst
<1> QED
  BY <1>7, <1>8, <1>9, <1>10, <1>11 DEF IInv, Typed

(* The time that has passed is kept within its bound.                      *)
LEMMA LaterTyped ==
  ASSUME HookTyped, NEW c \in Costs
  PROVE  Later(c) \in 0..(MaxBudget + 1)
<1>1. MaxBudget \in Nat /\ c \in Nat /\ elapsed \in 0..(MaxBudget + 1)
  BY TaskPoolAssumption DEF HookTyped
<1> QED
  BY <1>1 DEF Later

(* A prioritized task returned.                                            *)
LEMMA PrioReturnIInv == IInv /\ PrioReturn => IInv'
<1> SUFFICES ASSUME IInv, PrioReturn PROVE IInv'
  OBVIOUS
<1>a. QueuesTyped /\ FixedTyped /\ HookTyped /\ InFrame /\ EarlyPlaced /\ PriorityFirst
      /\ DueAhead
  BY DEF IInv, Typed
<1>1. PICK t : t = task[Main]
  OBVIOUS
<1>2. /\ phase = "prioRun"
      /\ state' = [state EXCEPT ![t] = IF @ = "taken" THEN "disposed" ELSE @]
      /\ UNCHANGED <<prio, normal, fixed, capacity, broken, running, task, index, end,
                     early, due, poolBudget, hook>>
  BY <1>1 DEF PrioReturn, Dispose, Round, NormalBegin, fixedVars
<1>3. /\ \/ phase' = "prio" /\ budget' = budget
         \/ /\ phase' = "normal" /\ budget # None
            /\ budget' = IF hook = "budget" THEN poolBudget ELSE None
      /\ elapsed' \in 0..(MaxBudget + 1)
  <2>1. PICK c \in Costs :
          IF budget # None /\ Later(c) > budget
            THEN NormalBegin
            ELSE /\ phase' = "prio"
                 /\ elapsed' = IF budget = None THEN 0 ELSE Later(c)
                 /\ UNCHANGED <<budget, index, end>>
    BY DEF PrioReturn, Round
  <2>2. Later(c) \in 0..(MaxBudget + 1) /\ 0 \in 0..(MaxBudget + 1)
    <3>1. Later(c) \in 0..(MaxBudget + 1)
      BY <1>a, LaterTyped
    <3>2. 0 \in 0..(MaxBudget + 1)
      BY TaskPoolAssumption
    <3> QED
      BY <3>1, <3>2
  <2>3. CASE budget # None /\ Later(c) > budget
    BY <2>1, <2>2, <2>3 DEF NormalBegin, BeginProcess
  <2>4. CASE ~ (budget # None /\ Later(c) > budget)
    BY <2>1, <2>2, <2>4
  <2> QED
    BY <2>3, <2>4
<1>4. t \in PrioTasks /\ t \in Tasks /\ t \notin NormalTasks
  BY <1>a, <1>1, <1>2, TaskPoolAssumption DEF InFrame, Tasks
<1>5. /\ state[t] = "taken" => state'[t] = "disposed"
      /\ state[t] # "taken" => state'[t] = state[t]
      /\ \A k \in Tasks : k # t => state'[k] = state[k]
  BY <1>a, <1>2, <1>4 DEF QueuesTyped
<1>6. QueuesTyped'
  BY <1>a, <1>2, <1>4 DEF QueuesTyped
<1>7. FixedTyped'
  BY <1>a, <1>2 DEF FixedTyped
<1>8. HookTyped'
  BY <1>a, <1>2, <1>3 DEF HookTyped, Phases
<1>9. InFrame' /\ DueAhead' /\ PriorityFirst'
  BY <1>a, <1>2, <1>3 DEF InFrame, DueAhead, PriorityFirst
<1>10. EarlyPlaced'
  <2>1. early \subseteq Tasks
    BY <1>a DEF HookTyped, Tasks
  <2> QED
    BY <1>a, <1>1, <1>2, <1>5, <2>1 DEF EarlyPlaced
<1> QED
  BY <1>6, <1>7, <1>8, <1>9, <1>10 DEF IInv, Typed

(* No prioritized task is left.                                            *)
LEMMA PrioEmptyIInv == IInv /\ PrioEmpty => IInv'
<1> SUFFICES ASSUME IInv, PrioEmpty PROVE IInv'
  OBVIOUS
<1>a. QueuesTyped /\ FixedTyped /\ HookTyped /\ InFrame /\ EarlyPlaced /\ PriorityFirst
      /\ DueAhead
  BY DEF IInv, Typed
<1>1. /\ phase = "prio" /\ prio = << >> /\ phase' = "normal"
      /\ budget' = (IF hook = "budget" THEN poolBudget ELSE None) /\ elapsed' = 0
      /\ UNCHANGED <<prio, normal, state, fixed, capacity, broken, running, task, index,
                     end, early, due, poolBudget, hook>>
  BY DEF PrioEmpty, NormalBegin, BeginProcess, queueVars, fixedVars
<1>2. QueuesTyped' /\ FixedTyped'
  BY <1>a, <1>1 DEF QueuesTyped, FixedTyped
<1>3. HookTyped'
  <2>1. MaxBudget \in Nat
    BY TaskPoolAssumption
  <2> QED
    BY <1>a, <1>1, <2>1 DEF HookTyped, Phases
<1>4. InFrame' /\ EarlyPlaced' /\ DueAhead'
  BY <1>a, <1>1 DEF InFrame, EarlyPlaced, DueAhead
<1>5. PriorityFirst'
  BY <1>a, <1>1 DEF EarlyPlaced, PriorityFirst, ToSet
<1> QED
  BY <1>2, <1>3, <1>4, <1>5 DEF IInv, Typed

(* A task returned, and the budget is looked at.                           *)
LEMMA NormalReturnIInv == IInv /\ NormalReturn => IInv'
<1> SUFFICES ASSUME IInv, NormalReturn PROVE IInv'
  OBVIOUS
<1>a. QueuesTyped /\ FixedTyped /\ HookTyped /\ InFrame /\ EarlyPlaced /\ PriorityFirst
      /\ DueAhead
  BY DEF IInv, Typed
<1>1. PICK t : t = task[Main]
  OBVIOUS
<1>2. /\ phase = "normalRun"
      /\ state' = [state EXCEPT ![t] = IF @ = "taken" THEN "disposed" ELSE @]
      /\ UNCHANGED <<prio, normal, fixed, capacity, broken, running, task, early, due,
                     poolBudget, hook>>
  BY <1>1 DEF NormalReturn, Dispose, fixedVars
<1>3. /\ \/ phase' = "normal" /\ budget' = budget /\ index' = index /\ end' = end
         \/ phase' = "fixed" /\ budget' = None /\ index' = 1 /\ end' = Len(fixed)
      /\ elapsed' \in 0..(MaxBudget + 1)
  <2>1. PICK c \in Costs :
          IF budget # None /\ Later(c) > budget
            THEN FixedBegin
            ELSE /\ phase' = "normal"
                 /\ elapsed' = IF budget = None THEN 0 ELSE Later(c)
                 /\ UNCHANGED <<budget, index, end>>
    BY DEF NormalReturn, Round
  <2>2. Later(c) \in 0..(MaxBudget + 1) /\ 0 \in 0..(MaxBudget + 1)
    <3>1. Later(c) \in 0..(MaxBudget + 1)
      BY <1>a, LaterTyped
    <3>2. 0 \in 0..(MaxBudget + 1)
      BY TaskPoolAssumption
    <3> QED
      BY <3>1, <3>2
  <2>3. CASE budget # None /\ Later(c) > budget
    BY <2>1, <2>2, <2>3 DEF FixedBegin
  <2>4. CASE ~ (budget # None /\ Later(c) > budget)
    BY <2>1, <2>2, <2>4
  <2> QED
    BY <2>3, <2>4
<1>4. t \in NormalTasks /\ t \in Tasks /\ t \notin PrioTasks /\ PrioTasks \subseteq Tasks
  BY <1>a, <1>1, <1>2, TaskPoolAssumption DEF InFrame, Tasks
<1>5. /\ state[t] = "taken" => state'[t] = "disposed"
      /\ state[t] # "taken" => state'[t] = state[t]
      /\ \A k \in Tasks : k # t => state'[k] = state[k]
  BY <1>a, <1>2, <1>4 DEF QueuesTyped
<1>6. QueuesTyped'
  BY <1>a, <1>2, <1>4 DEF QueuesTyped
<1>7. Len(fixed) \in Nat /\ DOMAIN fixed = 1..Len(fixed)
  BY <1>a DEF FixedTyped
<1>8. FixedTyped'
  BY <1>a, <1>2, <1>3, <1>7 DEF FixedTyped
<1>9. HookTyped'
  BY <1>a, <1>2, <1>3 DEF HookTyped, Phases
<1>10. InFrame'
  BY <1>a, <1>2, <1>3 DEF InFrame
<1>11. DueAhead'
  BY <1>a, <1>2, <1>3, <1>7 DEF DueAhead
<1>12. EarlyPlaced' /\ PriorityFirst'
  <2>1. early \subseteq PrioTasks
    BY <1>a DEF HookTyped
  <2>2. \A k \in early : k # t /\ state'[k] = state[k]
    BY <1>4, <1>5, <2>1
  <2> QED
    BY <1>a, <1>2, <1>3, <2>2 DEF EarlyPlaced, PriorityFirst
<1> QED
  BY <1>6, <1>8, <1>9, <1>10, <1>11, <1>12 DEF IInv, Typed

(* No task is left.                                                        *)
LEMMA NormalEmptyIInv == IInv /\ NormalEmpty => IInv'
<1> SUFFICES ASSUME IInv, NormalEmpty PROVE IInv'
  OBVIOUS
<1>a. QueuesTyped /\ FixedTyped /\ HookTyped /\ InFrame /\ EarlyPlaced /\ PriorityFirst
      /\ DueAhead
  BY DEF IInv, Typed
<1>1. /\ phase = "normal" /\ phase' = "fixed" /\ index' = 1 /\ end' = Len(fixed)
      /\ budget' = None /\ elapsed' = 0
      /\ UNCHANGED <<prio, normal, state, fixed, capacity, broken, running, task, early,
                     due, poolBudget, hook>>
  BY DEF NormalEmpty, FixedBegin, queueVars, fixedVars
<1>2. Len(fixed) \in Nat /\ DOMAIN fixed = 1..Len(fixed)
  BY <1>a DEF FixedTyped
<1>3. QueuesTyped' /\ FixedTyped'
  BY <1>a, <1>1, <1>2 DEF QueuesTyped, FixedTyped
<1>4. HookTyped'
  <2>1. MaxBudget \in Nat
    BY TaskPoolAssumption
  <2> QED
    BY <1>a, <1>1, <2>1 DEF HookTyped, Phases
<1>5. DueAhead'
  BY <1>a, <1>1, <1>2 DEF DueAhead
<1>6. InFrame' /\ EarlyPlaced' /\ PriorityFirst'
  BY <1>a, <1>1 DEF InFrame, EarlyPlaced, PriorityFirst
<1> QED
  BY <1>3, <1>4, <1>5, <1>6 DEF IInv, Typed

(* The next fixed task is run.                                             *)
LEMMA FixedRunIInv == IInv /\ FixedRun => IInv'
<1> SUFFICES ASSUME IInv, FixedRun PROVE IInv'
  OBVIOUS
<1>a. QueuesTyped /\ FixedTyped /\ HookTyped /\ InFrame /\ EarlyPlaced /\ PriorityFirst
      /\ DueAhead
  BY DEF IInv, Typed
<1>1. /\ phase = "fixed" /\ index <= end /\ phase' = "fixedRun"
      /\ due' = due \ {fixed[index]}
      /\ UNCHANGED <<prio, normal, state, fixed, capacity, broken, running, task, budget,
                     elapsed, index, end, early, poolBudget, hook>>
  BY DEF FixedRun, queueVars, fixedVars
<1>2. QueuesTyped' /\ FixedTyped' /\ HookTyped'
  BY <1>a, <1>1 DEF QueuesTyped, FixedTyped, HookTyped, Phases
<1>3. InFrame' /\ EarlyPlaced' /\ PriorityFirst'
  BY <1>a, <1>1 DEF InFrame, EarlyPlaced, PriorityFirst
<1>4. DueAhead'
  <2> SUFFICES ASSUME NEW f \in due'
               PROVE  \E i \in DOMAIN fixed : fixed[i] = f /\ i \in (index + 1)..end
    BY <1>1 DEF DueAhead
  <2>1. PICK i \in DOMAIN fixed : fixed[i] = f /\ i \in index..end
    BY <1>a, <1>1 DEF DueAhead
  <2>2. i # index
    BY <1>1, <2>1
  <2>3. index \in Nat /\ end \in Nat /\ Len(fixed) \in Nat
    BY <1>a DEF FixedTyped
  <2>4. i \in (index + 1)..end
    BY <2>1, <2>2, <2>3
  <2> QED
    BY <2>1, <2>4
<1> QED
  BY <1>2, <1>3, <1>4 DEF IInv, Typed

(* It returned.                                                            *)
LEMMA FixedReturnIInv == IInv /\ FixedReturn => IInv'
<1> SUFFICES ASSUME IInv, FixedReturn PROVE IInv'
  OBVIOUS
<1>a. QueuesTyped /\ FixedTyped /\ HookTyped /\ InFrame /\ EarlyPlaced /\ PriorityFirst
      /\ DueAhead
  BY DEF IInv, Typed
<1>1. /\ phase = "fixedRun" /\ index' = index + 1 /\ phase' = "fixed"
      /\ UNCHANGED <<prio, normal, state, fixed, capacity, broken, running, task, budget,
                     elapsed, end, early, due, poolBudget, hook>>
  BY DEF FixedReturn, queueVars, fixedVars
<1>2. FixedTyped'
  <2>1. index <= end
    BY <1>a, <1>1 DEF InFrame
  <2>2. Len(fixed) \in Nat
    BY <1>a DEF FixedTyped
  <2> QED
    BY <1>a, <1>1, <2>1, <2>2 DEF FixedTyped
<1>3. QueuesTyped' /\ HookTyped'
  BY <1>a, <1>1 DEF QueuesTyped, HookTyped, Phases
<1>4. InFrame' /\ EarlyPlaced' /\ PriorityFirst'
  BY <1>a, <1>1 DEF InFrame, EarlyPlaced, PriorityFirst
<1>5. DueAhead'
  BY <1>a, <1>1 DEF DueAhead
<1> QED
  BY <1>2, <1>3, <1>4, <1>5 DEF IInv, Typed

(* When the iteration has come to its end nothing is due any more.         *)
LEMMA NoneDue == IInv /\ FrameEnd => due = {}
<1> SUFFICES ASSUME IInv, FrameEnd, NEW f \in due PROVE FALSE
  OBVIOUS
<1>1. PICK i \in DOMAIN fixed : i \in index..end
  BY DEF IInv, DueAhead, FrameEnd
<1>2. index \in Nat /\ end \in Nat /\ index > end
  BY DEF IInv, Typed, FixedTyped, FrameEnd
<1> QED
  BY <1>1, <1>2

(* The frame ends.                                                         *)
LEMMA FrameEndIInv == IInv /\ FrameEnd => IInv'
<1> SUFFICES ASSUME IInv, FrameEnd PROVE IInv'
  OBVIOUS
<1>a. QueuesTyped /\ FixedTyped /\ HookTyped /\ InFrame /\ EarlyPlaced /\ PriorityFirst
      /\ DueAhead
  BY DEF IInv, Typed
<1>1. /\ running' = None /\ phase' = "out" /\ index' = 0 /\ end' = 0
      /\ early' = {} /\ due' = {}
      /\ UNCHANGED <<prio, normal, state, fixed, capacity, broken, task, budget, elapsed,
                     poolBudget, hook>>
  BY DEF FrameEnd, queueVars, fixedVars
<1>2. FixedTyped'
  <2>1. Len(fixed) \in Nat
    BY <1>a DEF FixedTyped
  <2> QED
    BY <1>a, <1>1, <2>1 DEF FixedTyped
<1>3. QueuesTyped' /\ HookTyped'
  BY <1>a, <1>1 DEF QueuesTyped, HookTyped, Phases
<1>4. InFrame' /\ EarlyPlaced' /\ PriorityFirst' /\ DueAhead'
  BY <1>a, <1>1 DEF InFrame, EarlyPlaced, PriorityFirst, DueAhead
<1> QED
  BY <1>2, <1>3, <1>4 DEF IInv, Typed

-----------------------------------------------------------------------------
(* The invariant and what it gives                                         *)

(* A step that changes nothing keeps the invariant.                        *)
LEMMA StutterIInv == IInv /\ UNCHANGED vars => IInv'
<1> SUFFICES ASSUME IInv, UNCHANGED vars PROVE IInv'
  OBVIOUS
<1>1. UNCHANGED <<prio, normal, state, fixed, capacity, broken, running, phase, task,
                  budget, elapsed, index, end, early, due, poolBudget, hook>>
  BY DEF vars, queueVars, fixedVars, frameVars
<1>2. Typed'
  BY <1>1 DEF IInv, Typed, QueuesTyped, FixedTyped, HookTyped
<1>3. InFrame' /\ EarlyPlaced' /\ PriorityFirst' /\ DueAhead'
  BY <1>1 DEF IInv, InFrame, EarlyPlaced, PriorityFirst, DueAhead
<1> QED
  BY <1>2, <1>3 DEF IInv

(* So does a task that adds one.                                           *)
LEMMA SelfAddIInv == IInv /\ SelfAdd => IInv'
<1> SUFFICES ASSUME IInv, SelfAdd PROVE IInv'
  OBVIOUS
<1>1. PICK t : t = task[Main]
  OBVIOUS
<1>2. /\ t \in Static /\ Store(t)
      /\ UNCHANGED <<fixedVars, frameVars, poolBudget, hook>>
  BY <1>1 DEF SelfAdd
<1>3. t \in Tasks
  BY <1>2, TaskPoolAssumption
<1> QED
  BY <1>2, <1>3, StoreIInv

(* So do the calls of the threads.                                         *)
LEMMA CallsIInv == IInv /\ Calls => IInv'
<1> SUFFICES ASSUME IInv, Calls PROVE IInv'
  OBVIOUS
<1>1. ASSUME NEW k \in Tasks, AddTask(k) PROVE IInv'
  BY <1>1, StoreIInv DEF AddTask
<1>2. ASSUME NEW f \in FixedTasks, AddTaskFixed(f) PROVE IInv'
  BY <1>2, AddTaskFixedIInv
<1>3. CASE \/ \E b \in 0..MaxBudget : SetBudget(b)
           \/ Install
  BY <1>3, SettingIInv
<1> QED
  BY <1>1, <1>2, <1>3, SelfAddIInv DEF Calls

(* Every step keeps the inductive invariant.                               *)
LEMMA NextIInv == IInv /\ [Next]_vars => IInv'
  BY CallsIInv, FrameBeginIInv, PrioTakeIInv, PrioReturnIInv, PrioEmptyIInv,
     NormalTakeIInv, NormalReturnIInv, NormalEmptyIInv, FixedRunIInv, FixedReturnIInv,
     FrameEndIInv, StutterIInv DEF Next, HookStep

(* Hence it holds always.                                                  *)
LEMMA AlwaysIInv == Spec => []IInv
  BY InitIInv, NextIInv, PTL DEF Spec

(* A behaviour of the pool is one of its frames and one of its actor tasks *)
(* with the other standing still.                                          *)
LEMMA PoolParts == PoolSpec => Spec /\ Actor!Spec
<1>1. PoolInit => Init /\ Actor!Init
  BY DEF PoolInit
<1>2. [PoolNext]_poolVars => [Next]_vars
  BY DEF PoolNext, FramesStep, ActorStep, poolVars
<1>3. UNCHANGED actorVars => UNCHANGED Actor!vars
  BY DEF actorVars, Actor!vars, Actor!queueVars, Actor!runVars, Actor!hostVars
<1>4. [PoolNext]_poolVars => [Actor!Next]_(Actor!vars)
  BY <1>3 DEF PoolNext, FramesStep, ActorStep, poolVars
<1> QED
  BY <1>1, <1>2, <1>4, PTL DEF PoolSpec, Spec, Actor!Spec

(* Whatever the other threads add and however long tasks take, without a   *)
(* budget no normal task of a frame runs before every priority task that   *)
(* was there when the frame began has run (ITaskPool.cpp:163-193).         *)
THEOREM TaskPoolSafe == PoolSpec => []Safe
<1>1. IInv => Safe
  BY TypedIsTypeOK DEF IInv, Safe
<1> QED
  BY <1>1, AlwaysIInv, PoolParts, PTL

(* A frame runs every fixed task that was registered when it began: the    *)
(* time that the queues take keeps it from none, and neither does one that *)
(* is registered meanwhile.                                                *)
THEOREM FixedTasksRun == PoolSpec => FixedEveryFrame
<1>1. IInv /\ [Next]_vars => [phase # "out" /\ phase' = "out" => due = {}]_vars
  <2> SUFFICES ASSUME IInv, [Next]_vars, phase # "out", phase' = "out" PROVE due = {}
    OBVIOUS
  <2>1. CASE FrameEnd
    BY <2>1, NoneDue
  <2>2. CASE Calls
    <3>1. phase' = phase
      BY <2>2 DEF Calls, AddTask, AddTaskFixed, SetBudget, Install, SelfAdd,
                  frameVars
    <3> QED
      BY <3>1
  <2>3. CASE \/ FrameBegin \/ PrioTake \/ PrioReturn \/ PrioEmpty \/ NormalTake
             \/ NormalReturn \/ NormalEmpty \/ FixedRun \/ FixedReturn
    <3>1. phase' # "out"
      BY <2>3 DEF FrameBegin, PrioTake, PrioReturn, PrioEmpty, NormalTake, NormalReturn,
                  NormalEmpty, FixedRun, FixedReturn, Round, NormalBegin, FixedBegin
    <3> QED
      BY <3>1
  <2>4. CASE UNCHANGED vars
    BY <2>4 DEF vars, frameVars
  <2> QED
    BY <2>1, <2>2, <2>3, <2>4 DEF Next, HookStep
<1>2. Spec => FixedEveryFrame
  BY <1>1, AlwaysIInv, PTL DEF Spec, FixedEveryFrame
<1> QED
  BY <1>2, PoolParts, PTL

-----------------------------------------------------------------------------
(* The actor tasks                                                         *)

(* A task that is stored has a handle, and one that is run was taken and   *)
(* is not stored again.                                                    *)
TakenOf == /\ \A i \in DOMAIN actorQueue : handle[actorQueue[i]] \in Handles
           /\ actorPhase # "out" => /\ actorTask[Main] \in ActorTasks
                                    /\ actorState[actorTask[Main]] = "taken"
                                    /\ handle[actorTask[Main]] \in Handles

(* A handle leads to nobody who was freed, and to the one a task is meant  *)
(* for.                                                                    *)
LeadsOf == /\ \A h \in Handles : leads[h] # None => condition[leads[h]] # "freed"
           /\ \A k \in ActorTasks :
                meant[k] # None => handle[k] \in Handles /\ leads[handle[k]] = meant[k]

(* From the lookup on Run refers to the one its handle leads to.           *)
HeldOf == actorPhase \in {"validate", "function"} =>
            held # None /\ leads[handle[actorTask[Main]]] = held

(* What the handle leads to now is among what it led to in the run.        *)
BeenOf == actorPhase \in {"lookup", "validate"} =>
            Actor!Usable(handle[actorTask[Main]]) \in been

ActorInv == Actor!TypeOK /\ TakenOf /\ LeadsOf /\ HeldOf /\ BeenOf /\ Actor!Decided

(* No task has been queued.                                                *)
LEMMA ActorBegins == Actor!Init => ActorInv
<1> SUFFICES ASSUME Actor!Init PROVE ActorInv
  OBVIOUS
<1>1. Actor!TypeOK
  BY DEF Actor!Init, Actor!TypeOK, Actor!Phases
<1>2. TakenOf /\ LeadsOf /\ HeldOf /\ BeenOf /\ Actor!Decided
  BY DEF Actor!Init, TakenOf, LeadsOf, HeldOf, BeenOf, Actor!Decided
<1> QED
  BY <1>1, <1>2 DEF ActorInv

(* The host does what it wants, but it frees nobody who is referred to.    *)
LEMMA ActorHost == ActorInv /\ Actor!Host => ActorInv'
<1> SUFFICES ASSUME ActorInv, Actor!Host PROVE ActorInv'
  OBVIOUS
<1>a. Actor!TypeOK /\ TakenOf /\ LeadsOf /\ HeldOf /\ BeenOf /\ Actor!Decided
  BY DEF ActorInv
<1>1. /\ UNCHANGED <<actorQueue, actorTask, actorState, caller, handle, actorPhase, held>>
      /\ Actor!Remember
  BY DEF Actor!Host, Actor!ActorChanges, Actor!ActorFreed, Actor!HandleGiven,
         Actor!queueVars, Actor!runVars
<1>2. TakenOf'
  BY <1>a, <1>1 DEF TakenOf
<1>3. been \subseteq been' /\ been' \subseteq BOOLEAN /\ BeenOf'
  <2>1. Actor!Usable(handle[actorTask[Main]])' \in BOOLEAN
    BY DEF Actor!Usable, Actor!IsREFRValid
  <2> QED
    BY <1>a, <1>1, <2>1 DEF Actor!Remember, BeenOf, Actor!TypeOK
<1>4. Actor!Decided'
  BY <1>a, <1>1, <1>3 DEF Actor!Decided
<1>5. ASSUME NEW a \in Actors, Actor!ActorChanges(a)
      PROVE  Actor!TypeOK' /\ LeadsOf' /\ HeldOf'
  <2>1. UNCHANGED <<leads, meant>> /\ condition[a] # "freed"
        /\ condition' = [condition EXCEPT ![a] = IF @ = "loaded" THEN "unloaded" ELSE "loaded"]
    BY <1>5 DEF Actor!ActorChanges
  <2>2. /\ condition' \in [Actors -> {"loaded", "unloaded", "freed"}]
        /\ \A b \in Actors : condition[b] # "freed" => condition'[b] # "freed"
    BY <1>a, <2>1 DEF Actor!TypeOK
  <2>3. \A h \in Handles : leads[h] # None => leads[h] \in Actors
    BY <1>a DEF Actor!TypeOK
  <2> QED
    BY <1>a, <1>1, <1>3, <2>1, <2>2, <2>3 DEF Actor!TypeOK, LeadsOf, HeldOf
<1>6. ASSUME NEW a \in Actors, Actor!ActorFreed(a)
      PROVE  Actor!TypeOK' /\ LeadsOf' /\ HeldOf'
  <2>1. /\ condition' = [condition EXCEPT ![a] = "freed"]
        /\ leads' = [h \in Handles |-> IF leads[h] = a THEN None ELSE leads[h]]
        /\ meant' = [k \in ActorTasks |-> IF meant[k] = a THEN None ELSE meant[k]]
        /\ a # held
    BY <1>6 DEF Actor!ActorFreed, Actor!Referenced
  <2>2. Actor!TypeOK'
    BY <1>a, <1>1, <1>3, <2>1 DEF Actor!TypeOK
  <2>3. ASSUME NEW h \in Handles, leads'[h] # None PROVE condition'[leads'[h]] # "freed"
    <3>1. leads[h] # a /\ leads'[h] = leads[h] /\ leads[h] # None
      BY <2>1, <2>3
    <3>2. leads[h] \in Actors /\ condition[leads[h]] # "freed"
      BY <1>a, <3>1 DEF Actor!TypeOK, LeadsOf
    <3> QED
      BY <1>a, <2>1, <3>1, <3>2 DEF Actor!TypeOK
  <2>4. ASSUME NEW k \in ActorTasks, meant'[k] # None
        PROVE  handle[k] \in Handles /\ leads'[handle[k]] = meant'[k]
    <3>1. meant[k] # a /\ meant'[k] = meant[k] /\ meant[k] # None
      BY <2>1, <2>4
    <3>2. handle[k] \in Handles /\ leads[handle[k]] = meant[k]
      BY <1>a, <3>1 DEF LeadsOf
    <3> QED
      BY <2>1, <3>1, <3>2
  <2>5. HeldOf'
    BY <1>a, <1>1, <2>1 DEF HeldOf, TakenOf
  <2> QED
    BY <1>1, <2>2, <2>3, <2>4, <2>5 DEF LeadsOf
<1>7. ASSUME NEW a \in Actors, NEW h \in Handles, Actor!HandleGiven(h, a)
      PROVE  Actor!TypeOK' /\ LeadsOf' /\ HeldOf'
  <2>1. /\ leads[h] = None /\ condition[a] # "freed"
        /\ leads' = [leads EXCEPT ![h] = a]
        /\ UNCHANGED <<condition, meant>>
    BY <1>7 DEF Actor!HandleGiven
  <2>2. Actor!TypeOK'
    BY <1>a, <1>1, <1>3, <2>1 DEF Actor!TypeOK
  <2>3. leads'[h] = a /\ \A g \in Handles : g # h => leads'[g] = leads[g]
    BY <1>a, <2>1 DEF Actor!TypeOK
  <2>4. LeadsOf'
    BY <1>a, <1>1, <2>1, <2>3 DEF LeadsOf
  <2>5. HeldOf'
    BY <1>a, <1>1, <2>1, <2>3 DEF HeldOf, TakenOf
  <2> QED
    BY <2>2, <2>4, <2>5
<1>8. Actor!TypeOK' /\ LeadsOf' /\ HeldOf'
  BY <1>5, <1>6, <1>7 DEF Actor!Host
<1> QED
  BY <1>2, <1>3, <1>4, <1>8 DEF ActorInv

(* A task is stored with a handle.                                         *)
LEMMA ActorStored ==
  ASSUME ActorInv, NEW k \in ActorTasks, NEW h \in Handles, Actor!Store(k, h),
         actorState[k] # "taken",
         caller' \in [ActorTasks -> Actors \cup {None}]
  PROVE  ActorInv'
<1>a. Actor!TypeOK /\ TakenOf /\ LeadsOf /\ HeldOf /\ BeenOf /\ Actor!Decided
  BY DEF ActorInv
<1>1. /\ actorQueue' = Append(actorQueue, k)
      /\ actorState' = [actorState EXCEPT ![k] = "stored"]
      /\ handle' = [handle EXCEPT ![k] = h]
      /\ meant' = [meant EXCEPT ![k] = leads[h]]
      /\ UNCHANGED <<actorTask, actorPhase, held, condition, leads, been>>
  BY DEF Actor!Store, Actor!Fifo!Enqueue, Actor!runVars, Actor!hostVars
<1>2. Actor!TypeOK'
  BY <1>a, <1>1 DEF Actor!TypeOK
<1>3. /\ handle'[k] = h /\ meant'[k] = leads[h]
      /\ \A j \in ActorTasks : j # k => handle'[j] = handle[j] /\ meant'[j] = meant[j]
                                        /\ actorState'[j] = actorState[j]
  BY <1>a, <1>1 DEF Actor!TypeOK
<1>4. \A i \in DOMAIN actorQueue' : handle'[actorQueue'[i]] \in Handles
  <2>1. actorQueue \in Seq(ActorTasks)
    BY <1>a DEF Actor!TypeOK
  <2>2. ASSUME NEW i \in DOMAIN actorQueue'
        PROVE  \/ actorQueue'[i] = k
               \/ i \in DOMAIN actorQueue /\ actorQueue'[i] = actorQueue[i]
                  /\ actorQueue[i] \in ActorTasks
    BY <1>1, <2>1, <2>2
  <2> QED
    BY <1>a, <1>3, <2>2 DEF TakenOf
<1>5. actorPhase # "out" => actorTask[Main] # k /\ actorTask[Main] \in ActorTasks
  BY <1>a DEF TakenOf
<1>6. TakenOf'
  BY <1>a, <1>1, <1>3, <1>4, <1>5 DEF TakenOf
<1>7. LeadsOf'
  BY <1>a, <1>1, <1>3 DEF LeadsOf
<1>8. HeldOf'
  BY <1>a, <1>1, <1>3, <1>5 DEF HeldOf
<1>9. BeenOf' /\ Actor!Decided'
  <2>1. actorPhase # "out" => handle'[actorTask[Main]] = handle[actorTask[Main]]
    BY <1>3, <1>5
  <2> QED
    BY <1>a, <1>1, <2>1 DEF BeenOf, Actor!Usable, Actor!IsREFRValid, Actor!Decided
<1> QED
  BY <1>2, <1>6, <1>7, <1>8, <1>9 DEF ActorInv

(* QueueActorTask looks at the actor, and stores a task or none.           *)
LEMMA ActorQueueing == ActorInv /\ Actor!Queueing => ActorInv'
<1> SUFFICES ASSUME ActorInv, Actor!Queueing PROVE ActorInv'
  OBVIOUS
<1>a. Actor!TypeOK /\ TakenOf /\ LeadsOf /\ HeldOf /\ BeenOf /\ Actor!Decided
  BY DEF ActorInv
<1>1. PICK k \in ActorTasks : \/ \E a \in Actors : Actor!QueueCheck(k, a)
                              \/ Actor!QueueActorTask(k) \/ Actor!QueueRefused(k)
                              \/ \E h \in Handles : Actor!QueueActorHandle(k, h)
  BY DEF Actor!Queueing
<1>2. CASE (\E a \in Actors : Actor!QueueCheck(k, a)) \/ Actor!QueueRefused(k)
  <2>1. /\ actorState[k] # "taken"
        /\ \/ actorState' = [actorState EXCEPT ![k] = "checked"]
           \/ actorState' = [actorState EXCEPT ![k] = "new"]
        /\ \E a \in Actors \cup {None} : caller' = [caller EXCEPT ![k] = a]
        /\ UNCHANGED <<actorQueue, actorTask, handle, actorPhase, held, condition, leads,
                       been, meant>>
    BY <1>2 DEF Actor!QueueCheck, Actor!QueueRefused, Actor!runVars, Actor!hostVars
  <2>2. Actor!TypeOK'
    BY <1>a, <2>1 DEF Actor!TypeOK
  <2>3. \A j \in ActorTasks : actorState[j] = "taken" => actorState'[j] = "taken"
    BY <1>a, <2>1 DEF Actor!TypeOK
  <2>4. TakenOf'
    BY <1>a, <2>1, <2>3 DEF TakenOf
  <2>5. LeadsOf' /\ HeldOf'
    BY <1>a, <2>1 DEF LeadsOf, HeldOf
  <2>6. BeenOf' /\ Actor!Decided'
    BY <1>a, <2>1 DEF BeenOf, Actor!Usable, Actor!IsREFRValid, Actor!Decided
  <2> QED
    BY <2>2, <2>4, <2>5, <2>6 DEF ActorInv
<1>3. CASE Actor!QueueActorTask(k)
  <2>1. PICK h \in Handles : Actor!Store(k, h)
    BY <1>3 DEF Actor!QueueActorTask
  <2>2. actorState[k] # "taken" /\ caller' \in [ActorTasks -> Actors \cup {None}]
    BY <1>a, <1>3 DEF Actor!QueueActorTask, Actor!TypeOK
  <2> QED
    BY <2>1, <2>2, ActorStored
<1>4. CASE \E h \in Handles : Actor!QueueActorHandle(k, h)
  <2>1. PICK h \in Handles : Actor!Store(k, h)
    BY <1>4 DEF Actor!QueueActorHandle
  <2>2. actorState[k] # "taken" /\ caller' \in [ActorTasks -> Actors \cup {None}]
    BY <1>a, <1>4 DEF Actor!QueueActorHandle, Actor!TypeOK
  <2> QED
    BY <2>1, <2>2, ActorStored
<1> QED
  BY <1>1, <1>2, <1>3, <1>4

(* The main loop takes a task, and Run looks up its actor, looks at it and *)
(* returns.                                                                *)
LEMMA ActorRun == ActorInv /\ Actor!Run => ActorInv'
<1> SUFFICES ASSUME ActorInv, Actor!Run PROVE ActorInv'
  OBVIOUS
<1>a. Actor!TypeOK /\ TakenOf /\ LeadsOf /\ HeldOf /\ BeenOf /\ Actor!Decided
  BY DEF ActorInv
<1>1. CASE Actor!Take
  <2>1. PICK k : k = Head(actorQueue)
    OBVIOUS
  <2>2. /\ actorQueue # << >> /\ actorQueue' = Tail(actorQueue)
        /\ actorTask' = [actorTask EXCEPT ![Main] = k]
        /\ actorState' = [actorState EXCEPT ![k] = "taken"]
        /\ actorPhase' = "lookup" /\ been' = {Actor!Usable(handle[k])}
        /\ UNCHANGED <<caller, handle, held, condition, leads, meant>>
    BY <1>1, <2>1 DEF Actor!Take, Actor!Fifo!Dequeue, Actor!hostVars
  <2>3. actorQueue \in Seq(ActorTasks)
    BY <1>a DEF Actor!TypeOK
  <2>4. /\ k \in ActorTasks /\ handle[k] \in Handles
        /\ actorQueue' \in Seq(ActorTasks)
        /\ \A i \in DOMAIN actorQueue' : handle[actorQueue'[i]] \in Handles
    <3>1. /\ Len(actorQueue) \in Nat \ {0} /\ DOMAIN actorQueue = 1..Len(actorQueue)
          /\ DOMAIN Tail(actorQueue) = 1..Len(actorQueue) - 1
          /\ \A i \in 1..Len(actorQueue) - 1 : Tail(actorQueue)[i] = actorQueue[i + 1]
          /\ Head(actorQueue) = actorQueue[1]
          /\ Tail(actorQueue) \in Seq(ActorTasks)
      BY <2>2, <2>3, HeadTailProperties
    <3>2. 1 \in DOMAIN actorQueue
          /\ \A i \in 1..Len(actorQueue) - 1 : i + 1 \in DOMAIN actorQueue
      BY <3>1
    <3> QED
      BY <1>a, <2>1, <2>2, <2>3, <3>1, <3>2 DEF TakenOf
  <2>5. actorTask'[Main] = k /\ actorState'[k] = "taken"
    BY <1>a, <2>2, <2>4 DEF Actor!TypeOK
  <2>6. Actor!Usable(handle[k]) \in BOOLEAN
    BY DEF Actor!Usable, Actor!IsREFRValid
  <2>7. Actor!TypeOK'
    BY <1>a, <2>2, <2>4, <2>6 DEF Actor!TypeOK, Actor!Phases
  <2>8. TakenOf' /\ LeadsOf' /\ HeldOf' /\ Actor!Decided'
    BY <1>a, <2>2, <2>4, <2>5 DEF TakenOf, LeadsOf, HeldOf, Actor!Decided
  <2>9. BeenOf'
    BY <2>2, <2>5 DEF BeenOf, Actor!Usable, Actor!IsREFRValid
  <2> QED
    BY <2>7, <2>8, <2>9 DEF ActorInv
<1>2. CASE Actor!Lookup
  <2>1. /\ actorPhase = "lookup"
        /\ held' = leads[handle[actorTask[Main]]]
        /\ actorPhase' = IF held' = None THEN "leave" ELSE "validate"
        /\ UNCHANGED <<actorQueue, actorTask, actorState, caller, handle, condition, leads,
                       been, meant>>
    BY <1>2 DEF Actor!Lookup, Actor!queueVars, Actor!hostVars
  <2>2. held' \in Actors \cup {None}
    BY <1>a, <2>1 DEF Actor!TypeOK, TakenOf
  <2>3. Actor!TypeOK'
    BY <1>a, <2>1, <2>2 DEF Actor!TypeOK, Actor!Phases
  <2>4. TakenOf' /\ LeadsOf' /\ HeldOf'
    BY <1>a, <2>1 DEF TakenOf, LeadsOf, HeldOf
  <2>5. BeenOf'
    BY <1>a, <2>1 DEF BeenOf, Actor!Usable, Actor!IsREFRValid
  <2>6. Actor!Decided'
    BY <1>a, <2>1 DEF BeenOf, Actor!Usable, Actor!IsREFRValid, Actor!Decided
  <2> QED
    BY <2>3, <2>4, <2>5, <2>6 DEF ActorInv
<1>3. CASE Actor!Validate
  <2>1. /\ actorPhase = "validate"
        /\ actorPhase' = IF Actor!IsREFRValid(held) THEN "function" ELSE "leave"
        /\ UNCHANGED <<actorQueue, actorTask, actorState, caller, handle, held, condition,
                       leads, been, meant>>
    BY <1>3 DEF Actor!Validate, Actor!queueVars, Actor!hostVars
  <2>2. Actor!TypeOK'
    BY <1>a, <2>1 DEF Actor!TypeOK, Actor!Phases
  <2>3. TakenOf' /\ LeadsOf' /\ HeldOf' /\ BeenOf'
    BY <1>a, <2>1 DEF TakenOf, LeadsOf, HeldOf, BeenOf
  <2>4. Actor!IsREFRValid(held) \in been
    BY <1>a, <2>1 DEF HeldOf, BeenOf, Actor!Usable
  <2>5. Actor!Decided'
    BY <2>1, <2>4 DEF Actor!Decided, Actor!IsREFRValid
  <2> QED
    BY <2>2, <2>3, <2>5 DEF ActorInv
<1>4. CASE Actor!Return
  <2>1. PICK k : k = actorTask[Main]
    OBVIOUS
  <2>2. /\ actorPhase # "out" /\ actorPhase' = "out" /\ held' = None /\ been' = {}
        /\ actorState' = [actorState EXCEPT ![k] = "disposed"]
        /\ meant' = [meant EXCEPT ![k] = None]
        /\ UNCHANGED <<actorQueue, actorTask, caller, handle, condition, leads>>
    BY <1>4, <2>1 DEF Actor!Return, Actor!hostVars
  <2>3. Actor!TypeOK'
    BY <1>a, <2>2 DEF Actor!TypeOK, Actor!Phases
  <2>4. TakenOf' /\ HeldOf' /\ BeenOf' /\ Actor!Decided'
    BY <1>a, <2>2 DEF TakenOf, HeldOf, BeenOf, Actor!Decided
  <2>5. \A j \in ActorTasks : meant'[j] # None => meant'[j] = meant[j]
    BY <1>a, <2>2 DEF Actor!TypeOK
  <2>6. LeadsOf'
    BY <1>a, <2>2, <2>5 DEF LeadsOf
  <2> QED
    BY <2>3, <2>4, <2>6 DEF ActorInv
<1> QED
  BY <1>1, <1>2, <1>3, <1>4 DEF Actor!Run

(* What the two looks of Run and its reference make of a handle: the       *)
(* function gets an actor that exists, that its handle leads to and that   *)
(* could be used at some moment of the run, and a task is left out only if *)
(* at some moment there was none (ITaskPool.cpp:252-266), whatever the     *)
(* host and the threads that queue tasks do between the steps.             *)
THEOREM ActorsAreUsable == PoolSpec => []ActorsUsable
<1>1. ActorInv /\ UNCHANGED Actor!vars => ActorInv'
  <2> SUFFICES ASSUME ActorInv, UNCHANGED Actor!vars PROVE ActorInv'
    OBVIOUS
  <2>1. UNCHANGED <<actorQueue, actorTask, actorState, caller, handle, actorPhase, held,
                    condition, leads, been, meant>>
    BY DEF Actor!vars, Actor!queueVars, Actor!runVars, Actor!hostVars
  <2>2. Actor!TypeOK'
    BY <2>1 DEF ActorInv, Actor!TypeOK
  <2>3. TakenOf' /\ LeadsOf' /\ HeldOf'
    BY <2>1 DEF ActorInv, TakenOf, LeadsOf, HeldOf
  <2>4. BeenOf' /\ Actor!Decided'
    BY <2>1 DEF ActorInv, BeenOf, Actor!Usable, Actor!IsREFRValid, Actor!Decided
  <2> QED
    BY <2>2, <2>3, <2>4 DEF ActorInv
<1>2. ActorInv /\ [Actor!Next]_(Actor!vars) => ActorInv'
  BY <1>1, ActorHost, ActorQueueing, ActorRun DEF Actor!Next
<1>3. ActorInv => Actor!ActorsUsable
  <2> SUFFICES ASSUME ActorInv, actorPhase \in {"validate", "function"}
               PROVE  /\ condition[held] # "freed"
                      /\ leads[handle[actorTask[Main]]] = held
                      /\ meant[actorTask[Main]] # None => meant[actorTask[Main]] = held
    BY DEF ActorInv, Actor!ActorsUsable, Actor!ActorKept
  <2>1. /\ held # None /\ leads[handle[actorTask[Main]]] = held
        /\ handle[actorTask[Main]] \in Handles /\ actorTask[Main] \in ActorTasks
    BY DEF ActorInv, HeldOf, TakenOf
  <2> QED
    BY <2>1 DEF ActorInv, LeadsOf
<1>4. Actor!Spec => []Actor!ActorsUsable
  BY <1>2, <1>3, ActorBegins, PTL DEF Actor!Spec
<1> QED
  BY <1>4, PoolParts, PTL DEF ActorsUsable
=============================================================================
