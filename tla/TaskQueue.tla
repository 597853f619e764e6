------------------------------ MODULE TaskQueue ------------------------------
(***************************************************************************)
(* ITasks.h/.cpp: TaskQueue, a queue of pointers to tasks under a spin     *)
(* lock (Threads.h) that is not reentrant. The main thread runs the tasks  *)
(* without the lock, with or without a budget of time; anybody adds tasks, *)
(* a task included; ClearTasks disposes of all with the lock held.         *)
(*                                                                         *)
(* Most tasks delete themselves when disposed of; those of Static stay and *)
(* may be added again. Size() and TaskQueueEmpty() change nothing. A       *)
(* task's Run and Dispose call nothing of the queue but AddTask.           *)
(* TaskQueueStatic::ClearTasks, which takes no lock, is not modelled.      *)
(***************************************************************************)
EXTENDS Naturals, Sequences, FiniteSets, SequencesExt, FiniteSetsExt

CONSTANTS Main,      \* the threads that process tasks
          Others,    \* the threads that only add and clear
          Tasks,
          Static,    \* the tasks whose Dispose does nothing
          Budgets,   \* the budgets of ProcessTasks(a_budget)
          Costs,     \* the time a task may take
          MaxTime,   \* the largest time told apart, more than any budget
          MaxClears, \* bound on the calls of ClearTasks
          None       \* no thread, no task, no budget

ASSUME TaskQueueAssumption == /\ IsFiniteSet(Main) /\ IsFiniteSet(Others)
                              /\ Main \cap Others = {}
                              /\ Static \subseteq Tasks
                              /\ Budgets \subseteq Nat
                              /\ Costs \subseteq Nat \ {0}
                              /\ MaxTime \in Nat /\ \A b \in Budgets : b < MaxTime
                              /\ MaxClears \in Nat
                              /\ None \notin Main \cup Others \cup Tasks \cup Nat

VARIABLES queue,     \* m_queue
          lock,      \* m_lock: its holder
          pc,        \* where each thread is
          back,      \* where a thread goes on after AddTask
          arg,       \* the task a thread adds
          task,      \* the local variable task of each thread
          budget,    \* a_budget of the call, None for ProcessTasks()
          elapsed,   \* the time since begin
          object,    \* object[k]: new, live or deleted
          clears     \* how often ClearTasks was called

vars == <<queue, lock, pc, back, arg, task, budget, elapsed, object, clears>>

Threads == Main \cup Others

Goto(t, l) == pc' = [pc EXCEPT ![t] = l]

Acquire(t) == lock = None /\ lock' = t
Release == lock' = None

Init == /\ queue = << >>
        /\ lock = None
        /\ pc = [t \in Threads |-> "idle"]
        /\ back = [t \in Threads |-> "idle"]
        /\ arg = [t \in Threads |-> None]
        /\ task = [t \in Threads |-> None]
        /\ budget = [t \in Threads |-> None]
        /\ elapsed = [t \in Threads |-> 0]
        /\ object = [k \in Tasks |-> "new"]
        /\ clears = 0

-----------------------------------------------------------------------------
(* AddTask, called from outside or by a task that runs or is disposed of.  *)
(* A static task adds itself, and is stored once at a time (a bound).      *)

MayAdd(t, k) ==
    \/ object[k] = "new"
    \/ k \in Static /\ pc[t] = "run" /\ task[t] = k /\ k \notin ToSet(queue)

AddTask(t, k) == /\ pc[t] \in {"idle", "run", "dispose", "clearDispose"}
                 /\ MayAdd(t, k)
                 /\ object' = [object EXCEPT ![k] = "live"]
                 /\ back' = [back EXCEPT ![t] = pc[t]]
                 /\ arg' = [arg EXCEPT ![t] = k]
                 /\ Goto(t, "addLock")
                 /\ UNCHANGED <<queue, lock, task, budget, elapsed, clears>>

AddLock(t) == /\ pc[t] = "addLock"
              /\ Acquire(t)
              /\ Goto(t, "add")
              /\ UNCHANGED <<queue, back, arg, task, budget, elapsed, object, clears>>

(* A variant that adds in front, as a stack would.                         *)
AddEmplaceFront(t) == /\ pc[t] = "add"
                      /\ queue' = <<arg[t]>> \o queue
                      /\ Release
                      /\ Goto(t, back[t])
                      /\ UNCHANGED <<back, arg, task, budget, elapsed, object, clears>>

AddEmplace(t) == /\ pc[t] = "add"
                 /\ queue' = Append(queue, arg[t])
                 /\ Release
                 /\ Goto(t, back[t])
                 /\ UNCHANGED <<back, arg, task, budget, elapsed, object, clears>>

-----------------------------------------------------------------------------
(* ProcessTasks                                                            *)

ProcessTasks(t, b) == /\ pc[t] = "idle"
                      /\ budget' = [budget EXCEPT ![t] = b]
                      /\ elapsed' = [elapsed EXCEPT ![t] = 0]
                      /\ Goto(t, "takeLock")
                      /\ UNCHANGED <<queue, lock, back, arg, task, object, clears>>

TakeLock(t) == /\ pc[t] = "takeLock"
               /\ Acquire(t)
               /\ Goto(t, "take")
               /\ UNCHANGED <<queue, back, arg, task, budget, elapsed, object, clears>>

TakeNothing(t) == /\ pc[t] = "take"
                  /\ queue = << >>
                  /\ Release
                  /\ Goto(t, "idle")
                  /\ UNCHANGED <<queue, back, arg, task, budget, elapsed, object, clears>>

TakeCheck(t) == /\ pc[t] = "take"
                /\ queue # << >>
                /\ Goto(t, "front")
                /\ UNCHANGED <<queue, lock, back, arg, task, budget, elapsed,
                               object, clears>>

TakeFront(t) == /\ pc[t] = "front"
                /\ queue # << >>
                /\ task' = [task EXCEPT ![t] = Head(queue)]
                /\ queue' = Tail(queue)
                /\ Release
                /\ Goto(t, "run")
                /\ UNCHANGED <<back, arg, budget, elapsed, object, clears>>

(* Run() returns after a time of Costs.                                    *)
RunReturn(t) == /\ pc[t] = "run"
                /\ \E c \in Costs :
                     elapsed' = [elapsed EXCEPT ![t] = Min({@ + c, MaxTime})]
                /\ Goto(t, "dispose")
                /\ UNCHANGED <<queue, lock, back, arg, task, budget, object, clears>>

Disposed(t) == object' = IF task[t] \in Static THEN object
                         ELSE [object EXCEPT ![task[t]] = "deleted"]

(* A variant that measures each task on its own.                           *)
DisposeReturnEach(t) ==
    /\ pc[t] = "dispose"
    /\ Disposed(t)
    /\ Goto(t, IF budget[t] # None /\ elapsed[t] > budget[t]
                 THEN "idle" ELSE "takeLock")
    /\ elapsed' = [elapsed EXCEPT ![t] = 0]
    /\ UNCHANGED <<queue, lock, back, arg, task, budget, clears>>

DisposeReturn(t) ==
    /\ pc[t] = "dispose"
    /\ Disposed(t)
    /\ Goto(t, IF budget[t] # None /\ elapsed[t] > budget[t]
                 THEN "idle" ELSE "takeLock")
    /\ UNCHANGED <<queue, lock, back, arg, task, budget, elapsed, clears>>

-----------------------------------------------------------------------------
(* ClearTasks                                                              *)

ClearTasks(t) == /\ pc[t] = "idle"
                 /\ clears < MaxClears
                 /\ clears' = clears + 1
                 /\ Goto(t, "clearLock")
                 /\ UNCHANGED <<queue, lock, back, arg, task, budget, elapsed, object>>

ClearLock(t) == /\ pc[t] = "clearLock"
                /\ Acquire(t)
                /\ Goto(t, "clear")
                /\ UNCHANGED <<queue, back, arg, task, budget, elapsed, object, clears>>

(* A variant that forgets the tasks without disposing of them.             *)
ClearPopAll(t) == /\ pc[t] = "clear"
                  /\ queue' = << >>
                  /\ UNCHANGED <<lock, pc, back, arg, task, budget, elapsed,
                                 object, clears>>

ClearPop(t) == /\ pc[t] = "clear"
               /\ queue # << >>
               /\ task' = [task EXCEPT ![t] = Head(queue)]
               /\ queue' = Tail(queue)
               /\ Goto(t, "clearDispose")
               /\ UNCHANGED <<lock, back, arg, budget, elapsed, object, clears>>

ClearDispose(t) == /\ pc[t] = "clearDispose"
                   /\ Disposed(t)
                   /\ Goto(t, "clear")
                   /\ UNCHANGED <<queue, lock, back, arg, task, budget, elapsed, clears>>

ClearReturn(t) == /\ pc[t] = "clear"
                  /\ queue = << >>
                  /\ Release
                  /\ Goto(t, "idle")
                  /\ UNCHANGED <<queue, back, arg, task, budget, elapsed, object, clears>>

-----------------------------------------------------------------------------
Call(t) == \/ \E k \in Tasks : AddTask(t, k)
           \/ ClearTasks(t)

(* The steps inside a call.                                                *)
Step(t) == \/ AddLock(t) \/ AddEmplace(t)
           \/ TakeLock(t) \/ TakeNothing(t) \/ TakeCheck(t) \/ TakeFront(t)
           \/ RunReturn(t) \/ DisposeReturn(t)
           \/ ClearLock(t) \/ ClearPop(t) \/ ClearDispose(t) \/ ClearReturn(t)

Process(t) == \E b \in Budgets \cup {None} : ProcessTasks(t, b)

Next == \/ \E t \in Threads : Call(t) \/ Step(t)
        \/ \E t \in Main : Process(t)

(* Threads run, tasks return, and the main loop comes round again.         *)
Fairness == /\ \A t \in Threads : WF_vars(Step(t))
            /\ \A t \in Main : WF_vars(Process(t))

Spec == Init /\ [][Next]_vars

FairSpec == Spec /\ Fairness

-----------------------------------------------------------------------------
Labels == {"idle", "addLock", "add", "takeLock", "take", "front", "run",
           "dispose", "clearLock", "clear", "clearDispose"}

(* Types; the queue stores nothing but tasks.                              *)
TypeOK == /\ queue \in Seq(Tasks)
          /\ lock \in Threads \cup {None}
          /\ pc \in [Threads -> Labels]
          /\ back \in [Threads -> {"idle", "run", "dispose", "clearDispose"}]
          /\ arg \in [Threads -> Tasks \cup {None}]
          /\ task \in [Threads -> Tasks \cup {None}]
          /\ budget \in [Threads -> Budgets \cup {None}]
          /\ elapsed \in [Threads -> 0..MaxTime]
          /\ object \in [Tasks -> {"new", "live", "deleted"}]
          /\ clears \in 0..MaxClears

(* Where a thread is when AddTask is no matter.                            *)
At(t) == IF pc[t] \in {"addLock", "add"} THEN back[t] ELSE pc[t]

Holds(t) == \/ pc[t] \in {"add", "take", "front"}
            \/ At(t) \in {"clear", "clearDispose"}

(* The spin lock protects what a thread saw of the queue until it acts on  *)
(* it: whoever is in a critical section holds the lock, and front() is     *)
(* never called on an empty queue (ITasks.cpp:8-18, 31-41, 55-63).         *)
Exclusion == \A t \in Threads : /\ Holds(t) <=> lock = t
                                /\ pc[t] = "front" => queue # << >>

InHand(k) == {t \in Threads : At(t) \in {"run", "dispose", "clearDispose"} /\ task[t] = k}
BeingAdded(k) == {t \in Threads : pc[t] \in {"addLock", "add"} /\ arg[t] = k}
Stored(k) == {i \in DOMAIN queue : queue[i] = k}

(* A task that deletes itself is in exactly one place as long as it lives  *)
(* and in none afterwards: it is run at most once, disposed of once,       *)
(* whether it was run or cleared, never touched again, and never leaked    *)
(* (ITasks.cpp:20-21, 43-44, 59-62).                                       *)
OnePlace ==
    \A k \in Tasks \ Static :
        Cardinality(InHand(k)) + Cardinality(BeingAdded(k)) + Cardinality(Stored(k))
          = IF object[k] = "live" THEN 1 ELSE 0

(* What the lock protects, and that no task is run or disposed of twice.   *)
Safe == TypeOK /\ Exclusion /\ OnePlace

(* Tasks are taken in the order added, each once, by the main loop or by   *)
(* ClearTasks (module FifoQueue).                                          *)
Fifo == INSTANCE FifoQueue WITH Consumers <- Threads, item <- task,
                                Values <- Tasks \cup {None}

FifoSpec == Fifo!Spec

(* A thread that waits for the lock it holds: a Dispose called by          *)
(* ClearTasks that adds a task.                                            *)
Reentered == \E t \in Threads : pc[t] = "addLock" /\ lock = t

(* The lock is given back on every path, unless a Dispose called by        *)
(* ClearTasks adds a task (ITasks.cpp:53-64, Threads.h:8).                 *)
LockFreed == \A t \in Threads : lock = t ~> lock # t \/ Reentered

(* With a budget ProcessTasks returns, though tasks add themselves again   *)
(* for ever: the time counts from the start of the call (ITasks.cpp:27,    *)
(* 46-49).                                                                 *)
BudgetReturns ==
    \A t \in Main :
        pc[t] = "takeLock" /\ budget[t] # None ~> pc[t] = "idle" \/ Reentered

(* A call that a thread is in comes to its end as the two say.             *)
CallsReturn == LockFreed /\ BudgetReturns

(* Whatever the budgets, what is in the queue is disposed of by this frame *)
(* or a later one, though tasks add themselves again for ever.             *)
TaskServed ==
    \A k \in Tasks \ Static : Stored(k) # {} ~> object[k] = "deleted" \/ Reentered
=============================================================================
