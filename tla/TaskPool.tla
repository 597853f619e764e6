------------------------------ MODULE TaskPool ------------------------------
(***************************************************************************)
(* ITaskPool.h/.cpp: the hook in the host's main loop. Once per frame it   *)
(* empties the queue of priority tasks, then the normal one, each within   *)
(* a budget if there was one when the hook was installed, and then runs    *)
(* the fixed tasks. The queues are used through what they promise, module  *)
(* FifoQueue. What happens inside the run of an actor task is in module    *)
(* ActorTask; here it is a normal task as the others.                      *)
(*                                                                         *)
(* AddTaskFixed appends to a vector; when it grows while the hook iterates *)
(* over it, the iteration goes on in freed memory, and nothing of what     *)
(* happens then is modelled (broken).                                      *)
(***************************************************************************)
EXTENDS Integers, Sequences, FiniteSets, SequencesExt

CONSTANTS Main,        \* the thread of the main loop
          PrioTasks,   \* the tasks added by AddPriorityTask
          NormalTasks, \* the tasks added by AddTask and QueueActorTask
          Static,      \* the tasks that add themselves again when they run
          FixedTasks,  \* the tasks added by AddTaskFixed
          Registered,  \* those added while the plugin is loaded, in order
          Reserved,    \* the capacity that their vector has by then
          MaxBudget,   \* bound on SetBudget
          Costs,       \* the time a task may take
          None        \* no task, no thread, no budget

Tasks == PrioTasks \cup NormalTasks

ASSUME TaskPoolAssumption ==
    /\ PrioTasks \cap NormalTasks = {}
    /\ Static \subseteq Tasks
    /\ Registered \in Seq(FixedTasks) /\ IsInjective(Registered)
    /\ Reserved \in Nat /\ Len(Registered) <= Reserved
    /\ MaxBudget \in Nat
    /\ Costs \subseteq Nat \ {0}
    /\ None \notin Tasks \cup FixedTasks \cup Nat \cup {Main}

VARIABLES prio, normal,  \* m_prioQueue, m_queue
          fixed,         \* m_tasks_fixed
          capacity,      \* the capacity of that vector
          poolBudget,    \* m_budget
          running,       \* m_runningThread
          hook,          \* the hook in force: none, plain or budget
          phase,         \* where the hook is
          task,          \* task[Main]: the task taken last
          budget,        \* a_budget of the call of ProcessTasks
          elapsed,       \* the time since it began
          index, end,    \* the iteration over m_tasks_fixed
          state,         \* state[k]: new, stored, taken or disposed
          early,         \* history: the tasks in m_prioQueue when the frame began
          due,           \* history: the fixed tasks still to run in this frame
          broken         \* the vector grew under the iteration

queueVars == <<prio, normal, state>>
fixedVars == <<fixed, capacity, broken>>
frameVars == <<running, phase, task, budget, elapsed, index, end, early, due>>
vars == <<queueVars, fixedVars, frameVars, poolBudget, hook>>

Prio == INSTANCE FifoQueue WITH Consumers <- {Main}, queue <- prio, item <- task,
                                Values <- Tasks \cup {None}
Normal == INSTANCE FifoQueue WITH Consumers <- {Main}, queue <- normal,
                                  item <- task, Values <- Tasks \cup {None}

(* How a vector of the compiler used grows.                                *)
Grown(c) == IF c < 2 THEN c + 1 ELSE c + c \div 2

Init == /\ prio = << >> /\ normal = << >>
        /\ fixed = Registered /\ capacity = Reserved
        /\ poolBudget = 0
        /\ running = None
        /\ hook = "none" /\ phase = "out"
        /\ task = [m \in {Main} |-> None]
        /\ budget = None /\ elapsed = 0
        /\ index = 0 /\ end = 0
        /\ state = [k \in Tasks |-> "new"]
        /\ early = {} /\ due = {}
        /\ broken = FALSE

-----------------------------------------------------------------------------
(* Calls from other threads and from tasks, at any time                    *)

(* A task is stored in its own queue.                                      *)
Store(k) == /\ IF k \in PrioTasks
                 THEN prio' = Append(prio, k) /\ UNCHANGED normal
                 ELSE normal' = Append(normal, k) /\ UNCHANGED prio
            /\ state' = [state EXCEPT ![k] = "stored"]

AddTask(k) == /\ state[k] = "new"
              /\ Store(k)
              /\ UNCHANGED <<fixedVars, frameVars, poolBudget, hook>>

AddTaskFixed(f) ==
    /\ f \notin ToSet(fixed)
    /\ fixed' = Append(fixed, f)
    /\ IF Len(fixed) = capacity
         THEN /\ capacity' = Grown(capacity)
              /\ broken' = (phase \in {"fixed", "fixedRun"} /\ index <= end)
         ELSE UNCHANGED <<capacity, broken>>
    /\ UNCHANGED <<queueVars, frameVars, poolBudget, hook>>

SetBudget(b) == /\ poolBudget' = b
                /\ UNCHANGED <<queueVars, fixedVars, frameVars, hook>>

Install == /\ hook = "none"
           /\ hook' = IF poolBudget > 0 THEN "budget" ELSE "plain"
           /\ UNCHANGED <<queueVars, fixedVars, frameVars, poolBudget>>

-----------------------------------------------------------------------------
(* The hook                                                                *)

(* The call of ProcessTasks.                                               *)
BeginProcess == /\ budget' = IF hook = "budget" THEN poolBudget ELSE None
                /\ elapsed' = 0

FrameBegin == /\ hook # "none"
              /\ phase = "out"
              /\ running' = Main
              /\ phase' = "prio"
              /\ BeginProcess
              /\ early' = ToSet(prio)
              /\ due' = ToSet(fixed)
              /\ UNCHANGED <<queueVars, fixedVars, task, index, end, poolBudget, hook>>

PrioTake == /\ phase = "prio"
            /\ Prio!Dequeue(Main)
            /\ state' = [state EXCEPT ![Head(prio)] = "taken"]
            /\ phase' = "prioRun"
            /\ UNCHANGED <<normal, fixedVars, running, budget, elapsed, index, end,
                           early, due, poolBudget, hook>>

NormalTake == /\ phase = "normal"
              /\ Normal!Dequeue(Main)
              /\ state' = [state EXCEPT ![Head(normal)] = "taken"]
              /\ phase' = "normalRun"
              /\ UNCHANGED <<prio, fixedVars, running, budget, elapsed, index, end,
                             early, due, poolBudget, hook>>

(* A static task adds itself, once at a time (a bound).                    *)
SelfAdd == /\ phase \in {"prioRun", "normalRun"}
           /\ task[Main] \in Static
           /\ state[task[Main]] = "taken"
           /\ Store(task[Main])
           /\ UNCHANGED <<fixedVars, frameVars, poolBudget, hook>>

(* ProcessTasks ends or goes round again; the call after it.               *)
NormalBegin == phase' = "normal" /\ BeginProcess /\ UNCHANGED <<index, end>>
FixedBegin == /\ phase' = "fixed" /\ index' = 1 /\ end' = Len(fixed)
              /\ budget' = None /\ elapsed' = 0

(* Time is told apart up to MaxBudget + 1.                                 *)
Later(c) == IF elapsed + c > MaxBudget THEN MaxBudget + 1 ELSE elapsed + c

(* A variant that takes no budget for a budget of 0.                       *)
RoundNone(loop, After) ==
    \E c \in Costs : IF budget = None \/ Later(c) > budget
                       THEN After
                       ELSE /\ phase' = loop /\ elapsed' = Later(c)
                            /\ UNCHANGED <<budget, index, end>>

Round(loop, After) ==
    \E c \in Costs : IF budget # None /\ Later(c) > budget
                       THEN After
                       ELSE /\ phase' = loop
                            /\ elapsed' = IF budget = None THEN 0 ELSE Later(c)
                            /\ UNCHANGED <<budget, index, end>>

Dispose == state' = [state EXCEPT ![task[Main]] =
                       IF @ = "taken" THEN "disposed" ELSE @]

(* A variant that leaves out the normal tasks when the time is used up.    *)
PrioReturnLeave ==
    /\ phase = "prioRun"
    /\ Dispose
    /\ Round("prio", FixedBegin)
    /\ UNCHANGED <<prio, normal, fixedVars, running, task, early,
                   due, poolBudget, hook>>

PrioReturn == /\ phase = "prioRun"
              /\ Dispose
              /\ Round("prio", NormalBegin)
              /\ UNCHANGED <<prio, normal, fixedVars, running, task, early,
                             due, poolBudget, hook>>

PrioEmpty == /\ phase = "prio"
             /\ prio = << >>
             /\ NormalBegin
             /\ UNCHANGED <<queueVars, fixedVars, running, task, early, due,
                            poolBudget, hook>>

(* A variant that leaves the fixed tasks out when the time is used up.     *)
NormalReturnLeave ==
    /\ phase = "normalRun"
    /\ Dispose
    /\ Round("normal", phase' = "fixed" /\ index' = 1 /\ end' = 0
                       /\ budget' = None /\ elapsed' = 0)
    /\ UNCHANGED <<prio, normal, fixedVars, running, task, early, due,
                   poolBudget, hook>>

NormalReturn == /\ phase = "normalRun"
                /\ Dispose
                /\ Round("normal", FixedBegin)
                /\ UNCHANGED <<prio, normal, fixedVars, running, task, early, due,
                               poolBudget, hook>>

NormalEmpty == /\ phase = "normal"
               /\ normal = << >>
               /\ FixedBegin
               /\ UNCHANGED <<queueVars, fixedVars, running, task, early,
                              due, poolBudget, hook>>

FixedRun == /\ phase = "fixed"
            /\ index <= end
            /\ phase' = "fixedRun"
            /\ due' = due \ {fixed[index]}
            /\ UNCHANGED <<queueVars, fixedVars, running, task, budget, elapsed,
                           index, end, early, poolBudget, hook>>

FixedReturn == /\ phase = "fixedRun"
               /\ index' = index + 1
               /\ phase' = "fixed"
               /\ UNCHANGED <<queueVars, fixedVars, running, task, budget, elapsed,
                              end, early, due, poolBudget, hook>>

FrameEnd == /\ phase = "fixed"
            /\ index > end
            /\ running' = None
            /\ phase' = "out"
            /\ index' = 0 /\ end' = 0
            /\ early' = {} /\ due' = {}
            /\ UNCHANGED <<queueVars, fixedVars, task, budget, elapsed, poolBudget, hook>>

-----------------------------------------------------------------------------
Calls == \/ \E k \in Tasks : AddTask(k)
         \/ \E f \in FixedTasks : AddTaskFixed(f)
         \/ \E b \in 0..MaxBudget : SetBudget(b)
         \/ Install
         \/ SelfAdd

HookStep == \/ FrameBegin
            \/ PrioTake \/ PrioReturn \/ PrioEmpty
            \/ NormalTake \/ NormalReturn \/ NormalEmpty
            \/ FixedRun \/ FixedReturn \/ FrameEnd

Next == ~broken /\ (Calls \/ HookStep)

Spec == Init /\ [][Next]_vars

-----------------------------------------------------------------------------
Phases == {"out", "prio", "prioRun", "normal", "normalRun", "fixed", "fixedRun"}

(* Types; IsRunningOnCurrentThread() answers TRUE on the main thread as    *)
(* long as it is inside the hook, and on no other.                         *)
TypeOK == /\ prio \in Seq(PrioTasks) /\ normal \in Seq(NormalTasks)
          /\ fixed \in Seq(FixedTasks) /\ IsInjective(fixed)
          /\ capacity \in Nat /\ Len(fixed) <= capacity
          /\ poolBudget \in 0..MaxBudget
          /\ running = IF phase = "out" THEN None ELSE Main
          /\ hook \in {"none", "plain", "budget"}
          /\ phase \in Phases
          /\ task \in [{Main} -> Tasks \cup {None}]
          /\ budget \in 0..MaxBudget \cup {None}
          /\ elapsed \in 0..(MaxBudget + 1)
          /\ index \in 0..(Len(fixed) + 1) /\ end \in 0..Len(fixed)
          /\ state \in [Tasks -> {"new", "stored", "taken", "disposed"}]
          /\ early \subseteq PrioTasks /\ due \subseteq FixedTasks
          /\ broken \in BOOLEAN

(* Without a budget every priority task that was there when the frame      *)
(* began has run before the first normal task does (ITaskPool.cpp:169-170).*)
PriorityFirst == hook = "plain" /\ phase \in {"normal", "normalRun"}
                   => \A k \in early \ Static : state[k] = "disposed"

(* Both, of the plain hook and of the one with a budget.                   *)
Safe == TypeOK /\ PriorityFirst

(* Whatever the queues, the budget and the other threads do, a frame runs  *)
(* every fixed task that was registered when it began (lines 172-175,      *)
(* 187-190).                                                               *)
FixedEveryFrame == [][phase # "out" /\ phase' = "out" => due = {}]_vars

(* From some time on no task adds itself again.                            *)
Calm == <>[][~SelfAdd]_vars

(* A frame ends: always with a budget, and without one if tasks do not add *)
(* themselves again for ever (lines 165-193).                              *)
FrameEnds ==
    /\ (phase # "out" /\ hook = "budget") ~> (phase = "out" \/ broken)
    /\ Calm => (phase # "out" ~> (phase = "out" \/ broken))

(* Every task that was added runs in this frame or a later one. With a     *)
(* budget no task that adds itself again can keep the others from it, be   *)
(* it a priority task, and be the budget set to 0 later.                   *)
TasksServed ==
    \A k \in Tasks \ Static :
        /\ (state[k] = "stored" /\ hook = "budget")
             ~> (state[k] = "disposed" \/ broken)
        /\ Calm => ((state[k] = "stored" /\ hook # "none")
                      ~> (state[k] = "disposed" \/ broken))

(* Frames end, and over the frames the tasks are served.                   *)
FramesServe == FrameEnds /\ TasksServed
=============================================================================
