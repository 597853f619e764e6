------------------------- MODULE RunConcurrentTasks -------------------------
(***************************************************************************)
(* TaskQueue.cpp: ITaskWorkerPool::RunConcurrentTasks. The caller puts a   *)
(* counter c, a mutex and a condition variable into its stack frame,       *)
(* creates one pool task per function, and waits until c equals their      *)
(* number; a task runs its function, increments c and, if it was the last, *)
(* notifies. The caller holds the mutex but no task ever takes it, so the  *)
(* mutex orders nothing and is not in the model.                           *)
(*                                                                         *)
(* The pool's threads are started and are not stopped during a call; their *)
(* queue is used through what it promises, module FifoQueue. A function    *)
(* may call RunConcurrentTasks itself and keeps its worker meanwhile.      *)
(***************************************************************************)
EXTENDS Naturals, FiniteSets, Sequences

CONSTANTS Callers,    \* the calls of RunConcurrentTasks, each by its thread
          Outer,      \* those of them made outside the pool
          Inner,      \* those that a function of another call may make
          Workers,    \* the threads of the pool
          MaxTasks,   \* bound on the number of functions of a call
          None        \* a worker's task before its first pop

ASSUME RunConcurrentAssumption == /\ Callers = Outer \cup Inner
                                  /\ IsFiniteSet(Workers)
                                  /\ MaxTasks \in Nat
                                  /\ None \notin Callers

VARIABLES caller,     \* caller[a]: where a is in its call
          num,        \* num[a]: the number of functions it passed
          created,    \* created[a]: the tasks it has created
          c,          \* c[a]: the counter in a's frame
          queue,      \* the pool's queue; a task is known by its caller
          worker,     \* worker[w]: where w is in its task
          task,       \* task[w]: the caller whose task w has
          inside,     \* inside[w]: the call made by the function w runs
          executed,   \* history: executed[a], the functions of a that ended
          missed      \* history: the callers notified between their look at
                      \*   c and the moment they block

vars == <<caller, num, created, c, queue, worker, task, inside, executed, missed>>

callerVars == <<caller, num, created>>
workerVars == <<worker, task, inside, executed, missed>>

Queue == INSTANCE FifoQueue WITH Consumers <- Workers, item <- task,
                                 Values <- Callers \cup {None}

Init == /\ caller = [a \in Callers |-> "idle"]
        /\ num \in [Callers -> 0..MaxTasks]
        /\ created = [a \in Callers |-> 0]
        /\ c = [a \in Callers |-> 0]
        /\ queue = << >>
        /\ worker = [w \in Workers |-> "pop"]
        /\ task = [w \in Workers |-> None]
        /\ inside = [w \in Workers |-> None]
        /\ executed = [a \in Callers |-> 0]
        /\ missed = {}

-----------------------------------------------------------------------------
(* The caller                                                              *)

(* The call; it returns at once without functions.                         *)
Enter(a) == /\ caller[a] = "idle"
            /\ caller' = [caller EXCEPT ![a] = IF num[a] = 0 THEN "returned"
                                                             ELSE "create"]
            /\ UNCHANGED <<num, created, c, queue, worker, task, executed, missed>>

Call(a) == a \in Outer /\ Enter(a) /\ UNCHANGED inside

(* A function run by w calls; its thread is the caller of a.               *)
CallInner(w, a) == /\ a \in Inner
                   /\ worker[w] = "run"
                   /\ inside[w] = None
                   /\ Enter(a)
                   /\ inside' = [inside EXCEPT ![w] = a]

Create(a) == /\ caller[a] = "create"
             /\ created[a] < num[a]
             /\ Queue!Enqueue(a)
             /\ created' = [created EXCEPT ![a] = @ + 1]
             /\ caller' = [caller EXCEPT
                             ![a] = IF created'[a] = num[a] THEN "check" ELSE "create"]
             /\ UNCHANGED <<num, c, worker, inside, executed, missed>>

(* A variant: the predicate is off by one.                                 *)
CheckEarly(a) == /\ caller[a] = "check"
                 /\ caller' = [caller EXCEPT ![a] = IF c[a] + 1 >= num[a]
                                                      THEN "returned" ELSE "block"]
                 /\ UNCHANGED <<workerVars, num, created, c, queue>>

(* cond.wait evaluates its predicate, c == num; when it holds the call     *)
(* returns and its frame is gone.                                          *)
Check(a) == /\ caller[a] = "check"
            /\ caller' = [caller EXCEPT ![a] = IF c[a] = num[a]
                                                 THEN "returned" ELSE "block"]
            /\ UNCHANGED <<workerVars, num, created, c, queue>>

Block(a) == /\ caller[a] = "block"
            /\ caller' = [caller EXCEPT ![a] = "asleep"]
            /\ UNCHANGED <<workerVars, num, created, c, queue>>

SpuriousWakeup(a) ==
    /\ caller[a] = "asleep"
    /\ caller' = [caller EXCEPT ![a] = "check"]
    /\ UNCHANGED <<workerVars, num, created, c, queue>>

-----------------------------------------------------------------------------
(* A worker                                                                *)

PopTask(w) == /\ worker[w] = "pop"
              /\ Queue!Dequeue(w)
              /\ worker' = [worker EXCEPT ![w] = "run"]
              /\ UNCHANGED <<callerVars, c, inside, executed, missed>>

Returning(w) == /\ worker[w] = "run"
                /\ inside[w] # None => caller[inside[w]] = "returned"
                /\ executed' = [executed EXCEPT ![task[w]] = @ + 1]
                /\ inside' = [inside EXCEPT ![w] = None]
                /\ UNCHANGED <<callerVars, c, queue, task, missed>>

(* A variant: a function that throws leaves its task uncounted.            *)
RunTaskThrows(w) == Returning(w) /\ worker' = [worker EXCEPT ![w] = "pop"]

(* func() returns or throws; what it throws is swallowed.                  *)
RunTask(w) == Returning(w) /\ worker' = [worker EXCEPT ![w] = "increment"]

(* A variant: the old value of c is compared, as a post-increment would.   *)
IncrementOld(w) ==
    LET a == task[w]
    IN  /\ worker[w] = "increment"
        /\ c' = [c EXCEPT ![a] = @ + 1]
        /\ worker' = [worker EXCEPT ![w] = IF c[a] = num[a] THEN "notify" ELSE "pop"]
        /\ UNCHANGED <<callerVars, queue, task, inside, executed, missed>>

(* InterlockedIncrementAcquire(&c) == num                                  *)
Increment(w) ==
    LET a == task[w]
    IN  /\ worker[w] = "increment"
        /\ c' = [c EXCEPT ![a] = @ + 1]
        /\ worker' = [worker EXCEPT ![w] = IF c'[a] = num[a] THEN "notify" ELSE "pop"]
        /\ UNCHANGED <<callerVars, queue, task, inside, executed, missed>>

(* cond.notify_one(), without the mutex: it wakes the caller if it is      *)
(* asleep. Notified before it blocks the caller will not wake; notified    *)
(* after it returned, the condition variable is no more.                   *)
Notify(w) ==
    LET a == task[w]
    IN  /\ worker[w] = "notify"
        /\ caller' = [caller EXCEPT ![a] = IF @ = "asleep" THEN "check" ELSE @]
        /\ missed' = IF caller[a] = "block" THEN missed \cup {a} ELSE missed
        /\ worker' = [worker EXCEPT ![w] = "pop"]
        /\ UNCHANGED <<num, created, c, queue, task, inside, executed>>

-----------------------------------------------------------------------------
CallerStep(a) == Create(a) \/ Check(a) \/ Block(a)

WorkerStep(w) == PopTask(w) \/ RunTask(w) \/ Increment(w) \/ Notify(w)

Next == \/ \E a \in Callers : Call(a) \/ CallerStep(a) \/ SpuriousWakeup(a)
        \/ \E w \in Workers : WorkerStep(w) \/ \E a \in Inner : CallInner(w, a)

(* Threads run and functions end; no spurious wakeup is owed.              *)
Fairness == /\ \A a \in Callers : WF_vars(CallerStep(a))
            /\ \A w \in Workers : WF_vars(WorkerStep(w))

Spec == Init /\ [][Next]_vars

FairSpec == Spec /\ Fairness

-----------------------------------------------------------------------------
(* The frame of a's call exists.                                           *)
Live(a) == caller[a] \in {"create", "check", "block", "asleep"}

(* The workers that have a task of a and are in state s.                   *)
At(a, s) == {w \in Workers : task[w] = a /\ worker[w] = s}

(* The tasks of a in the queue.                                            *)
Stored(a) == {i \in DOMAIN queue : queue[i] = a}

TypeOK ==
    /\ caller \in [Callers -> {"idle", "create", "check", "block", "asleep", "returned"}]
    /\ num \in [Callers -> 0..MaxTasks]
    /\ created \in [Callers -> Nat]
    /\ \A a \in Callers : created[a] <= num[a]
    /\ c \in [Callers -> Nat]
    /\ queue \in Seq(Callers)
    /\ worker \in [Workers -> {"pop", "run", "increment", "notify"}]
    /\ task \in [Workers -> Callers \cup {None}]
    /\ \A w \in Workers : worker[w] # "pop" => task[w] \in Callers
    /\ inside \in [Workers -> Inner \cup {None}]
    /\ executed \in [Callers -> Nat]
    /\ missed \subseteq Callers

(* Every created task is in exactly one place: stored, run by one worker,  *)
(* about to be counted, or counted in c, whatever its function throws.     *)
TasksAccounted == \A a \in Callers :
    /\ created[a] = Cardinality(Stored(a))
                      + Cardinality(At(a, "run")) + executed[a]
    /\ executed[a] = c[a] + Cardinality(At(a, "increment"))

(* Both: the tasks are those that were created, and none is lost.          *)
Safe == TypeOK /\ TasksAccounted

(* When the call returns, every function it was given has ended            *)
(* (TaskQueue.cpp:83).                                                     *)
ReturnsWhenDone == \A a \in Callers : caller[a] = "returned" => executed[a] = num[a]

(* A function runs, and c is incremented, only while the frame that both   *)
(* are in exists: the references the tasks captured are good until the     *)
(* last increment (TaskQueue.cpp:68-78).                                   *)
FrameAlive == \A w \in Workers :
    worker[w] \in {"run", "increment"} => Live(task[w])

(* Only one task notifies, the one that counted last, and by then no task  *)
(* of the call is left; the notification itself may come after the frame   *)
(* is gone.                                                                *)
OneNotification == \A a \in Callers :
    /\ Cardinality(At(a, "notify")) <= 1
    /\ At(a, "notify") # {} => c[a] = num[a]

(* The frame of a call outlives all uses the tasks make of it but the      *)
(* notification of the last.                                               *)
FrameOutlivesTasks == ReturnsWhenDone /\ FrameAlive /\ OneNotification

(* Every worker is kept by a function that waits for an inner call.        *)
Starved == \A w \in Workers : inside[w] # None /\ Live(inside[w])

(* A call returns unless the notification fell between its look at c and   *)
(* its going to sleep, or that of an inner call did, or all workers wait   *)
(* in inner calls and nobody is left to run what they wait for.            *)
ReturnsUnlessMissed == \A a \in Callers :
    Live(a) ~> (caller[a] = "returned" \/ missed \cap ({a} \cup Inner) # {} \/ Starved)

(* Once c equals num, the wait for that ends (TaskQueue.cpp:83).           *)
WaitEnds == \A a \in Callers : (Live(a) /\ c[a] = num[a]) ~> caller[a] = "returned"
=============================================================================
