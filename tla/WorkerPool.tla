----------------------------- MODULE WorkerPool -----------------------------
(***************************************************************************)
(* workerpool.h: IWorkerPool<T>, a vector of threads that pump a           *)
(* ProducerConsumerQueue of TaskWrappers. Stop() pushes one wrapper with   *)
(* m_stop set (a sentinel) per thread, joins every thread and clears the   *)
(* vector; the pool can be started again. The queue is used through what   *)
(* it promises, module FifoQueue.                                          *)
(*                                                                         *)
(* One thread, the owner, calls Start, Stop and SetThreadCount, which are  *)
(* not synchronised; Push is called by anybody at any time. Start() of a   *)
(* pool with a thread count of 0 throws and changes nothing: no action.    *)
(***************************************************************************)
EXTENDS Naturals, Sequences, FiniteSets, SequencesExt

CONSTANTS Tasks,      \* the tasks pushed, each at most once
          Workers,    \* the identities of threads, reused after a join
          MaxThreads, \* bound on SetThreadCount
          Sentinel,   \* TaskWrapper(): m_stop = true
          None        \* a worker's wrapper before its first pop

ASSUME WorkerPoolAssumption == /\ MaxThreads \in Nat
                               /\ IsFiniteSet(Workers)
                               /\ Sentinel \notin Tasks
                               /\ None \notin Tasks \cup {Sentinel}

VARIABLES numThreads, \* m_numThreads
          threads,    \* m_threads
          queue,      \* m_queue
          owner,      \* where the owner is: idle or in a loop of Start or Stop
          next,       \* the number of rounds that loop has made
          state,      \* state[w]: none, pop, process or exited
          task,       \* task[w]: Pump's local wrapper
          todo,       \* the tasks not pushed yet (the bound)
          done,       \* history: the tasks whose Process returned
          owed        \* history: the tasks pushed when Stop was called

vars == <<numThreads, threads, queue, owner, next, state, task, todo, done, owed>>

poolVars == <<numThreads, threads, owner, next, owed>>

Queue == INSTANCE FifoQueue WITH Consumers <- Workers, item <- task,
                                 Values <- Tasks \cup {Sentinel, None}

Init == /\ numThreads \in 0..MaxThreads
        /\ threads = << >>
        /\ queue = << >>
        /\ owner = "idle"
        /\ next = 0
        /\ state = [w \in Workers |-> "none"]
        /\ task = [w \in Workers |-> None]
        /\ todo = Tasks
        /\ done = {}
        /\ owed = {}

-----------------------------------------------------------------------------
(* The owner                                                               *)

SetThreadCount == /\ owner = "idle"
                  /\ numThreads' \in 0..MaxThreads
                  /\ UNCHANGED <<threads, queue, owner, next, state, task,
                                 todo, done, owed>>

(* The room left in Workers bounds how often Start is called.              *)
Start == /\ owner = "idle"
         /\ numThreads # 0
         /\ Len(threads) + numThreads <= Cardinality(Workers)
         /\ owner' = "start"
         /\ next' = 0
         /\ UNCHANGED <<numThreads, threads, queue, state, task, todo, done, owed>>

StartThread == /\ owner = "start"
               /\ next < numThreads
               /\ \E w \in Workers :
                    /\ state[w] = "none"
                    /\ threads' = Append(threads, w)
                    /\ state' = [state EXCEPT ![w] = "pop"]
                    /\ task' = [task EXCEPT ![w] = None]
               /\ next' = next + 1
               /\ UNCHANGED <<numThreads, queue, owner, todo, done, owed>>

(* The creation of a thread throws: Start() is left, and the threads       *)
(* created so far stay in m_threads and run.                               *)
StartThrow == /\ owner = "start"
              /\ next < numThreads
              /\ owner' = "idle"
              /\ UNCHANGED <<numThreads, threads, queue, next, state, task,
                             todo, done, owed>>

StartReturn == /\ owner = "start"
               /\ next = numThreads
               /\ owner' = "idle"
               /\ UNCHANGED <<numThreads, threads, queue, next, state, task,
                              todo, done, owed>>

Stop == /\ owner = "idle"
        /\ owner' = "push"
        /\ next' = 0
        /\ owed' = ToSet(queue) \cup {task[w] : w \in {v \in Workers : state[v] = "process"}}
        /\ UNCHANGED <<numThreads, threads, queue, state, task, todo, done>>

(* A variant: one sentinel per configured thread, not per running thread.  *)
StopPushCount == /\ owner = "push"
                 /\ IF next < numThreads
                      THEN /\ Queue!Enqueue(Sentinel)
                           /\ next' = next + 1
                           /\ UNCHANGED owner
                      ELSE /\ owner' = "join"
                           /\ next' = 0
                           /\ UNCHANGED <<queue, task>>
                 /\ UNCHANGED <<numThreads, threads, state, todo, done, owed>>

(* A variant: the sentinels overtake the tasks.                            *)
StopPushFront == /\ owner = "push"
                 /\ IF next < Len(threads)
                      THEN /\ queue' = <<Sentinel>> \o queue
                           /\ next' = next + 1
                           /\ UNCHANGED <<owner, task>>
                      ELSE /\ owner' = "join"
                           /\ next' = 0
                           /\ UNCHANGED <<queue, task>>
                 /\ UNCHANGED <<numThreads, threads, state, todo, done, owed>>

(* A variant: one sentinel for all, as if the worker that takes it put it  *)
(* back for the next one.                                                  *)
StopPushOne == /\ owner = "push"
               /\ IF next < Len(threads) /\ next < 1
                    THEN /\ Queue!Enqueue(Sentinel)
                         /\ next' = next + 1
                         /\ UNCHANGED owner
                    ELSE /\ owner' = "join"
                         /\ next' = 0
                         /\ UNCHANGED <<queue, task>>
               /\ UNCHANGED <<numThreads, threads, state, todo, done, owed>>

StopPush == /\ owner = "push"
            /\ IF next < Len(threads)
                 THEN /\ Queue!Enqueue(Sentinel)
                      /\ next' = next + 1
                      /\ UNCHANGED owner
                 ELSE /\ owner' = "join"
                      /\ next' = 0
                      /\ UNCHANGED <<queue, task>>
            /\ UNCHANGED <<numThreads, threads, state, todo, done, owed>>

StopJoin == /\ owner = "join"
            /\ next < Len(threads)
            /\ state[threads[next + 1]] = "exited"
            /\ next' = next + 1
            /\ UNCHANGED <<numThreads, threads, queue, owner, state, task,
                           todo, done, owed>>

(* m_threads.clear(); the identities of the joined threads are free again. *)
StopReturn == /\ owner = "join"
              /\ next = Len(threads)
              /\ threads' = << >>
              /\ state' = [w \in Workers |-> IF w \in ToSet(threads)
                                               THEN "none" ELSE state[w]]
              /\ owner' = "idle"
              /\ UNCHANGED <<numThreads, queue, next, task, todo, done, owed>>

-----------------------------------------------------------------------------
(* The clients and the workers                                             *)

Push == /\ \E x \in todo : /\ Queue!Enqueue(x)
                           /\ todo' = todo \ {x}
        /\ UNCHANGED <<numThreads, threads, owner, next, state, done, owed>>

(* A variant: the front is read and left in the queue.                     *)
PumpPopPeek(w) == /\ state[w] = "pop"
                  /\ queue # << >>
                  /\ task' = [task EXCEPT ![w] = Head(queue)]
                  /\ state' = [state EXCEPT ![w] = IF Head(queue) = Sentinel
                                                     THEN "exited" ELSE "process"]
                  /\ UNCHANGED <<queue, numThreads, threads, owner, next, todo,
                                 done, owed>>

(* Pump pops into its wrapper and leaves its loop if m_stop is set.        *)
PumpPop(w) == /\ state[w] = "pop"
              /\ Queue!Dequeue(w)
              /\ state' = [state EXCEPT ![w] = IF task'[w] = Sentinel
                                                 THEN "exited" ELSE "process"]
              /\ UNCHANGED <<numThreads, threads, owner, next, todo, done, owed>>

(* Process(task.m_task) returns.                                           *)
PumpProcess(w) == /\ state[w] = "process"
                  /\ done' = done \cup {task[w]}
                  /\ state' = [state EXCEPT ![w] = "pop"]
                  /\ UNCHANGED <<numThreads, threads, queue, owner, next, task,
                                 todo, owed>>

-----------------------------------------------------------------------------
OwnerStep == StartThread \/ StartReturn \/ StopPush \/ StopJoin \/ StopReturn

Next == \/ SetThreadCount \/ Start \/ StartThrow \/ Stop \/ OwnerStep
        \/ Push
        \/ \E w \in Workers : PumpPop(w) \/ PumpProcess(w)

(* A call of Start or Stop goes on, threads run, and every task returns.   *)
Fairness == /\ WF_vars(OwnerStep)
            /\ \A w \in Workers : WF_vars(PumpPop(w) \/ PumpProcess(w))

Spec == Init /\ [][Next]_vars

FairSpec == Spec /\ Fairness

-----------------------------------------------------------------------------
Alive == {w \in Workers : state[w] # "none"}

(* Types; and m_threads lists exactly the threads that exist, once each,   *)
(* so that a join is never made twice.                                     *)
TypeOK == /\ numThreads \in 0..MaxThreads
          /\ threads \in Seq(Workers)
          /\ IsInjective(threads)
          /\ ToSet(threads) = Alive
          /\ queue \in Seq(Tasks \cup {Sentinel})
          /\ owner \in {"idle", "start", "push", "join"}
          /\ next \in 0..Cardinality(Workers)
          /\ state \in [Workers -> {"none", "pop", "process", "exited"}]
          /\ task \in [Workers -> Tasks \cup {Sentinel, None}]
          /\ \A w \in Workers : state[w] = "process" => task[w] \in Tasks
          /\ todo \subseteq Tasks
          /\ done \subseteq Tasks

StoredSentinels == {i \in DOMAIN queue : queue[i] = Sentinel}
Exited == {w \in Workers : state[w] = "exited"}

PushedSentinels == IF owner = "push" THEN next
                   ELSE IF owner = "join" THEN Len(threads)
                   ELSE 0

(* Each sentinel stops exactly one thread of the Stop() that pushed it:    *)
(* the sentinels in the queue and the threads that left their loop make up *)
(* those pushed so far, and outside Stop() there is neither, so no thread  *)
(* of a restarted pool meets a sentinel of an earlier one                  *)
(* (workerpool.h:89-97, 134-135).                                          *)
SentinelsMatch ==
    Cardinality(StoredSentinels) + Cardinality(Exited) = PushedSentinels

(* Both at once: no thread of the pool is left without a sentinel.         *)
Safe == TypeOK /\ SentinelsMatch

(* When all threads are joined, every task pushed before Stop() was called *)
(* has been processed (unless there was no thread to do it).               *)
StopDrains == owner = "join" /\ next = Len(threads) /\ threads # << >>
                => owed \subseteq done

(* The tasks in the queue, and which of them are in front of which.        *)
StoredTasks == ToSet(queue) \ {Sentinel}
InOrder == {p \in StoredTasks \X StoredTasks :
              \E i, j \in DOMAIN queue : i < j /\ queue[i] = p[1] /\ queue[j] = p[2]}

(* Tasks are begun once, in the order pushed, and finished once, across    *)
(* any number of starts and stops (module TaskExecution).                  *)
Execution == INSTANCE TaskExecution WITH
    backlog <- StoredTasks,
    before <- InOrder,
    running <- [w \in Workers |-> IF state[w] = "process" THEN {task[w]} ELSE {}]

ExecutionSpec == Execution!Spec

(* Start() and Stop() return.                                              *)
OwnerReturns == owner # "idle" ~> owner = "idle"
=============================================================================
