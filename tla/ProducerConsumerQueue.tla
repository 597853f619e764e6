----------------------- MODULE ProducerConsumerQueue -----------------------
(***************************************************************************)
(* queue.h: a std::queue behind a std::mutex and a condition variable.     *)
(* push() emplaces under the mutex, unlocks, and only then notifies one    *)
(* waiter; pop() waits in a loop until the queue is not empty.             *)
(*                                                                         *)
(* The acquisition of the mutex, each look at the queue and each change of *)
(* it are steps of their own; the release goes with the last of them. The  *)
(* notification is a step too, since it is made unlocked.                  *)
(***************************************************************************)
EXTENDS Sequences, FiniteSets, Naturals

CONSTANTS Producers, Consumers,   \* the threads
          Items,                  \* the values pushed, each at most once
          None                    \* no thread; a value-initialised T

ASSUME ThreadsAssumption == /\ Producers \cap Consumers = {}
                            /\ IsFiniteSet(Producers)
                            /\ IsFiniteSet(Consumers)

ASSUME NoneAssumption == None \notin Producers \cup Consumers \cup Items

VARIABLES queue,    \* m_queue
          mutex,    \* m_mutex: its holder, or None
          pc,       \* where each thread is in push() or pop()
          arg,      \* arg[p]: push()'s argument
          item,     \* item[c]: the variable pop() fills
          todo      \* the items no push() was called with yet (the bound)

vars == <<queue, mutex, pc, arg, item, todo>>

Threads == Producers \cup Consumers

ProducerPC == {"idle", "lock", "emplace", "notify"}
ConsumerPC == {"idle", "lock", "check", "sleep", "take", "wait"}

(* Where a thread holds the mutex.                                         *)
Inside == {"emplace", "check", "sleep", "take"}

(* The threads blocked in m_cond.wait().                                   *)
Waiters == {c \in Consumers : pc[c] = "wait"}

Init == /\ queue = << >>
        /\ mutex = None
        /\ pc = [t \in Threads |-> "idle"]
        /\ arg = [p \in Producers |-> None]
        /\ item = [c \in Consumers |-> None]
        /\ todo = Items

-----------------------------------------------------------------------------
(* push()                                                                  *)

Push(p) == /\ pc[p] = "idle"
           /\ \E x \in todo : /\ arg' = [arg EXCEPT ![p] = x]
                              /\ todo' = todo \ {x}
           /\ pc' = [pc EXCEPT ![p] = "lock"]
           /\ UNCHANGED <<queue, mutex, item>>

PushLock(p) == /\ pc[p] = "lock"
               /\ mutex = None
               /\ mutex' = p
               /\ pc' = [pc EXCEPT ![p] = "emplace"]
               /\ UNCHANGED <<queue, arg, item, todo>>

(* A variant: the value is emplaced after it was moved from.               *)
PushEmplaceMoved(p) == /\ pc[p] = "emplace"
                       /\ queue' = Append(queue, None)
                       /\ mutex' = None
                       /\ pc' = [pc EXCEPT ![p] = "notify"]
                       /\ UNCHANGED <<arg, item, todo>>

(* A variant: the newest value is put in front.                            *)
PushEmplaceFront(p) == /\ pc[p] = "emplace"
                       /\ queue' = <<arg[p]>> \o queue
                       /\ mutex' = None
                       /\ pc' = [pc EXCEPT ![p] = "notify"]
                       /\ UNCHANGED <<arg, item, todo>>

(* A variant: only the push that finds the queue empty notifies.           *)
PushEmplaceNotifyIfEmpty(p) ==
    /\ pc[p] = "emplace"
    /\ queue' = Append(queue, arg[p])
    /\ mutex' = None
    /\ pc' = [pc EXCEPT ![p] = IF queue = << >> THEN "notify" ELSE "idle"]
    /\ UNCHANGED <<arg, item, todo>>

PushEmplace(p) == /\ pc[p] = "emplace"
                  /\ queue' = Append(queue, arg[p])
                  /\ mutex' = None
                  /\ pc' = [pc EXCEPT ![p] = "notify"]
                  /\ UNCHANGED <<arg, item, todo>>

(* A variant: a notification that wakes nobody.                            *)
PushNotifyNobody(p) == /\ pc[p] = "notify"
                       /\ pc' = [pc EXCEPT ![p] = "idle"]
                       /\ UNCHANGED <<queue, mutex, arg, item, todo>>

(* notify_one(): wakes some waiter, which must then take the mutex again;  *)
(* does nothing when none waits.                                           *)
PushNotify(p) ==
    /\ pc[p] = "notify"
    /\ \/ /\ Waiters = {}
          /\ pc' = [pc EXCEPT ![p] = "idle"]
       \/ \E c \in Waiters : pc' = [pc EXCEPT ![p] = "idle", ![c] = "lock"]
    /\ UNCHANGED <<queue, mutex, arg, item, todo>>

-----------------------------------------------------------------------------
(* pop()                                                                   *)

Pop(c) == /\ pc[c] = "idle"
          /\ pc' = [pc EXCEPT ![c] = "lock"]
          /\ UNCHANGED <<queue, mutex, arg, item, todo>>

PopLock(c) == /\ pc[c] = "lock"
              /\ mutex = None
              /\ mutex' = c
              /\ pc' = [pc EXCEPT ![c] = "check"]
              /\ UNCHANGED <<queue, arg, item, todo>>

(* The loop's condition, m_queue.empty(), is evaluated.                     *)
PopCheck(c) == /\ pc[c] = "check"
               /\ pc' = [pc EXCEPT ![c] = IF queue = << >> THEN "sleep" ELSE "take"]
               /\ UNCHANGED <<queue, mutex, arg, item, todo>>

(* m_cond.wait() releases the mutex and blocks, atomically.                *)
PopWait(c) == /\ pc[c] = "sleep"
              /\ mutex' = None
              /\ pc' = [pc EXCEPT ![c] = "wait"]
              /\ UNCHANGED <<queue, arg, item, todo>>

PopFront(c) == /\ pc[c] = "take"
               /\ item' = [item EXCEPT ![c] = Head(queue)]
               /\ queue' = Tail(queue)
               /\ mutex' = None
               /\ pc' = [pc EXCEPT ![c] = "idle"]
               /\ UNCHANGED <<arg, todo>>

(* A condition variable may wake without a notification.                   *)
SpuriousWakeup(c) == /\ pc[c] = "wait"
                     /\ pc' = [pc EXCEPT ![c] = "lock"]
                     /\ UNCHANGED <<queue, mutex, arg, item, todo>>

-----------------------------------------------------------------------------
ProducerNext(p) == Push(p) \/ PushLock(p) \/ PushEmplace(p) \/ PushNotify(p)

ConsumerNext(c) == \/ Pop(c) \/ PopLock(c) \/ PopCheck(c) \/ PopWait(c)
                   \/ PopFront(c) \/ SpuriousWakeup(c)

Next == \/ \E p \in Producers : ProducerNext(p)
        \/ \E c \in Consumers : ConsumerNext(c)

(* A thread inside push() or pop() goes on. That it calls them is up to    *)
(* the client, and no wakeup is owed to anybody but by a notification.     *)
Fairness == /\ \A p \in Producers :
                 WF_vars(PushLock(p) \/ PushEmplace(p) \/ PushNotify(p))
            /\ \A c \in Consumers :
                 WF_vars(\/ PopLock(c) \/ PopCheck(c) \/ PopWait(c)
                         \/ PopFront(c))

Spec == Init /\ [][Next]_vars

FairSpec == Spec /\ Fairness

-----------------------------------------------------------------------------
(* Types; in particular nothing but a pushed item is ever stored, and a    *)
(* thread between the lock and the release of push() has its argument.     *)
TypeOK == /\ queue \in Seq(Items)
          /\ mutex \in Threads \cup {None}
          /\ pc \in [Threads -> ProducerPC \cup ConsumerPC]
          /\ \A p \in Producers : pc[p] \in ProducerPC
          /\ \A c \in Consumers : pc[c] \in ConsumerPC
          /\ arg \in [Producers -> Items \cup {None}]
          /\ \A p \in Producers : pc[p] # "idle" => arg[p] \in Items
          /\ item \in [Consumers -> Items \cup {None}]
          /\ todo \subseteq Items

(* The threads that will still look at the queue or wake one that will:    *)
(* a producer that has yet to notify, a consumer that has yet to check.    *)
InFlight == {p \in Producers : pc[p] = "notify"}
              \cup {c \in Consumers : pc[c] \in {"lock", "check", "take"}}

(* While a consumer sleeps in pop(), every stored value has somebody on    *)
(* the way to it, although notify_one() is called outside the mutex and    *)
(* may find nobody asleep: no wakeup is lost (queue.h:16-19, 38-40).       *)
NoLostWakeup == Waiters # {} => Len(queue) <= Cardinality(InFlight)

(* The mutex does its work: one thread inside a critical section at a      *)
(* time, so what a consumer saw of the queue still holds when it acts.     *)
Exclusion == /\ \A t \in Threads : mutex = t <=> pc[t] \in Inside
             /\ \A c \in Consumers : /\ pc[c] = "sleep" => queue = << >>
                                     /\ pc[c] = "take" => queue # << >>

(* The queue is a FIFO queue (module FifoQueue): push() and pop() take     *)
(* effect at the emplace and at the removal of the front.                  *)
Fifo == INSTANCE FifoQueue WITH Values <- Items \cup {None}

FifoSpec == Fifo!Spec

(* A consumer asleep while values are stored is woken, or the others take  *)
(* everything that is stored.                                              *)
SleeperServed == \A c \in Consumers :
    (pc[c] = "wait" /\ queue # << >>) ~> (pc[c] # "wait" \/ queue = << >>)
=============================================================================
