------------------------------ MODULE ActorTask ------------------------------
(***************************************************************************)
(* The actor tasks of ITaskPool.cpp: QueueActorTask stores a handle, and   *)
(* ActorTaskDispatcher::Run looks up by it the actor that the function is  *)
(* called with. The host loads, unloads and frees actors and gives their   *)
(* handles to others, at any time between two steps of these; a reference  *)
(* only keeps it from freeing. TaskPool has the frames in which the tasks  *)
(* are run; their queue is used through what it promises.                  *)
(***************************************************************************)
EXTENDS Sequences, FiniteSets

CONSTANTS Main,     \* the thread of the main loop
          Tasks,    \* the tasks added by QueueActorTask
          Actors,   \* what handles lead to
          Handles,  \* the handles but for the null and the invalid one
          None      \* no task, no actor, no handle

ActorTaskAssumption == None \notin Tasks \cup Actors \cup Handles

VARIABLES queue,      \* m_queue
          task,       \* task[Main]: the task taken last
          state,      \* state[k]: new, checked, stored, taken or disposed
          caller,     \* caller[k]: the actor that QueueActorTask was given
          handle,     \* handle[k]: m_handle
          phase,      \* where Run is
          held,       \* the actor that Run's NiPointer refers to
          condition,  \* condition[a]: loaded, unloaded or freed
          leads,      \* leads[h]: the actor that h leads to
          been,       \* history: what the handle led to since the task was taken
          meant       \* history: whom k was queued for, as long as that one exists

queueVars == <<queue, task, state, caller, handle>>
runVars == <<phase, held>>
hostVars == <<condition, leads>>
vars == <<queueVars, runVars, hostVars, been, meant>>

Fifo == INSTANCE FifoQueue WITH Consumers <- {Main}, item <- task,
                                Values <- Tasks \cup {None}

Init == /\ queue = << >>
        /\ task = [m \in {Main} |-> None]
        /\ state = [k \in Tasks |-> "new"]
        /\ caller = [k \in Tasks |-> None]
        /\ handle = [k \in Tasks |-> None]
        /\ phase = "out" /\ held = None
        /\ condition \in [Actors -> {"loaded", "unloaded"}]
        /\ leads = [h \in Handles |-> None]
        /\ been = {}
        /\ meant = [k \in Tasks |-> None]

-----------------------------------------------------------------------------
(* What the host does with actors and handles                              *)

(* IsREFRValid: whatever it refuses in an actor counts as unloaded.        *)
IsREFRValid(a) == a # None /\ condition[a] = "loaded"

(* A handle that leads to an actor for which the function may be called.   *)
Usable(h) == IsREFRValid(leads[h])

(* What Run's handle leads to is remembered while it runs.                 *)
Remember == been' = IF phase \in {"lookup", "validate"}
                      THEN been \cup {(Usable(handle[task[Main]]))'}
                      ELSE been

(* A variant with a plain pointer in Run.                                  *)
ReferencedByCallers(a) == \E k \in Tasks : caller[k] = a

(* Whoever calls QueueActorTask keeps the actor, and Run's NiPointer does. *)
Referenced(a) == a = held \/ \E k \in Tasks : caller[k] = a

ActorChanges(a) ==
    /\ condition[a] # "freed"
    /\ condition' = [condition EXCEPT ![a] = IF @ = "loaded" THEN "unloaded" ELSE "loaded"]
    /\ UNCHANGED <<queueVars, runVars, leads, meant>>
    /\ Remember

(* The handle of what is freed leads nowhere.                              *)
ActorFreed(a) ==
    /\ condition[a] # "freed"
    /\ ~Referenced(a)
    /\ condition' = [condition EXCEPT ![a] = "freed"]
    /\ leads' = [h \in Handles |-> IF leads[h] = a THEN None ELSE leads[h]]
    /\ meant' = [k \in Tasks |-> IF meant[k] = a THEN None ELSE meant[k]]
    /\ UNCHANGED <<queueVars, runVars>>
    /\ Remember

(* A handle is given to an actor that has none, also one that was another's. *)
HandleGiven(h, a) ==
    /\ leads[h] = None
    /\ condition[a] # "freed" /\ \A g \in Handles : leads[g] # a
    /\ leads' = [leads EXCEPT ![h] = a]
    /\ UNCHANGED <<queueVars, runVars, condition, meant>>
    /\ Remember

-----------------------------------------------------------------------------
(* QueueActorTask, by any thread                                           *)

(* The actor is looked at; its handle is asked for afterwards.             *)
QueueCheck(k, a) ==
    /\ state[k] = "new"
    /\ IsREFRValid(a)
    /\ state' = [state EXCEPT ![k] = "checked"]
    /\ caller' = [caller EXCEPT ![k] = a]
    /\ UNCHANGED <<queue, task, handle, runVars, hostVars, been, meant>>

(* The task is stored with a handle.                                       *)
Store(k, h) == /\ Fifo!Enqueue(k)
               /\ state' = [state EXCEPT ![k] = "stored"]
               /\ handle' = [handle EXCEPT ![k] = h]
               /\ meant' = [meant EXCEPT ![k] = leads[h]]
               /\ UNCHANGED <<runVars, hostVars, been>>

QueueActorTask(k) ==
    /\ state[k] = "checked"
    /\ \E h \in Handles : leads[h] = caller[k] /\ Store(k, h)
    /\ caller' = [caller EXCEPT ![k] = None]

(* The host has no handle for the actor.                                   *)
QueueRefused(k) ==
    /\ state[k] = "checked"
    /\ \A h \in Handles : leads[h] # caller[k]
    /\ state' = [state EXCEPT ![k] = "new"]
    /\ caller' = [caller EXCEPT ![k] = None]
    /\ UNCHANGED <<queue, task, handle, runVars, hostVars, been, meant>>

(* The overload that is given a handle looks at the handle only.           *)
QueueActorHandle(k, h) ==
    /\ state[k] = "new"
    /\ Store(k, h)
    /\ UNCHANGED caller

-----------------------------------------------------------------------------
(* The main loop                                                           *)

Take == /\ phase = "out"
        /\ Fifo!Dequeue(Main)
        /\ state' = [state EXCEPT ![Head(queue)] = "taken"]
        /\ phase' = "lookup"
        /\ been' = {Usable(handle[Head(queue)])}
        /\ UNCHANGED <<caller, handle, held, hostVars, meant>>

(* Lookup finds the actor and refers to it, or there is none.              *)
Lookup == /\ phase = "lookup"
          /\ held' = leads[handle[task[Main]]]
          /\ phase' = IF held' = None THEN "leave" ELSE "validate"
          /\ UNCHANGED <<queueVars, hostVars, been, meant>>

Validate == /\ phase = "validate"
            /\ phase' = IF IsREFRValid(held) THEN "function" ELSE "leave"
            /\ UNCHANGED <<queueVars, held, hostVars, been, meant>>

(* Run returns, the function before it, and the task is disposed of.       *)
Return == /\ phase \in {"function", "leave"}
          /\ phase' = "out"
          /\ held' = None
          /\ state' = [state EXCEPT ![task[Main]] = "disposed"]
          /\ meant' = [meant EXCEPT ![task[Main]] = None]
          /\ been' = {}
          /\ UNCHANGED <<queue, task, caller, handle, hostVars>>

-----------------------------------------------------------------------------
Host == \E a \in Actors : \/ ActorChanges(a) \/ ActorFreed(a)
                          \/ \E h \in Handles : HandleGiven(h, a)

Queueing == \E k \in Tasks : \/ \E a \in Actors : QueueCheck(k, a)
                             \/ QueueActorTask(k) \/ QueueRefused(k)
                             \/ \E h \in Handles : QueueActorHandle(k, h)

Run == Take \/ Lookup \/ Validate \/ Return

Next == Host \/ Queueing \/ Run

Spec == Init /\ [][Next]_vars

-----------------------------------------------------------------------------
Phases == {"out", "lookup", "validate", "function", "leave"}

TypeOK == /\ queue \in Seq(Tasks)
          /\ task \in [{Main} -> Tasks \cup {None}]
          /\ state \in [Tasks -> {"new", "checked", "stored", "taken", "disposed"}]
          /\ caller \in [Tasks -> Actors \cup {None}]
          /\ handle \in [Tasks -> Handles \cup {None}]
          /\ phase \in Phases
          /\ held \in Actors \cup {None}
          /\ condition \in [Actors -> {"loaded", "unloaded", "freed"}]
          /\ leads \in [Handles -> Actors \cup {None}]
          /\ been \subseteq BOOLEAN
          /\ meant \in [Tasks -> Actors \cup {None}]

(* From the lookup on, Run's actor exists, is still the one its handle     *)
(* leads to, and is the one the task was queued for if that one exists.    *)
ActorKept == phase \in {"validate", "function"} =>
    LET k == task[Main] IN
    /\ condition[held] # "freed"
    /\ leads[handle[k]] = held
    /\ meant[k] # None => meant[k] = held

(* The function is called only if the handle led to a usable actor at some *)
(* moment of the run, and left out only if at some moment it did not.      *)
Decided == /\ phase = "function" => TRUE \in been
           /\ phase = "leave" => FALSE \in been

(* Run makes two looks at what the host changes meanwhile, at the handle   *)
(* and at the actor (ITaskPool.cpp:255, 260), and together they answer for *)
(* one moment of the run, about an actor that does not go away before the  *)
(* function returns and that belongs to the handle the function is given.  *)
(* It may be unloaded by then, and if the handle was given away since the  *)
(* task was queued it is another actor than the task was queued for.       *)
ActorsUsable == TypeOK /\ ActorKept /\ Decided
=============================================================================
