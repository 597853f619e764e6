----------------------------- MODULE MCTaskPool -----------------------------
(* The task pool: its queues and frames, and the inside of the actor tasks *)
(* among a host that changes actors and handles. A behaviour is one of the *)
(* two; the frames know a task only as one that returns.                   *)
(*                                                                         *)
(* Frames: in the priority queue a task and one that adds itself again, in *)
(* the normal one two tasks; one fixed task and one that is added late,    *)
(* which makes the vector grow: for one task it has room for one. A budget *)
(* of 2 is exceeded by the second of two tasks, one of them long. Actors:  *)
(* three, so that a handle can lead to one after the other, two handles    *)
(* and two tasks, which may have the same.                                 *)
EXTENDS TaskPool

CONSTANTS ActorTasks, Actors, Handles,
          once, again, n1, n2, f1, f2, a1, a2, a3, h1, h2, k1, k2

VARIABLES poolPart,
          actorQueue, actorTask, actorState, actorPhase,
          caller, handle, held, condition, leads, been, meant

Actor == INSTANCE ActorTask WITH Tasks <- ActorTasks, queue <- actorQueue,
                                 task <- actorTask, state <- actorState,
                                 phase <- actorPhase

ASSUME PoolAssumption == Actor!ActorTaskAssumption

MCPrioTasks == {once, again}
MCNormalTasks == {n1, n2}
MCStatic == {again}
MCFixedTasks == {f1, f2}
MCRegistered == <<f1>>
MCCosts == {1, 2}

MCActorTasks == {k1, k2}
MCActors == {a1, a2, a3}
MCHandles == {h1, h2}

actorVars == <<actorQueue, actorTask, actorState, actorPhase, caller, handle, held, condition,
               leads, been, meant>>
poolVars == <<poolPart, vars, actorVars>>

PoolInit == /\ poolPart \in {"frames", "actors"}
            /\ Init /\ Actor!Init
            /\ poolPart # "actors" => \A a \in Actors : condition[a] = "loaded"

FramesStep == poolPart = "frames" /\ Next /\ UNCHANGED <<poolPart, actorVars>>
ActorStep == poolPart = "actors" /\ Actor!Next /\ UNCHANGED <<poolPart, vars>>

PoolNext == FramesStep \/ ActorStep

(* The main loop runs, and every task returns.                             *)
PoolSpec == PoolInit /\ [][PoolNext]_poolVars /\ WF_vars(~broken /\ HookStep)

(* ITaskPool.cpp:195-266: the function of an actor task is given an actor  *)
(* that exists until it returns, that the task's handle leads to, and that *)
(* was usable at some moment of the run; it is left out only if at some    *)
(* moment there was none.                                                  *)
ActorsUsable == Actor!ActorsUsable
=============================================================================
