---------------------------- MODULE MCCallbacks ----------------------------
(* The two containers that are changed by those they are being read for:   *)
(* the dispatcher's sinks and the readers of the back log. They know       *)
(* nothing of each other, and a behaviour is one of either.                *)
(*                                                                         *)
(* Dispatcher: three sinks fill the vector, so that a fourth makes it      *)
(* grow; an event within an event, two changes of the vector during them.  *)
(* Back log: a reader and another thread, limits below and above the       *)
(* number of entries, 0 among them.                                        *)
EXTENDS Integers, Sequences, SequencesExt

CONSTANTS Sinks, Registered, MaxEvents, MaxChanges,
          Threads, Limits, MaxEntries, Nobody, s1, s2, s3, s4, t1, t2

VARIABLES callbacksPart, slots, vectorSize, events, sent, changes, broken,
          m_data, m_limit, added, owner, depth, logAt, seen, touched, freed

Dispatcher == INSTANCE EventDispatcher WITH size <- vectorSize, None <- Nobody
Log == INSTANCE BackLog WITH at <- logAt, None <- Nobody

ASSUME CallbacksAssumption ==
    Dispatcher!EventDispatcherAssumption /\ Log!BackLogAssumption

MCSinks == {s1, s2, s3, s4}
MCRegistered == <<s1, s2, s3>>
MCThreads == {t1, t2}
MCLimits == {0, 1, 2, 3}

dispatcherVars == <<slots, vectorSize, events, sent, changes, broken>>
logVars == <<m_data, m_limit, added, owner, depth, logAt, seen, touched, freed>>
callbacksVars == <<callbacksPart, dispatcherVars, logVars>>

CallbacksInit == /\ callbacksPart \in {"dispatcher", "log"}
                 /\ Dispatcher!Init /\ Log!Init
                 /\ callbacksPart # "log" => m_limit = 0

DispatcherStep == /\ callbacksPart = "dispatcher" /\ Dispatcher!Next
                  /\ UNCHANGED <<callbacksPart, logVars>>

LogStep == /\ callbacksPart = "log" /\ Log!Next
           /\ UNCHANGED <<callbacksPart, dispatcherVars>>

CallbacksNext == DispatcherStep \/ LogStep

CallbacksSpec == /\ CallbacksInit /\ [][CallbacksNext]_callbacksVars
                 /\ WF_dispatcherVars(Dispatcher!LoopStep)

(* Types; an event goes to its sinks in order (Events.h:27-33); the back   *)
(* log holds the newest messages up to its limit and its readers see each  *)
(* once (ILogging.cpp:51-90).                                              *)
Intact == /\ Dispatcher!TypeOK /\ Dispatcher!InOrder
          /\ Log!TypeOK /\ Log!NewestKept /\ Log!ReaderIntact

(* Events.h:27-50: a removal costs at most one other sink the event, and   *)
(* the event goes to none that is not registered. ILogging.cpp:81-90: no   *)
(* message is dropped without need.                                        *)
Deliveries == /\ Dispatcher!OneSkippedPerRemoval
              /\ Dispatcher!CalledWhileRegistered
              /\ Log!DroppedForLimit

(* Events.h:29: an event ends, though its sinks add sinks.                 *)
EventEnds == Dispatcher!EventEnds
=============================================================================
