-------------------------- MODULE EventDispatcher --------------------------
(***************************************************************************)
(* Events.h: the sinks are in a vector, and SendEvent calls them one after *)
(* the other with the begin and end of the vector it read when it started. *)
(* A sink's Receive may add and remove sinks and send events itself. An    *)
(* erase moves the sinks behind it forward and leaves the last slot as it  *)
(* was; SendEvent still reads that slot. When the vector grows, the events *)
(* under way are left with freed memory, and nothing is modelled once they *)
(* read it (broken).                                                       *)
(***************************************************************************)
EXTENDS Integers, Sequences, SequencesExt

CONSTANTS Sinks,
          Registered, \* the sinks at the beginning, in order
          MaxEvents,  \* bound on the events inside an event, that one included
          MaxChanges, \* bound on the changes of the vector during an event
          None        \* an unused slot

EventDispatcherAssumption ==
    /\ Registered \in Seq(Sinks) /\ IsInjective(Registered)
    /\ MaxEvents \in Nat /\ MaxChanges \in Nat
    /\ None \notin Sinks

VARIABLES slots,   \* the memory of m_sinks, as long as its capacity
          size,    \* m_sinks.size()
          events,  \* the calls of SendEvent under way, the innermost last
          sent,    \* the events sent since the outermost one began
          changes, \* the changes of the vector since then
          broken   \* freed memory was read

vars == <<slots, size, events, sent, changes, broken>>

m_sinks == SubSeq(slots, 1, size)

(* How a vector of the compiler used grows.                                *)
Grown(c) == IF c < 2 THEN c + 1 ELSE c + c \div 2

Init == /\ slots = Registered /\ size = Len(Registered)
        /\ events = << >> /\ sent = 0 /\ changes = 0
        /\ broken = FALSE

-----------------------------------------------------------------------------
(* A variant that goes on to the end of the memory.                        *)
SendEventAll ==
    /\ sent < MaxEvents
    /\ size > 0
    /\ events' = Append(events, [at |-> 1, end |-> Len(slots), freed |-> FALSE,
                                 start |-> m_sinks, got |-> <<slots[1]>>,
                                 removed |-> {}, shifts |-> 0])
    /\ sent' = sent + 1
    /\ UNCHANGED <<slots, size, changes, broken>>

(* An event is sent from outside or by a Receive; the first sink is        *)
(* called. An event keeps, for the properties: the sinks at its beginning, *)
(* those it called, those removed since, and how many of these were at or  *)
(* before its position.                                                    *)
SendEvent ==
    /\ sent < MaxEvents
    /\ size > 0
    /\ events' = Append(events, [at |-> 1, end |-> size, freed |-> FALSE,
                                 start |-> m_sinks, got |-> <<slots[1]>>,
                                 removed |-> {}, shifts |-> 0])
    /\ sent' = sent + 1
    /\ UNCHANGED <<slots, size, changes, broken>>

(* The innermost Receive returns and the loop calls the next sink.         *)
Advance ==
    LET n == Len(events)  e == Last(events) IN
    /\ events # << >>
    /\ e.at < e.end
    /\ IF e.freed
         THEN broken' = TRUE /\ UNCHANGED events
         ELSE /\ events' = [events EXCEPT ![n].at = e.at + 1,
                                          ![n].got = Append(@, slots[e.at + 1])]
              /\ UNCHANGED broken
    /\ UNCHANGED <<slots, size, sent, changes>>

(* The last Receive returns, and with it SendEvent.                        *)
Leave == /\ events' = Front(events)
         /\ IF Len(events) = 1 THEN sent' = 0 /\ changes' = 0
                               ELSE UNCHANGED <<sent, changes>>
         /\ UNCHANGED <<slots, size, broken>>

(* A variant that compares with the present end of the vector.             *)
FinishPresent == events # << >> /\ Last(events).at = size /\ Leave

Finish == events # << >> /\ Last(events).at = Last(events).end /\ Leave

Change == /\ events # << >> => changes < MaxChanges
          /\ changes' = IF events = << >> THEN 0 ELSE changes + 1
          /\ UNCHANGED <<sent, broken>>

(* emplace_back.                                                           *)
Emplace(s) ==
    IF size < Len(slots)
      THEN slots' = [slots EXCEPT ![size + 1] = s] /\ UNCHANGED events
      ELSE /\ slots' = [i \in 1..Grown(size) |->
                          IF i <= size THEN slots[i]
                          ELSE IF i = size + 1 THEN s ELSE None]
           /\ events' = [i \in 1..Len(events) |-> [events[i] EXCEPT !.freed = TRUE]]

AddSink(s) == s \notin ToSet(m_sinks) /\ Change /\ Emplace(s) /\ size' = size + 1

RemoveSink(s) ==
    \E i \in 1..size :
        /\ slots[i] = s
        /\ Change
        /\ slots' = [j \in 1..Len(slots) |->
                       IF j \in i..(size - 1) THEN slots[j + 1] ELSE slots[j]]
        /\ size' = size - 1
        /\ events' = [k \in 1..Len(events) |->
                        LET e == events[k] IN
                        [e EXCEPT !.removed = @ \cup {s},
                                  !.shifts = IF i <= e.at THEN @ + 1 ELSE @]]

SinkNext(s) == AddSink(s) \/ RemoveSink(s)

Next == ~broken /\ (SendEvent \/ Advance \/ Finish \/ \E s \in Sinks : SinkNext(s))

Spec == Init /\ [][Next]_vars

(* Every Receive returns.                                                  *)
LoopStep == ~broken /\ (Advance \/ Finish)

FairSpec == Spec /\ WF_vars(LoopStep)

-----------------------------------------------------------------------------
(* Types; the vector holds no sink twice, whatever a Receive adds (35-41). *)
TypeOK == /\ slots \in Seq(Sinks \cup {None})
          /\ size \in 0..Len(slots)
          /\ m_sinks \in Seq(Sinks) /\ IsInjective(m_sinks)
          /\ sent \in 0..MaxEvents /\ changes \in 0..MaxChanges
          /\ \A i \in 1..Len(events) : /\ events[i].end \in 1..Len(slots)
                                       /\ events[i].at \in 1..events[i].end
          /\ broken \in BOOLEAN

(* As long as no sink is removed, an event goes to the sinks that were     *)
(* there when it was sent, each once and in order, and to none that was    *)
(* added since, be there further events inside it (lines 27-33).           *)
InOrder == \A i \in 1..Len(events) :
             LET e == events[i] IN
             e.removed = {} => e.got = SubSeq(e.start, 1, e.at)

(* At the end of an event every sink that was registered all the time has  *)
(* received it, but for one per sink removed at or before the loop's place *)
(* (a sink that removes itself costs its successor the event).             *)
OneSkippedPerRemoval ==
    [][Len(events') < Len(events) =>
         LET e == Last(events)
             skipped == (ToSet(e.start) \ e.removed) \ ToSet(e.got)
         IN \E f \in [1..e.shifts -> Sinks] : skipped \subseteq ToSet(f)]_vars

(* The sink that is called is registered at that moment, or was removed    *)
(* during this event: the slot behind the last sink still names it.        *)
CalledWhileRegistered ==
    [][\A i \in 1..Len(events) :
         (i <= Len(events') /\ events'[i].at > events[i].at) =>
            Last(events'[i].got) \in ToSet(m_sinks) \cup events[i].removed]_vars

(* An event ends although its sinks add others: those are behind its end.  *)
EventEnds == events # << >> ~> (events = << >> \/ broken)
=============================================================================
