----------------------------- MODULE PerfTimer -----------------------------
(***************************************************************************)
(* PerfTimerInt: the average of the times between Begin and End over an    *)
(* interval. The clock is external: microseconds that never go back. The   *)
(* counter does not reach the end of its 64 bits, where it is reset.       *)
(***************************************************************************)
EXTENDS Integers

CONSTANTS Intervals,  \* that may be set
          MaxTime,    \* bound: the last reading of the clock
          MaxCounter  \* bound: times since the last report

PerfTimerAssumption == Intervals \subseteq Int /\ MaxTime \in Nat /\ MaxCounter \in Nat

VARIABLES now, \* the clock
          m_interval, m_tIntervalBegin, m_tStart, m_tCounter, m_tAccum, m_tInterval, m_tLast,
          reports,  \* what End returned last, and how much it wrote then
          least, most \* of the times since the last report or reset, the one
                      \*   that was reported with them

timerVars == <<m_tIntervalBegin, m_tStart, m_tCounter, m_tAccum, m_tInterval, m_tLast>>
historyVars == <<reports, least, most>>
vars == <<now, m_interval, timerVars, historyVars>>

Init == /\ now \in 0..MaxTime
        /\ m_interval \in Intervals /\ m_tIntervalBegin = now
        /\ m_tStart = 0 /\ m_tCounter = 0 /\ m_tAccum = 0 /\ m_tInterval = 0 /\ m_tLast = 0
        /\ reports = FALSE /\ least = 0 /\ most = 0

Tick == /\ now < MaxTime /\ now' = now + 1
        /\ UNCHANGED <<m_interval, timerVars, historyVars>>

Begin == /\ m_tStart' = now
         /\ UNCHANGED <<now, m_interval, m_tIntervalBegin, m_tCounter, m_tAccum, m_tInterval,
                        m_tLast, historyVars>>

(* History: the extremes of what is averaged.                              *)
Counts(time) ==
    /\ least' = IF m_tCounter = 0 \/ time < least THEN time ELSE least
    /\ most' = IF m_tCounter = 0 \/ time > most THEN time ELSE most

(* A variant that goes on from the times that it has reported.             *)
AccumAgain(time, full) == m_tAccum + time

Accum(time, full) == IF full THEN 0 ELSE m_tAccum + time

(* End; the result is m_tLast.                                             *)
End ==
    /\ m_tCounter < MaxCounter
    /\ LET time == now - m_tStart
           full == now - m_tIntervalBegin >= m_interval
       IN  /\ Counts(time)
           /\ m_tInterval' = now - m_tIntervalBegin
           /\ reports' = full /\ m_tAccum' = Accum(time, full)
           /\ IF full
                THEN /\ m_tLast' = (m_tAccum + time) \div (m_tCounter + 1)
                     /\ m_tCounter' = 0 /\ m_tIntervalBegin' = now
                ELSE /\ m_tCounter' = m_tCounter + 1
                     /\ UNCHANGED <<m_tLast, m_tIntervalBegin>>
    /\ UNCHANGED <<now, m_interval, m_tStart>>

SetInterval(i) == m_interval' = i /\ UNCHANGED <<now, timerVars, historyVars>>

Reset == /\ m_tIntervalBegin' = now /\ m_tAccum' = 0 /\ m_tCounter' = 0 /\ m_tLast' = 0
         /\ reports' = FALSE
         /\ UNCHANGED <<now, m_interval, m_tStart, m_tInterval, least, most>>

Next == Tick \/ Begin \/ End \/ Reset \/ \E i \in Intervals : SetInterval(i)

Spec == Init /\ [][Next]_vars

-----------------------------------------------------------------------------
(* A report is an average of the times since the one before it: it lies    *)
(* between the least and the most of them, and so does the average of what *)
(* is kept for the next one (PerfCounter.h:128-174).                       *)
Averages == /\ reports /\ m_tCounter = 0 => m_tLast \in least..most
            /\ m_tCounter > 0 => m_tAccum \in m_tCounter * least..m_tCounter * most
=============================================================================
