------------------------------ MODULE BackLog ------------------------------
(***************************************************************************)
(* ILogging.h/.cpp: the newest messages of the log in a list, at most      *)
(* m_limit of them. Every operation is one critical section of m_lock, a   *)
(* critical section of the operating system, which the thread that owns it *)
(* may enter again. Who reads the list holds the lock over its iteration;  *)
(* a message it logs meanwhile enters the lock and changes the list it     *)
(* reads. Reading an entry that was erased is the end of the model         *)
(* (freed). Entries are the numbers of the messages stored.                *)
(***************************************************************************)
EXTENDS Integers, Sequences, SequencesExt

CONSTANTS Threads,
          Limits,     \* the limits the users set
          MaxEntries, \* bound on the messages
          None        \* nobody

BackLogAssumption == /\ Limits \subseteq Nat /\ MaxEntries \in Nat
                     /\ None \notin Threads

VARIABLES m_data,   \* the entries, oldest first
          m_limit,
          added,    \* the number of the last entry stored
          owner,    \* the thread that owns m_lock
          depth,    \* how often it entered it
          at,       \* the entry its iteration is at, 0 outside of one
          seen,     \* history: the entries that iteration read
          touched,  \* history: its own thread changed the list since
          freed     \* an erased entry was read

vars == <<m_data, m_limit, added, owner, depth, at, seen, touched, freed>>

readerVars == <<owner, depth, at, seen>>

(* 0 is the constructor's default.                                         *)
Init == /\ m_data = << >> /\ added = 0
        /\ m_limit \in Limits \cup {0}
        /\ owner = None /\ depth = 0
        /\ at = 0 /\ seen = << >> /\ touched = FALSE
        /\ freed = FALSE

-----------------------------------------------------------------------------
(* A variant that makes room before it is needed.                          *)
trimEarly(data, limit) == IF Len(data) >= limit /\ limit > 1
                            THEN SubSeq(data, Len(data) - limit + 2, Len(data))
                            ELSE data

trim(data, limit) == IF Len(data) > limit
                       THEN SubSeq(data, Len(data) - limit + 1, Len(data)) ELSE data

(* An operation as a whole, between lock and unlock.                       *)
Enters(t) == /\ owner \in {None, t}
             /\ touched' = (touched \/ (at # 0 /\ owner = t))
             /\ UNCHANGED <<readerVars, freed>>

Add(t) == /\ added < MaxEntries
          /\ Enters(t)
          /\ IF m_limit = 0
               THEN UNCHANGED <<m_data, added>>
               ELSE /\ m_data' = trim(Append(m_data, added + 1), m_limit)
                    /\ added' = added + 1
          /\ UNCHANGED m_limit

SetLimit(t, limit) == /\ Enters(t)
                      /\ m_limit' = IF limit > 1 THEN limit ELSE 1
                      /\ m_data' = trim(m_data, m_limit')
                      /\ UNCHANGED added

Clear(t) == Enters(t) /\ m_data' = << >> /\ UNCHANGED <<m_limit, added>>

(* Lock() and Unlock() of a reader, entered twice at most (a bound).       *)
Lock(t) == /\ owner \in {None, t} /\ depth < 2
           /\ owner' = t /\ depth' = depth + 1
           /\ UNCHANGED <<m_data, m_limit, added, at, seen, touched, freed>>

Unlock(t) == /\ owner = t /\ at = 0
             /\ depth' = depth - 1
             /\ owner' = IF depth = 1 THEN None ELSE t
             /\ UNCHANGED <<m_data, m_limit, added, at, seen, touched, freed>>

(* begin() to end().                                                       *)
Read(t) == /\ owner = t /\ at = 0
           /\ m_data # << >>
           /\ at' = Head(m_data) /\ seen' = <<at'>> /\ touched' = FALSE
           /\ UNCHANGED <<m_data, m_limit, added, owner, depth, freed>>

ReadNext(t) == /\ owner = t
               /\ \E i \in 1..Len(m_data) - 1 :
                    /\ m_data[i] = at
                    /\ at' = m_data[i + 1] /\ seen' = Append(seen, at')
               /\ UNCHANGED <<m_data, m_limit, added, owner, depth, touched, freed>>

ReadEnd(t) == /\ owner = t /\ at # 0
              /\ m_data # << >> /\ Last(m_data) = at
              /\ at' = 0 /\ seen' = << >> /\ touched' = FALSE
              /\ UNCHANGED <<m_data, m_limit, added, owner, depth, freed>>

ReadErased(t) == /\ owner = t /\ at # 0
                 /\ at \notin ToSet(m_data)
                 /\ freed' = TRUE
                 /\ UNCHANGED <<m_data, m_limit, added, readerVars, touched>>

LogNext(t) == \/ Add(t) \/ Clear(t) \/ \E n \in Limits : SetLimit(t, n)
              \/ Lock(t) \/ Unlock(t)
              \/ Read(t) \/ ReadNext(t) \/ ReadEnd(t) \/ ReadErased(t)

Next == ~freed /\ \E t \in Threads : LogNext(t)

Spec == Init /\ [][Next]_vars

-----------------------------------------------------------------------------
(* Types, and who owns the lock.                                           *)
TypeOK == /\ m_limit \in Limits \cup {0, 1}
          /\ added \in 0..MaxEntries /\ m_data \in Seq(1..added)
          /\ owner \in Threads \cup {None} /\ depth \in 0..2
          /\ depth = 0 <=> owner = None
          /\ at \in 0..added /\ (at # 0 => owner # None)
          /\ touched \in BOOLEAN /\ freed \in BOOLEAN

(* The list holds the newest messages, in order and without a gap, and not *)
(* more than the limit; with the limit 0 it holds none.                    *)
NewestKept == /\ Len(m_data) <= m_limit
              /\ m_data = [i \in 1..Len(m_data) |-> added - Len(m_data) + i]

(* A message is dropped only for a newer one, a lower limit or by Clear(). *)
DroppedForLimit == [][\/ ToSet(m_data) \subseteq ToSet(m_data')
                      \/ Len(m_data') = m_limit'
                      \/ m_data' = << >>]_vars

(* A reader sees every entry once and in order, unless its own thread      *)
(* changes the list meanwhile, and only then can it read an erased one.    *)
ReaderIntact == /\ at # 0 /\ ~touched => seen = SubSeq(m_data, 1, Len(seen))
                /\ freed => touched
=============================================================================
