------------------------- MODULE CallbackLoadProofs -------------------------
(***************************************************************************)
(* Proofs about what comes from outside. The callbacks, for any sinks,     *)
(* messages and nesting: the event dispatcher and the back log. What the   *)
(* program loads, for any plugins, times, files and records: the plugin    *)
(* itself, the performance counters, the database of addresses, the save,  *)
(* the settings of an ini file.                                            *)
(***************************************************************************)
EXTENDS MCCallbacks, MCLoading, NaturalsInduction, WellFoundedInduction,
        FunctionTheorems, FiniteSetTheorems, SequenceTheorems, TLAPS

-----------------------------------------------------------------------------
(* The back log                                                            *)

LogTyped == /\ m_limit \in Limits \cup {0, 1}
            /\ added \in 0..MaxEntries
            /\ owner \in Threads \cup {Nobody} /\ depth \in 0..2
            /\ depth = 0 <=> owner = Nobody
            /\ logAt \in 0..added /\ (logAt # 0 => owner # Nobody)
            /\ seen \in Seq(Nat)

(* d is the newest of the entries up to the a-th, in order.                *)
Newest(d, a) == /\ d \in Seq(Nat) /\ Len(d) <= a
                /\ \A i \in 1..Len(d) : d[i] = a - Len(d) + i

(* A reader whose list was not touched has read what is before its place.  *)
Reading(d) == /\ Len(seen) \in 1..Len(d) /\ d[Len(seen)] = logAt
              /\ \A i \in 1..Len(seen) : seen[i] = d[i]

LogInv == /\ LogTyped /\ touched \in BOOLEAN /\ freed \in BOOLEAN
          /\ Len(m_data) <= m_limit
          /\ Newest(m_data, added)
          /\ logAt # 0 /\ ~touched => Reading(m_data)
          /\ freed => touched

(* What is assumed of the limits and the threads.                          *)
LEMMA LogAssumed == Limits \subseteq Nat /\ MaxEntries \in Nat /\ Nobody \notin Threads
  BY CallbacksAssumption, Zenon DEF CallbacksAssumption, Log!BackLogAssumption

(* The list is cut from its front and keeps what is newest.                *)
LEMMA TrimKeepsNewest ==
  ASSUME NEW d, NEW a \in Nat, Newest(d, a), NEW n \in Nat
  PROVE  /\ Newest(Log!trim(d, n), a) /\ Len(Log!trim(d, n)) <= n
         /\ Log!trim(d, n) = d \/ Len(Log!trim(d, n)) = n
<1>1. d \in Seq(Nat) /\ Len(d) \in Nat /\ Len(d) <= a
  BY DEF Newest
<1>2. CASE Len(d) > n
  <2> DEFINE r == SubSeq(d, Len(d) - n + 1, Len(d))
  <2>1. r \in Seq(Nat) /\ Len(r) = n
        /\ \A i \in 1..n : r[i] = d[Len(d) - n + i]
    <3>1. /\ Len(d) - n + 1 \in Int /\ Len(d) \in Int
          /\ \A i \in Len(d) - n + 1..Len(d) : d[i] \in Nat
      BY <1>1, <1>2
    <3>2. /\ r \in Seq(Nat)
          /\ Len(r) = (IF Len(d) - n + 1 <= Len(d) THEN Len(d) - (Len(d) - n + 1) + 1 ELSE 0)
          /\ \A i \in 1..Len(d) - (Len(d) - n + 1) + 1 : r[i] = d[(Len(d) - n + 1) + i - 1]
      BY <3>1, SubSeqProperties
    <3>3. Len(d) - (Len(d) - n + 1) + 1 = n
      BY <1>1
    <3>4. ASSUME NEW i \in 1..n PROVE r[i] = d[Len(d) - n + i]
      <4>1. (Len(d) - n + 1) + i - 1 = Len(d) - n + i
        BY <1>1
      <4> HIDE DEF r
      <4> QED
        BY <4>1, <3>2, <3>3
    <3>5. Len(r) = n
      <4> HIDE DEF r
      <4> QED
        BY <3>2, <1>1
    <3> QED
      BY <3>2, <3>4, <3>5
  <2>2. Log!trim(d, n) = r
    BY <1>2 DEF Log!trim
  <2> HIDE DEF r
  <2>3. ASSUME NEW i \in 1..Len(r) PROVE r[i] = a - Len(r) + i
    <3>1. Len(d) - n + i \in 1..Len(d) /\ i \in 1..n /\ i \in Nat
      BY <1>1, <1>2, <2>1
    <3>2. r[i] = d[Len(d) - n + i]
      BY <2>1, <3>1
    <3>3. \A j \in 1..Len(d) : d[j] = a - Len(d) + j
      BY DEF Newest
    <3>4. r[i] = a - Len(d) + (Len(d) - n + i)
      BY <3>1, <3>2, <3>3
    <3> QED
      BY <3>1, <3>4, <1>1, <2>1
  <2>4. Newest(r, a)
    BY <2>1, <2>3, <1>1, <1>2 DEF Newest
  <2> QED
    BY <2>1, <2>2, <2>4
<1>3. CASE Len(d) <= n
  <2>1. Log!trim(d, n) = d
    BY <1>1, <1>3 DEF Log!trim
  <2> QED
    BY <2>1, <1>3
<1> QED
  BY <1>1, <1>2, <1>3

(* A newer entry is appended.                                              *)
LEMMA AppendKeepsNewest ==
  ASSUME NEW d, NEW a \in Nat, Newest(d, a)
  PROVE  Newest(Append(d, a + 1), a + 1)
<1>1. d \in Seq(Nat) /\ Len(d) \in Nat /\ Len(d) <= a
  BY DEF Newest
<1>2. /\ Append(d, a + 1) \in Seq(Nat) /\ Len(Append(d, a + 1)) = Len(d) + 1
      /\ \A i \in 1..Len(d) : Append(d, a + 1)[i] = d[i]
      /\ Append(d, a + 1)[Len(d) + 1] = a + 1
  BY <1>1
<1> QED
  BY <1>1, <1>2 DEF Newest

(* The list is empty, and nobody reads it.                                 *)
LEMMA LogBegins == Log!Init => LogInv
<1> SUFFICES ASSUME Log!Init PROVE LogInv
  OBVIOUS
<1>1. ~touched /\ ~freed /\ touched \in BOOLEAN /\ freed \in BOOLEAN
  BY DEF Log!Init
<1>2. LogTyped
  BY LogAssumed DEF Log!Init, LogTyped
<1>3. Newest(m_data, added) /\ Len(m_data) <= m_limit /\ logAt = 0
  BY LogAssumed DEF Log!Init, Newest
<1> QED
  BY <1>1, <1>2, <1>3 DEF LogInv

(* An operation leaves the reader alone but for touching its list: if      *)
(* anybody reads, it is the thread of the operation.                       *)
LEMMA EntersTouches ==
  ASSUME LogInv, NEW t \in Threads, Log!Enters(t)
  PROVE  /\ UNCHANGED <<owner, depth, logAt, seen, freed>>
         /\ touched' \in BOOLEAN /\ freed' \in BOOLEAN
         /\ logAt' # 0 => touched'
         /\ freed' => touched'
<1>1. /\ UNCHANGED <<owner, depth, logAt, seen, freed>>
      /\ owner \in {Nobody, t}
      /\ touched' = (touched \/ (logAt # 0 /\ owner = t))
  BY DEF Log!Enters, Log!readerVars
<1>2. logAt # 0 => owner = t
  BY <1>1 DEF LogInv, LogTyped
<1>3. freed => touched
  BY DEF LogInv
<1>4. freed' \in BOOLEAN
  BY <1>1 DEF LogInv
<1>5. freed' => freed
  BY <1>1
<1>6. logAt' # 0 => logAt # 0
  BY <1>1
<1>7. touched' <=> (touched \/ (logAt # 0 /\ owner = t))
  BY <1>1
<1>8. touched' \in BOOLEAN
  BY <1>1
<1> QED
  BY <1>1, <1>2, <1>3, <1>4, <1>5, <1>6, <1>7, <1>8

(* An operation that leaves the newest entries.                            *)
LEMMA OperationKeeps ==
  ASSUME LogInv, NEW t \in Threads, Log!Enters(t),
         m_limit' \in Limits \cup {0, 1}, added' \in 0..MaxEntries, added <= added',
         Len(m_data') <= m_limit', Newest(m_data', added')
  PROVE  LogInv'
<1>1. /\ UNCHANGED <<owner, depth, logAt, seen, freed>>
      /\ touched' \in BOOLEAN /\ freed' \in BOOLEAN
      /\ logAt' # 0 => touched'
      /\ freed' => touched'
  BY EntersTouches
<1>2. LogTyped'
  <2>1. added \in Nat /\ added' \in Nat /\ logAt \in 0..added
    BY LogAssumed DEF LogInv, LogTyped
  <2> QED
    BY <1>1, <2>1 DEF LogInv, LogTyped
<1> QED
  BY <1>1, <1>2 DEF LogInv

(* The list after an operation: the newest entries up to the limit, and    *)
(* what was there but for those dropped for the limit or by Clear().       *)
LEMMA OperationTrims ==
  ASSUME LogInv, NEW t \in Threads,
         \/ Log!Add(t) \/ Log!Clear(t) \/ \E n \in Limits : Log!SetLimit(t, n)
  PROVE  /\ Log!Enters(t)
         /\ m_limit' \in Limits \cup {0, 1} /\ added' \in 0..MaxEntries /\ added <= added'
         /\ Len(m_data') <= m_limit' /\ Newest(m_data', added')
         /\ \/ ToSet(m_data) \subseteq ToSet(m_data')
            \/ Len(m_data') = m_limit'
            \/ m_data' = << >>
<1>a. /\ m_limit \in Limits \cup {0, 1} /\ added \in 0..MaxEntries /\ added \in Nat
      /\ m_limit \in Nat /\ MaxEntries \in Nat
      /\ Newest(m_data, added) /\ Len(m_data) <= m_limit /\ m_data \in Seq(Nat)
  BY LogAssumed DEF LogInv, LogTyped, Newest
<1>1. CASE Log!Add(t)
  <2>0. Log!Enters(t) /\ UNCHANGED m_limit /\ added < MaxEntries
    BY <1>1 DEF Log!Add
  <2>1. CASE m_limit = 0
    <3>1. UNCHANGED <<m_data, added>>
      BY <1>1, <2>1 DEF Log!Add
    <3> QED
      BY <3>1, <2>0, <1>a
  <2>2. CASE m_limit # 0
    <3> DEFINE d == Append(m_data, added + 1)
    <3>1. m_data' = Log!trim(d, m_limit) /\ added' = added + 1
      BY <1>1, <2>2 DEF Log!Add
    <3>2. Newest(d, added + 1) /\ added + 1 \in Nat
      BY <1>a, AppendKeepsNewest
    <3>3. ToSet(m_data) \subseteq ToSet(d)
      BY <1>a DEF ToSet
    <3> HIDE DEF d
    <3>4. /\ Newest(m_data', added') /\ Len(m_data') <= m_limit
          /\ m_data' = d \/ Len(m_data') = m_limit
      BY <3>1, <3>2, <1>a, TrimKeepsNewest
    <3> QED
      BY <3>1, <3>3, <3>4, <2>0, <1>a
  <2> QED
    BY <2>1, <2>2
<1>2. CASE Log!Clear(t)
  <2>1. Log!Enters(t) /\ m_data' = << >> /\ UNCHANGED <<m_limit, added>>
    BY <1>2 DEF Log!Clear
  <2>2. Newest(<< >>, added) /\ Len(<< >>) = 0
    BY <1>a DEF Newest
  <2> QED
    BY <2>1, <2>2, <1>a
<1>3. ASSUME NEW n \in Limits, Log!SetLimit(t, n)
      PROVE  /\ Log!Enters(t) /\ UNCHANGED added
             /\ m_limit' \in Limits \cup {0, 1}
             /\ Newest(m_data', added) /\ Len(m_data') <= m_limit'
             /\ m_data' = m_data \/ Len(m_data') = m_limit'
  <2>1. /\ Log!Enters(t) /\ UNCHANGED added
        /\ m_limit' = IF n > 1 THEN n ELSE 1
        /\ m_data' = Log!trim(m_data, m_limit')
    BY <1>3 DEF Log!SetLimit
  <2>2. m_limit' \in Limits \cup {0, 1} /\ m_limit' \in Nat
    BY <2>1, LogAssumed
  <2> QED
    BY <2>1, <2>2, <1>a, TrimKeepsNewest
<1>4. CASE \E n \in Limits : Log!SetLimit(t, n)
  BY <1>3, <1>4, <1>a
<1> QED
  BY <1>1, <1>2, <1>4

(* A reader goes from an entry to the next.                                *)
LEMMA ReadKeeps ==
  ASSUME LogInv, ~freed, NEW t \in Threads,
         \/ Log!Read(t) \/ Log!ReadNext(t) \/ Log!ReadEnd(t) \/ Log!ReadErased(t)
  PROVE  LogInv'
<1>a. /\ LogTyped /\ touched \in BOOLEAN /\ freed \in BOOLEAN
      /\ Len(m_data) <= m_limit /\ Newest(m_data, added)
      /\ logAt # 0 /\ ~touched => Reading(m_data)
      /\ freed => touched
  BY DEF LogInv
<1>b. /\ m_data \in Seq(Nat) /\ Len(m_data) \in Nat /\ added \in Nat /\ Len(m_data) <= added
      /\ \A i \in 1..Len(m_data) : m_data[i] \in 1..added
      /\ seen \in Seq(Nat) /\ Len(seen) \in Nat
  BY <1>a, LogAssumed DEF Newest, LogTyped
<1>c. ASSUME NEW i \in 1..Len(m_data), NEW j \in 1..Len(m_data), m_data[i] = m_data[j]
      PROVE  i = j
  BY <1>a, <1>b, <1>c DEF Newest
<1>1. CASE Log!Read(t)
  <2>1. /\ owner = t /\ m_data # << >> /\ logAt' = Head(m_data) /\ seen' = <<logAt'>>
        /\ touched' = FALSE
        /\ UNCHANGED <<m_data, m_limit, added, owner, depth, freed>> /\ logAt = 0
    BY <1>1 DEF Log!Read
  <2>2. logAt' = m_data[1] /\ 1 \in 1..Len(m_data) /\ logAt' \in 1..added
    BY <2>1, <1>b
  <2>3. Len(seen') = 1 /\ seen'[1] = logAt' /\ seen' \in Seq(Nat)
    BY <2>1, <2>2, <1>b
  <2>4. Reading(m_data)'
    BY <2>1, <2>2, <2>3, <1>b DEF Reading
  <2>5. LogTyped'
    BY <2>1, <2>2, <2>3, <1>a, LogAssumed DEF LogTyped
  <2>6. touched' \in BOOLEAN /\ freed' \in BOOLEAN
    BY <2>1, <1>a
  <2>7. ~freed'
    BY <2>1
  <2> QED
    BY <2>1, <2>4, <2>5, <2>6, <2>7, <1>a DEF LogInv
<1>2. CASE Log!ReadNext(t)
  <2>1. PICK i \in 1..Len(m_data) - 1 : /\ m_data[i] = logAt
                                        /\ logAt' = m_data[i + 1]
                                        /\ seen' = Append(seen, logAt')
    BY <1>2 DEF Log!ReadNext
  <2>2. owner = t /\ UNCHANGED <<m_data, m_limit, added, owner, depth, touched, freed>>
    BY <1>2 DEF Log!ReadNext
  <2>3. i \in 1..Len(m_data) /\ i + 1 \in 1..Len(m_data)
        /\ logAt \in 1..added /\ logAt' \in 1..added
    BY <2>1, <1>b
  <2>4. seen' \in Seq(Nat) /\ Len(seen') = Len(seen) + 1
        /\ seen'[Len(seen) + 1] = logAt'
        /\ \A j \in 1..Len(seen) : seen'[j] = seen[j]
    BY <2>1, <2>3, <1>b
  <2>5. ~touched => Reading(m_data)'
    <3> SUFFICES ASSUME ~touched PROVE Reading(m_data)'
      OBVIOUS
    <3>0. logAt # 0
      BY <2>3, <1>b
    <3>1. Reading(m_data)
      BY <1>a, <3>0
    <3>2. Len(seen) = i
      BY <3>1, <2>1, <2>3, <1>c DEF Reading
    <3>3. \A j \in 1..Len(seen) : seen[j] = m_data[j]
      BY <3>1 DEF Reading
    <3> QED
      BY <3>2, <3>3, <2>1, <2>2, <2>3, <2>4, <1>b DEF Reading
  <2>6. LogTyped'
    BY <2>2, <2>3, <2>4, <1>a, LogAssumed DEF LogTyped
  <2> QED
    BY <2>2, <2>5, <2>6, <1>a DEF LogInv
<1>3. CASE Log!ReadEnd(t)
  <2>1. /\ logAt' = 0 /\ seen' = << >> /\ touched' = FALSE
        /\ UNCHANGED <<m_data, m_limit, added, owner, depth, freed>>
    BY <1>3 DEF Log!ReadEnd
  <2>2. LogTyped'
    BY <2>1, <1>a, LogAssumed DEF LogTyped
  <2>3. touched' \in BOOLEAN /\ freed' \in BOOLEAN
    BY <2>1, <1>a
  <2>4. ~freed'
    BY <2>1
  <2> QED
    BY <2>1, <2>2, <2>3, <2>4, <1>a DEF LogInv
<1>4. CASE Log!ReadErased(t)
  <2>1. /\ logAt # 0 /\ logAt \notin ToSet(m_data) /\ freed' = TRUE
        /\ UNCHANGED <<m_data, m_limit, added, owner, depth, logAt, seen, touched>>
    BY <1>4 DEF Log!ReadErased, Log!readerVars, Log!ToSet, ToSet
  <2>2. touched
    <3> SUFFICES ASSUME ~touched PROVE FALSE
      OBVIOUS
    <3>1. Reading(m_data)
      BY <1>a, <2>1
    <3> QED
      BY <3>1, <2>1, <1>b DEF Reading, ToSet
  <2>3. LogTyped'
    BY <2>1, <1>a DEF LogTyped
  <2>4. freed' \in BOOLEAN /\ touched' = touched
    BY <2>1
  <2>5. m_data' = m_data /\ m_limit' = m_limit /\ added' = added
    BY <2>1
  <2> QED
    BY <2>2, <2>3, <2>4, <2>5, <1>a DEF LogInv
<1> QED
  BY <1>1, <1>2, <1>3, <1>4

(* Entering and leaving the lock.                                          *)
LEMMA LockKeeps ==
  ASSUME LogInv, NEW t \in Threads, Log!Lock(t) \/ Log!Unlock(t)
  PROVE  LogInv'
<1>a. /\ LogTyped /\ touched \in BOOLEAN /\ freed \in BOOLEAN
      /\ Len(m_data) <= m_limit /\ Newest(m_data, added)
      /\ logAt # 0 /\ ~touched => Reading(m_data)
      /\ freed => touched
  BY DEF LogInv
<1>1. UNCHANGED <<m_data, m_limit, added, logAt, seen, touched, freed>>
  BY DEF Log!Lock, Log!Unlock
<1>2. LogTyped'
  <2>1. CASE Log!Lock(t)
    <3>1. owner \in {Nobody, t} /\ depth < 2 /\ owner' = t /\ depth' = depth + 1
      BY <2>1 DEF Log!Lock
    <3> QED
      BY <3>1, <1>1, <1>a, LogAssumed DEF LogTyped
  <2>2. CASE Log!Unlock(t)
    <3>1. /\ owner = t /\ logAt = 0 /\ depth' = depth - 1
          /\ owner' = IF depth = 1 THEN Nobody ELSE t
      BY <2>2 DEF Log!Unlock
    <3> QED
      BY <3>1, <1>1, <1>a, LogAssumed DEF LogTyped
  <2> QED
    BY <2>1, <2>2
<1>3. touched' \in BOOLEAN /\ freed' \in BOOLEAN /\ (freed' => touched')
  BY <1>1, <1>a
<1>4. m_data' = m_data /\ m_limit' = m_limit /\ added' = added
  BY <1>1
<1>5. logAt' # 0 /\ ~touched' => Reading(m_data)'
  BY <1>1, <1>a DEF Reading
<1> QED
  BY <1>2, <1>3, <1>4, <1>5, <1>a DEF LogInv

(* Every step of the back log keeps the invariant.                         *)
LEMMA LogKeeps == LogInv /\ Log!Next => LogInv'
<1> SUFFICES ASSUME LogInv, Log!Next PROVE LogInv'
  OBVIOUS
<1>1. PICK t \in Threads : Log!LogNext(t)
  BY DEF Log!Next
<1>0. ~freed
  BY DEF Log!Next
<1>2. CASE Log!Add(t) \/ Log!Clear(t) \/ \E n \in Limits : Log!SetLimit(t, n)
  BY <1>2, OperationTrims, OperationKeeps
<1>3. CASE Log!Lock(t) \/ Log!Unlock(t)
  BY <1>3, LockKeeps
<1>4. CASE Log!Read(t) \/ Log!ReadNext(t) \/ Log!ReadEnd(t) \/ Log!ReadErased(t)
  BY <1>0, <1>4, ReadKeeps
<1> QED
  BY <1>1, <1>2, <1>3, <1>4 DEF Log!LogNext

(* A step drops a message only for the limit, or all of them.              *)
LEMMA LogDrops ==
  LogInv /\ Log!Next => \/ ToSet(m_data) \subseteq ToSet(m_data')
                        \/ Len(m_data') = m_limit'
                        \/ m_data' = << >>
<1> SUFFICES ASSUME LogInv, Log!Next
             PROVE \/ ToSet(m_data) \subseteq ToSet(m_data')
                   \/ Len(m_data') = m_limit'
                   \/ m_data' = << >>
  OBVIOUS
<1>1. PICK t \in Threads : Log!LogNext(t)
  BY DEF Log!Next
<1>2. CASE Log!Add(t) \/ Log!Clear(t) \/ \E n \in Limits : Log!SetLimit(t, n)
  BY <1>2, OperationTrims
<1>3. CASE \/ Log!Lock(t) \/ Log!Unlock(t)
           \/ Log!Read(t) \/ Log!ReadNext(t) \/ Log!ReadEnd(t) \/ Log!ReadErased(t)
  <2>1. m_data' = m_data
    BY <1>3 DEF Log!Lock, Log!Unlock, Log!Read, Log!ReadNext, Log!ReadEnd, Log!ReadErased
  <2> QED
    BY <2>1
<1> QED
  BY <1>1, <1>2, <1>3 DEF Log!LogNext

(* The invariant is what the back log promises.                            *)
LEMMA LogIntact == LogInv => Log!TypeOK /\ Log!NewestKept /\ Log!ReaderIntact
<1> SUFFICES ASSUME LogInv PROVE Log!TypeOK /\ Log!NewestKept /\ Log!ReaderIntact
  OBVIOUS
<1>a. /\ LogTyped /\ touched \in BOOLEAN /\ freed \in BOOLEAN
      /\ Len(m_data) <= m_limit /\ Newest(m_data, added)
      /\ logAt # 0 /\ ~touched => Reading(m_data)
      /\ freed => touched
  BY DEF LogInv
<1>b. /\ m_data \in Seq(Nat) /\ Len(m_data) \in Nat /\ added \in Nat /\ Len(m_data) <= added
      /\ \A i \in 1..Len(m_data) : m_data[i] = added - Len(m_data) + i
      /\ \A i \in 1..Len(m_data) : m_data[i] \in 1..added
  BY <1>a, LogAssumed DEF Newest, LogTyped
<1>c. m_data = [i \in 1..Len(m_data) |-> m_data[i]]
  BY <1>b
<1>1. m_data \in Seq(1..added)
  BY <1>b, <1>c
<1>2. Log!TypeOK
  BY <1>a, <1>1 DEF LogTyped, Log!TypeOK
<1>3. Log!NewestKept
  BY <1>a, <1>b, <1>c DEF Log!NewestKept
<1>4. logAt # 0 /\ ~touched => seen = SubSeq(m_data, 1, Len(seen))
  <2> SUFFICES ASSUME logAt # 0, ~touched PROVE seen = SubSeq(m_data, 1, Len(seen))
    OBVIOUS
  <2>1. Reading(m_data) /\ seen \in Seq(Nat)
    BY <1>a DEF LogTyped
  <2>2. Len(seen) \in 1..Len(m_data) /\ \A i \in 1..Len(seen) : seen[i] = m_data[i]
    BY <2>1 DEF Reading
  <2> DEFINE r == SubSeq(m_data, 1, Len(seen))
  <2>3. r \in Seq(Nat) /\ Len(r) = Len(seen) /\ \A i \in 1..Len(seen) : r[i] = m_data[i]
    BY <2>2, <1>b
  <2> HIDE DEF r
  <2>4. seen = r
    BY <2>1, <2>2, <2>3, SeqEqual
  <2> QED
    BY <2>4 DEF r
<1> QED
  BY <1>a, <1>2, <1>3, <1>4 DEF Log!ReaderIntact

-----------------------------------------------------------------------------
(* The event dispatcher                                                    *)

(* The vector: its sinks are in its first sz slots, none of them twice.    *)
Filled(sl, sz) == /\ sl \in Seq(Sinks \cup {Nobody}) /\ sz \in 0..Len(sl)
                  /\ \A i \in 1..sz : sl[i] \in Sinks
                  /\ \A i, j \in 1..sz : sl[i] = sl[j] => i = j

EventType == [at : Nat, end : Nat, freed : BOOLEAN, start : Seq(Sinks),
              got : Seq(Sinks \cup {Nobody}), removed : SUBSET Sinks, shifts : Nat]

(* A sink that is still in its slot, in front of the place of the loop.    *)
Ahead(e, sl, sz, x) == \E j \in e.at + 1..e.end : j <= sz /\ sl[j] = x

Placed(e, sl) == /\ e.at \in 1..e.end /\ e.end \in 1..Len(sl)
                 /\ Len(e.start) = e.end /\ Len(e.got) = e.at

(* Without a removal the slots are those of the beginning.                 *)
Undisturbed(e, sl, sz) ==
    e.removed = {} => /\ \A j \in 1..e.at : e.got[j] = e.start[j]
                      /\ e.freed = FALSE =>
                           sz >= e.end /\ \A j \in 1..e.end : sl[j] = e.start[j]

(* A slot behind the last sink names one that is registered or was removed *)
(* meanwhile.                                                              *)
LeftBehind(e, sl, sz) ==
    e.freed = FALSE =>
        \A j \in e.at + 1..e.end :
            j > sz => sl[j] \in e.removed \/ \E k \in 1..sz : sl[k] = sl[j]

(* A sink is called, removed, ahead, or one of those a removal skipped.    *)
Accounted(e, sl, sz) ==
    \E f \in [1..e.shifts -> Sinks] :
        \A x \in ToSet(e.start) :
            \/ x \in e.removed \/ x \in ToSet(e.got)
            \/ \E k \in 1..e.shifts : f[k] = x
            \/ Ahead(e, sl, sz, x)

EventGood(e, sl, sz) == /\ e \in EventType /\ Placed(e, sl)
                        /\ Undisturbed(e, sl, sz)
                        /\ LeftBehind(e, sl, sz)
                        /\ Accounted(e, sl, sz)

DispatcherInv == /\ Filled(slots, vectorSize)
                 /\ sent \in 0..MaxEvents /\ changes \in 0..MaxChanges
                 /\ broken \in BOOLEAN
                 /\ events \in Seq(EventType)
                 /\ \A i \in 1..Len(events) : EventGood(events[i], slots, vectorSize)

(* What is assumed of the sinks.                                           *)
LEMMA SinksAssumed ==
  /\ Registered \in Seq(Sinks) /\ MaxEvents \in Nat /\ MaxChanges \in Nat
  /\ Nobody \notin Sinks
  /\ \A i, j \in 1..Len(Registered) : Registered[i] = Registered[j] => i = j
<1>1. /\ Registered \in Seq(Sinks) /\ MaxEvents \in Nat /\ MaxChanges \in Nat
      /\ Nobody \notin Sinks /\ Dispatcher!IsInjective(Registered)
  BY CallbacksAssumption, Zenon
  DEF CallbacksAssumption, Dispatcher!EventDispatcherAssumption
<1> QED
  BY <1>1 DEF Dispatcher!IsInjective

(* The sinks of a vector.                                                  *)
LEMMA SinksOfVector ==
  ASSUME NEW sl, NEW sz, Filled(sl, sz)
  PROVE  /\ SubSeq(sl, 1, sz) \in Seq(Sinks) /\ Len(SubSeq(sl, 1, sz)) = sz
         /\ \A i \in 1..sz : SubSeq(sl, 1, sz)[i] = sl[i]
<1>1. sl \in Seq(Sinks \cup {Nobody}) /\ Len(sl) \in Nat /\ sz \in 0..Len(sl)
      /\ \A i \in 1..sz : sl[i] \in Sinks
  BY DEF Filled
<1>2. sz \in Int /\ 1 \in Int
  BY <1>1
<1> DEFINE r == SubSeq(sl, 1, sz)
<1>3. /\ r \in Seq(Sinks)
      /\ Len(r) = (IF 1 <= sz THEN sz - 1 + 1 ELSE 0)
      /\ \A i \in 1..sz - 1 + 1 : r[i] = sl[1 + i - 1]
  BY <1>1, <1>2, SubSeqProperties
<1> HIDE DEF r
<1>4. Len(r) = sz
  BY <1>1, <1>3
<1>5. \A i \in 1..sz : r[i] = sl[i]
  <2> SUFFICES ASSUME NEW i \in 1..sz PROVE r[i] = sl[i]
    OBVIOUS
  <2>1. i \in 1..sz - 1 + 1 /\ 1 + i - 1 = i
    BY <1>1
  <2> QED
    BY <2>1, <1>3
<1> QED
  BY <1>3, <1>4, <1>5 DEF r

(* An event begins with the sinks of the vector.                           *)
LEMMA EventBegins ==
  ASSUME NEW sl, NEW sz, Filled(sl, sz), sz > 0
  PROVE  EventGood([at |-> 1, end |-> sz, freed |-> FALSE,
                    start |-> SubSeq(sl, 1, sz), got |-> <<sl[1]>>,
                    removed |-> {}, shifts |-> 0], sl, sz)
<1> DEFINE start == SubSeq(sl, 1, sz)
<1> DEFINE e == [at |-> 1, end |-> sz, freed |-> FALSE, start |-> start,
                 got |-> <<sl[1]>>, removed |-> {}, shifts |-> 0]
<1>1. start \in Seq(Sinks) /\ Len(start) = sz /\ \A i \in 1..sz : start[i] = sl[i]
  BY SinksOfVector
<1> HIDE DEF start
<1>2. sl \in Seq(Sinks \cup {Nobody}) /\ Len(sl) \in Nat /\ sz \in 1..Len(sl)
      /\ sl[1] \in Sinks
  BY DEF Filled
<1>3. <<sl[1]>> \in Seq(Sinks \cup {Nobody}) /\ Len(<<sl[1]>>) = 1 /\ <<sl[1]>>[1] = sl[1]
  BY <1>2
<1>4. /\ e.at = 1 /\ e.end = sz /\ e.freed = FALSE /\ e.start = start
      /\ e.got = <<sl[1]>> /\ e.removed = {} /\ e.shifts = 0
  OBVIOUS
<1>5. e \in EventType
  BY <1>1, <1>2, <1>3 DEF EventType
<1> HIDE DEF e
<1>6. Placed(e, sl)
  BY <1>1, <1>2, <1>3, <1>4 DEF Placed
<1>7. Undisturbed(e, sl, sz)
  BY <1>1, <1>2, <1>3, <1>4 DEF Undisturbed
<1>8. LeftBehind(e, sl, sz)
  BY <1>2, <1>4 DEF LeftBehind
<1>9. Accounted(e, sl, sz)
  <2> DEFINE f == [k \in 1..0 |-> sl[1]]
  <2>1. f \in [1..e.shifts -> Sinks]
    BY <1>4
  <2>2. ASSUME NEW x \in ToSet(start)
        PROVE x \in ToSet(e.got) \/ Ahead(e, sl, sz, x)
    <3>1. PICK j \in 1..sz : start[j] = x
      BY <1>1 DEF ToSet
    <3>2. sl[j] = x
      BY <1>1, <3>1
    <3>3. CASE j = 1
      BY <3>2, <3>3, <1>3, <1>4 DEF ToSet
    <3>4. CASE j # 1
      <4>1. j \in e.at + 1..e.end /\ j <= sz
        BY <3>4, <1>2, <1>4
      <4> QED
        BY <4>1, <3>2 DEF Ahead
    <3> QED
      BY <3>3, <3>4
  <2> QED
    BY <2>1, <2>2, <1>4 DEF Accounted
<1> QED
  BY <1>5, <1>6, <1>7, <1>8, <1>9 DEF EventGood, e, start

(* An event that goes on to the next sink.                                 *)
NextOf(e, sl) == [e EXCEPT !.at = e.at + 1, !.got = Append(e.got, sl[e.at + 1])]

(* The next sink is called: it is registered or was removed meanwhile.     *)
LEMMA NextIsCalled ==
  ASSUME NEW sl, NEW sz, Filled(sl, sz), NEW e, EventGood(e, sl, sz),
         e.at < e.end, e.freed \in {FALSE},
         NEW d, d = NextOf(e, sl)
  PROVE  /\ EventGood(d, sl, sz)
         /\ d.at = e.at + 1 /\ d.got = Append(e.got, sl[e.at + 1])
         /\ sl[e.at + 1] \in e.removed \/ \E k \in 1..sz : sl[k] = sl[e.at + 1]
<1>0. /\ e \in EventType /\ Placed(e, sl) /\ Undisturbed(e, sl, sz)
      /\ LeftBehind(e, sl, sz) /\ Accounted(e, sl, sz)
  BY DEF EventGood
<1>1. /\ e.at \in Nat /\ e.end \in Nat /\ e.got \in Seq(Sinks \cup {Nobody})
      /\ sl \in Seq(Sinks \cup {Nobody}) /\ sz \in Nat /\ Len(sl) \in Nat
      /\ e.at \in 1..e.end /\ e.end \in 1..Len(sl) /\ Len(e.got) = e.at
  BY <1>0 DEF EventType, Placed, Filled
<1>f. e.freed = FALSE
  OBVIOUS
<1>2. /\ d.at = e.at + 1 /\ d.end = e.end /\ d.freed = e.freed /\ d.start = e.start
      /\ d.got = Append(e.got, sl[e.at + 1]) /\ d.removed = e.removed
      /\ d.shifts = e.shifts
  BY <1>0 DEF EventType, NextOf
<1>3. e.at + 1 \in 1..Len(sl) /\ e.at + 1 \in e.at + 1..e.end
      /\ sl[e.at + 1] \in Sinks \cup {Nobody}
  BY <1>1
<1>4. /\ d.got \in Seq(Sinks \cup {Nobody}) /\ Len(d.got) = e.at + 1
      /\ d.got[e.at + 1] = sl[e.at + 1]
      /\ \A j \in 1..e.at : d.got[j] = e.got[j]
  BY <1>1, <1>2, <1>3
<1>5. d \in EventType
  <2>1. Append(e.got, sl[e.at + 1]) \in Seq(Sinks \cup {Nobody}) /\ e.at + 1 \in Nat
    BY <1>1, <1>2, <1>4
  <2> QED
    BY <2>1, <1>0 DEF EventType, NextOf
<1>6. Placed(d, sl)
  BY <1>0, <1>1, <1>2, <1>4 DEF Placed
<1>7. Undisturbed(d, sl, sz)
  <2> SUFFICES ASSUME e.removed = {}
               PROVE  /\ \A j \in 1..e.at + 1 : d.got[j] = e.start[j]
                      /\ sz >= e.end /\ \A j \in 1..e.end : sl[j] = e.start[j]
    BY <1>2, <1>f DEF Undisturbed
  <2>1. /\ \A j \in 1..e.at : e.got[j] = e.start[j]
        /\ sz >= e.end /\ \A j \in 1..e.end : sl[j] = e.start[j]
    BY <1>0, <1>f DEF Undisturbed
  <2>2. ASSUME NEW j \in 1..e.at + 1 PROVE d.got[j] = e.start[j]
    <3>1. j \in 1..e.at \/ j = e.at + 1
      BY <1>1
    <3>2. e.at + 1 \in 1..e.end
      BY <1>1
    <3> QED
      BY <3>1, <3>2, <2>1, <1>4
  <2> QED
    BY <2>1, <2>2
<1>8. LeftBehind(d, sl, sz)
  <2>1. \A j \in d.at + 1..d.end : j \in e.at + 1..e.end
    BY <1>1, <1>2
  <2> QED
    BY <2>1, <1>0, <1>2, <1>f DEF LeftBehind
<1>9. Accounted(d, sl, sz)
  <2>1. PICK f \in [1..e.shifts -> Sinks] :
           \A x \in ToSet(e.start) :
               \/ x \in e.removed \/ x \in ToSet(e.got)
               \/ \E k \in 1..e.shifts : f[k] = x
               \/ Ahead(e, sl, sz, x)
    BY <1>0 DEF Accounted
  <2>2. ASSUME NEW x, x \in ToSet(e.got) PROVE x \in ToSet(d.got)
    <3>1. PICK j \in 1..e.at : e.got[j] = x
      BY <2>2, <1>1 DEF ToSet
    <3>2. j \in DOMAIN d.got /\ d.got[j] = x
      BY <3>1, <1>1, <1>4
    <3> QED
      BY <3>2 DEF ToSet
  <2>3. ASSUME NEW x, Ahead(e, sl, sz, x) PROVE x \in ToSet(d.got) \/ Ahead(d, sl, sz, x)
    <3>1. PICK j \in e.at + 1..e.end : j <= sz /\ sl[j] = x
      BY <2>3 DEF Ahead
    <3>2. CASE j = e.at + 1
      <4>1. e.at + 1 \in DOMAIN d.got /\ d.got[e.at + 1] = x
        BY <3>1, <3>2, <1>1, <1>4
      <4> QED
        BY <4>1 DEF ToSet
    <3>3. CASE j # e.at + 1
      <4>1. j \in d.at + 1..d.end
        BY <3>1, <3>3, <1>1, <1>2
      <4> QED
        BY <4>1, <3>1 DEF Ahead
    <3> QED
      BY <3>2, <3>3
  <2>4. \A x \in ToSet(d.start) :
           \/ x \in d.removed \/ x \in ToSet(d.got)
           \/ \E k \in 1..d.shifts : f[k] = x
           \/ Ahead(d, sl, sz, x)
    BY <2>1, <2>2, <2>3, <1>2
  <2> QED
    BY <2>4, <1>2 DEF Accounted
<1>10. sl[e.at + 1] \in e.removed \/ \E k \in 1..sz : sl[k] = sl[e.at + 1]
  <2>1. CASE e.at + 1 <= sz
    BY <2>1, <1>1
  <2>2. CASE ~(e.at + 1 <= sz)
    <3>1. e.at + 1 > sz
      BY <2>2, <1>1
    <3> QED
      BY <3>1, <1>0, <1>3, <1>f DEF LeftBehind
  <2> QED
    BY <2>1, <2>2
<1> QED
  BY <1>2, <1>5, <1>6, <1>7, <1>8, <1>9, <1>10 DEF EventGood

(* A sink is appended in a slot behind the last.                           *)
LEMMA AddKeepsEvent ==
  ASSUME NEW sl, NEW sz, Filled(sl, sz), NEW e, EventGood(e, sl, sz),
         NEW s \in Sinks, sz < Len(sl),
         NEW tl, tl = [sl EXCEPT ![sz + 1] = s]
  PROVE  EventGood(e, tl, sz + 1)
<1>0. /\ e \in EventType /\ Placed(e, sl) /\ Undisturbed(e, sl, sz)
      /\ LeftBehind(e, sl, sz) /\ Accounted(e, sl, sz)
  BY DEF EventGood
<1>1. /\ e.at \in Nat /\ e.end \in Nat
      /\ sl \in Seq(Sinks \cup {Nobody}) /\ sz \in Nat /\ Len(sl) \in Nat
      /\ e.end \in 1..Len(sl)
  BY <1>0 DEF EventType, Placed, Filled
<1>2. /\ Len(tl) = Len(sl) /\ tl[sz + 1] = s
      /\ \A j \in 1..Len(sl) : j # sz + 1 => tl[j] = sl[j]
  BY <1>1
<1>3. Placed(e, tl)
  BY <1>0, <1>2 DEF Placed
<1>4. Undisturbed(e, tl, sz + 1)
  BY <1>0, <1>1, <1>2 DEF Undisturbed
<1>5. LeftBehind(e, tl, sz + 1)
  <2> SUFFICES ASSUME e.freed = FALSE, NEW j \in e.at + 1..e.end, j > sz + 1
               PROVE  tl[j] \in e.removed \/ \E k \in 1..sz + 1 : tl[k] = tl[j]
    BY DEF LeftBehind
  <2>1. tl[j] = sl[j] /\ j > sz
    BY <1>1, <1>2
  <2>2. sl[j] \in e.removed \/ \E k \in 1..sz : sl[k] = sl[j]
    BY <1>0, <2>1 DEF LeftBehind
  <2>3. \A k \in 1..sz : tl[k] = sl[k] /\ k \in 1..sz + 1
    BY <1>1, <1>2 DEF Filled
  <2> QED
    BY <2>1, <2>2, <2>3
<1>6. Accounted(e, tl, sz + 1)
  <2>1. ASSUME NEW x, Ahead(e, sl, sz, x) PROVE Ahead(e, tl, sz + 1, x)
    <3>1. PICK j \in e.at + 1..e.end : j <= sz /\ sl[j] = x
      BY <2>1 DEF Ahead
    <3>2. j <= sz + 1 /\ tl[j] = x
      BY <3>1, <1>1, <1>2
    <3> QED
      BY <3>1, <3>2 DEF Ahead
  <2> QED
    BY <2>1, <1>0 DEF Accounted
<1> QED
  BY <1>0, <1>3, <1>4, <1>5, <1>6 DEF EventGood

(* The vector grows into new memory with the sinks it had and one more.    *)
LEMMA GrowKeepsEvent ==
  ASSUME NEW sl, NEW sz, Filled(sl, sz), NEW e, EventGood(e, sl, sz),
         sz = Len(sl), NEW tl, tl \in Seq(Sinks \cup {Nobody}), Len(tl) >= sz + 1,
         \A j \in 1..sz : tl[j] = sl[j],
         NEW d, d = [e EXCEPT !.freed = TRUE]
  PROVE  EventGood(d, tl, sz + 1)
<1>0. /\ e \in EventType /\ Placed(e, sl) /\ Undisturbed(e, sl, sz)
      /\ LeftBehind(e, sl, sz) /\ Accounted(e, sl, sz)
  BY DEF EventGood
<1>1. /\ e.at \in Nat /\ e.end \in Nat
      /\ sz \in Nat /\ Len(sl) \in Nat /\ Len(tl) \in Nat
      /\ e.end \in 1..Len(sl)
  BY <1>0 DEF EventType, Placed, Filled
<1>2. /\ d.at = e.at /\ d.end = e.end /\ d.freed = TRUE /\ d.start = e.start
      /\ d.got = e.got /\ d.removed = e.removed /\ d.shifts = e.shifts
      /\ d \in EventType
  BY <1>0 DEF EventType
<1>3. Placed(d, tl)
  BY <1>0, <1>1, <1>2 DEF Placed
<1>4. Undisturbed(d, tl, sz + 1) /\ LeftBehind(d, tl, sz + 1)
  BY <1>0, <1>2 DEF Undisturbed, LeftBehind
<1>5. Accounted(d, tl, sz + 1)
  <2>1. ASSUME NEW x, Ahead(e, sl, sz, x) PROVE Ahead(d, tl, sz + 1, x)
    <3>1. PICK j \in e.at + 1..e.end : j <= sz /\ sl[j] = x
      BY <2>1 DEF Ahead
    <3>2. j <= sz + 1 /\ tl[j] = x /\ j \in d.at + 1..d.end
      BY <3>1, <1>1, <1>2
    <3> QED
      BY <3>1, <3>2 DEF Ahead
  <2>2. PICK f \in [1..e.shifts -> Sinks] :
           \A x \in ToSet(e.start) :
               \/ x \in e.removed \/ x \in ToSet(e.got)
               \/ \E k \in 1..e.shifts : f[k] = x
               \/ Ahead(e, sl, sz, x)
    BY <1>0 DEF Accounted
  <2>3. \A x \in ToSet(d.start) :
           \/ x \in d.removed \/ x \in ToSet(d.got)
           \/ \E k \in 1..d.shifts : f[k] = x
           \/ Ahead(d, tl, sz + 1, x)
    BY <2>1, <2>2, <1>2
  <2> QED
    BY <2>3, <1>2 DEF Accounted
<1> QED
  BY <1>2, <1>3, <1>4, <1>5 DEF EventGood

(* The slots after the sink in slot i was erased.                          *)
Erased(sl, sz, i) == [j \in 1..Len(sl) |-> IF j \in i..(sz - 1) THEN sl[j + 1] ELSE sl[j]]

LEMMA ErasedSlots ==
  ASSUME NEW sl, NEW sz, Filled(sl, sz), NEW i \in 1..sz
  PROVE  /\ Erased(sl, sz, i) \in Seq(Sinks \cup {Nobody})
         /\ Len(Erased(sl, sz, i)) = Len(sl)
         /\ \A j \in 1..Len(sl) : j \notin i..(sz - 1) => Erased(sl, sz, i)[j] = sl[j]
         /\ \A j \in i..(sz - 1) : Erased(sl, sz, i)[j] = sl[j + 1]
<1>1. /\ sl \in Seq(Sinks \cup {Nobody}) /\ Len(sl) \in Nat /\ sz \in 0..Len(sl)
      /\ \A j \in 1..Len(sl) : sl[j] \in Sinks \cup {Nobody}
  BY DEF Filled
<1>2. \A j \in i..(sz - 1) : j \in 1..Len(sl) /\ j + 1 \in 1..Len(sl)
  BY <1>1
<1>3. Erased(sl, sz, i) \in [1..Len(sl) -> Sinks \cup {Nobody}]
  BY <1>1, <1>2 DEF Erased
<1>4. Erased(sl, sz, i) \in Seq(Sinks \cup {Nobody}) /\ Len(Erased(sl, sz, i)) = Len(sl)
  BY <1>1, <1>3
<1> QED
  BY <1>2, <1>4 DEF Erased

(* Who is in the vector after the removal: all but the removed.            *)
LEMMA ErasedHolds ==
  ASSUME NEW sl, NEW sz, Filled(sl, sz), NEW i \in 1..sz, NEW k \in 1..sz, k # i
  PROVE  \E j \in 1..sz - 1 : /\ Erased(sl, sz, i)[j] = sl[k]
                              /\ j = k \/ j = k - 1
                              /\ j = k <=> k < i
<1>1. sz \in Nat /\ Len(sl) \in Nat /\ sz <= Len(sl)
  BY DEF Filled
<1>2. CASE k < i
  <2>1. k \in 1..sz - 1 /\ k \in 1..Len(sl) /\ k \notin i..(sz - 1)
    BY <1>1, <1>2
  <2>2. Erased(sl, sz, i)[k] = sl[k]
    BY <2>1, ErasedSlots
  <2> QED
    BY <2>1, <2>2, <1>2
<1>3. CASE k > i
  <2>1. k - 1 \in 1..sz - 1 /\ k - 1 \in i..(sz - 1) /\ (k - 1) + 1 = k
    BY <1>1, <1>3
  <2>2. Erased(sl, sz, i)[k - 1] = sl[k]
    BY <2>1, ErasedSlots
  <2>3. ~(k < i) /\ k - 1 # k
    BY <1>3
  <2> QED
    BY <2>1, <2>2, <2>3
<1> QED
  BY <1>1, <1>2, <1>3

(* The vector stays without a gap and without a sink twice.                *)
LEMMA ErasedFilled ==
  ASSUME NEW sl, NEW sz, Filled(sl, sz), NEW i \in 1..sz
  PROVE  /\ Filled(Erased(sl, sz, i), sz - 1)
         /\ \A j \in 1..sz - 1 : \E k \in 1..sz :
               k # i /\ Erased(sl, sz, i)[j] = sl[k] /\ k = IF j < i THEN j ELSE j + 1
<1> DEFINE tl == Erased(sl, sz, i)
<1>1. /\ sz \in Nat /\ Len(sl) \in Nat /\ sz <= Len(sl)
      /\ \A j \in 1..sz : sl[j] \in Sinks
      /\ \A j, k \in 1..sz : sl[j] = sl[k] => j = k
  BY DEF Filled
<1>2. /\ tl \in Seq(Sinks \cup {Nobody}) /\ Len(tl) = Len(sl)
      /\ \A j \in 1..Len(sl) : j \notin i..(sz - 1) => tl[j] = sl[j]
      /\ \A j \in i..(sz - 1) : tl[j] = sl[j + 1]
  BY ErasedSlots
<1> HIDE DEF tl
<1>3. ASSUME NEW j \in 1..sz - 1
      PROVE  LET k == IF j < i THEN j ELSE j + 1 IN
             k \in 1..sz /\ k # i /\ tl[j] = sl[k]
  <2>1. CASE j < i
    BY <2>1, <1>1, <1>2
  <2>2. CASE ~(j < i)
    <3>1. j \in i..(sz - 1)
      BY <2>2, <1>1
    <3> QED
      BY <3>1, <2>2, <1>1, <1>2
  <2> QED
    BY <2>1, <2>2
<1>4. \A j \in 1..sz - 1 : tl[j] \in Sinks
  BY <1>1, <1>3
<1>5. ASSUME NEW j \in 1..sz - 1, NEW m \in 1..sz - 1, tl[j] = tl[m] PROVE j = m
  <2> DEFINE k == IF j < i THEN j ELSE j + 1
  <2> DEFINE n == IF m < i THEN m ELSE m + 1
  <2>1. k \in 1..sz /\ n \in 1..sz /\ sl[k] = sl[n]
    BY <1>3, <1>5
  <2>2. k = n
    <3> HIDE DEF k, n
    <3> QED
      BY <2>1, <1>1
  <2> QED
    BY <2>2, <1>1
<1>6. Filled(tl, sz - 1)
  BY <1>1, <1>2, <1>4, <1>5 DEF Filled
<1> QED
  BY <1>3, <1>6 DEF tl

(* A sink is removed: if it was at or before the place of an event, that   *)
(* event may pass over one other.                                          *)
LEMMA RemoveKeepsEvent ==
  ASSUME NEW sl, NEW sz, Filled(sl, sz), NEW e, EventGood(e, sl, sz),
         NEW i \in 1..sz, NEW s \in Sinks, sl[i] = s,
         NEW d, d = [e EXCEPT !.removed = @ \cup {s},
                              !.shifts = IF i <= e.at THEN @ + 1 ELSE @]
  PROVE  EventGood(d, Erased(sl, sz, i), sz - 1)
<1> DEFINE tl == Erased(sl, sz, i)
<1>0. /\ e \in EventType /\ Placed(e, sl) /\ LeftBehind(e, sl, sz)
      /\ Accounted(e, sl, sz)
  BY DEF EventGood
<1>1. /\ e.at \in Nat /\ e.end \in Nat /\ e.shifts \in Nat
      /\ e.removed \in SUBSET Sinks /\ e.at \in 1..e.end
      /\ sl \in Seq(Sinks \cup {Nobody}) /\ sz \in Nat /\ Len(sl) \in Nat
      /\ e.end \in 1..Len(sl) /\ sz <= Len(sl)
      /\ \A j \in 1..sz : sl[j] \in Sinks
      /\ \A j, k \in 1..sz : sl[j] = sl[k] => j = k
  BY <1>0 DEF EventType, Placed, Filled
<1>2. /\ Len(tl) = Len(sl)
      /\ \A j \in 1..Len(sl) : j \notin i..(sz - 1) => tl[j] = sl[j]
      /\ \A j \in i..(sz - 1) : tl[j] = sl[j + 1]
  BY ErasedSlots
<1>h. \A k \in 1..sz : k # i => \E j \in 1..sz - 1 :
                           /\ tl[j] = sl[k]
                           /\ j = k \/ j = k - 1
                           /\ j = k <=> k < i
  BY ErasedHolds
<1> HIDE DEF tl
<1>3. /\ d.at = e.at /\ d.end = e.end /\ d.freed = e.freed /\ d.start = e.start
      /\ d.got = e.got /\ d.removed = e.removed \cup {s}
      /\ d.shifts = (IF i <= e.at THEN e.shifts + 1 ELSE e.shifts)
  BY <1>0 DEF EventType
<1>4. d \in EventType
  <2>1. e.removed \cup {s} \in SUBSET Sinks
        /\ (IF i <= e.at THEN e.shifts + 1 ELSE e.shifts) \in Nat
    BY <1>1
  <2> QED
    BY <2>1, <1>0 DEF EventType
<1>5. Placed(d, tl)
  BY <1>0, <1>2, <1>3 DEF Placed
<1>6. Undisturbed(d, tl, sz - 1)
  BY <1>3 DEF Undisturbed
<1>7. LeftBehind(d, tl, sz - 1)
  <2> SUFFICES ASSUME e.freed = FALSE, NEW j \in e.at + 1..e.end, j > sz - 1
               PROVE  tl[j] \in d.removed \/ \E m \in 1..sz - 1 : tl[m] = tl[j]
    BY <1>3 DEF LeftBehind
  <2>1. tl[j] = sl[j]
    BY <1>1, <1>2
  <2>2. \A k \in 1..sz : sl[k] = s \/ \E m \in 1..sz - 1 : tl[m] = sl[k]
    BY <1>h
  <2>3. CASE j = sz
    BY <2>1, <2>2, <2>3, <1>1, <1>3
  <2>4. CASE j > sz
    <3>1. sl[j] \in e.removed \/ \E k \in 1..sz : sl[k] = sl[j]
      BY <2>4, <1>0 DEF LeftBehind
    <3> QED
      BY <3>1, <2>1, <2>2, <1>3
  <2> QED
    BY <2>3, <2>4, <1>1
<1>8. Accounted(d, tl, sz - 1)
  <2>1. PICK f \in [1..e.shifts -> Sinks] :
           \A x \in ToSet(e.start) :
               \/ x \in e.removed \/ x \in ToSet(e.got)
               \/ \E k \in 1..e.shifts : f[k] = x
               \/ Ahead(e, sl, sz, x)
    BY <1>0 DEF Accounted
  <2>2. CASE i <= e.at
    <3> DEFINE n == e.at + 1
    <3> DEFINE y == IF n <= sz THEN sl[n] ELSE s
    <3> DEFINE g == [k \in 1..e.shifts + 1 |-> IF k <= e.shifts THEN f[k] ELSE y]
    <3>1. y \in Sinks
      BY <1>1
    <3>2. n <= sz => y = sl[n]
      OBVIOUS
    <3>3. n \in Nat /\ n = e.at + 1
      BY <1>1
    <3> HIDE DEF y, n
    <3>4. g \in [1..e.shifts + 1 -> Sinks]
      BY <3>1, <1>1
    <3>5. g[e.shifts + 1] = y /\ e.shifts + 1 \in 1..e.shifts + 1
          /\ \A k \in 1..e.shifts : g[k] = f[k] /\ k \in 1..e.shifts + 1
      BY <1>1
    <3> HIDE DEF g
    <3>6. ASSUME NEW x, Ahead(e, sl, sz, x) PROVE x = y \/ Ahead(d, tl, sz - 1, x)
      <4>1. PICK k \in n..e.end : k <= sz /\ sl[k] = x
        BY <3>6, <3>3 DEF Ahead
      <4>2. CASE k = n
        BY <4>1, <4>2, <3>2
      <4>3. CASE k # n
        <5>1. k \in 1..sz /\ k > i /\ k - 1 \in n..e.end
          BY <4>1, <4>3, <3>3, <2>2, <1>1
        <5>2. \E m \in 1..sz - 1 : tl[m] = sl[k] /\ m = k - 1
          BY <5>1, <1>h
        <5> QED
          BY <5>1, <5>2, <4>1, <3>3, <1>1, <1>3 DEF Ahead
      <4> QED
        BY <4>2, <4>3
    <3>7. \A x \in ToSet(d.start) :
             \/ x \in d.removed \/ x \in ToSet(d.got)
             \/ \E k \in 1..e.shifts + 1 : g[k] = x
             \/ Ahead(d, tl, sz - 1, x)
      BY <3>5, <3>6, <2>1, <1>3
    <3>8. d.shifts = e.shifts + 1
      BY <2>2, <1>3
    <3> QED
      BY <3>4, <3>7, <3>8 DEF Accounted
  <2>3. CASE ~(i <= e.at)
    <3>1. ASSUME NEW x, Ahead(e, sl, sz, x) PROVE x = s \/ Ahead(d, tl, sz - 1, x)
      <4>1. PICK k \in e.at + 1..e.end : k <= sz /\ sl[k] = x
        BY <3>1 DEF Ahead
      <4>2. CASE k = i
        BY <4>1, <4>2
      <4>3. CASE k # i
        <5>1. k \in 1..sz
          BY <4>1, <1>1
        <5>2. PICK m \in 1..sz - 1 : /\ tl[m] = sl[k]
                                     /\ m = k \/ m = k - 1
                                     /\ m = k <=> k < i
          BY <5>1, <4>3, <1>h
        <5>3. m \in e.at + 1..e.end /\ m <= sz - 1
          BY <5>1, <5>2, <4>1, <4>3, <2>3, <1>1
        <5> QED
          BY <5>2, <5>3, <4>1, <1>3 DEF Ahead
      <4> QED
        BY <4>2, <4>3
    <3>2. d.shifts = e.shifts
      BY <2>3, <1>3
    <3>3. \A x \in ToSet(d.start) :
             \/ x \in d.removed \/ x \in ToSet(d.got)
             \/ \E k \in 1..d.shifts : f[k] = x
             \/ Ahead(d, tl, sz - 1, x)
      BY <3>1, <3>2, <2>1, <1>3
    <3> QED
      BY <3>2, <3>3 DEF Accounted
  <2> QED
    BY <2>2, <2>3
<1> QED
  BY <1>4, <1>5, <1>6, <1>7, <1>8 DEF EventGood, tl

(* The events after those of a list were changed one by one.               *)
LEMMA EachEvent ==
  ASSUME NEW old \in Seq(EventType), NEW new, DOMAIN new = 1..Len(old),
         new = [i \in 1..Len(old) |-> new[i]],
         \A i \in 1..Len(old) : new[i] \in EventType
  PROVE  new \in Seq(EventType) /\ Len(new) = Len(old)
<1>1. new \in [1..Len(old) -> EventType] /\ Len(old) \in Nat
  OBVIOUS
<1> QED
  BY <1>1

(* At the beginning there is no event.                                     *)
LEMMA DispatcherBegins == Dispatcher!Init => DispatcherInv
<1> SUFFICES ASSUME Dispatcher!Init PROVE DispatcherInv
  OBVIOUS
<1>1. /\ slots = Registered /\ vectorSize = Len(Registered)
      /\ events = << >> /\ sent = 0 /\ changes = 0 /\ broken = FALSE
  BY DEF Dispatcher!Init
<1>2. Filled(slots, vectorSize)
  <2>1. /\ Registered \in Seq(Sinks) /\ Len(Registered) \in Nat
        /\ \A i \in 1..Len(Registered) : Registered[i] \in Sinks
        /\ \A i, j \in 1..Len(Registered) : Registered[i] = Registered[j] => i = j
    BY SinksAssumed
  <2>2. Registered \in Seq(Sinks \cup {Nobody})
    BY <2>1
  <2> QED
    BY <1>1, <2>1, <2>2 DEF Filled
<1>3. events \in Seq(EventType) /\ Len(events) = 0
  BY <1>1
<1>4. broken \in BOOLEAN
  BY <1>1
<1> QED
  BY <1>1, <1>2, <1>3, <1>4, SinksAssumed DEF DispatcherInv

(* A sink is called, and an event is sent inside it or from outside.       *)
LEMMA SendKeeps == DispatcherInv /\ Dispatcher!SendEvent => DispatcherInv'
<1> SUFFICES ASSUME DispatcherInv, Dispatcher!SendEvent PROVE DispatcherInv'
  OBVIOUS
<1> DEFINE e == [at |-> 1, end |-> vectorSize, freed |-> FALSE,
                 start |-> SubSeq(slots, 1, vectorSize), got |-> <<slots[1]>>,
                 removed |-> {}, shifts |-> 0]
<1>1. /\ sent < MaxEvents /\ vectorSize > 0 /\ events' = Append(events, e)
      /\ sent' = sent + 1 /\ slots' = slots /\ vectorSize' = vectorSize
      /\ changes' = changes /\ broken' = broken
  BY DEF Dispatcher!SendEvent, Dispatcher!m_sinks
<1>2. /\ Filled(slots, vectorSize) /\ events \in Seq(EventType)
      /\ \A i \in 1..Len(events) : EventGood(events[i], slots, vectorSize)
      /\ sent \in 0..MaxEvents /\ changes \in 0..MaxChanges /\ broken \in BOOLEAN
  BY DEF DispatcherInv
<1>3. EventGood(e, slots, vectorSize)
  BY <1>1, <1>2, EventBegins
<1> HIDE DEF e
<1>4. e \in EventType
  BY <1>3 DEF EventGood
<1>5. /\ events' \in Seq(EventType) /\ Len(events') = Len(events) + 1
      /\ events'[Len(events) + 1] = e
      /\ \A i \in 1..Len(events) : events'[i] = events[i]
  BY <1>1, <1>2, <1>4
<1>6. \A i \in 1..Len(events') : EventGood(events'[i], slots, vectorSize)
  <2> SUFFICES ASSUME NEW i \in 1..Len(events')
               PROVE  EventGood(events'[i], slots, vectorSize)
    OBVIOUS
  <2>1. i \in 1..Len(events) \/ i = Len(events) + 1
    BY <1>2, <1>5
  <2> QED
    BY <2>1, <1>2, <1>3, <1>5
<1>7. sent' \in 0..MaxEvents
  BY <1>1, <1>2, SinksAssumed
<1>8. broken' \in BOOLEAN
  BY <1>1, <1>2
<1> QED
  BY <1>1, <1>2, <1>5, <1>6, <1>7, <1>8 DEF DispatcherInv

(* The loop goes on: only the innermost event moves, and it calls a sink   *)
(* that is registered or was removed meanwhile.                            *)
LEMMA AdvanceKeeps ==
  ASSUME DispatcherInv, Dispatcher!Advance
  PROVE  /\ DispatcherInv' /\ Len(events') = Len(events)
         /\ \A i \in 1..Len(events) :
               \/ events'[i] = events[i]
               \/ Last(events'[i].got) \in events[i].removed
                                    \cup {slots[k] : k \in 1..vectorSize}
<1> DEFINE n == Len(events)
<1> DEFINE e == events[n]
<1> DEFINE d == [e EXCEPT !.at = e.at + 1, !.got = Append(@, slots[e.at + 1])]
<1>1. /\ Filled(slots, vectorSize) /\ events \in Seq(EventType)
      /\ \A i \in 1..Len(events) : EventGood(events[i], slots, vectorSize)
      /\ sent \in 0..MaxEvents /\ changes \in 0..MaxChanges /\ broken \in BOOLEAN
  BY DEF DispatcherInv
<1>2. /\ events # << >> /\ e.at < e.end
      /\ slots' = slots /\ vectorSize' = vectorSize
      /\ sent' = sent /\ changes' = changes
  BY DEF Dispatcher!Advance, Dispatcher!Last
<1>3. n \in 1..Len(events) /\ n \in Nat
  BY <1>1, <1>2
<1>4. CASE e.freed
  <2>1. events' = events /\ broken' = TRUE
    BY <1>4 DEF Dispatcher!Advance, Dispatcher!Last
  <2>2. broken' \in BOOLEAN
    BY <2>1
  <2> QED
    BY <1>1, <1>2, <2>1, <2>2 DEF DispatcherInv
<1>5. CASE ~e.freed
  <2>1. /\ events' = [events EXCEPT ![n].at = e.at + 1,
                                    ![n].got = Append(@, slots[e.at + 1])]
        /\ broken' = broken
    BY <1>5 DEF Dispatcher!Advance, Dispatcher!Last
  <2>2. events' = [events EXCEPT ![n] = d]
    BY <2>1, Zenon
  <2>3. EventGood(e, slots, vectorSize) /\ e.freed = FALSE
    <3>1. EventGood(e, slots, vectorSize)
      BY <1>1, <1>3
    <3>2. e.freed \in BOOLEAN
      BY <3>1 DEF EventGood, EventType
    <3> QED
      BY <3>1, <3>2, <1>5
  <2>4. /\ EventGood(d, slots, vectorSize)
        /\ d.got = Append(e.got, slots[e.at + 1])
        /\ slots[e.at + 1] \in e.removed \/ \E k \in 1..vectorSize : slots[k] = slots[e.at + 1]
    <3>1. d = NextOf(e, slots)
      BY DEF NextOf
    <3> HIDE DEF d, e, n
    <3> QED
      <4>1. Filled(slots, vectorSize) /\ EventGood(e, slots, vectorSize)
            /\ e.freed \in {FALSE}
        BY <1>1, <2>3
      <4>2. e.at < e.end
        BY <1>2
      <4> QED
        BY <3>1, <4>1, <4>2, NextIsCalled
  <2>5. e.got \in Seq(Sinks \cup {Nobody}) /\ slots[e.at + 1] \in Sinks \cup {Nobody}
    <3>1. e.got \in Seq(Sinks \cup {Nobody}) /\ e.at \in Nat /\ e.end \in 1..Len(slots)
          /\ e.at \in 1..e.end
      BY <2>3 DEF EventGood, EventType, Placed
    <3>2. slots \in Seq(Sinks \cup {Nobody}) /\ Len(slots) \in Nat
      BY <1>1 DEF Filled
    <3> QED
      BY <3>1, <3>2, <1>2
  <2>6. Last(d.got) = slots[e.at + 1]
    BY <2>4, <2>5 DEF Last
  <2> DEFINE held == e.removed \cup {slots[k] : k \in 1..vectorSize}
  <2>7. Last(d.got) \in held
    BY <2>4, <2>6
  <2>8. d \in EventType
    BY <2>4 DEF EventGood
  <2> HIDE DEF d
  <2>9. /\ events' \in Seq(EventType) /\ Len(events') = n
        /\ events'[n] = d /\ \A i \in 1..n : i # n => events'[i] = events[i]
    BY <1>1, <1>3, <2>2, <2>8
  <2>10. \A i \in 1..Len(events') : EventGood(events'[i], slots, vectorSize)
    BY <2>4, <2>9, <1>1
  <2>11. DispatcherInv'
    BY <1>1, <1>2, <2>1, <2>9, <2>10 DEF DispatcherInv
  <2> QED
    BY <2>7, <2>9, <2>11
<1> QED
  BY <1>4, <1>5

(* An event ends.                                                          *)
LEMMA FinishKeeps ==
  ASSUME DispatcherInv, Dispatcher!Finish
  PROVE  /\ DispatcherInv' /\ Len(events') = Len(events) - 1 /\ Len(events) \in Nat \ {0}
         /\ \A i \in 1..Len(events') : events'[i] = events[i]
         /\ events[Len(events)].at = events[Len(events)].end
<1>1. /\ Filled(slots, vectorSize) /\ events \in Seq(EventType)
      /\ \A i \in 1..Len(events) : EventGood(events[i], slots, vectorSize)
      /\ sent \in 0..MaxEvents /\ changes \in 0..MaxChanges /\ broken \in BOOLEAN
  BY DEF DispatcherInv
<1>2. /\ events # << >> /\ events[Len(events)].at = events[Len(events)].end
      /\ events' = SubSeq(events, 1, Len(events) - 1)
      /\ slots' = slots /\ vectorSize' = vectorSize /\ broken' = broken
      /\ \/ sent' = 0 /\ changes' = 0
         \/ sent' = sent /\ changes' = changes
  BY DEF Dispatcher!Finish, Dispatcher!Leave, Dispatcher!Last, Dispatcher!Front
<1>3. Len(events) \in Nat \ {0}
  BY <1>1, <1>2
<1> DEFINE m == Len(events) - 1
<1>4. m \in Nat /\ \A i \in 1..m : events[i] \in EventType
  BY <1>1, <1>3
<1>5. /\ events' \in Seq(EventType) /\ Len(events') = m
      /\ \A i \in 1..m : events'[i] = events[i]
  <2> DEFINE r == SubSeq(events, 1, m)
  <2>1. /\ r \in Seq(EventType)
        /\ Len(r) = (IF 1 <= m THEN m - 1 + 1 ELSE 0)
        /\ \A i \in 1..m - 1 + 1 : r[i] = events[1 + i - 1]
    BY <1>4, SubSeqProperties
  <2> HIDE DEF r
  <2>2. Len(r) = m
    <3> HIDE DEF m
    <3> QED
      BY <1>4, <2>1
  <2>3. ASSUME NEW i \in 1..m PROVE r[i] = events[i]
    <3>1. i \in 1..m - 1 + 1 /\ 1 + i - 1 = i
      BY <1>4
    <3> QED
      BY <2>1, <3>1
  <2>4. events' = r
    BY <1>2 DEF r
  <2> QED
    BY <2>1, <2>2, <2>3, <2>4
<1>6. \A i \in 1..Len(events') : EventGood(events'[i], slots, vectorSize)
  BY <1>1, <1>3, <1>5
<1>7. sent' \in 0..MaxEvents /\ changes' \in 0..MaxChanges
  BY <1>1, <1>2, SinksAssumed
<1>8. broken' \in BOOLEAN
  BY <1>1, <1>2
<1> QED
  BY <1>2, <1>3, <1>5, <1>6, <1>7, <1>8 DEF DispatcherInv

(* A change of the vector is counted within an event.                      *)
LEMMA ChangeCounts ==
  ASSUME changes \in 0..MaxChanges, Dispatcher!Change
  PROVE  changes' \in 0..MaxChanges /\ sent' = sent /\ broken' = broken
  BY SinksAssumed DEF Dispatcher!Change

(* A sink is added, within the capacity of the vector or beyond it.        *)
LEMMA AddKeeps ==
  ASSUME DispatcherInv, NEW s \in Sinks, Dispatcher!AddSink(s)
  PROVE  /\ DispatcherInv' /\ Len(events') = Len(events)
         /\ \A i \in 1..Len(events) : events'[i].at = events[i].at
<1>1. /\ Filled(slots, vectorSize) /\ events \in Seq(EventType)
      /\ \A i \in 1..Len(events) : EventGood(events[i], slots, vectorSize)
      /\ sent \in 0..MaxEvents /\ changes \in 0..MaxChanges /\ broken \in BOOLEAN
  BY DEF DispatcherInv
<1>2. /\ s \notin ToSet(SubSeq(slots, 1, vectorSize)) /\ Dispatcher!Change
      /\ vectorSize' = vectorSize + 1
  BY DEF Dispatcher!AddSink, Dispatcher!m_sinks, Dispatcher!ToSet, ToSet
<1>3. /\ slots \in Seq(Sinks \cup {Nobody}) /\ Len(slots) \in Nat /\ vectorSize \in Nat
      /\ vectorSize <= Len(slots)
      /\ \A i \in 1..vectorSize : slots[i] \in Sinks
      /\ \A i, j \in 1..vectorSize : slots[i] = slots[j] => i = j
  BY <1>1 DEF Filled
<1>4. \A i \in 1..vectorSize : slots[i] # s
  <2>1. /\ SubSeq(slots, 1, vectorSize) \in Seq(Sinks)
        /\ Len(SubSeq(slots, 1, vectorSize)) = vectorSize
        /\ \A i \in 1..vectorSize : SubSeq(slots, 1, vectorSize)[i] = slots[i]
    BY <1>1, SinksOfVector
  <2> DEFINE r == SubSeq(slots, 1, vectorSize)
  <2>2. DOMAIN r = 1..vectorSize
    <3> HIDE DEF r
    <3> QED
      BY <2>1 DEF r
  <2>3. \A i \in DOMAIN r : r[i] # s
    <3> HIDE DEF r
    <3>1. s \notin ToSet(r)
      BY <1>2 DEF r
    <3> QED
      BY <3>1 DEF ToSet
  <2> QED
    BY <2>1, <2>2, <2>3
<1>5. changes' \in 0..MaxChanges /\ sent' \in 0..MaxEvents
  BY <1>1, <1>2, ChangeCounts
<1>6. broken' \in BOOLEAN
  BY <1>1, <1>2, ChangeCounts
<1>7. ASSUME slots' \in Seq(Sinks \cup {Nobody}), vectorSize + 1 <= Len(slots'),
             \A i \in 1..vectorSize : slots'[i] = slots[i], slots'[vectorSize + 1] = s
      PROVE  Filled(slots', vectorSize')
  <2>1. /\ vectorSize' \in 0..Len(slots')
        /\ \A i \in 1..vectorSize' : i \in 1..vectorSize \/ i = vectorSize + 1
    BY <1>2, <1>3, <1>7
  <2>2. \A i \in 1..vectorSize' : slots'[i] \in Sinks
    BY <2>1, <1>3, <1>7
  <2>3. \A i, j \in 1..vectorSize' : slots'[i] = slots'[j] => i = j
    BY <2>1, <1>3, <1>4, <1>7
  <2> QED
    BY <2>1, <2>2, <2>3, <1>7 DEF Filled
<1>8. CASE vectorSize < Len(slots)
  <2>1. slots' = [slots EXCEPT ![vectorSize + 1] = s] /\ events' = events
    BY <1>8 DEF Dispatcher!AddSink, Dispatcher!Emplace
  <2>2. /\ slots' \in Seq(Sinks \cup {Nobody}) /\ Len(slots') = Len(slots)
        /\ slots'[vectorSize + 1] = s
        /\ \A i \in 1..vectorSize : slots'[i] = slots[i]
    BY <1>3, <1>8, <2>1
  <2>3. Filled(slots', vectorSize')
    BY <1>3, <1>7, <1>8, <2>2
  <2>4. \A i \in 1..Len(events) : EventGood(events[i], slots', vectorSize')
    BY <1>1, <1>2, <1>8, <2>1, AddKeepsEvent
  <2> QED
    BY <1>1, <1>5, <1>6, <2>1, <2>3, <2>4 DEF DispatcherInv
<1>9. CASE ~(vectorSize < Len(slots))
  <2> DEFINE grown == Dispatcher!Grown(vectorSize)
  <2>1. /\ slots' = [i \in 1..grown |->
                        IF i <= vectorSize THEN slots[i]
                        ELSE IF i = vectorSize + 1 THEN s ELSE Nobody]
        /\ events' = [i \in 1..Len(events) |-> [events[i] EXCEPT !.freed = TRUE]]
    BY <1>9 DEF Dispatcher!AddSink, Dispatcher!Emplace
  <2>2. grown \in Nat /\ grown >= vectorSize + 1
    BY <1>3 DEF Dispatcher!Grown
  <2> HIDE DEF grown
  <2>3. slots' \in [1..grown -> Sinks \cup {Nobody}]
    BY <1>3, <2>1, <2>2
  <2>4. /\ slots' \in Seq(Sinks \cup {Nobody}) /\ Len(slots') = grown
        /\ slots'[vectorSize + 1] = s
        /\ \A i \in 1..vectorSize : slots'[i] = slots[i]
    <3>1. slots' \in Seq(Sinks \cup {Nobody}) /\ Len(slots') = grown
      BY <2>2, <2>3
    <3>2. vectorSize + 1 \in 1..grown /\ ~(vectorSize + 1 <= vectorSize)
      BY <1>3, <2>2
    <3>3. \A i \in 1..vectorSize : i \in 1..grown /\ i <= vectorSize
      BY <1>3, <2>2
    <3> QED
      BY <2>1, <3>1, <3>2, <3>3
  <2>5. Filled(slots', vectorSize')
    BY <1>7, <2>2, <2>4
  <2>6. vectorSize = Len(slots)
    BY <1>3, <1>9
  <2>7. ASSUME NEW i \in 1..Len(events)
        PROVE  /\ EventGood(events'[i], slots', vectorSize')
               /\ events'[i].at = events[i].at
    <3> DEFINE e == events[i]
    <3> DEFINE d == events'[i]
    <3>1. d = [e EXCEPT !.freed = TRUE]
      BY <2>1
    <3>2. EventGood(e, slots, vectorSize) /\ e \in EventType
      BY <1>1
    <3>3. d.at = e.at
      BY <3>1, <3>2 DEF EventType
    <3> HIDE DEF d, e
    <3>4. EventGood(d, slots', vectorSize + 1)
      BY <1>1, <2>2, <2>4, <2>6, <3>1, <3>2, GrowKeepsEvent
    <3> QED
      BY <1>2, <3>3, <3>4 DEF d, e
  <2>8. events' \in Seq(EventType) /\ Len(events') = Len(events)
    <3>1. \A i \in 1..Len(events) : events'[i] \in EventType
      BY <2>7 DEF EventGood
    <3>2. DOMAIN events' = 1..Len(events) /\ events' = [i \in 1..Len(events) |-> events'[i]]
      BY <2>1
    <3> QED
      BY <1>1, <3>1, <3>2, EachEvent
  <2> QED
    BY <1>5, <1>6, <2>5, <2>7, <2>8 DEF DispatcherInv
<1> QED
  BY <1>8, <1>9

(* A sink is removed.                                                      *)
LEMMA RemoveKeeps ==
  ASSUME DispatcherInv, NEW s \in Sinks, Dispatcher!RemoveSink(s)
  PROVE  /\ DispatcherInv' /\ Len(events') = Len(events)
         /\ \A i \in 1..Len(events) : events'[i].at = events[i].at
<1>1. /\ Filled(slots, vectorSize) /\ events \in Seq(EventType)
      /\ \A i \in 1..Len(events) : EventGood(events[i], slots, vectorSize)
      /\ sent \in 0..MaxEvents /\ changes \in 0..MaxChanges /\ broken \in BOOLEAN
  BY DEF DispatcherInv
<1>2. PICK i \in 1..vectorSize :
        /\ slots[i] = s /\ Dispatcher!Change
        /\ slots' = Erased(slots, vectorSize, i)
        /\ vectorSize' = vectorSize - 1
        /\ events' = [k \in 1..Len(events) |->
                        [events[k] EXCEPT !.removed = @ \cup {s},
                                          !.shifts = IF i <= events[k].at THEN @ + 1 ELSE @]]
  BY Zenon DEF Dispatcher!RemoveSink, Erased
<1>3. Filled(slots', vectorSize')
  BY <1>1, <1>2, ErasedFilled
<1>4. changes' \in 0..MaxChanges /\ sent' \in 0..MaxEvents
  BY <1>1, <1>2, ChangeCounts
<1>5. broken' \in BOOLEAN
  BY <1>1, <1>2, ChangeCounts
<1>6. ASSUME NEW k \in 1..Len(events)
      PROVE  /\ EventGood(events'[k], slots', vectorSize')
             /\ events'[k].at = events[k].at
  <2> DEFINE e == events[k]
  <2> DEFINE d == events'[k]
  <2>1. d = [e EXCEPT !.removed = @ \cup {s}, !.shifts = IF i <= e.at THEN @ + 1 ELSE @]
    BY <1>2
  <2>2. EventGood(e, slots, vectorSize) /\ e \in EventType
    BY <1>1
  <2>3. d.at = e.at
    BY <2>1, <2>2 DEF EventType
  <2> HIDE DEF d, e
  <2>4. EventGood(d, Erased(slots, vectorSize, i), vectorSize - 1)
    BY <1>1, <1>2, <2>1, <2>2, RemoveKeepsEvent
  <2> QED
    BY <1>2, <2>3, <2>4 DEF d, e
<1>7. events' \in Seq(EventType) /\ Len(events') = Len(events)
  <2>1. \A k \in 1..Len(events) : events'[k] \in EventType
    BY <1>6 DEF EventGood
  <2>2. DOMAIN events' = 1..Len(events) /\ events' = [k \in 1..Len(events) |-> events'[k]]
    BY <1>2
  <2> QED
    BY <1>1, <2>1, <2>2, EachEvent
<1> QED
  BY <1>3, <1>4, <1>5, <1>6, <1>7 DEF DispatcherInv

(* Every step of the dispatcher keeps the invariant.                       *)
LEMMA DispatcherKeeps == DispatcherInv /\ Dispatcher!Next => DispatcherInv'
  BY SendKeeps, AdvanceKeeps, FinishKeeps, AddKeeps, RemoveKeeps
  DEF Dispatcher!Next, Dispatcher!SinkNext

(* The invariant is what the dispatcher promises of a state.               *)
LEMMA DispatcherIntact == DispatcherInv => Dispatcher!TypeOK /\ Dispatcher!InOrder
<1> SUFFICES ASSUME DispatcherInv PROVE Dispatcher!TypeOK /\ Dispatcher!InOrder
  OBVIOUS
<1>1. /\ Filled(slots, vectorSize) /\ events \in Seq(EventType)
      /\ \A i \in 1..Len(events) : EventGood(events[i], slots, vectorSize)
      /\ sent \in 0..MaxEvents /\ changes \in 0..MaxChanges /\ broken \in BOOLEAN
  BY DEF DispatcherInv
<1> DEFINE r == SubSeq(slots, 1, vectorSize)
<1>2. r \in Seq(Sinks) /\ Dispatcher!IsInjective(r)
  <2>1. /\ r \in Seq(Sinks) /\ Len(r) = vectorSize
        /\ \A i \in 1..vectorSize : r[i] = slots[i]
    BY <1>1, SinksOfVector
  <2>2. \A i, j \in 1..vectorSize : slots[i] = slots[j] => i = j
    BY <1>1 DEF Filled
  <2> HIDE DEF r
  <2>3. DOMAIN r = 1..vectorSize
    BY <2>1
  <2> QED
    BY <2>1, <2>2, <2>3 DEF Dispatcher!IsInjective
<1>3. slots \in Seq(Sinks \cup {Nobody}) /\ vectorSize \in 0..Len(slots)
  BY <1>1 DEF Filled
<1>4. \A i \in 1..Len(events) : /\ events[i].end \in 1..Len(slots)
                                /\ events[i].at \in 1..events[i].end
  BY <1>1 DEF EventGood, Placed
<1>5. Dispatcher!TypeOK
  BY <1>1, <1>2, <1>3, <1>4 DEF Dispatcher!TypeOK, Dispatcher!m_sinks
<1>6. ASSUME NEW i \in 1..Len(events), events[i].removed = {}
      PROVE  events[i].got = SubSeq(events[i].start, 1, events[i].at)
  <2> DEFINE e == events[i]
  <2>1. EventGood(e, slots, vectorSize)
    BY <1>1
  <2>2. /\ e.at \in Nat /\ e.end \in Nat /\ e.at \in 1..e.end
        /\ e.start \in Seq(Sinks) /\ Len(e.start) = e.end
        /\ e.got \in Seq(Sinks \cup {Nobody}) /\ Len(e.got) = e.at
        /\ \A j \in 1..e.at : e.got[j] = e.start[j]
    BY <2>1, <1>6 DEF EventGood, EventType, Placed, Undisturbed
  <2>3. \A j \in 1..e.at : e.start[j] \in Sinks
    BY <2>2
  <2> DEFINE p == SubSeq(e.start, 1, e.at)
  <2>4. /\ p \in Seq(Sinks)
        /\ Len(p) = (IF 1 <= e.at THEN e.at - 1 + 1 ELSE 0)
        /\ \A j \in 1..e.at - 1 + 1 : p[j] = e.start[1 + j - 1]
    BY <2>2, <2>3, SubSeqProperties
  <2> HIDE DEF p, e
  <2>5. Len(p) = e.at
    BY <2>2, <2>4
  <2>6. ASSUME NEW j \in 1..e.at PROVE p[j] = e.got[j]
    <3>1. j \in 1..e.at - 1 + 1 /\ 1 + j - 1 = j
      BY <2>2
    <3> QED
      BY <3>1, <2>2, <2>4
  <2>7. e.got = p
    <3>1. \A j \in 1..Len(p) : p[j] = e.got[j]
      BY <2>5, <2>6
    <3>2. Len(p) = Len(e.got) /\ p \in Seq(Sinks) /\ e.got \in Seq(Sinks \cup {Nobody})
      BY <2>2, <2>4, <2>5
    <3>3. /\ p = [j \in 1..Len(p) |-> p[j]]
          /\ e.got = [j \in 1..Len(e.got) |-> e.got[j]]
      BY <3>2
    <3> QED
      BY <3>1, <3>2, <3>3
  <2> QED
    BY <2>7 DEF p, e
<1>7. Dispatcher!InOrder
  BY <1>6 DEF Dispatcher!InOrder
<1> QED
  BY <1>5, <1>7

(* An event that ends passed over one sink for each removal.               *)
LEMMA DispatcherSkips ==
  ASSUME DispatcherInv, Dispatcher!Next, Len(events') < Len(events)
  PROVE  LET e == Dispatcher!Last(events)
             skipped == (Dispatcher!ToSet(e.start) \ e.removed) \ Dispatcher!ToSet(e.got)
         IN \E f \in [1..e.shifts -> Sinks] : skipped \subseteq Dispatcher!ToSet(f)
<1>1. events \in Seq(EventType) /\ Len(events) \in Nat
  BY DEF DispatcherInv
<1>2. Dispatcher!Finish
  <2>1. ASSUME Dispatcher!SendEvent PROVE FALSE
    <3>1. \E e : events' = Append(events, e)
      BY <2>1 DEF Dispatcher!SendEvent
    <3>2. Len(events') = Len(events) + 1
      BY <3>1, <1>1
    <3> QED
      BY <3>2, <1>1
  <2>2. Dispatcher!Advance => Len(events') = Len(events)
    BY AdvanceKeeps
  <2>3. \A s \in Sinks : Dispatcher!SinkNext(s) => Len(events') = Len(events)
    BY AddKeeps, RemoveKeeps DEF Dispatcher!SinkNext
  <2> QED
    BY <1>1, <2>1, <2>2, <2>3 DEF Dispatcher!Next
<1> DEFINE e == events[Len(events)]
<1>3. EventGood(e, slots, vectorSize) /\ e.at = e.end /\ e \in EventType
  BY <1>2, FinishKeeps DEF DispatcherInv, EventGood
<1>4. Dispatcher!Last(events) = e
  BY DEF Dispatcher!Last
<1> HIDE DEF e
<1>5. PICK f \in [1..e.shifts -> Sinks] :
         \A x \in ToSet(e.start) :
             \/ x \in e.removed \/ x \in ToSet(e.got)
             \/ \E k \in 1..e.shifts : f[k] = x
             \/ Ahead(e, slots, vectorSize, x)
  BY <1>3 DEF EventGood, Accounted
<1>6. \A x : ~Ahead(e, slots, vectorSize, x)
  <2>1. e.at + 1..e.end = {}
    BY <1>3 DEF EventType
  <2> QED
    BY <2>1 DEF Ahead
<1>7. DOMAIN f = 1..e.shifts
  OBVIOUS
<1>8. (ToSet(e.start) \ e.removed) \ ToSet(e.got) \subseteq ToSet(f)
  BY <1>5, <1>6, <1>7 DEF ToSet
<1> QED
  BY <1>4, <1>8 DEF Dispatcher!ToSet, ToSet

(* A sink that is called is registered, or was removed meanwhile.          *)
LEMMA DispatcherCalls ==
  ASSUME DispatcherInv, Dispatcher!Next, NEW i \in 1..Len(events),
         i <= Len(events'), events'[i].at > events[i].at
  PROVE  Dispatcher!Last(events'[i].got) \in
            Dispatcher!ToSet(Dispatcher!m_sinks) \cup events[i].removed
<1>1. /\ events \in Seq(EventType) /\ Len(events) \in Nat
      /\ Filled(slots, vectorSize) /\ i \in Nat /\ events[i].at \in Nat
  <2>1. /\ events \in Seq(EventType) /\ Len(events) \in Nat
        /\ Filled(slots, vectorSize) /\ i \in Nat /\ events[i] \in EventType
    BY DEF DispatcherInv
  <2> QED
    BY <2>1 DEF EventType
<1>2. ~(events[i].at > events[i].at)
  BY <1>1
<1>3. Dispatcher!Advance
  <2>1. ASSUME Dispatcher!SendEvent PROVE FALSE
    <3>1. PICK e : events' = Append(events, e)
      BY <2>1 DEF Dispatcher!SendEvent
    <3>2. events'[i] = events[i]
      BY <3>1, <1>1
    <3> QED
      BY <3>2, <1>2
  <2>2. ASSUME Dispatcher!Finish PROVE FALSE
    <3>1. i \in 1..Len(events')
      BY <2>2, FinishKeeps, <1>1
    <3>2. events'[i] = events[i]
      BY <3>1, <2>2, FinishKeeps
    <3> QED
      BY <3>2, <1>2
  <2>3. ASSUME NEW s \in Sinks, Dispatcher!SinkNext(s) PROVE FALSE
    <3>1. events'[i].at = events[i].at
      BY <2>3, AddKeeps, RemoveKeeps DEF Dispatcher!SinkNext
    <3> QED
      BY <3>1, <1>2
  <2> QED
    BY <2>1, <2>2, <2>3 DEF Dispatcher!Next
<1>4. Last(events'[i].got) \in events[i].removed \cup {slots[k] : k \in 1..vectorSize}
  <2>1. events'[i] # events[i]
    BY <1>2
  <2> QED
    BY <2>1, <1>3, AdvanceKeeps
<1>5. {slots[k] : k \in 1..vectorSize} \subseteq ToSet(SubSeq(slots, 1, vectorSize))
  <2> DEFINE r == SubSeq(slots, 1, vectorSize)
  <2>1. /\ r \in Seq(Sinks) /\ Len(r) = vectorSize
        /\ \A k \in 1..vectorSize : r[k] = slots[k]
    BY <1>1, SinksOfVector
  <2> HIDE DEF r
  <2>2. DOMAIN r = 1..vectorSize
    BY <2>1
  <2>3. {slots[k] : k \in 1..vectorSize} \subseteq ToSet(r)
    BY <2>1, <2>2 DEF ToSet
  <2> QED
    BY <2>3 DEF r
<1>6. /\ Dispatcher!Last(events'[i].got) = Last(events'[i].got)
      /\ Dispatcher!ToSet(Dispatcher!m_sinks) = ToSet(SubSeq(slots, 1, vectorSize))
  BY DEF Dispatcher!Last, Last, Dispatcher!ToSet, ToSet, Dispatcher!m_sinks
<1> QED
  BY <1>4, <1>5, <1>6

-----------------------------------------------------------------------------
(* The dispatcher and the back log                                         *)

CallbacksInv == DispatcherInv /\ LogInv

(* Every step keeps both invariants.                                       *)
LEMMA CallbacksKeep == CallbacksInv /\ [CallbacksNext]_callbacksVars => CallbacksInv'
<1> SUFFICES ASSUME CallbacksInv, [CallbacksNext]_callbacksVars PROVE CallbacksInv'
  OBVIOUS
<1>a. DispatcherInv /\ LogInv
  BY DEF CallbacksInv
<1>1. UNCHANGED dispatcherVars => DispatcherInv'
  BY <1>a DEF dispatcherVars, DispatcherInv
<1>2. UNCHANGED logVars => LogInv'
  BY <1>a DEF logVars, LogInv, LogTyped, Reading
<1>3. CASE DispatcherStep
  BY <1>a, <1>2, <1>3, DispatcherKeeps DEF DispatcherStep, CallbacksInv
<1>4. CASE LogStep
  BY <1>a, <1>1, <1>4, LogKeeps DEF LogStep, CallbacksInv
<1>5. CASE UNCHANGED callbacksVars
  BY <1>1, <1>2, <1>5 DEF callbacksVars, CallbacksInv
<1> QED
  BY <1>3, <1>4, <1>5 DEF CallbacksNext

(* The invariant holds in every state.                                     *)
LEMMA CallbacksHold == CallbacksSpec => []CallbacksInv
<1>1. CallbacksInit => CallbacksInv
  BY DispatcherBegins, LogBegins DEF CallbacksInit, CallbacksInv
<1> QED
  BY <1>1, CallbacksKeep, PTL DEF CallbacksSpec

(* Events.h:27-33, ILogging.cpp:51-90: as long as no sink is removed, an   *)
(* event goes to the sinks it began with, in order and each once, whatever *)
(* the sinks add and however deep events are nested; the back log holds    *)
(* the newest messages up to its limit, and a reader sees each once.       *)
THEOREM CallbacksIntact == CallbacksSpec => []Intact
<1>1. CallbacksInv => Intact
  BY DispatcherIntact, LogIntact DEF CallbacksInv, Intact
<1> QED
  BY <1>1, CallbacksHold, PTL

(* Events.h:27-50, ILogging.cpp:81-90: an event passes over at most one    *)
(* sink per removal at or before its place, and calls none that is neither *)
(* registered nor was removed meanwhile; a message is dropped only for the *)
(* limit or by Clear().                                                    *)
THEOREM DeliveriesMade == CallbacksSpec => Deliveries
<1> DEFINE Skips == Len(events') < Len(events) =>
         LET e == Dispatcher!Last(events)
             skipped == (Dispatcher!ToSet(e.start) \ e.removed) \ Dispatcher!ToSet(e.got)
         IN \E f \in [1..e.shifts -> Sinks] : skipped \subseteq Dispatcher!ToSet(f)
<1> DEFINE Calls == \A i \in 1..Len(events) :
         (i <= Len(events') /\ events'[i].at > events[i].at) =>
            Dispatcher!Last(events'[i].got)
               \in Dispatcher!ToSet(Dispatcher!m_sinks) \cup events[i].removed
<1> DEFINE Drops == \/ Log!ToSet(m_data) \subseteq Log!ToSet(m_data')
                    \/ Len(m_data') = m_limit'
                    \/ m_data' = << >>
<1>1. ASSUME CallbacksInv, [CallbacksNext]_callbacksVars
      PROVE  [Skips]_(Dispatcher!vars) /\ [Calls]_(Dispatcher!vars) /\ [Drops]_(Log!vars)
  <2>a. DispatcherInv /\ LogInv
    BY <1>1 DEF CallbacksInv
  <2>1. CASE DispatcherStep
    <3>1. Dispatcher!Next /\ UNCHANGED Log!vars
      BY <2>1 DEF DispatcherStep, logVars, Log!vars
    <3>2. Skips
      BY <2>a, <3>1, DispatcherSkips
    <3>3. Calls
      BY <2>a, <3>1, DispatcherCalls
    <3> QED
      BY <3>1, <3>2, <3>3
  <2>2. CASE LogStep
    <3>1. Log!Next /\ UNCHANGED Dispatcher!vars
      BY <2>2 DEF LogStep, dispatcherVars, Dispatcher!vars
    <3>2. Drops
      BY <2>a, <3>1, LogDrops DEF Log!ToSet, ToSet
    <3> HIDE DEF Skips, Calls, Drops
    <3> QED
      BY <3>1, <3>2
  <2>3. CASE UNCHANGED callbacksVars
    <3>1. UNCHANGED Dispatcher!vars /\ UNCHANGED Log!vars
      BY <2>3 DEF callbacksVars, dispatcherVars, logVars, Dispatcher!vars, Log!vars
    <3> HIDE DEF Skips, Calls, Drops
    <3> QED
      BY <3>1
  <2> QED
    BY <2>1, <2>2, <2>3, <1>1 DEF CallbacksNext
<1>2. CallbacksSpec => /\ [][Skips]_(Dispatcher!vars)
                       /\ [][Calls]_(Dispatcher!vars)
                       /\ [][Drops]_(Log!vars)
  <2> HIDE DEF Skips, Calls, Drops
  <2> QED
    BY <1>1, CallbacksHold, PTL DEF CallbacksSpec
<1> QED
  BY <1>2 DEF Deliveries, Dispatcher!OneSkippedPerRemoval,
              Dispatcher!CalledWhileRegistered, Log!DroppedForLimit

-----------------------------------------------------------------------------
(* The plugin base                                                         *)

(* The types of what the extender has and the plugin asks for.             *)
PluginTyped ==
    /\ offers \in [ToSet(Interfaces) -> Versions \cup {None}]
    /\ m_interfaces \in [ToSet(Interfaces) -> Versions \cup {None}]
    /\ asking \in 0..Len(Interfaces) + 1
    /\ granularity \in Nat /\ sizes \in [1..2 -> Nat]
    /\ DOMAIN m_trampolines = 1..2
    /\ DOMAIN result = {"Query", "QueryInterfaces", "CreateTrampolines"}

(* The interfaces before position n are there, the one that may be missing *)
(* excepted, and those from n on are not.                                  *)
AskedUpTo(got, n) ==
    \A k \in DOMAIN Interfaces :
        IF k < n THEN got[Interfaces[k]] # None \/ Interfaces[k] = Trampoline
                 ELSE got[Interfaces[k]] = None

(* What a call of QueryInterfaces that has returned leaves.                *)
QueryEnded(returned, got) ==
    \E fault \in 1..Len(Interfaces) + 1 :
        /\ returned <=> fault = Len(Interfaces) + 1
        /\ AskedUpTo(got, fault)

VersionsGood ==
    \A i \in ToSet(Interfaces) : m_interfaces[i] # None => m_interfaces[i] >= Compiled[i]

(* Where QueryInterfaces is, or how it ended.                              *)
QueryPlaced == /\ asking > 0 => AskedUpTo(m_interfaces, asking)
               /\ asking = 0 /\ result["QueryInterfaces"] # None =>
                    QueryEnded(result["QueryInterfaces"], m_interfaces)

PluginInv == PluginTyped /\ VersionsGood /\ QueryPlaced /\ Plugin!TrampolinesGood

(* What is assumed of the interfaces.                                      *)
LEMMA InterfacesAssumed ==
  /\ Plugin!ToSet(Interfaces) = ToSet(Interfaces)
  /\ Versions \subseteq Nat /\ None \notin Versions /\ None \notin BOOLEAN
  /\ Interfaces \in Seq(ToSet(Interfaces)) /\ Len(Interfaces) \in Nat
  /\ DOMAIN Interfaces = 1..Len(Interfaces)
  /\ \A k \in DOMAIN Interfaces : Interfaces[k] \in ToSet(Interfaces)
  /\ \A j, k \in DOMAIN Interfaces : Interfaces[j] = Interfaces[k] => j = k
  /\ Compiled \in [ToSet(Interfaces) -> Versions] /\ Trampoline \in ToSet(Interfaces)
  /\ Granularities \subseteq Nat /\ \A s \in Sizes : s \in [1..2 -> Nat]
  BY LoadingAssumption 
  DEF Plugin!PluginLoadAssumption, Plugin!IsInjective, Plugin!ToSet, ToSet

(* A size in whole units covers what was asked for, and one unit less does *)
(* not.                                                                    *)
LEMMA Aligned ==
  ASSUME NEW n \in Nat, NEW g \in Nat \ {0}
  PROVE  /\ n % g \in 0..g - 1
         /\ (n + g - (n % g)) % g = 0
<1>1. n % g \in 0..g - 1 /\ n \div g \in Nat /\ n = g * (n \div g) + (n % g)
  OBVIOUS
<1>2. n + g - (n % g) = g * (n \div g + 1)
  BY <1>1
<1>3. (g * (n \div g + 1)) % g = 0
  BY <1>1
<1> QED
  BY <1>1, <1>2, <1>3

(* How a call of QueryInterfaces ends.                                     *)
LEMMA EndsAtFault ==
  ASSUME NEW got
  PROVE  /\ \A n \in 1..Len(Interfaces) : AskedUpTo(got, n) => QueryEnded(FALSE, got)
         /\ AskedUpTo(got, Len(Interfaces) + 1) => QueryEnded(TRUE, got)
<1>1. Len(Interfaces) \in Nat
  BY InterfacesAssumed
<1>2. ASSUME NEW n \in 1..Len(Interfaces), AskedUpTo(got, n) PROVE QueryEnded(FALSE, got)
  <2>1. n \in 1..Len(Interfaces) + 1 /\ n # Len(Interfaces) + 1
    BY <1>1
  <2> QED
    BY <2>1, <1>2 DEF QueryEnded
<1>3. ASSUME AskedUpTo(got, Len(Interfaces) + 1) PROVE QueryEnded(TRUE, got)
  <2>1. Len(Interfaces) + 1 \in 1..Len(Interfaces) + 1
    BY <1>1
  <2> QED
    BY <2>1, <1>3 DEF QueryEnded
<1> QED
  BY <1>2, <1>3

(* No interface was asked for and there is no trampoline.                  *)
LEMMA PluginBegins == Plugin!Init => PluginInv
<1> SUFFICES ASSUME Plugin!Init PROVE PluginInv
  OBVIOUS
<1>1. PluginTyped
  BY InterfacesAssumed DEF Plugin!Init, Plugin!NoInterfaces, PluginTyped
<1>3. VersionsGood /\ QueryPlaced
  BY InterfacesAssumed DEF Plugin!Init, Plugin!NoInterfaces, VersionsGood, QueryPlaced
<1>2. Plugin!TrampolinesGood
  BY InterfacesAssumed DEF Plugin!Init, Plugin!TrampolinesGood
<1> QED
  BY <1>1, <1>2, <1>3 DEF PluginInv

(* The calls that ask for nothing leave what there is.                     *)
LEMMA PluginKept ==
  ASSUME PluginInv, 
         UNCHANGED <<offers, granularity, sizes, m_interfaces, asking, m_trampolines>>,
         DOMAIN result' = DOMAIN result,
         result'["QueryInterfaces"] = result["QueryInterfaces"],
         result'["CreateTrampolines"] = result["CreateTrampolines"]
  PROVE  PluginInv'
  BY DEF PluginInv, PluginTyped, VersionsGood, QueryPlaced, Plugin!TrampolinesGood

(* An interface is asked for.                                              *)
LEMMA QueryInterfaceKeeps ==
  ASSUME PluginInv, Plugin!QueryInterface
  PROVE  PluginInv'
<1>a. PluginTyped /\ VersionsGood /\ QueryPlaced /\ Plugin!TrampolinesGood
  BY DEF PluginInv
<1> DEFINE i == Interfaces[asking]
<1>1. /\ asking \in DOMAIN Interfaces /\ asking \in 1..Len(Interfaces) /\ i \in ToSet(Interfaces)
      /\ UNCHANGED <<offers, granularity, sizes, m_trampolines>>
      /\ AskedUpTo(m_interfaces, asking)
  BY <1>a, InterfacesAssumed DEF Plugin!QueryInterface, Plugin!hostVars, PluginTyped, QueryPlaced
<1>2. \/ /\ asking' = 0 /\ UNCHANGED m_interfaces
         /\ result' = [result EXCEPT !["QueryInterfaces"] = FALSE]
      \/ /\ asking' = asking + 1 /\ UNCHANGED result
         /\ m_interfaces' = [m_interfaces EXCEPT ![i] = offers[i]]
         /\ offers[i] = None => i = Trampoline
         /\ offers[i] # None => offers[i] >= Compiled[i]
  BY DEF Plugin!QueryInterface, Plugin!Returns, Plugin!CheckInterfaceVersion
<1> HIDE DEF i
<1>3. DOMAIN result' = DOMAIN result /\ result'["CreateTrampolines"] = result["CreateTrampolines"]
  BY <1>2, <1>a DEF PluginTyped
<1>4. Plugin!TrampolinesGood'
  BY <1>a, <1>1, <1>3 DEF Plugin!TrampolinesGood
<1>5. CASE asking' = 0 /\ UNCHANGED m_interfaces
           /\ result' = [result EXCEPT !["QueryInterfaces"] = FALSE]
  <2>1. PluginTyped' /\ VersionsGood'
    BY <1>5, <1>a, <1>1 DEF PluginTyped, VersionsGood
  <2>2. result'["QueryInterfaces"] = FALSE
    BY <1>5, <1>a DEF PluginTyped
  <2>3. QueryEnded(FALSE, m_interfaces')
    BY <1>1, <1>5, EndsAtFault
  <2>6. QueryPlaced'
    <3>1. ~(asking' > 0)
      BY <1>5
    <3> QED
      BY <3>1, <2>2, <2>3, Zenon DEF QueryPlaced
  <2> QED
    BY <2>1, <2>6, <1>4 DEF PluginInv
<1>6. CASE /\ asking' = asking + 1 /\ UNCHANGED result
           /\ m_interfaces' = [m_interfaces EXCEPT ![i] = offers[i]]
           /\ offers[i] = None => i = Trampoline
           /\ offers[i] # None => offers[i] >= Compiled[i]
  <2>1. PluginTyped'
    BY <1>6, <1>a, <1>1, InterfacesAssumed DEF PluginTyped
  <2>2. VersionsGood'
    BY <1>6, <1>a, <1>1, InterfacesAssumed DEF PluginTyped, VersionsGood
  <2>3. ASSUME NEW k \in DOMAIN Interfaces
        PROVE  IF k < asking'
                 THEN m_interfaces'[Interfaces[k]] # None \/ Interfaces[k] = Trampoline
                 ELSE m_interfaces'[Interfaces[k]] = None
    <3>1. k \in Nat /\ asking \in Nat /\ Interfaces[k] \in ToSet(Interfaces)
      BY <1>1, InterfacesAssumed
    <3>2. CASE k = asking
      BY <3>1, <3>2, <1>6, <1>a, <1>1 DEF PluginTyped, i
    <3>3. CASE k # asking
      <4>1. Interfaces[k] # i
        BY <3>3, <1>1, InterfacesAssumed DEF i
      <4>2. m_interfaces'[Interfaces[k]] = m_interfaces[Interfaces[k]]
        BY <4>1, <3>1, <1>6, <1>a DEF PluginTyped
      <4> QED
        BY <4>2, <3>1, <3>3, <1>1, <1>6 DEF AskedUpTo
    <3> QED
      BY <3>2, <3>3
  <2>4. QueryPlaced'
    <3>1. AskedUpTo(m_interfaces', asking')
      BY <2>3 DEF AskedUpTo
    <3> QED
      BY <3>1, <1>6, <1>1, InterfacesAssumed DEF QueryPlaced
  <2> QED
    BY <2>1, <2>2, <2>4, <1>4 DEF PluginInv
<1> QED
  BY <1>2, <1>5, <1>6

(* A trampoline of its own or from the pool is as large as it should be.   *)
LEMMA TrampolineSized ==
  ASSUME PluginTyped, NEW id \in 1..2, sizes[id] > 0,
         NEW t \in Plugin!Trampolines(id), t # None
  PROVE  /\ t.size >= sizes[id]
         /\ ~t.pool /\ granularity > 0 =>
              t.size % granularity = 0 /\ t.size - granularity < sizes[id]
<1>1. sizes[id] \in Nat /\ granularity \in Nat
  BY DEF PluginTyped
<1>2. \/ t = [size |-> sizes[id], pool |-> TRUE]
      \/ t = [size |-> Plugin!GetAlignedTrampolineSize(sizes[id]), pool |-> FALSE]
  BY DEF Plugin!Trampolines
<1>3. CASE t = [size |-> sizes[id], pool |-> TRUE]
  BY <1>1, <1>3
<1>4. CASE t = [size |-> Plugin!GetAlignedTrampolineSize(sizes[id]), pool |-> FALSE]
  <2>1. t.size = Plugin!GetAlignedTrampolineSize(sizes[id])
    BY <1>4
  <2>2. CASE granularity = 0 \/ sizes[id] % granularity = 0
    BY <2>1, <2>2, <1>1 DEF Plugin!GetAlignedTrampolineSize
  <2>3. CASE granularity # 0 /\ sizes[id] % granularity # 0
    <3>1. t.size = sizes[id] + granularity - (sizes[id] % granularity)
      BY <2>1, <2>3 DEF Plugin!GetAlignedTrampolineSize
    <3>2. sizes[id] % granularity \in 0..granularity - 1
          /\ (sizes[id] + granularity - (sizes[id] % granularity)) % granularity = 0
      BY <2>3, <1>1, Aligned
    <3> QED
      BY <3>1, <3>2, <1>1, <2>3
  <2> QED
    BY <2>2, <2>3
<1> QED
  BY <1>2, <1>3, <1>4

(* The trampolines are created, or one could not be.                       *)
LEMMA CreateTrampolinesKeeps ==
  ASSUME PluginInv, Plugin!CreateTrampolines
  PROVE  PluginInv'
<1>a. PluginTyped /\ VersionsGood /\ QueryPlaced /\ Plugin!TrampolinesGood
  BY DEF PluginInv
<1>1. UNCHANGED <<offers, granularity, sizes, m_interfaces, asking>>
  BY DEF Plugin!CreateTrampolines, Plugin!hostVars
<1>2. PICK branch \in IF sizes[1] > 0 THEN Plugin!Trampolines(1) ELSE {m_trampolines[1]},
           local \in IF sizes[2] > 0 THEN Plugin!Trampolines(2) ELSE {m_trampolines[2]} :
        IF sizes[1] > 0 /\ branch = None
          THEN Plugin!Returns("CreateTrampolines", FALSE) /\ UNCHANGED m_trampolines
          ELSE /\ Plugin!Returns("CreateTrampolines", ~(sizes[2] > 0 /\ local = None))
               /\ m_trampolines' = <<branch, IF local = None THEN m_trampolines[2] ELSE local>>
  BY DEF Plugin!CreateTrampolines
<1>3. /\ DOMAIN result' = DOMAIN result
      /\ result'["QueryInterfaces"] = result["QueryInterfaces"]
  BY <1>2, <1>a DEF PluginTyped, Plugin!Returns
<1>4. PluginTyped' /\ VersionsGood' /\ QueryPlaced'
  <2>1. DOMAIN m_trampolines' = 1..2
    <3>1. \A a, b : DOMAIN <<a, b>> = 1..2
      OBVIOUS
    <3> QED
      BY <3>1, <1>2, <1>a, Zenon DEF PluginTyped
  <2>2. PluginTyped'
    BY <2>1, <1>1, <1>3, <1>a DEF PluginTyped
  <2> QED
    BY <2>2, <1>1, <1>3, <1>a DEF VersionsGood, QueryPlaced
<1>5. sizes[1] \in Nat /\ sizes[2] \in Nat
  BY <1>a DEF PluginTyped
<1>6. CASE sizes[1] > 0 /\ branch = None
  <2>1. UNCHANGED m_trampolines /\ result'["CreateTrampolines"] = FALSE
    BY <1>2, <1>6, <1>a DEF PluginTyped, Plugin!Returns
  <2>2. Plugin!TrampolinesGood'
    BY <2>1, <1>1, <1>a DEF Plugin!TrampolinesGood
  <2> QED
    BY <1>4, <2>2 DEF PluginInv
<1>7. CASE ~(sizes[1] > 0 /\ branch = None)
  <2> DEFINE second == IF local = None THEN m_trampolines[2] ELSE local
  <2>1. m_trampolines' = <<branch, second>>
        /\ result'["CreateTrampolines"] = ~(sizes[2] > 0 /\ local = None)
    BY <1>2, <1>7, <1>a DEF PluginTyped, Plugin!Returns
  <2>2. m_trampolines'[1] = branch /\ m_trampolines'[2] = second
    BY <2>1
  <2> HIDE DEF second
  <2> DEFINE Good(id, t) ==
        t # None =>
          /\ t.size >= sizes[id] /\ sizes[id] > 0
          /\ ~t.pool /\ granularity > 0 =>
               t.size % granularity = 0 /\ t.size - granularity < sizes[id]
  <2>3. \A id \in 1..2 : Good(id, m_trampolines[id])
    BY <1>a DEF Plugin!TrampolinesGood
  <2>4. Good(1, branch)
    <3>1. CASE sizes[1] > 0
      BY <3>1, <1>2, <1>a, TrampolineSized
    <3>2. CASE ~(sizes[1] > 0)
      BY <3>2, <1>2, <2>3
    <3> QED
      BY <3>1, <3>2
  <2>5. Good(2, second)
    <3>1. CASE sizes[2] > 0 /\ local # None
      <4>1. local \in Plugin!Trampolines(2) /\ second = local
        BY <3>1, <1>2 DEF second
      <4> QED
        BY <4>1, <3>1, <1>a, TrampolineSized
    <3>2. CASE ~(sizes[2] > 0 /\ local # None)
      <4>1. second = m_trampolines[2]
        BY <3>2, <1>2 DEF second
      <4> QED
        BY <4>1, <2>3
    <3> QED
      BY <3>1, <3>2
  <2>6. \A id \in 1..2 : Good(id, m_trampolines'[id])
    BY <2>2, <2>4, <2>5
  <2>7. result'["CreateTrampolines"] = TRUE =>
          \A id \in 1..2 : sizes[id] > 0 => m_trampolines'[id] # None
    <3> SUFFICES ASSUME result'["CreateTrampolines"] = TRUE
                 PROVE  \A id \in 1..2 : sizes[id] > 0 => m_trampolines'[id] # None
      OBVIOUS
    <3>1. ~(sizes[2] > 0 /\ local = None)
      BY <2>1, Zenon
    <3>2. sizes[1] > 0 => branch # None
      BY <1>7
    <3>3. sizes[2] > 0 => second # None
      BY <3>1 DEF second
    <3> QED
      BY <2>2, <3>2, <3>3
  <2>8. Plugin!TrampolinesGood'
    BY <2>6, <2>7, <1>1 DEF Plugin!TrampolinesGood
  <2> QED
    BY <1>4, <2>8 DEF PluginInv
<1> QED
  BY <1>6, <1>7

(* Every call of an entry point.                                           *)
LEMMA PluginNextKeeps ==
  ASSUME PluginInv, Plugin!Next
  PROVE  PluginInv'
<1>a. PluginTyped
  BY DEF PluginInv
<1>1. CASE Plugin!Query
  BY <1>1, <1>a, PluginKept DEF Plugin!Query, Plugin!hostVars, Plugin!Returns, PluginTyped
<1>2. CASE Plugin!QueryInterfacesStart
  <2>1. /\ UNCHANGED <<offers, granularity, sizes, m_trampolines, result>>
        /\ asking' = 1 /\ m_interfaces' = [i \in ToSet(Interfaces) |-> None]
    BY <1>2, InterfacesAssumed
    DEF Plugin!QueryInterfacesStart, Plugin!hostVars, Plugin!NoInterfaces
  <2>4. PluginTyped' /\ VersionsGood'
    BY <2>1, <1>a, InterfacesAssumed DEF PluginTyped, VersionsGood
  <2>5. AskedUpTo(m_interfaces', 1)
    BY <2>1, InterfacesAssumed DEF AskedUpTo
  <2>2. PluginTyped' /\ VersionsGood' /\ QueryPlaced'
    BY <2>1, <2>4, <2>5 DEF QueryPlaced
  <2>3. Plugin!TrampolinesGood'
    BY <2>1 DEF PluginInv, Plugin!TrampolinesGood
  <2> QED
    BY <2>2, <2>3 DEF PluginInv
<1>3. CASE Plugin!QueryInterface
  BY <1>3, QueryInterfaceKeeps
<1>4. CASE Plugin!QueryInterfacesEnd
  <2>1. /\ UNCHANGED <<offers, granularity, sizes, m_trampolines, m_interfaces>>
        /\ asking' = 0 /\ asking = Len(Interfaces) + 1
        /\ result' = [result EXCEPT !["QueryInterfaces"] = TRUE]
    BY <1>4 DEF Plugin!QueryInterfacesEnd, Plugin!hostVars, Plugin!Returns
  <2>2. PluginTyped' /\ VersionsGood'
    BY <2>1, <1>a DEF PluginInv, PluginTyped, VersionsGood
  <2>3. QueryEnded(TRUE, m_interfaces')
    <3>1. asking > 0
      BY <2>1, InterfacesAssumed
    <3>2. AskedUpTo(m_interfaces', Len(Interfaces) + 1)
      BY <2>1, <3>1 DEF PluginInv, QueryPlaced
    <3> QED
      BY <3>2, EndsAtFault, Zenon
  <2>4. result'["QueryInterfaces"] = TRUE
    BY <2>1, <1>a DEF PluginTyped
  <2>5. QueryPlaced'
    <3>1. ~(asking' > 0)
      BY <2>1
    <3> QED
      BY <3>1, <2>3, <2>4, Zenon DEF QueryPlaced
  <2>6. Plugin!TrampolinesGood'
    BY <2>1, <1>a DEF PluginInv, Plugin!TrampolinesGood, PluginTyped
  <2> QED
    BY <2>2, <2>5, <2>6 DEF PluginInv
<1>5. CASE Plugin!CreateTrampolines
  BY <1>5, CreateTrampolinesKeeps
<1> QED
  BY <1>1, <1>2, <1>3, <1>4, <1>5 DEF Plugin!Next

(* What the calls returned is what there is.                               *)
LEMMA PluginInvReady == PluginInv => PluginReady
  BY InterfacesAssumed
  DEF PluginInv, PluginReady, Plugin!InterfacesGood, VersionsGood, QueryPlaced, QueryEnded,
      AskedUpTo

(* Interfaces and trampolines are what their calls reported                *)
(* (ISKSE.h:152-244, 316-410).                                             *)
THEOREM PluginIsReady == LoadingSpec => []PluginReady
<1>1. LoadingInit => PluginInv
  BY PluginBegins DEF LoadingInit
<1>2. PluginInv /\ [LoadingNext]_loadingVars => PluginInv'
  <2> SUFFICES ASSUME PluginInv, [LoadingNext]_loadingVars PROVE PluginInv'
    OBVIOUS
  <2>1. CASE PluginStep
    BY <2>1, PluginNextKeeps DEF PluginStep
  <2>2. CASE UNCHANGED pluginVars
    BY <2>2, PluginKept DEF pluginVars
  <2> QED
    BY <2>1, <2>2 DEF LoadingNext, loadingVars, DbStep, IniStep, SaveStep, TimerStep
<1> QED
  BY <1>1, <1>2, PluginInvReady, PTL DEF LoadingSpec

-----------------------------------------------------------------------------
(* The performance timer                                                   *)

(* The types, and that the sum is 0 with nothing counted.                  *)
TimerTyped == /\ now \in Int /\ m_interval \in Int
              /\ m_tIntervalBegin \in Int /\ m_tStart \in Int
              /\ m_tCounter \in Nat /\ m_tAccum \in Int /\ m_tLast \in Int
              /\ least \in Int /\ most \in Int /\ reports \in BOOLEAN
              /\ m_tCounter = 0 => m_tAccum = 0

(* c times between l and m have the sum a.                                 *)
SumWithin(a, c, l, m) == l <= m /\ c * l <= a /\ a <= c * m

Within == /\ m_tCounter > 0 => SumWithin(m_tAccum, m_tCounter, least, most)
          /\ reports = TRUE /\ m_tCounter = 0 => m_tLast \in least..most

TimerInv == TimerTyped /\ Within

(* One more time, which may be a new extreme.                              *)
LEMMA SumGrows ==
  ASSUME NEW a \in Int, NEW c \in Nat, NEW l \in Int, NEW m \in Int, NEW t \in Int,
         c = 0 => a = 0, c > 0 => SumWithin(a, c, l, m)
  PROVE  SumWithin(a + t, c + 1, IF c = 0 \/ t < l THEN t ELSE l, IF c = 0 \/ t > m THEN t ELSE m)
<1> DEFINE ll == IF c = 0 \/ t < l THEN t ELSE l
           lm == IF c = 0 \/ t > m THEN t ELSE m
<1>1. ll \in Int /\ lm \in Int /\ ll <= t /\ t <= lm
  OBVIOUS
<1>2. c > 0 => ll <= l /\ m <= lm
  OBVIOUS
<1> HIDE DEF ll, lm
<1>3. (c + 1) * ll = c * ll + ll /\ (c + 1) * lm = c * lm + lm
  BY <1>1
<1>4. c * ll <= a /\ a <= c * lm
  <2>1. CASE c = 0
    <3>1. c * ll = 0 /\ c * lm = 0
      BY <2>1, <1>1
    <3> QED
      BY <3>1, <2>1
  <2>2. CASE c > 0
    <3>1. c * l <= a /\ a <= c * m
      BY <2>2 DEF SumWithin
    <3>2. c * ll <= c * l /\ c * m <= c * lm
      BY <2>2, <1>1, <1>2
    <3>3. c * l \in Int /\ c * m \in Int /\ c * ll \in Int /\ c * lm \in Int
      BY <1>1
    <3> QED
      BY <3>1, <3>2, <3>3
  <2> QED
    BY <2>1, <2>2
<1>5. c * ll \in Int /\ c * lm \in Int
  BY <1>1
<1>6. SumWithin(a + t, c + 1, ll, lm)
  BY <1>1, <1>3, <1>4, <1>5 DEF SumWithin
<1> QED
  BY <1>6 DEF ll, lm

(* The average is between the extremes.                                    *)
LEMMA AverageWithin ==
  ASSUME NEW a \in Int, NEW c \in Nat \ {0}, NEW l \in Int, NEW m \in Int, SumWithin(a, c, l, m)
  PROVE  a \div c \in l..m
<1> DEFINE q == a \div c
<1>1. q \in Int /\ c * q <= a /\ a < c * q + c
  OBVIOUS
<1> HIDE DEF q
<1>2. c * l <= a /\ a <= c * m
  BY DEF SumWithin
<1>3. q >= l
  <2>1. SUFFICES ASSUME q + 1 <= l PROVE FALSE
    BY <1>1
  <2>2. c * (q + 1) <= c * l /\ c * (q + 1) = c * q + c
    BY <2>1, <1>1
  <2>3. c * q \in Int /\ c * l \in Int
    BY <1>1
  <2> QED
    BY <2>2, <2>3, <1>1, <1>2
<1>4. q <= m
  <2>1. SUFFICES ASSUME m + 1 <= q PROVE FALSE
    BY <1>1
  <2>2. c * (m + 1) <= c * q /\ c * (m + 1) = c * m + c
    BY <2>1, <1>1
  <2>3. c * q \in Int /\ c * m \in Int
    BY <1>1
  <2> QED
    BY <2>2, <2>3, <1>1, <1>2
<1> QED
  BY <1>1, <1>3, <1>4 DEF q

(* Intervals and times are integers.                                       *)
LEMMA TimerAssumed == Intervals \subseteq Int /\ MaxTime \in Nat
  BY LoadingAssumption, Zenon DEF LoadingAssumption, Timer!PerfTimerAssumption

(* Nothing was counted.                                                    *)
LEMMA TimerBegins == Timer!Init => TimerInv
<1> SUFFICES ASSUME Timer!Init PROVE TimerInv
  OBVIOUS
<1>1. reports # TRUE /\ reports \in BOOLEAN
  BY Zenon DEF Timer!Init
<1>2. /\ now \in Int /\ m_interval \in Int /\ m_tIntervalBegin = now
      /\ m_tStart = 0 /\ m_tCounter = 0 /\ m_tAccum = 0 /\ m_tLast = 0 /\ least = 0 /\ most = 0
  BY TimerAssumed DEF Timer!Init
<1> QED
  BY <1>1, <1>2 DEF TimerInv, TimerTyped, Within

(* The end of a time.                                                      *)
LEMMA EndKeeps ==
  ASSUME TimerInv, Timer!End
  PROVE  TimerInv'
<1>a. TimerTyped /\ Within
  BY DEF TimerInv
<1> DEFINE time == now - m_tStart
           least1 == IF m_tCounter = 0 \/ time < least THEN time ELSE least
           most1 == IF m_tCounter = 0 \/ time > most THEN time ELSE most
<1>1. /\ UNCHANGED <<now, m_interval, m_tStart>>
      /\ least' = least1 /\ most' = most1
      /\ \/ /\ reports' = TRUE /\ m_tAccum' = 0 /\ m_tCounter' = 0 /\ m_tIntervalBegin' = now
            /\ m_tLast' = (m_tAccum + time) \div (m_tCounter + 1)
         \/ /\ reports' = FALSE /\ m_tAccum' = m_tAccum + time /\ m_tCounter' = m_tCounter + 1
            /\ UNCHANGED <<m_tLast, m_tIntervalBegin>>
  <2>1. CASE now - m_tIntervalBegin >= m_interval
    BY <2>1, Zenon DEF Timer!End, Timer!Counts, Timer!Accum
  <2>2. CASE ~(now - m_tIntervalBegin >= m_interval)
    <3>1. (now - m_tIntervalBegin >= m_interval) = FALSE
      BY <2>2
    <3> QED
      BY <3>1, Zenon DEF Timer!End, Timer!Counts, Timer!Accum
  <2> QED
    BY <2>1, <2>2
<1>2. time \in Int /\ least1 \in Int /\ most1 \in Int
      /\ m_tAccum + time \in Int /\ m_tCounter + 1 \in Nat \ {0}
  BY <1>a DEF TimerTyped
<1>3. SumWithin(m_tAccum + time, m_tCounter + 1, least1, most1)
  <2>1. time \in Int
    BY <1>2
  <2> HIDE DEF time
  <2> QED
    BY <2>1, <1>a, SumGrows DEF TimerTyped, Within
<1> HIDE DEF time, least1, most1
<1>4. CASE /\ reports' = TRUE /\ m_tAccum' = 0 /\ m_tCounter' = 0 /\ m_tIntervalBegin' = now
           /\ m_tLast' = (m_tAccum + time) \div (m_tCounter + 1)
  <2>1. m_tLast' \in least1..most1
    BY <1>2, <1>3, <1>4, AverageWithin
  <2> QED
    BY <2>1, <1>1, <1>2, <1>4, <1>a DEF TimerInv, TimerTyped, Within
<1>5. CASE /\ reports' = FALSE /\ m_tAccum' = m_tAccum + time /\ m_tCounter' = m_tCounter + 1
           /\ UNCHANGED <<m_tLast, m_tIntervalBegin>>
  BY <1>1, <1>2, <1>3, <1>5, <1>a DEF TimerInv, TimerTyped, Within
<1> QED
  BY <1>1, <1>4, <1>5

(* Every call, and the clock.                                              *)
LEMMA TimerNextKeeps ==
  ASSUME TimerInv, Timer!Next
  PROVE  TimerInv'
<1> USE DEF TimerInv, TimerTyped, Within, Timer!timerVars, Timer!historyVars
<1>1. CASE Timer!Tick
  BY <1>1 DEF Timer!Tick
<1>2. CASE Timer!Begin
  BY <1>2 DEF Timer!Begin
<1>3. CASE Timer!End
  BY <1>3, EndKeeps
<1>4. CASE Timer!Reset
  <2>1. reports' # TRUE /\ reports' \in BOOLEAN
    BY <1>4, Zenon DEF Timer!Reset
  <2> QED
    BY <2>1, <1>4 DEF Timer!Reset
<1>5. CASE \E i \in Intervals : Timer!SetInterval(i)
  BY <1>5, TimerAssumed DEF Timer!SetInterval
<1> QED
  BY <1>1, <1>2, <1>3, <1>4, <1>5 DEF Timer!Next

(* A report is an average of the times since the one before                *)
(* (PerfCounter.h:128-174).                                                *)
THEOREM ReportsAverages == LoadingSpec => []Averages
<1>1. LoadingInit => TimerInv
  BY TimerBegins DEF LoadingInit
<1>2. TimerInv /\ [LoadingNext]_loadingVars => TimerInv'
  <2> SUFFICES ASSUME TimerInv, [LoadingNext]_loadingVars PROVE TimerInv'
    OBVIOUS
  <2>1. CASE TimerStep
    BY <2>1, TimerNextKeeps DEF TimerStep
  <2>2. CASE UNCHANGED timerVars
    BY <2>2 DEF timerVars, TimerInv, TimerTyped, Within
  <2> QED
    BY <2>1, <2>2 DEF LoadingNext, loadingVars, DbStep, IniStep, SaveStep, PluginStep
<1>3. TimerInv => Averages
  <2> SUFFICES ASSUME TimerInv PROVE Timer!Averages
    BY DEF Averages
  <2>1. reports => reports = TRUE
    BY Zenon DEF TimerInv, TimerTyped
  <2> QED
    BY <2>1 DEF TimerInv, TimerTyped, Within, SumWithin, Timer!Averages
<1> QED
  BY <1>1, <1>2, <1>3, PTL DEF LoadingSpec

-----------------------------------------------------------------------------
(* The file of addresses                                                   *)

Numbers == 0..Word - 1

DbTyped == /\ dbStep \in {"start", "entries", "end", "released", "divided", "dereferenced"}
           /\ cut \in -1..MaxPairs /\ size \in 0..MaxPairs /\ dbAt \in 0..size
           /\ pvid \in Numbers /\ poffset \in Numbers /\ scale \in Nat
           /\ db \in [Numbers -> Numbers \cup {None}]
           /\ written \in [Numbers -> Numbers \cup {None}]
           /\ loaded \in {TRUE, FALSE} /\ bad \in {TRUE, FALSE}
           /\ asked \in Numbers \cup {None} /\ offset \in Int

(* As far as the file is whole, what was read is what was written.         *)
ReadAsWritten == dbStep \in {"start", "entries"} /\ dbAt <= cut =>
                    db = written /\ before = <<pvid, poffset>>

(* Where the load is, and what it has left.                                *)
LoadPlaced ==
    /\ dbStep = "start" => base = 0 /\ dbAt = 0
    /\ dbStep = "entries" => base = Base /\ (cut # -1 => scale = PtrSize)
    /\ dbStep \in {"start", "entries", "divided"} =>
          loaded = FALSE /\ answer = 0 /\ asked = None
    /\ loaded = TRUE => dbStep = "end" /\ base = Base /\ (cut = size => db = written)
    /\ dbStep = "end" /\ loaded = FALSE => base = 0
    /\ dbStep = "divided" => cut = -1

(* What the last query was given.                                          *)
Answered ==
    /\ answer # 0 /\ cut = size => /\ asked # 0 /\ written[asked] # None
                                   /\ answer = (Base + written[asked] + offset) % Word
    /\ bad = FALSE /\ asked \notin {None, 0} => answer # 0 \/ offset # 0

DbInv == DbTyped /\ ReadAsWritten /\ LoadPlaced /\ Answered

(* What is assumed of the widths and the file.                             *)
LEMMA DbAssumed ==
  /\ Byte \in Nat /\ Short \in Nat /\ Dword \in Nat /\ Word \in Nat \ {0} /\ Dword < Word
  /\ Byte < Short /\ Short < Dword /\ PtrSize \in Nat \ {0} /\ Base \in Nat /\ MaxPairs \in Nat
  /\ Pairs \subseteq (1..Word - 1) \X (0..Word - 1)
  /\ Garbage \subseteq 0..Word - 1 /\ None \notin 0..Word
<1>1. Db!VersionDbAssumption
  BY LoadingAssumption, Zenon DEF LoadingAssumption
<1> QED
  BY <1>1 DEF Db!VersionDbAssumption

(* A code says what the writer meant by its argument.                      *)
LEMMA CodeSays ==
  ASSUME NEW code \in 0..7, NEW prev \in Numbers, NEW v \in Numbers,
         NEW arg \in Db!Arguments(code, prev, v)
  PROVE  Db!Value(code, prev, arg) = v
<1>1. Word \in Nat \ {0} /\ \A n \in Numbers : n \in Int /\ n % Word = n
  BY DbAssumed DEF Numbers
<1>2. prev \in Int /\ v \in Int /\ v % Word = v
  BY <1>1
<1>3. CASE code = 0
  BY <1>3 DEF Db!Arguments, Db!Value
<1>4. CASE code = 1
  <2>1. v = prev + 1
    BY <1>4 DEF Db!Arguments
  <2> QED
    BY <2>1, <1>2, <1>4 DEF Db!Value
<1>5. CASE code \in {2, 4}
  <2>1. arg \in {v - prev}
    BY <1>5 DEF Db!Arguments
  <2>2. prev + arg = v
    BY <2>1, <1>2
  <2> QED
    BY <2>2, <1>2, <1>5 DEF Db!Value
<1>6. CASE code \in {3, 5}
  <2>1. arg \in {prev - v}
    BY <1>6 DEF Db!Arguments
  <2>2. prev - arg = v
    BY <2>1, <1>2
  <2> QED
    BY <2>2, <1>2, <1>6 DEF Db!Value
<1>7. CASE code \in {6, 7}
  BY <1>7 DEF Db!Arguments, Db!Value
<1> QED
  BY <1>3, <1>4, <1>5, <1>6, <1>7

(* Whatever is decoded is a number.                                        *)
LEMMA CodeIsNumber ==
  ASSUME NEW code \in 0..7, NEW prev \in Int, NEW arg \in Numbers
  PROVE  Db!Value(code, prev, arg) \in Numbers
<1>1. Word \in Nat \ {0} /\ \A n \in Int : n % Word \in Numbers
  BY DbAssumed DEF Numbers
<1>2. arg \in Int /\ prev + 1 \in Int /\ prev + arg \in Int /\ prev - arg \in Int
  BY DbAssumed DEF Numbers
<1> QED
  BY <1>1, <1>2 DEF Db!Value

(* A number in whole units is so many units.                               *)
LEMMA InUnits ==
  ASSUME NEW n \in Numbers, NEW u \in Nat \ {0}
  PROVE  /\ n \div u \in Numbers
         /\ n % u = 0 => (n \div u) * u = n
<1>1. n \in Nat /\ n \div u \in Nat /\ n = u * (n \div u) + (n % u) /\ n % u \in 0..u - 1
  BY DbAssumed DEF Numbers
<1> DEFINE q == n \div u
<1> HIDE DEF q
<1>2. q \in Nat /\ n = u * q + (n % u) /\ n % u \in Nat
  BY <1>1 DEF q
<1>3. u * q >= q
  BY <1>2
<1>4. q <= n
  BY <1>2, <1>3
<1>5. q \in Numbers
  BY <1>2, <1>4, DbAssumed DEF Numbers
<1>6. n % u = 0 => q * u = n
  BY <1>2
<1> QED
  BY <1>5, <1>6 DEF q

(* At the beginning nothing is read.                                       *)
LEMMA DbBegins == Db!Init => DbInv
<1> SUFFICES ASSUME Db!Init PROVE DbInv
  OBVIOUS
<1>1. /\ dbStep = "start" /\ size \in 0..MaxPairs /\ cut \in -1..size
      /\ scale = 0 /\ dbAt = 0 /\ pvid = 0 /\ poffset = 0
      /\ db = Db!Nowhere /\ base = 0 /\ written = Db!Nowhere /\ before = <<0, 0>>
      /\ asked = None /\ offset = 0 /\ answer = 0
  BY DEF Db!Init
<1>2. loaded = FALSE /\ bad = FALSE
  BY DEF Db!Init
<1>3. Db!Nowhere \in [Numbers -> Numbers \cup {None}] /\ 0 \in Numbers
  BY DbAssumed DEF Db!Nowhere, Numbers
<1>4. loaded \in {TRUE, FALSE} /\ bad \in {TRUE, FALSE} /\ ~(loaded = TRUE)
  BY <1>2
<1>0. MaxPairs \in Nat
  BY DbAssumed
<1>5. cut \in -1..MaxPairs /\ dbAt \in 0..size
  BY <1>0, <1>1
<1>11. scale \in Nat /\ offset \in Int /\ asked \in Numbers \cup {None}
  BY <1>1
<1>12. dbStep \in {"start", "entries", "end", "released", "divided", "dereferenced"}
  BY <1>1
<1>13. /\ db \in [Numbers -> Numbers \cup {None}] /\ written \in [Numbers -> Numbers \cup {None}]
       /\ pvid \in Numbers /\ poffset \in Numbers /\ size \in 0..MaxPairs
  BY <1>1, <1>3
<1>6. DbTyped
  BY <1>11, <1>12, <1>13, <1>4, <1>5, Zenon DEF DbTyped
<1>7. ReadAsWritten
  BY <1>1 DEF ReadAsWritten
<1>8. LoadPlaced
  BY <1>1, <1>2, <1>4 DEF LoadPlaced
<1>9. Answered
  BY <1>1 DEF Answered
<1> QED
  BY <1>6, <1>7, <1>8, <1>9 DEF DbInv

(* The load ends before it began, or its header is read.                   *)
LEMMA HeaderKeeps == DbInv /\ (Db!LoadNothing \/ Db!ReadHeader) => DbInv'
<1> SUFFICES ASSUME DbInv, Db!LoadNothing \/ Db!ReadHeader PROVE DbInv'
  OBVIOUS
<1>a. DbTyped /\ ReadAsWritten /\ LoadPlaced /\ Answered
  BY DEF DbInv
<1>1. /\ dbStep = "start"
      /\ UNCHANGED <<cut, dbAt, pvid, poffset, db, isAE, loaded, written, before, bad, asked,
                     offset, answer>>
  BY DEF Db!LoadNothing, Db!ReadHeader, Db!writerVars, Db!queryVars
<1>2. base = 0 /\ dbAt = 0 /\ loaded = FALSE /\ answer = 0 /\ asked = None
  BY <1>a, <1>1 DEF LoadPlaced
<1>3. /\ loaded' \in {TRUE, FALSE} /\ bad' \in {TRUE, FALSE} /\ loaded' = FALSE
      /\ ~(loaded' = TRUE)
  BY <1>1, <1>2, <1>a DEF DbTyped
<1>4. Answered'
  BY <1>1, <1>2 DEF Answered
<1>5. CASE dbStep' = "end" /\ UNCHANGED <<base, size, scale>>
  <2>1. DbTyped'
    BY <1>1, <1>3, <1>5, <1>a DEF DbTyped
  <2>2. ReadAsWritten'
    BY <1>5 DEF ReadAsWritten
  <2>3. LoadPlaced'
    BY <1>1, <1>2, <1>3, <1>5 DEF LoadPlaced
  <2> QED
    BY <1>4, <2>1, <2>2, <2>3 DEF DbInv
<1>6. CASE /\ dbStep' = "entries" /\ base' = Base
           /\ IF cut = -1 THEN size' \in 0..MaxPairs /\ scale' \in Garbage
                          ELSE scale' = PtrSize /\ UNCHANGED size
  <2>1. size' \in 0..MaxPairs /\ scale' \in Nat /\ dbAt' \in 0..size'
    <3>1. size \in 0..MaxPairs /\ Garbage \subseteq Nat /\ MaxPairs \in Nat /\ PtrSize \in Nat
      BY <1>a, DbAssumed DEF DbTyped
    <3>2. size' \in 0..MaxPairs /\ scale' \in Nat
      BY <1>6, <3>1
    <3> QED
      BY <1>1, <1>2, <3>1, <3>2
  <2>2. DbTyped'
    BY <1>1, <1>3, <1>6, <2>1, <1>a DEF DbTyped
  <2>3. ReadAsWritten'
    BY <1>1, <1>6, <1>a DEF ReadAsWritten
  <2>4. LoadPlaced'
    BY <1>1, <1>2, <1>3, <1>6 DEF LoadPlaced
  <2> QED
    BY <1>4, <2>2, <2>3, <2>4 DEF DbInv
<1> QED
  BY <1>5, <1>6 DEF Db!LoadNothing, Db!ReadHeader

(* A round of the loop leaves numbers.                                     *)
LEMMA DecodeIsTyped ==
  ASSUME DbTyped, dbAt < size,
         NEW low \in 0..7, NEW arg \in Numbers, NEW high \in 0..7, NEW arg2 \in Numbers,
         NEW units \in BOOLEAN, units => scale # 0,
         Db!Decode(low, arg, high, arg2, units)
  PROVE  /\ db' \in [Numbers -> Numbers \cup {None}] /\ pvid' \in Numbers
         /\ poffset' \in Numbers /\ dbAt' \in 0..size /\ dbAt' = dbAt + 1
<1>a. /\ scale \in Nat /\ pvid \in Numbers /\ poffset \in Numbers
      /\ dbAt \in Nat /\ size \in Nat /\ dbAt < size
      /\ db \in [Numbers -> Numbers \cup {None}]
  BY DbAssumed DEF DbTyped
<1> DEFINE u == Db!Units(units)
<1> DEFINE q1 == Db!Value(low, pvid, arg)
<1> DEFINE w == Db!Value(high, poffset \div u, arg2)
<1> DEFINE q2 == (w * u) % Word
<1>1. db' = [db EXCEPT ![q1] = q2] /\ pvid' = q1 /\ poffset' = q2 /\ dbAt' = dbAt + 1
  BY DEF Db!Decode
<1>2. u \in Nat \ {0}
  BY <1>a DEF Db!Units
<1>3. pvid \in Int /\ poffset \in Int
  BY <1>a, DbAssumed DEF Numbers
<1>4. q1 \in Numbers
  BY <1>3, CodeIsNumber
<1> HIDE DEF u, q1
<1>5. poffset \div u \in Int
  BY <1>2, <1>3
<1>6. w \in Numbers
  BY <1>5, CodeIsNumber
<1> HIDE DEF w
<1>7. w \in Nat /\ w * u \in Int
  BY <1>2, <1>6, DbAssumed DEF Numbers
<1>8. q2 \in Numbers
  BY <1>7, DbAssumed DEF Numbers
<1> HIDE DEF q2
<1>9. dbAt' \in 0..size
  BY <1>1, <1>a
<1> QED
  BY <1>1, <1>4, <1>8, <1>9, <1>a

(* An entry that is whole is read as it was written.                       *)
LEMMA EntryKeeps == DbInv /\ Db!ReadEntry => DbInv'
<1> SUFFICES ASSUME DbInv, Db!ReadEntry PROVE DbInv'
  OBVIOUS
<1>a. DbTyped /\ ReadAsWritten /\ LoadPlaced /\ Answered
  BY DEF DbInv
<1>1. /\ dbStep = "entries" /\ dbAt < size /\ dbAt < cut
      /\ UNCHANGED <<dbStep, cut, size, scale, base, isAE, loaded, bad, asked, offset,
                     answer>>
  BY DEF Db!ReadEntry, Db!Reading, Db!queryVars
<1>2. PICK pair \in Pairs, low \in 0..7, high \in 0..7, units \in BOOLEAN :
        LET unit == IF units THEN PtrSize ELSE 1 IN
        /\ pair[2] % unit = 0
        /\ \E arg \in Db!Arguments(low, before[1], pair[1]),
              arg2 \in Db!Arguments(high, before[2] \div unit, pair[2] \div unit) :
              Db!Decode(low, arg, high, arg2, units)
        /\ written' = [written EXCEPT ![pair[1]] = pair[2]] /\ before' = pair
  BY DEF Db!ReadEntry
<1> DEFINE u == IF units THEN PtrSize ELSE 1
<1>3. PICK arg \in Db!Arguments(low, before[1], pair[1]),
           arg2 \in Db!Arguments(high, before[2] \div u, pair[2] \div u) :
        Db!Decode(low, arg, high, arg2, units)
  BY <1>2
<1>4. /\ dbAt \in Nat /\ cut \in Int /\ size \in Nat /\ pvid \in Numbers /\ poffset \in Numbers
      /\ db \in [Numbers -> Numbers \cup {None}]
  BY <1>a, DbAssumed DEF DbTyped
<1>5. /\ db = written /\ before = <<pvid, poffset>> /\ base = Base /\ scale = PtrSize
      /\ loaded = FALSE /\ answer = 0 /\ asked = None
  BY <1>1, <1>4, <1>a DEF ReadAsWritten, LoadPlaced
<1>6. /\ pair[1] \in Numbers /\ pair[2] \in Numbers /\ pair = <<pair[1], pair[2]>>
      /\ pair[2] % u = 0
  BY <1>2, DbAssumed DEF Numbers
<1>7. u \in Nat \ {0} /\ Db!Units(units) = u
  BY <1>5, DbAssumed DEF Db!Units
<1>8. Db!Value(low, pvid, arg) = pair[1]
  <2>1. arg \in Db!Arguments(low, pvid, pair[1])
    BY <1>5
  <2> QED
    BY <2>1, <1>4, <1>6, CodeSays
<1> DEFINE r == poffset \div u
<1> DEFINE v == pair[2] \div u
<1>9. (Db!Value(high, r, arg2) * u) % Word = pair[2]
  <2>1. before[2] = poffset
    BY <1>5
  <2>2. arg2 \in Db!Arguments(high, r, v)
    BY <2>1, <1>3
  <2>3. r \in Numbers /\ v \in Numbers /\ v * u = pair[2]
    BY <1>4, <1>6, <1>7, InUnits
  <2> HIDE DEF r, v, u
  <2>4. Db!Value(high, r, arg2) = v
    BY <2>2, <2>3, CodeSays
  <2>5. pair[2] % Word = pair[2]
    BY <1>6, DbAssumed DEF Numbers
  <2> QED
    BY <2>3, <2>4, <2>5
<1>10. /\ db' = [db EXCEPT ![pair[1]] = pair[2]] /\ pvid' = pair[1]
       /\ poffset' = pair[2] /\ dbAt' = dbAt + 1
  <2> HIDE DEF u
  <2> QED
    BY <1>3, <1>7, <1>8, <1>9 DEF Db!Decode
<1>11. db' = written' /\ before' = <<pvid', poffset'>>
  BY <1>2, <1>5, <1>6, <1>10
<1>12. /\ loaded' \in {TRUE, FALSE} /\ bad' \in {TRUE, FALSE} /\ loaded' = FALSE
       /\ ~(loaded' = TRUE)
  BY <1>1, <1>5, <1>a DEF DbTyped
<1>13. DbTyped'
  <2>1. db' \in [Numbers -> Numbers \cup {None}] /\ dbAt' \in 0..size
    BY <1>1, <1>4, <1>6, <1>10
  <2> QED
    BY <2>1, <1>1, <1>6, <1>10, <1>11, <1>12, <1>a DEF DbTyped
<1>14. ReadAsWritten'
  BY <1>11 DEF ReadAsWritten
<1>15. LoadPlaced'
  BY <1>1, <1>5, <1>12 DEF LoadPlaced
<1>16. Answered'
  BY <1>1, <1>5 DEF Answered
<1> QED
  BY <1>13, <1>14, <1>15, <1>16 DEF DbInv

(* Behind the end of the file nothing is as it was meant.                  *)
LEMMA GarbageKeeps == DbInv /\ Db!ReadGarbage => DbInv'
<1> SUFFICES ASSUME DbInv, Db!ReadGarbage PROVE DbInv'
  OBVIOUS
<1>a. DbTyped /\ ReadAsWritten /\ LoadPlaced /\ Answered
  BY DEF DbInv
<1>1. /\ dbStep = "entries" /\ dbAt < size /\ dbAt >= cut
      /\ UNCHANGED <<cut, size, scale, isAE, loaded, written, before, bad, asked, offset,
                     answer>>
  BY DEF Db!ReadGarbage, Db!Reading, Db!writerVars, Db!queryVars
<1>2. base = Base /\ loaded = FALSE /\ answer = 0 /\ asked = None /\ (cut # -1 => scale = PtrSize)
  BY <1>1, <1>a DEF LoadPlaced
<1>3. /\ loaded' \in {TRUE, FALSE} /\ bad' \in {TRUE, FALSE} /\ loaded' = FALSE
      /\ ~(loaded' = TRUE)
  BY <1>1, <1>2, <1>a DEF DbTyped
<1>4. Answered'
  BY <1>1, <1>2 DEF Answered
<1>5. PICK low \in 0..8, high \in 0..7, units \in BOOLEAN, arg \in Garbage, arg2 \in Garbage :
         IF low = 8
           THEN /\ dbStep' = "end" /\ db' = Db!Nowhere /\ base' = 0
                /\ UNCHANGED <<dbAt, pvid, poffset>>
           ELSE IF units /\ scale = 0
           THEN dbStep' = "divided" /\ UNCHANGED <<db, base, dbAt, pvid, poffset>>
           ELSE Db!Decode(low, arg, high, arg2, units) /\ UNCHANGED <<dbStep, base>>
  BY DEF Db!ReadGarbage
<1>6. CASE low = 8
  <2>1. /\ dbStep' = "end" /\ db' = Db!Nowhere /\ base' = 0
        /\ UNCHANGED <<dbAt, pvid, poffset>>
    BY <1>5, <1>6
  <2>2. Db!Nowhere \in [Numbers -> Numbers \cup {None}]
    BY DEF Db!Nowhere, Numbers
  <2>3. DbTyped'
    BY <2>1, <2>2, <1>1, <1>3, <1>a DEF DbTyped
  <2>4. ReadAsWritten' /\ LoadPlaced'
    BY <2>1, <1>3 DEF ReadAsWritten, LoadPlaced
  <2> QED
    BY <2>3, <2>4, <1>4 DEF DbInv
<1>7. CASE low # 8 /\ units /\ scale = 0
  <2>1. dbStep' = "divided" /\ UNCHANGED <<db, base, dbAt, pvid, poffset>>
    BY <1>5, <1>7
  <2>2. cut = -1
    BY <1>2, <1>7, DbAssumed
  <2>3. DbTyped'
    BY <2>1, <1>1, <1>3, <1>a DEF DbTyped
  <2>4. ReadAsWritten' /\ LoadPlaced'
    BY <2>1, <2>2, <1>1, <1>2, <1>3 DEF ReadAsWritten, LoadPlaced
  <2> QED
    BY <2>3, <2>4, <1>4 DEF DbInv
<1>8. CASE low # 8 /\ ~(units /\ scale = 0)
  <2>1. /\ Db!Decode(low, arg, high, arg2, units) /\ UNCHANGED <<dbStep, base>>
        /\ low \in 0..7 /\ arg \in Numbers /\ arg2 \in Numbers
    BY <1>5, <1>8, DbAssumed DEF Numbers
  <2>2. units => scale # 0
    BY <1>8
  <2>3. /\ db' \in [Numbers -> Numbers \cup {None}] /\ pvid' \in Numbers
        /\ poffset' \in Numbers /\ dbAt' \in 0..size /\ dbAt' = dbAt + 1
    BY <2>1, <2>2, <1>1, <1>a, DecodeIsTyped
  <2>4. DbTyped'
    BY <2>1, <2>3, <1>1, <1>3, <1>a DEF DbTyped
  <2>5. ~(dbAt' <= cut')
    BY <2>3, <1>1, <1>a, DbAssumed DEF DbTyped
  <2>6. ReadAsWritten'
    BY <2>5 DEF ReadAsWritten
  <2>7. LoadPlaced'
    BY <2>1, <1>1, <1>2, <1>3 DEF LoadPlaced
  <2> QED
    BY <2>4, <2>6, <2>7, <1>4 DEF DbInv
<1> QED
  BY <1>6, <1>7, <1>8

(* The load ends with what was written, or it is given up.                 *)
LEMMA LoadEndKeeps == DbInv /\ (Db!LoadEnd \/ Db!Release) => DbInv'
<1> SUFFICES ASSUME DbInv, Db!LoadEnd \/ Db!Release PROVE DbInv'
  OBVIOUS
<1>a. DbTyped /\ ReadAsWritten /\ LoadPlaced /\ Answered
  BY DEF DbInv
<1>1. UNCHANGED <<cut, size, scale, dbAt, pvid, poffset, db, base, isAE, written, before, bad,
                  asked, offset, answer>>
  BY DEF Db!LoadEnd, Db!Release, Db!writerVars, Db!queryVars
<1>2. Answered'
  BY <1>1, <1>a DEF Answered
<1>3. CASE Db!LoadEnd
  <2>1. dbStep = "entries" /\ dbAt = size /\ dbStep' = "end" /\ loaded' = TRUE
    BY <1>3 DEF Db!LoadEnd
  <2>2. cut = size => db = written
    BY <2>1, <1>a DEF ReadAsWritten, DbTyped
  <2>3. loaded' \in {TRUE, FALSE} /\ ~(loaded' = FALSE)
    BY <2>1
  <2>4. DbTyped'
    BY <1>1, <2>1, <2>3, <1>a DEF DbTyped
  <2>5. ReadAsWritten' /\ LoadPlaced'
    BY <1>1, <2>1, <2>2, <2>3, <1>a DEF ReadAsWritten, LoadPlaced
  <2> QED
    BY <1>2, <2>4, <2>5 DEF DbInv
<1>4. CASE Db!Release
  <2>1. dbStep' = "released" /\ loaded' = FALSE
    BY <1>4 DEF Db!Release
  <2>2. loaded' \in {TRUE, FALSE} /\ ~(loaded' = TRUE)
    BY <2>1
  <2>3. DbTyped'
    BY <1>1, <2>1, <2>2, <1>a DEF DbTyped
  <2>4. ReadAsWritten' /\ LoadPlaced'
    BY <2>1, <2>2 DEF ReadAsWritten, LoadPlaced
  <2> QED
    BY <1>2, <2>3, <2>4 DEF DbInv
<1> QED
  BY <1>3, <1>4

(* What is assumed of the queries.                                         *)
LEMMA QueriesAssumed == Queries \subseteq (0..Word - 1) \X (0..Word - 1) \X Int \X Int
<1>1. Db!VersionDbAssumption
  BY LoadingAssumption, Zenon DEF LoadingAssumption
<1> QED
  BY <1>1 DEF Db!VersionDbAssumption

(* A sum of a remainder has the remainder of the sum.                      *)
LEMMA ModAdds ==
  ASSUME NEW a \in Int, NEW b \in Int, NEW n \in Nat \ {0}
  PROVE  ((a % n) + b) % n = (a + b) % n
<1> DEFINE p == a \div n
<1> DEFINE m == (a % n) + b
<1> DEFINE k == m \div n
<1> DEFINE q == (a + b) \div n
<1>1. a % n \in 0..n - 1 /\ p \in Int /\ a = n * p + (a % n)
  OBVIOUS
<1>2. m \in Int /\ a + b = n * p + m
  BY <1>1
<1>3. m % n \in 0..n - 1 /\ k \in Int /\ m = n * k + (m % n)
  BY <1>2
<1>4. (a + b) % n \in 0..n - 1 /\ q \in Int /\ a + b = n * q + ((a + b) % n)
  OBVIOUS
<1> DEFINE t == m % n
<1> DEFINE u == (a + b) % n
<1> DEFINE d == q - p - k
<1>5. t \in 0..n - 1 /\ u \in 0..n - 1 /\ d \in Int /\ t - u = n * q - n * p - n * k
  BY <1>1, <1>2, <1>3, <1>4
<1>6. n * q - n * p - n * k = n * d
  BY <1>1, <1>3, <1>4
<1> SUFFICES t = u
  OBVIOUS
<1> HIDE DEF p, m, k, q, t, u, d
<1>7. t - u = n * d
  BY <1>5, <1>6
<1>8. CASE d = 0
  BY <1>5, <1>7, <1>8
<1>9. CASE d >= 1
  <2>1. n * d >= n
    BY <1>5, <1>9
  <2> QED
    BY <2>1, <1>5, <1>7
<1>10. CASE d <= -1
  <2>1. n * d <= -n
    BY <1>5, <1>10
  <2> QED
    BY <2>1, <1>5, <1>7
<1> QED
  BY <1>5, <1>8, <1>9, <1>10

(* A query.                                                                *)
LEMMA QueryKeeps ==
  ASSUME DbInv, NEW se \in Numbers, NEW ae \in Numbers, NEW offsetSe \in Int, NEW offsetAe \in Int,
         Db!Addr(se, ae, offsetSe, offsetAe)
  PROVE  DbInv'
<1>a. DbTyped /\ ReadAsWritten /\ LoadPlaced /\ Answered
  BY DEF DbInv
<1> DEFINE id == IF isAE THEN ae ELSE se
<1> DEFINE shift == IF isAE THEN offsetAe ELSE offsetSe
<1> DEFINE found == Db!FindAddressById(id)
<1>1. id \in Numbers /\ shift \in Int
  OBVIOUS
<1>2. /\ dbStep \in {"end", "released"}
      /\ UNCHANGED <<cut, size, scale, dbAt, pvid, poffset, db, base, isAE, loaded, written, before>>
      /\ IF dbStep = "released" /\ id # 0
           THEN dbStep' = "dereferenced" /\ UNCHANGED <<bad, asked, offset, answer>>
           ELSE /\ asked' = id /\ offset' = shift
                /\ answer' = (IF id = 0 \/ found = 0 THEN 0 ELSE (found + offset') % Word)
                /\ bad' = (bad \/ (id # 0 /\ found = 0))
                /\ UNCHANGED dbStep
  BY DEF Db!Addr, Db!writerVars, Db!queryVars
<1> HIDE DEF id, shift, found
<1>3. loaded' \in {TRUE, FALSE} /\ loaded' = loaded
  BY <1>2, <1>a DEF DbTyped
<1>4. CASE dbStep = "released" /\ id # 0
  <2>1. dbStep' = "dereferenced" /\ UNCHANGED <<bad, asked, offset, answer>>
    BY <1>2, <1>4
  <2>2. bad' \in {TRUE, FALSE} /\ ~(loaded = TRUE)
    BY <2>1, <1>4, <1>a DEF DbTyped, LoadPlaced
  <2>3. DbTyped'
    BY <2>1, <2>2, <1>2, <1>3, <1>a DEF DbTyped
  <2>4. ReadAsWritten' /\ LoadPlaced'
    BY <2>1, <2>2, <1>3 DEF ReadAsWritten, LoadPlaced
  <2>5. Answered'
    BY <2>1, <1>2, <1>a DEF Answered
  <2> QED
    BY <2>3, <2>4, <2>5 DEF DbInv
<1>5. CASE ~(dbStep = "released" /\ id # 0)
  <2>1. /\ asked' = id /\ offset' = shift /\ dbStep' = dbStep
        /\ answer' = (IF id = 0 \/ found = 0 THEN 0 ELSE (found + shift) % Word)
        /\ bad' = (bad \/ (id # 0 /\ found = 0))
    BY <1>2, <1>5
  <2>2. bad' \in {TRUE, FALSE}
    BY <2>1
  <2>3. bad' = FALSE => id = 0 \/ answer' # 0 \/ shift # 0
    <3> SUFFICES ASSUME id # 0, answer' = 0, shift = 0 PROVE bad' = TRUE
      BY <2>2
    <3>1. CASE found = 0
      BY <3>1, <2>1
    <3>2. CASE found # 0
      <4>1. base # 0 /\ db[id] # None /\ found = (base + db[id]) % Word
        BY <3>2 DEF found, Db!FindAddressById
      <4>a. dbStep = "end"
        BY <1>2, <1>5
      <4>b. loaded = TRUE \/ loaded = FALSE
        BY <1>a DEF DbTyped
      <4>c. base = Base
        BY <4>1, <4>a, <4>b, <1>a DEF LoadPlaced
      <4>d. db[id] \in Numbers \cup {None}
        BY <1>1, <1>a DEF DbTyped
      <4>2. db[id] \in Numbers /\ base = Base
        BY <4>1, <4>c, <4>d
      <4>3. found \in Numbers
        BY <4>1, <4>2, DbAssumed DEF Numbers
      <4>4. found % Word = found
        BY <4>3, DbAssumed DEF Numbers
      <4>5. found \in Int
        BY <4>3, DbAssumed DEF Numbers
      <4>6. found + shift = found
        BY <4>5
      <4> QED
        BY <4>4, <4>6, <3>2, <2>1
    <3> QED
      BY <3>1, <3>2
  <2>4. DbTyped'
    BY <2>1, <2>2, <1>1, <1>2, <1>3, <1>a DEF DbTyped
  <2>5. ReadAsWritten' /\ LoadPlaced'
    BY <2>1, <1>2, <1>3, <1>a DEF ReadAsWritten, LoadPlaced
  <2>6. answer' # 0 /\ cut = size => /\ id # 0 /\ written[id] # None
                                     /\ answer' = (Base + written[id] + shift) % Word
    <3> SUFFICES ASSUME answer' # 0, cut = size
                 PROVE  /\ id # 0 /\ written[id] # None
                        /\ answer' = (Base + written[id] + shift) % Word
      OBVIOUS
    <3>1. id # 0 /\ found # 0 /\ answer' = (found + shift) % Word
      BY <2>1
    <3>2. base # 0 /\ db[id] # None /\ found = (base + db[id]) % Word
      BY <3>1 DEF found, Db!FindAddressById
    <3>3. dbStep = "end"
      BY <3>1, <1>2, <1>5
    <3>4. loaded = TRUE
      BY <3>2, <3>3, <1>a DEF LoadPlaced, DbTyped
    <3>5. base = Base /\ db = written /\ db[id] \in Numbers
      BY <3>2, <3>4, <1>1, <1>a DEF LoadPlaced, DbTyped
    <3>6. (((Base + db[id]) % Word) + shift) % Word = (Base + db[id] + shift) % Word
      <4> DEFINE sum == Base + db[id]
      <4>1. sum \in Int
        BY <3>5, DbAssumed DEF Numbers
      <4>2. Word \in Nat \ {0}
        BY DbAssumed
      <4> SUFFICES ((sum % Word) + shift) % Word = (sum + shift) % Word
        OBVIOUS
      <4> HIDE DEF sum
      <4> QED
        BY <4>1, <4>2, <1>1, ModAdds
    <3> QED
      BY <3>1, <3>2, <3>5, <3>6
  <2>7. Answered'
    BY <2>1, <2>3, <2>6, <1>2 DEF Answered
  <2> QED
    BY <2>4, <2>5, <2>7 DEF DbInv
<1> QED
  BY <1>4, <1>5

(* Every step of the database keeps the invariant.                         *)
LEMMA DbKeeps == DbInv /\ Db!Next => DbInv'
<1> SUFFICES ASSUME DbInv, Db!Next PROVE DbInv'
  OBVIOUS
<1>1. CASE \E q \in Queries : Db!Addr(q[1], q[2], q[3], q[4])
  <2>1. PICK q \in Queries : Db!Addr(q[1], q[2], q[3], q[4])
    BY <1>1
  <2>2. q[1] \in Numbers /\ q[2] \in Numbers /\ q[3] \in Int /\ q[4] \in Int
    BY QueriesAssumed DEF Numbers
  <2> QED
    BY <2>1, <2>2, QueryKeeps
<1> QED
  BY <1>1, HeaderKeeps, EntryKeeps, GarbageKeeps, LoadEndKeeps DEF Db!Next

(* The invariant is what the database promises.                            *)
LEMMA DbMeant == DbInv => Db!TypeOK /\ Db!LoadsExactly /\ Db!AddressesMeant
<1> SUFFICES ASSUME DbInv PROVE Db!TypeOK /\ Db!LoadsExactly /\ Db!AddressesMeant
  OBVIOUS
<1>a. DbTyped /\ ReadAsWritten /\ LoadPlaced /\ Answered
  BY DEF DbInv
<1>1. Db!TypeOK
  BY <1>a DEF DbTyped, Db!TypeOK, Numbers
<1>2. loaded = TRUE \/ loaded = FALSE
  BY <1>a DEF DbTyped
<1>3. Db!LoadsExactly
  <2>a. dbStep = "entries" /\ dbAt <= cut => db = written
    BY <1>a DEF ReadAsWritten
  <2> SUFFICES ASSUME dbStep = "end"
               PROVE  \/ loaded /\ (cut = size => db = written)
                      \/ ~loaded /\ \A id \in DOMAIN db : Db!FindAddressById(id) = 0
    BY <2>a DEF Db!LoadsExactly
  <2>1. CASE loaded = TRUE
    BY <2>1, <1>a DEF LoadPlaced
  <2>2. CASE loaded = FALSE
    <3>1. base = 0
      BY <2>2, <1>a DEF LoadPlaced
    <3>2. \A id \in DOMAIN db : Db!FindAddressById(id) = 0
      BY <3>1 DEF Db!FindAddressById
    <3> QED
      BY <2>2, <3>2
  <2> QED
    BY <1>2, <2>1, <2>2
<1>4. ~bad /\ asked \notin {None, 0} => answer # 0 \/ offset # 0
  <2>1. bad = TRUE \/ bad = FALSE
    BY <1>a DEF DbTyped
  <2> QED
    BY <2>1, <1>a DEF Answered
<1>5. dbStep = "dereferenced" => ~loaded
  <2> SUFFICES ASSUME dbStep = "dereferenced" PROVE ~loaded
    OBVIOUS
  <2>1. ~(loaded = TRUE)
    BY <1>a DEF LoadPlaced
  <2> QED
    BY <2>1, <1>2
<1>6. dbStep = "divided" => cut = -1
  BY <1>a DEF LoadPlaced
<1>7. answer # 0 /\ cut = size => /\ asked # 0 /\ written[asked] # None
                                  /\ answer = (Base + written[asked] + offset) % Word
  BY <1>a DEF Answered
<1> QED
  BY <1>1, <1>3, <1>4, <1>5, <1>6, <1>7 DEF Db!AddressesMeant

-----------------------------------------------------------------------------
(* The records of a save                                                   *)

Pieces == ({"length"} \X Nat \X Nat) \cup (Data \X Nat)

RecordType == [data : Data, body : Seq(Pieces), written : {TRUE, FALSE}, cut : {TRUE, FALSE}]

Total(d) == LenBytes + Size[d]

(* A body is the beginning of what was to be written; it is all of it just *)
(* if WriteRecord returned true and the host lost nothing.                 *)
RecordGood(r) == /\ r \in RecordType
                 /\ Len(r.body) <= Total(r.data)
                 /\ \A i \in 1..Len(r.body) : r.body[i] = Save!Whole(r.data)[i]
                 /\ Len(r.body) = Total(r.data) <=> r.written = TRUE /\ r.cut = FALSE

Complete(r) == Len(r.body) = Total(r.data)

Outcomes == Data \cup {"refused", "partial", "thrown"}

(* What may become of a record when it is read.                            *)
OutcomeGood(o, r) == /\ o \in Data => o = r.data
                     /\ o \in Data \cup {"partial"} <=> Complete(r)
                     /\ o = "thrown" => Len(r.body) \in 1..LenBytes - 1

(* The record that is being written.                                       *)
Unwritten(r, bytes) == /\ r.data = pending /\ r.written = FALSE /\ r.cut = FALSE
                       /\ r.body = bytes

SavePlaced ==
    /\ saveStep \in {"idle", "open", "length", "data", "readlength", "readdata", "load"}
    /\ saveStep \in {"open", "length", "data"} => saveAt = 0 /\ pending \in Data
    /\ saveStep \in {"length", "data"} => Len(records) > 0
    /\ saveStep = "length" => Unwritten(records[Len(records)], << >>)
    /\ saveStep = "data" => Unwritten(records[Len(records)], Save!LengthOf(pending))
    /\ IF saveStep \in {"readlength", "readdata", "load"}
         THEN saveAt > 0 /\ Len(outcome) = saveAt - 1
         ELSE Len(outcome) = saveAt

(* What ReadRecord knows of the record it reads.                           *)
ReadPlaced ==
    /\ saveStep = "readdata" =>
         /\ compressedSize \in 1..MaxSize /\ Len(records[saveAt].body) > 0
         /\ Len(records[saveAt].body) >= LenBytes =>
              compressedSize = Size[records[saveAt].data]
    /\ saveStep = "load" => /\ Complete(records[saveAt])
                            /\ buffer = Save!BytesOf(records[saveAt].data)

SaveInv == /\ records \in Seq(RecordType) /\ outcome \in Seq(Outcomes)
           /\ saveAt \in 0..Len(records)
           /\ \A i \in 1..Len(records) : RecordGood(records[i])
           /\ \A i \in 1..Len(outcome) : OutcomeGood(outcome[i], records[i])
           /\ SavePlaced /\ ReadPlaced

(* What is assumed of the sizes.                                           *)
LEMMA SaveAssumed ==
  /\ LenBytes \in Nat \ {0} /\ MaxSize \in Nat /\ MaxRecords \in Nat
  /\ \A d \in Data : Size[d] \in Nat \ {0} /\ Size[d] < MaxSize
  /\ "refused" \notin Data /\ "partial" \notin Data /\ "thrown" \notin Data
<1>1. Save!SerializationAssumption
  BY LoadingAssumption, Zenon DEF LoadingAssumption
<1>2. /\ Size \in [Data -> 1..MaxSize - 1] /\ LenBytes \in Nat \ {0}
      /\ MaxSize \in Nat /\ MaxRecords \in Nat
      /\ Data \cap {"refused", "partial", "thrown"} = {}
  BY <1>1 DEF Save!SerializationAssumption
<1>3. \A d \in Data : Size[d] \in Nat \ {0} /\ Size[d] < MaxSize
  BY <1>2
<1> QED
  BY <1>2, <1>3

(* Bytes are appended.                                                     *)
LEMMA BytesAppended ==
  ASSUME NEW p \in Seq(Pieces), NEW q \in Seq(Pieces)
  PROVE  /\ p \o q \in Seq(Pieces) /\ Len(p \o q) = Len(p) + Len(q)
         /\ \A i \in 1..Len(p) : (p \o q)[i] = p[i]
         /\ \A i \in 1..Len(q) : (p \o q)[Len(p) + i] = q[i]
<1>1. Len(p) \in Nat /\ Len(q) \in Nat
  OBVIOUS
<1>2. \A i \in 1..Len(q) : /\ Len(p) + i \in 1..Len(p) + Len(q)
                           /\ ~(Len(p) + i <= Len(p)) /\ Len(p) + i - Len(p) = i
  BY <1>1
<1>3. \A i \in 1..Len(p) : i \in 1..Len(p) + Len(q) /\ i <= Len(p)
  BY <1>1
<1> QED
  BY <1>2, <1>3

(* The pieces of a record.                                                 *)
LEMMA WholeIs ==
  ASSUME NEW d \in Data
  PROVE  /\ Size[d] \in Nat \ {0} /\ Total(d) \in Nat /\ Total(d) = LenBytes + Size[d]
         /\ Save!LengthOf(d) \in Seq(Pieces) /\ Len(Save!LengthOf(d)) = LenBytes
         /\ Save!BytesOf(d) \in Seq(Pieces) /\ Len(Save!BytesOf(d)) = Size[d]
         /\ Save!Whole(d) \in Seq(Pieces) /\ Len(Save!Whole(d)) = Total(d)
         /\ \A i \in 1..LenBytes : /\ Save!Whole(d)[i] = Save!LengthOf(d)[i]
                                   /\ Save!Whole(d)[i] = <<"length", Size[d], i>>
         /\ \A i \in 1..Size[d] : /\ Save!Whole(d)[LenBytes + i] = Save!BytesOf(d)[i]
                                  /\ Save!BytesOf(d)[i] = <<d, i>>
<1>1. Size[d] \in Nat \ {0} /\ LenBytes \in Nat \ {0}
  BY SaveAssumed
<1> DEFINE p == Save!LengthOf(d)
<1> DEFINE q == Save!BytesOf(d)
<1>2. p \in [1..LenBytes -> Pieces] /\ \A i \in 1..LenBytes : p[i] = <<"length", Size[d], i>>
  BY <1>1 DEF Save!LengthOf, Pieces
<1>3. q \in [1..Size[d] -> Pieces] /\ \A i \in 1..Size[d] : q[i] = <<d, i>>
  BY <1>1 DEF Save!BytesOf, Pieces
<1>4. Save!Whole(d) = p \o q
  BY DEF Save!Whole
<1> HIDE DEF p, q
<1>5. p \in Seq(Pieces) /\ Len(p) = LenBytes /\ q \in Seq(Pieces) /\ Len(q) = Size[d]
  BY <1>1, <1>2, <1>3
<1>6. /\ p \o q \in Seq(Pieces) /\ Len(p \o q) = LenBytes + Size[d]
      /\ \A i \in 1..LenBytes : (p \o q)[i] = p[i]
      /\ \A i \in 1..Size[d] : (p \o q)[LenBytes + i] = q[i]
  <2>1. /\ p \o q \in Seq(Pieces) /\ Len(p \o q) = Len(p) + Len(q)
        /\ \A i \in 1..Len(p) : (p \o q)[i] = p[i]
        /\ \A i \in 1..Len(q) : (p \o q)[Len(p) + i] = q[i]
    BY <1>5, BytesAppended
  <2> QED
    BY <1>5, <2>1
<1>7. Total(d) = LenBytes + Size[d] /\ Total(d) \in Nat
  BY <1>1 DEF Total
<1> QED
  BY <1>1, <1>2, <1>3, <1>4, <1>5, <1>6, <1>7 DEF p, q

(* The beginning of bytes.                                                 *)
LEMMA BytesBegin ==
  ASSUME NEW bytes \in Seq(Pieces), NEW n \in 0..Len(bytes)
  PROVE  /\ SubSeq(bytes, 1, n) \in Seq(Pieces) /\ Len(SubSeq(bytes, 1, n)) = n
         /\ \A i \in 1..n : SubSeq(bytes, 1, n)[i] = bytes[i]
<1>1. n \in Int /\ 1 \in Int /\ n >= 0 /\ \A i \in 1..n : bytes[i] \in Pieces
  OBVIOUS
<1> DEFINE r == SubSeq(bytes, 1, n)
<1>2. /\ r \in Seq(Pieces)
      /\ Len(r) = (IF 1 <= n THEN n - 1 + 1 ELSE 0)
      /\ \A i \in 1..n - 1 + 1 : r[i] = bytes[1 + i - 1]
  BY <1>1, SubSeqProperties
<1> HIDE DEF r
<1>3. Len(r) = n
  BY <1>1, <1>2
<1>4. ASSUME NEW i \in 1..n PROVE r[i] = bytes[i]
  <2>1. i \in 1..n - 1 + 1 /\ 1 + i - 1 = i
    BY <1>1
  <2> QED
    BY <2>1, <1>2
<1> QED
  BY <1>2, <1>3, <1>4 DEF r

(* Bytes from the middle.                                                  *)
LEMMA BytesAfter ==
  ASSUME NEW bytes \in Seq(Pieces), NEW m \in Nat, NEW n \in Nat, m + n <= Len(bytes)
  PROVE  /\ SubSeq(bytes, m + 1, m + n) \in Seq(Pieces)
         /\ Len(SubSeq(bytes, m + 1, m + n)) = n
         /\ \A i \in 1..n : SubSeq(bytes, m + 1, m + n)[i] = bytes[m + i]
<1> DEFINE lo == m + 1
<1> DEFINE hi == m + n
<1>1. lo \in Int /\ hi \in Int /\ \A i \in lo..hi : bytes[i] \in Pieces
  OBVIOUS
<1>2. lo = m + 1 /\ hi = m + n
  OBVIOUS
<1> HIDE DEF lo, hi
<1> DEFINE r == SubSeq(bytes, lo, hi)
<1>3. /\ r \in Seq(Pieces)
      /\ Len(r) = (IF lo <= hi THEN hi - lo + 1 ELSE 0)
      /\ \A i \in 1..hi - lo + 1 : r[i] = bytes[lo + i - 1]
  BY <1>1, SubSeqProperties
<1> HIDE DEF r
<1>4. Len(r) = n /\ hi - lo + 1 = n
  BY <1>2, <1>3
<1>5. ASSUME NEW i \in 1..n PROVE r[i] = bytes[m + i]
  <2>1. lo + i - 1 = m + i
    BY <1>2
  <2> QED
    BY <2>1, <1>3, <1>4
<1> QED
  BY <1>3, <1>4, <1>5 DEF r, lo, hi

(* The data is what its bytes say.                                         *)
LEMMA BytesTell ==
  ASSUME NEW d \in Data, NEW c \in Data, Save!BytesOf(d) = Save!BytesOf(c)
  PROVE  d = c
<1>1. 1 \in 1..Size[d] /\ 1 \in 1..Size[c]
  BY SaveAssumed
<1>2. Save!BytesOf(d)[1] = <<d, 1>> /\ Save!BytesOf(c)[1] = <<c, 1>>
  BY <1>1, WholeIs
<1> QED
  BY <1>2

(* The record under way is replaced.                                       *)
LEMMA LastReplaced ==
  ASSUME records \in Seq(RecordType), Len(records) > 0, outcome = << >>,
         \A i \in 1..Len(records) : RecordGood(records[i]),
         NEW r, RecordGood(r), Save!SetLast(r), outcome' = outcome
  PROVE  /\ records' \in Seq(RecordType) /\ Len(records') = Len(records)
         /\ records'[Len(records)] = r
         /\ \A i \in 1..Len(records') : RecordGood(records'[i])
         /\ outcome' \in Seq(Outcomes) /\ Len(outcome') = 0
<1>1. records' = [records EXCEPT ![Len(records)] = r]
  BY DEF Save!SetLast
<1>2. r \in RecordType
  BY DEF RecordGood
<1>3. Len(records) \in 1..Len(records)
  OBVIOUS
<1>4. /\ records' \in Seq(RecordType) /\ Len(records') = Len(records)
      /\ records'[Len(records)] = r
      /\ \A i \in 1..Len(records) : i # Len(records) => records'[i] = records[i]
  BY <1>1, <1>2, <1>3
<1> QED
  BY <1>4

(* A record whose bytes are extended.                                      *)
LEMMA BodyExtended ==
  ASSUME NEW r, RecordGood(r), NEW bytes \in Seq(Pieces),
         Len(r.body) + Len(bytes) <= Total(r.data),
         \A i \in 1..Len(bytes) : bytes[i] = Save!Whole(r.data)[Len(r.body) + i],
         NEW s \in RecordType, s.data = r.data, s.body = r.body \o bytes, s.cut = FALSE,
         Len(r.body) + Len(bytes) = Total(r.data) <=> s.written = TRUE
  PROVE  RecordGood(s)
<1>1. /\ r \in RecordType /\ r.data \in Data /\ r.body \in Seq(Pieces)
      /\ \A i \in 1..Len(r.body) : r.body[i] = Save!Whole(r.data)[i]
      /\ Len(r.body) \in Nat /\ Len(bytes) \in Nat
  <2>1. r \in RecordType /\ \A i \in 1..Len(r.body) : r.body[i] = Save!Whole(r.data)[i]
    BY DEF RecordGood
  <2>2. r.data \in Data /\ r.body \in Seq(Pieces)
    BY <2>1 DEF RecordType
  <2> QED
    BY <2>1, <2>2
<1> DEFINE b == r.body \o bytes
<1>2. /\ b \in Seq(Pieces) /\ Len(b) = Len(r.body) + Len(bytes)
      /\ \A i \in 1..Len(r.body) : b[i] = r.body[i]
      /\ \A i \in 1..Len(bytes) : b[Len(r.body) + i] = bytes[i]
  BY <1>1, BytesAppended
<1>3. s.body = b
  OBVIOUS
<1> HIDE DEF b
<1>4. ASSUME NEW i \in 1..Len(b) PROVE b[i] = Save!Whole(r.data)[i]
  <2>1. CASE i <= Len(r.body)
    BY <2>1, <1>1, <1>2
  <2>2. CASE ~(i <= Len(r.body))
    <3>1. PICK j \in 1..Len(bytes) : i = Len(r.body) + j
      <4>1. i - Len(r.body) \in 1..Len(bytes) /\ i = Len(r.body) + (i - Len(r.body))
        BY <2>2, <1>1, <1>2
      <4> QED
        BY <4>1
    <3> QED
      BY <3>1, <1>2
  <2> QED
    BY <2>1, <2>2
<1>5. Len(s.body) <= Total(s.data)
  BY <1>2, <1>3
<1>6. Len(s.body) = Total(s.data) <=> s.written = TRUE /\ s.cut = FALSE
  BY <1>2, <1>3
<1> QED
  BY <1>3, <1>4, <1>5, <1>6 DEF RecordGood

(* At the beginning there is no record.                                    *)
LEMMA SaveBegins == Save!Init => SaveInv
<1> SUFFICES ASSUME Save!Init PROVE SaveInv
  OBVIOUS
<1>1. /\ saveStep = "idle" /\ records = << >> /\ saveAt = 0 /\ outcome = << >>
  BY DEF Save!Init
<1>2. /\ records \in Seq(RecordType) /\ Len(records) = 0
      /\ outcome \in Seq(Outcomes) /\ Len(outcome) = 0
  BY <1>1
<1> QED
  BY <1>1, <1>2 DEF SaveInv, SavePlaced, ReadPlaced

(* The parts of the invariant while nothing is read.                       *)
LEMMA NothingRead ==
  ASSUME SaveInv, saveAt = 0, saveStep \in {"idle", "open", "length", "data"}
  PROVE  Len(outcome) = 0 /\ outcome = << >> /\ outcome \in Seq(Outcomes)
<1>1. Len(outcome) = 0 /\ outcome \in Seq(Outcomes)
  BY DEF SaveInv, SavePlaced
<1> QED
  BY <1>1, EmptySeq

(* Store, and a record that is opened.                                     *)
LEMMA StoreKeeps ==
  ASSUME SaveInv, Save!StoreFails \/ Save!OpenRecord \/ \E d \in Data : Save!StoreData(d)
  PROVE  SaveInv'
<1>a. /\ records \in Seq(RecordType) /\ outcome \in Seq(Outcomes)
      /\ saveAt \in 0..Len(records) /\ Len(records) \in Nat
      /\ \A i \in 1..Len(records) : RecordGood(records[i])
      /\ \A i \in 1..Len(outcome) : OutcomeGood(outcome[i], records[i])
      /\ SavePlaced /\ ReadPlaced
  BY DEF SaveInv
<1>1. CASE Save!StoreFails
  <2>1. UNCHANGED <<saveStep, records, pending, saveAt, compressedSize, buffer, outcome>>
    BY <1>1 DEF Save!StoreFails, Save!vars, Save!readVars
  <2>2. SavePlaced' /\ ReadPlaced'
    BY <2>1, <1>a DEF SavePlaced, ReadPlaced, Unwritten
  <2> QED
    BY <2>1, <2>2, <1>a DEF SaveInv
<1>2. CASE \E d \in Data : Save!StoreData(d)
  <2>1. /\ saveStep = "idle" /\ saveAt = 0 /\ saveStep' = "open" /\ pending' \in Data
        /\ UNCHANGED <<records, saveAt, compressedSize, buffer, outcome>>
    BY <1>2 DEF Save!StoreData, Save!readVars
  <2>2. SavePlaced' /\ ReadPlaced'
    BY <2>1, <1>a DEF SavePlaced, ReadPlaced
  <2> QED
    BY <2>1, <2>2, <1>a DEF SaveInv
<1>3. CASE Save!OpenRecord
  <2>1. saveStep = "open" /\ UNCHANGED <<pending, saveAt, compressedSize, buffer, outcome>>
    BY <1>3 DEF Save!OpenRecord, Save!readVars
  <2>2. saveAt = 0 /\ pending \in Data /\ Len(outcome) = 0
    BY <2>1, <1>a DEF SavePlaced
  <2>3. CASE saveStep' = "idle" /\ UNCHANGED records
    <3>1. SavePlaced' /\ ReadPlaced'
      BY <2>1, <2>2, <2>3 DEF SavePlaced, ReadPlaced
    <3> QED
      BY <2>1, <2>3, <3>1, <1>a DEF SaveInv
  <2> DEFINE r == [data |-> pending, body |-> << >>, written |-> FALSE, cut |-> FALSE]
  <2>4. CASE saveStep' = "length" /\ records' = Append(records, r)
    <3>1. /\ r \in RecordType /\ r.data = pending /\ r.body = << >>
          /\ r.written = FALSE /\ r.cut = FALSE
      <4>1. << >> \in Seq(Pieces)
        OBVIOUS
      <4> QED
        BY <4>1, <2>2 DEF RecordType
    <3>f. ~(r.written = TRUE)
      OBVIOUS
    <3> HIDE DEF r
    <3>2. RecordGood(r)
      <4>1. Len(r.body) = 0 /\ Total(r.data) \in Nat \ {0}
        BY <3>1, <2>2, WholeIs, SaveAssumed DEF Total
      <4> QED
        BY <4>1, <3>1, <3>f DEF RecordGood
    <3>3. /\ records' \in Seq(RecordType) /\ Len(records') = Len(records) + 1
          /\ records'[Len(records')] = r
          /\ \A i \in 1..Len(records) : records'[i] = records[i]
      BY <2>4, <3>1, <1>a
    <3>4. \A i \in 1..Len(records') : RecordGood(records'[i])
      <4>1. \A i \in 1..Len(records') : i \in 1..Len(records) \/ i = Len(records')
        BY <3>3, <1>a
      <4> QED
        BY <4>1, <3>2, <3>3, <1>a
    <3>5. Unwritten(r, << >>)'
      BY <2>1, <3>1 DEF Unwritten, r
    <3>6. SavePlaced' /\ ReadPlaced'
      BY <2>1, <2>2, <2>4, <3>3, <3>1, <1>a DEF SavePlaced, ReadPlaced, Unwritten
    <3>7. saveAt' \in 0..Len(records') /\ Len(outcome') = 0 /\ outcome' \in Seq(Outcomes)
      BY <2>1, <2>2, <3>3, <1>a
    <3> QED
      BY <3>3, <3>4, <3>6, <3>7 DEF SaveInv
  <2> QED
    BY <2>3, <2>4, <1>3 DEF Save!OpenRecord
<1> QED
  BY <1>1, <1>2, <1>3

(* The record under way with more bytes.                                   *)
LEMMA BodyReplaced ==
  ASSUME NEW r \in RecordType, NEW b \in Seq(Pieces)
  PROVE  LET s == [r EXCEPT !.body = b] IN
         /\ s \in RecordType /\ s.data = r.data /\ s.body = b
         /\ s.written = r.written /\ s.cut = r.cut
  BY DEF RecordType

(* The length is written, or a part of it.                                 *)
LEMMA WriteLengthKeeps ==
  ASSUME SaveInv, Save!WriteLength
  PROVE  SaveInv'
<1>a. /\ records \in Seq(RecordType) /\ saveAt \in 0..Len(records) /\ Len(records) \in Nat
      /\ \A i \in 1..Len(records) : RecordGood(records[i])
      /\ SavePlaced /\ ReadPlaced
  BY DEF SaveInv
<1>1. saveStep = "length" /\ UNCHANGED <<pending, saveAt, compressedSize, buffer, outcome>>
  BY DEF Save!WriteLength, Save!readVars
<1> DEFINE r == records[Len(records)]
<1> DEFINE p == Save!LengthOf(pending)
<1>2. /\ saveAt = 0 /\ pending \in Data /\ Len(records) > 0
      /\ r.data = pending /\ r.written = FALSE /\ r.cut = FALSE /\ r.body = << >>
  BY <1>1, <1>a DEF SavePlaced, Unwritten
<1>3. RecordGood(r) /\ r \in RecordType
  BY <1>2, <1>a DEF RecordGood
<1>4. Len(outcome) = 0 /\ outcome = << >>
  BY <1>1, <1>2, NothingRead
<1>5. /\ p \in Seq(Pieces) /\ Len(p) = LenBytes /\ LenBytes \in Nat \ {0}
      /\ Total(pending) \in Nat /\ LenBytes < Total(pending)
      /\ \A i \in 1..LenBytes : Save!Whole(pending)[i] = p[i]
  BY <1>2, WholeIs, SaveAssumed
<1>6. \/ saveStep' = "data" /\ Save!HostWrites(p)
      \/ saveStep' = "idle" /\ \E n \in 0..Len(p) - 1 : Save!HostWrites(SubSeq(p, 1, n))
  BY DEF Save!WriteLength, Save!HostFails
<1> HIDE DEF p
<1>7. ASSUME NEW q \in Seq(Pieces), Len(q) <= LenBytes,
             \A i \in 1..Len(q) : q[i] = p[i], Save!HostWrites(q)
      PROVE  /\ records' \in Seq(RecordType) /\ Len(records') = Len(records)
             /\ \A i \in 1..Len(records') : RecordGood(records'[i])
             /\ outcome' \in Seq(Outcomes) /\ Len(outcome') = 0
             /\ Unwritten(records'[Len(records)], q)
  <2> DEFINE s == [r EXCEPT !.body = r.body \o q]
  <2>1. r.body \o q = q /\ Len(r.body) = 0 /\ Len(q) \in Nat
    BY <1>2, ConcatEmptySeq
  <2>2. /\ s \in RecordType /\ s.data = r.data /\ s.body = r.body \o q
        /\ s.written = r.written /\ s.cut = r.cut
    BY <1>3, <2>1, BodyReplaced
  <2>3. Save!SetLast(s)
    BY <1>7, Zenon DEF Save!HostWrites, Save!last
  <2> HIDE DEF s, r
  <2>4. ~(s.written = TRUE) /\ Len(r.body) + Len(q) # Total(r.data)
        /\ Len(r.body) + Len(q) <= Total(r.data) /\ s.cut = FALSE /\ s.written = FALSE
    BY <2>1, <2>2, <1>2, <1>5, <1>7
  <2>5. \A i \in 1..Len(q) : q[i] = Save!Whole(r.data)[Len(r.body) + i]
    BY <2>1, <1>2, <1>5, <1>7
  <2>6. RecordGood(s)
    BY <2>2, <2>4, <2>5, <1>3, BodyExtended
  <2>7. /\ records' \in Seq(RecordType) /\ Len(records') = Len(records)
        /\ records'[Len(records)] = s
        /\ \A i \in 1..Len(records') : RecordGood(records'[i])
        /\ outcome' \in Seq(Outcomes) /\ Len(outcome') = 0
    BY <2>3, <2>6, <1>1, <1>2, <1>4, <1>a, LastReplaced
  <2>8. Unwritten(s, q)
    BY <2>1, <2>2, <2>4, <1>2 DEF Unwritten
  <2> QED
    BY <2>7, <2>8
<1>8. CASE saveStep' = "data" /\ Save!HostWrites(p)
  <2>1. /\ records' \in Seq(RecordType) /\ Len(records') = Len(records)
        /\ \A i \in 1..Len(records') : RecordGood(records'[i])
        /\ outcome' \in Seq(Outcomes) /\ Len(outcome') = 0
        /\ Unwritten(records'[Len(records)], p)
    BY <1>5, <1>7, <1>8
  <2>2. SavePlaced' /\ ReadPlaced'
    BY <2>1, <1>1, <1>2, <1>8 DEF SavePlaced, ReadPlaced, Unwritten, p
  <2> QED
    BY <2>1, <2>2, <1>1, <1>a DEF SaveInv
<1>9. ASSUME saveStep' = "idle", NEW n \in 0..Len(p) - 1, Save!HostWrites(SubSeq(p, 1, n))
      PROVE  SaveInv'
  <2> DEFINE q == SubSeq(p, 1, n)
  <2>1. q \in Seq(Pieces) /\ Len(q) = n /\ \A i \in 1..n : q[i] = p[i]
    BY <1>5, BytesBegin
  <2>2. Save!HostWrites(q)
    BY <1>9
  <2> HIDE DEF q
  <2>3. Len(q) <= LenBytes
    BY <2>1, <1>5
  <2>4. /\ records' \in Seq(RecordType) /\ Len(records') = Len(records)
        /\ \A i \in 1..Len(records') : RecordGood(records'[i])
        /\ outcome' \in Seq(Outcomes) /\ Len(outcome') = 0
    BY <2>1, <2>2, <2>3, <1>7
  <2>5. SavePlaced' /\ ReadPlaced'
    BY <2>4, <1>1, <1>2, <1>9 DEF SavePlaced, ReadPlaced
  <2> QED
    BY <2>4, <2>5, <1>1, <1>a DEF SaveInv
<1> QED
  BY <1>6, <1>8, <1>9

(* The data is written, or a part of it.                                   *)
LEMMA WriteDataKeeps ==
  ASSUME SaveInv, Save!WriteData
  PROVE  SaveInv'
<1>a. /\ records \in Seq(RecordType) /\ saveAt \in 0..Len(records) /\ Len(records) \in Nat
      /\ \A i \in 1..Len(records) : RecordGood(records[i])
      /\ SavePlaced /\ ReadPlaced
  BY DEF SaveInv
<1>1. /\ saveStep = "data" /\ saveStep' = "idle"
      /\ UNCHANGED <<pending, saveAt, compressedSize, buffer, outcome>>
  BY DEF Save!WriteData, Save!readVars
<1> DEFINE r == records[Len(records)]
<1> DEFINE p == Save!BytesOf(pending)
<1>2. /\ saveAt = 0 /\ pending \in Data /\ Len(records) > 0
      /\ r.data = pending /\ r.written = FALSE /\ r.cut = FALSE
      /\ r.body = Save!LengthOf(pending)
  BY <1>1, <1>a DEF SavePlaced, Unwritten
<1>3. RecordGood(r) /\ r \in RecordType
  BY <1>2, <1>a DEF RecordGood
<1>4. Len(outcome) = 0 /\ outcome = << >>
  BY <1>1, <1>2, NothingRead
<1>5. /\ p \in Seq(Pieces) /\ Len(p) = Size[pending] /\ Size[pending] \in Nat \ {0}
      /\ LenBytes \in Nat \ {0} /\ Total(pending) = LenBytes + Size[pending]
      /\ Len(r.body) = LenBytes /\ r.body \in Seq(Pieces)
      /\ \A i \in 1..Size[pending] : Save!Whole(pending)[LenBytes + i] = p[i]
  BY <1>2, WholeIs, SaveAssumed
<1>6. \/ Save!SetLast([r EXCEPT !.body = @ \o p, !.written = TRUE])
      \/ \E n \in 0..Len(p) - 1 : Save!HostWrites(SubSeq(p, 1, n))
  BY Zenon DEF Save!WriteData, Save!HostFails, Save!last
<1> HIDE DEF p
<1>7. ASSUME NEW q \in Seq(Pieces), Len(q) <= Size[pending],
             \A i \in 1..Len(q) : q[i] = p[i],
             NEW s \in RecordType, s.data = r.data, s.body = r.body \o q, s.cut = r.cut,
             Len(q) = Size[pending] <=> s.written = TRUE,
             Save!SetLast(s)
      PROVE  SaveInv'
  <2>1. Len(q) \in Nat
    OBVIOUS
  <2> HIDE DEF r
  <2>2. /\ Len(r.body) + Len(q) <= Total(r.data)
        /\ Len(r.body) + Len(q) = Total(r.data) <=> s.written = TRUE
        /\ s.cut = FALSE
    BY <2>1, <1>2, <1>5, <1>7
  <2>3. \A i \in 1..Len(q) : q[i] = Save!Whole(r.data)[Len(r.body) + i]
    BY <2>1, <1>2, <1>5, <1>7
  <2>4. RecordGood(s)
    BY <2>2, <2>3, <1>3, <1>7, BodyExtended
  <2>5. /\ records' \in Seq(RecordType) /\ Len(records') = Len(records)
        /\ \A i \in 1..Len(records') : RecordGood(records'[i])
        /\ outcome' \in Seq(Outcomes) /\ Len(outcome') = 0
    BY <2>4, <1>1, <1>2, <1>4, <1>7, <1>a, LastReplaced
  <2>6. SavePlaced' /\ ReadPlaced'
    BY <2>5, <1>1, <1>2 DEF SavePlaced, ReadPlaced
  <2> QED
    BY <2>5, <2>6, <1>1, <1>a DEF SaveInv
<1>8. CASE Save!SetLast([r EXCEPT !.body = @ \o p, !.written = TRUE])
  <2> DEFINE s == [r EXCEPT !.body = r.body \o p, !.written = TRUE]
  <2>1. r.body \o p \in Seq(Pieces)
    BY <1>5, BytesAppended
  <2>2. /\ s \in RecordType /\ s.data = r.data /\ s.body = r.body \o p /\ s.cut = r.cut
        /\ s.written = TRUE
    <3> HIDE DEF r
    <3> QED
      BY <1>3, <2>1 DEF RecordType
  <2>3. Save!SetLast(s)
    BY <1>8, Zenon
  <2> HIDE DEF s, r
  <2>4. Len(p) <= Size[pending] /\ Len(p) = Size[pending]
    BY <1>5
  <2> QED
    BY <2>2, <2>3, <2>4, <1>5, <1>7
<1>9. ASSUME NEW n \in 0..Len(p) - 1, Save!HostWrites(SubSeq(p, 1, n))
      PROVE  SaveInv'
  <2> DEFINE q == SubSeq(p, 1, n)
  <2> DEFINE s == [r EXCEPT !.body = r.body \o q]
  <2>1. q \in Seq(Pieces) /\ Len(q) = n /\ \A i \in 1..n : q[i] = p[i]
    BY <1>5, BytesBegin
  <2>2. r.body \o q \in Seq(Pieces)
    BY <1>5, <2>1, BytesAppended
  <2>3. /\ s \in RecordType /\ s.data = r.data /\ s.body = r.body \o q
        /\ s.written = r.written /\ s.cut = r.cut
    BY <1>3, <2>2, BodyReplaced
  <2>4. Save!SetLast(s)
    BY <1>9, Zenon DEF Save!HostWrites, Save!last
  <2> HIDE DEF s, q, r
  <2>5. ~(s.written = TRUE) /\ Len(q) <= Size[pending] /\ Len(q) # Size[pending]
    BY <2>1, <2>3, <1>2, <1>5
  <2> QED
    BY <2>1, <2>3, <2>4, <2>5, <1>7
<1> QED
  BY <1>6, <1>8, <1>9

(* The host loses an end.                                                  *)
LEMMA LoseEndKeeps ==
  ASSUME SaveInv, Save!LoseEnd
  PROVE  SaveInv'
<1>a. /\ records \in Seq(RecordType) /\ saveAt \in 0..Len(records) /\ Len(records) \in Nat
      /\ \A i \in 1..Len(records) : RecordGood(records[i])
      /\ SavePlaced /\ ReadPlaced
  BY DEF SaveInv
<1> DEFINE r == records[Len(records)]
<1>1. /\ saveStep = "idle" /\ saveAt = 0 /\ records # << >>
      /\ UNCHANGED <<saveStep, pending, saveAt, compressedSize, buffer, outcome>>
  BY DEF Save!LoseEnd, Save!readVars
<1>2. PICK n \in 0..Len(r.body) - 1 :
        Save!SetLast([r EXCEPT !.body = SubSeq(@, 1, n), !.cut = TRUE])
  BY Zenon DEF Save!LoseEnd, Save!last
<1>3. Len(records) > 0
  BY <1>1, <1>a
<1>4. Len(outcome) = 0 /\ outcome = << >>
  BY <1>1, NothingRead
<1>5. RecordGood(r) /\ r \in RecordType
  BY <1>3, <1>a DEF RecordGood
<1>6. r.body \in Seq(Pieces) /\ Len(r.body) \in Nat /\ r.data \in Data
  <2> HIDE DEF r
  <2>1. r.body \in Seq(Pieces) /\ r.data \in Data
    BY <1>5 DEF RecordType
  <2> QED
    BY <2>1
<1> DEFINE b == SubSeq(r.body, 1, n)
<1> DEFINE s == [r EXCEPT !.body = b, !.cut = TRUE]
<1>7. b \in Seq(Pieces) /\ Len(b) = n /\ \A i \in 1..n : b[i] = r.body[i]
  BY <1>6, BytesBegin
<1>8. Save!SetLast(s)
  BY <1>2, Zenon
<1> HIDE DEF b, r
<1>9. s \in RecordType /\ s.data = r.data /\ s.body = b /\ s.cut = TRUE
  BY <1>5, <1>7 DEF RecordType
<1> HIDE DEF s
<1>10. RecordGood(s)
  <2>1. /\ Len(r.body) <= Total(r.data) /\ Total(r.data) \in Nat
        /\ \A i \in 1..Len(r.body) : r.body[i] = Save!Whole(r.data)[i]
    BY <1>5, <1>6, WholeIs DEF RecordGood
  <2>2. Len(b) < Total(r.data) /\ \A i \in 1..Len(b) : i \in 1..Len(r.body)
    BY <1>6, <1>7, <2>1
  <2>3. Len(s.body) <= Total(s.data) /\ Len(s.body) # Total(s.data)
    BY <2>1, <2>2, <1>7, <1>9
  <2>4. \A i \in 1..Len(s.body) : s.body[i] = Save!Whole(s.data)[i]
    BY <2>1, <2>2, <1>7, <1>9
  <2>5. ~(s.cut = FALSE)
    BY <1>9
  <2> QED
    BY <2>3, <2>4, <2>5, <1>9 DEF RecordGood
<1>11. /\ records' \in Seq(RecordType) /\ Len(records') = Len(records)
       /\ \A i \in 1..Len(records') : RecordGood(records'[i])
       /\ outcome' \in Seq(Outcomes) /\ Len(outcome') = 0
  BY <1>1, <1>3, <1>4, <1>8, <1>10, <1>a, LastReplaced
<1>12. SavePlaced' /\ ReadPlaced'
  BY <1>11, <1>1 DEF SavePlaced, ReadPlaced
<1> QED
  BY <1>11, <1>12, <1>1, <1>a DEF SaveInv

(* How a record ends: with what its bytes allow.                           *)
LEMMA EndsGood ==
  ASSUME SaveInv, saveStep \in {"readlength", "readdata", "load"}, NEW o \in Outcomes,
         OutcomeGood(o, records[saveAt]), Save!Ends(o),
         UNCHANGED <<records, pending, saveAt>>
  PROVE  SaveInv'
<1>a. /\ records \in Seq(RecordType) /\ outcome \in Seq(Outcomes)
      /\ saveAt \in 0..Len(records) /\ Len(records) \in Nat /\ saveAt \in Nat
      /\ \A i \in 1..Len(records) : RecordGood(records[i])
      /\ \A i \in 1..Len(outcome) : OutcomeGood(outcome[i], records[i])
      /\ saveAt > 0 /\ Len(outcome) = saveAt - 1
  BY DEF SaveInv, SavePlaced
<1>1. saveStep' = "idle" /\ outcome' = Append(outcome, o)
  BY DEF Save!Ends
<1>2. /\ outcome' \in Seq(Outcomes) /\ Len(outcome') = saveAt
      /\ outcome'[saveAt] = o
      /\ \A i \in 1..Len(outcome) : outcome'[i] = outcome[i]
  BY <1>1, <1>a
<1>3. \A i \in 1..Len(outcome') : OutcomeGood(outcome'[i], records[i])
  <2>1. \A i \in 1..Len(outcome') : i \in 1..Len(outcome) \/ i = saveAt
    BY <1>2, <1>a
  <2> QED
    BY <2>1, <1>2, <1>a
<1>4. SavePlaced' /\ ReadPlaced'
  BY <1>1, <1>2 DEF SavePlaced, ReadPlaced
<1> QED
  BY <1>2, <1>3, <1>4, <1>a DEF SaveInv

(* The steps of ReadRecord that do not end it.                             *)
LEMMA ReadGoesOn ==
  ASSUME SaveInv, saveStep \in {"readlength", "readdata"},
         saveStep' \in {"readdata", "load"},
         UNCHANGED <<records, pending, saveAt, outcome>>, ReadPlaced'
  PROVE  SaveInv'
<1>a. /\ records \in Seq(RecordType) /\ outcome \in Seq(Outcomes)
      /\ saveAt \in 0..Len(records)
      /\ \A i \in 1..Len(records) : RecordGood(records[i])
      /\ \A i \in 1..Len(outcome) : OutcomeGood(outcome[i], records[i])
      /\ SavePlaced
  BY DEF SaveInv
<1>1. SavePlaced'
  BY <1>a DEF SavePlaced
<1> QED
  BY <1>1, <1>a DEF SaveInv

(* The record that is read.                                                *)
LEMMA RecordRead ==
  ASSUME SaveInv, saveStep \in {"readlength", "readdata", "load"},
         NEW r, r = records[saveAt]
  PROVE  /\ r.data \in Data /\ r.body \in Seq(Pieces) /\ Len(r.body) \in Nat
         /\ r.body = Save!body
         /\ Total(r.data) = LenBytes + Size[r.data] /\ Len(r.body) <= Total(r.data)
         /\ Size[r.data] \in Nat \ {0} /\ Size[r.data] < MaxSize
         /\ LenBytes \in Nat \ {0} /\ MaxSize \in Nat
         /\ \A i \in 1..Len(r.body) : r.body[i] = Save!Whole(r.data)[i]
<1>1. saveAt \in 1..Len(records) /\ RecordGood(r) /\ r \in RecordType
  BY DEF SaveInv, SavePlaced, RecordGood
<1>2. r.data \in Data /\ r.body \in Seq(Pieces)
  BY <1>1 DEF RecordType
<1>3. /\ Len(r.body) <= Total(r.data)
      /\ \A i \in 1..Len(r.body) : r.body[i] = Save!Whole(r.data)[i]
  BY <1>1 DEF RecordGood
<1>4. r.body = Save!body
  BY DEF Save!body
<1>5. Total(r.data) = LenBytes + Size[r.data] /\ Size[r.data] \in Nat \ {0}
  BY <1>2, WholeIs
<1>6. Len(r.body) \in Nat
  BY <1>2
<1> QED
  BY <1>2, <1>3, <1>4, <1>5, <1>6, SaveAssumed

(* The host comes to the next record.                                      *)
LEMMA NextRecordKeeps == SaveInv /\ Save!NextRecord => SaveInv'
<1> SUFFICES ASSUME SaveInv, Save!NextRecord PROVE SaveInv'
  OBVIOUS
<1>a. /\ records \in Seq(RecordType) /\ outcome \in Seq(Outcomes)
      /\ saveAt \in 0..Len(records) /\ Len(records) \in Nat
      /\ \A i \in 1..Len(records) : RecordGood(records[i])
      /\ \A i \in 1..Len(outcome) : OutcomeGood(outcome[i], records[i])
      /\ SavePlaced
  BY DEF SaveInv
<1>1. /\ saveStep = "idle" /\ saveAt < Len(records)
      /\ saveAt' = saveAt + 1 /\ saveStep' = "readlength"
      /\ UNCHANGED <<records, pending, outcome>>
  BY DEF Save!NextRecord
<1>2. Len(outcome) = saveAt
  BY <1>1, <1>a DEF SavePlaced
<1>3. SavePlaced' /\ ReadPlaced' /\ saveAt' \in 0..Len(records')
  BY <1>1, <1>2, <1>a DEF SavePlaced, ReadPlaced
<1> QED
  BY <1>1, <1>3, <1>a DEF SaveInv

(* The length is read, as far as it is there.                              *)
LEMMA ReadLengthKeeps == SaveInv /\ Save!ReadLength => SaveInv'
<1> SUFFICES ASSUME SaveInv, Save!ReadLength PROVE SaveInv'
  OBVIOUS
<1> DEFINE r == records[saveAt]
<1>1. saveStep = "readlength" /\ UNCHANGED <<records, pending, saveAt, buffer>>
  BY DEF Save!ReadLength
<1>2. /\ r.data \in Data /\ r.body \in Seq(Pieces) /\ Len(r.body) \in Nat
      /\ r.body = Save!body
      /\ Total(r.data) = LenBytes + Size[r.data]
      /\ Size[r.data] \in Nat \ {0} /\ Size[r.data] < MaxSize
      /\ LenBytes \in Nat \ {0} /\ MaxSize \in Nat
      /\ \A i \in 1..Len(r.body) : r.body[i] = Save!Whole(r.data)[i]
  BY <1>1, RecordRead
<1>3. r = records[saveAt]
  OBVIOUS
<1> HIDE DEF r
<1>4. \/ r.body = << >> /\ Save!Ends("refused")
      \/ /\ r.body # << >>
         /\ IF Len(r.body) < LenBytes THEN compressedSize' \in 0..MaxSize
                                      ELSE compressedSize' = r.body[1][2]
         /\ \/ compressedSize' = 0 /\ Save!Ends("refused")
            \/ compressedSize' # 0 /\ saveStep' = "readdata" /\ UNCHANGED outcome
  BY <1>2 DEF Save!ReadLength
<1>5. ASSUME Len(r.body) < LenBytes, Save!Ends("refused") PROVE SaveInv'
  <2>1. ~Complete(r)
    BY <1>2, <1>5 DEF Complete
  <2>2. OutcomeGood("refused", r) /\ "refused" \in Outcomes
    BY <2>1, SaveAssumed DEF OutcomeGood, Outcomes
  <2> QED
    BY <2>2, <1>1, <1>3, <1>5, EndsGood
<1>6. CASE r.body = << >> /\ Save!Ends("refused")
  BY <1>2, <1>5, <1>6
<1>7. CASE /\ r.body # << >>
           /\ IF Len(r.body) < LenBytes THEN compressedSize' \in 0..MaxSize
                                        ELSE compressedSize' = r.body[1][2]
  <2>1. Len(r.body) > 0
    BY <1>2, <1>7
  <2>2. ~(Len(r.body) < LenBytes) => compressedSize' = Size[r.data]
    <3> SUFFICES ASSUME ~(Len(r.body) < LenBytes) PROVE compressedSize' = Size[r.data]
      OBVIOUS
    <3>1. 1 \in 1..Len(r.body) /\ 1 \in 1..LenBytes
      BY <2>1, <1>2
    <3>2. r.body[1] = <<"length", Size[r.data], 1>>
      BY <3>1, <1>2, WholeIs
    <3>3. compressedSize' = r.body[1][2]
      BY <1>7
    <3> QED
      BY <3>2, <3>3
  <2>3. CASE compressedSize' = 0 /\ Save!Ends("refused")
    BY <2>2, <2>3, <1>2, <1>5
  <2>4. CASE compressedSize' # 0 /\ saveStep' = "readdata" /\ UNCHANGED outcome
    <3>1. compressedSize' \in 1..MaxSize
      BY <2>2, <2>4, <1>2, <1>7
    <3>2. Len(r.body) >= LenBytes => compressedSize' = Size[r.data]
      BY <2>2, <1>2
    <3>3. r = records'[saveAt']
      BY <1>1, <1>3
    <3>4. ReadPlaced'
      BY <3>1, <3>2, <3>3, <2>1, <2>4 DEF ReadPlaced
    <3> QED
      BY <3>4, <2>4, <1>1, ReadGoesOn
  <2> QED
    BY <2>3, <2>4, <1>4, <1>7
<1> QED
  BY <1>4, <1>6, <1>7

(* The memory for the data, and the data.                                  *)
LEMMA ReadDataKeeps ==
  ASSUME SaveInv, Save!AllocationThrows \/ Save!ReadData
  PROVE  SaveInv'
<1> DEFINE r == records[saveAt]
<1>1. saveStep = "readdata" /\ UNCHANGED <<records, pending, saveAt, compressedSize>>
  BY DEF Save!AllocationThrows, Save!ReadData
<1>2. /\ r.data \in Data /\ r.body \in Seq(Pieces) /\ Len(r.body) \in Nat
      /\ r.body = Save!body
      /\ Total(r.data) = LenBytes + Size[r.data] /\ Len(r.body) <= Total(r.data)
      /\ Size[r.data] \in Nat \ {0} /\ Size[r.data] < MaxSize
      /\ LenBytes \in Nat \ {0} /\ MaxSize \in Nat
      /\ \A i \in 1..Len(r.body) : r.body[i] = Save!Whole(r.data)[i]
  BY <1>1, RecordRead
<1>3. /\ compressedSize \in 1..MaxSize /\ Len(r.body) > 0
      /\ Len(r.body) >= LenBytes => compressedSize = Size[r.data]
  BY <1>1 DEF SaveInv, ReadPlaced
<1>4. r = records[saveAt]
  OBVIOUS
<1> HIDE DEF r
<1>5. CASE Save!AllocationThrows
  <2>1. compressedSize = MaxSize /\ Save!Ends("thrown")
    BY <1>5 DEF Save!AllocationThrows
  <2>2. Len(r.body) \in 1..LenBytes - 1
    BY <2>1, <1>2, <1>3
  <2>3. ~Complete(r)
    BY <2>2, <1>2 DEF Complete
  <2>4. OutcomeGood("thrown", r) /\ "thrown" \in Outcomes
    BY <2>2, <2>3, SaveAssumed DEF OutcomeGood, Outcomes
  <2> QED
    BY <2>1, <2>4, <1>1, <1>4, EndsGood
<1>6. CASE Save!ReadData
  <2>1. IF Len(r.body) - LenBytes < compressedSize
          THEN Save!Ends("refused") /\ UNCHANGED buffer
          ELSE /\ buffer' = SubSeq(r.body, LenBytes + 1, LenBytes + compressedSize)
               /\ saveStep' = "load" /\ UNCHANGED outcome
    BY <1>2, <1>6 DEF Save!ReadData
  <2>2. CASE Len(r.body) - LenBytes < compressedSize
    <3>1. ~Complete(r)
      BY <2>2, <1>2, <1>3 DEF Complete
    <3>2. OutcomeGood("refused", r) /\ "refused" \in Outcomes
      BY <3>1, SaveAssumed DEF OutcomeGood, Outcomes
    <3> QED
      BY <3>2, <2>1, <2>2, <1>1, <1>4, EndsGood
  <2>3. CASE ~(Len(r.body) - LenBytes < compressedSize)
    <3>1. compressedSize = Size[r.data] /\ Complete(r) /\ Len(r.body) = LenBytes + Size[r.data]
      BY <2>3, <1>2, <1>3 DEF Complete
    <3> DEFINE b == SubSeq(r.body, LenBytes + 1, LenBytes + Size[r.data])
    <3>2. /\ b \in Seq(Pieces) /\ Len(b) = Size[r.data]
          /\ \A i \in 1..Size[r.data] : b[i] = r.body[LenBytes + i]
      <4> HIDE DEF b
      <4>1. /\ r.body \in Seq(Pieces) /\ LenBytes \in Nat /\ Size[r.data] \in Nat
            /\ LenBytes + Size[r.data] <= Len(r.body)
        BY <3>1, <1>2
      <4>2. b = SubSeq(r.body, LenBytes + 1, LenBytes + Size[r.data])
        BY DEF b
      <4> QED
        BY <4>1, <4>2, BytesAfter, Zenon
    <3> HIDE DEF b
    <3>3. Len(b) = Size[r.data]
      BY <3>2
    <3>4. ASSUME NEW i \in 1..Size[r.data] PROVE b[i] = Save!BytesOf(r.data)[i]
      <4>1. LenBytes + i \in 1..Len(r.body)
        BY <3>1, <1>2
      <4>2. b[i] = r.body[LenBytes + i]
        BY <3>2
      <4>3. r.body[LenBytes + i] = Save!Whole(r.data)[LenBytes + i]
        BY <4>1, <1>2
      <4> QED
        BY <4>2, <4>3, <1>2, WholeIs
    <3>5. b = Save!BytesOf(r.data)
      <4>1. Save!BytesOf(r.data) \in Seq(Pieces) /\ Len(Save!BytesOf(r.data)) = Size[r.data]
        BY <1>2, WholeIs
      <4> QED
        BY <4>1, <3>2, <3>3, <3>4, SeqEqual
    <3>6. buffer' = b /\ saveStep' = "load" /\ UNCHANGED outcome
      BY <2>1, <2>3, <3>1 DEF b
    <3>7. r = records'[saveAt']
      BY <1>1, <1>4
    <3>8. ReadPlaced'
      BY <3>1, <3>5, <3>6, <3>7 DEF ReadPlaced
    <3> QED
      BY <3>6, <3>8, <1>1, ReadGoesOn
  <2> QED
    BY <2>2, <2>3
<1> QED
  BY <1>5, <1>6

(* The data is loaded.                                                     *)
LEMMA LoadDataKeeps == SaveInv /\ Save!LoadData => SaveInv'
<1> SUFFICES ASSUME SaveInv, Save!LoadData PROVE SaveInv'
  OBVIOUS
<1> DEFINE r == records[saveAt]
<1>1. saveStep = "load" /\ UNCHANGED <<records, pending, saveAt>>
  BY DEF Save!LoadData
<1>2. r.data \in Data
  BY <1>1, RecordRead
<1>3. Complete(r) /\ buffer = Save!BytesOf(r.data)
  BY <1>1 DEF SaveInv, ReadPlaced
<1>4. \A d \in Data : d \in Save!Decompressed <=> d = r.data
  BY <1>2, <1>3, BytesTell DEF Save!Decompressed
<1>5. Save!Ends(r.data) \/ Save!Ends("partial")
  <2>1. Save!Decompressed # {} /\ Save!Decompressed \subseteq Data
    BY <1>2, <1>4 DEF Save!Decompressed
  <2>2. PICK d \in Save!Decompressed : Save!Ends(d) \/ Save!Ends("partial")
    BY <2>1 DEF Save!LoadData
  <2> QED
    BY <2>1, <2>2, <1>4
<1>6. OutcomeGood(r.data, r) /\ OutcomeGood("partial", r)
      /\ r.data \in Outcomes /\ "partial" \in Outcomes
  BY <1>2, <1>3, SaveAssumed DEF OutcomeGood, Outcomes
<1> QED
  BY <1>1, <1>5, <1>6, EndsGood

(* Every step of a save keeps the invariant.                               *)
LEMMA SaveKeeps == SaveInv /\ Save!Next => SaveInv'
  BY StoreKeeps, WriteLengthKeeps, WriteDataKeeps, LoseEndKeeps, NextRecordKeeps,
     ReadLengthKeeps, ReadDataKeeps, LoadDataKeeps DEF Save!Next

(* The invariant is what Load is promised.                                 *)
LEMMA SaveMeant == SaveInv => Save!AllOrNothing
<1> SUFFICES ASSUME SaveInv, NEW i \in DOMAIN outcome
             PROVE  LET r == records[i] IN
                    /\ outcome[i] \in Data => outcome[i] = r.data /\ r.body = Save!Whole(r.data)
                    /\ outcome[i] \in Data \cup {"partial"} <=> r.written /\ ~r.cut
                    /\ outcome[i] = "thrown" => Len(r.body) \in 1..LenBytes - 1
  BY DEF Save!AllOrNothing
<1> DEFINE r == records[i]
<1>1. /\ outcome \in Seq(Outcomes) /\ saveAt \in 0..Len(records) /\ Len(records) \in Nat
      /\ Len(outcome) \in Nat
      /\ Len(outcome) = saveAt \/ Len(outcome) = saveAt - 1
  BY DEF SaveInv, SavePlaced
<1>2. i \in 1..Len(outcome) /\ i \in 1..Len(records)
  BY <1>1
<1>3. OutcomeGood(outcome[i], r) /\ RecordGood(r)
  BY <1>2 DEF SaveInv
<1> HIDE DEF r
<1>4. r \in RecordType
  BY <1>3 DEF RecordGood
<1>5. /\ r.data \in Data /\ r.body \in Seq(Pieces)
      /\ r.written \in {TRUE, FALSE} /\ r.cut \in {TRUE, FALSE}
  BY <1>4 DEF RecordType
<1>6. outcome[i] \in Data => r.body = Save!Whole(r.data)
  <2> SUFFICES ASSUME outcome[i] \in Data PROVE r.body = Save!Whole(r.data)
    OBVIOUS
  <2>1. Len(r.body) = Total(r.data) /\ \A j \in 1..Len(r.body) : r.body[j] = Save!Whole(r.data)[j]
    BY <1>3 DEF OutcomeGood, RecordGood, Complete
  <2>2. Save!Whole(r.data) \in Seq(Pieces) /\ Len(Save!Whole(r.data)) = Total(r.data)
    BY <1>5, WholeIs
  <2> QED
    BY <2>1, <2>2, <1>5, SeqEqual
<1>7. outcome[i] \in Data \cup {"partial"} <=> r.written = TRUE /\ r.cut = FALSE
  BY <1>3 DEF OutcomeGood, RecordGood, Complete
<1>8. (r.written = TRUE /\ r.cut = FALSE) <=> (r.written /\ ~r.cut)
  BY <1>5
<1> QED
  BY <1>3, <1>6, <1>7, <1>8 DEF OutcomeGood, r

-----------------------------------------------------------------------------
(* The database and the save among what the program takes in               *)

(* No step of a file of addresses that is not taken changes its invariant. *)
LEMMA DbKept == DbInv /\ UNCHANGED dbVars => DbInv'
<1> SUFFICES ASSUME DbInv, UNCHANGED dbVars PROVE DbInv'
  OBVIOUS
<1>1. UNCHANGED <<dbStep, cut, size, scale, dbAt, pvid, poffset, db, base, loaded, bad,
                  written, before, asked, offset, answer>>
  BY DEF dbVars
<1>2. DbTyped'
  BY <1>1 DEF DbInv, DbTyped
<1>3. ReadAsWritten'
  BY <1>1 DEF DbInv, ReadAsWritten
<1>4. LoadPlaced'
  BY <1>1 DEF DbInv, LoadPlaced
<1>5. Answered'
  BY <1>1 DEF DbInv, Answered
<1> QED
  BY <1>2, <1>3, <1>4, <1>5 DEF DbInv

(* Nor does one of a save.                                                 *)
LEMMA SaveKept == SaveInv /\ UNCHANGED saveVars => SaveInv'
<1> SUFFICES ASSUME SaveInv, UNCHANGED saveVars PROVE SaveInv'
  OBVIOUS
<1>1. UNCHANGED <<saveStep, records, pending, saveAt, compressedSize, buffer, outcome>>
  BY DEF saveVars
<1>2. SavePlaced'
  BY <1>1 DEF SaveInv, SavePlaced, Unwritten
<1>3. ReadPlaced'
  BY <1>1 DEF SaveInv, ReadPlaced
<1> QED
  BY <1>1, <1>2, <1>3 DEF SaveInv

(* The addresses out of a whole file are those it says for the edition     *)
(* that runs; a file that is cut is read as it was meant up to the cut; a  *)
(* failed load leaves nothing that resolves (versiondb.h:165-321,          *)
(* AddressLibrary.h:176-232).                                              *)
THEOREM AddressesMeant == LoadingSpec => []AddressesAsMeant
<1>1. LoadingInit => DbInv
  BY DbBegins DEF LoadingInit
<1>2. DbInv /\ [LoadingNext]_loadingVars => DbInv'
  <2> SUFFICES ASSUME DbInv, [LoadingNext]_loadingVars PROVE DbInv'
    OBVIOUS
  <2>1. CASE DbStep
    BY <2>1, DbKeeps DEF DbStep
  <2>2. CASE UNCHANGED dbVars
    BY <2>2, DbKept
  <2> QED
    BY <2>1, <2>2 DEF LoadingNext, loadingVars, IniStep, SaveStep, PluginStep, TimerStep
<1>3. DbInv => AddressesAsMeant
  BY DbMeant DEF AddressesAsMeant
<1> QED
  BY <1>1, <1>2, <1>3, PTL DEF LoadingSpec

(* Load is given the data a Store of this save was given, whole, or it is  *)
(* not called; what ends the reading is told (Serialization.cpp:11-189).   *)
THEOREM LoadsAllOrNothing == LoadingSpec => []AllOrNothing
<1>1. LoadingInit => SaveInv
  BY SaveBegins DEF LoadingInit
<1>2. SaveInv /\ [LoadingNext]_loadingVars => SaveInv'
  <2> SUFFICES ASSUME SaveInv, [LoadingNext]_loadingVars PROVE SaveInv'
    OBVIOUS
  <2>1. CASE SaveStep
    BY <2>1, SaveKeeps DEF SaveStep
  <2>2. CASE UNCHANGED saveVars
    BY <2>2, SaveKept
  <2> QED
    BY <2>1, <2>2 DEF LoadingNext, loadingVars, DbStep, IniStep, PluginStep, TimerStep
<1>3. SaveInv => AllOrNothing
  BY SaveMeant DEF AllOrNothing
<1> QED
  BY <1>1, <1>2, <1>3, PTL DEF LoadingSpec

-----------------------------------------------------------------------------
(* The ini file: induction over its lines                                  *)

(* Numbers are well founded under this relation.                           *)
Less == {p \in Nat \X Nat : p[1] < p[2]}

(* A set of numbers that has 0 and the next of each of its own has all.    *)
LEMMA SetInduction ==
  ASSUME NEW T \in SUBSET Nat, 0 \in T, \A n \in T : n + 1 \in T
  PROVE  T = Nat
<1> SUFFICES ASSUME Nat \ T # {} PROVE FALSE
  OBVIOUS
<1> DEFINE rest == Nat \ T
<1>1. rest \subseteq Nat /\ rest # {}
  OBVIOUS
<1>2. IsWellFoundedOn(Less, Nat)
  BY NatLessThanWellFounded, Zenon DEF OpToRel, Less
<1> HIDE DEF rest
<1>3. PICK x \in rest : \A y \in rest : ~(<<y, x>> \in Less)
  BY <1>1, <1>2, WFMin, Zenon
<1>4. x \in Nat /\ x \notin T /\ \A y \in Nat \ T : ~(<<y, x>> \in Less)
  BY <1>3 DEF rest
<1>5. x - 1 \in Nat /\ x = (x - 1) + 1 /\ <<x - 1, x>> \in Less
  BY <1>4 DEF Less
<1>6. x - 1 \in T
  BY <1>4, <1>5
<1> QED
  BY <1>4, <1>5, <1>6

(* A function that is told for each number from the one before.            *)
RunOf(G, D, first, n, h) == /\ h \in [0..n -> D] /\ h[0] = first
                           /\ \A i \in 1..n : h[i] = G[<<h[i - 1], i>>]

(* There is one.                                                           *)
LEMMA RunExists ==
  ASSUME NEW D, NEW n \in Nat, NEW G \in [D \X (1..n) -> D], NEW first \in D
  PROVE  \E h : RunOf(G, D, first, n, h)
<1> DEFINE T == {m \in Nat : m > n \/ \E h : RunOf(G, D, first, m, h)}
<1>1. 0 \in T
  <2> DEFINE h == [i \in 0..0 |-> first]
  <2>1. RunOf(G, D, first, 0, h)
    BY DEF RunOf
  <2> QED
    BY <2>1
<1>2. ASSUME NEW m \in T PROVE m + 1 \in T
  <2>1. CASE m < n
    <3>1. m \in Nat /\ m + 1 \in 1..n /\ m + 1 \in Nat
      BY <2>1
    <3>2. PICK h : RunOf(G, D, first, m, h)
      BY <2>1
    <3>3. /\ h \in [0..m -> D] /\ h[0] = first
          /\ \A i \in 1..m : h[i] = G[<<h[i - 1], i>>]
      BY <3>2 DEF RunOf
    <3> DEFINE x == G[<<h[m], m + 1>>]
               k == [i \in 0..m + 1 |-> IF i = m + 1 THEN x ELSE h[i]]
    <3>4. x \in D
      BY <3>1, <3>3
    <3> HIDE DEF x
    <3>5. /\ k \in [0..m + 1 -> D] /\ k[m + 1] = x
          /\ \A i \in 0..m : k[i] = h[i]
      BY <3>1, <3>3, <3>4
    <3> HIDE DEF k
    <3>6. ASSUME NEW i \in 1..m + 1 PROVE k[i] = G[<<k[i - 1], i>>]
      <4>1. CASE i = m + 1
        <5>1. i - 1 = m /\ m \in 0..m
          BY <4>1, <3>1
        <5> QED
          BY <5>1, <4>1, <3>5 DEF x
      <4>2. CASE i # m + 1
        <5>1. i \in 1..m /\ i \in 0..m /\ i - 1 \in 0..m
          BY <4>2, <3>1
        <5> QED
          BY <5>1, <3>3, <3>5
      <4> QED
        BY <4>1, <4>2
    <3>7. k[0] = first
      <4>1. 0 \in 0..m
        BY <3>1
      <4> QED
        BY <4>1, <3>3, <3>5
    <3>8. RunOf(G, D, first, m + 1, k)
      BY <3>5, <3>6, <3>7 DEF RunOf
    <3> QED
      BY <3>1, <3>8
  <2>2. CASE ~(m < n)
    BY <2>2
  <2> QED
    BY <2>1, <2>2
<1>3. T \in SUBSET Nat
  OBVIOUS
<1>4. T = Nat
  <2> HIDE DEF T
  <2> QED
    BY <1>1, <1>2, <1>3, SetInduction
<1>5. n \in T /\ ~(n > n)
  BY <1>4
<1> QED
  BY <1>5

(* The head of a line, told from that of the line before.                  *)
HeadAfter(f, i, h) ==
    IF f[i].kind \in {"section", "pair"} /\ ~(f[i].indented /\ Ini!Named(f, h)) THEN i ELSE h

(* The heads of the lines are so told.                                     *)
LEMMA HeadsAre ==
  ASSUME NEW f, Len(f) \in Nat
  PROVE  /\ Ini!Heads(f)[0] = 0
         /\ \A i \in 1..Len(f) : Ini!Heads(f)[i] = HeadAfter(f, i, Ini!Heads(f)[i - 1])
<1> DEFINE n == Len(f)
           IsHead(h) == h = [i \in 0..n |-> 
                 IF i = 0 THEN 0
                 ELSE IF f[i].kind \in {"section", "pair"} /\ ~(f[i].indented /\ Ini!Named(f, h[i - 1]))
                 THEN i ELSE h[i - 1]]
           G == [p \in (0..n) \X (1..n) |-> HeadAfter(f, p[2], p[1])]
<1>1. G \in [(0..n) \X (1..n) -> 0..n]
  BY DEF HeadAfter
<1>2. \A h \in 0..n, i \in 1..n : G[<<h, i>>] = HeadAfter(f, i, h)
  OBVIOUS
<1>3. 0 \in 0..n /\ n \in Nat
  OBVIOUS
<1> HIDE DEF G
<1>4. PICK g : RunOf(G, 0..n, 0, n, g)
  BY <1>1, <1>3, RunExists, Zenon
<1>5. /\ g \in [0..n -> 0..n] /\ g[0] = 0
      /\ \A i \in 1..n : g[i] = G[<<g[i - 1], i>>]
  BY <1>4 DEF RunOf
<1>6. \A i \in 1..n : g[i] = HeadAfter(f, i, g[i - 1])
  <2> TAKE i \in 1..n
  <2>1. i - 1 \in 0..n
    OBVIOUS
  <2> QED
    BY <2>1, <1>2, <1>5
<1>7. \E h : IsHead(h)
  <2>1. IsHead(g)
    BY <1>5, <1>6 DEF HeadAfter
  <2> QED
    BY <2>1
<1>8. Ini!Heads(f) = CHOOSE h : IsHead(h)
  BY DEF Ini!Heads
<1>9. IsHead(Ini!Heads(f))
  <2> HIDE DEF IsHead
  <2> QED
    BY <1>7, <1>8
<1> DEFINE h == Ini!Heads(f)
<1>10. IsHead(h)
  BY <1>9
<1> HIDE DEF h
<1>11. h[0] = 0
  BY <1>3, <1>10
<1>12. \A i \in 1..n : h[i] = HeadAfter(f, i, h[i - 1])
  <2> TAKE i \in 1..n
  <2>1. i \in 0..n /\ i # 0
    OBVIOUS
  <2> QED
    BY <2>1, <1>10 DEF HeadAfter
<1> QED
  BY <1>11, <1>12 DEF h

(* What a file says of a name, told line by line.                          *)
LEMMA ToldIs ==
  ASSUME NEW f, Len(f) \in Nat, NEW s, NEW n
  PROVE  LET t == Ini!Told(f, s, n) IN
         /\ t[0] = << >>
         /\ \A i \in 1..Len(f) :
              /\ Ini!Says(f, i, s, n) => /\ t[i] = Append(t[i - 1], Ini!Text(f, i))
                                         /\ t[i] # << >>
              /\ ~Ini!Says(f, i, s, n) => t[i] = t[i - 1]
              /\ t[i - 1] = << >> => Append(t[i - 1], Ini!Text(f, i)) = <<Ini!Text(f, i)>>
<1> DEFINE l == Len(f)
           S == {Ini!Text(f, i) : i \in 1..l}
           After(i, t) == IF Ini!Says(f, i, s, n) THEN Append(t, Ini!Text(f, i)) ELSE t
           IsTold(h) == h = [i \in 0..l |-> 
                 IF i = 0 THEN << >>
                 ELSE IF Ini!Says(f, i, s, n) THEN Append(h[i - 1], Ini!Text(f, i)) ELSE h[i - 1]]
           G == [p \in Seq(S) \X (1..l) |-> After(p[2], p[1])]
<1>1. \A t \in Seq(S), i \in 1..l : After(i, t) \in Seq(S)
  <2> TAKE t \in Seq(S), i \in 1..l
  <2>1. Ini!Text(f, i) \in S
    OBVIOUS
  <2> HIDE DEF S
  <2> QED
    BY <2>1
<1>2. G \in [Seq(S) \X (1..l) -> Seq(S)]
  <2> HIDE DEF S, After
  <2> QED
    BY <1>1
<1>3. \A t \in Seq(S), i \in 1..l : G[<<t, i>>] = After(i, t)
  <2> HIDE DEF S, After
  <2> QED
    OBVIOUS
<1>4. << >> \in Seq(S) /\ l \in Nat
  OBVIOUS
<1> HIDE DEF G, S, After
<1>5. PICK g : RunOf(G, Seq(S), << >>, l, g)
  BY <1>2, <1>4, RunExists, Zenon
<1>6. /\ g \in [0..l -> Seq(S)] /\ g[0] = << >>
      /\ \A i \in 1..l : g[i] = G[<<g[i - 1], i>>]
  BY <1>5 DEF RunOf
<1>7. \A i \in 1..l : g[i] = After(i, g[i - 1])
  <2> TAKE i \in 1..l
  <2>1. i - 1 \in 0..l
    OBVIOUS
  <2> QED
    BY <2>1, <1>3, <1>6
<1>8. \E h : IsTold(h)
  <2>1. \A i \in 0..l : g[i] = IF i = 0 THEN << >> ELSE After(i, g[i - 1])
    <3> TAKE i \in 0..l
    <3>1. i = 0 \/ i \in 1..l
      OBVIOUS
    <3> HIDE DEF l
    <3> QED
      BY <3>1, <1>6, <1>7
  <2>2. g = [i \in 0..l |-> IF i = 0 THEN << >> ELSE After(i, g[i - 1])]
    <3> HIDE DEF l
    <3> QED
      BY <2>1, <1>6
  <2>3. IsTold(g)
    BY <2>2, Zenon DEF After
  <2> QED
    BY <2>3
<1>9. Ini!Told(f, s, n) = CHOOSE h : IsTold(h)
  BY DEF Ini!Told
<1> DEFINE t == Ini!Told(f, s, n)
<1>10. IsTold(t)
  <2> HIDE DEF IsTold
  <2> QED
    BY <1>8, <1>9
<1> HIDE DEF t
<1>11. t[0] = << >>
  BY <1>4, <1>10
<1>12. \A i \in 1..l : t[i] = After(i, t[i - 1])
  <2> TAKE i \in 1..l
  <2>1. i \in 0..l /\ i # 0
    OBVIOUS
  <2> QED
    BY <2>1, <1>10 DEF After
<1> DEFINE T == {i \in Nat : i > l \/ t[i] \in Seq(S)}
<1> HIDE DEF IsTold, l
<1>13. 0 \in T
  BY <1>4, <1>11
<1>14. ASSUME NEW i \in T PROVE i + 1 \in T
  <2>1. CASE i + 1 > l
    BY <2>1
  <2>2. CASE ~(i + 1 > l)
    <3>1. i + 1 \in 1..l /\ ~(i > l) /\ (i + 1) - 1 = i /\ t[i] \in Seq(S)
      BY <2>2, <1>4
    <3>2. t[i + 1] \in Seq(S)
      BY <3>1, <1>1, <1>12
    <3> QED
      BY <3>1, <3>2
  <2> QED
    BY <2>1, <2>2
<1>15. T = Nat
  <2>1. T \in SUBSET Nat
    OBVIOUS
  <2> HIDE DEF T
  <2> QED
    BY <2>1, <1>13, <1>14, SetInduction
<1>16. ASSUME NEW i \in 1..l
       PROVE  /\ Ini!Says(f, i, s, n) => /\ t[i] = Append(t[i - 1], Ini!Text(f, i))
                                         /\ t[i] # << >>
              /\ ~Ini!Says(f, i, s, n) => t[i] = t[i - 1]
              /\ t[i - 1] = << >> => Append(t[i - 1], Ini!Text(f, i)) = <<Ini!Text(f, i)>>
  <2>1. i - 1 \in T /\ ~(i - 1 > l)
    BY <1>4, <1>15
  <2>2. t[i - 1] \in Seq(S)
    BY <2>1
  <2>3. Append(t[i - 1], Ini!Text(f, i)) # << >>
    <3> DEFINE r == t[i - 1]
    <3>1. r \in Seq(S)
      BY <2>2
    <3> HIDE DEF r
    <3> QED
      BY <3>1 DEF r
  <2>4. Append(<< >>, Ini!Text(f, i)) = <<Ini!Text(f, i)>>
    OBVIOUS
  <2> QED
    BY <2>3, <2>4, <1>12 DEF After
<1> QED
  BY <1>11, <1>16 DEF t, l

-----------------------------------------------------------------------------
(* A line that is no section line leaves the section.                      *)
LEMMA SectionIs ==
  ASSUME NEW f, Len(f) \in Nat
  PROVE  /\ Ini!SectionOf(f, 0) = NoName
         /\ \A i \in 1..Len(f) :
              LET starts == f[i].kind = "section" /\ Ini!Heads(f)[i] = i IN
              /\ starts => Ini!SectionOf(f, i) = f[i].name
              /\ ~starts => Ini!SectionOf(f, i) = Ini!SectionOf(f, i - 1)
<1> DEFINE heads(i) == {j \in 1..i : f[j].kind = "section" /\ Ini!Heads(f)[j] = j}
<1>1. \A i : Ini!SectionOf(f, i) =
               IF heads(i) = {} THEN NoName
               ELSE f[CHOOSE j \in heads(i) : \A h \in heads(i) : h <= j].name
  BY DEF Ini!SectionOf
<1>2. heads(0) = {}
  OBVIOUS
<1>3. ASSUME NEW i \in 1..Len(f), ~(f[i].kind = "section" /\ Ini!Heads(f)[i] = i)
      PROVE  Ini!SectionOf(f, i) = Ini!SectionOf(f, i - 1)
  <2>1. \A j \in 1..i : j # i => j \in 1..i - 1
    BY <1>3
  <2>2. \A j \in 1..i - 1 : j \in 1..i
    BY <1>3
  <2>3. heads(i) = heads(i - 1)
    BY <2>1, <2>2, <1>3
  <2> HIDE DEF heads
  <2> QED
    BY <2>3, <1>1
<1>4. ASSUME NEW i \in 1..Len(f), f[i].kind = "section" /\ Ini!Heads(f)[i] = i
      PROVE  Ini!SectionOf(f, i) = f[i].name
  <2>1. i \in heads(i) /\ \A h \in heads(i) : h <= i /\ h \in Int
    BY <1>4
  <2>2. \A j \in heads(i) : (\A h \in heads(i) : h <= j) => j = i
    <3> HIDE DEF heads
    <3> QED
      BY <2>1
  <2> HIDE DEF heads
  <2>3. (CHOOSE j \in heads(i) : \A h \in heads(i) : h <= j) = i
    BY <2>1, <2>2
  <2> QED
    BY <2>1, <2>3, <1>1
<1> HIDE DEF heads
<1> QED
  BY <1>1, <1>2, <1>3, <1>4

(* Entries are what the first i lines say, with every name they told of.   *)
ValuesFrom(v, f, i) == \A e \in v : /\ e = <<e[1], e[2], e[3]>>
                                    /\ e[3] = Ini!Told(f, e[1], e[2])[i] /\ e[3] # << >>
ValuesAll(v, f, i) ==
    /\ \A s, n : Ini!Told(f, s, n)[i] # << >> => \E e \in v : e[1] = s /\ e[2] = n
    /\ \A j \in 1..i : \A s, n : Ini!Says(f, j, s, n) => \E e \in v : e[1] = s /\ e[2] = n

(* A line that says nothing.                                               *)
LEMMA SilentLine ==
  ASSUME NEW f, Len(f) \in Nat, NEW i \in 1..Len(f), NEW v,
         ValuesFrom(v, f, i - 1), ValuesAll(v, f, i - 1),
         \A s, n : ~Ini!Says(f, i, s, n)
  PROVE  ValuesFrom(v, f, i) /\ ValuesAll(v, f, i)
<1>1. \A s, n : Ini!Told(f, s, n)[i] = Ini!Told(f, s, n)[i - 1]
  BY ToldIs
<1>2. ValuesFrom(v, f, i)
  BY <1>1 DEF ValuesFrom
<1>3. \A j \in 1..i : j \in 1..i - 1 \/ j = i
  OBVIOUS
<1>4. ValuesAll(v, f, i)
  BY <1>1, <1>3 DEF ValuesAll
<1> QED
  BY <1>2, <1>4

(* What the handler does with a value.                                     *)
Handled(v, s, n, value) ==
    LET old == {e \in v : e[1] = s /\ e[2] = n} IN
    IF old = {} THEN v \cup {<<s, n, <<value>>>>}
    ELSE (v \ old) \cup {<<s, n, Append(e[3], value)>> : e \in old}

(* The handler is called with what a line says.                            *)
LEMMA TellingLine ==
  ASSUME NEW f, Len(f) \in Nat, NEW i \in 1..Len(f), NEW v,
         ValuesFrom(v, f, i - 1), ValuesAll(v, f, i - 1), NEW sec, NEW name,
         \A s, n : Ini!Says(f, i, s, n) <=> s = sec /\ n = name
  PROVE  LET w == Handled(v, sec, name, Ini!Text(f, i)) IN
         ValuesFrom(w, f, i) /\ ValuesAll(w, f, i)
<1> DEFINE x == Ini!Text(f, i)
           old == {e \in v : e[1] = sec /\ e[2] = name}
           w == Handled(v, sec, name, x)
           told == Ini!Told(f, sec, name)
           new == <<sec, name, told[i]>>
<1>1. /\ told[i] = Append(told[i - 1], x) /\ told[i] # << >>
      /\ told[i - 1] = << >> => told[i] = <<x>>
  BY ToldIs
<1>2. \A s, n : ~(s = sec /\ n = name) => Ini!Told(f, s, n)[i] = Ini!Told(f, s, n)[i - 1]
  BY ToldIs
<1>3. \A e \in v : /\ e = <<e[1], e[2], e[3]>>
                   /\ e[3] = Ini!Told(f, e[1], e[2])[i - 1] /\ e[3] # << >>
  BY DEF ValuesFrom
<1>4. old = {} => told[i - 1] = << >>
  BY DEF ValuesAll
<1>5. w = (v \ old) \cup {new}
  <2>1. CASE old = {}
    <3>1. w = v \cup {<<sec, name, <<x>>>>}
      BY <2>1 DEF Handled
    <3> QED
      BY <3>1, <2>1, <1>1, <1>4
  <2>2. CASE old # {}
    <3>1. w = (v \ old) \cup {<<sec, name, Append(e[3], x)>> : e \in old}
      BY <2>2 DEF Handled
    <3>2. \A e \in old : <<sec, name, Append(e[3], x)>> = new
      BY <1>1, <1>3
    <3>3. {<<sec, name, Append(e[3], x)>> : e \in old} = {new}
      <4> HIDE DEF new, old, x
      <4> QED
        BY <3>2, <2>2
    <3> QED
      BY <3>1, <3>3
  <2> QED
    BY <2>1, <2>2
<1>6. /\ new[1] = sec /\ new[2] = name /\ new[3] = told[i]
      /\ new = <<new[1], new[2], new[3]>>
  OBVIOUS
<1>7. \A e \in v \ old : ~(e[1] = sec /\ e[2] = name)
  OBVIOUS
<1> HIDE DEF w, new
<1>8. ValuesFrom(w, f, i)
  <2>1. ASSUME NEW e \in w
        PROVE  /\ e = <<e[1], e[2], e[3]>>
               /\ e[3] = Ini!Told(f, e[1], e[2])[i] /\ e[3] # << >>
    <3>1. CASE e = new
      BY <3>1, <1>1, <1>6
    <3>2. CASE e # new
      <4>1. e \in v \ old
        <5> HIDE DEF old
        <5> QED
          BY <3>2, <1>5
      <4>2. ~(e[1] = sec /\ e[2] = name) /\ e \in v
        BY <4>1, <1>7
      <4> QED
        BY <4>2, <1>2, <1>3
    <3> QED
      BY <3>1, <3>2
  <2> QED
    BY <2>1 DEF ValuesFrom
<1>9. new \in w /\ \A e \in v : ~(e[1] = sec /\ e[2] = name) => e \in w
  BY <1>5
<1>10. ASSUME NEW s, NEW n, \E e \in v : e[1] = s /\ e[2] = n
       PROVE  \E e \in w : e[1] = s /\ e[2] = n
  <2>1. CASE s = sec /\ n = name
    BY <2>1, <1>6, <1>9
  <2>2. CASE ~(s = sec /\ n = name)
    BY <2>2, <1>9, <1>10
  <2> QED
    BY <2>1, <2>2
<1>11. \A s, n : Ini!Told(f, s, n)[i] # << >> => \E e \in w : e[1] = s /\ e[2] = n
  <2> TAKE s, n
  <2>1. CASE s = sec /\ n = name
    BY <2>1, <1>6, <1>9
  <2>2. CASE ~(s = sec /\ n = name)
    <3> HAVE Ini!Told(f, s, n)[i] # << >>
    <3>1. Ini!Told(f, s, n)[i - 1] # << >>
      BY <2>2, <1>2
    <3>2. \E e \in v : e[1] = s /\ e[2] = n
      BY <3>1 DEF ValuesAll
    <3> QED
      BY <3>2, <1>10
  <2> QED
    BY <2>1, <2>2
<1>12. \A j \in 1..i : \A s, n : Ini!Says(f, j, s, n) => \E e \in w : e[1] = s /\ e[2] = n
  <2> TAKE j \in 1..i
  <2> TAKE s, n
  <2> HAVE Ini!Says(f, j, s, n)
  <2>1. CASE j = i
    <3>1. s = sec /\ n = name
      BY <2>1
    <3> QED
      BY <3>1, <1>6, <1>9
  <2>2. CASE j # i
    <3>1. j \in 1..i - 1
      BY <2>2
    <3> QED
      BY <3>1, <1>10 DEF ValuesAll
  <2> QED
    BY <2>1, <2>2
<1>13. ValuesAll(w, f, i)
  BY <1>11, <1>12 DEF ValuesAll
<1> QED
  BY <1>8, <1>13 DEF w

(* The broken lines, line by line.                                         *)
LEMMA BrokenIs ==
  ASSUME NEW f, Len(f) \in Nat
  PROVE  /\ Ini!Broken(f, 0) = {}
         /\ \A i \in 1..Len(f) :
              LET breaks == f[i].kind = "broken" /\ ~Ini!Continued(f, i) IN
              /\ breaks => Ini!Broken(f, i) = Ini!Broken(f, i - 1) \cup {i}
              /\ ~breaks => Ini!Broken(f, i) = Ini!Broken(f, i - 1)
         /\ \A i \in 0..Len(f) : Ini!Broken(f, i) \subseteq 1..i
<1>1. Ini!Broken(f, 0) = {}
  BY DEF Ini!Broken
<1>2. ASSUME NEW i \in 1..Len(f)
      PROVE  LET breaks == f[i].kind = "broken" /\ ~Ini!Continued(f, i) IN
             /\ breaks => Ini!Broken(f, i) = Ini!Broken(f, i - 1) \cup {i}
             /\ ~breaks => Ini!Broken(f, i) = Ini!Broken(f, i - 1)
  <2>1. 1..i = (1..i - 1) \cup {i}
    BY <1>2
  <2> QED
    BY <2>1 DEF Ini!Broken
<1>3. \A i \in 0..Len(f) : Ini!Broken(f, i) \subseteq 1..i
  BY DEF Ini!Broken
<1> QED
  BY <1>1, <1>2, <1>3

(* What the parser knows of the lines before a line: sec is the section,   *)
(* prev the name a line may continue.                                      *)
Knows(f, i, sec, prev) ==
    LET h == Ini!Heads(f)[i - 1] IN
    /\ h \in 0..i - 1 /\ sec = Ini!SectionOf(f, i - 1)
    /\ prev = IF Ini!Named(f, h) THEN f[h].name ELSE NoName

(* A line that continues the value of a name.                              *)
LEMMA ContinuedLine ==
  ASSUME NEW f, Len(f) \in Nat, NEW i \in 1..Len(f), NEW sec, NEW prev,
         Knows(f, i, sec, prev), prev # NoName, f[i].indented,
         f[i].kind \notin {"comment", "blank"}
  PROVE  /\ Ini!Continued(f, i) /\ Knows(f, i + 1, sec, prev)
         /\ Ini!Text(f, i) = f[i].text
         /\ \A s, n : Ini!Says(f, i, s, n) <=> s = sec /\ n = prev
<1> DEFINE h == Ini!Heads(f)[i - 1]
<1>1. h \in 0..i - 1 /\ Ini!Named(f, h) /\ prev = f[h].name /\ sec = Ini!SectionOf(f, i - 1)
  BY DEF Knows
<1>2. Ini!Continued(f, i)
  BY <1>1 DEF Ini!Continued
<1>3. Ini!Heads(f)[i] = HeadAfter(f, i, h)
  BY HeadsAre
<1> HIDE DEF h
<1>4. Ini!Heads(f)[i] = h /\ h # i
  BY <1>1, <1>3 DEF HeadAfter
<1>5. Ini!SectionOf(f, i) = sec
  BY <1>1, <1>4, SectionIs
<1>6. (i + 1) - 1 = i /\ h \in 0..i
  BY <1>1
<1>7. Knows(f, i + 1, sec, prev)
  BY <1>1, <1>4, <1>5, <1>6 DEF Knows
<1>8. Ini!Text(f, i) = f[i].text
  BY <1>2 DEF Ini!Text
<1>9. \A s, n : Ini!Says(f, i, s, n) <=> s = sec /\ n = prev
  BY <1>1, <1>2, <1>4, <1>5 DEF Ini!Says
<1> QED
  BY <1>2, <1>7, <1>8, <1>9

(* A line that does not: it starts a section or a value, or says nothing.  *)
LEMMA OtherLine ==
  ASSUME NEW f, Len(f) \in Nat, NEW i \in 1..Len(f), NEW sec, NEW prev,
         Knows(f, i, sec, prev),
         ~(prev # NoName /\ f[i].indented /\ f[i].kind \notin {"comment", "blank"})
  PROVE  /\ ~Ini!Continued(f, i)
         /\ f[i].kind = "section" => /\ Knows(f, i + 1, f[i].name, NoName)
                                     /\ \A s, n : ~Ini!Says(f, i, s, n)
         /\ f[i].kind = "pair" => /\ Knows(f, i + 1, sec, f[i].name)
                                  /\ Ini!Text(f, i) = f[i].value
                                  /\ \A s, n : Ini!Says(f, i, s, n) <=> s = sec /\ n = f[i].name
         /\ f[i].kind \in {"comment", "blank", "broken"} =>
              /\ Knows(f, i + 1, sec, prev)
              /\ \A s, n : ~Ini!Says(f, i, s, n)
<1> DEFINE h == Ini!Heads(f)[i - 1]
<1>1. /\ h \in 0..i - 1 /\ sec = Ini!SectionOf(f, i - 1)
      /\ prev = IF Ini!Named(f, h) THEN f[h].name ELSE NoName
  BY DEF Knows
<1>2. Ini!Named(f, h) => prev # NoName
  BY <1>1 DEF Ini!Named
<1>3. ~Ini!Continued(f, i)
  BY <1>2 DEF Ini!Continued
<1>4. Ini!Heads(f)[i] = HeadAfter(f, i, h)
  BY HeadsAre
<1> HIDE DEF h
<1>5. (i + 1) - 1 = i /\ i # 0 /\ i \in 0..i /\ h \in 0..i /\ h # i
  BY <1>1
<1>6. CASE f[i].kind = "section"
  <2>1. Ini!Heads(f)[i] = i /\ ~Ini!Named(f, i)
    BY <1>2, <1>4, <1>6 DEF HeadAfter, Ini!Named
  <2>2. Ini!SectionOf(f, i) = f[i].name
    BY <2>1, <1>6, SectionIs
  <2>3. Knows(f, i + 1, f[i].name, NoName)
    BY <2>1, <2>2, <1>5 DEF Knows
  <2>4. \A s, n : ~Ini!Says(f, i, s, n)
    BY <1>3, <1>6 DEF Ini!Says
  <2> QED
    BY <2>3, <2>4, <1>3, <1>6
<1>7. CASE f[i].kind = "pair"
  <2>1. Ini!Heads(f)[i] = i /\ (Ini!Named(f, i) <=> f[i].name # NoName)
    BY <1>2, <1>4, <1>5, <1>7 DEF HeadAfter, Ini!Named
  <2>2. Ini!SectionOf(f, i) = sec
    BY <1>1, <1>7, SectionIs
  <2>3. Knows(f, i + 1, sec, f[i].name)
    BY <2>1, <2>2, <1>5 DEF Knows
  <2>4. \A s, n : Ini!Says(f, i, s, n) <=> s = sec /\ n = f[i].name
    BY <2>1, <2>2, <1>7 DEF Ini!Says
  <2>5. Ini!Text(f, i) = f[i].value
    BY <1>3 DEF Ini!Text
  <2> QED
    BY <2>3, <2>4, <2>5, <1>3, <1>7
<1>8. CASE f[i].kind \in {"comment", "blank", "broken"}
  <2>1. Ini!Heads(f)[i] = h
    BY <1>4, <1>8 DEF HeadAfter
  <2>2. Ini!SectionOf(f, i) = sec
    BY <1>1, <1>8, SectionIs
  <2>3. Knows(f, i + 1, sec, prev)
    BY <2>1, <2>2, <1>1, <1>5 DEF Knows
  <2>4. \A s, n : ~Ini!Says(f, i, s, n)
    BY <1>3, <1>8 DEF Ini!Says
  <2> QED
    BY <2>3, <2>4, <1>3, <1>8
<1> QED
  BY <1>3, <1>6, <1>7, <1>8

-----------------------------------------------------------------------------
(* The error is of the first broken line.                                  *)
FirstOf(e, v, B) == \/ e \in {-1, -2} /\ v = {}
                    \/ e = 0 /\ B = {}
                    \/ e \in B /\ \A j \in B : e <= j

(* The reader: while it parses, it knows what the lines so far say, with   *)
(* nothing missing; whenever it is asked, every value is of the file.      *)
IniInv == /\ Len(file) \in Nat /\ line \in 0..Len(file) + 1
          /\ line = 0 /\ ~init => values = {} /\ error = -1
          /\ line # 0 => /\ Knows(file, line, section, prev_name) /\ error \notin {-1, -2}
                         /\ ValuesAll(values, file, line - 1)
          /\ ValuesFrom(values, file, Ini!Parsed)
          /\ FirstOf(error, values, Ini!Broken(file, Ini!Parsed))

(* No file is parsed at first.                                             *)
LEMMA IniBegins == Ini!Init => IniInv
<1> SUFFICES ASSUME Ini!Init PROVE IniInv
  OBVIOUS
<1>1. /\ init = FALSE /\ error = -1 /\ values = {} /\ file = << >> /\ line = 0
  BY DEF Ini!Init
<1>2. Len(file) = 0
  BY <1>1
<1>3. /\ ValuesFrom(values, file, Ini!Parsed)
      /\ FirstOf(error, values, Ini!Broken(file, Ini!Parsed))
  BY <1>1 DEF ValuesFrom, FirstOf
<1> QED
  BY <1>1, <1>2, <1>3 DEF IniInv

(* A file is opened: nothing of it is known.                               *)
LEMMA FileOpened ==
  ASSUME IniInv, NEW f \in Files, Ini!LoadStart(f)
  PROVE  IniInv'
<1>1. Len(f) \in Nat
  <2>1. Ini!IniReaderAssumption
    BY LoadingAssumption, Zenon DEF LoadingAssumption
  <2> QED
    BY <2>1 DEF Ini!IniReaderAssumption
<1>2. /\ line = 0 /\ ~init /\ file' = f /\ line' = 1 /\ error' = 0 /\ section' = NoName
      /\ prev_name' = NoName /\ values' = values
  BY DEF Ini!LoadStart, Ini!Outside
<1>3. values = {}
  BY <1>2 DEF IniInv
<1>4. Ini!Parsed' = 0
  BY <1>2 DEF Ini!Parsed, Ini!Outside
<1>5. Ini!Heads(f)[0] = 0 /\ Ini!SectionOf(f, 0) = NoName /\ Ini!Broken(f, 0) = {}
  BY <1>1, HeadsAre, SectionIs, BrokenIs
<1>6. \A s, n : Ini!Told(f, s, n)[0] = << >>
  BY <1>1, ToldIs
<1>7. 1 - 1 = 0 /\ 0 \in 0..0 /\ 1..0 = {}
  OBVIOUS
<1>8. Knows(f, 1, NoName, NoName)
  BY <1>5, <1>7 DEF Knows, Ini!Named
<1>9. ValuesFrom({}, f, 0) /\ ValuesAll({}, f, 0)
  BY <1>6, <1>7 DEF ValuesFrom, ValuesAll
<1>10. FirstOf(0, {}, Ini!Broken(f, 0))
  BY <1>5 DEF FirstOf
<1> QED
  BY <1>1, <1>2, <1>3, <1>4, <1>7, <1>8, <1>9, <1>10 DEF IniInv

(* A line is parsed: it continues a value, or is what it says it is.       *)
LEMMA LineParsed == IniInv /\ Ini!Parse => IniInv'
<1> SUFFICES ASSUME IniInv, Ini!Parse PROVE IniInv'
  OBVIOUS
<1> DEFINE l == file[line]
<1>1. /\ Len(file) \in Nat /\ line \in 1..Len(file) /\ line # 0
      /\ file' = file /\ line' = line + 1 /\ line' # 0
      /\ line' \in 0..Len(file) + 1 /\ line' - 1 = line /\ init' = init
  BY DEF IniInv, Ini!Parse, Ini!Outside
<1>2. Ini!Parsed = line - 1 /\ Ini!Parsed' = line
  BY <1>1 DEF Ini!Parsed, Ini!Outside
<1>3. /\ Knows(file, line, section, prev_name) /\ error \notin {-1, -2}
      /\ ValuesAll(values, file, line - 1) /\ ValuesFrom(values, file, line - 1)
      /\ FirstOf(error, values, Ini!Broken(file, line - 1))
  BY <1>1, <1>2 DEF IniInv
<1>4. SUFFICES /\ Knows(file, line + 1, section', prev_name') /\ error' \notin {-1, -2}
               /\ ValuesAll(values', file, line) /\ ValuesFrom(values', file, line)
               /\ FirstOf(error', values', Ini!Broken(file, line))
  BY <1>1, <1>2, <1>4 DEF IniInv
<1> DEFINE continued == prev_name # NoName /\ l.indented /\ l.kind \notin {"comment", "blank"}
<1>5. /\ continued <=> Ini!Continues(l)
      /\ \/ Ini!Continues(l) /\ Ini!Handle(prev_name, l.text) /\ UNCHANGED <<error, section, prev_name>>
         \/ /\ ~Ini!Continues(l) /\ l.kind \in {"comment", "blank"}
            /\ UNCHANGED <<error, values, section, prev_name>>
         \/ /\ ~Ini!Continues(l) /\ l.kind = "section"
            /\ section' = l.name /\ prev_name' = NoName /\ UNCHANGED <<error, values>>
         \/ /\ ~Ini!Continues(l) /\ l.kind = "pair" /\ prev_name' = l.name
            /\ Ini!Handle(l.name, l.value) /\ UNCHANGED <<error, section>>
         \/ /\ ~Ini!Continues(l) /\ l.kind = "broken" /\ Ini!Fail
            /\ UNCHANGED <<values, section, prev_name>>
  BY DEF Ini!Parse, Ini!Continues
<1>6. \A name, value : Ini!Handle(name, value) => values' = Handled(values, section, name, value)
  BY DEF Ini!Handle, Handled
<1>7. \/ error = 0 /\ Ini!Broken(file, line - 1) = {}
      \/ /\ error \in Ini!Broken(file, line - 1)
         /\ \A j \in Ini!Broken(file, line - 1) : error <= j
  BY <1>3 DEF FirstOf
<1>8. ASSUME UNCHANGED error, Ini!Broken(file, line) = Ini!Broken(file, line - 1)
      PROVE  error' \notin {-1, -2} /\ FirstOf(error', values', Ini!Broken(file, line))
  BY <1>3, <1>7, <1>8 DEF FirstOf
<1>9. CASE Ini!Continues(l)
  <2>1. Ini!Handle(prev_name, l.text) /\ UNCHANGED <<error, section, prev_name>>
    BY <1>5, <1>9
  <2>2. /\ Ini!Continued(file, line) /\ Knows(file, line + 1, section, prev_name)
        /\ Ini!Text(file, line) = l.text
        /\ \A s, n : Ini!Says(file, line, s, n) <=> s = section /\ n = prev_name
    BY <1>1, <1>3, <1>5, <1>9, ContinuedLine
  <2>3. ValuesAll(values', file, line) /\ ValuesFrom(values', file, line)
    BY <2>1, <2>2, <1>1, <1>3, <1>6, TellingLine
  <2>4. Ini!Broken(file, line) = Ini!Broken(file, line - 1)
    BY <2>2, <1>1, BrokenIs
  <2> QED
    BY <2>1, <2>2, <2>3, <2>4, <1>8
<1>10. CASE ~Ini!Continues(l)
  <2> DEFINE silent == \A s, n : ~Ini!Says(file, line, s, n)
  <2>1. ~continued
    BY <1>5, <1>10
  <2>2. /\ ~Ini!Continued(file, line)
        /\ l.kind = "section" => Knows(file, line + 1, l.name, NoName) /\ silent
        /\ l.kind = "pair" =>
             /\ Knows(file, line + 1, section, l.name) /\ Ini!Text(file, line) = l.value
             /\ \A s, n : Ini!Says(file, line, s, n) <=> s = section /\ n = l.name
        /\ l.kind \in {"comment", "blank", "broken"} =>
             Knows(file, line + 1, section, prev_name) /\ silent
    BY <2>1, <1>1, <1>3, OtherLine
  <2>3. l.kind # "broken" => Ini!Broken(file, line) = Ini!Broken(file, line - 1)
    BY <1>1, BrokenIs
  <2>4. silent => ValuesAll(values, file, line) /\ ValuesFrom(values, file, line)
    BY <1>1, <1>3, SilentLine
  <2> HIDE DEF l, silent
  <2>5. CASE l.kind \in {"comment", "blank"} /\ UNCHANGED <<error, values, section, prev_name>>
    <3>1. Knows(file, line + 1, section, prev_name) /\ silent /\ l.kind # "broken"
      BY <2>2, <2>5
    <3> QED
      BY <3>1, <2>3, <2>4, <2>5, <1>8
  <2>6. CASE /\ l.kind = "section" /\ section' = l.name /\ prev_name' = NoName
             /\ UNCHANGED <<error, values>>
    <3>1. Knows(file, line + 1, l.name, NoName) /\ silent /\ l.kind # "broken"
      BY <2>2, <2>6
    <3> QED
      BY <3>1, <2>3, <2>4, <2>6, <1>8
  <2>7. CASE /\ l.kind = "pair" /\ prev_name' = l.name
             /\ Ini!Handle(l.name, l.value) /\ UNCHANGED <<error, section>>
    <3>1. l.kind # "broken"
      BY <2>7
    <3>2. ValuesAll(values', file, line) /\ ValuesFrom(values', file, line)
      BY <2>2, <2>7, <1>1, <1>3, <1>6, TellingLine
    <3> QED
      BY <3>1, <3>2, <2>2, <2>3, <2>7, <1>8
  <2>8. CASE l.kind = "broken" /\ Ini!Fail /\ UNCHANGED <<values, section, prev_name>>
    <3>1. Knows(file, line + 1, section, prev_name) /\ silent
      BY <2>2, <2>8
    <3>2. Ini!Broken(file, line) = Ini!Broken(file, line - 1) \cup {line}
      BY <2>2, <2>8, <1>1, BrokenIs DEF l
    <3>3. \A j \in Ini!Broken(file, line - 1) : j \in 1..line - 1
      <4>1. line - 1 \in 0..Len(file)
        BY <1>1
      <4> QED
        BY <4>1, <1>1, BrokenIs
    <3>4. error' = IF error = 0 THEN line ELSE error
      BY <2>8 DEF Ini!Fail
    <3>5. error' \notin {-1, -2} /\ FirstOf(error', values', Ini!Broken(file, line))
      <4>1. CASE error = 0
        <5>1. Ini!Broken(file, line - 1) = {}
          BY <4>1, <3>3, <1>7
        <5> QED
          BY <5>1, <4>1, <3>2, <3>4, <1>1 DEF FirstOf
      <4>2. CASE error # 0
        <5>1. error \in 1..line - 1 /\ error' = error
          BY <4>2, <3>3, <3>4, <1>7
        <5> QED
          BY <5>1, <4>2, <3>2, <1>1, <1>3, <1>7 DEF FirstOf
      <4> QED
        BY <4>1, <4>2
    <3> QED
      BY <3>1, <3>5, <2>4, <2>8
  <2> QED
    BY <2>5, <2>6, <2>7, <2>8, <1>5, <1>10 DEF l
<1> QED
  BY <1>9, <1>10

(* Outside a parse the values of a file are kept, or fewer.                *)
LEMMA FewerValues ==
  ASSUME IniInv, line = 0, line' = 0, file' = file, NEW v \in SUBSET values, values' = v,
         error' = error, init' = init
  PROVE  IniInv'
<1>1. Ini!Parsed' = Ini!Parsed
  BY DEF Ini!Parsed, Ini!Outside
<1>2. ValuesFrom(values', file', Ini!Parsed')
  BY <1>1 DEF IniInv, ValuesFrom
<1>3. FirstOf(error', values', Ini!Broken(file', Ini!Parsed'))
  BY <1>1 DEF IniInv, FirstOf
<1>4. ~init' => values' = {} /\ error' = -1
  BY DEF IniInv
<1> QED
  BY <1>2, <1>3, <1>4 DEF IniInv

(* A step of the reader.                                                   *)
LEMMA IniKeeps == IniInv /\ Ini!Next => IniInv'
<1> SUFFICES ASSUME IniInv, Ini!Next PROVE IniInv'
  OBVIOUS
<1>1. CASE Ini!LoadMissing
  <2>1. /\ line = 0 /\ ~init /\ error' \in {-1, -2} /\ error = -1 /\ init' = TRUE
        /\ UNCHANGED <<values, file, line, section, prev_name>>
    BY <1>1 DEF Ini!LoadMissing, Ini!Outside, IniInv
  <2>2. Ini!Parsed' = Ini!Parsed
    BY <2>1 DEF Ini!Parsed, Ini!Outside
  <2>3. values = {} /\ Len(file) \in Nat /\ line \in 0..Len(file) + 1
    BY <2>1 DEF IniInv
  <2>4. FirstOf(error', values', Ini!Broken(file', Ini!Parsed'))
    BY <2>1, <2>3 DEF FirstOf
  <2>5. ValuesFrom(values', file', Ini!Parsed')
    BY <2>1, <2>2 DEF IniInv
  <2> QED
    BY <2>1, <2>3, <2>4, <2>5 DEF IniInv
<1>2. CASE Ini!LoadIgnored
  <2>1. UNCHANGED <<init, error, values, file, line, section, prev_name>>
    BY <1>2 DEF Ini!LoadIgnored, Ini!vars
  <2>2. Ini!Parsed' = Ini!Parsed
    BY <2>1 DEF Ini!Parsed, Ini!Outside
  <2> QED
    BY <2>1, <2>2 DEF IniInv
<1>3. CASE Ini!Parse
  BY <1>3, LineParsed
<1>4. CASE Ini!LoadEnd
  <2>1. /\ line = Len(file) + 1 /\ line' = 0 /\ init' = TRUE
        /\ UNCHANGED <<error, values, file, section, prev_name>>
        /\ Len(file) \in Nat
    BY <1>4 DEF Ini!LoadEnd, IniInv
  <2>2. Ini!Parsed' = Ini!Parsed
    BY <2>1 DEF Ini!Parsed, Ini!Outside
  <2> QED
    BY <2>1, <2>2 DEF IniInv
<1>5. CASE Ini!Clear
  <2>1. line = 0 /\ values' = {} /\ UNCHANGED <<init, error, file, line>>
    BY <1>5 DEF Ini!Clear, Ini!Outside
  <2> QED
    BY <2>1, FewerValues
<1>6. CASE \E f \in Files : Ini!LoadStart(f)
  BY <1>6, FileOpened
<1>7. CASE \E s \in Sections : Ini!RemoveSection(s)
  <2>1. PICK s \in Sections : Ini!RemoveSection(s)
    BY <1>7
  <2>2. /\ line = 0 /\ values' = {e \in values : e[1] # s}
        /\ UNCHANGED <<init, error, file, line>>
    BY <2>1 DEF Ini!RemoveSection, Ini!Outside
  <2>3. values' \in SUBSET values
    BY <2>2
  <2> QED
    BY <2>2, <2>3, FewerValues
<1> QED
  BY <1>1, <1>2, <1>3, <1>4, <1>5, <1>6, <1>7 DEF Ini!Next

(* Nor does a step that leaves the reader alone.                           *)
LEMMA IniKept == IniInv /\ UNCHANGED iniVars => IniInv'
<1> SUFFICES ASSUME IniInv, UNCHANGED iniVars PROVE IniInv'
  OBVIOUS
<1>1. UNCHANGED <<init, error, values, file, line, section, prev_name>>
  BY DEF iniVars
<1>2. Ini!Parsed' = Ini!Parsed
  BY <1>1 DEF Ini!Parsed, Ini!Outside
<1> QED
  BY <1>1, <1>2 DEF IniInv

(* What the reader says then.                                              *)
LEMMA IniMeant == IniInv => Ini!ValuesOfOneFile
<1> SUFFICES ASSUME IniInv PROVE Ini!ValuesOfOneFile
  OBVIOUS
<1>1. \/ error \in {-1, -2} /\ values = {}
      \/ error = 0 /\ Ini!Broken(file, Ini!Parsed) = {}
      \/ /\ error \in Ini!Broken(file, Ini!Parsed)
         /\ \A i \in Ini!Broken(file, Ini!Parsed) : error <= i
  BY DEF IniInv, FirstOf
<1>2. \A e \in values : e[3] = Ini!Told(file, e[1], e[2])[Ini!Parsed] /\ e[3] # << >>
  BY DEF IniInv, ValuesFrom
<1>3. ASSUME ~Ini!Outside, NEW i \in 1..Ini!Parsed, NEW s \in Sections, NEW n \in Names,
             Ini!Says(file, i, s, n)
      PROVE  \E e \in values : e[1] = s /\ e[2] = n
  <2>1. line # 0 /\ i \in 1..line - 1
    BY <1>3 DEF Ini!Parsed, Ini!Outside
  <2>2. ValuesAll(values, file, line - 1)
    BY <2>1 DEF IniInv
  <2> QED
    BY <2>1, <2>2, <1>3 DEF ValuesAll
<1> QED
  BY <1>1, <1>2, <1>3 DEF Ini!ValuesOfOneFile

(* The values are those of one file: all that its lines say of a name, in  *)
(* their order, across comments, blank lines and errors; the error is the  *)
(* first (INIReader.h:44-46, INIReader.cpp:98-149, 190-196, 332-348).      *)
THEOREM ValuesAreOfOneFile == LoadingSpec => []ValuesOfOneFile
<1>1. LoadingInit => IniInv
  BY IniBegins DEF LoadingInit
<1>2. IniInv /\ [LoadingNext]_loadingVars => IniInv'
  <2> SUFFICES ASSUME IniInv, [LoadingNext]_loadingVars PROVE IniInv'
    OBVIOUS
  <2>1. CASE IniStep
    BY <2>1, IniKeeps DEF IniStep
  <2>2. CASE UNCHANGED iniVars
    BY <2>2, IniKept
  <2> QED
    BY <2>1, <2>2 DEF LoadingNext, loadingVars, DbStep, SaveStep, PluginStep, TimerStep
<1>3. IniInv => ValuesOfOneFile
  BY IniMeant DEF ValuesOfOneFile
<1> QED
  BY <1>1, <1>2, <1>3, PTL DEF LoadingSpec
=============================================================================
