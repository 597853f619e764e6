-------------------------- MODULE StringCacheProofs --------------------------
(***************************************************************************)
(* Proofs about StringCache for any sets of threads, strings and addresses *)
(* and any finite set of objects. The inductive invariant has two layers:  *)
(* Control, on who holds the lock and who uses which object, and Entries,  *)
(* on the entries and their counts.                                        *)
(***************************************************************************)
EXTENDS StringCache, FiniteSetTheorems, TLAPS

USE StringCacheAssumption

-----------------------------------------------------------------------------
(* Control                                                                 *)

SetLocations == {"lock", "insert", "releaseLocked", "erase", "store"}

(* Where a thread holds the lock, and where its object has an entry.       *)
Holding == {"insert", "releaseLocked", "erase", "store", "recheck"}
Releasing == {"releaseLocked", "erase", "release", "relock", "recheck"}

(* The types, but for the sign of the counts.                              *)
Types == /\ pool \subseteq Nodes
         /\ keyOf \in [Nodes -> Keys \cup {EmptyKey}]
         /\ count \in [Nodes -> Int]
         /\ lock \in Threads \cup {None}
         /\ ref \in [Objects -> Refs]
         /\ call \in [Threads -> Calls \cup {None}]
         /\ pc \in [Threads -> Locations]
         /\ \A t \in Threads : Running(t) => call[t] \in Calls
         /\ \A t \in Threads : Running(t) <=> call[t] # None
         /\ found \in [Threads -> Refs]
         /\ fate \in {"ok", "freed", "halted"}
         /\ revived \in BOOLEAN

(* What a thread's location says about its call.                           *)
InCall(t) == Running(t) =>
    /\ pc[t] \in SetLocations <=> call[t].op = "set"
    /\ call[t].op \in {"copy", "move"} => call[t].dst # call[t].src
    /\ pc[t] \in Releasing => ref[call[t].dst] \in Nodes

(* The users' rule, kept by every pair of calls.                           *)
Separate == \A t, u \in Threads : t # u =>
    \A o \in Objects : Writes(t, o) => ~ Uses(u, o)

Control == /\ Types
           /\ fate = "ok" => \A t \in Threads : lock = t <=> pc[t] \in Holding
           /\ \A t \in Threads : InCall(t)
           /\ Separate

(* No call is under way to begin with.                                     *)
LEMMA InitControl == Init => Control
<1> SUFFICES ASSUME Init PROVE Control
  OBVIOUS
<1>1. \A t \in Threads : pc[t] = "idle" /\ call[t] = None
  BY DEF Init
<1>2. \A t \in Threads : ~ Running(t)
  BY <1>1 DEF Running
<1>3. Types
  <2>1. pool \subseteq Nodes /\ lock = None /\ fate = "ok" /\ revived \in BOOLEAN
    BY DEF Init
  <2>2. keyOf \in [Nodes -> Keys \cup {EmptyKey}] /\ count \in [Nodes -> Int]
    BY DEF Init
  <2>3. ref \in [Objects -> Refs] /\ found \in [Threads -> Refs]
    BY DEF Init, Refs
  <2>4. call \in [Threads -> Calls \cup {None}] /\ pc \in [Threads -> Locations]
    BY DEF Init, Locations
  <2> QED
    BY <1>1, <1>2, <2>1, <2>2, <2>3, <2>4 DEF Types
<1>4. \A t \in Threads : lock = t <=> pc[t] \in Holding
  BY DEF Init, Holding
<1> QED
  BY <1>2, <1>3, <1>4 DEF Control, InCall, Separate, Writes

USE DEF Types, InCall, Running, Calls, Refs, Locations, AfterRelease,
        SetLocations, Holding, Releasing

(* A call that was allowed keeps the calls apart.                          *)
LEMMA EnterControl ==
  ASSUME Control, NEW t \in Threads, NEW k \in Calls, NEW l,
         \/ l = "lock" /\ k.op = "set"
         \/ l = ReleaseFirst(k.dst) /\ k.op # "set",
         k.op \in {"copy", "move"} => k.dst # k.src,
         Enter(t, k, l)
  PROVE  Control'
<1> k # None
  OBVIOUS
<1>1. Types'
  BY DEF Enter, Control, ReleaseFirst, At
<1>2. Separate'
  BY DEF Enter, Control, Separate, Writes, Uses, Allowed, At
<1>3. \A u \in Threads : InCall(u)'
  BY DEF Enter, Control, ReleaseFirst, At
<1>4. (fate = "ok" => \A u \in Threads : lock = u <=> pc[u] \in Holding)'
  BY DEF Enter, Control, ReleaseFirst, At
<1> QED
  BY <1>1, <1>2, <1>3, <1>4 DEF Control

(* The beginning of each call.                                             *)
LEMMA BeginControl ==
  ASSUME Control, NEW t \in Threads, Begin(t)
  PROVE  Control'
<1>1. CASE Set(t)
  BY <1>1, EnterControl DEF Set
<1>2. CASE Clear(t)
  BY <1>2, EnterControl DEF Clear
<1>3. CASE Copy(t)
  BY <1>3, EnterControl DEF Copy
<1>4. CASE Move(t)
  BY <1>4, EnterControl DEF Move
<1> QED
  BY <1>1, <1>2, <1>3, <1>4 DEF Begin

(* Any other step of t either goes on with its call or leaves it, and so   *)
(* keeps the calls apart.                                                  *)
LEMMA StepSeparate ==
  ASSUME Control, NEW t \in Threads, Running(t),
         \/ \E l : GoTo(t, l)
         \/ Leave(t)
  PROVE  Separate'
BY DEF Control, Separate, Writes, Uses, GoTo, Leave

(* The steps of set_impl.                                                  *)
LEMMA SetControl ==
  ASSUME Control, NEW t \in Threads, SetStep(t)
  PROVE  Control'
<1> USE DEF Control, At, GoTo, Leave
<1>1. CASE SetLock(t)
  <2>1. Types'
    BY <1>1 DEF SetLock
  <2>2. (fate = "ok" => \A u \in Threads : lock = u <=> pc[u] \in Holding)'
    BY <1>1 DEF SetLock
  <2>3. \A u \in Threads : InCall(u)'
    BY <1>1 DEF SetLock, Separate, Writes, Uses
  <2>4. Separate'
    BY <1>1, StepSeparate DEF SetLock
  <2> QED
    BY <2>1, <2>2, <2>3, <2>4
<1>2. CASE SetInsert(t)
  <2>1. Types'
    BY <1>2 DEF SetInsert, Insert
  <2>2. (fate = "ok" => \A u \in Threads : lock = u <=> pc[u] \in Holding)'
    BY <1>2 DEF SetInsert, Insert
  <2>3. \A u \in Threads : InCall(u)'
    BY <1>2 DEF SetInsert, Insert, Separate, Writes, Uses
  <2>4. Separate'
    BY <1>2, StepSeparate DEF SetInsert, Insert
  <2> QED
    BY <2>1, <2>2, <2>3, <2>4
<1>3. CASE SetRelease(t)
  <2>1. Types'
    BY <1>3 DEF SetRelease
  <2>2. (fate = "ok" => \A u \in Threads : lock = u <=> pc[u] \in Holding)'
    BY <1>3 DEF SetRelease
  <2>3. \A u \in Threads : InCall(u)'
    BY <1>3 DEF SetRelease, Separate, Writes, Uses
  <2>4. Separate'
    BY <1>3, StepSeparate DEF SetRelease
  <2> QED
    BY <2>1, <2>2, <2>3, <2>4
<1>4. CASE SetErase(t)
  <2>1. Types'
    BY <1>4 DEF SetErase, Erase
  <2>2. (fate = "ok" => \A u \in Threads : lock = u <=> pc[u] \in Holding)'
    BY <1>4 DEF SetErase, Erase
  <2>3. \A u \in Threads : InCall(u)'
    BY <1>4 DEF SetErase, Erase, Separate, Writes, Uses
  <2>4. Separate'
    BY <1>4, StepSeparate DEF SetErase, Erase
  <2> QED
    BY <2>1, <2>2, <2>3, <2>4
<1>5. CASE SetStore(t)
  <2>1. Types'
    BY <1>5 DEF SetStore, Acquire
  <2>2. (fate = "ok" => \A u \in Threads : lock = u <=> pc[u] \in Holding)'
    BY <1>5 DEF SetStore, Acquire
  <2>3. \A u \in Threads : InCall(u)'
    BY <1>5 DEF SetStore, Acquire, Separate, Writes, Uses
  <2>4. Separate'
    BY <1>5, StepSeparate DEF SetStore, Acquire
  <2> QED
    BY <2>1, <2>2, <2>3, <2>4
<1> QED
  BY <1>1, <1>2, <1>3, <1>4, <1>5 DEF SetStep

(* The steps of try_release<true>.                                         *)
LEMMA ReleaseControl ==
  ASSUME Control, NEW t \in Threads, ReleaseStep(t)
  PROVE  Control'
<1> USE DEF Control, At, GoTo, Leave
<1>1. CASE Release(t)
  <2>1. Types'
    BY <1>1 DEF Release
  <2>2. (fate = "ok" => \A u \in Threads : lock = u <=> pc[u] \in Holding)'
    BY <1>1 DEF Release
  <2>3. \A u \in Threads : InCall(u)'
    BY <1>1 DEF Release, Separate, Writes, Uses
  <2>4. Separate'
    BY <1>1, StepSeparate DEF Release
  <2> QED
    BY <2>1, <2>2, <2>3, <2>4
<1>2. CASE ReleaseLock(t)
  <2>1. Types'
    BY <1>2 DEF ReleaseLock
  <2>2. (fate = "ok" => \A u \in Threads : lock = u <=> pc[u] \in Holding)'
    BY <1>2 DEF ReleaseLock
  <2>3. \A u \in Threads : InCall(u)'
    BY <1>2 DEF ReleaseLock, Separate, Writes, Uses
  <2>4. Separate'
    BY <1>2, StepSeparate DEF ReleaseLock
  <2> QED
    BY <2>1, <2>2, <2>3, <2>4
<1>3. CASE ReleaseRecheck(t)
  <2>1. Types'
    BY <1>3 DEF ReleaseRecheck, Erase
  <2>2. (fate = "ok" => \A u \in Threads : lock = u <=> pc[u] \in Holding)'
    BY <1>3 DEF ReleaseRecheck, Erase
  <2>3. \A u \in Threads : InCall(u)'
    BY <1>3 DEF ReleaseRecheck, Erase, Separate, Writes, Uses
  <2>4. Separate'
    BY <1>3, StepSeparate DEF ReleaseRecheck, Erase
  <2> QED
    BY <2>1, <2>2, <2>3, <2>4
<1>4. CASE ReleaseRecheckFreed(t)
  <2>1. Types'
    BY <1>4 DEF ReleaseRecheckFreed, Erase
  <2>2. (fate = "ok" => \A u \in Threads : lock = u <=> pc[u] \in Holding)'
    BY <1>4 DEF ReleaseRecheckFreed, Erase
  <2>3. \A u \in Threads : InCall(u)'
    BY <1>4 DEF ReleaseRecheckFreed, Erase, Separate, Writes, Uses
  <2>4. Separate'
    BY <1>4, StepSeparate DEF ReleaseRecheckFreed, Erase
  <2> QED
    BY <2>1, <2>2, <2>3, <2>4
<1> QED
  BY <1>1, <1>2, <1>3, <1>4 DEF ReleaseStep

(* The last steps of clear, copy and move.                                 *)
LEMMA AssignControl ==
  ASSUME Control, NEW t \in Threads, AssignStep(t)
  PROVE  Control'
<1> USE DEF Control, At, GoTo, Leave
<1>1. CASE AssignClear(t)
  <2>1. Types'
    BY <1>1 DEF AssignClear
  <2>2. (fate = "ok" => \A u \in Threads : lock = u <=> pc[u] \in Holding)'
    BY <1>1 DEF AssignClear
  <2>3. \A u \in Threads : InCall(u)'
    BY <1>1 DEF AssignClear, Separate, Writes, Uses
  <2>4. Separate'
    BY <1>1, StepSeparate DEF AssignClear
  <2> QED
    BY <2>1, <2>2, <2>3, <2>4
<1>2. CASE AssignCopy(t)
  <2>1. Types'
    BY <1>2 DEF AssignCopy, Acquire
  <2>2. (fate = "ok" => \A u \in Threads : lock = u <=> pc[u] \in Holding)'
    BY <1>2 DEF AssignCopy, Acquire
  <2>3. \A u \in Threads : InCall(u)'
    BY <1>2 DEF AssignCopy, Acquire, Separate, Writes, Uses
  <2>4. Separate'
    BY <1>2, StepSeparate DEF AssignCopy, Acquire
  <2> QED
    BY <2>1, <2>2, <2>3, <2>4
<1>3. CASE AssignMove(t)
  <2>1. Types'
    BY <1>3 DEF AssignMove
  <2>2. (fate = "ok" => \A u \in Threads : lock = u <=> pc[u] \in Holding)'
    BY <1>3 DEF AssignMove
  <2>3. \A u \in Threads : InCall(u)'
    BY <1>3 DEF AssignMove, Separate, Writes, Uses
  <2>4. Separate'
    BY <1>3, StepSeparate DEF AssignMove
  <2> QED
    BY <2>1, <2>2, <2>3, <2>4
<1> QED
  BY <1>1, <1>2, <1>3 DEF AssignStep

(* Every step keeps the control invariant.                                 *)
LEMMA NextControl == Control /\ [Next]_vars => Control'
<1> SUFFICES ASSUME Control, [Next]_vars PROVE Control'
  OBVIOUS
<1>1. CASE UNCHANGED vars
  BY <1>1 DEF vars, Control, Separate, Writes, Uses
<1> QED
  BY <1>1, BeginControl, SetControl, ReleaseControl, AssignControl DEF Next

(* Hence it holds always.                                                  *)
LEMMA AlwaysControl == Spec => []Control
  BY InitControl, NextControl, PTL DEF Spec

-----------------------------------------------------------------------------
(* Entries                                                                 *)

(* What set_impl knows, while it has the lock, of the entry it found and   *)
(* of the one it is about to erase.                                        *)
Setter(t) ==
    /\ pc[t] \in {"releaseLocked", "erase"} => found[t] # ref[call[t].dst]
    /\ pc[t] \in {"releaseLocked", "erase", "store"} =>
         IF found[t] = EmptyRef THEN call[t].key = EmptyKey
         ELSE found[t] \in pool /\ keyOf[found[t]] = call[t].key
    /\ pc[t] = "erase" => /\ ref[call[t].dst] \in pool
                          /\ count[ref[call[t].dst]] = 0

Entries == /\ count \in [Nodes -> Nat]
           /\ CountsExact
           /\ Canonical
           /\ fate = "ok" => \A t \in Threads : Setter(t)

(* The cache is empty to begin with.                                       *)
LEMMA InitEntries == Init => Entries
  BY DEF Init, Entries, CountsExact, Canonical, Setter, Users

(* What refers to an entry can be counted.                                 *)
LEMMA UsersFinite == /\ \A n : IsFiniteSet(Users(n)) /\ Cardinality(Users(n)) \in Nat
                     /\ \A n : Cardinality(Users(n)) = 0 <=> Users(n) = {}
<1> SUFFICES ASSUME NEW n
             PROVE  /\ IsFiniteSet(Users(n))
                    /\ Cardinality(Users(n)) \in Nat
                    /\ Cardinality(Users(n)) = 0 <=> Users(n) = {}
  OBVIOUS
<1>1. Users(n) \in SUBSET Objects
  BY DEF Users
<1>2. IsFiniteSet(Users(n))
  BY <1>1, FS_Subset
<1> QED
  BY <1>2, FS_CardinalityType, FS_EmptySet

(* The object a call writes counts as a user of its entry until its        *)
(* release, and of none after that; the object it reads counts throughout. *)
LEMMA WhoUses ==
  ASSUME Control, NEW t \in Threads, Running(t)
  PROVE  /\ call[t].dst \in Objects /\ call[t].src \in Objects
         /\ pc[t] \in AfterRelease => Dropped(call[t].dst)
         /\ pc[t] \notin AfterRelease => ~ Dropped(call[t].dst)
         /\ call[t].op \in {"copy", "move"} => ~ Dropped(call[t].src)
<1>1. call[t] \in Calls
  BY DEF Control
<1> QED
  BY <1>1 DEF Control, Dropped, Separate, Writes, Uses

(* A used entry exists and is counted.                                     *)
LEMMA UsedExists ==
  ASSUME Control, Entries, fate = "ok",
         NEW o \in Objects, ~ Dropped(o), ref[o] # EmptyRef
  PROVE  /\ ref[o] \in pool
         /\ o \in Users(ref[o])
         /\ count[ref[o]] >= 1
<1>1. ref[o] \in Nodes /\ o \in Users(ref[o])
  BY DEF Control, Users
<1>2. ref[o] \in pool
  BY <1>1 DEF Entries, CountsExact
<1> QED
  BY <1>1, <1>2, UsersFinite DEF Entries, CountsExact

(* An erasure takes the entry meant and no other, and never halts.         *)
LEMMA EraseExact ==
  ASSUME Entries, fate = "ok", NEW n \in pool, Erase(n)
  PROVE  pool' = pool \ {n} /\ UNCHANGED fate
BY DEF Erase, EqualTo, Entries, Canonical

(* A step that leaves the users, the counts and the entries alone.         *)
LEMMA SameEntries ==
  ASSUME Control, Entries,
         \A n \in Nodes : Users(n)' = Users(n),
         UNCHANGED <<pool, keyOf, count, fate>>,
         fate = "ok" => \A t \in Threads : Setter(t)'
  PROVE  Entries'
BY DEF Control, Entries, CountsExact, Canonical

(* A call that begins keeps the counts.                                    *)
LEMMA BeginEntries ==
  ASSUME Control, Control', Entries, NEW t \in Threads, Begin(t)
  PROVE  Entries'
<1>1. PICK k \in Calls, l \in {"lock", "release", "assign"} :
         /\ Enter(t, k, l)
         /\ l # "lock" => l = ReleaseFirst(k.dst)
  <2>1. CASE Set(t)
    BY <2>1 DEF Set
  <2>2. CASE Clear(t)
    BY <2>2 DEF Clear, ReleaseFirst
  <2>3. CASE Copy(t)
    BY <2>3 DEF Copy, ReleaseFirst
  <2>4. CASE Move(t)
    BY <2>4 DEF Move, ReleaseFirst
  <2> QED
    BY <2>1, <2>2, <2>3, <2>4 DEF Begin
<1>2. ~ Running(t) /\ fate = "ok"
  BY <1>1 DEF Enter, At
<1>3. \A o \in Objects : ref[o] # EmptyRef => (Dropped(o)' <=> Dropped(o))
  BY <1>1, <1>2 DEF Control, Enter, Dropped, ReleaseFirst
<1>4. \A n \in Nodes : Users(n)' = Users(n)
  BY <1>1, <1>3 DEF Users, Enter
<1>5. \A u \in Threads : Setter(u)'
  BY <1>1, <1>2 DEF Control, Entries, Setter, Enter, ReleaseFirst
<1> QED
  BY <1>1, <1>4, <1>5, SameEntries DEF Enter

(* The lookup adds at most an entry that nobody uses.                      *)
LEMMA SetInsertEntries ==
  ASSUME Control, Control', Entries, NEW t \in Threads, SetInsert(t)
  PROVE  Entries'
<1> DEFINE o == call[t].dst
<1>1. /\ fate = "ok" /\ pc[t] = "insert" /\ lock = t
      /\ o \in Objects
      /\ UNCHANGED <<ref, fate>>
  BY DEF SetInsert, Control, At
<1>2. \A u \in Threads \ {t} : pc[u] \notin Holding
  BY <1>1 DEF Control
<1>3. \A n \in Nodes : Users(n)' = Users(n)
  <2>1. \A x \in Objects : ref[x] # EmptyRef => (Dropped(x)' <=> Dropped(x))
    BY <1>1, WhoUses DEF SetInsert, Control, Dropped, GoTo, Leave, Separate, Writes, Uses
  <2> QED
    BY <1>1, <2>1 DEF Users
<1>4. \A n \in Nodes : n \notin pool => Users(n) = {}
  BY <1>1 DEF Entries, CountsExact
<1>5. /\ count' \in [Nodes -> Nat]
      /\ \A n \in pool' : count'[n] = Cardinality(Users(n)')
      /\ \A n \in Nodes \ pool' : Users(n)' = {}
      /\ \A m, n \in pool' : keyOf'[m] = keyOf'[n] => m = n
  <2>1. CASE UNCHANGED <<pool, keyOf, count>>
    BY <1>1, <1>3, <2>1 DEF Entries, CountsExact, Canonical, Control
  <2>2. CASE /\ \A n \in pool : keyOf[n] # call[t].key
             /\ \E n \in Nodes \ pool : /\ pool' = pool \cup {n}
                                        /\ keyOf' = [keyOf EXCEPT ![n] = call[t].key]
                                        /\ count' = [count EXCEPT ![n] = 0]
    <3>1. PICK n \in Nodes \ pool : /\ pool' = pool \cup {n}
                                   /\ keyOf' = [keyOf EXCEPT ![n] = call[t].key]
                                   /\ count' = [count EXCEPT ![n] = 0]
      BY <2>2
    <3>2. Cardinality(Users(n)') = 0
      BY <1>3, <1>4, UsersFinite
    <3> QED
      BY <1>1, <1>3, <1>4, <2>2, <3>1, <3>2
         DEF Entries, CountsExact, Canonical, Control
  <2> QED
    BY <2>1, <2>2 DEF SetInsert, Insert
<1>6. Setter(t)'
  BY <1>1 DEF SetInsert, Insert, Setter, GoTo, Leave, Control
<1>7. \A u \in Threads \ {t} : Setter(u)'
  BY <1>1, <1>2 DEF SetInsert, Setter, GoTo, Leave, Control
<1> QED
  BY <1>5, <1>6, <1>7 DEF Entries, CountsExact, Canonical

(* The decrement of both releases: the writer stops being a user.          *)
LEMMA DecrementEntries ==
  ASSUME Control, Entries, NEW t \in Threads,
         fate = "ok", pc[t] \in {"releaseLocked", "release"},
         NEW l \in AfterRelease, GoTo(t, l),
         count' = [count EXCEPT ![ref[call[t].dst]] = @ - 1],
         UNCHANGED <<pool, keyOf, lock, ref, found, fate, revived>>
  PROVE  /\ count' \in [Nodes -> Nat]
         /\ CountsExact'
         /\ Canonical'
         /\ ref[call[t].dst] \in pool
         /\ count[ref[call[t].dst]] = 1 => count'[ref[call[t].dst]] = 0
<1> DEFINE o == call[t].dst
           n == ref[o]
<1>1. o \in Objects /\ n \in Nodes /\ ~ Dropped(o)
  BY WhoUses DEF Control
<1>2. n \in pool /\ o \in Users(n) /\ count[n] >= 1
  BY <1>1, UsedExists
<1>3. count' \in [Nodes -> Nat]
  BY <1>1, <1>2 DEF Entries
<1>4. \A x \in Objects : Dropped(x)' <=> Dropped(x) \/ x = o
  BY <1>1 DEF Control, Dropped, GoTo
<1>5. o' = o /\ n' = n
  BY DEF GoTo
<1>6. \A m \in Nodes : Users(m)' = IF m = n THEN Users(m) \ {o} ELSE Users(m)
  BY <1>4, <1>5 DEF Users
<1>7. Cardinality(Users(n)') = Cardinality(Users(n)) - 1
  BY <1>1, <1>2, <1>5, <1>6, UsersFinite, FS_RemoveElement
<1>8. CountsExact'
  BY <1>1, <1>2, <1>5, <1>6, <1>7 DEF Entries, CountsExact, Control
<1> QED
  BY <1>2, <1>3, <1>8 DEF Entries, Canonical

(* The increment: the writer is a user of the entry it takes over.         *)
LEMMA AcquireEntries ==
  ASSUME Control, Entries, NEW t \in Threads,
         fate = "ok", pc[t] \in {"store", "assign"},
         NEW r \in Refs, r # EmptyRef => r \in pool,
         Acquire(call[t].dst, r), Leave(t),
         UNCHANGED <<pool, keyOf, fate>>
  PROVE  /\ count' \in [Nodes -> Nat]
         /\ CountsExact'
         /\ Canonical'
<1> DEFINE o == call[t].dst
<1>1. o \in Objects /\ Dropped(o)
  BY WhoUses
<1>2. \A x \in Objects : Dropped(x)' <=> Dropped(x) /\ x # o
  BY <1>1 DEF Control, Dropped, Leave, Separate, Writes, Uses
<1>3. \A m \in Nodes : Users(m)' = IF m = r THEN Users(m) \cup {o} ELSE Users(m)
  BY <1>1, <1>2 DEF Users, Acquire, Control
<1>4. count' \in [Nodes -> Nat]
  BY DEF Entries, Acquire
<1>5. \A m \in Nodes : o \notin Users(m)
  BY <1>1 DEF Users
<1>6. r # EmptyRef => Cardinality(Users(r)') = Cardinality(Users(r)) + 1
  BY <1>3, <1>5, UsersFinite, FS_AddElement
<1>7. CountsExact'
  BY <1>3, <1>6 DEF Entries, CountsExact, Control, Acquire
<1> QED
  BY <1>4, <1>7 DEF Entries, Canonical

(* So do the steps of set,                                                 *)
LEMMA SetEntries ==
  ASSUME Control, Control', Entries, NEW t \in Threads, SetStep(t)
  PROVE  Entries'
<1> DEFINE o == call[t].dst
<1>1. CASE SetLock(t)
  <2>1. \A n \in Nodes : Users(n)' = Users(n)
    BY <1>1 DEF SetLock, At, GoTo, Control, Users, Dropped
  <2>2. \A u \in Threads : Setter(u)'
    BY <1>1 DEF SetLock, At, GoTo, Control, Entries, Setter
  <2> QED
    BY <1>1, <2>1, <2>2, SameEntries DEF SetLock
<1>2. CASE SetInsert(t)
  BY <1>2, SetInsertEntries
<1>3. CASE SetRelease(t)
  <2>1. \E l \in {"erase", "store"} : /\ GoTo(t, l)
                                     /\ l = "erase" => count[ref[o]] = 1
    BY <1>3 DEF SetRelease
  <2>2. /\ count' \in [Nodes -> Nat] /\ CountsExact' /\ Canonical'
        /\ ref[o] \in pool
        /\ count[ref[o]] = 1 => count'[ref[o]] = 0
    BY <1>3, <2>1, DecrementEntries DEF SetRelease, At
  <2>3. \A u \in Threads \ {t} : pc'[u] \notin Holding
    BY <1>3, <2>1 DEF SetRelease, At, GoTo, Control
  <2>4. \A u \in Threads : Setter(u)'
    BY <1>3, <2>1, <2>2, <2>3 DEF SetRelease, At, GoTo, Setter, Entries, Control
  <2> QED
    BY <2>2, <2>4 DEF Entries
<1>4. CASE SetErase(t)
  <2>1. /\ fate = "ok" /\ ref[o] \in pool /\ count[ref[o]] = 0
        /\ found[t] # ref[o]
    BY <1>4 DEF SetErase, At, Entries, Setter
  <2>2. pool' = pool \ {ref[o]} /\ UNCHANGED fate
    BY <1>4, <2>1, EraseExact DEF SetErase
  <2>3. \A n \in Nodes : Users(n)' = Users(n)
    BY <1>4 DEF SetErase, At, GoTo, Control, Users, Dropped
  <2>4. Users(ref[o]) = {}
    BY <2>1, UsersFinite DEF Entries, CountsExact, Control
  <2>5. CountsExact' /\ Canonical'
    <3>1. UNCHANGED <<keyOf, count>>
      BY <1>4 DEF SetErase
    <3>2. CountsExact'
      <4>1. \A n \in pool' : count'[n] = Cardinality(Users(n)')
        BY <2>1, <2>2, <2>3, <3>1 DEF Entries, CountsExact, Control
      <4>2. \A n \in Nodes \ pool' : Users(n)' = {}
        BY <2>1, <2>2, <2>3, <2>4 DEF Entries, CountsExact
      <4> QED
        BY <4>1, <4>2 DEF CountsExact
    <3>3. Canonical'
      BY <2>1, <2>2, <3>1 DEF Entries, Canonical
    <3> QED
      BY <3>2, <3>3
  <2>6. \A u \in Threads \ {t} : pc'[u] \notin Holding
    BY <1>4 DEF SetErase, At, GoTo, Control
  <2>7. \A u \in Threads : Setter(u)'
    BY <1>4, <2>1, <2>2, <2>6 DEF SetErase, At, GoTo, Setter, Entries, Control
  <2> QED
    BY <1>4, <2>5, <2>7 DEF Entries, SetErase
<1>5. CASE SetStore(t)
  <2>1. /\ fate = "ok" /\ pc[t] = "store"
        /\ found[t] # EmptyRef => found[t] \in pool
    BY <1>5 DEF SetStore, At, Entries, Setter
  <2>2. count' \in [Nodes -> Nat] /\ CountsExact' /\ Canonical'
    BY <1>5, <2>1, AcquireEntries DEF SetStore, Control
  <2>3. \A u \in Threads : pc'[u] \notin Holding \ {"recheck"}
    BY <1>5, <2>1 DEF SetStore, Leave, Control
  <2>4. \A u \in Threads : Setter(u)'
    BY <2>3 DEF Setter
  <2> QED
    BY <2>2, <2>4 DEF Entries
<1> QED
  BY <1>1, <1>2, <1>3, <1>4, <1>5 DEF SetStep

(* of release,                                                             *)
LEMMA ReleaseEntries ==
  ASSUME Control, Control', Entries, NEW t \in Threads, ReleaseStep(t)
  PROVE  Entries'
<1> DEFINE o == call[t].dst
<1>1. CASE Release(t)
  <2>1. \E l \in {"relock", "assign"} : GoTo(t, l)
    BY <1>1 DEF Release
  <2>2. /\ count' \in [Nodes -> Nat] /\ CountsExact' /\ Canonical'
    BY <1>1, <2>1, DecrementEntries DEF Release, At
  <2>3. \A u \in Threads : Setter(u)'
    <3>1. \A u \in Threads : pc'[u] = pc[u] \/ pc'[u] \in {"relock", "assign"}
      BY <1>1, <2>1 DEF GoTo, Control
    <3>2. ref[o] \in pool /\ count[ref[o]] >= 1
      BY <1>1, UsedExists, WhoUses DEF Release, At, Control
    <3>3. UNCHANGED <<pool, keyOf, ref, found, call, fate>>
      BY <1>1, <2>1 DEF Release, GoTo
    <3>4. \A n \in Nodes : count[n] = 0 => count'[n] = 0
      BY <1>1, <3>2 DEF Release, Control
    <3> QED
      BY <1>1, <3>1, <3>3, <3>4 DEF Setter, Entries, Control, Release, At
  <2> QED
    BY <2>2, <2>3 DEF Entries
<1>2. CASE ReleaseLock(t)
  <2>1. \A n \in Nodes : Users(n)' = Users(n)
    BY <1>2 DEF ReleaseLock, At, GoTo, Control, Users, Dropped
  <2>2. \A u \in Threads : Setter(u)'
    BY <1>2 DEF ReleaseLock, At, GoTo, Control, Entries, Setter
  <2> QED
    BY <1>2, <2>1, <2>2, SameEntries DEF ReleaseLock
<1>3. CASE ReleaseRecheck(t)
  <2>1. fate = "ok" /\ ref[o] \in pool /\ pc[t] = "recheck"
    BY <1>3 DEF ReleaseRecheck, At
  <2>2. \A n \in Nodes : Users(n)' = Users(n)
    BY <1>3 DEF ReleaseRecheck, At, GoTo, Control, Users, Dropped
  <2>3. \A u \in Threads : pc'[u] \notin Holding
    BY <1>3, <2>1 DEF ReleaseRecheck, GoTo, Control
  <2>4. \A u \in Threads : Setter(u)'
    BY <2>3 DEF Setter
  <2>5. CASE count[ref[o]] = 0
    <3>1. pool' = pool \ {ref[o]} /\ UNCHANGED fate
      BY <1>3, <2>1, <2>5, EraseExact DEF ReleaseRecheck
    <3>2. Users(ref[o]) = {}
      BY <2>1, <2>5, UsersFinite DEF Entries, CountsExact, Control
    <3>3. CountsExact' /\ Canonical'
      BY <1>3, <2>1, <2>2, <3>1, <3>2
         DEF ReleaseRecheck, Entries, CountsExact, Canonical, Control
    <3> QED
      BY <1>3, <2>4, <3>3 DEF Entries, ReleaseRecheck
  <2>6. CASE count[ref[o]] # 0
    BY <1>3, <2>2, <2>4, <2>6, SameEntries DEF ReleaseRecheck
  <2> QED
    BY <2>5, <2>6
<1>4. CASE ReleaseRecheckFreed(t)
  <2>1. fate' # "ok"
    BY <1>4 DEF ReleaseRecheckFreed, Erase
  <2> QED
    BY <1>4, <2>1 DEF ReleaseRecheckFreed, Entries, CountsExact, Canonical
<1> QED
  BY <1>1, <1>2, <1>3, <1>4 DEF ReleaseStep

(* and of an assignment.                                                   *)
LEMMA AssignEntries ==
  ASSUME Control, Control', Entries, NEW t \in Threads, AssignStep(t)
  PROVE  Entries'
<1> DEFINE o == call[t].dst
           s == call[t].src
<1>1. fate = "ok" /\ pc[t] = "assign" /\ Leave(t)
  BY DEF AssignStep, AssignClear, AssignCopy, AssignMove, At
<1>2. o \in Objects /\ s \in Objects /\ Dropped(o)
  BY <1>1, WhoUses
<1>3. /\ \A u \in Threads \ {t} : pc'[u] = pc[u] /\ call'[u] = call[u]
      /\ pc'[t] = "idle"
      /\ \A u \in Threads \ {t} : Running(u) => call[u].dst # o
  BY <1>1 DEF Leave, Control, Separate, Writes, Uses
<1>4. \A x \in Objects : Dropped(x)' <=> Dropped(x) /\ x # o
  BY <1>1, <1>2, <1>3 DEF Control, Dropped
<1>5. CASE AssignClear(t)
  <2>1. \A n \in Nodes : Users(n)' = Users(n)
    BY <1>2, <1>4, <1>5 DEF AssignClear, Users, Control
  <2>2. \A u \in Threads : Setter(u)'
    BY <1>3, <1>5 DEF AssignClear, Setter, Entries, At, Control
  <2> QED
    BY <1>5, <2>1, <2>2, SameEntries DEF AssignClear
<1>6. CASE AssignCopy(t)
  <2>1. ref[s] # EmptyRef => ref[s] \in pool /\ count[ref[s]] >= 1
    BY <1>1, <1>2, <1>6, UsedExists, WhoUses DEF AssignCopy
  <2>2. count' \in [Nodes -> Nat] /\ CountsExact' /\ Canonical'
    BY <1>1, <1>2, <1>6, <2>1, AcquireEntries DEF AssignCopy, Control
  <2>3. \A u \in Threads : Setter(u)'
    BY <1>1, <1>3, <1>6, <2>1 DEF AssignCopy, Acquire, Setter, Entries, Control
  <2> QED
    BY <2>2, <2>3 DEF Entries
<1>7. CASE AssignMove(t)
  <2>1. /\ s # o /\ ~ Dropped(s)
        /\ \A u \in Threads \ {t} : Running(u) => call[u].dst # s
    BY <1>1, <1>2, <1>7, WhoUses DEF AssignMove, Control, Separate, Writes, Uses
  <2>2. \A m \in Nodes : Users(m)' = IF m = ref[s] THEN (Users(m) \ {s}) \cup {o}
                                                 ELSE Users(m)
    BY <1>2, <1>4, <1>7, <2>1 DEF AssignMove, Users, Control
  <2>3. \A m \in Nodes : m = ref[s] => s \in Users(m) /\ o \notin Users(m) \ {s}
    BY <1>2, <2>1 DEF Users
  <2>4. \A m \in Nodes : m = ref[s] =>
          /\ IsFiniteSet(Users(m) \ {s})
          /\ Cardinality(Users(m) \ {s}) = Cardinality(Users(m)) - 1
    BY <2>3, UsersFinite, FS_RemoveElement
  <2>5. \A m \in Nodes : m = ref[s] =>
          Cardinality((Users(m) \ {s}) \cup {o}) = Cardinality(Users(m) \ {s}) + 1
    BY <2>3, <2>4, FS_AddElement
  <2>6. \A m \in Nodes : Cardinality(Users(m)') = Cardinality(Users(m))
    <3> TAKE m \in Nodes
    <3>1. CASE m = ref[s]
      <4>1. Cardinality(Users(m)') = (Cardinality(Users(m)) - 1) + 1
        BY <2>2, <2>4, <2>5, <3>1
      <4> QED
        BY <4>1, UsersFinite
    <3>2. CASE m # ref[s]
      BY <2>2, <3>2
    <3> QED
      BY <3>1, <3>2
  <2>7. \A m \in Nodes : Users(m) = {} => Users(m)' = {}
    BY <2>2, <2>3
  <2>8. CountsExact' /\ Canonical'
    BY <1>7, <2>6, <2>7 DEF AssignMove, Entries, CountsExact, Canonical, Control
  <2>9. \A u \in Threads : Setter(u)'
    BY <1>1, <1>2, <1>3, <1>7, <2>1 DEF AssignMove, Setter, Entries, Control
  <2> QED
    BY <1>7, <2>8, <2>9 DEF Entries, AssignMove
<1> QED
  BY <1>5, <1>6, <1>7 DEF AssignStep

(* Hence every step keeps the entries.                                     *)
LEMMA NextEntries == Control /\ Control' /\ Entries /\ [Next]_vars => Entries'
<1> SUFFICES ASSUME Control, Control', Entries, [Next]_vars PROVE Entries'
  OBVIOUS
<1>1. CASE UNCHANGED vars
  BY <1>1 DEF vars, Entries, CountsExact, Canonical, Setter, Users, Dropped
<1> QED
  BY <1>1, BeginEntries, SetEntries, ReleaseEntries, AssignEntries DEF Next

(* And they are always as Entries says.                                    *)
LEMMA AlwaysEntries == Spec => []Entries
  BY InitEntries, NextEntries, AlwaysControl, PTL DEF Spec

(* Types, and counts that never go below 0.                                *)
THEOREM TypeCorrect == Spec => []TypeOK
<1>1. Control /\ Entries => TypeOK
  BY DEF Control, Entries, TypeOK
<1> QED
  BY <1>1, AlwaysControl, AlwaysEntries, PTL

(* Until freed memory is used, every entry in use exists and counts its    *)
(* users exactly.                                                          *)
THEOREM CountsAreExact == Spec => []CountsExact
<1>1. Entries => CountsExact
  BY DEF Entries
<1> QED
  BY <1>1, AlwaysEntries, PTL

(* Until freed memory is used, equal strings share one entry.              *)
THEOREM EntriesAreCanonical == Spec => []Canonical
<1>1. Entries => Canonical
  BY DEF Entries
<1> QED
  BY <1>1, AlwaysEntries, PTL

-----------------------------------------------------------------------------
(* No leak                                                                 *)

(* A step of t leaves the other threads where they are, with the objects   *)
(* and the entries they are concerned with.                                *)
LEMMA OthersStay ==
  ASSUME Control, Control', NEW t \in Threads,
         Begin(t) \/ SetStep(t) \/ ReleaseStep(t) \/ AssignStep(t),
         NEW u \in Threads, u # t
  PROVE  /\ pc'[u] = pc[u] /\ call'[u] = call[u] /\ found'[u] = found[u]
         /\ Running(u) => ref'[call[u].dst] = ref[call[u].dst]
<1>1. CASE Begin(t)
  <2>1. \E k, l : Enter(t, k, l)
    BY <1>1 DEF Begin, Set, Clear, Copy, Move
  <2> QED
    BY <2>1 DEF Enter, Control
<1>2. CASE SetLock(t) \/ SetInsert(t) \/ SetRelease(t) \/ SetErase(t)
  BY <1>2 DEF SetLock, SetInsert, Insert, SetRelease, SetErase, GoTo, Leave, Control
<1>3. CASE SetStore(t)
  BY <1>3 DEF SetStore, At, Leave, Acquire, Control, Separate, Writes, Uses
<1>4. CASE ReleaseStep(t)
  BY <1>4 DEF ReleaseStep, Release, ReleaseLock, ReleaseRecheck,
              ReleaseRecheckFreed, GoTo, Control
<1>5. CASE AssignStep(t)
  BY <1>5 DEF AssignStep, AssignClear, AssignCopy, AssignMove, At, Leave,
              Acquire, Control, Separate, Writes, Uses
<1> QED
  BY <1>1, <1>2, <1>3, <1>4, <1>5 DEF SetStep

(* So an unused entry is left behind only if t leaves it behind.           *)
LEMMA LeavesNone ==
  ASSUME Control, Control', NoLeak, NEW t \in Threads,
         Begin(t) \/ SetStep(t) \/ ReleaseStep(t) \/ AssignStep(t),
         fate = "ok",
         \A n \in pool' : count'[n] = 0 =>
            \/ n \in pool /\ count[n] = 0 /\ ~ Finishing(t, n)
            \/ Finishing(t, n)'
  PROVE  NoLeak'
<1>1. \A u \in Threads, n \in Nodes : u # t /\ Finishing(u, n) => Finishing(u, n)'
  BY OthersStay DEF Finishing
<1>2. \A n \in pool' : n \in Nodes
  BY DEF Control
<1> QED
  BY <1>1, <1>2 DEF NoLeak

(* A step that leaves an entry nobody uses goes on to erase it.            *)
LEMMA NextNoLeak ==
  ASSUME Control, Control', Entries, Entries', NoLeak, NEW t \in Threads,
         Begin(t) \/ SetStep(t) \/ ReleaseStep(t) \/ AssignStep(t)
  PROVE  NoLeak'
<1> DEFINE Left(n) == \/ n \in pool /\ count[n] = 0 /\ ~ Finishing(t, n)
                      \/ Finishing(t, n)'
           o == call[t].dst
<1>1. fate = "ok"
  BY DEF Begin, Set, Clear, Copy, Move, Enter, SetStep, SetLock, SetInsert,
         SetRelease, SetErase, SetStore, ReleaseStep, Release, ReleaseLock,
         ReleaseRecheck, ReleaseRecheckFreed, AssignStep, AssignClear,
         AssignCopy, AssignMove, At
<1> SUFFICES ASSUME fate' = "ok", NEW n \in pool', count'[n] = 0 PROVE Left(n)
  BY <1>1, LeavesNone DEF NoLeak
<1> HIDE DEF Left
<1>2. n \in Nodes /\ t \in Threads
  BY DEF Control
<1>3. CASE Begin(t)
  BY <1>3 DEF Begin, Set, Clear, Copy, Move, Enter, At, Finishing, Left
<1>4. CASE SetLock(t) \/ ReleaseLock(t)
  BY <1>4 DEF SetLock, ReleaseLock, GoTo, At, Finishing, Left, Control
<1>5. CASE SetInsert(t)
  <2>1. CASE n \in pool /\ count[n] = 0
    BY <1>5, <2>1 DEF SetInsert, At, Finishing, Left
  <2>2. CASE ~ (n \in pool /\ count[n] = 0)
    <3>1. n \notin pool /\ found'[t] = n
      BY <1>2, <1>5, <2>2 DEF SetInsert, Insert, Control
    <3>2. Users(n) = {}
      BY <1>1, <1>2, <3>1 DEF Entries, CountsExact
    <3>3. ref[o] # n
      BY <1>5, <3>2, WhoUses DEF SetInsert, At, Users
    <3> QED
      BY <1>5, <3>1, <3>3 DEF SetInsert, GoTo, Finishing, Left, Control
  <2> QED
    BY <2>1, <2>2
<1>6. CASE SetRelease(t)
  BY <1>1, <1>2, <1>6 DEF SetRelease, At, GoTo, Finishing, Left, Control, Entries
<1>7. CASE SetErase(t)
  <2>1. ref[o] \in pool /\ pool' = pool \ {ref[o]} /\ count' = count
    BY <1>1, <1>7, EraseExact DEF SetErase, Entries, Setter, At
  <2> QED
    BY <1>7, <2>1 DEF SetErase, At, GoTo, Finishing, Left, Control
<1>8. CASE SetStore(t)
  BY <1>2, <1>8 DEF SetStore, Acquire, At, Finishing, Left, Control, Entries
<1>9. CASE Release(t)
  BY <1>1, <1>2, <1>9 DEF Release, At, GoTo, Finishing, Left, Control, Entries
<1>10. CASE ReleaseRecheck(t)
  <2>1. CASE count[ref[o]] = 0
    <3>1. pool' = pool \ {ref[o]}
      BY <1>1, <1>10, <2>1, EraseExact DEF ReleaseRecheck
    <3> QED
      BY <1>10, <3>1 DEF ReleaseRecheck, At, Finishing, Left
  <2>2. CASE count[ref[o]] # 0
    BY <1>10, <2>2 DEF ReleaseRecheck, At, Finishing, Left
  <2> QED
    BY <2>1, <2>2
<1>11. CASE ReleaseRecheckFreed(t)
  BY <1>11 DEF ReleaseRecheckFreed, Erase
<1>12. CASE AssignStep(t)
  BY <1>2, <1>12 DEF AssignStep, AssignClear, AssignCopy, AssignMove, Acquire,
                     At, Finishing, Left, Control, Entries
<1> QED
  BY <1>3, <1>4, <1>5, <1>6, <1>7, <1>8, <1>9, <1>10, <1>11, <1>12
     DEF SetStep, ReleaseStep

(* No entry without users is left behind.                                  *)
THEOREM NothingLeaks == Spec => []NoLeak
<1>1. Init => NoLeak
  BY DEF Init, NoLeak
<1>2. /\ Control /\ Control' /\ Entries /\ Entries' /\ NoLeak
      /\ [Next]_vars
      => NoLeak'
  <2>1. ASSUME NoLeak, UNCHANGED vars PROVE NoLeak'
    BY <2>1 DEF vars, NoLeak, Finishing
  <2> QED
    BY <2>1, NextNoLeak DEF Next
<1> QED
  BY <1>1, <1>2, AlwaysControl, AlwaysEntries, PTL DEF Spec

-----------------------------------------------------------------------------
(* Freed memory                                                            *)

(* Without a revival, a thread that took the last use of an entry is the   *)
(* only one to do so, and the entry stays until that thread erases it.     *)
Pending(t) == pc[t] \in {"erase", "relock", "recheck"}

LastUse == fate = "ok" /\ ~ revived =>
    \A t \in Threads : Pending(t) =>
       /\ ref[call[t].dst] \in pool
       /\ count[ref[call[t].dst]] = 0
       /\ \A u \in Threads : u # t /\ Pending(u) => ref[call[u].dst] # ref[call[t].dst]

(* What a step of t must show, the other threads staying where they are.   *)
LEMMA LastUseStep ==
  ASSUME Control, Control', LastUse, NEW t \in Threads,
         Begin(t) \/ SetStep(t) \/ ReleaseStep(t) \/ AssignStep(t),
         fate = "ok", ~ revived,
         \A u \in Threads : u # t /\ Pending(u) =>
            /\ ref[call[u].dst] \in pool'
            /\ count'[ref[call[u].dst]] = 0,
         Pending(t)' => /\ ref'[call'[t].dst] \in pool'
                        /\ count'[ref'[call'[t].dst]] = 0
                        /\ \/ Pending(t) /\ ref'[call'[t].dst] = ref[call[t].dst]
                           \/ \A u \in Threads : u # t /\ Pending(u) =>
                                 ref[call[u].dst] # ref'[call'[t].dst]
  PROVE  LastUse'
<1>1. \A u \in Threads : u # t =>
        /\ Pending(u)' <=> Pending(u)
        /\ Pending(u) => ref'[call'[u].dst] = ref[call[u].dst]
  BY OthersStay DEF Pending
<1> QED
  BY <1>1 DEF LastUse

(* The last use of an entry is given up by one thread, which erases it.    *)
LEMMA NextLastUse ==
  ASSUME Control, Control', Entries, Entries', LastUse, NEW t \in Threads,
         Begin(t) \/ SetStep(t) \/ ReleaseStep(t) \/ AssignStep(t),
         fate = "ok", ~ revived, fate' = "ok", ~ revived'
  PROVE  LastUse'
<1> DEFINE o == call[t].dst
<1> USE DEF Pending
<1>1. \A u \in Threads : Pending(u) => /\ ref[call[u].dst] \in pool
                                       /\ ref[call[u].dst] \in Nodes
                                       /\ count[ref[call[u].dst]] = 0
  BY DEF LastUse, Control
<1>2. \A u \in Threads : u # t /\ Pending(u) /\ Pending(t) =>
                             ref[call[u].dst] # ref[o]
  BY DEF LastUse
<1>3. CASE Begin(t)
  <2>1. \E k : \E l \in {"lock", "release", "assign"} : Enter(t, k, l)
    BY <1>3 DEF Begin, Set, Clear, Copy, Move, ReleaseFirst
  <2> QED
    BY <1>1, <1>3, <2>1, LastUseStep DEF Enter, Control
<1>4. CASE SetLock(t)
  <2>1. UNCHANGED <<pool, count, ref, call>> /\ ~ Pending(t)'
    BY <1>4 DEF SetLock, GoTo, Control
  <2> QED
    BY <1>1, <1>4, <2>1, LastUseStep DEF SetStep
<1>5. CASE ReleaseLock(t)
  <2>1. UNCHANGED <<pool, count, ref, call>> /\ Pending(t)
    BY <1>5 DEF ReleaseLock, At, GoTo
  <2> QED
    BY <1>1, <1>2, <1>5, <2>1, LastUseStep DEF ReleaseStep
<1>6. CASE SetInsert(t)
  <2>1. \A n \in pool : n \in pool' /\ count'[n] = count[n]
    BY <1>6 DEF SetInsert, Insert, Control
  <2>2. ~ Pending(t)'
    BY <1>6 DEF SetInsert, GoTo, Leave, Control
  <2> QED
    BY <1>1, <1>6, <2>1, <2>2, LastUseStep DEF SetStep
<1>7. CASE SetRelease(t) \/ Release(t)
  <2>1. /\ ref[o] \in pool /\ count[ref[o]] >= 1
        /\ count' = [count EXCEPT ![ref[o]] = @ - 1]
        /\ UNCHANGED <<pool, ref, call>>
    BY <1>7, UsedExists, WhoUses DEF SetRelease, Release, At, GoTo, Control
  <2>2. \A u \in Threads : Pending(u) => ref[call[u].dst] # ref[o]
    BY <1>1, <2>1
  <2>3. Pending(t)' => count'[ref[o]] = 0
    BY <1>7, <2>1 DEF SetRelease, Release, GoTo, Control
  <2> QED
    BY <1>1, <1>7, <2>1, <2>2, <2>3, LastUseStep DEF SetStep, ReleaseStep, Control
<1>8. CASE SetErase(t)
  <2>1. pool' = pool \ {ref[o]} /\ count' = count /\ Pending(t) /\ ~ Pending(t)'
    BY <1>1, <1>8, EraseExact DEF SetErase, At, GoTo, Control
  <2> QED
    BY <1>1, <1>2, <1>8, <2>1, LastUseStep DEF SetStep
<1>9. CASE SetStore(t)
  <2>1. \A u \in Threads : u # t /\ Pending(u) => ref[call[u].dst] # found[t]
    <3> SUFFICES ASSUME NEW u \in Threads, u # t, Pending(u), ref[call[u].dst] = found[t]
                 PROVE  FALSE
      OBVIOUS
    <3>1. count[found[t]] = 0 /\ found[t] # EmptyRef
      BY <1>1
    <3>2. pc[u] \in {"relock", "recheck"}
      BY <1>9 DEF SetStore, At, Control
    <3>3. revived'
      BY <1>9, <3>1, <3>2 DEF SetStore
    <3> QED
      BY <3>3
  <2>2. ~ Pending(t)' /\ pool' = pool
    BY <1>9 DEF SetStore, Leave, Control
  <2>3. \A n \in Nodes : n # found[t] => count'[n] = count[n]
    BY <1>9 DEF SetStore, Acquire, Control
  <2> QED
    BY <1>1, <1>9, <2>1, <2>2, <2>3, LastUseStep DEF SetStep
<1>10. CASE ReleaseRecheck(t)
  <2>1. pool' = pool \ {ref[o]} /\ count' = count /\ Pending(t) /\ ~ Pending(t)'
    BY <1>1, <1>10, EraseExact DEF ReleaseRecheck, At, GoTo, Control
  <2> QED
    BY <1>1, <1>2, <1>10, <2>1, LastUseStep DEF ReleaseStep
<1>11. CASE ReleaseRecheckFreed(t)
  BY <1>11 DEF ReleaseRecheckFreed, Erase
<1>12. CASE AssignStep(t)
  <2>1. ~ Pending(t)' /\ pool' = pool
    BY <1>12 DEF AssignStep, AssignClear, AssignCopy, AssignMove, Leave, Control
  <2>2. \A n \in Nodes : count[n] = 0 => count'[n] = 0
    <3>1. CASE AssignCopy(t)
      <4>1. ref[call[t].src] # EmptyRef => count[ref[call[t].src]] >= 1
        BY <3>1, UsedExists, WhoUses DEF AssignCopy, At, Control
      <4> QED
        BY <3>1, <4>1 DEF AssignCopy, Acquire, Control
    <3>2. CASE AssignClear(t) \/ AssignMove(t)
      BY <3>2 DEF AssignClear, AssignMove
    <3> QED
      BY <1>12, <3>1, <3>2 DEF AssignStep
  <2> QED
    BY <1>1, <1>12, <2>1, <2>2, LastUseStep
<1> QED
  BY <1>3, <1>4, <1>5, <1>6, <1>7, <1>8, <1>9, <1>10, <1>11, <1>12
     DEF SetStep, ReleaseStep

(* Hence an entry is only freed too early after one was revived.           *)
LEMMA StepFreed ==
  ASSUME Control, Control', Entries, Entries', LastUse, FreedOnlyAfterRevival,
         NEW t \in Threads,
         Begin(t) \/ SetStep(t) \/ ReleaseStep(t) \/ AssignStep(t)
  PROVE  LastUse' /\ FreedOnlyAfterRevival'
<1>1. fate = "ok"
  BY DEF Begin, Set, Clear, Copy, Move, Enter, SetStep, SetLock, SetInsert,
         SetRelease, SetErase, SetStore, ReleaseStep, Release, ReleaseLock,
         ReleaseRecheck, ReleaseRecheckFreed, AssignStep, AssignClear,
         AssignCopy, AssignMove, At
<1>2. revived => revived'
  BY DEF Begin, Set, Clear, Copy, Move, Enter, SetStep, SetLock, SetInsert,
         SetRelease, SetErase, SetStore, ReleaseStep, Release, ReleaseLock,
         ReleaseRecheck, ReleaseRecheckFreed, AssignStep, AssignClear,
         AssignCopy, AssignMove
<1>3. CASE fate' = "ok"
  <2>1. CASE revived'
    BY <1>3, <2>1 DEF LastUse, FreedOnlyAfterRevival
  <2>2. CASE ~ revived'
    BY <1>1, <1>2, <1>3, <2>2, NextLastUse DEF FreedOnlyAfterRevival
  <2> QED
    BY <2>1, <2>2
<1>4. CASE fate' # "ok"
  <2>1. CASE ReleaseRecheckFreed(t)
    <3>1. revived
      BY <1>1, <2>1 DEF ReleaseRecheckFreed, At, LastUse, Pending, Control
    <3> QED
      BY <1>2, <1>4, <3>1 DEF LastUse, FreedOnlyAfterRevival
  <2>2. CASE SetErase(t)
    BY <1>1, <1>4, <2>2, EraseExact DEF SetErase, At, Entries, Setter
  <2>3. CASE ReleaseRecheck(t)
    BY <1>1, <1>4, <2>3, EraseExact DEF ReleaseRecheck
  <2>4. CASE ~ (ReleaseRecheckFreed(t) \/ SetErase(t) \/ ReleaseRecheck(t))
    BY <1>1, <1>4, <2>4
       DEF Begin, Set, Clear, Copy, Move, Enter, SetStep, SetLock, SetInsert,
           SetRelease, SetStore, ReleaseStep, Release, ReleaseLock,
           AssignStep, AssignClear, AssignCopy, AssignMove
  <2> QED
    BY <2>1, <2>2, <2>3, <2>4
<1> QED
  BY <1>3, <1>4

(* The cache uses freed memory, or halts, only where an entry that nobody  *)
(* used was used again before its releaser looked at it a second time.     *)
THEOREM FreedNeedsRevival == Spec => []FreedOnlyAfterRevival
<1>1. Init => LastUse /\ FreedOnlyAfterRevival
  BY DEF Init, LastUse, Pending, FreedOnlyAfterRevival
<1>2. /\ Control /\ Control' /\ Entries /\ Entries'
      /\ LastUse /\ FreedOnlyAfterRevival
      /\ [Next]_vars
      => (LastUse /\ FreedOnlyAfterRevival)'
  <2>1. ASSUME LastUse, FreedOnlyAfterRevival, UNCHANGED vars
        PROVE  (LastUse /\ FreedOnlyAfterRevival)'
    BY <2>1 DEF vars, LastUse, Pending, FreedOnlyAfterRevival
  <2> QED
    BY <2>1, StepFreed DEF Next
<1> QED
  BY <1>1, <1>2, AlwaysControl, AlwaysEntries, PTL DEF Spec

-----------------------------------------------------------------------------
(* Refinement of StringValues                                              *)

(* The entry of an object nobody writes stays and keeps its string.        *)
LEMMA ValueKept ==
  ASSUME Control, Control', Entries, NEW t \in Threads,
         Begin(t) \/ SetStep(t) \/ ReleaseStep(t) \/ AssignStep(t),
         fate = "ok",
         NEW x \in Objects, ~ Written(x), ref'[x] = ref[x]
  PROVE  Value(x)' = Value(x)
<1>1. ~ Dropped(x)
  BY DEF Written, Dropped
<1>2. ref[x] # EmptyRef => ref[x] \in pool
  BY <1>1, UsedExists
<1>3. \A n \in pool : keyOf'[n] = keyOf[n]
  <2>1. CASE SetInsert(t)
    BY <2>1 DEF SetInsert, Insert, Control
  <2>2. CASE ~ SetInsert(t)
    BY <2>2 DEF Begin, Set, Clear, Copy, Move, Enter, SetStep, SetLock,
                SetRelease, SetErase, SetStore, ReleaseStep, Release,
                ReleaseLock, ReleaseRecheck, ReleaseRecheckFreed, AssignStep,
                AssignClear, AssignCopy, AssignMove
  <2> QED
    BY <2>1, <2>2
<1> QED
  BY <1>2, <1>3 DEF Value

(* The beginning of a call is a Begin.                                     *)
LEMMA BeginRefines ==
  ASSUME Control, Control', Entries, NEW t \in Threads, Begin(t)
  PROVE  Strings!Next
<1>1. PICK k \in Calls, l \in {"lock", "release", "assign"} : Enter(t, k, l)
  <2>1. CASE Set(t)
    BY <2>1 DEF Set
  <2>2. CASE Clear(t)
    BY <2>2 DEF Clear, ReleaseFirst
  <2>3. CASE Copy(t)
    BY <2>3 DEF Copy, ReleaseFirst
  <2>4. CASE Move(t)
    BY <2>4 DEF Move, ReleaseFirst
  <2> QED
    BY <2>1, <2>2, <2>3, <2>4 DEF Begin
<1>2. /\ fate = "ok" /\ call[t] = None /\ ~ Running(t) /\ k # None
      /\ UNCHANGED <<ref, keyOf>>
      /\ call' = [call EXCEPT ![t] = k]
  BY <1>1 DEF Enter, At, Control
<1>3. \A x \in Objects : Written(x)' <=> Written(x) \/ x = k.dst
  BY <1>1, <1>2 DEF Enter, Written, Control
<1>4. \A x \in Objects : Value(x)' = Value(x)
  BY <1>2 DEF Value
<1>5. Contents' = [Contents EXCEPT ![k.dst] = None]
  BY <1>3, <1>4 DEF Contents
<1> QED
  BY <1>2, <1>5 DEF Strings!Next, Strings!Begin, Contents

(* The step that leaves a call is an End, if it gives the values the call  *)
(* is for.                                                                 *)
LEMMA LeaveRefines ==
  ASSUME Control, Control', Entries, NEW t \in Threads,
         SetStep(t) \/ AssignStep(t), Running(t), fate = "ok", Leave(t),
         NEW k \in Calls, call[t] = k,
         \A x \in Objects : x # k.dst /\ ~ (k.op = "move" /\ x = k.src)
                             => ref'[x] = ref[x],
         k.op = "set" => Value(k.dst)' = k.key,
         k.op = "clear" => Value(k.dst)' = EmptyKey,
         k.op \in {"copy", "move"} => Value(k.dst)' = Value(k.src),
         k.op = "move" => Value(k.src)' = EmptyKey
  PROVE  Strings!Next
<1>1. k # None
  BY DEF Control
<1>2. \A x \in Objects : Written(x)' <=> Written(x) /\ x # k.dst
  BY <1>1 DEF Leave, Written, Control, Separate, Writes, Uses
<1>3. Written(k.dst)
  BY DEF Written
<1>4. k.op \in {"copy", "move"} => ~ Written(k.src)
  BY <1>1 DEF Written, Control, Separate, Writes, Uses
<1>5. \A x \in Objects :
        x # k.dst /\ ~ Written(x) /\ ~ (k.op = "move" /\ x = k.src) => Value(x)' = Value(x)
  BY ValueKept
<1>6. \A x \in Objects :
        x # k.dst /\ ~ (k.op = "move" /\ x = k.src) => Contents'[x] = Contents[x]
  BY <1>2, <1>5 DEF Contents
<1>7. Contents'[k.dst] = Value(k.dst)'
  BY <1>1, <1>2 DEF Contents, Leave
<1>8. k.op \in {"copy", "move"} => Contents[k.src] = Value(k.src)
  BY <1>1, <1>4 DEF Contents
<1>9. k.op = "move" => Contents'[k.src] = EmptyKey /\ k.src # k.dst
  BY <1>1, <1>2, <1>4 DEF Contents, Leave, Control
<1>10. Contents' = CASE k.op = "set"   -> [Contents EXCEPT ![k.dst] = k.key]
                [] k.op = "clear" -> [Contents EXCEPT ![k.dst] = EmptyKey]
                [] k.op = "copy"  -> [Contents EXCEPT ![k.dst] = Contents[k.src]]
                [] k.op = "move"  -> [Contents EXCEPT ![k.dst] = Contents[k.src], ![k.src] = EmptyKey]
  <2>1. Contents \in [Objects -> {Contents[x] : x \in Objects}] /\ Contents' = [x \in Objects |-> Contents'[x]]
    BY DEF Contents
  <2>2. CASE k.op = "set"
    BY <1>1, <1>6, <1>7, <2>1, <2>2
  <2>3. CASE k.op = "clear"
    BY <1>1, <1>6, <1>7, <2>1, <2>3
  <2>4. CASE k.op = "copy"
    BY <1>1, <1>6, <1>7, <1>8, <2>1, <2>4
  <2>5. CASE k.op = "move"
    BY <1>1, <1>6, <1>7, <1>8, <1>9, <2>1, <2>5
  <2> QED
    BY <1>1, <2>2, <2>3, <2>4, <2>5
<1> QED
  BY <1>1, <1>10 DEF Strings!Next, Strings!End, Strings!Effect, Contents, Leave

(* A step of set is a step of the plain strings or none,                   *)
LEMMA SetRefines ==
  ASSUME Control, Control', Entries, Entries', NEW t \in Threads, SetStep(t)
  PROVE  Strings!Next \/ UNCHANGED <<Contents, call, fate>>
<1> PICK k : call[t] = k
  OBVIOUS
<1>1. CASE \/ SetLock(t) \/ SetRelease(t) \/ SetErase(t)
           \/ SetInsert(t) /\ found'[t] # ref[k.dst]
  <2>1. UNCHANGED <<ref, call>> /\ fate = "ok"
    BY <1>1 DEF SetLock, SetRelease, SetErase, SetInsert, GoTo, At
  <2>2. fate' = "ok"
    BY <1>1, EraseExact DEF SetLock, SetRelease, SetErase, SetInsert, At,
                            Entries, Setter
  <2>3. \A x \in Objects : Written(x)' <=> Written(x)
    BY <1>1, <2>1 DEF SetLock, SetRelease, SetErase, SetInsert, GoTo, At,
                      Control, Written
  <2>4. \A x \in Objects : ~ Written(x) => Value(x)' = Value(x)
    BY <2>1, ValueKept
  <2>5. Contents' = Contents
    BY <2>3, <2>4 DEF Contents
  <2> QED
    BY <2>1, <2>2, <2>5
<1>2. CASE SetInsert(t) /\ found'[t] = ref[k.dst]
  <2>1. /\ fate = "ok" /\ Running(t) /\ Leave(t) /\ k \in Calls /\ k.op = "set"
        /\ UNCHANGED ref
    BY <1>2 DEF SetInsert, At, Control
  <2>2. Value(k.dst)' = k.key
    BY <1>2, <2>1 DEF SetInsert, Insert, Value, Control
  <2> QED
    BY <2>1, <2>2, LeaveRefines
<1>3. CASE SetStore(t)
  <2>1. /\ fate = "ok" /\ Running(t) /\ Leave(t) /\ k \in Calls /\ k.op = "set"
        /\ ref' = [ref EXCEPT ![k.dst] = found[t]] /\ UNCHANGED keyOf
    BY <1>3 DEF SetStore, Acquire, At, Control
  <2>2. IF found[t] = EmptyRef THEN k.key = EmptyKey ELSE keyOf[found[t]] = k.key
    BY <1>3 DEF SetStore, At, Entries, Setter
  <2>3. Value(k.dst)' = k.key
    BY <2>1, <2>2 DEF Value, Control
  <2>4. \A x \in Objects : x # k.dst => ref'[x] = ref[x]
    BY <2>1 DEF Control
  <2> QED
    BY <2>1, <2>3, <2>4, LeaveRefines
<1> QED
  <2>1. \/ SetLock(t) \/ SetInsert(t) \/ SetRelease(t) \/ SetErase(t)
        \/ SetStore(t)
    BY DEF SetStep
  <2> QED
    BY <1>1, <1>2, <1>3, <2>1

(* and so is one of release,                                               *)
LEMMA ReleaseRefines ==
  ASSUME Control, Control', Entries, Entries', NEW t \in Threads, ReleaseStep(t)
  PROVE  Strings!Next \/ UNCHANGED <<Contents, call, fate>>
<1>1. CASE fate' # "ok"
  BY <1>1 DEF Strings!Next, Broken
<1>2. CASE fate' = "ok"
  <2>1. UNCHANGED <<ref, call>> /\ fate = "ok"
    BY DEF ReleaseStep, Release, ReleaseLock, ReleaseRecheck,
           ReleaseRecheckFreed, GoTo, At
  <2>2. \A x \in Objects : Written(x)' <=> Written(x)
    BY <2>1 DEF ReleaseStep, Release, ReleaseLock, ReleaseRecheck,
                ReleaseRecheckFreed, GoTo, At, Control, Written
  <2>3. \A x \in Objects : ~ Written(x) => Value(x)' = Value(x)
    BY <2>1, ValueKept
  <2>4. Contents' = Contents
    BY <2>2, <2>3 DEF Contents
  <2> QED
    BY <1>2, <2>1, <2>4
<1> QED
  BY <1>1, <1>2

(* and one of an assignment.                                               *)
LEMMA AssignRefines ==
  ASSUME Control, Control', Entries, Entries', NEW t \in Threads, AssignStep(t)
  PROVE  Strings!Next
<1> PICK k : call[t] = k
  OBVIOUS
<1>1. /\ fate = "ok" /\ Running(t) /\ Leave(t) /\ k \in Calls
      /\ UNCHANGED keyOf
      /\ k.op \in {"copy", "move"} => k.dst # k.src
  BY DEF AssignStep, AssignClear, AssignCopy, AssignMove, At, Control
<1>2. CASE AssignClear(t)
  <2>1. ref' = [ref EXCEPT ![k.dst] = EmptyRef] /\ k.op = "clear"
    BY <1>2 DEF AssignClear
  <2>2. Value(k.dst)' = EmptyKey /\ \A x \in Objects : x # k.dst => ref'[x] = ref[x]
    BY <1>1, <2>1 DEF Value, Control
  <2> QED
    BY <1>1, <2>1, <2>2, LeaveRefines
<1>3. CASE AssignCopy(t)
  <2>1. ref' = [ref EXCEPT ![k.dst] = ref[k.src]] /\ k.op = "copy"
    BY <1>3 DEF AssignCopy, Acquire
  <2>2. /\ Value(k.dst)' = Value(k.src)
        /\ \A x \in Objects : x # k.dst => ref'[x] = ref[x]
    BY <1>1, <2>1 DEF Value, Control
  <2>3. AssignStep(t) /\ k.op # "set" /\ k.op # "clear" /\ k.op # "move"
    BY <2>1
  <2> QED
    BY <1>1, <2>2, <2>3, LeaveRefines
<1>4. CASE AssignMove(t)
  <2>1. /\ ref' = [ref EXCEPT ![k.dst] = ref[k.src], ![k.src] = EmptyRef]
        /\ k.op = "move"
    BY <1>4 DEF AssignMove
  <2>2. /\ Value(k.dst)' = Value(k.src) /\ Value(k.src)' = EmptyKey
        /\ \A x \in Objects : x # k.dst /\ ~ (k.op = "move" /\ x = k.src)
                            => ref'[x] = ref[x]
    BY <1>1, <2>1 DEF Value, Control
  <2>3. AssignStep(t) /\ k.op # "set" /\ k.op # "clear"
    BY <2>1
  <2> QED
    BY <1>1, <2>2, <2>3, LeaveRefines
<1> QED
  BY <1>2, <1>3, <1>4 DEF AssignStep

(* The cache implements StringValues: until freed memory is used, every    *)
(* object has the value it was last given.                                 *)
THEOREM ImplementsStrings == Spec => StringsSpec
<1>1. Init => Strings!Init
  <2> SUFFICES ASSUME Init PROVE Strings!Init
    OBVIOUS
  <2>1. \A x \in Objects : ~ Written(x) /\ Value(x) = EmptyKey
    BY DEF Init, Written, Value
  <2> QED
    BY <2>1 DEF Init, Strings!Init, Contents, Broken
<1>2. /\ Control /\ Control' /\ Entries /\ Entries' /\ [Next]_vars
      => [Strings!Next]_<<Contents, call, Broken>>
  <2>1. ASSUME UNCHANGED vars PROVE UNCHANGED <<Contents, call, fate>>
    BY <2>1 DEF vars, Contents, Written, Value
  <2>2. UNCHANGED <<Contents, call, fate>> => UNCHANGED <<Contents, call, Broken>>
    BY DEF Broken
  <2> QED
    BY <2>1, <2>2, BeginRefines, SetRefines, ReleaseRefines, AssignRefines DEF Next
<1> QED
  BY <1>1, <1>2, AlwaysControl, AlwaysEntries, PTL
     DEF Spec, StringsSpec, Strings!Spec

=============================================================================
