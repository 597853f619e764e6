----------------------------- MODULE StringCache -----------------------------
(***************************************************************************)
(* StringCache.h/.cpp: string_cache::data_pool, a hash set of strings up   *)
(* to case, and stl::fixed_string, a pointer to an entry of the set that   *)
(* takes part in the entry's reference count. The set is guarded by a spin *)
(* lock, the counts are atomics that are changed without it.               *)
(*                                                                         *)
(* The entry of the empty string is never counted and never released:      *)
(* EmptyRef. Any other entry is a node of the hash set; its address may be *)
(* allocated again once the entry is erased. A constructor is the          *)
(* assignment to an object that is empty, the destructor is clear().       *)
(*                                                                         *)
(* The users keep the usual rule: no call may touch an object that another *)
(* call is writing, though all objects share the entries.                  *)
(***************************************************************************)
EXTENDS Naturals, FiniteSets

CONSTANTS Threads, Objects,
          Keys,       \* the non-empty strings, up to case
          EmptyKey,   \* the empty string
          Nodes,      \* the addresses of entries
          EmptyRef,   \* m_icase_empty
          None        \* no thread, no call

VARIABLES pool,       \* the nodes in data_pool::m_data
          keyOf,      \* keyOf[n]: the string last constructed at n
          count,      \* count[n]: its m_refcount
          lock,       \* data_pool::m_lock: its holder, or None
          ref,        \* ref[o]: m_ref
          call,       \* call[t]: what t is executing
          pc,         \* pc[t]: where it is
          found,      \* found[t]: the entry set_impl looked up
          fate,       \* "ok"; "freed" once freed memory was used; "halted"
          revived     \* history: an entry without users was used again

vars == <<pool, keyOf, count, lock, ref, call, pc, found, fate, revived>>

Refs == Nodes \cup {EmptyRef}

Calls == [op : {"set", "clear", "copy", "move"}, dst : Objects, src : Objects,
          key : Keys \cup {EmptyKey}]

ASSUME StringCacheAssumption ==
    /\ IsFiniteSet(Objects)
    /\ EmptyKey \notin Keys
    /\ EmptyRef \notin Nodes
    /\ None \notin Threads \cup Calls

Running(t) == pc[t] # "idle"

(* The call of t writes o; the call of t uses o.                           *)
Writes(t, o) == /\ Running(t)
                /\ \/ o = call[t].dst
                   \/ call[t].op = "move" /\ o = call[t].src

Uses(t, o) == /\ Running(t)
              /\ \/ o = call[t].dst
                 \/ call[t].op \in {"copy", "move"} /\ o = call[t].src

(* The users' rule for a new call k.                                       *)
Allowed(k) == \A t \in Threads :
    /\ ~ Uses(t, k.dst)
    /\ k.op = "copy" => ~ Writes(t, k.src)
    /\ k.op = "move" => ~ Uses(t, k.src)

Init == /\ pool = {}
        /\ keyOf = [n \in Nodes |-> EmptyKey]
        /\ count = [n \in Nodes |-> 0]
        /\ lock = None
        /\ ref = [o \in Objects |-> EmptyRef]
        /\ call = [t \in Threads |-> None]
        /\ pc = [t \in Threads |-> "idle"]
        /\ found = [t \in Threads |-> EmptyRef]
        /\ fate = "ok"
        /\ revived = FALSE

-----------------------------------------------------------------------------
(* t is at l, in a program that has not gone wrong yet.                    *)
At(t, l) == fate = "ok" /\ pc[t] = l

Enter(t, k, l) == /\ At(t, "idle")
                  /\ Allowed(k)
                  /\ call' = [call EXCEPT ![t] = k]
                  /\ pc' = [pc EXCEPT ![t] = l]
                  /\ UNCHANGED <<pool, keyOf, count, lock, ref, found, fate, revived>>

Leave(t) == /\ call' = [call EXCEPT ![t] = None]
            /\ pc' = [pc EXCEPT ![t] = "idle"]

GoTo(t, l) == /\ pc' = [pc EXCEPT ![t] = l]
              /\ UNCHANGED call

(* try_release() does nothing to the empty entry.                          *)
ReleaseFirst(o) == IF ref[o] = EmptyRef THEN "assign" ELSE "release"

(* set(), set_impl(), the assignments from strings, and load().             *)
Set(t) == \E o \in Objects, s \in Keys \cup {EmptyKey} :
    Enter(t, [op |-> "set", dst |-> o, src |-> o, key |-> s], "lock")

(* clear() and the destructor.                                             *)
Clear(t) == \E o \in Objects :
    Enter(t, [op |-> "clear", dst |-> o, src |-> o, key |-> EmptyKey], ReleaseFirst(o))

(* operator=(const fixed_string&); an assignment to itself does nothing.   *)
Copy(t) == \E o, s \in Objects :
    /\ o # s
    /\ Enter(t, [op |-> "copy", dst |-> o, src |-> s, key |-> EmptyKey], ReleaseFirst(o))

Move(t) == \E o, s \in Objects :
    /\ o # s
    /\ Enter(t, [op |-> "move", dst |-> o, src |-> s, key |-> EmptyKey], ReleaseFirst(o))

-----------------------------------------------------------------------------
(* The pool                                                                *)

(* The entry equal to the string at n, wherever it is.                     *)
EqualTo(n) == {m \in pool : keyOf[m] = keyOf[n]}

(* data_pool::release: erases by value, and halts if nothing is erased.    *)
Erase(n) == IF EqualTo(n) # {}
              THEN pool' = pool \ EqualTo(n) /\ UNCHANGED fate
              ELSE fate' = "halted" /\ UNCHANGED pool

(* A variant: an entry without users is taken for erased already.          *)
InsertBesideUnused(t, s) ==
    \/ /\ s = EmptyKey
       /\ found' = [found EXCEPT ![t] = EmptyRef]
       /\ UNCHANGED <<pool, keyOf, count>>
    \/ \E n \in pool : /\ keyOf[n] = s
                       /\ count[n] > 0
                       /\ found' = [found EXCEPT ![t] = n]
                       /\ UNCHANGED <<pool, keyOf, count>>
    \/ /\ s # EmptyKey
       /\ \A n \in pool : keyOf[n] = s => count[n] = 0
       /\ \E n \in Nodes \ pool : /\ pool' = pool \cup {n}
                                  /\ keyOf' = [keyOf EXCEPT ![n] = s]
                                  /\ count' = [count EXCEPT ![n] = 0]
                                  /\ found' = [found EXCEPT ![t] = n]

(* data_pool::insert: t finds the entry of string s or adds one.           *)
Insert(t, s) ==
    \/ /\ s = EmptyKey
       /\ found' = [found EXCEPT ![t] = EmptyRef]
       /\ UNCHANGED <<pool, keyOf, count>>
    \/ \E n \in pool : /\ keyOf[n] = s
                       /\ found' = [found EXCEPT ![t] = n]
                       /\ UNCHANGED <<pool, keyOf, count>>
    \/ /\ s # EmptyKey
       /\ \A n \in pool : keyOf[n] # s
       /\ \E n \in Nodes \ pool : /\ pool' = pool \cup {n}
                                  /\ keyOf' = [keyOf EXCEPT ![n] = s]
                                  /\ count' = [count EXCEPT ![n] = 0]
                                  /\ found' = [found EXCEPT ![t] = n]

(* m_ref = r; try_acquire(): o now refers to r, which is counted.          *)
Acquire(o, r) == /\ ref' = [ref EXCEPT ![o] = r]
                 /\ count' = IF r = EmptyRef THEN count
                                             ELSE [count EXCEPT ![r] = @ + 1]

-----------------------------------------------------------------------------
(* set_impl                                                                *)

SetLock(t) == /\ At(t, "lock")
              /\ lock = None
              /\ lock' = t
              /\ GoTo(t, "insert")
              /\ UNCHANGED <<pool, keyOf, count, ref, found, fate, revived>>

(* The lookup; assign_ref<false> does nothing if the entry is the object's *)
(* own, and releases nothing if the object is empty.                       *)
SetInsert(t) ==
    LET o == call[t].dst
    IN  /\ At(t, "insert")
        /\ Insert(t, call[t].key)
        /\ IF found'[t] = ref[o]
             THEN Leave(t) /\ lock' = None
             ELSE /\ GoTo(t, IF ref[o] = EmptyRef THEN "store" ELSE "releaseLocked")
                  /\ UNCHANGED lock
        /\ UNCHANGED <<ref, fate, revived>>

(* try_release<false>: the old entry loses a user; the last one erases it. *)
SetRelease(t) ==
    LET n == ref[call[t].dst]
    IN  /\ At(t, "releaseLocked")
        /\ count' = [count EXCEPT ![n] = @ - 1]
        /\ GoTo(t, IF count[n] = 1 THEN "erase" ELSE "store")
        /\ UNCHANGED <<pool, keyOf, lock, ref, found, fate, revived>>

SetErase(t) == /\ At(t, "erase")
               /\ Erase(ref[call[t].dst])
               /\ GoTo(t, "store")
               /\ UNCHANGED <<keyOf, count, lock, ref, found, revived>>

(* A variant: the new entry is stored and not counted.                     *)
SetStoreUncounted(t) == /\ At(t, "store")
                        /\ ref' = [ref EXCEPT ![call[t].dst] = found[t]]
                        /\ lock' = None
                        /\ Leave(t)
                        /\ UNCHANGED <<pool, keyOf, count, found, fate, revived>>

SetStore(t) == /\ At(t, "store")
               /\ Acquire(call[t].dst, found[t])
               /\ lock' = None
               /\ Leave(t)
               /\ revived' = (revived \/ /\ found[t] # EmptyRef
                                         /\ count[found[t]] = 0
                                         /\ \E u \in Threads \ {t} :
                                              /\ pc[u] \in {"relock", "recheck"}
                                              /\ ref[call[u].dst] = found[t])
               /\ UNCHANGED <<pool, keyOf, found, fate>>

-----------------------------------------------------------------------------
(* try_release<true>, and what clear, copy and move do after it            *)

(* A variant: every release that leaves at most one user wants the erasure.*)
ReleaseEarly(t) ==
    LET n == ref[call[t].dst]
    IN  /\ At(t, "release")
        /\ count' = [count EXCEPT ![n] = @ - 1]
        /\ GoTo(t, IF count[n] <= 2 THEN "relock" ELSE "assign")
        /\ UNCHANGED <<pool, keyOf, lock, ref, found, fate, revived>>

(* A variant: the new value of the count is compared with 1.               *)
ReleaseNewValue(t) ==
    LET n == ref[call[t].dst]
    IN  /\ At(t, "release")
        /\ count' = [count EXCEPT ![n] = @ - 1]
        /\ GoTo(t, IF count'[n] = 1 THEN "relock" ELSE "assign")
        /\ UNCHANGED <<pool, keyOf, lock, ref, found, fate, revived>>

Release(t) ==
    LET n == ref[call[t].dst]
    IN  /\ At(t, "release")
        /\ count' = [count EXCEPT ![n] = @ - 1]
        /\ GoTo(t, IF count[n] = 1 THEN "relock" ELSE "assign")
        /\ UNCHANGED <<pool, keyOf, lock, ref, found, fate, revived>>

ReleaseLock(t) == /\ At(t, "relock")
                  /\ lock = None
                  /\ lock' = t
                  /\ GoTo(t, "recheck")
                  /\ UNCHANGED <<pool, keyOf, count, ref, found, fate, revived>>

(* A variant: the count is not looked at again under the lock.             *)
ReleaseRecheckNot(t) ==
    LET n == ref[call[t].dst]
    IN  /\ At(t, "recheck")
        /\ n \in pool
        /\ Erase(n)
        /\ lock' = None
        /\ GoTo(t, "assign")
        /\ UNCHANGED <<keyOf, count, ref, found, revived>>

(* Under the lock the count is read again.                                 *)
ReleaseRecheck(t) ==
    LET n == ref[call[t].dst]
    IN  /\ At(t, "recheck")
        /\ n \in pool
        /\ IF count[n] = 0 THEN Erase(n) ELSE UNCHANGED <<pool, fate>>
        /\ lock' = None
        /\ GoTo(t, "assign")
        /\ UNCHANGED <<keyOf, count, ref, found, revived>>

(* The same when the entry was erased in the meantime: the count is read   *)
(* from freed memory. Read as 0, the entry equal to what is left of the    *)
(* freed one is erased, whoever uses it, or the program halts. What        *)
(* happens after that is not modelled.                                     *)
ReleaseRecheckFreed(t) ==
    LET n == ref[call[t].dst]
    IN  /\ At(t, "recheck")
        /\ n \notin pool
        /\ \/ fate' = "freed" /\ UNCHANGED pool
           \/ /\ EqualTo(n) # {}
              /\ pool' = pool \ EqualTo(n)
              /\ fate' = "freed"
           \/ /\ EqualTo(n) = {}
              /\ Erase(n)
        /\ lock' = None
        /\ GoTo(t, "assign")
        /\ UNCHANGED <<keyOf, count, ref, found, revived>>

AssignClear(t) == /\ At(t, "assign")
                  /\ call[t].op = "clear"
                  /\ ref' = [ref EXCEPT ![call[t].dst] = EmptyRef]
                  /\ Leave(t)
                  /\ UNCHANGED <<pool, keyOf, count, lock, found, fate, revived>>

AssignCopy(t) == /\ At(t, "assign")
                 /\ call[t].op = "copy"
                 /\ Acquire(call[t].dst, ref[call[t].src])
                 /\ Leave(t)
                 /\ UNCHANGED <<pool, keyOf, lock, found, fate, revived>>

(* A variant: the moved-from object keeps its pointer.                     *)
AssignMoveKeep(t) == /\ At(t, "assign")
                     /\ call[t].op = "move"
                     /\ ref' = [ref EXCEPT ![call[t].dst] = ref[call[t].src]]
                     /\ Leave(t)
                     /\ UNCHANGED <<pool, keyOf, count, lock, found, fate, revived>>

AssignMove(t) == /\ At(t, "assign")
                 /\ call[t].op = "move"
                 /\ ref' = [ref EXCEPT ![call[t].dst] = ref[call[t].src],
                                       ![call[t].src] = EmptyRef]
                 /\ Leave(t)
                 /\ UNCHANGED <<pool, keyOf, count, lock, found, fate, revived>>

-----------------------------------------------------------------------------
Begin(t) == Set(t) \/ Clear(t) \/ Copy(t) \/ Move(t)

SetStep(t) == SetLock(t) \/ SetInsert(t) \/ SetRelease(t) \/ SetErase(t) \/ SetStore(t)

ReleaseStep(t) == \/ Release(t) \/ ReleaseLock(t)
                  \/ ReleaseRecheck(t) \/ ReleaseRecheckFreed(t)

AssignStep(t) == AssignClear(t) \/ AssignCopy(t) \/ AssignMove(t)

Next == \E t \in Threads : Begin(t) \/ SetStep(t) \/ ReleaseStep(t) \/ AssignStep(t)

Spec == Init /\ [][Next]_vars

-----------------------------------------------------------------------------
(* Where a thread has given up the old entry of the object it writes.      *)
AfterRelease == {"erase", "store", "relock", "recheck", "assign"}

Locations == {"idle", "lock", "insert", "releaseLocked", "release"} \cup AfterRelease

(* Types; counts do not wrap below 0.                                      *)
TypeOK == /\ pool \subseteq Nodes
          /\ keyOf \in [Nodes -> Keys \cup {EmptyKey}]
          /\ count \in [Nodes -> Nat]
          /\ lock \in Threads \cup {None}
          /\ ref \in [Objects -> Refs]
          /\ call \in [Threads -> Calls \cup {None}]
          /\ pc \in [Threads -> Locations]
          /\ \A t \in Threads : Running(t) <=> call[t] # None
          /\ found \in [Threads -> Refs]
          /\ fate \in {"ok", "freed", "halted"}
          /\ revived \in BOOLEAN

(* The object's pointer no longer counts as a use of the entry.            *)
Dropped(o) == \E t \in Threads : /\ Running(t)
                                 /\ call[t].dst = o
                                 /\ pc[t] \in AfterRelease

Users(n) == {o \in Objects : ref[o] = n /\ ~ Dropped(o)}

(* An entry that is in use exists, and its count is the number of objects  *)
(* that use it, whatever the interleaving of acquisitions and releases     *)
(* outside the lock (StringCache.h:444-470, StringCache.cpp:50-72).        *)
CountsExact == fate = "ok" =>
    /\ \A n \in pool : count[n] = Cardinality(Users(n))
    /\ \A n \in Nodes \ pool : Users(n) = {}

(* Two entries never hold the same string, so objects with equal values    *)
(* have equal pointers, which is what operator== compares                  *)
(* (StringCache.h:403-408).                                                *)
Canonical == fate = "ok" =>
    \A m, n \in pool : keyOf[m] = keyOf[n] => m = n

(* t has yet to decide on the unused entry n or to use it.                 *)
Finishing(t, n) ==
    \/ pc[t] \in {"erase", "relock", "recheck"} /\ ref[call[t].dst] = n
    \/ pc[t] \in {"releaseLocked", "erase", "store"} /\ found[t] = n

(* An entry nobody uses is about to be erased by somebody or used again:   *)
(* none is left behind in the pool (StringCache.cpp:54-71).                *)
NoLeak == fate = "ok" =>
    \A n \in pool : count[n] = 0 => \E t \in Threads : Finishing(t, n)

(* Freed memory is used only where an entry was looked up and used again   *)
(* between the release of its last user and that release's second look     *)
(* under the lock.                                                         *)
FreedOnlyAfterRevival == fate # "ok" => revived

Written(o) == \E t \in Threads : Running(t) /\ call[t].dst = o

(* What get() returns.                                                     *)
Value(o) == IF ref[o] = EmptyRef THEN EmptyKey ELSE keyOf[ref[o]]

(* What users may rely on: the values of the objects no call is writing,   *)
(* until freed memory is used.                                             *)
Contents == [o \in Objects |-> IF Written(o) THEN None ELSE Value(o)]
Broken == fate # "ok"

(* Every object has the value it was last given (module StringValues).     *)
Strings == INSTANCE StringValues WITH
    Values <- Keys \cup {EmptyKey}, Empty <- EmptyKey, Unknown <- None,
    value <- Contents, broken <- Broken

StringsSpec == Strings!Spec

(* A release always finds the entry it releases in the pool, as the HALT   *)
(* of data_pool::release says (StringCache.cpp:44-47).                     *)
NoOrphanedValue == fate # "halted"
=============================================================================
