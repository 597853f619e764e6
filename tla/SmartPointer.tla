---------------------------- MODULE SmartPointer ----------------------------
(***************************************************************************)
(* BSTSmartPointer.h with intrusive counts. A pointer is at a location: a  *)
(* root, used by one thread, or the member that an object has. The count   *)
(* of an object is atomic and is all that threads share; what a member     *)
(* holds is read by any thread that got to the object and written by one   *)
(* that has all its references (the users' contract, Readable, Writable).  *)
(*                                                                         *)
(* An assignment first gives up what the pointer held, then reads the      *)
(* source, then acquires. Giving up the last reference deletes the object, *)
(* which gives up its member in turn. When that was the owner of the       *)
(* source, as in p = p->next, the source is read although nobody keeps it, *)
(* and nothing is modelled after that (unowned). A constructor is an       *)
(* assignment to an empty pointer, the destructor reset(). Objects are not *)
(* allocated at the address of a deleted one.                              *)
(***************************************************************************)
EXTENDS Integers, FiniteSets, Sequences, SequencesExt

CONSTANTS Threads,
          Objects,
          RootsOf, \* RootsOf[t]: the pointers of thread t
          None     \* nullptr

Roots == UNION {RootsOf[t] : t \in Threads}
Locations == Roots \cup Objects

SmartPointerAssumption ==
    /\ Roots \cap Objects = {} /\ None \notin Locations
    /\ IsFiniteSet(Locations)
    /\ \A l \in Locations : <<l>> \notin Locations \cup {None}
    /\ \A t, u \in Threads : t # u => RootsOf[t] \cap RootsOf[u] = {}

VARIABLES ptr,    \* ptr[l]: _ptr of the pointer at l; an object is the
                  \*   location of its member
          count,  \* _refCount
          state,  \* none, live or deleted
          call,   \* call[t]: the call t is in, and its source's value
          chain,  \* chain[t]: the locations it is giving up, each the member
                  \*   of what the one before referred to
          unowned \* a call read a source whose owner it had given up

vars == <<ptr, count, state, call, chain, unowned>>

Idle == [step |-> "idle", move |-> FALSE, dst |-> None, src |-> None, want |-> None]

Users(o) == {l \in Locations : ptr[l] = o}

(* What can be reached from the roots.                                     *)
Reachable(p) == {o \in Objects : \A S \in SUBSET Objects :
                   (\A l \in Roots \cup S : p[l] \in S \cup {None}) => o \in S}

(* Objects that other code built, in chains without a cycle.               *)
Init == /\ ptr \in [Locations -> Objects \cup {None}]
        /\ \A S \in SUBSET Objects \ {{}} : \E o \in S : ptr[o] \notin S
        /\ state = [o \in Objects |-> IF o \in Reachable(ptr) THEN "live" ELSE "none"]
        /\ \A o \in Objects : state[o] = "none" => ptr[o] = None
        /\ count = [o \in Objects |-> Cardinality(Users(o))]
        /\ call = [t \in Threads |-> Idle]
        /\ chain = [t \in Threads |-> << >>]
        /\ unowned = FALSE

Readable(t) == RootsOf[t] \cup {o \in Objects : \E r \in RootsOf[t] : ptr[r] = o}
Writable(t) == RootsOf[t] \cup {o \in Objects : Users(o) # {} /\ Users(o) \subseteq RootsOf[t]}

(* The owner of the source, or of the pointer a raw pointer came from, if  *)
(* that is an object, and whether the thread has no hold of it.            *)
Owner(t) == LET src == call[t].src IN IF src \in Locations \cup {None} THEN src ELSE src[1]
Unowned(t) == Owner(t) \in Objects \ Readable(t)

-----------------------------------------------------------------------------
(* A call starts by giving up what dst holds. src is a location, or in a   *)
(* tuple the location that a raw pointer came from, or None for reset().   *)
Begin(t, move, dst, src, want) ==
    /\ call[t].step = "idle"
    /\ dst \in Writable(t)
    /\ call' = [call EXCEPT ![t] = [step |-> IF ptr[dst] = None THEN "take" ELSE "detach",
                                    move |-> move, dst |-> dst, src |-> src, want |-> want]]
    /\ chain' = [chain EXCEPT ![t] = IF ptr[dst] = None THEN << >> ELSE <<dst>>]
    /\ UNCHANGED <<ptr, count, state, unowned>>

(* A variant that does not look whether it is assigned to itself.          *)
AssignSelf(t, dst, src) == src \in Readable(t) /\ Begin(t, FALSE, dst, src, ptr[src])

Assign(t, dst, src) == src \in Readable(t) \ {dst} /\ Begin(t, FALSE, dst, src, ptr[src])
Move(t, dst, src) == src \in Writable(t) \ {dst} /\ Begin(t, TRUE, dst, src, ptr[src])
Reset(t, dst) == ptr[dst] # None /\ Begin(t, FALSE, dst, None, None)

(* reset(Y) with what the thread got from the pointer at l.                *)
ResetTo(t, dst, l) == /\ l \in Readable(t) /\ ptr[l] # None
                      /\ ptr[dst] # ptr[l]
                      /\ Begin(t, FALSE, dst, <<l>>, ptr[l])

(* make_smart: new, then a pointer to it.                                  *)
Make(t, dst, o) == /\ call[t].step = "idle"
                   /\ dst \in RootsOf[t] /\ ptr[dst] = None
                   /\ state[o] = "none"
                   /\ state' = [state EXCEPT ![o] = "live"]
                   /\ ptr' = [ptr EXCEPT ![dst] = o]
                   /\ call' = [call EXCEPT ![t] = [step |-> "attach", move |-> FALSE, dst |-> dst,
                                                   src |-> None, want |-> o]]
                   /\ UNCHANGED <<count, chain, unowned>>

(* TryDetach of the innermost location. The count is dropped; if that was  *)
(* the last reference the object is deleted, its member first. When there  *)
(* is no further member the whole chain is deleted.                        *)
TryDetach(t) ==
    LET l == Last(chain[t])  o == ptr[l]
        last == count[o] = 1
        dead == ToSet(Tail(chain[t])) \cup (IF last THEN {o} ELSE {})
    IN  /\ call[t].step = "detach"
        /\ count' = [count EXCEPT ![o] = @ - 1]
        /\ IF last /\ ptr[o] # None
             THEN /\ chain' = [chain EXCEPT ![t] = Append(@, o)]
                  /\ UNCHANGED <<ptr, state, call>>
             ELSE /\ state' = [x \in Objects |-> IF x \in dead THEN "deleted" ELSE state[x]]
                  /\ ptr' = [x \in Locations |->
                               IF x \in ToSet(chain[t]) THEN None ELSE ptr[x]]
                  /\ chain' = [chain EXCEPT ![t] = << >>]
                  /\ call' = [call EXCEPT ![t].step = "take"]
        /\ UNCHANGED unowned

(* A variant that copies without acquiring, as the auto pointer does.      *)
TakeAuto(t) ==
    LET c == call[t] IN
    /\ c.step = "take"
    /\ IF Unowned(t)
         THEN unowned' = TRUE /\ UNCHANGED <<ptr, count, state, call, chain>>
         ELSE /\ ptr' = IF c.src \in Locations THEN [ptr EXCEPT ![c.dst] = ptr[c.src]]
                                               ELSE ptr
              /\ call' = [call EXCEPT ![t] = Idle]
              /\ UNCHANGED <<count, state, chain, unowned>>

(* _ptr = a_rhs._ptr, and a_rhs._ptr = nullptr of a move.                  *)
Take(t) ==
    LET c == call[t] IN
    /\ c.step = "take"
    /\ IF Unowned(t)
         THEN unowned' = TRUE /\ UNCHANGED <<ptr, count, state, call, chain>>
         ELSE /\ ptr' = IF c.src = None THEN ptr
                        ELSE IF c.src \notin Locations THEN [ptr EXCEPT ![c.dst] = c.want]
                        ELSE IF c.move THEN [ptr EXCEPT ![c.dst] = ptr[c.src], ![c.src] = None]
                        ELSE [ptr EXCEPT ![c.dst] = ptr[c.src]]
              /\ call' = [call EXCEPT ![t] = IF c.move \/ ptr'[c.dst] = None
                                               THEN Idle ELSE [c EXCEPT !.step = "attach"]]
              /\ UNCHANGED <<count, state, chain, unowned>>

TryAttach(t) ==
    /\ call[t].step = "attach"
    /\ count' = [count EXCEPT ![ptr[call[t].dst]] = @ + 1]
    /\ call' = [call EXCEPT ![t] = Idle]
    /\ UNCHANGED <<ptr, state, chain, unowned>>

Calls(t) == \E dst \in Locations :
              \/ \E src \in Locations : \/ Assign(t, dst, src) \/ Move(t, dst, src)
                                         \/ ResetTo(t, dst, src)
              \/ \E o \in Objects : Make(t, dst, o)
              \/ Reset(t, dst)

Next == ~unowned /\ \E t \in Threads : Calls(t) \/ TryDetach(t) \/ Take(t) \/ TryAttach(t)

Spec == Init /\ [][Next]_vars

-----------------------------------------------------------------------------
(* Types; the locations a thread gives up are a chain.                     *)
TypeOK == /\ ptr \in [Locations -> Objects \cup {None}]
          /\ count \in [Objects -> 0..Cardinality(Locations)]
          /\ state \in [Objects -> {"none", "live", "deleted"}]
          /\ \A t \in Threads : /\ call[t].step \in {"idle", "detach", "take", "attach"}
                                /\ call[t].step = "detach" <=> chain[t] # << >>
                                /\ \A i \in 1..Len(chain[t]) - 1 :
                                     chain[t][i + 1] = ptr[chain[t][i]]

(* The pointers that refer to o and have acquired it.                      *)
Holders(o) == {l \in Users(o) : \A t \in Threads :
                 /\ call[t].step = "attach" => call[t].dst # l
                 /\ \A i \in 1..Len(chain[t]) - 1 : chain[t][i] # l}

(* The count of an object is the number of the pointers that hold it,      *)
(* whatever the threads do to them, and no pointer refers to a deleted     *)
(* object (lines 13-23, 244-257).                                          *)
CountsExact ==
    \A o \in Objects : /\ state[o] = "live" => count[o] = Cardinality(Holders(o))
                       /\ state[o] # "live" => Holders(o) = {}

(* No call reads, counts or releases what is deleted, unless it gave up    *)
(* the owner of its own source: no other thread can take it away, not      *)
(* between the read of the pointer and the increment either (144-216).     *)
NothingFreedUsed ==
    \A t \in Threads :
        LET step == call[t].step IN
        /\ step = "take" /\ Owner(t) \in Objects /\ ~Unowned(t) => state[Owner(t)] = "live"
        /\ step = "attach" => state[ptr[call[t].dst]] = "live"
        /\ step = "detach" => LET o == ptr[Last(chain[t])] IN state[o] = "live" /\ count[o] > 0

(* A call that ends leaves its pointer with what the source held when it   *)
(* began.                                                                  *)
AssignsSource ==
    [][\A t \in Threads :
         call[t].step \in {"take", "attach"} /\ call'[t].step = "idle"
         => ptr'[call[t].dst] = call[t].want]_vars
=============================================================================
