--------------------------- MODULE StreamWrapper ---------------------------
(***************************************************************************)
(* NiStreamWrapper: the memory of a stream of the host, whose constructor  *)
(* and destructor (ctor, dtor) the wrapper calls. It can be moved, not     *)
(* copied. Streams are counted off; memory is never used again.            *)
(***************************************************************************)
EXTENDS Integers

CONSTANTS Wrappers,
          MaxStreams, \* bound: streams made
          Nothing

StreamWrapperAssumption == MaxStreams \in Nat /\ Nothing \notin 1..MaxStreams

VARIABLES alive,  \* the wrappers that exist
          m_data,
          made, destructed, freed, \* the streams that ctor, dtor and delete were called for
          over    \* those whose wrapper was assigned to

vars == <<alive, m_data, made, destructed, freed, over>>

Init == /\ alive = {} /\ m_data = [w \in Wrappers |-> Nothing]
        /\ made = 0 /\ destructed = {} /\ freed = {} /\ over = {}

Construct(w) == /\ w \notin alive /\ made < MaxStreams
                /\ alive' = alive \cup {w}
                /\ made' = made + 1 /\ m_data' = [m_data EXCEPT ![w] = made']
                /\ UNCHANGED <<destructed, freed, over>>

(* std::move of the pointer leaves the other one null.                     *)
MoveConstruct(w, v) == /\ w \notin alive /\ v \in alive
                       /\ alive' = alive \cup {w}
                       /\ m_data' = [m_data EXCEPT ![w] = m_data[v], ![v] = Nothing]
                       /\ UNCHANGED <<made, destructed, freed, over>>

(* The assignment of the pointer frees the old memory and calls no dtor; a *)
(* wrapper moved to itself keeps what it has.                              *)
MoveAssign(w, v) ==
    /\ {w, v} \subseteq alive
    /\ m_data' = IF w = v THEN m_data ELSE [m_data EXCEPT ![w] = m_data[v], ![v] = Nothing]
    /\ LET old == IF w = v \/ m_data[w] = Nothing THEN {} ELSE {m_data[w]}
       IN  freed' = freed \cup old /\ over' = over \cup old
    /\ UNCHANGED <<alive, made, destructed>>

Destroy(w) == /\ w \in alive
              /\ alive' = alive \ {w} /\ m_data' = [m_data EXCEPT ![w] = Nothing]
              /\ LET old == IF m_data[w] = Nothing THEN {} ELSE {m_data[w]}
                 IN  destructed' = destructed \cup old /\ freed' = freed \cup old
              /\ UNCHANGED <<made, over>>

Next == \E w, v \in Wrappers : \/ Construct(w) \/ Destroy(w)
                               \/ MoveConstruct(w, v) \/ MoveAssign(w, v)

Spec == Init /\ [][Next]_vars

-----------------------------------------------------------------------------
(* Every stream that was made has one wrapper, or its memory was freed; it *)
(* was destructed before that unless its wrapper was assigned to, and none *)
(* is both. An assignment is the only way to lose what a stream owns       *)
(* (Stream.cpp:7-17, Stream.h:18-27).                                      *)
StreamsOwned ==
    /\ \A i \in 1..made :
         \/ i \notin freed /\ \E w \in alive : m_data[w] = i /\ \A v \in alive \ {w} : m_data[v] # i
         \/ i \in freed /\ \A w \in alive : m_data[w] # i
    /\ freed = destructed \cup over /\ destructed \cap over = {}
=============================================================================
