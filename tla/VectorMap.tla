----------------------------- MODULE VectorMap -----------------------------
(***************************************************************************)
(* stl::vectormap of Vector.h: a hash map, and a vector of pointers to its *)
(* nodes in the order they were added. A node is named by its key, as a    *)
(* map never has two nodes of a key. Assignment clears its target before   *)
(* it reads the source, also when both are the same object, and a move     *)
(* takes the values and leaves the source its keys. EntryLists is what the *)
(* objects promise together.                                               *)
(***************************************************************************)
EXTENDS Integers, Sequences, SequencesExt, FiniteSets

CONSTANTS Maps, Keys, Values,
          Moved,  \* the value that a move leaves
          Lists,  \* initializer lists
          Absent

VectorMapAssumption ==
    /\ Moved \notin Values /\ Absent \notin Values \cup {Moved}
    /\ Lists \subseteq Seq(Keys \X Values)

VARIABLES m_map,    \* m_map[x][k]: the value of the node of k in x, or Absent
          m_vector  \* m_vector[x]: the nodes of x

vars == <<m_map, m_vector>>

Nothing == [k \in Keys |-> Absent]
Nodes(x) == {k \in Keys : m_map[x][k] # Absent}

Init == m_map = [x \in Maps |-> Nothing] /\ m_vector = [x \in Maps |-> << >>]

(* A map and a vector after emplace of the entries of a list, in order; a  *)
(* key that is there already is left alone.                                *)
Emplaced(c, e) == IF c.map[e[1]] # Absent THEN c
                  ELSE [map |-> [c.map EXCEPT ![e[1]] = e[2]], vec |-> Append(c.vec, e[1])]
Filled(c, list) == FoldLeft(Emplaced, c, list)

Set(x, c) == /\ m_map' = [m_map EXCEPT ![x] = c.map]
             /\ m_vector' = [m_vector EXCEPT ![x] = c.vec]

Empty == [map |-> Nothing, vec |-> << >>]
Entries(x) == [i \in DOMAIN m_vector[x] |-> <<m_vector[x][i], m_map[x][m_vector[x][i]]>>]

Emplace(x, k, v) == Set(x, Emplaced([map |-> m_map[x], vec |-> m_vector[x]], <<k, v>>))

(* erase by key or by iterator: _erase_vec, then the map.                  *)
Erase(x, k) ==
    /\ k \in Nodes(x)
    /\ \E i \in DOMAIN m_vector[x] :
          /\ m_vector[x][i] = k /\ \A j \in 1..i - 1 : m_vector[x][j] # k
          /\ Set(x, [map |-> [m_map[x] EXCEPT ![k] = Absent],
                     vec |-> RemoveAt(m_vector[x], i)])

AssignList(x, list) == Set(x, Filled(Empty, list))
Clear(x) == Set(x, Empty)

(* operator=(const vectormap&) and the copy constructor.                   *)
Copy(x, y) == IF x = y THEN Clear(x) ELSE Set(x, Filled(Empty, Entries(y)))

(* A variant that moves into what the target has.                          *)
MoveInto(x, y) ==
    IF x = y THEN Clear(x)
    ELSE LET c == Filled([map |-> m_map[x], vec |-> m_vector[x]], Entries(y)) IN
         /\ m_map' = [m_map EXCEPT ![x] = c.map,
                                  ![y] = [k \in Keys |-> IF k \in Nodes(y) THEN Moved
                                                                           ELSE Absent]]
         /\ m_vector' = [m_vector EXCEPT ![x] = c.vec]

(* operator=(vectormap&&) and the move constructor.                        *)
Move(x, y) ==
    IF x = y THEN Clear(x)
    ELSE /\ m_map' = [m_map EXCEPT ![x] = Filled(Empty, Entries(y)).map,
                                   ![y] = [k \in Keys |-> IF k \in Nodes(y) THEN Moved
                                                                            ELSE Absent]]
         /\ m_vector' = [m_vector EXCEPT ![x] = Filled(Empty, Entries(y)).vec]

(* sortvec with any order of the nodes.                                    *)
SortVec(x) == /\ \E s \in [1..Len(m_vector[x]) -> Nodes(x)] :
                   IsInjective(s) /\ m_vector' = [m_vector EXCEPT ![x] = s]
              /\ UNCHANGED m_map

Next == \E x \in Maps : \/ \E k \in Keys : \/ Erase(x, k)
                                           \/ \E v \in Values : Emplace(x, k, v)
                        \/ \E list \in Lists : AssignList(x, list)
                        \/ Clear(x) \/ SortVec(x)
                        \/ \E y \in Maps : Copy(x, y) \/ Move(x, y)

Spec == Init /\ [][Next]_vars

-----------------------------------------------------------------------------
TypeOK == /\ m_map \in [Maps -> [Keys -> Values \cup {Moved, Absent}]]
          /\ m_vector \in [Maps -> Seq(Keys)]

(* The vector has one pointer to each node of the map and no other, so     *)
(* that the assertion of _erase_vec holds and no pointer dangles (lines    *)
(* 27-138, 178-242).                                                       *)
InStep == \A x \in Maps : IsInjective(m_vector[x]) /\ ToSet(m_vector[x]) = Nodes(x)

(* A vectormap is a list of entries without two of a key, in the order     *)
(* they were first added or as sorted last. Emplacing, erasing, copying    *)
(* and moving change the map and the vector in step, so that what a copy   *)
(* or move takes over is all the entries of its source in their order; a   *)
(* source that was moved from is left its keys. Assignment clears before   *)
(* it reads: an object copied or moved to itself loses all it has (lines   *)
(* 63-85).                                                                 *)
entriesBar == [x \in Maps |-> Entries(x)]
EntryList == INSTANCE EntryLists WITH entries <- entriesBar
IsEntryList == EntryList!Spec
=============================================================================
