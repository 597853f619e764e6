---------------------------- MODULE MCContainers ----------------------------
(* The containers that keep two pieces of data in step: a map in a sorted  *)
(* vector, a hash map with a vector of its nodes, the two maps of the      *)
(* plugins. A behaviour is one of the three.                               *)
(*                                                                         *)
(* Sorted vector: four keys, two values, lists that are unsorted and have  *)
(* a key twice. Hash map: two objects, three keys. Plugins: lists with     *)
(* holes, inactive plugins, the same index or name twice, and the largest  *)
(* indices; lower parts around 12 and 24 bits.                             *)
EXTENDS Integers, Sequences, SequencesExt, FiniteSets

CONSTANTS Keys, Values, Default, Lists, Absent, v1, v2,
          Maps, Moved, m1, m2, VecKeys, VecValues, VecLists,
          ModLists, Lowers, MaxPopulates, NoMod, n1, n2, n3

VARIABLES containersPart, data, ret, m_map, m_vector,
          mods, index_map, name_map, populated, modAt, populates, found

Flat == INSTANCE FlatMap
Vec == INSTANCE VectorMap WITH Keys <- VecKeys, Values <- VecValues, Lists <- VecLists
Plugins == INSTANCE PluginInfo WITH at <- modAt, None <- NoMod

ASSUME ContainersAssumption ==
    /\ Flat!FlatMapAssumption /\ Vec!VectorMapAssumption /\ Plugins!PluginInfoAssumption

MCValues == {v1, v2}
MCLists == {<< >>, <<<<3, v2>>, <<1, v1>>, <<3, v1>>>>, <<<<2, v1>>, <<1, v2>>>>}
MCMaps == {m1, m2}
MCVecValues == {v1, v2}
MCVecLists == {<<<<3, v1>>, <<1, v1>>, <<3, v2>>>>}

Mod(name, light, active, index) ==
    [name |-> name, light |-> light, active |-> active, index |-> index]
MCModLists ==
    {<<Mod(n1, FALSE, TRUE, 0), NoMod, Mod(n2, FALSE, FALSE, 1), Mod(n2, TRUE, TRUE, 1)>>,
     <<Mod(n1, FALSE, TRUE, 253), Mod(n2, TRUE, TRUE, 4095), Mod(n3, FALSE, TRUE, 253)>>,
     <<Mod(n1, TRUE, TRUE, 0), Mod(n2, TRUE, TRUE, 254), Mod(n2, FALSE, TRUE, 1)>>}
MCLowers == {0, 1, 4095, 4096, 16777215, 16777216}

flatVars == <<data, ret>>
vecVars == <<m_map, m_vector>>
modVars == <<mods, index_map, name_map, populated, modAt, populates, found>>
containersVars == <<containersPart, flatVars, vecVars, modVars>>

ContainersInit == /\ containersPart \in {"flat", "vec", "plugins"}
                  /\ Flat!Init /\ Vec!Init /\ Plugins!Init
                  /\ containersPart # "plugins" => mods = NoMod

FlatStep == /\ containersPart = "flat" /\ Flat!Next
            /\ UNCHANGED <<containersPart, vecVars, modVars>>
VecStep == /\ containersPart = "vec" /\ Vec!Next
           /\ UNCHANGED <<containersPart, flatVars, modVars>>
ModStep == /\ containersPart = "plugins" /\ Plugins!Next
           /\ UNCHANGED <<containersPart, flatVars, vecVars>>

ContainersNext == FlatStep \/ VecStep \/ ModStep

ContainersSpec == ContainersInit /\ [][ContainersNext]_containersVars

(* Types; the flat map is sorted without duplicates (Map.h:87-400); the    *)
(* vector has each node of its map once (Vector.h:27-242); both plugin     *)
(* maps agree, a name leads to a plugin that is gone only between the two  *)
(* clears of a repeated Populate (IPluginInfo.cpp:14-52), and form ids     *)
(* lead back to their plugin (GameHandles.cpp:93-126).                     *)
InStep == /\ Flat!TypeOK /\ Flat!Sorted
          /\ Vec!TypeOK /\ Vec!InStep
          /\ Plugins!TypeOK /\ Plugins!Complete /\ Plugins!DanglesBetweenClears
          /\ Plugins!FormIdsResolve

(* Map.h: the sorted vector is a map, call by call.                        *)
IsMap == Flat!IsMap

(* Vector.h:24-229: a vectormap is a list of entries without two of a key, *)
(* call by call, also when objects are copied and moved, to themselves     *)
(* too.                                                                    *)
IsEntryList == Vec!IsEntryList
=============================================================================
