----------------------------- MODULE PluginInfo -----------------------------
(***************************************************************************)
(* IPluginInfo: the plugins of the game by partial index and by name, and  *)
(* the form ids that consist of a plugin's index and a lower part.         *)
(* Populate reads the game's list without a lock, step by step here, and   *)
(* another thread may look plugins up meanwhile. A name refers to an entry *)
(* of the index map; 32-bit form ids are pairs of the upper 8 and the      *)
(* lower 24 bits.                                                          *)
(***************************************************************************)
EXTENDS Integers, Sequences, SequencesExt

CONSTANTS ModLists, \* what the game's list of plugins may be
          Lowers,   \* lower parts of form ids asked for
          MaxPopulates, \* bound
          None

(* A plugin of the game: the game gives light plugins 12-bit indices, and  *)
(* keeps the indices 0xFE and 0xFF for light plugins and temporary forms.  *)
IsMod(p) == /\ p.light \in BOOLEAN /\ p.active \in BOOLEAN
            /\ p.index \in 0..(IF p.light THEN 4096 - 1 ELSE 256 - 3)

PluginInfoAssumption ==
    /\ \A list \in ModLists : /\ list \in Seq(ToSet(list))
                              /\ \A i \in DOMAIN list : list[i] # None => IsMod(list[i])
    /\ Lowers \subseteq Nat /\ MaxPopulates \in Nat

VARIABLES mods,      \* the list of the data handler, None before it exists
          index_map, \* m_pluginIndexMap: plugins by partial index
          name_map,  \* m_pluginNameMap: <<name, partial index referred to>>
          populated, \* m_populated
          at,        \* the position Populate has reached, 0 outside
          populates,
          found      \* the last Lookup by name: none, plugin, nothing, dangling

vars == <<mods, index_map, name_map, populated, at, populates, found>>

(* GetPartialIndex of the game's ModInfo, and what pluginInfo_t computes.  *)
PartialIndex(p) == IF p.light THEN 254 * 4096 + (p.index % 8192) ELSE p.index

Init == /\ mods \in {None} \cup ModLists
        /\ index_map = {} /\ name_map = {}
        /\ populated = FALSE /\ at = 0 /\ populates = 0
        /\ found = "none"

(* The game creates its data handler.                                      *)
GameLoads == /\ mods = None /\ mods' \in ModLists
             /\ UNCHANGED <<index_map, name_map, populated, at, populates, found>>

(* Populate returns false without a data handler.                          *)
PopulateStart == /\ at = 0 /\ mods # None /\ populates < MaxPopulates
                 /\ index_map' = {}
                 /\ at' = 1 /\ populates' = populates + 1
                 /\ UNCHANGED <<mods, name_map, populated, found>>

ClearNames == /\ at = 1
              /\ name_map' = {}
              /\ at' = 2
              /\ UNCHANGED <<mods, index_map, populated, populates, found>>

Loops == at >= 2 /\ at <= Len(mods) + 1

Skipped(p) == p = None \/ ~p.active

(* A variant that adds the name of a plugin whose index is taken.          *)
AddModName ==
    LET p == mods[at - 1] IN
    /\ Loops
    /\ IF Skipped(p) THEN UNCHANGED <<index_map, name_map>>
       ELSE /\ index_map' = IF \E q \in index_map : PartialIndex(q) = PartialIndex(p)
                              THEN index_map ELSE index_map \cup {p}
            /\ name_map' = IF \E e \in name_map : e[1] = p.name THEN name_map
                           ELSE name_map \cup {<<p.name, PartialIndex(p)>>}
    /\ at' = at + 1
    /\ UNCHANGED <<mods, populated, populates, found>>

(* The next plugin of the list: the entry of its index, new or old, goes   *)
(* to the name map under its own name.                                     *)
AddMod ==
    LET p == mods[at - 1] IN
    /\ Loops
    /\ IF Skipped(p) THEN UNCHANGED <<index_map, name_map>>
       ELSE LET taken == {q \in index_map : PartialIndex(q) = PartialIndex(p)}
                entry == IF taken = {} THEN p ELSE CHOOSE q \in taken : TRUE
            IN  /\ index_map' = index_map \cup {entry}
                /\ name_map' = IF \E e \in name_map : e[1] = entry.name THEN name_map
                               ELSE name_map \cup {<<entry.name, PartialIndex(entry)>>}
    /\ at' = at + 1
    /\ UNCHANGED <<mods, populated, populates, found>>

PopulateEnd == /\ at >= 2 /\ at = Len(mods) + 2
               /\ populated' = TRUE /\ at' = 0
               /\ UNCHANGED <<mods, index_map, name_map, populates, found>>

(* Another thread that has seen IsPopulated().                             *)
Lookup(name) ==
    /\ populated
    /\ found' = LET e == {x \in name_map : x[1] = name} IN
                IF e = {} THEN "nothing"
                ELSE IF \E x \in e, p \in index_map : PartialIndex(p) = x[2] THEN "plugin"
                ELSE "dangling"
    /\ UNCHANGED <<mods, index_map, name_map, populated, at, populates>>

Next == \/ GameLoads \/ PopulateStart \/ ClearNames \/ AddMod \/ PopulateEnd
        \/ \E e \in name_map : Lookup(e[1])
        \/ Lookup(None)

Spec == Init /\ [][Next]_vars

-----------------------------------------------------------------------------
(* 0xFE000000 | lightIndex << 12 | lower & 0xFFF, or modIndex << 24 |      *)
(* lower & 0xFFFFFF. The bits 1 to 3 of 0xFE are set already.              *)
GetFormID(p, lower) ==
    IF p.light THEN <<254 + ((p.index \div 4096) % 2), (p.index % 4096) * 4096 + (lower % 4096)>>
    ELSE <<p.index, lower % 16777216>>

GetFormIDLower(p, id) == IF p.light THEN id[2] % 4096 ELSE id[2]

IsFormInMod(p, id) == IF p.light THEN id[1] = 254 /\ id[2] \div 4096 = p.index
                      ELSE id[1] = p.index

(* FormID: false for temporary forms, here None.                           *)
IsTemporary(id) == id[1] = 255
GetPluginPartialIndex(id) == IF IsTemporary(id) THEN None
                             ELSE IF id[1] = 254 THEN id[1] * 4096 + (id[2] \div 4096)
                             ELSE id[1]

TypeOK == /\ at \in Nat /\ populates \in 0..MaxPopulates
          /\ \A p \in index_map : IsMod(p)
          /\ found \in {"none", "plugin", "nothing", "dangling"}

Firsts(key(_)) == {mods[i] : i \in {j \in DOMAIN mods :
                     /\ ~Skipped(mods[j])
                     /\ \A h \in 1..j - 1 : Skipped(mods[h]) \/ key(mods[h]) # key(mods[j])}}

(* Between two Populates the index map has the first active plugin of each *)
(* partial index, every name is that of an entry it refers to, and every   *)
(* entry's name is there (IPluginInfo.cpp:14-41).                          *)
Complete ==
    at = 0 /\ populated =>
        /\ index_map = Firsts(PartialIndex)
        /\ \A e \in name_map : \E p \in index_map : e = <<p.name, PartialIndex(p)>>
        /\ {e[1] : e \in name_map} = {p.name : p \in index_map}

(* A form id that is made from a plugin's index and a lower part leads     *)
(* back to that plugin and no other of the map, and to the lower part      *)
(* (IPluginInfo.h:35-65, GameHandles.cpp:93-126).                          *)
FormIdsResolve ==
    \A p \in index_map, lower \in Lowers :
        LET id == GetFormID(p, lower) IN
        /\ ~IsTemporary(id)
        /\ GetPluginPartialIndex(id) = PartialIndex(p)
        /\ \A q \in index_map : IsFormInMod(q, id) <=> q = p
        /\ GetFormID(p, GetFormIDLower(p, id)) = id

(* m_populated stays true while the maps are built anew, but a name leads  *)
(* another thread to a plugin that is gone only between the two clears of  *)
(* a Populate that is not the first (IPluginInfo.cpp:14-15); before and    *)
(* later in the same Populate a lookup finds a plugin or nothing.          *)
DanglesBetweenClears ==
    /\ populated /\ (\E e \in name_map : \A p \in index_map : PartialIndex(p) # e[2])
          => at = 1 /\ populates > 1
    /\ found = "dangling" => populates > 1
=============================================================================
