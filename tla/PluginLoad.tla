----------------------------- MODULE PluginLoad -----------------------------
(***************************************************************************)
(* ISKSEBase, the base of a plugin: the calls its entry points make while  *)
(* the script extender loads it, any number of times and in any order. The *)
(* extender, its interfaces, its pools and BranchTrampoline are external.  *)
(***************************************************************************)
EXTENDS Integers, Sequences, SequencesExt

CONSTANTS Interfaces, \* those asked for, in the order of their questions
          Trampoline, \* the interface that may be missing
          Compiled,   \* the version of each that the plugin was compiled with
          Versions,   \* versions that an extender may have
          Granularities, Sizes, \* sizes[id] that the plugin wants of each trampoline
          None

PluginLoadAssumption ==
    /\ Versions \subseteq Nat /\ None \notin Versions /\ None \notin BOOLEAN
    /\ Interfaces \in Seq(ToSet(Interfaces)) /\ IsInjective(Interfaces)
    /\ Compiled \in [ToSet(Interfaces) -> Versions] /\ Trampoline \in ToSet(Interfaces)
    /\ Granularities \subseteq Nat
    /\ \A s \in Sizes : s \in [1..2 -> Nat]

VARIABLES accepted,     \* no editor, and a runtime that the plugin supports
          offers,       \* what the extender has of each interface
          granularity,  \* GetAllocGranularity()
          sizes,
          logOpen, m_pluginHandle,
          m_interfaces, \* the version behind each pointer, or None
          asking,       \* the interface that QueryInterfaces is at, 0 outside
          m_trampolines, \* [size, pool] of each, or None
          result        \* of the last call, by its name

hostVars == <<accepted, offers, granularity, sizes>>
vars == <<hostVars, logOpen, m_pluginHandle, m_interfaces, asking, m_trampolines, result>>

NoInterfaces == [i \in ToSet(Interfaces) |-> None]

Init == /\ accepted \in BOOLEAN
        /\ offers \in [ToSet(Interfaces) -> Versions \cup {None}]
        /\ granularity \in Granularities /\ sizes \in Sizes
        /\ logOpen = FALSE /\ m_pluginHandle = FALSE /\ asking = 0
        /\ m_interfaces = NoInterfaces
        /\ m_trampolines = [id \in 1..2 |-> None]
        /\ result = [call \in {"Query", "QueryInterfaces", "CreateTrampolines"} |-> None]

Returns(call, r) == result' = [result EXCEPT ![call] = r]

(* OpenLog, which may fail, and the refusals; a handle that there was      *)
(* stays.                                                                  *)
Query == /\ asking = 0
         /\ logOpen' \in {logOpen, TRUE}
         /\ Returns("Query", accepted)
         /\ m_pluginHandle' = (m_pluginHandle \/ accepted)
         /\ UNCHANGED <<hostVars, m_interfaces, asking, m_trampolines>>

QueryInterfacesStart == /\ asking = 0
                        /\ asking' = 1 /\ m_interfaces' = NoInterfaces
                        /\ UNCHANGED <<hostVars, logOpen, m_pluginHandle, m_trampolines, result>>

CheckInterfaceVersion(i) == offers[i] >= Compiled[i]

(* A variant that keeps an interface before it looks at the version.       *)
QueryInterfaceUnchecked ==
    /\ asking \in DOMAIN Interfaces
    /\ LET i == Interfaces[asking]
           good == IF offers[i] = None THEN i = Trampoline ELSE CheckInterfaceVersion(i)
       IN  /\ m_interfaces' = [m_interfaces EXCEPT ![i] = offers[i]]
           /\ IF good THEN asking' = asking + 1 /\ UNCHANGED result
                      ELSE asking' = 0 /\ Returns("QueryInterfaces", FALSE)
    /\ UNCHANGED <<hostVars, logOpen, m_pluginHandle, m_trampolines>>

(* The first that is missing or too old ends the call.                     *)
QueryInterface ==
    /\ asking \in DOMAIN Interfaces
    /\ LET i == Interfaces[asking]
           missing == offers[i] = None
       IN  IF (missing /\ i # Trampoline) \/ (~missing /\ ~CheckInterfaceVersion(i))
             THEN /\ asking' = 0 /\ Returns("QueryInterfaces", FALSE)
                  /\ UNCHANGED m_interfaces
             ELSE /\ asking' = asking + 1
                  /\ m_interfaces' = [m_interfaces EXCEPT ![i] = offers[i]]
                  /\ UNCHANGED result
    /\ UNCHANGED <<hostVars, logOpen, m_pluginHandle, m_trampolines>>

QueryInterfacesEnd == /\ asking = Len(Interfaces) + 1
                      /\ asking' = 0 /\ Returns("QueryInterfaces", TRUE)
                      /\ UNCHANGED <<hostVars, logOpen, m_pluginHandle, m_interfaces, m_trampolines>>

-----------------------------------------------------------------------------
GetAlignedTrampolineSize(n) ==
    IF granularity = 0 \/ n % granularity = 0 THEN n ELSE n + granularity - (n % granularity)

(* A trampoline from the pool, else one of its own; Create may fail.       *)
Trampolines(id) ==
    LET pool == {[size |-> sizes[id], pool |-> TRUE]}
        own == {[size |-> GetAlignedTrampolineSize(sizes[id]), pool |-> FALSE], None}
    IN  IF m_interfaces[Trampoline] # None THEN pool \cup own ELSE own

(* The branch trampoline, then the local one; a size of 0 asks for none.   *)
(* One that could not be created leaves what there was before.             *)
CreateTrampolines ==
    /\ asking = 0
    /\ \E branch \in IF sizes[1] > 0 THEN Trampolines(1) ELSE {m_trampolines[1]},
          local \in IF sizes[2] > 0 THEN Trampolines(2) ELSE {m_trampolines[2]} :
         IF sizes[1] > 0 /\ branch = None
           THEN Returns("CreateTrampolines", FALSE) /\ UNCHANGED m_trampolines
           ELSE /\ Returns("CreateTrampolines", ~(sizes[2] > 0 /\ local = None))
                /\ m_trampolines' = <<branch, IF local = None THEN m_trampolines[2] ELSE local>>
    /\ UNCHANGED <<hostVars, logOpen, m_pluginHandle, m_interfaces, asking>>

Next == Query \/ QueryInterfacesStart \/ QueryInterface \/ QueryInterfacesEnd \/ CreateTrampolines

Spec == Init /\ [][Next]_vars

-----------------------------------------------------------------------------
(* No call leaves an interface that is too old or another call's: once     *)
(* QueryInterfaces has returned true there is every interface but perhaps  *)
(* that of the trampolines, and after it has returned false there are at   *)
(* most those before the one at fault (ISKSE.h:152-191, 316-380).          *)
InterfacesGood ==
    /\ \A i \in ToSet(Interfaces) : m_interfaces[i] # None => m_interfaces[i] >= Compiled[i]
    /\ asking = 0 /\ result["QueryInterfaces"] # None =>
         \E fault \in 1..Len(Interfaces) + 1 :
           /\ result["QueryInterfaces"] <=> fault = Len(Interfaces) + 1
           /\ \A k \in DOMAIN Interfaces :
                IF k < fault THEN m_interfaces[Interfaces[k]] # None \/ Interfaces[k] = Trampoline
                             ELSE m_interfaces[Interfaces[k]] = None

(* A trampoline is at least as large as was asked for, its own memory in   *)
(* whole units that one unit less would not cover; after success there is  *)
(* each that was wanted (ISKSE.h:197-244, 389-410).                        *)
TrampolinesGood ==
    /\ \A id \in 1..2 :
         LET t == m_trampolines[id] IN
         t # None => /\ t.size >= sizes[id] /\ sizes[id] > 0
                     /\ ~t.pool /\ granularity > 0 =>
                          t.size % granularity = 0 /\ t.size - granularity < sizes[id]
    /\ result["CreateTrampolines"] = TRUE =>
         \A id \in 1..2 : sizes[id] > 0 => m_trampolines[id] # None
=============================================================================
