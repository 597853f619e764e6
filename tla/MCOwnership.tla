---------------------------- MODULE MCOwnership ----------------------------
(* Who may use what: the objects of smart pointers, the slots of a virtual *)
(* table that functions are chained in, the handles of the virtual         *)
(* machine, the call sites of the game, the streams of the host. A         *)
(* behaviour is one of the five.                                           *)
(*                                                                         *)
(* Pointers: two objects with a member each, three pointers of two         *)
(* threads, every chain between them to begin with. Detours: two threads   *)
(* and a slot with two functions, one beside it on the page. Handles: two  *)
(* references, two handles. Hooks: a call, an indirect jump and another    *)
(* instruction, three functions, code for one and for two units, of which  *)
(* there are three. Streams: three wrappers, four streams.                 *)
EXTENDS Integers, Sequences, SequencesExt, FiniteSets, TLC

CONSTANTS Threads, Objects, RootsOf, None, o1, o2, p1, p2, q1, t1, t2,
          Callers, Slots, FuncsOf, Final, MaxCalls, v1, v2, f1, f2, g1,
          Refs, Handles, MaxForgotten, Invalid, Absent, r1, r2, h1, h2,
          Sites, Opcode, Hooks, Codes, CodeSize, Room, Nothing, s1, s2, s3, c1, c2,
          Wrappers, MaxStreams

VARIABLES part, ptr, count, state, call, chain, unowned,
          slot, prot, original, detour, calls, log, overlapped, faulted,
          handle, policy, forgotten, copies,
          target, orig, returned, hooked, room, allocating, ended, stopped,
          alive, m_data, made, destructed, freed, over

Pointers == INSTANCE SmartPointer
Table == INSTANCE VTableDetour
Refd == INSTANCE HandleRef
Code == INSTANCE CallHook
Stream == INSTANCE StreamWrapper

ASSUME OwnershipAssumption ==
    /\ Pointers!SmartPointerAssumption
    /\ Table!VTableDetourAssumption
    /\ Refd!HandleRefAssumption
    /\ Code!CallHookAssumption
    /\ Stream!StreamWrapperAssumption

MCThreads == {t1, t2}
MCObjects == {o1, o2}
MCRootsOf == t1 :> {p1, p2} @@ t2 :> {q1}
MCSlots == {v1, v2}
MCFuncsOf == v1 :> {f1, f2} @@ v2 :> {g1}
MCFinal == {g1}
MCRefs == {r1, r2}
MCHandles == {h1, h2}
MCOpcode == s1 :> "E8" @@ s2 :> "FF25" @@ s3 :> "other"
MCCodeSize == c1 :> 1 @@ c2 :> 2

pointerVars == <<ptr, count, state, call, chain, unowned>>
tableVars == <<slot, prot, original, detour, calls, log, overlapped, faulted>>
refVars == <<handle, policy, forgotten, copies>>
codeVars == <<target, orig, returned, hooked, room, allocating, ended, stopped>>
streamVars == <<alive, m_data, made, destructed, freed, over>>
vars == <<part, pointerVars, tableVars, refVars, codeVars, streamVars>>

Init == /\ part \in {"pointers", "table", "refs", "code", "streams"}
        /\ Pointers!Init /\ Table!Init /\ Refd!Init /\ Code!Init /\ Stream!Init
        /\ part # "pointers" => \A l \in Pointers!Locations : ptr[l] = None

PointerStep == /\ part = "pointers" /\ Pointers!Next
               /\ UNCHANGED <<part, tableVars, refVars, codeVars, streamVars>>
TableStep == /\ part = "table" /\ Table!Next
             /\ UNCHANGED <<part, pointerVars, refVars, codeVars, streamVars>>
RefStep == /\ part = "refs" /\ Refd!Next
           /\ UNCHANGED <<part, pointerVars, tableVars, codeVars, streamVars>>
CodeStep == /\ part = "code" /\ Code!Next
            /\ UNCHANGED <<part, pointerVars, tableVars, refVars, streamVars>>
StreamStep == /\ part = "streams" /\ Stream!Next
              /\ UNCHANGED <<part, pointerVars, tableVars, refVars, codeVars>>

Spec == /\ Init /\ [][PointerStep \/ TableStep \/ RefStep \/ CodeStep \/ StreamStep]_vars
        /\ \A t \in Callers : WF_tableVars(~faulted /\ Table!CallStep(t))

(* Types; counts are what is held and nothing deleted is used              *)
(* (BSTSmartPointer.h:144-257); the policy counts the handles that         *)
(* references hold (GameHandles.cpp:59-88); a stream has one wrapper until *)
(* its memory goes, and was destructed unless assigned over (Stream.h).    *)
Counted == /\ Pointers!TypeOK /\ Pointers!CountsExact /\ Pointers!NothingFreedUsed
           /\ Refd!TypeOK /\ Refd!HandlesCounted
           /\ Stream!StreamsOwned

(* Detours of a slot are chained in the order they were made, none is put  *)
(* over itself, and they leave the page as it was (VFT.h:19-112); so are   *)
(* the hooks of a call site, as far as the trampoline has room, which one  *)
(* generator uses at a time (IHook.h:89-199, JITASM.cpp:7-24).             *)
Detours == Table!TypeOK /\ Table!Detours /\ Code!Chained /\ Code!OneGenerator

(* BSTSmartPointer.h:144-216: a call leaves its pointer with what the      *)
(* source held when it began.                                              *)
AssignsSource == Pointers!AssignsSource

(* VFT.h:73-91: a call returns though others change its slot.              *)
DetourReturns == Table!DetourReturns
=============================================================================
