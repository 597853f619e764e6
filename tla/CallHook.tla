------------------------------ MODULE CallHook ------------------------------
(***************************************************************************)
(* IHook.h: a call or jump of the game is led to a plugin's function, and  *)
(* where it went before is stored for that function to go on to. JITASM:   *)
(* code generated in the same trampoline. The trampoline is external: it   *)
(* has a number of units left, one is taken by a hook, some by code; a     *)
(* hook without a unit is not written, and whoever wants memory while code *)
(* is generated is stopped by an assertion. A function is hooked in once   *)
(* (the users' contract).                                                  *)
(***************************************************************************)
EXTENDS Integers, Sequences, SequencesExt

CONSTANTS Sites, Opcode, \* Opcode[s]: the instruction at s
          Hooks,
          Codes, CodeSize, \* generators, and how much each generates
          Room,  \* units of the trampoline
          Nothing

CallHookAssumption == /\ Opcode \in [Sites -> {"E8", "E9", "FF15", "FF25", "other"}]
                      /\ CodeSize \in [Codes -> Nat] /\ Room \in Nat
                      /\ Nothing \notin Sites \cup Hooks \cup Codes \cup BOOLEAN

VARIABLES target,    \* target[s]: where s leads; s itself is the game's function
          orig,      \* orig[h]: a_orig of the call that hooked h
          returned,  \* returned[h]: what that call returned, or Nothing
          hooked,    \* hooked[s]: what was written at s, in order
          room,      \* what the trampoline has left
          allocating, \* the generator that has it
          ended,     \* _endedAlloc of each generator; Nothing before it is made
          stopped

vars == <<target, orig, returned, hooked, room, allocating, ended, stopped>>

Init == /\ target = [s \in Sites |-> s]
        /\ orig = [h \in Hooks |-> Nothing] /\ returned = [h \in Hooks |-> Nothing]
        /\ hooked = [s \in Sites |-> << >>]
        /\ room = Room /\ allocating = Nothing
        /\ ended = [c \in Codes |-> Nothing]
        /\ stopped = FALSE

(* What Call5, Jmp5, Call6 and Jmp6 look for.                              *)
Wanted == [Call5 |-> "E8", Jmp5 |-> "E9", Call6 |-> "FF15", Jmp6 |-> "FF25"]

(* The result of the trampoline's write is not looked at.                  *)
Hook(kind, s, h) ==
    /\ ~stopped /\ returned[h] # TRUE
    /\ IF Opcode[s] # Wanted[kind]
         THEN /\ returned' = [returned EXCEPT ![h] = FALSE]
              /\ UNCHANGED <<target, orig, hooked, room, stopped>>
         ELSE /\ orig' = [orig EXCEPT ![h] = target[s]]
              /\ stopped' = (allocating # Nothing)
              /\ returned' = [returned EXCEPT ![h] = IF stopped' THEN @ ELSE TRUE]
              /\ IF stopped' \/ room = 0
                   THEN UNCHANGED <<target, hooked, room>>
                   ELSE /\ target' = [target EXCEPT ![s] = h]
                        /\ hooked' = [hooked EXCEPT ![s] = Append(@, h)]
                        /\ room' = room - 1
    /\ UNCHANGED <<allocating, ended>>

(* JITASM: the constructor starts the allocation.                          *)
StartAlloc(c) == /\ ~stopped /\ ended[c] = Nothing
                 /\ stopped' = (allocating # Nothing)
                 /\ allocating' = IF stopped' THEN allocating ELSE c
                 /\ ended' = [ended EXCEPT ![c] = FALSE]
                 /\ UNCHANGED <<target, orig, returned, hooked, room>>

(* done, which get calls too; the generator keeps to the room there is.    *)
Done(c) == /\ ~stopped /\ ended[c] # Nothing
           /\ IF ended[c] THEN UNCHANGED <<room, allocating, ended>>
              ELSE /\ CodeSize[c] <= room
                   /\ ended' = [ended EXCEPT ![c] = TRUE]
                   /\ allocating' = Nothing /\ room' = room - CodeSize[c]
           /\ UNCHANGED <<target, orig, returned, hooked, stopped>>

Next == \/ \E kind \in DOMAIN Wanted, s \in Sites, h \in Hooks : Hook(kind, s, h)
        \/ \E c \in Codes : StartAlloc(c) \/ Done(c)

Spec == Init /\ [][Next]_vars

-----------------------------------------------------------------------------
(* From every site the functions that were written there are reached, the  *)
(* last one first and each once, and then the game's; a function that was  *)
(* told of success is not among them only if the trampoline was used up    *)
(* (IHook.h:89-199).                                                       *)
Chained ==
    /\ \A s \in Sites :
         LET chain == <<s>> \o hooked[s] IN
         /\ target[s] = Last(chain)
         /\ \A i \in DOMAIN hooked[s] : orig[hooked[s][i]] = chain[i]
    /\ \A h \in Hooks : returned[h] = TRUE =>
         \/ room = 0
         \/ \E s \in Sites : h \in ToSet(hooked[s])

(* Code is generated by one at a time, whose allocation only it has ended, *)
(* however often it is asked for its code (JITASM.cpp:7-24).               *)
OneGenerator == ~stopped => \A c \in Codes : ended[c] = FALSE <=> allocating = c
=============================================================================
