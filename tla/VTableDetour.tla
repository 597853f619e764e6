---------------------------- MODULE VTableDetour ----------------------------
(***************************************************************************)
(* VFT.h: Detour, Detour2 and Detour_s put a function in a slot of a       *)
(* virtual table and store what was there where the function calls on to.  *)
(* The slots are on one page, which each call makes writable and then puts *)
(* back to what it found, so that calls at the same time may leave it      *)
(* writable or fault. A function goes to one slot; Detour and Detour2 are  *)
(* given functions that nobody has installed or is installing, Detour_s    *)
(* any (the users' contract). Nothing is modelled after a fault.           *)
(***************************************************************************)
EXTENDS Integers, Sequences, SequencesExt

CONSTANTS Callers, Slots,
          FuncsOf,  \* FuncsOf[s]: the functions that may go to slot s
          Final,    \* the functions that call on to nothing
          MaxCalls, \* bound: calls made
          None

Funcs == UNION {FuncsOf[s] : s \in Slots}

VTableDetourAssumption ==
    /\ \A s \in Slots : s \notin Funcs /\ None \notin FuncsOf[s]
    /\ \A s, o \in Slots : s # o => FuncsOf[s] \cap FuncsOf[o] = {}
    /\ MaxCalls \in Nat

VARIABLES slot,       \* the table; a slot holds itself for the game's function
          prot,       \* protection of the page
          original,   \* original[f]: *oldp, where f calls on to
          detour,     \* detour[t]: the call t is in
          calls,
          log,        \* log[s]: what was put in s, in order
          overlapped, \* two calls were in progress at once
          faulted     \* the page was written while it was protected

vars == <<slot, prot, original, detour, calls, log, overlapped, faulted>>

Idle == [step |-> "idle", kind |-> "none", s |-> None, f |-> None, old |-> None, prot |-> "rx"]

Init == /\ slot = [s \in Slots |-> s]
        /\ prot = "rx"
        /\ original = [f \in Funcs |-> None]
        /\ detour = [t \in Callers |-> Idle]
        /\ calls = 0
        /\ log = [s \in Slots |-> << >>]
        /\ overlapped = FALSE /\ faulted = FALSE

Busy == {t \in Callers : detour[t].step # "idle"}

Step(t, from, to) == detour[t].step = from /\ detour' = [detour EXCEPT ![t].step = to]

(* Detour2 with oldp is Detour, and without it is for a final function.    *)
Begin(t, kind, s, f) ==
    /\ detour[t].step = "idle" /\ calls < MaxCalls
    /\ kind # "Detour_s" => /\ \A i \in DOMAIN log[s] : log[s][i] # f
                            /\ \A u \in Callers : detour[u].f # f
    /\ kind = "Detour_s" => f \notin Final /\ \A u \in Busy : detour[u].f = f => detour[u].kind = kind
    /\ detour' = [detour EXCEPT ![t] =
                    [step |-> "protect", kind |-> kind, s |-> s, f |-> f, old |-> None, prot |-> "rx"]]
    /\ calls' = calls + 1
    /\ overlapped' = (overlapped \/ Busy # {})
    /\ UNCHANGED <<slot, prot, original, log, faulted>>

(* VirtualProtect to read, write and execute; the call may be refused.     *)
Unprotect(t) ==
    /\ detour[t].step = "protect"
    /\ \/ /\ detour' = [detour EXCEPT ![t] = Idle]
          /\ UNCHANGED prot
       \/ /\ detour' = [detour EXCEPT ![t].prot = prot, ![t].step =
                          IF detour[t].kind = "Detour_s" THEN "read" ELSE "exchange"]
          /\ prot' = "rwx"
    /\ UNCHANGED <<slot, original, calls, log, overlapped, faulted>>

(* The write of the slot, by an exchange: it faults on a protected page.   *)
Write(t) ==
    LET d == detour[t] IN
    IF prot = "rx"
      THEN faulted' = TRUE /\ UNCHANGED <<slot, log, detour>>
      ELSE /\ slot' = [slot EXCEPT ![d.s] = d.f]
           /\ log' = [log EXCEPT ![d.s] = Append(@, d.f)]
           /\ detour' = [detour EXCEPT ![t].old = slot[d.s], ![t].step = "store"]
           /\ UNCHANGED faulted

Exchange(t) == /\ detour[t].step = "exchange"
               /\ Write(t)
               /\ UNCHANGED <<prot, original, calls, overlapped>>

Read(t) == /\ detour[t].step = "read"
           /\ LET now == slot[detour[t].s] IN
              detour' = [detour EXCEPT ![t].old = now, ![t].step =
                           IF now = detour[t].f THEN "restore" ELSE "swap"]
           /\ UNCHANGED <<slot, prot, original, calls, log, overlapped, faulted>>

(* A variant that does not look again whether the slot has changed.        *)
SwapBlind(t) == /\ detour[t].step = "swap"
                /\ Write(t)
                /\ UNCHANGED <<prot, original, calls, overlapped>>

(* A variant that gives what was read to the next attempt.                 *)
SwapAgain(t) == /\ detour[t].step = "swap"
                /\ IF slot[detour[t].s] = detour[t].old \/ prot = "rx"
                     THEN Write(t)
                     ELSE UNCHANGED <<detour, slot, log, faulted>>
                /\ UNCHANGED <<prot, original, calls, overlapped>>

Swap(t) == /\ detour[t].step = "swap"
           /\ IF slot[detour[t].s] = detour[t].old \/ prot = "rx"
                THEN Write(t)
                ELSE Step(t, "swap", "read") /\ UNCHANGED <<slot, log, faulted>>
           /\ UNCHANGED <<prot, original, calls, overlapped>>

Store(t) == /\ Step(t, "store", "restore")
            /\ original' = IF detour[t].f \in Final THEN original
                           ELSE [original EXCEPT ![detour[t].f] = detour[t].old]
            /\ UNCHANGED <<slot, prot, calls, log, overlapped, faulted>>

Restore(t) == /\ detour[t].step = "restore"
              /\ prot' = detour[t].prot
              /\ detour' = [detour EXCEPT ![t] = Idle]
              /\ UNCHANGED <<slot, original, calls, log, overlapped, faulted>>

CallStep(t) == Unprotect(t) \/ Exchange(t) \/ Read(t) \/ Swap(t) \/ Store(t) \/ Restore(t)

Next == /\ ~faulted
        /\ \E t \in Callers :
             \/ \E kind \in {"Detour", "Detour_s"}, s \in Slots :
                  \E f \in FuncsOf[s] : Begin(t, kind, s, f)
             \/ CallStep(t)

Spec == Init /\ [][Next]_vars /\ \A t \in Callers : WF_vars(~faulted /\ CallStep(t))

-----------------------------------------------------------------------------
TypeOK == /\ \A s \in Slots : slot[s] \in FuncsOf[s] \cup {s} /\ log[s] \in Seq(FuncsOf[s])
          /\ prot \in {"rx", "rwx"}
          /\ original \in [Funcs -> Funcs \cup Slots \cup {None}]
          /\ calls \in 0..MaxCalls

(* The functions of a slot call on to each other in the order they were    *)
(* installed, down to the game's, once the calls that put them there have  *)
(* stored it: no detour of another thread is lost. That needs every        *)
(* function to be installed once, which Detour_s does not look at beyond   *)
(* the top of the slot (lines 73-91).                                      *)
ChainsIntact ==
    \A s \in Slots :
        LET chain == <<s>> \o log[s] IN
        /\ slot[s] = Last(chain)
        /\ IsInjective(log[s]) =>
             \A i \in 2..Len(chain) :
                \/ original[chain[i]] = chain[i - 1]
                \/ chain[i] \in Final
                \/ \E t \in Busy : detour[t].step = "store" /\ detour[t].f = chain[i]

(* Detour_s does not install a function over itself, whoever installs it   *)
(* at the same time: such a function would call itself (lines 80-86).      *)
NotOverItself == \A s \in Slots : \A i \in 1..Len(log[s]) - 1 : log[s][i] # log[s][i + 1]

(* A page is as it was when nobody is in a call, and no write faults, as   *)
(* long as calls do not overlap (25-38, 49-67, 100-111).                   *)
ProtectionKept == ~overlapped => ~faulted /\ (Busy = {} => prot = "rx")

Detours == ChainsIntact /\ NotOverItself /\ ProtectionKept

(* A call returns, though others may take the slot from Detour_s between   *)
(* its read and its exchange (lines 79-86).                                *)
DetourReturns == \A t \in Callers : detour[t].step # "idle" ~> faulted \/ detour[t].step = "idle"
=============================================================================
