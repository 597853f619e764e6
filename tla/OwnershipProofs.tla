-------------------------- MODULE OwnershipProofs --------------------------
(***************************************************************************)
(* Proofs about MCOwnership for any threads, objects, slots, functions,    *)
(* handles, call sites and streams: who may use what.                      *)
(***************************************************************************)
EXTENDS MCOwnership, SequenceTheorems, FiniteSetTheorems, TLAPS

-----------------------------------------------------------------------------
(* A base and what is put on it, one on the other                          *)

(* What is under the i-th of q, and for i past the last what is on top.    *)
Under(b, q, i) == IF i = 1 THEN b ELSE q[i - 1]

(* A base followed by a sequence.                                          *)
LEMMA ChainUnder ==
  ASSUME NEW S, NEW q \in Seq(S), NEW b
  PROVE  /\ Len(<<b>> \o q) = Len(q) + 1
         /\ \A i \in 1..Len(q) + 1 : (<<b>> \o q)[i] = Under(b, q, i)
         /\ Last(<<b>> \o q) = Under(b, q, Len(q) + 1)
<1>1. <<b>> \in Seq(S \cup {b}) /\ q \in Seq(S \cup {b}) /\ Len(<<b>>) = 1 /\ <<b>>[1] = b
      /\ Len(q) \in Nat
  OBVIOUS
<1>2. Len(<<b>> \o q) = Len(q) + 1
  BY <1>1
<1>3. \A i \in 1..Len(q) + 1 : (<<b>> \o q)[i] = Under(b, q, i)
  BY <1>1, ConcatProperties DEF Under
<1> QED
  BY <1>1, <1>2, <1>3 DEF Last

-----------------------------------------------------------------------------
(* The slots of a virtual table                                            *)

Steps == {"idle", "protect", "exchange", "read", "swap", "store", "restore"}

SlotsTyped == /\ slot \in [Slots -> Table!Funcs \cup Slots]
              /\ log \in [Slots -> Seq(Table!Funcs)]
              /\ \A s \in Slots : /\ slot[s] \in FuncsOf[s] \cup {s}
                                   /\ log[s] \in Seq(FuncsOf[s])
              /\ original \in [Table!Funcs -> Table!Funcs \cup Slots \cup {None}]
              /\ prot \in {"rx", "rwx"}
              /\ calls \in 0..MaxCalls

(* A call is of the kind that makes its steps, and knows what it does.     *)
DetoursTyped ==
    /\ detour \in [Callers -> [step : Steps, kind : {"none", "Detour", "Detour_s"},
                               s : Slots \cup {None}, f : Table!Funcs \cup {None},
                               old : Table!Funcs \cup Slots \cup {None},
                               prot : {"rx", "rwx"}]]
    /\ \A t \in Callers : LET d == detour[t] IN
         /\ d.step # "idle" => d.s \in Slots /\ d.f \in FuncsOf[d.s] /\ d.kind # "none"
         /\ d.step = "exchange" => d.kind = "Detour"
         /\ d.step \in {"read", "swap"} => d.kind = "Detour_s"
         /\ d.step = "swap" => d.old # d.f

(* What Detour is given nobody else is installing, and it is in no slot.   *)
DetourAlone ==
    \A t \in Callers : detour[t].step # "idle" /\ detour[t].kind = "Detour" =>
        /\ \A u \in Callers \ {t} : detour[u].step # "idle" => detour[u].f # detour[t].f
        /\ detour[t].step \in {"protect", "exchange"} =>
             \A i \in DOMAIN log[detour[t].s] : log[detour[t].s][i] # detour[t].f

(* The last function put in a slot is in it, each calls on to what was     *)
(* under it, and a call that has yet to store that knows it.               *)
SlotChained ==
    /\ \A s \in Slots :
         /\ slot[s] = Under(s, log[s], Len(log[s]) + 1)
         /\ IsInjective(log[s]) => \A i \in 1..Len(log[s]) :
              \/ original[log[s][i]] = Under(s, log[s], i)
              \/ log[s][i] \in Final
              \/ \E t \in Callers : detour[t].step = "store" /\ detour[t].f = log[s][i]
    /\ \A t \in Callers : detour[t].step = "store" =>
         \E i \in 1..Len(log[detour[t].s]) :
           /\ log[detour[t].s][i] = detour[t].f
           /\ detour[t].old = Under(detour[t].s, log[detour[t].s], i)

(* Calls that do not overlap find the page protected and leave it so.      *)
PageKept ==
    /\ overlapped \in BOOLEAN /\ faulted \in BOOLEAN
    /\ ~overlapped =>
         /\ ~faulted
         /\ \A t, u \in Callers : detour[t].step # "idle" /\ detour[u].step # "idle" => t = u
         /\ \A t \in Callers : detour[t].step \notin {"idle", "protect"} =>
              prot = "rwx" /\ detour[t].prot = "rx"
         /\ (\A t \in Callers : detour[t].step \in {"idle", "protect"}) => prot = "rx"

TableInv == SlotsTyped /\ DetoursTyped /\ DetourAlone /\ SlotChained
              /\ Table!NotOverItself /\ PageKept

(* The operators of the instance are those of the library.                 *)
LEMMA TableOperators ==
  /\ \A q : Table!IsInjective(q) = IsInjective(q)
  /\ \A q : Table!Last(q) = Last(q)
<1>1. ASSUME NEW q PROVE Table!IsInjective(q) = IsInjective(q)
  BY DEF Table!IsInjective, IsInjective
<1>2. ASSUME NEW q PROVE Table!Last(q) = Last(q)
  BY DEF Table!Last, Last
<1> QED
  BY <1>1, <1>2

(* The functions of a slot are functions.                                  *)
LEMMA FuncsOfSlot == \A s \in Slots : FuncsOf[s] \subseteq Table!Funcs
  BY DEF Table!Funcs

(* The invariant is what Detours says of the table.                        *)
LEMMA TableInvDetours == TableInv => Table!TypeOK /\ Table!Detours
<1> SUFFICES ASSUME TableInv PROVE Table!TypeOK /\ Table!Detours
  OBVIOUS
<1>1. Table!TypeOK
  BY DEF TableInv, SlotsTyped, Table!TypeOK
<1>2. Table!ChainsIntact
  <2> SUFFICES ASSUME NEW s \in Slots
               PROVE  LET c == <<s>> \o log[s] IN
                      /\ slot[s] = Table!Last(c)
                      /\ Table!IsInjective(log[s]) =>
                           \A i \in 2..Len(c) :
                              \/ original[c[i]] = c[i - 1]
                              \/ c[i] \in Final
                              \/ \E t \in Table!Busy : detour[t].step = "store" /\ detour[t].f = c[i]
    BY DEF Table!ChainsIntact
  <2> DEFINE c == <<s>> \o log[s]
             q == log[s]
  <2>1. q \in Seq(FuncsOf[s]) /\ Len(q) \in Nat
    BY DEF TableInv, SlotsTyped
  <2>2. /\ Len(c) = Len(q) + 1
        /\ \A i \in 1..Len(q) + 1 : c[i] = Under(s, q, i)
        /\ Last(c) = Under(s, q, Len(q) + 1)
    BY <2>1, ChainUnder
  <2>3. slot[s] = Table!Last(c)
    BY <2>2, TableOperators DEF TableInv, SlotChained
  <2>4. ASSUME IsInjective(q), NEW i \in 2..Len(c)
        PROVE  \/ original[c[i]] = c[i - 1]
               \/ c[i] \in Final
               \/ \E t \in Table!Busy : detour[t].step = "store" /\ detour[t].f = c[i]
    <3>1. i - 1 \in 1..Len(q) /\ i # 1 /\ i \in 1..Len(q) + 1 /\ i - 1 \in 1..Len(q) + 1
      BY <2>1, <2>2
    <3>2. c[i] = q[i - 1] /\ c[i - 1] = Under(s, q, i - 1)
      BY <2>2, <3>1 DEF Under
    <3>3. \/ original[q[i - 1]] = Under(s, q, i - 1)
          \/ q[i - 1] \in Final
          \/ \E t \in Callers : detour[t].step = "store" /\ detour[t].f = q[i - 1]
      BY <2>4, <3>1 DEF TableInv, SlotChained
    <3> QED
      BY <3>2, <3>3 DEF Table!Busy
  <2> QED
    BY <2>3, <2>4, TableOperators
<1>3. Table!ProtectionKept
  BY DEF TableInv, PageKept, Table!ProtectionKept, Table!Busy
<1> QED
  BY <1>1, <1>2, <1>3 DEF Table!Detours, TableInv

(* No slot is detoured to begin with.                                      *)
LEMMA TableInitInv == Table!Init => TableInv
<1> SUFFICES ASSUME Table!Init PROVE TableInv
  OBVIOUS
<1>1. MaxCalls \in Nat
  BY OwnershipAssumption DEF Table!VTableDetourAssumption
<1>2. SlotsTyped
  BY <1>1 DEF Table!Init, SlotsTyped
<1>3. DetoursTyped
  BY DEF Table!Init, Table!Idle, DetoursTyped, Steps
<1>4. DetourAlone
  BY DEF Table!Init, Table!Idle, DetourAlone
<1>5. SlotChained /\ Table!NotOverItself
  BY DEF Table!Init, Table!Idle, SlotChained, Table!NotOverItself, Under
<1>6. PageKept
  BY DEF Table!Init, Table!Idle, PageKept
<1> QED
  BY <1>2, <1>3, <1>4, <1>5, <1>6 DEF TableInv

(* A step that neither writes a slot nor stores.                           *)
LEMMA QuietStep ==
  ASSUME TableInv, UNCHANGED <<slot, log, original>>,
         \A u \in Callers : detour'[u].step = "store" \/ detour[u].step = "store"
                              => detour'[u] = detour[u]
  PROVE  SlotChained' /\ Table!NotOverItself'
<1>1. Table!NotOverItself'
  BY DEF TableInv, Table!NotOverItself
<1>2. ASSUME NEW s \in Slots
      PROVE  /\ slot'[s] = Under(s, log'[s], Len(log'[s]) + 1)
             /\ IsInjective(log'[s]) => \A i \in 1..Len(log'[s]) :
                  \/ original'[log'[s][i]] = Under(s, log'[s], i)
                  \/ log'[s][i] \in Final
                  \/ \E t \in Callers : detour'[t].step = "store" /\ detour'[t].f = log'[s][i]
  BY DEF TableInv, SlotChained
<1>3. ASSUME NEW t \in Callers, detour'[t].step = "store"
      PROVE  \E i \in 1..Len(log'[detour'[t].s]) :
               /\ log'[detour'[t].s][i] = detour'[t].f
               /\ detour'[t].old = Under(detour'[t].s, log'[detour'[t].s], i)
  <2>1. detour'[t] = detour[t] /\ detour[t].step = "store"
    BY <1>3
  <2> QED
    BY <2>1 DEF TableInv, SlotChained
<1> QED
  BY <1>1, <1>2, <1>3 DEF SlotChained

(* A call of Detour or Detour_s knows its slot and function                *)
(* (VFT.h:19-112).                                                         *)
LEMMA TableBeginInv ==
  ASSUME TableInv, NEW t \in Callers, NEW kind \in {"Detour", "Detour_s"},
         NEW s \in Slots, NEW f \in FuncsOf[s], Table!Begin(t, kind, s, f)
  PROVE  TableInv'
<1>a. SlotsTyped /\ DetoursTyped /\ DetourAlone /\ SlotChained /\ Table!NotOverItself /\ PageKept
  BY DEF TableInv
<1>1. /\ detour[t].step = "idle" /\ calls < MaxCalls /\ calls' = calls + 1
      /\ overlapped' = (overlapped \/ Table!Busy # {})
      /\ UNCHANGED <<slot, prot, original, log, faulted>>
  BY DEF Table!Begin
<1>2. detour' = [detour EXCEPT ![t] = [step |-> "protect", kind |-> kind, s |-> s, f |-> f,
                                       old |-> None, prot |-> "rx"]]
  BY DEF Table!Begin
<1>3. f \in Table!Funcs
  BY FuncsOfSlot
<1>4. /\ detour'[t] = [step |-> "protect", kind |-> kind, s |-> s, f |-> f,
                       old |-> None, prot |-> "rx"]
      /\ \A u \in Callers \ {t} : detour'[u] = detour[u]
  BY <1>a, <1>2 DEF DetoursTyped
<1>5. SlotsTyped'
  <2>1. MaxCalls \in Nat
    BY OwnershipAssumption DEF Table!VTableDetourAssumption
  <2>2. calls' \in 0..MaxCalls
    BY <1>a, <1>1, <2>1 DEF SlotsTyped
  <2> QED
    BY <1>a, <1>1, <2>2 DEF SlotsTyped
<1>6. DetoursTyped'
  <2>1. detour' \in [Callers -> [step : Steps, kind : {"none", "Detour", "Detour_s"},
                               s : Slots \cup {None}, f : Table!Funcs \cup {None},
                               old : Table!Funcs \cup Slots \cup {None},
                               prot : {"rx", "rwx"}]]
    BY <1>a, <1>2, <1>3 DEF DetoursTyped, Steps
  <2> QED
    BY <1>a, <1>4, <2>1 DEF DetoursTyped
<1>7. DetourAlone'
  <2>1. kind = "Detour" => /\ \A i \in DOMAIN log[s] : log[s][i] # f
                           /\ \A u \in Callers : detour[u].f # f
    BY DEF Table!Begin
  <2>2. kind = "Detour_s" => \A u \in Callers :
          detour[u].step # "idle" /\ detour[u].f = f => detour[u].kind = kind
    BY DEF Table!Begin, Table!Busy
  <2> QED
    BY <1>a, <1>1, <1>4, <2>1, <2>2 DEF DetourAlone
<1>8. SlotChained' /\ Table!NotOverItself'
  BY <1>1, <1>4, QuietStep
<1>9. PageKept'
  <2>1. CASE overlapped'
    BY <1>a, <1>1, <2>1 DEF PageKept
  <2>2. CASE ~overlapped'
    <3>1. ~overlapped /\ \A u \in Callers : detour[u].step = "idle"
      BY <1>1, <2>2 DEF Table!Busy
    <3> QED
      BY <1>a, <1>1, <1>4, <3>1 DEF PageKept
  <2> QED
    BY <2>1, <2>2
<1> QED
  BY <1>5, <1>6, <1>7, <1>8, <1>9 DEF TableInv

(* The page becomes writable, unless that is refused.                      *)
LEMMA TableUnprotectInv ==
  ASSUME TableInv, NEW t \in Callers, Table!Unprotect(t)
  PROVE  TableInv'
<1>a. SlotsTyped /\ DetoursTyped /\ DetourAlone /\ SlotChained /\ Table!NotOverItself /\ PageKept
  BY DEF TableInv
<1>1. /\ detour[t].step = "protect"
      /\ UNCHANGED <<slot, original, calls, log, overlapped, faulted>>
  BY DEF Table!Unprotect
<1>2. \/ /\ detour' = [detour EXCEPT ![t] = Table!Idle]
         /\ prot' = prot
      \/ /\ detour' = [detour EXCEPT ![t].prot = prot, ![t].step =
                          IF detour[t].kind = "Detour_s" THEN "read" ELSE "exchange"]
         /\ prot' = "rwx"
  BY DEF Table!Unprotect
<1>3. /\ \A u \in Callers \ {t} : detour'[u] = detour[u]
      /\ \/ detour'[t] = Table!Idle /\ prot' = prot
         \/ /\ detour'[t].step = IF detour[t].kind = "Detour_s" THEN "read" ELSE "exchange"
            /\ detour'[t].kind = detour[t].kind /\ detour'[t].s = detour[t].s
            /\ detour'[t].f = detour[t].f /\ detour'[t].prot = prot /\ prot' = "rwx"
  BY <1>a, <1>2 DEF DetoursTyped
<1>4. SlotsTyped'
  BY <1>a, <1>1, <1>2 DEF SlotsTyped
<1>5. DetoursTyped'
  <2>1. detour' \in [Callers -> [step : Steps, kind : {"none", "Detour", "Detour_s"},
                               s : Slots \cup {None}, f : Table!Funcs \cup {None},
                               old : Table!Funcs \cup Slots \cup {None},
                               prot : {"rx", "rwx"}]]
    <3>1. CASE detour' = [detour EXCEPT ![t] = Table!Idle]
      <4>1. Table!Idle \in [step : Steps, kind : {"none", "Detour", "Detour_s"},
                           s : Slots \cup {None}, f : Table!Funcs \cup {None},
                           old : Table!Funcs \cup Slots \cup {None},
                           prot : {"rx", "rwx"}]
        BY DEF Table!Idle, Steps
      <4> QED
        BY <1>a, <3>1, <4>1 DEF DetoursTyped
    <3>2. CASE detour' = [detour EXCEPT ![t].prot = prot, ![t].step =
                            IF detour[t].kind = "Detour_s" THEN "read" ELSE "exchange"]
      <4>1. prot \in {"rx", "rwx"}
        BY <1>a DEF SlotsTyped
      <4>2. PICK x \in Steps : x = IF detour[t].kind = "Detour_s" THEN "read" ELSE "exchange"
        BY DEF Steps
      <4>3. detour' = [detour EXCEPT ![t].prot = prot, ![t].step = x]
        BY <3>2, <4>2
      <4> QED
        BY <1>a, <4>1, <4>3 DEF DetoursTyped
    <3> QED
      BY <1>2, <3>1, <3>2
  <2>2. detour[t].kind \in {"none", "Detour", "Detour_s"}
    BY <1>a DEF DetoursTyped
  <2>3. detour[t].s \in Slots /\ detour[t].f \in FuncsOf[detour[t].s]
    BY <1>a, <1>1 DEF DetoursTyped
  <2>4. detour[t].kind # "none"
    BY <1>a, <1>1 DEF DetoursTyped
  <2>5. ASSUME NEW u \in Callers
        PROVE  LET d == detour'[u] IN
               /\ d.step # "idle" => d.s \in Slots /\ d.f \in FuncsOf[d.s] /\ d.kind # "none"
               /\ d.step = "exchange" => d.kind = "Detour"
               /\ d.step \in {"read", "swap"} => d.kind = "Detour_s"
               /\ d.step = "swap" => d.old # d.f
    <3>1. CASE u # t
      BY <1>a, <1>3, <3>1 DEF DetoursTyped
    <3>2. CASE u = t
      BY <1>3, <2>2, <2>3, <2>4, <3>2 DEF Table!Idle
    <3> QED
      BY <3>1, <3>2
  <2> QED
    BY <2>1, <2>5 DEF DetoursTyped
<1>6. DetourAlone'
  BY <1>a, <1>1, <1>3 DEF DetourAlone, Table!Idle
<1>7. SlotChained' /\ Table!NotOverItself'
  BY <1>1, <1>3, QuietStep DEF Table!Idle
<1>8. PageKept'
  BY <1>a, <1>1, <1>3 DEF PageKept, Table!Idle
<1> QED
  BY <1>4, <1>5, <1>6, <1>7, <1>8 DEF TableInv

(* A step within a call that leaves the page writable.                     *)
LEMMA PageInside ==
  ASSUME PageKept, NEW t \in Callers,
         detour[t].step \notin {"idle", "protect"}, detour'[t].step \notin {"idle", "protect"},
         detour'[t].prot = detour[t].prot,
         \A u \in Callers \ {t} : detour'[u] = detour[u],
         UNCHANGED <<prot, overlapped, faulted>>
  PROVE  PageKept'
<1>1. \A u \in Callers : /\ detour'[u].step = "idle" <=> detour[u].step = "idle"
                        /\ detour'[u].step \notin {"idle", "protect"}
                             <=> detour[u].step \notin {"idle", "protect"}
                        /\ detour'[u].prot = detour[u].prot
  OBVIOUS
<1>2. CASE overlapped
  BY <1>2 DEF PageKept
<1>3. CASE ~overlapped
  <2>1. /\ ~faulted
        /\ \A v, u \in Callers : detour[v].step # "idle" /\ detour[u].step # "idle" => v = u
        /\ \A u \in Callers : detour[u].step \notin {"idle", "protect"} =>
             prot = "rwx" /\ detour[u].prot = "rx"
    BY <1>3 DEF PageKept
  <2>2. \A v, u \in Callers :
          detour'[v].step # "idle" /\ detour'[u].step # "idle" => v = u
    BY <1>1, <2>1
  <2>3. ASSUME NEW u \in Callers, detour'[u].step \notin {"idle", "protect"}
        PROVE  prot' = "rwx" /\ detour'[u].prot = "rx"
    <3>1. detour[u].step \notin {"idle", "protect"} /\ detour'[u].prot = detour[u].prot
      BY <1>1, <2>3
    <3> QED
      BY <2>1, <3>1
  <2>4. ~ \A u \in Callers : detour'[u].step \in {"idle", "protect"}
    OBVIOUS
  <2>5. overlapped' \in BOOLEAN /\ faulted' \in BOOLEAN /\ ~faulted'
    BY <2>1 DEF PageKept
  <2> QED
    BY <2>2, <2>3, <2>4, <2>5 DEF PageKept
<1> QED
  BY <1>2, <1>3

(* The write of a slot, by Exchange and by Swap.                           *)
LEMMA TableWriteInv ==
  ASSUME TableInv, NEW t \in Callers, detour[t].step \in {"exchange", "swap"},
         prot = "rwx" => slot[detour[t].s] # detour[t].f,
         Table!Write(t), UNCHANGED <<prot, original, calls, overlapped>>
  PROVE  TableInv'
<1>a. SlotsTyped /\ DetoursTyped /\ DetourAlone /\ SlotChained /\ Table!NotOverItself /\ PageKept
  BY DEF TableInv
<1>1. CASE prot = "rx"
  <2>1. faulted' = TRUE /\ UNCHANGED <<slot, log, detour, prot, original, calls, overlapped>>
    BY <1>1 DEF Table!Write
  <2>2. overlapped
    BY <1>a, <1>1 DEF PageKept
  <2>3. PageKept'
    BY <1>a, <2>1, <2>2 DEF PageKept
  <2>4. SlotChained' /\ Table!NotOverItself'
    BY <2>1, QuietStep
  <2>5. SlotsTyped' /\ DetoursTyped' /\ DetourAlone'
    BY <1>a, <2>1 DEF SlotsTyped, DetoursTyped, DetourAlone
  <2> QED
    BY <2>3, <2>4, <2>5 DEF TableInv
<1>2. CASE prot = "rwx"
  <2>1. PICK s, f, now : s = detour[t].s /\ f = detour[t].f /\ now = slot[s]
    OBVIOUS
  <2>2. /\ slot' = [slot EXCEPT ![s] = f]
        /\ log' = [log EXCEPT ![s] = Append(@, f)]
        /\ detour' = [detour EXCEPT ![t].old = now, ![t].step = "store"]
        /\ UNCHANGED <<faulted, prot, original, calls, overlapped>>
    BY <1>2, <2>1 DEF Table!Write
  <2>3. /\ s \in Slots /\ f \in FuncsOf[s] /\ f \in Table!Funcs /\ now # f
        /\ now \in Table!Funcs \cup Slots
    BY <1>a, <1>2, <2>1, FuncsOfSlot DEF DetoursTyped, SlotsTyped
  <2>4. /\ detour'[t].step = "store" /\ detour'[t].kind = detour[t].kind
        /\ detour'[t].s = s /\ detour'[t].f = f
        /\ detour'[t].old = now /\ detour'[t].prot = detour[t].prot
        /\ \A u \in Callers \ {t} : detour'[u] = detour[u]
    BY <1>a, <2>1, <2>2 DEF DetoursTyped
  <2>5. PICK q \in Seq(FuncsOf[s]) : q = log[s]
    BY <1>a, <2>3 DEF SlotsTyped
  <2>6. /\ Len(q) \in Nat
        /\ Append(q, f) \in Seq(FuncsOf[s]) /\ Len(Append(q, f)) = Len(q) + 1
        /\ \A i \in 1..Len(q) : Append(q, f)[i] = q[i]
        /\ Append(q, f)[Len(q) + 1] = f
        /\ \A i \in 1..Len(q) + 1 : Under(s, Append(q, f), i) = Under(s, q, i)
        /\ Under(s, Append(q, f), Len(q) + 2) = f
    <3>1. PICK S : S = FuncsOf[s]
      OBVIOUS
    <3>2. q \in Seq(S) /\ f \in S
      BY <2>3, <2>5, <3>1
    <3>3. /\ Append(q, f) \in Seq(S) /\ Len(Append(q, f)) = Len(q) + 1
          /\ \A i \in 1..Len(q) : Append(q, f)[i] = q[i]
          /\ Append(q, f)[Len(q) + 1] = f
      BY <3>2, AppendProperties
    <3>4. Len(q) \in Nat
      BY <3>2
    <3>5. /\ \A i \in 1..Len(q) + 1 : Under(s, Append(q, f), i) = Under(s, q, i)
          /\ Under(s, Append(q, f), Len(q) + 2) = f
      BY <3>3, <3>4 DEF Under
    <3> QED
      BY <3>1, <3>3, <3>4, <3>5
  <2>7. /\ log'[s] = Append(q, f) /\ slot'[s] = f
        /\ \A o \in Slots \ {s} : log'[o] = log[o] /\ slot'[o] = slot[o]
    BY <1>a, <2>2, <2>3, <2>5 DEF SlotsTyped
  <2>8. SlotsTyped'
    <3>1. Append(q, f) \in Seq(Table!Funcs)
      BY <2>3, <2>5, <1>a, AppendProperties DEF SlotsTyped
    <3>2. log' \in [Slots -> Seq(Table!Funcs)]
      BY <1>a, <2>2, <2>5, <3>1 DEF SlotsTyped
    <3>3. slot' \in [Slots -> Table!Funcs \cup Slots]
      BY <1>a, <2>2, <2>3 DEF SlotsTyped
    <3>4. \A o \in Slots : slot'[o] \in FuncsOf[o] \cup {o} /\ log'[o] \in Seq(FuncsOf[o])
      BY <1>a, <2>3, <2>6, <2>7 DEF SlotsTyped
    <3> QED
      BY <1>a, <2>2, <3>2, <3>3, <3>4 DEF SlotsTyped
  <2>9. DetoursTyped'
    <3>1. detour' \in [Callers -> [step : Steps, kind : {"none", "Detour", "Detour_s"},
                               s : Slots \cup {None}, f : Table!Funcs \cup {None},
                               old : Table!Funcs \cup Slots \cup {None},
                               prot : {"rx", "rwx"}]]
      BY <1>a, <2>2, <2>3 DEF DetoursTyped, Steps
    <3>2. detour[t].kind # "none"
      BY <1>a DEF DetoursTyped
    <3> QED
      BY <1>a, <2>3, <2>4, <3>1, <3>2 DEF DetoursTyped
  <2>10. DetourAlone'
    <3>1. ASSUME NEW u \in Callers, detour'[u].step # "idle", detour'[u].kind = "Detour"
          PROVE  /\ \A v \in Callers \ {u} : detour'[v].step # "idle" => detour'[v].f # detour'[u].f
                 /\ detour'[u].step \in {"protect", "exchange"} =>
                      \A i \in DOMAIN log'[detour'[u].s] : log'[detour'[u].s][i] # detour'[u].f
      <4>1. /\ detour[u].step # "idle" /\ detour[u].kind = "Detour"
            /\ detour'[u].f = detour[u].f /\ detour'[u].s = detour[u].s
            /\ \A v \in Callers : /\ detour'[v].step # "idle" => detour[v].step # "idle"
                                   /\ detour'[v].f = detour[v].f
        BY <2>1, <2>4, <3>1
      <4>2. \A v \in Callers \ {u} : detour'[v].step # "idle" => detour'[v].f # detour'[u].f
        BY <1>a, <4>1 DEF DetourAlone
      <4>3. ASSUME detour'[u].step \in {"protect", "exchange"},
                   NEW i \in DOMAIN log'[detour'[u].s]
            PROVE  log'[detour'[u].s][i] # detour'[u].f
        <5>1. u # t /\ detour[u].step \in {"protect", "exchange"}
          BY <2>4, <4>3
        <5>2. f # detour[u].f
          BY <1>a, <2>1, <4>1, <5>1 DEF DetourAlone
        <5>3. \A j \in DOMAIN log[detour[u].s] : log[detour[u].s][j] # detour[u].f
          BY <1>a, <4>1, <5>1 DEF DetourAlone
        <5>4. CASE detour[u].s = s
          <6>1. i \in 1..Len(q) + 1
            BY <2>6, <2>7, <4>1, <4>3, <5>4
          <6>2. i \in DOMAIN q \/ i = Len(q) + 1
            BY <2>6, <6>1
          <6> QED
            BY <2>5, <2>6, <2>7, <4>1, <5>2, <5>3, <5>4, <6>2
        <5>5. CASE detour[u].s # s
          <6>1. detour[u].s \in Slots
            BY <1>a, <4>1 DEF DetoursTyped
          <6> QED
            BY <2>7, <4>1, <4>3, <5>3, <5>5, <6>1
        <5> QED
          BY <5>4, <5>5
      <4> QED
        BY <4>2, <4>3
    <3> QED
      BY <3>1 DEF DetourAlone
  <2>11. Table!NotOverItself'
    <3>1. ASSUME NEW i \in 1..Len(log'[s]) - 1 PROVE log'[s][i] # log'[s][i + 1]
      <4>1. i \in 1..Len(q) /\ log'[s][i] = q[i]
        BY <2>6, <2>7, <3>1
      <4>2. CASE i = Len(q)
        <5>1. now = Under(s, q, Len(q) + 1)
          BY <1>a, <2>1, <2>3, <2>5 DEF SlotChained
        <5>2. now = q[Len(q)]
          BY <2>6, <4>1, <4>2, <5>1 DEF Under
        <5> QED
          BY <2>3, <2>6, <2>7, <4>1, <4>2, <5>2
      <4>3. CASE i # Len(q)
        <5>1. i \in 1..Len(q) - 1 /\ i + 1 \in 1..Len(q)
          BY <2>6, <4>1, <4>3
        <5> QED
          BY <1>a, <2>3, <2>5, <2>6, <2>7, <4>1, <5>1 DEF Table!NotOverItself
      <4> QED
        BY <4>2, <4>3
    <3>2. ASSUME NEW o \in Slots \ {s}, NEW i \in 1..Len(log'[o]) - 1
          PROVE  log'[o][i] # log'[o][i + 1]
      <4>1. o \in Slots /\ log'[o] = log[o] /\ i \in 1..Len(log[o]) - 1
        BY <2>7, <3>2
      <4> QED
        BY <1>a, <4>1 DEF Table!NotOverItself
    <3> QED
      BY <3>1, <3>2 DEF Table!NotOverItself
  <2>12. SlotChained'
    <3>1. slot'[s] = Under(s, log'[s], Len(log'[s]) + 1)
      BY <2>6, <2>7
    <3>2. ASSUME IsInjective(log'[s]), NEW i \in 1..Len(log'[s])
          PROVE  \/ original'[log'[s][i]] = Under(s, log'[s], i)
                 \/ log'[s][i] \in Final
                 \/ \E u \in Callers : detour'[u].step = "store" /\ detour'[u].f = log'[s][i]
      <4>1. CASE i = Len(q) + 1
        BY <2>4, <2>6, <2>7, <4>1
      <4>2. CASE i # Len(q) + 1
        <5>1. i \in 1..Len(q) /\ log'[s][i] = q[i] /\ Under(s, log'[s], i) = Under(s, q, i)
          BY <2>6, <2>7, <3>2, <4>2
        <5>2. IsInjective(q)
          <6>1. ASSUME NEW j \in DOMAIN q, NEW k \in DOMAIN q, q[j] = q[k] PROVE j = k
            <7>1. j \in DOMAIN log'[s] /\ k \in DOMAIN log'[s] /\ log'[s][j] = log'[s][k]
              BY <2>6, <2>7, <6>1
            <7> QED
              BY <3>2, <7>1 DEF IsInjective
          <6> QED
            BY <6>1 DEF IsInjective
        <5>3. \/ original[q[i]] = Under(s, q, i)
              \/ q[i] \in Final
              \/ \E u \in Callers : detour[u].step = "store" /\ detour[u].f = q[i]
          BY <1>a, <2>3, <2>5, <5>1, <5>2 DEF SlotChained
        <5>4. \A u \in Callers : detour[u].step = "store" => detour'[u] = detour[u]
          BY <2>4
        <5> QED
          BY <2>2, <5>1, <5>3, <5>4
      <4> QED
        BY <4>1, <4>2
    <3>3. ASSUME NEW o \in Slots \ {s}
          PROVE  /\ slot'[o] = Under(o, log'[o], Len(log'[o]) + 1)
                 /\ IsInjective(log'[o]) => \A i \in 1..Len(log'[o]) :
                      \/ original'[log'[o][i]] = Under(o, log'[o], i)
                      \/ log'[o][i] \in Final
                      \/ \E u \in Callers : detour'[u].step = "store" /\ detour'[u].f = log'[o][i]
      <4>1. \A u \in Callers : detour[u].step = "store" => detour'[u] = detour[u]
        BY <2>4
      <4>2. o \in Slots /\ log'[o] = log[o] /\ slot'[o] = slot[o] /\ original' = original
        BY <2>2, <2>7
      <4>3. /\ slot[o] = Under(o, log[o], Len(log[o]) + 1)
            /\ IsInjective(log[o]) => \A i \in 1..Len(log[o]) :
                 \/ original[log[o][i]] = Under(o, log[o], i)
                 \/ log[o][i] \in Final
                 \/ \E u \in Callers : detour[u].step = "store" /\ detour[u].f = log[o][i]
        BY <1>a, <4>2 DEF SlotChained
      <4>5. ASSUME IsInjective(log'[o]), NEW i \in 1..Len(log'[o])
            PROVE  \/ original'[log'[o][i]] = Under(o, log'[o], i)
                   \/ log'[o][i] \in Final
                   \/ \E u \in Callers : detour'[u].step = "store" /\ detour'[u].f = log'[o][i]
        <5>1. /\ log'[o][i] = log[o][i] /\ Under(o, log'[o], i) = Under(o, log[o], i)
              /\ i \in 1..Len(log[o]) /\ IsInjective(log[o])
          BY <4>2, <4>5
        <5>2. \/ original[log[o][i]] = Under(o, log[o], i)
              \/ log[o][i] \in Final
              \/ \E u \in Callers : detour[u].step = "store" /\ detour[u].f = log[o][i]
          BY <4>3, <5>1
        <5> QED
          BY <4>1, <4>2, <5>1, <5>2
      <4>6. slot'[o] = Under(o, log'[o], Len(log'[o]) + 1)
        BY <4>2, <4>3
      <4> QED
        BY <4>5, <4>6
    <3>4. ASSUME NEW u \in Callers, detour'[u].step = "store"
          PROVE  \E i \in 1..Len(log'[detour'[u].s]) :
                   /\ log'[detour'[u].s][i] = detour'[u].f
                   /\ detour'[u].old = Under(detour'[u].s, log'[detour'[u].s], i)
      <4>1. CASE u = t
        <5>1. now = Under(s, q, Len(q) + 1)
          BY <1>a, <2>1, <2>3, <2>5 DEF SlotChained
        <5>2. Len(q) + 1 \in 1..Len(log'[s]) /\ Under(s, log'[s], Len(q) + 1) = now
              /\ log'[s][Len(q) + 1] = f
          BY <2>6, <2>7, <5>1
        <5> QED
          BY <2>4, <4>1, <5>2
      <4>2. CASE u # t
        <5>1. detour'[u] = detour[u] /\ detour[u].step = "store" /\ detour[u].s \in Slots
          BY <1>a, <2>4, <3>4, <4>2 DEF DetoursTyped
        <5>2. PICK i \in 1..Len(log[detour[u].s]) :
                /\ log[detour[u].s][i] = detour[u].f
                /\ detour[u].old = Under(detour[u].s, log[detour[u].s], i)
          BY <1>a, <5>1 DEF SlotChained
        <5>3. CASE detour[u].s = s
          <6>1. i \in 1..Len(q) /\ i \in 1..Len(q) + 1
            BY <2>5, <2>6, <5>2, <5>3
          <6>2. log'[s][i] = detour[u].f /\ detour[u].old = Under(s, log'[s], i)
            BY <2>5, <2>6, <2>7, <5>2, <5>3, <6>1
          <6>3. i \in 1..Len(log'[s])
            BY <2>6, <2>7, <6>1
          <6> QED
            BY <5>1, <5>3, <6>2, <6>3
        <5>4. CASE detour[u].s # s
          BY <2>7, <5>1, <5>2, <5>4
        <5> QED
          BY <5>3, <5>4
      <4> QED
        BY <4>1, <4>2
    <3> QED
      BY <3>1, <3>2, <3>3, <3>4 DEF SlotChained
  <2>13. PageKept'
    <3>1. detour[t].step \notin {"idle", "protect"}
      OBVIOUS
    <3> QED
      BY <1>a, <2>2, <2>4, <3>1, PageInside
  <2> QED
    BY <2>8, <2>9, <2>10, <2>11, <2>12, <2>13 DEF TableInv
<1> QED
  BY <1>a, <1>1, <1>2 DEF SlotsTyped

(* Detour writes its slot by an exchange.                                  *)
LEMMA TableExchangeInv ==
  ASSUME TableInv, NEW t \in Callers, Table!Exchange(t)
  PROVE  TableInv'
<1>a. SlotsTyped /\ DetoursTyped /\ DetourAlone /\ SlotChained /\ Table!NotOverItself /\ PageKept
  BY DEF TableInv
<1>1. PICK s, f : s = detour[t].s /\ f = detour[t].f
  OBVIOUS
<1>2. detour[t].step = "exchange"
  BY DEF Table!Exchange
<1>3. s \in Slots /\ f \in FuncsOf[s] /\ f \in Table!Funcs /\ detour[t].kind = "Detour"
  BY <1>a, <1>1, <1>2, FuncsOfSlot DEF DetoursTyped
<1>4. slot[s] # f
  <2>1. log[s] \in Seq(FuncsOf[s]) /\ Len(log[s]) \in Nat
    BY <1>a, <1>3 DEF SlotsTyped
  <2>2. \A i \in 1..Len(log[s]) : log[s][i] # f
    <3>1. \A i \in DOMAIN log[s] : log[s][i] # f
      BY <1>a, <1>1, <1>2, <1>3 DEF DetourAlone
    <3> QED
      BY <2>1, <3>1
  <2>3. slot[s] = Under(s, log[s], Len(log[s]) + 1)
    BY <1>a, <1>3 DEF SlotChained
  <2>4. s # f
    BY <1>3, OwnershipAssumption DEF Table!VTableDetourAssumption
  <2> QED
    BY <2>1, <2>2, <2>3, <2>4 DEF Under
<1> QED
  BY <1>1, <1>2, <1>4, TableWriteInv DEF Table!Exchange

(* A step within a call that leaves the slots alone and the page writable. *)
LEMMA TableInside ==
  ASSUME TableInv, NEW t \in Callers,
         detour[t].step \notin {"idle", "protect"}, detour'[t].step \notin {"idle", "protect"},
         detour'[t].kind = detour[t].kind, detour'[t].f = detour[t].f,
         detour'[t].s = detour[t].s, detour'[t].prot = detour[t].prot,
         detour'[t].step # "exchange",
         \A u \in Callers \ {t} : detour'[u] = detour[u],
         UNCHANGED <<slot, prot, calls, log, overlapped, faulted>>
  PROVE  DetourAlone' /\ PageKept'
<1>a. SlotsTyped /\ DetoursTyped /\ DetourAlone /\ SlotChained /\ Table!NotOverItself /\ PageKept
  BY DEF TableInv
<1>1. DetourAlone'
  <2>1. \A u \in Callers : /\ detour'[u].step # "idle" <=> detour[u].step # "idle"
                          /\ detour'[u].kind = detour[u].kind /\ detour'[u].f = detour[u].f
                          /\ detour'[u].s = detour[u].s
                          /\ detour'[u].step \in {"protect", "exchange"}
                               => detour[u].step \in {"protect", "exchange"}
    OBVIOUS
  <2> QED
    BY <1>a, <2>1 DEF DetourAlone
<1>2. PageKept'
  BY <1>a, PageInside
<1> QED
  BY <1>1, <1>2

(* Detour_s reads its slot, and is done if that has its function.          *)
LEMMA TableReadInv ==
  ASSUME TableInv, NEW t \in Callers, Table!Read(t)
  PROVE  TableInv'
<1>a. SlotsTyped /\ DetoursTyped /\ DetourAlone /\ SlotChained /\ Table!NotOverItself /\ PageKept
  BY DEF TableInv
<1>1. PICK now, x : now = slot[detour[t].s] /\ x = IF now = detour[t].f THEN "restore" ELSE "swap"
  OBVIOUS
<1>2. /\ detour[t].step = "read" /\ detour' = [detour EXCEPT ![t].old = now, ![t].step = x]
      /\ UNCHANGED <<slot, prot, original, calls, log, overlapped, faulted>>
  BY <1>1 DEF Table!Read
<1>3. /\ now \in Table!Funcs \cup Slots /\ detour[t].kind = "Detour_s"
      /\ detour[t].s \in Slots /\ detour[t].f \in FuncsOf[detour[t].s]
  BY <1>a, <1>1, <1>2 DEF DetoursTyped, SlotsTyped
<1>x. x \in {"restore", "swap"} /\ (x = "swap" => now # detour[t].f)
  BY <1>1
<1>4. /\ detour'[t].step = x /\ detour'[t].kind = detour[t].kind
      /\ detour'[t].s = detour[t].s /\ detour'[t].f = detour[t].f
      /\ detour'[t].old = now /\ detour'[t].prot = detour[t].prot
      /\ \A u \in Callers \ {t} : detour'[u] = detour[u]
  BY <1>a, <1>2 DEF DetoursTyped
<1>5. SlotsTyped'
  BY <1>a, <1>2 DEF SlotsTyped
<1>6. DetoursTyped'
  <2>1. now \in Table!Funcs \cup Slots
    BY <1>3
  <2>2. detour' \in [Callers -> [step : Steps, kind : {"none", "Detour", "Detour_s"},
                               s : Slots \cup {None}, f : Table!Funcs \cup {None},
                               old : Table!Funcs \cup Slots \cup {None},
                               prot : {"rx", "rwx"}]]
    <3>1. PICK e : e = [detour EXCEPT ![t].old = now]
      OBVIOUS
    <3>2. e \in [Callers -> [step : Steps, kind : {"none", "Detour", "Detour_s"},
                               s : Slots \cup {None}, f : Table!Funcs \cup {None},
                               old : Table!Funcs \cup Slots \cup {None},
                               prot : {"rx", "rwx"}]]
      BY <1>a, <2>1, <3>1 DEF DetoursTyped
    <3>3. detour' = [e EXCEPT ![t].step = x]
      BY <1>2, <3>1, Zenon
    <3>4. x \in Steps
      BY <1>x DEF Steps
    <3> QED
      BY <3>2, <3>3, <3>4
  <2> QED
    BY <1>a, <1>x, <1>3, <1>4, <2>2 DEF DetoursTyped
<1>7. DetourAlone' /\ PageKept'
  BY <1>x, <1>2, <1>4, TableInside
<1>8. SlotChained' /\ Table!NotOverItself'
  BY <1>x, <1>2, <1>4, QuietStep
<1> QED
  BY <1>5, <1>6, <1>7, <1>8 DEF TableInv

(* Detour_s writes its slot if that is as it was read.                     *)
LEMMA TableSwapInv ==
  ASSUME TableInv, NEW t \in Callers, Table!Swap(t)
  PROVE  TableInv'
<1>a. SlotsTyped /\ DetoursTyped /\ DetourAlone /\ SlotChained /\ Table!NotOverItself /\ PageKept
  BY DEF TableInv
<1>1. /\ detour[t].step = "swap" /\ detour[t].kind = "Detour_s"
      /\ detour[t].old # detour[t].f
      /\ UNCHANGED <<prot, original, calls, overlapped>>
  BY <1>a DEF Table!Swap, DetoursTyped
<1>2. CASE slot[detour[t].s] = detour[t].old \/ prot = "rx"
  <2>1. Table!Write(t)
    BY <1>2 DEF Table!Swap
  <2>2. prot = "rwx" => slot[detour[t].s] # detour[t].f
    BY <1>1, <1>2
  <2> QED
    BY <1>1, <2>1, <2>2, TableWriteInv
<1>3. CASE ~ (slot[detour[t].s] = detour[t].old \/ prot = "rx")
  <2>1. /\ detour' = [detour EXCEPT ![t].step = "read"]
        /\ UNCHANGED <<slot, log, faulted>>
    BY <1>3 DEF Table!Swap, Table!Step
  <2>2. /\ detour'[t].step = "read" /\ detour'[t].kind = detour[t].kind
        /\ detour'[t].s = detour[t].s /\ detour'[t].f = detour[t].f
        /\ detour'[t].prot = detour[t].prot
        /\ \A u \in Callers \ {t} : detour'[u] = detour[u]
    BY <1>a, <2>1 DEF DetoursTyped
  <2>3. SlotsTyped'
    BY <1>a, <1>1, <2>1 DEF SlotsTyped
  <2>4. DetoursTyped'
    <3>1. detour' \in [Callers -> [step : Steps, kind : {"none", "Detour", "Detour_s"},
                               s : Slots \cup {None}, f : Table!Funcs \cup {None},
                               old : Table!Funcs \cup Slots \cup {None},
                               prot : {"rx", "rwx"}]]
      BY <1>a, <2>1 DEF DetoursTyped, Steps
    <3>2. detour[t].s \in Slots /\ detour[t].f \in FuncsOf[detour[t].s]
      BY <1>a, <1>1 DEF DetoursTyped
    <3> QED
      BY <1>a, <1>1, <2>2, <3>1, <3>2 DEF DetoursTyped
  <2>5. DetourAlone' /\ PageKept'
    BY <1>1, <2>1, <2>2, TableInside
  <2>6. SlotChained' /\ Table!NotOverItself'
    BY <1>1, <2>1, <2>2, QuietStep
  <2> QED
    BY <2>3, <2>4, <2>5, <2>6 DEF TableInv
<1> QED
  BY <1>2, <1>3

(* What was in the slot is stored as the original.                         *)
LEMMA TableStoreInv ==
  ASSUME TableInv, NEW t \in Callers, Table!Store(t)
  PROVE  TableInv'
<1>a. SlotsTyped /\ DetoursTyped /\ DetourAlone /\ SlotChained /\ Table!NotOverItself /\ PageKept
  BY DEF TableInv
<1>1. PICK s, f, old : s = detour[t].s /\ f = detour[t].f /\ old = detour[t].old
  OBVIOUS
<1>2. /\ detour[t].step = "store" /\ detour' = [detour EXCEPT ![t].step = "restore"]
      /\ original' = IF f \in Final THEN original ELSE [original EXCEPT ![f] = old]
      /\ UNCHANGED <<slot, prot, calls, log, overlapped, faulted>>
  BY <1>1 DEF Table!Store, Table!Step
<1>3. s \in Slots /\ f \in FuncsOf[s] /\ f \in Table!Funcs
      /\ old \in Table!Funcs \cup Slots \cup {None} /\ detour[t].kind # "none"
  BY <1>a, <1>1, <1>2, FuncsOfSlot DEF DetoursTyped
<1>4. /\ detour'[t].step = "restore" /\ detour'[t].kind = detour[t].kind
      /\ detour'[t].s = s /\ detour'[t].f = f
      /\ detour'[t].old = old /\ detour'[t].prot = detour[t].prot
      /\ \A u \in Callers \ {t} : detour'[u] = detour[u]
  BY <1>a, <1>1, <1>2 DEF DetoursTyped
<1>5. SlotsTyped'
  <2>1. original' \in [Table!Funcs -> Table!Funcs \cup Slots \cup {None}]
    BY <1>a, <1>2, <1>3 DEF SlotsTyped
  <2> QED
    BY <1>a, <1>2, <2>1 DEF SlotsTyped
<1>6. DetoursTyped'
  <2>1. detour' \in [Callers -> [step : Steps, kind : {"none", "Detour", "Detour_s"},
                               s : Slots \cup {None}, f : Table!Funcs \cup {None},
                               old : Table!Funcs \cup Slots \cup {None},
                               prot : {"rx", "rwx"}]]
    BY <1>a, <1>2 DEF DetoursTyped, Steps
  <2> QED
    BY <1>a, <1>3, <1>4, <2>1 DEF DetoursTyped
<1>7. DetourAlone' /\ PageKept'
  BY <1>1, <1>2, <1>4, TableInside
<1>8. Table!NotOverItself'
  BY <1>a, <1>2 DEF Table!NotOverItself
<1>9. SlotChained'
  <2>1. ASSUME NEW u \in Callers, detour'[u].step = "store"
        PROVE  \E i \in 1..Len(log'[detour'[u].s]) :
                 /\ log'[detour'[u].s][i] = detour'[u].f
                 /\ detour'[u].old = Under(detour'[u].s, log'[detour'[u].s], i)
    <3>1. u # t /\ detour'[u] = detour[u] /\ detour[u].step = "store" /\ log' = log
      BY <1>2, <1>4, <2>1
    <3> QED
      BY <1>a, <3>1 DEF SlotChained
  <2>2. ASSUME NEW o \in Slots
        PROVE  slot'[o] = Under(o, log'[o], Len(log'[o]) + 1)
    BY <1>a, <1>2 DEF SlotChained
  <2>3. ASSUME NEW o \in Slots, IsInjective(log'[o]), NEW i \in 1..Len(log'[o])
        PROVE  \/ original'[log'[o][i]] = Under(o, log'[o], i)
               \/ log'[o][i] \in Final
               \/ \E u \in Callers : detour'[u].step = "store" /\ detour'[u].f = log'[o][i]
    <3>1. log' = log /\ IsInjective(log[o]) /\ i \in 1..Len(log[o])
      BY <1>2, <2>3
    <3>2. log[o] \in Seq(FuncsOf[o]) /\ DOMAIN log[o] = 1..Len(log[o])
      BY <1>a DEF SlotsTyped
    <3>3. log[o][i] \in FuncsOf[o] /\ log[o][i] \in Table!Funcs
      BY <3>1, <3>2, FuncsOfSlot
    <3>4. CASE log[o][i] = f
      <4>1. o = s
        BY <1>3, <3>3, <3>4, OwnershipAssumption DEF Table!VTableDetourAssumption
      <4>2. PICK j \in 1..Len(log[s]) : log[s][j] = f /\ old = Under(s, log[s], j)
        BY <1>a, <1>1, <1>2 DEF SlotChained
      <4>3. i = j
        BY <3>1, <3>2, <3>4, <4>1, <4>2 DEF IsInjective
      <4>4. f \notin Final => original'[f] = old
        BY <1>a, <1>2, <1>3 DEF SlotsTyped
      <4> QED
        BY <3>1, <3>4, <4>1, <4>2, <4>3, <4>4
    <3>5. CASE log[o][i] # f
      <4>1. original'[log[o][i]] = original[log[o][i]]
        BY <1>a, <1>2, <1>3, <3>3, <3>5 DEF SlotsTyped
      <4>2. \A u \in Callers : detour[u].step = "store" /\ detour[u].f = log[o][i]
                              => u # t /\ detour'[u] = detour[u]
        BY <1>1, <1>4, <3>5
      <4>3. \/ original[log[o][i]] = Under(o, log[o], i)
            \/ log[o][i] \in Final
            \/ \E u \in Callers : detour[u].step = "store" /\ detour[u].f = log[o][i]
        BY <1>a, <3>1 DEF SlotChained
      <4> QED
        BY <3>1, <4>1, <4>2, <4>3
    <3> QED
      BY <3>4, <3>5
  <2> QED
    BY <2>1, <2>2, <2>3 DEF SlotChained
<1> QED
  BY <1>5, <1>6, <1>7, <1>8, <1>9 DEF TableInv

(* The page gets back what it was.                                         *)
LEMMA TableRestoreInv ==
  ASSUME TableInv, NEW t \in Callers, Table!Restore(t)
  PROVE  TableInv'
<1>a. SlotsTyped /\ DetoursTyped /\ DetourAlone /\ SlotChained /\ Table!NotOverItself /\ PageKept
  BY DEF TableInv
<1>1. /\ detour[t].step = "restore" /\ detour' = [detour EXCEPT ![t] = Table!Idle]
      /\ prot' = detour[t].prot
      /\ UNCHANGED <<slot, original, calls, log, overlapped, faulted>>
  BY DEF Table!Restore
<1>2. /\ detour'[t] = Table!Idle
      /\ \A u \in Callers \ {t} : detour'[u] = detour[u]
  BY <1>a, <1>1 DEF DetoursTyped
<1>3. SlotsTyped'
  <2>1. detour[t].prot \in {"rx", "rwx"}
    BY <1>a DEF DetoursTyped
  <2> QED
    BY <1>a, <1>1, <2>1 DEF SlotsTyped
<1>4. DetoursTyped'
  <2>1. Table!Idle \in [step : Steps, kind : {"none", "Detour", "Detour_s"},
                               s : Slots \cup {None}, f : Table!Funcs \cup {None},
                               old : Table!Funcs \cup Slots \cup {None},
                               prot : {"rx", "rwx"}]
    BY DEF Table!Idle, Steps
  <2>2. detour' \in [Callers -> [step : Steps, kind : {"none", "Detour", "Detour_s"},
                               s : Slots \cup {None}, f : Table!Funcs \cup {None},
                               old : Table!Funcs \cup Slots \cup {None},
                               prot : {"rx", "rwx"}]]
    BY <1>a, <1>1, <2>1 DEF DetoursTyped
  <2> QED
    BY <1>a, <1>2, <2>2 DEF DetoursTyped, Table!Idle
<1>5. DetourAlone'
  BY <1>a, <1>1, <1>2 DEF DetourAlone, Table!Idle
<1>6. SlotChained' /\ Table!NotOverItself'
  BY <1>1, <1>2, QuietStep DEF Table!Idle
<1>7. PageKept'
  BY <1>a, <1>1, <1>2 DEF PageKept, Table!Idle
<1> QED
  BY <1>3, <1>4, <1>5, <1>6, <1>7 DEF TableInv

(* Every step on the table keeps its invariant.                            *)
LEMMA TableNextInv == TableInv /\ Table!Next => TableInv'
<1> SUFFICES ASSUME TableInv, Table!Next PROVE TableInv'
  OBVIOUS
<1>1. ASSUME NEW t \in Callers, NEW kind \in {"Detour", "Detour_s"}, NEW s \in Slots,
             NEW f \in FuncsOf[s], Table!Begin(t, kind, s, f)
      PROVE  TableInv'
  BY <1>1, TableBeginInv
<1>2. ASSUME NEW t \in Callers, Table!CallStep(t) PROVE TableInv'
  BY <1>2, TableUnprotectInv, TableExchangeInv, TableReadInv, TableSwapInv, TableStoreInv,
     TableRestoreInv DEF Table!CallStep
<1> QED
  BY <1>1, <1>2 DEF Table!Next

-----------------------------------------------------------------------------
(* The call sites and the trampoline                                       *)

CodeTyped == /\ target \in [Sites -> Sites \cup Hooks]
             /\ orig \in [Hooks -> Sites \cup Hooks \cup {Nothing}]
             /\ hooked \in [Sites -> Seq(Hooks)]
             /\ returned \in [Hooks -> BOOLEAN \cup {Nothing}]
             /\ ended \in [Codes -> BOOLEAN \cup {Nothing}]
             /\ room \in Nat /\ stopped \in BOOLEAN

(* As Chained; what is in a chain was told of success, so that it is not   *)
(* hooked in again.                                                        *)
SiteChained ==
    \A s \in Sites :
        /\ target[s] = Under(s, hooked[s], Len(hooked[s]) + 1)
        /\ \A i \in 1..Len(hooked[s]) : /\ orig[hooked[s][i]] = Under(s, hooked[s], i)
                                         /\ returned[hooked[s][i]] = TRUE

ToldInChain ==
    \A h \in Hooks : returned[h] = TRUE =>
        \/ room = 0
        \/ \E s \in Sites : \E i \in 1..Len(hooked[s]) : hooked[s][i] = h

CodeInv == CodeTyped /\ SiteChained /\ ToldInChain /\ Code!OneGenerator

(* The operators of the instance are those of the library.                 *)
LEMMA CodeOperators ==
  /\ \A q : Code!ToSet(q) = ToSet(q)
  /\ \A q : Code!Last(q) = Last(q)
<1>1. ASSUME NEW q PROVE Code!ToSet(q) = ToSet(q)
  BY DEF Code!ToSet, ToSet
<1>2. ASSUME NEW q PROVE Code!Last(q) = Last(q)
  BY DEF Code!Last, Last
<1> QED
  BY <1>1, <1>2

(* So the hooks of a site are chained.                                     *)
LEMMA CodeInvChained == CodeInv => Code!Chained
<1> SUFFICES ASSUME CodeInv PROVE Code!Chained
  OBVIOUS
<1>1. ASSUME NEW s \in Sites
      PROVE  LET c == <<s>> \o hooked[s] IN
             /\ target[s] = Code!Last(c)
             /\ \A i \in DOMAIN hooked[s] : orig[hooked[s][i]] = c[i]
  <2>1. PICK q \in Seq(Hooks) : q = hooked[s]
    BY DEF CodeInv, CodeTyped
  <2>2. /\ \A i \in 1..Len(q) + 1 : (<<s>> \o q)[i] = Under(s, q, i)
        /\ Last(<<s>> \o q) = Under(s, q, Len(q) + 1)
    BY ChainUnder
  <2>3. Len(q) \in Nat /\ DOMAIN q = 1..Len(q)
    OBVIOUS
  <2>4. target[s] = Code!Last(<<s>> \o q)
    BY <2>1, <2>2, CodeOperators DEF CodeInv, SiteChained
  <2>5. ASSUME NEW i \in DOMAIN q PROVE orig[q[i]] = (<<s>> \o q)[i]
    <3>1. i \in 1..Len(q) /\ i \in 1..Len(q) + 1
      BY <2>3
    <3>2. orig[q[i]] = Under(s, q, i)
      BY <2>1, <3>1 DEF CodeInv, SiteChained
    <3> QED
      BY <2>2, <3>1, <3>2
  <2> QED
    BY <2>1, <2>4, <2>5
<1>2. ASSUME NEW h \in Hooks, returned[h] = TRUE
      PROVE  room = 0 \/ \E s \in Sites : h \in Code!ToSet(hooked[s])
  <2>1. CASE room # 0
    <3>1. PICK s \in Sites : \E i \in 1..Len(hooked[s]) : hooked[s][i] = h
      BY <1>2, <2>1 DEF CodeInv, ToldInChain
    <3>2. h \in ToSet(hooked[s])
      BY <3>1 DEF CodeInv, CodeTyped, ToSet
    <3> QED
      BY <3>2, CodeOperators
  <2> QED
    BY <2>1
<1> QED
  BY <1>1, <1>2 DEF Code!Chained

(* The assumption about the sites.                                         *)
LEMMA CodeAssumption == Code!CallHookAssumption
  BY OwnershipAssumption

(* No site is hooked to begin with.                                        *)
LEMMA CodeInitInv == Code!Init => CodeInv
<1> SUFFICES ASSUME Code!Init PROVE CodeInv
  OBVIOUS
<1>0. Room \in Nat
  BY CodeAssumption DEF Code!CallHookAssumption
<1>1. Nothing \notin BOOLEAN
  BY CodeAssumption DEF Code!CallHookAssumption
<1>2. CodeTyped
  <2>1. /\ target \in [Sites -> Sites \cup Hooks] /\ hooked \in [Sites -> Seq(Hooks)]
        /\ orig \in [Hooks -> Sites \cup Hooks \cup {Nothing}]
        /\ room \in Nat
    BY <1>0 DEF Code!Init
  <2>2. /\ returned \in [Hooks -> BOOLEAN \cup {Nothing}]
        /\ ended \in [Codes -> BOOLEAN \cup {Nothing}]
        /\ stopped \in BOOLEAN
    BY DEF Code!Init
  <2> QED
    BY <2>1, <2>2 DEF CodeTyped
<1>3. \A h \in Hooks : ~ (returned[h] = TRUE)
  BY <1>1 DEF Code!Init
<1>4. SiteChained
  BY DEF Code!Init, SiteChained, Under
<1>5. ToldInChain
  BY <1>3 DEF ToldInChain
<1>6. Code!OneGenerator
  <2>1. Nothing \notin Codes /\ allocating = Nothing /\ ended = [c \in Codes |-> Nothing]
    BY CodeAssumption DEF Code!Init, Code!CallHookAssumption
  <2>2. \A c \in Codes : ~ (ended[c] = FALSE) /\ allocating # c
    BY <1>1, <2>1
  <2> QED
    BY <2>2 DEF Code!OneGenerator
<1> QED
  BY <1>2, <1>4, <1>5, <1>6 DEF CodeInv

(* A hook goes in front of what its site went to, or is left out           *)
(* (IHook.h:89-199).                                                       *)
LEMMA CodeHookInv ==
  ASSUME CodeInv, NEW kind \in DOMAIN Code!Wanted, NEW s \in Sites, NEW h \in Hooks,
         Code!Hook(kind, s, h)
  PROVE  CodeInv'
<1>a. CodeTyped /\ SiteChained /\ ToldInChain /\ Code!OneGenerator
  BY DEF CodeInv
<1>1. /\ ~stopped /\ ~ (returned[h] = TRUE)
      /\ UNCHANGED <<allocating, ended>>
  BY DEF Code!Hook
<1>2. \A o \in Sites : \A i \in 1..Len(hooked[o]) : hooked[o][i] \in Hooks /\ hooked[o][i] # h
  <2> SUFFICES ASSUME NEW o \in Sites, NEW i \in 1..Len(hooked[o])
               PROVE  hooked[o][i] \in Hooks /\ hooked[o][i] # h
    OBVIOUS
  <2>1. returned[hooked[o][i]] = TRUE
    BY <1>a DEF SiteChained
  <2>2. hooked[o] \in Seq(Hooks)
    BY <1>a DEF CodeTyped
  <2>3. hooked[o][i] \in Hooks
    BY <2>2
  <2> QED
    BY <1>1, <2>1, <2>3
<1>3. Code!OneGenerator'
  BY <1>a, <1>1 DEF Code!OneGenerator
<1>4. CASE Opcode[s] # Code!Wanted[kind]
  <2>1. /\ returned' = [returned EXCEPT ![h] = FALSE]
        /\ UNCHANGED <<target, orig, hooked, room, stopped>>
    BY <1>4 DEF Code!Hook
  <2>2. CodeTyped'
    BY <1>a, <1>1, <2>1 DEF CodeTyped
  <2>3. \A x \in Hooks : /\ x # h => returned'[x] = returned[x]
                         /\ returned'[x] = TRUE => returned[x] = TRUE /\ x # h
    BY <1>a, <2>1 DEF CodeTyped
  <2>4. SiteChained'
    BY <1>a, <1>2, <2>1, <2>3 DEF SiteChained
  <2>5. ToldInChain'
    BY <1>a, <2>1, <2>3 DEF ToldInChain
  <2> QED
    BY <1>3, <2>2, <2>4, <2>5 DEF CodeInv
<1>5. CASE Opcode[s] = Code!Wanted[kind]
  <2>1. /\ orig' = [orig EXCEPT ![h] = target[s]]
        /\ stopped' = (allocating # Nothing)
        /\ returned' = [returned EXCEPT ![h] = IF stopped' THEN @ ELSE TRUE]
        /\ IF stopped' \/ room = 0
             THEN UNCHANGED <<target, hooked, room>>
             ELSE /\ target' = [target EXCEPT ![s] = h]
                  /\ hooked' = [hooked EXCEPT ![s] = Append(@, h)]
                  /\ room' = room - 1
    BY <1>5 DEF Code!Hook
  <2>2. /\ stopped' \in BOOLEAN
        /\ orig' \in [Hooks -> Sites \cup Hooks \cup {Nothing}]
        /\ orig'[h] = target[s] /\ \A x \in Hooks : x # h => orig'[x] = orig[x]
    BY <1>a, <2>1 DEF CodeTyped
  <2>3. /\ returned' \in [Hooks -> BOOLEAN \cup {Nothing}]
        /\ \A x \in Hooks : x # h => returned'[x] = returned[x]
        /\ stopped' => ~ (returned'[h] = TRUE)
        /\ ~stopped' => returned'[h] = TRUE
    <3>1. CASE stopped'
      <4>1. returned' = [returned EXCEPT ![h] = returned[h]]
        BY <2>1, <3>1
      <4> QED
        BY <1>a, <1>1, <3>1, <4>1 DEF CodeTyped
    <3>2. CASE ~stopped'
      <4>1. returned' = [returned EXCEPT ![h] = TRUE]
        BY <2>1, <3>2
      <4> QED
        BY <1>a, <3>2, <4>1 DEF CodeTyped
    <3> QED
      BY <3>1, <3>2
  <2>4. CASE stopped' \/ room = 0
    <3>1. UNCHANGED <<target, hooked, room>>
      BY <2>1, <2>4
    <3>2. CodeTyped'
      BY <1>a, <1>1, <2>2, <2>3, <3>1 DEF CodeTyped
    <3>3. SiteChained'
      BY <1>a, <1>2, <2>2, <2>3, <3>1 DEF SiteChained
    <3>4. ToldInChain'
      BY <1>a, <2>3, <2>4, <3>1 DEF ToldInChain
    <3> QED
      BY <1>3, <3>2, <3>3, <3>4 DEF CodeInv
  <2>5. CASE ~ (stopped' \/ room = 0)
    <3>1. /\ target' = [target EXCEPT ![s] = h] /\ hooked' = [hooked EXCEPT ![s] = Append(@, h)]
          /\ room' = room - 1
      BY <2>1, <2>5
    <3>2. PICK q \in Seq(Hooks) : q = hooked[s]
      BY <1>a DEF CodeTyped
    <3>3. /\ Append(q, h) \in Seq(Hooks) /\ Len(Append(q, h)) = Len(q) + 1
          /\ \A i \in 1..Len(q) : Append(q, h)[i] = q[i]
          /\ Append(q, h)[Len(q) + 1] = h
          /\ \A i \in 1..Len(q) + 1 : Under(s, Append(q, h), i) = Under(s, q, i)
          /\ Under(s, Append(q, h), Len(q) + 2) = h
          /\ Len(q) \in Nat
      <4>1. /\ Append(q, h) \in Seq(Hooks) /\ Len(Append(q, h)) = Len(q) + 1
            /\ \A i \in 1..Len(q) : Append(q, h)[i] = q[i]
            /\ Append(q, h)[Len(q) + 1] = h
        BY <3>2, AppendProperties
      <4>2. Len(q) \in Nat
        BY <3>2
      <4>3. /\ \A i \in 1..Len(q) + 1 : Under(s, Append(q, h), i) = Under(s, q, i)
            /\ Under(s, Append(q, h), Len(q) + 2) = h
        BY <4>1, <4>2 DEF Under
      <4> QED
        BY <4>1, <4>2, <4>3
    <3>4. /\ hooked'[s] = Append(q, h) /\ target'[s] = h
          /\ \A o \in Sites \ {s} : hooked'[o] = hooked[o] /\ target'[o] = target[o]
      BY <1>a, <3>1, <3>2 DEF CodeTyped
    <3>5. CodeTyped'
      <4>1. /\ target' \in [Sites -> Sites \cup Hooks] /\ hooked' \in [Sites -> Seq(Hooks)]
        BY <1>a, <3>1, <3>2, <3>3 DEF CodeTyped
      <4>2. room' \in Nat
        BY <1>a, <2>5, <3>1 DEF CodeTyped
      <4> QED
        BY <1>a, <1>1, <2>2, <2>3, <4>1, <4>2 DEF CodeTyped
    <3>6. SiteChained'
      <4>1. target'[s] = Under(s, hooked'[s], Len(hooked'[s]) + 1)
        BY <3>3, <3>4
      <4>2. ASSUME NEW i \in 1..Len(hooked'[s])
            PROVE  orig'[hooked'[s][i]] = Under(s, hooked'[s], i) /\ returned'[hooked'[s][i]] = TRUE
        <5>1. CASE i = Len(q) + 1
          <6>1. target[s] = Under(s, q, Len(q) + 1)
            BY <1>a, <3>2 DEF SiteChained
          <6>2. hooked'[s][i] = h /\ Under(s, hooked'[s], i) = Under(s, q, Len(q) + 1)
            BY <3>3, <3>4, <5>1
          <6>3. returned'[h] = TRUE
            BY <2>3, <2>5
          <6> QED
            BY <2>2, <6>1, <6>2, <6>3
        <5>2. CASE i # Len(q) + 1
          <6>1. i \in 1..Len(q) /\ hooked'[s][i] = q[i] /\ Under(s, hooked'[s], i) = Under(s, q, i)
            BY <3>3, <3>4, <4>2, <5>2
          <6>2. q[i] \in Hooks /\ q[i] # h
            BY <1>2, <3>2, <6>1
          <6>3. orig[q[i]] = Under(s, q, i) /\ returned[q[i]] = TRUE
            BY <1>a, <3>2, <6>1 DEF SiteChained
          <6> QED
            BY <2>2, <2>3, <6>1, <6>2, <6>3
        <5> QED
          BY <5>1, <5>2
      <4>3. ASSUME NEW o \in Sites \ {s}
            PROVE  /\ target'[o] = Under(o, hooked'[o], Len(hooked'[o]) + 1)
                   /\ \A i \in 1..Len(hooked'[o]) : /\ orig'[hooked'[o][i]] = Under(o, hooked'[o], i)
                                                     /\ returned'[hooked'[o][i]] = TRUE
        <5>1. hooked'[o] = hooked[o] /\ target'[o] = target[o]
          BY <3>4
        <5>2. \A i \in 1..Len(hooked[o]) : /\ orig'[hooked[o][i]] = Under(o, hooked[o], i)
                                           /\ returned'[hooked[o][i]] = TRUE
          BY <1>a, <1>2, <2>2, <2>3 DEF SiteChained
        <5>3. target[o] = Under(o, hooked[o], Len(hooked[o]) + 1)
          BY <1>a DEF SiteChained
        <5> QED
          BY <5>1, <5>2, <5>3
      <4> QED
        BY <4>1, <4>2, <4>3 DEF SiteChained
    <3>7. ToldInChain'
      <4> SUFFICES ASSUME NEW x \in Hooks, returned'[x] = TRUE, room' # 0
                   PROVE  \E o \in Sites : \E i \in 1..Len(hooked'[o]) : hooked'[o][i] = x
        BY DEF ToldInChain
      <4>1. CASE x = h
        <5>1. Len(q) + 1 \in 1..Len(hooked'[s]) /\ hooked'[s][Len(q) + 1] = h
          BY <3>3, <3>4
        <5> QED
          BY <4>1, <5>1
      <4>2. CASE x # h
        <5>1. PICK o \in Sites : \E i \in 1..Len(hooked[o]) : hooked[o][i] = x
          BY <1>a, <2>3, <2>5, <4>2 DEF ToldInChain
        <5>2. PICK i \in 1..Len(hooked[o]) : hooked[o][i] = x
          BY <5>1
        <5>3. i \in 1..Len(hooked'[o]) /\ hooked'[o][i] = x
          BY <3>2, <3>3, <3>4, <5>2
        <5> QED
          BY <5>3
      <4> QED
        BY <4>1, <4>2
    <3> QED
      BY <1>3, <3>5, <3>6, <3>7 DEF CodeInv
  <2> QED
    BY <2>4, <2>5
<1> QED
  BY <1>4, <1>5

(* The trampoline has one generator at a time (JITASM.cpp:7-24).           *)
LEMMA CodeAllocInv ==
  ASSUME CodeInv, NEW c \in Codes, Code!StartAlloc(c) \/ Code!Done(c)
  PROVE  CodeInv'
<1>a. CodeTyped /\ SiteChained /\ ToldInChain /\ Code!OneGenerator
  BY DEF CodeInv
<1>1. UNCHANGED <<target, orig, returned, hooked>>
  BY DEF Code!StartAlloc, Code!Done
<1>2. SiteChained'
  BY <1>a, <1>1 DEF SiteChained
<1>3. Nothing \notin Codes /\ Nothing \notin BOOLEAN
  BY CodeAssumption DEF Code!CallHookAssumption
<1>4. CodeSize[c] \in Nat
  BY CodeAssumption DEF Code!CallHookAssumption
<1>5. CASE Code!StartAlloc(c)
  <2>1. /\ ~stopped /\ ended[c] = Nothing
        /\ stopped' = (allocating # Nothing) /\ room' = room
        /\ allocating' = IF stopped' THEN allocating ELSE c
        /\ ended' = [ended EXCEPT ![c] = FALSE]
    BY <1>5 DEF Code!StartAlloc
  <2>2. CodeTyped'
    BY <1>a, <1>1, <2>1 DEF CodeTyped
  <2>3. ToldInChain'
    BY <1>a, <1>1, <2>1 DEF ToldInChain
  <2>4. Code!OneGenerator'
    BY <1>a, <1>3, <2>1 DEF Code!OneGenerator, CodeTyped
  <2> QED
    BY <1>2, <2>2, <2>3, <2>4 DEF CodeInv
<1>6. CASE Code!Done(c)
  <2>1. /\ ~stopped /\ ended[c] # Nothing /\ stopped' = stopped
        /\ IF ended[c] THEN UNCHANGED <<room, allocating, ended>>
           ELSE /\ CodeSize[c] <= room
                /\ ended' = [ended EXCEPT ![c] = TRUE]
                /\ allocating' = Nothing /\ room' = room - CodeSize[c]
    BY <1>6 DEF Code!Done
  <2>2. CASE ended[c] = TRUE
    <3>1. UNCHANGED <<room, allocating, ended, stopped>>
      BY <2>1, <2>2
    <3> QED
      BY <1>a, <1>1, <1>2, <3>1 DEF CodeInv, CodeTyped, ToldInChain, Code!OneGenerator
  <2>3. CASE ended[c] = FALSE
    <3>1. /\ CodeSize[c] <= room /\ room' = room - CodeSize[c]
          /\ ended' = [ended EXCEPT ![c] = TRUE] /\ allocating' = Nothing
      BY <2>1, <2>3
    <3>2. room' \in Nat /\ (room = 0 => room' = 0)
      BY <1>a, <1>4, <3>1 DEF CodeTyped
    <3>3. CodeTyped'
      BY <1>a, <1>1, <2>1, <3>1, <3>2 DEF CodeTyped
    <3>4. ToldInChain'
      BY <1>a, <1>1, <3>2 DEF ToldInChain
    <3>5. Code!OneGenerator'
      <4>1. \A x \in Codes : ended[x] = FALSE <=> allocating = x
        BY <1>a, <2>1 DEF Code!OneGenerator
      <4>2. \A x \in Codes : ended'[x] = FALSE <=> x # c /\ ended[x] = FALSE
        BY <1>a, <3>1 DEF CodeTyped
      <4> QED
        BY <1>3, <2>3, <3>1, <4>1, <4>2 DEF Code!OneGenerator
    <3> QED
      BY <1>2, <3>3, <3>4, <3>5 DEF CodeInv
  <2>4. ended[c] \in BOOLEAN
    BY <1>a, <2>1 DEF CodeTyped
  <2> QED
    BY <2>2, <2>3, <2>4
<1> QED
  BY <1>5, <1>6

(* Every step on the call sites keeps their invariant.                     *)
LEMMA CodeNextInv == CodeInv /\ Code!Next => CodeInv'
  BY CodeHookInv, CodeAllocInv DEF Code!Next

-----------------------------------------------------------------------------
(* The counts of smart pointers                                            *)

Places == Pointers!Locations

PointersTyped ==
    /\ ptr \in [Places -> Objects \cup {None}]
    /\ count \in [Objects -> Nat]
    /\ state \in [Objects -> {"none", "live", "deleted"}]
    /\ chain \in [Threads -> Seq(Places)]
    /\ call \in [Threads -> [step : {"idle", "detach", "take", "attach"}, move : BOOLEAN,
                             dst : Places \cup {None},
                             src : Places \cup {None} \cup {<<l>> : l \in Places},
                             want : Objects \cup {None}]]

(* What t reads and its call does not write: a pointer of t, or the member *)
(* of an object that another pointer of t refers to.                       *)
Steady(t, l) ==
    /\ l # call[t].dst
    /\ \/ l \in RootsOf[t]
       \/ l \in Objects /\ \E r \in RootsOf[t] \ {call[t].dst} : ptr[r] = l

(* What the call of t writes.                                              *)
Claimed(t, l) ==
    \/ call[t].dst = l
    \/ call[t].move /\ call[t].src = l
    \/ \E i \in 1..Len(chain[t]) : chain[t][i] = l

(* A pointer that has not acquired what it refers to yet, or gave it up.   *)
Taken(l) ==
    \E t \in Threads :
        \/ call[t].step = "attach" /\ call[t].dst = l
        \/ \E i \in 1..Len(chain[t]) - 1 : chain[t][i] = l

(* A call works on pointers of its thread and on members.                  *)
CallOf(t) ==
    /\ call[t].dst \in RootsOf[t] \cup Objects \cup {None}
    /\ Pointers!Owner(t) \in RootsOf[t] \cup Objects \cup {None}
    /\ call[t].step = "idle" <=> call[t].dst = None
    /\ call[t].step = "idle" \/ call[t].step = "attach" => ~call[t].move
    /\ call[t].move => call[t].src \in Places

(* It gives up its pointer and then members that only the one before       *)
(* refers to, each once.                                                   *)
ChainOf(t) ==
    /\ call[t].step = "detach" <=> Len(chain[t]) > 0
    /\ Len(chain[t]) > 0 => /\ chain[t][1] = call[t].dst
                            /\ ptr[chain[t][Len(chain[t])]] # None
    /\ \A i \in 2..Len(chain[t]) :
         /\ chain[t][i] \in Objects /\ state[chain[t][i]] = "live"
         /\ ptr[chain[t][i - 1]] = chain[t][i]
         /\ \A l \in Places : ptr[l] = chain[t][i] => l = chain[t][i - 1]
    /\ \A i, j \in 1..Len(chain[t]) : chain[t][i] = chain[t][j] => i = j

(* A member that it writes is of an object only its thread refers to.      *)
ClaimOf(t) ==
    /\ call[t].dst \in Objects =>
         /\ \A l \in Places : ptr[l] = call[t].dst => l \in RootsOf[t] \cup {call[t].dst}
         /\ \E r \in RootsOf[t] : ptr[r] = call[t].dst
    /\ call[t].move /\ call[t].src \in Objects =>
         /\ \A l \in Places : ptr[l] = call[t].src => l \in RootsOf[t]
         /\ state[call[t].src] # "none"

(* Its source is what it was when the call began, as long as the thread    *)
(* holds the owner of it.                                                  *)
SourceOf(t) ==
    /\ call[t].step \in {"detach", "take"} =>
         /\ Pointers!Owner(t) = None => call[t].src = None /\ call[t].want = None /\ ~call[t].move
         /\ Pointers!Owner(t) # None =>
              /\ Pointers!Owner(t) # call[t].dst
              /\ Steady(t, Pointers!Owner(t)) => ptr[Pointers!Owner(t)] = call[t].want
    /\ call[t].step = "take" => ptr[call[t].dst] = None

(* What it is about to acquire it alone refers to, or its source still     *)
(* holds it.                                                               *)
AttachOf(t) ==
    call[t].step = "attach" =>
        /\ ptr[call[t].dst] = call[t].want
        /\ call[t].want \in Objects /\ state[call[t].want] = "live"
        /\ \/ /\ call[t].dst \in RootsOf[t]
              /\ \A l \in Places : ptr[l] = call[t].want => l = call[t].dst
           \/ \E l \in Places : Steady(t, l) /\ ptr[l] = call[t].want

ThreadInv(t) == CallOf(t) /\ ChainOf(t) /\ ClaimOf(t) /\ SourceOf(t) /\ AttachOf(t)

ChainsApart ==
    \A t, u \in Threads : t # u =>
        \A i \in 1..Len(chain[t]), j \in 1..Len(chain[u]) : chain[t][i] # chain[u][j]

HoldersOf(o) == {l \in Places : ptr[l] = o /\ ~Taken(l)}

CountOf(o) == /\ state[o] = "live" => count[o] = Cardinality(HoldersOf(o))
              /\ state[o] # "live" => count[o] = 0 /\ HoldersOf(o) = {}

PointersInv == /\ PointersTyped
               /\ \A t \in Threads : ThreadInv(t)
               /\ ChainsApart
               /\ \A o \in Objects : CountOf(o)

(* What the assumption says of locations.                                  *)
LEMMA PlaceFacts ==
  /\ \A t \in Threads : RootsOf[t] \subseteq Places /\ RootsOf[t] \cap Objects = {}
  /\ \A t, u \in Threads : t # u => RootsOf[t] \cap RootsOf[u] = {}
  /\ Objects \subseteq Places /\ None \notin Places /\ IsFiniteSet(Places)
  /\ \A l \in Places : l \in Objects \/ \E t \in Threads : l \in RootsOf[t]
  /\ \A l \in Places : <<l>> \notin Places \cup {None}
<1>1. Pointers!SmartPointerAssumption
  BY OwnershipAssumption
<1>2. \A S : Pointers!IsFiniteSet(S) = IsFiniteSet(S)
  BY DEF Pointers!IsFiniteSet, IsFiniteSet
<1> QED
  BY <1>1, <1>2 DEF Pointers!SmartPointerAssumption, Places, Pointers!Locations, Pointers!Roots

(* The source of a call is a location, a raw pointer from one, or none.    *)
LEMMA OwnerCases ==
  ASSUME PointersTyped, NEW t \in Threads
  PROVE  \/ call[t].src = None /\ Pointers!Owner(t) = None
         \/ call[t].src \in Places /\ Pointers!Owner(t) = call[t].src
         \/ call[t].src \notin Places \cup {None} /\ Pointers!Owner(t) \in Places
<1>1. call[t].src \in Places \cup {None} \cup {<<l>> : l \in Places}
  BY DEF PointersTyped
<1>2. ASSUME NEW l \in Places, call[t].src = <<l>>
      PROVE  call[t].src \notin Places \cup {None} /\ Pointers!Owner(t) \in Places
  <2>1. <<l>> \notin Places \cup {None} /\ <<l>>[1] = l
    BY PlaceFacts
  <2> QED
    BY <1>2, <2>1 DEF Pointers!Owner, Places
<1>3. call[t].src \in Places \cup {None} => Pointers!Owner(t) = call[t].src
  BY DEF Pointers!Owner, Places
<1> QED
  BY <1>1, <1>2, <1>3, PlaceFacts

(* The first location of a chain is a pointer of the thread or a member,   *)
(* the others are members.                                                 *)
LEMMA ChainPlaces ==
  ASSUME PointersTyped, NEW t \in Threads, ThreadInv(t), NEW i \in 1..Len(chain[t])
  PROVE  /\ chain[t][i] \in Places
         /\ chain[t][i] \in RootsOf[t] \cup Objects
         /\ chain[t][i] = call[t].dst \/ chain[t][i] \in Objects
<1>1. chain[t][i] \in Places /\ Len(chain[t]) \in Nat
  BY DEF PointersTyped
<1>2. CASE i = 1
  BY <1>1, <1>2, PlaceFacts DEF ThreadInv, CallOf, ChainOf
<1>3. CASE i # 1
  <2>1. i \in 2..Len(chain[t])
    BY <1>1, <1>3
  <2> QED
    BY <1>1, <2>1 DEF ThreadInv, ChainOf
<1> QED
  BY <1>2, <1>3

(* What the call of a thread writes, no other thread reads or writes.      *)
LEMMA ClaimsApart ==
  ASSUME PointersInv, NEW t \in Threads, NEW u \in Threads, t # u, NEW l \in Places, Claimed(t, l)
  PROVE  /\ l \notin RootsOf[u] /\ ~Steady(u, l) /\ l # call[u].dst
         /\ \A i \in 1..Len(chain[u]) : chain[u][i] # l
<1>a. PointersTyped /\ ThreadInv(t) /\ ThreadInv(u) /\ ChainsApart
  BY DEF PointersInv
<1>b. /\ RootsOf[t] \subseteq Places /\ RootsOf[u] \subseteq Places
      /\ RootsOf[t] \cap Objects = {} /\ RootsOf[u] \cap Objects = {}
      /\ RootsOf[t] \cap RootsOf[u] = {} /\ None \notin Places
  BY PlaceFacts
<1>c. Len(chain[t]) \in Nat /\ Len(chain[u]) \in Nat
  BY <1>a DEF PointersTyped
<1>d. /\ call[u].dst \in RootsOf[u] \cup Objects \cup {None}
      /\ call[t].dst \in RootsOf[t] \cup Objects \cup {None}
  BY <1>a DEF ThreadInv, CallOf
<1>1. CASE l \notin Objects
  <2>1. l \in RootsOf[t]
    <3>1. CASE call[t].dst = l
      BY <1>1, <1>b, <1>d, <3>1
    <3>2. CASE call[t].move /\ call[t].src = l
      <4>1. Pointers!Owner(t) = l
        BY <3>2 DEF Pointers!Owner, Places
      <4> QED
        BY <1>1, <1>a, <1>b, <4>1 DEF ThreadInv, CallOf
    <3>3. CASE \E i \in 1..Len(chain[t]) : chain[t][i] = l
      BY <1>1, <1>a, <3>3, ChainPlaces
    <3> QED
      BY <3>1, <3>2, <3>3 DEF Claimed
  <2>2. \A i \in 1..Len(chain[u]) : chain[u][i] # l
    BY <1>1, <1>a, <1>b, <2>1, ChainPlaces
  <2> QED
    BY <1>1, <1>b, <1>d, <2>1, <2>2 DEF Steady
<1>2. CASE l \in Objects /\ \A x \in Places : ptr[x] = l => x \notin RootsOf[u]
  <2>1. l \notin RootsOf[u] /\ ~Steady(u, l)
    BY <1>2, <1>b DEF Steady
  <2>2. l # call[u].dst
    BY <1>2, <1>a, <1>b DEF ThreadInv, ClaimOf
  <2>3. ASSUME NEW i \in 1..Len(chain[u]), chain[u][i] = l
        PROVE  FALSE
    <3>1. i \in 2..Len(chain[u])
      <4>1. i # 1
        BY <1>a, <2>2, <2>3 DEF ThreadInv, ChainOf
      <4> QED
        BY <1>c, <4>1
    <3>2. \A x \in Places : ptr[x] = l => x = chain[u][i - 1]
      BY <1>a, <2>3, <3>1 DEF ThreadInv, ChainOf
    <3>3. chain[u][i - 1] \in RootsOf[u] \cup Objects
      BY <1>a, <1>c, <3>1, ChainPlaces
    <3>4. CASE call[t].dst = l
      BY <1>2, <1>a, <1>b, <3>2, <3>3, <3>4 DEF ThreadInv, ClaimOf
    <3>5. CASE call[t].move /\ call[t].src = l
      <4>1. \A x \in Places : ptr[x] = l => x \in RootsOf[t]
        BY <1>2, <1>a, <3>5 DEF ThreadInv, ClaimOf
      <4>2. ptr[chain[u][i - 1]] = l /\ chain[u][i - 1] \in Places
        BY <1>a, <1>c, <2>3, <3>1, ChainPlaces DEF ThreadInv, ChainOf
      <4> QED
        BY <1>b, <3>3, <4>1, <4>2
    <3>6. CASE \E j \in 1..Len(chain[t]) : chain[t][j] = l
      BY <1>a, <2>3, <3>6 DEF ChainsApart
    <3> QED
      BY <3>4, <3>5, <3>6 DEF Claimed
  <2> QED
    BY <2>1, <2>2, <2>3
<1>3. ASSUME l \in Objects, NEW x \in Places, ptr[x] = l, x \in RootsOf[u] PROVE FALSE
  <2>1. CASE call[t].dst = l
    BY <1>3, <1>a, <1>b, <2>1 DEF ThreadInv, ClaimOf
  <2>2. CASE call[t].move /\ call[t].src = l
    BY <1>3, <1>a, <1>b, <2>2 DEF ThreadInv, ClaimOf
  <2>3. ASSUME NEW j \in 1..Len(chain[t]), chain[t][j] = l PROVE FALSE
    <3>1. CASE j = 1
      BY <1>a, <2>1, <2>3, <3>1 DEF ThreadInv, ChainOf
    <3>2. CASE j # 1
      <4>1. j \in 2..Len(chain[t])
        BY <1>c, <3>2
      <4>2. x = chain[t][j - 1]
        BY <1>3, <1>a, <2>3, <4>1 DEF ThreadInv, ChainOf
      <4>3. chain[t][j - 1] \in RootsOf[t] \cup Objects
        BY <1>a, <1>c, <4>1, ChainPlaces
      <4> QED
        BY <1>3, <1>b, <4>2, <4>3
    <3> QED
      BY <3>1, <3>2
  <2> QED
    BY <2>1, <2>2, <2>3 DEF Claimed
<1> QED
  BY <1>1, <1>2, <1>3
(* What a thread reads it does not give up, and nobody else does.          *)
LEMMA SteadyHeld ==
  ASSUME PointersInv, NEW t \in Threads, NEW l \in Places, Steady(t, l)
  PROVE  /\ ~Taken(l)
         /\ \A i \in 1..Len(chain[t]) : chain[t][i] # l
         /\ \A u \in Threads : u # t => ~Claimed(u, l)
<1>a. PointersTyped /\ ThreadInv(t)
  BY DEF PointersInv
<1>b. RootsOf[t] \subseteq Places /\ RootsOf[t] \cap Objects = {}
  BY PlaceFacts
<1>c. Len(chain[t]) \in Nat
  BY <1>a DEF PointersTyped
<1>1. \A u \in Threads : u # t => ~Claimed(u, l)
  BY ClaimsApart
<1>2. ASSUME NEW i \in 1..Len(chain[t]), chain[t][i] = l PROVE FALSE
  <2>1. l # call[t].dst
    BY DEF Steady
  <2>2. i \in 2..Len(chain[t])
    BY <1>a, <1>c, <1>2, <2>1 DEF ThreadInv, ChainOf
  <2>3. l \in Objects /\ \A x \in Places : ptr[x] = l => x = chain[t][i - 1]
    BY <1>a, <1>2, <2>2 DEF ThreadInv, ChainOf
  <2>4. PICK r \in RootsOf[t] \ {call[t].dst} : ptr[r] = l
    BY <1>b, <2>3 DEF Steady
  <2>5. r = chain[t][i - 1]
    BY <1>b, <2>3, <2>4
  <2>6. i - 1 \in 1..Len(chain[t])
    BY <1>c, <2>2
  <2>7. chain[t][i - 1] = call[t].dst \/ chain[t][i - 1] \in Objects
    BY <1>a, <2>6, ChainPlaces
  <2> QED
    BY <1>b, <2>4, <2>5, <2>7
<1>3. ASSUME Taken(l) PROVE FALSE
  <2>1. PICK u \in Threads : \/ call[u].step = "attach" /\ call[u].dst = l
                             \/ \E i \in 1..Len(chain[u]) - 1 : chain[u][i] = l
    BY <1>3 DEF Taken
  <2>2. Len(chain[u]) \in Nat
    BY <1>a DEF PointersTyped
  <2>3. Claimed(u, l)
    BY <2>1, <2>2 DEF Claimed
  <2>4. u = t
    BY <1>1, <2>3
  <2> QED
    BY <1>2, <2>1, <2>2, <2>4 DEF Steady
<1> QED
  BY <1>1, <1>2, <1>3

(* Nothing refers to what is not there.                                    *)
LEMMA UsedIsLive ==
  ASSUME PointersInv, NEW l \in Places, ptr[l] \in Objects
  PROVE  state[ptr[l]] = "live"
<1>a. PointersTyped /\ \A t \in Threads : ThreadInv(t)
  BY DEF PointersInv
<1>1. CASE Taken(l)
  <2>1. PICK u \in Threads : \/ call[u].step = "attach" /\ call[u].dst = l
                             \/ \E i \in 1..Len(chain[u]) - 1 : chain[u][i] = l
    BY <1>1 DEF Taken
  <2>2. CASE call[u].step = "attach" /\ call[u].dst = l
    BY <1>a, <2>2 DEF ThreadInv, AttachOf
  <2>3. ASSUME NEW i \in 1..Len(chain[u]) - 1, chain[u][i] = l PROVE state[ptr[l]] = "live"
    <3>1. Len(chain[u]) \in Nat
      BY <1>a DEF PointersTyped
    <3>2. i + 1 \in 2..Len(chain[u]) /\ (i + 1) - 1 = i
      BY <3>1
    <3> QED
      BY <1>a, <2>3, <3>2 DEF ThreadInv, ChainOf
  <2> QED
    BY <2>1, <2>2, <2>3
<1>2. CASE ~Taken(l)
  <2>1. l \in HoldersOf(ptr[l])
    BY <1>2 DEF HoldersOf
  <2>2. CountOf(ptr[l])
    BY DEF PointersInv
  <2> QED
    BY <2>1, <2>2 DEF CountOf
<1> QED
  BY <1>1, <1>2

(* What holds an object can be counted.                                    *)
LEMMA HoldersFinite ==
  ASSUME NEW o PROVE IsFiniteSet(HoldersOf(o)) /\ Cardinality(HoldersOf(o)) \in Nat
<1>1. HoldersOf(o) \subseteq Places
  BY DEF HoldersOf
<1> QED
  BY <1>1, PlaceFacts, FS_Subset, FS_CardinalityType

(* The last location of a chain holds what it refers to.                   *)
LEMMA LastHolds ==
  ASSUME PointersInv, NEW t \in Threads, call[t].step = "detach",
         NEW l, l = chain[t][Len(chain[t])]
  PROVE  /\ Len(chain[t]) \in Nat \ {0} /\ l \in Places /\ ~Taken(l) /\ Claimed(t, l)
         /\ ptr[l] \in Objects /\ state[ptr[l]] = "live"
         /\ l \in HoldersOf(ptr[l]) /\ count[ptr[l]] = Cardinality(HoldersOf(ptr[l]))
         /\ count[ptr[l]] \in Nat \ {0}
<1>a. PointersTyped /\ ThreadInv(t)
  BY DEF PointersInv
<1>1. Len(chain[t]) \in Nat \ {0}
  BY <1>a DEF PointersTyped, ThreadInv, ChainOf
<1>2. l \in Places /\ Claimed(t, l)
  BY <1>a, <1>1 DEF PointersTyped, Claimed
<1>3. ptr[l] \in Objects
  BY <1>a, <1>1, <1>2 DEF PointersTyped, ThreadInv, ChainOf
<1>4. ASSUME Taken(l) PROVE FALSE
  <2>1. PICK u \in Threads : \/ call[u].step = "attach" /\ call[u].dst = l
                             \/ \E i \in 1..Len(chain[u]) - 1 : chain[u][i] = l
    BY <1>4 DEF Taken
  <2>2. Len(chain[u]) \in Nat
    BY <1>a DEF PointersTyped
  <2>3. CASE u = t
    BY <1>a, <1>1, <2>1, <2>3 DEF ThreadInv, ChainOf
  <2>4. CASE u # t
    BY <1>2, <2>1, <2>2, <2>4, ClaimsApart
  <2> QED
    BY <2>3, <2>4
<1>5. state[ptr[l]] = "live"
  BY <1>2, <1>3, UsedIsLive
<1>6. l \in HoldersOf(ptr[l])
  BY <1>2, <1>4 DEF HoldersOf
<1>7. count[ptr[l]] = Cardinality(HoldersOf(ptr[l]))
  BY <1>3, <1>5 DEF PointersInv, CountOf
<1>8. Cardinality(HoldersOf(ptr[l])) # 0
  BY <1>6, HoldersFinite, FS_EmptySet
<1> QED
  BY <1>1, <1>2, <1>3, <1>4, <1>5, <1>6, <1>7, <1>8, HoldersFinite

(* Who gives up the last reference is the only one to refer to the object. *)
LEMMA LastIsAlone ==
  ASSUME PointersInv, NEW t \in Threads, call[t].step = "detach",
         NEW l, l = chain[t][Len(chain[t])], count[ptr[l]] = 1
  PROVE  /\ HoldersOf(ptr[l]) = {l}
         /\ \A x \in Places : ptr[x] = ptr[l] => x = l
<1>a. PointersTyped /\ \A u \in Threads : ThreadInv(u)
  BY DEF PointersInv
<1>1. /\ l \in Places /\ Claimed(t, l) /\ ptr[l] \in Objects
      /\ l \in HoldersOf(ptr[l]) /\ count[ptr[l]] = Cardinality(HoldersOf(ptr[l]))
  BY LastHolds
<1>2. HoldersOf(ptr[l]) = {l}
  <2>1. PICK y : HoldersOf(ptr[l]) = {y}
    BY <1>1, HoldersFinite, FS_Singleton
  <2> QED
    BY <1>1, <2>1
<1>3. ASSUME NEW x \in Places, ptr[x] = ptr[l] PROVE x = l
  <2>1. CASE ~Taken(x)
    BY <1>2, <1>3, <2>1 DEF HoldersOf
  <2>2. ASSUME NEW u \in Threads, call[u].step = "attach", call[u].dst = x PROVE x = l
    <3>1. CASE \A y \in Places : ptr[y] = call[u].want => y = call[u].dst
      BY <1>a, <1>1, <1>3, <2>2, <3>1 DEF ThreadInv, AttachOf
    <3>2. ASSUME NEW y \in Places, Steady(u, y), ptr[y] = call[u].want PROVE FALSE
      <4>1. ptr[y] = ptr[l]
        BY <1>a, <1>3, <2>2, <3>2 DEF ThreadInv, AttachOf
      <4>2. y = l
        BY <1>2, <3>2, <4>1, SteadyHeld DEF HoldersOf
      <4>3. u # t
        BY <2>2
      <4> QED
        BY <1>1, <3>2, <4>2, <4>3, SteadyHeld
    <3> QED
      BY <1>a, <2>2, <3>1, <3>2 DEF ThreadInv, AttachOf
  <2>3. ASSUME NEW u \in Threads, NEW i \in 1..Len(chain[u]) - 1, chain[u][i] = x PROVE x = l
    <3>1. Len(chain[u]) \in Nat
      BY <1>a DEF PointersTyped
    <3>2. i + 1 \in 2..Len(chain[u]) /\ (i + 1) - 1 = i
      BY <3>1
    <3>3. ptr[x] = chain[u][i + 1] /\ \A y \in Places : ptr[y] = chain[u][i + 1] => y = x
      BY <1>a, <2>3, <3>2 DEF ThreadInv, ChainOf
    <3> QED
      BY <1>1, <1>3, <3>3
  <2> QED
    BY <2>1, <2>2, <2>3 DEF Taken
<1> QED
  BY <1>2, <1>3

(* A call reads its source, and that is what it was at its beginning.      *)
LEMMA SourceRead ==
  ASSUME PointersInv, NEW t \in Threads, call[t].step = "take", ~Pointers!Unowned(t),
         call[t].src # None
  PROVE  /\ Pointers!Owner(t) \in Places /\ Steady(t, Pointers!Owner(t))
         /\ ptr[Pointers!Owner(t)] = call[t].want
<1>a. PointersTyped /\ ThreadInv(t)
  BY DEF PointersInv
<1>b. RootsOf[t] \subseteq Places /\ RootsOf[t] \cap Objects = {} /\ None \notin Places
      /\ Objects \subseteq Places
  BY PlaceFacts
<1>1. Pointers!Owner(t) \in Places
  BY <1>a, <1>b, OwnerCases
<1>2. Pointers!Owner(t) # call[t].dst
  BY <1>a, <1>b, <1>1 DEF ThreadInv, SourceOf
<1>3. Steady(t, Pointers!Owner(t))
  <2>1. CASE Pointers!Owner(t) \in RootsOf[t]
    BY <1>2, <2>1 DEF Steady
  <2>2. CASE Pointers!Owner(t) \in Objects
    <3>1. PICK r \in RootsOf[t] : ptr[r] = Pointers!Owner(t)
      BY <1>b, <2>2 DEF Pointers!Unowned, Pointers!Readable
    <3>2. ptr[call[t].dst] = None
      BY <1>a DEF ThreadInv, SourceOf
    <3> QED
      BY <1>1, <1>2, <1>b, <2>2, <3>1, <3>2 DEF Steady
  <2> QED
    BY <1>a, <1>1, <1>b, <2>1, <2>2 DEF ThreadInv, CallOf
<1> QED
  BY <1>a, <1>b, <1>1, <1>3 DEF ThreadInv, SourceOf
(* What the call of u keeps to itself, so that nobody else may come to     *)
(* refer to it.                                                            *)
KeptBy(u, v) ==
    \/ call[u].dst = v
    \/ call[u].move /\ call[u].src = v
    \/ \E i \in 2..Len(chain[u]) : chain[u][i] = v
    \/ /\ call[u].step = "attach" /\ call[u].want = v
       /\ \A l \in Places : ptr[l] = v => l = call[u].dst

(* What another thread gets by reading is nothing of that.                 *)
LEMMA ReadNotKept ==
  ASSUME PointersInv, NEW t \in Threads, NEW u \in Threads, t # u,
         NEW l \in Places, Steady(t, l), NEW v \in Objects, ptr[l] = v
  PROVE  ~KeptBy(u, v)
<1>a. PointersTyped /\ ThreadInv(u)
  BY DEF PointersInv
<1>b. /\ RootsOf[t] \subseteq Places /\ RootsOf[u] \subseteq Places
      /\ RootsOf[t] \cap Objects = {} /\ RootsOf[u] \cap Objects = {}
      /\ RootsOf[t] \cap RootsOf[u] = {} /\ None \notin Places
  BY PlaceFacts
<1>1. l \notin RootsOf[u] /\ ~Claimed(u, l)
  BY <1>b, SteadyHeld DEF Steady
<1>2. call[u].dst # v
  BY <1>a, <1>1 DEF ThreadInv, ClaimOf, Claimed
<1>3. ~(call[u].move /\ call[u].src = v)
  BY <1>a, <1>1 DEF ThreadInv, ClaimOf
<1>4. ASSUME NEW i \in 2..Len(chain[u]), chain[u][i] = v PROVE FALSE
  <2>1. l = chain[u][i - 1]
    BY <1>a, <1>4 DEF ThreadInv, ChainOf
  <2>2. Len(chain[u]) \in Nat
    BY <1>a DEF PointersTyped
  <2>3. i - 1 \in 1..Len(chain[u])
    BY <2>2
  <2> QED
    BY <1>1, <2>1, <2>3 DEF Claimed
<1>5. ~(/\ call[u].step = "attach" /\ call[u].want = v
        /\ \A x \in Places : ptr[x] = v => x = call[u].dst)
  BY <1>1 DEF Claimed
<1> QED
  BY <1>2, <1>3, <1>4, <1>5 DEF KeptBy

(* A step of another thread that writes nothing that the call of u reads   *)
(* or writes, and refers anew to nothing that it keeps, does not disturb   *)
(* it.                                                                     *)
LEMMA ThreadUndisturbed ==
  ASSUME PointersInv, PointersTyped', NEW u \in Threads, call'[u] = call[u], chain'[u] = chain[u],
         \A l \in Places : ptr'[l] # ptr[l] =>
            /\ l \notin RootsOf[u] /\ ~Steady(u, l) /\ l # call[u].dst
            /\ \A i \in 1..Len(chain[u]) : chain[u][i] # l
            /\ ptr'[l] = None \/ ~KeptBy(u, ptr'[l]),
         \A o \in Objects : state'[o] # state[o] =>
            /\ state'[o] # "none"
            /\ \A i \in 2..Len(chain[u]) : chain[u][i] # o
            /\ ~(call[u].step = "attach" /\ call[u].want = o)
  PROVE  ThreadInv(u)'
<1>a. PointersTyped /\ ThreadInv(u) /\ Len(chain[u]) \in Nat
  BY DEF PointersInv, PointersTyped
<1>b. RootsOf[u] \subseteq Places /\ RootsOf[u] \cap Objects = {} /\ None \notin Places
      /\ Objects \subseteq Places
  BY PlaceFacts
<1>1. Pointers!Owner(u)' = Pointers!Owner(u)
  BY DEF Pointers!Owner
<1>2. \A r \in RootsOf[u] : ptr'[r] = ptr[r]
  BY <1>b
<1>3. \A l : Steady(u, l)' <=> Steady(u, l)
  BY <1>2 DEF Steady
<1>4. CallOf(u)'
  BY <1>a, <1>1 DEF ThreadInv, CallOf
<1>5. ChainOf(u)'
  <2>1. /\ call'[u].step = "detach" <=> Len(chain'[u]) > 0
        /\ \A i, j \in 1..Len(chain'[u]) : chain'[u][i] = chain'[u][j] => i = j
    BY <1>a DEF ThreadInv, ChainOf
  <2>2. \A i \in 1..Len(chain[u]) : chain[u][i] \in Places /\ ptr'[chain[u][i]] = ptr[chain[u][i]]
    BY <1>a, ChainPlaces
  <2>3. Len(chain'[u]) > 0 => /\ chain'[u][1] = call'[u].dst
                              /\ ptr'[chain'[u][Len(chain'[u])]] # None
    BY <1>a, <2>2 DEF ThreadInv, ChainOf
  <2>4. ASSUME NEW i \in 2..Len(chain'[u])
        PROVE  /\ chain'[u][i] \in Objects /\ state'[chain'[u][i]] = "live"
               /\ ptr'[chain'[u][i - 1]] = chain'[u][i]
               /\ \A l \in Places : ptr'[l] = chain'[u][i] => l = chain'[u][i - 1]
    <3>1. i \in 2..Len(chain[u]) /\ i - 1 \in 1..Len(chain[u])
      BY <1>a
    <3>2. /\ chain[u][i] \in Objects /\ state[chain[u][i]] = "live"
          /\ ptr[chain[u][i - 1]] = chain[u][i]
          /\ \A l \in Places : ptr[l] = chain[u][i] => l = chain[u][i - 1]
      BY <1>a, <3>1 DEF ThreadInv, ChainOf
    <3>3. KeptBy(u, chain[u][i])
      BY <3>1 DEF KeptBy
    <3> QED
      BY <1>b, <2>2, <3>1, <3>2, <3>3
  <2> QED
    BY <2>1, <2>3, <2>4 DEF ChainOf
<1>6. ClaimOf(u)'
  <2>1. call[u].dst \in Objects =>
          /\ \A l \in Places : ptr'[l] = call[u].dst => l \in RootsOf[u] \cup {call[u].dst}
          /\ \E r \in RootsOf[u] : ptr'[r] = call[u].dst
    BY <1>a, <1>b, <1>2 DEF ThreadInv, ClaimOf, KeptBy
  <2>2. call[u].move /\ call[u].src \in Objects =>
          /\ \A l \in Places : ptr'[l] = call[u].src => l \in RootsOf[u]
          /\ state'[call[u].src] # "none"
    BY <1>a, <1>b DEF ThreadInv, ClaimOf, KeptBy
  <2> QED
    BY <2>1, <2>2 DEF ClaimOf
<1>7. SourceOf(u)'
  <2>1. call[u].step = "take" => ptr'[call[u].dst] = None
    <3>1. call[u].step = "take" => call[u].dst \in Places
      BY <1>a, <1>b DEF ThreadInv, CallOf
    <3> QED
      BY <1>a, <3>1 DEF ThreadInv, SourceOf
  <2>2. Pointers!Owner(u) \in Places \cup {None}
    BY <1>a, <1>b DEF ThreadInv, CallOf
  <2> QED
    BY <1>a, <1>1, <1>3, <2>1, <2>2 DEF ThreadInv, SourceOf
<1>8. AttachOf(u)'
  <2> SUFFICES ASSUME call'[u].step = "attach" PROVE AttachOf(u)'
    BY DEF AttachOf
  <2>1. /\ ptr[call[u].dst] = call[u].want
        /\ call[u].want \in Objects /\ state[call[u].want] = "live"
        /\ \/ /\ call[u].dst \in RootsOf[u]
              /\ \A l \in Places : ptr[l] = call[u].want => l = call[u].dst
           \/ \E l \in Places : Steady(u, l) /\ ptr[l] = call[u].want
    BY <1>a DEF ThreadInv, AttachOf
  <2>2. call[u].dst \in Places
    BY <1>a, <1>b DEF ThreadInv, CallOf
  <2>3. ptr'[call[u].dst] = call[u].want /\ state'[call[u].want] = "live"
    BY <2>1, <2>2
  <2>4. (\A l \in Places : ptr[l] = call[u].want => l = call[u].dst)
          => \A l \in Places : ptr'[l] = call[u].want => l = call[u].dst
    BY <1>b, <2>1 DEF KeptBy
  <2>5. (\E l \in Places : Steady(u, l) /\ ptr[l] = call[u].want)
          => \E l \in Places : Steady(u, l)' /\ ptr'[l] = call[u].want
    BY <1>3
  <2> QED
    BY <2>1, <2>3, <2>4, <2>5 DEF AttachOf
<1> QED
  BY <1>4, <1>5, <1>6, <1>7, <1>8 DEF ThreadInv
(* Counts are kept by a step that leaves them, the objects and the         *)
(* pointers that hold them.                                                *)
LEMMA CountsUndisturbed ==
  ASSUME PointersInv, UNCHANGED <<count, state>>,
         \A o \in Objects : \A l \in Places : ptr'[l] = o /\ ~Taken(l)' <=> ptr[l] = o /\ ~Taken(l)
  PROVE  \A o \in Objects : CountOf(o)'
<1>1. ASSUME NEW o \in Objects PROVE CountOf(o)'
  <2>1. HoldersOf(o)' = HoldersOf(o)
    BY DEF HoldersOf
  <2>2. CountOf(o)
    BY DEF PointersInv
  <2> QED
    BY <2>1, <2>2 DEF CountOf
<1> QED
  BY <1>1

(* A thread may write its pointers and the members of objects that it      *)
(* alone refers to.                                                        *)
LEMMA WritablePlaces ==
  ASSUME PointersInv, NEW t \in Threads, NEW l \in Pointers!Writable(t)
  PROVE  /\ l \in Places /\ l \in RootsOf[t] \cup Objects
         /\ l \in Objects => /\ \A x \in Places : ptr[x] = l => x \in RootsOf[t]
                             /\ \E r \in RootsOf[t] : ptr[r] = l
                             /\ state[l] = "live"
<1>1. l \in RootsOf[t] \/ /\ l \in Objects
                          /\ \A x \in Places : ptr[x] = l => x \in RootsOf[t]
                          /\ \E x \in Places : ptr[x] = l
  BY DEF Pointers!Writable, Pointers!Users, Places
<1>2. RootsOf[t] \subseteq Places /\ RootsOf[t] \cap Objects = {} /\ Objects \subseteq Places
  BY PlaceFacts
<1>3. ASSUME NEW x \in Places, ptr[x] = l, l \in Objects PROVE state[l] = "live"
  BY <1>3, UsedIsLive
<1> QED
  BY <1>1, <1>2, <1>3

(* What a call is given is at l, or nothing; a raw pointer is from l.      *)
GivenAt(l, t, move, dst, src, want) ==
    \/ l = None /\ src = None /\ want = None /\ ~move
    \/ /\ l \in RootsOf[t] \cup Objects /\ l # dst /\ want = ptr[l]
       /\ (src = l \/ (src = <<l>> /\ ~move))
       /\ move => l \in Pointers!Writable(t)

(* A call starts to give up what its pointer holds.                        *)
LEMMA BeginInv ==
  ASSUME PointersInv, NEW t \in Threads, NEW move \in BOOLEAN, NEW dst, NEW src, NEW want, NEW l,
         Pointers!Begin(t, move, dst, src, want), GivenAt(l, t, move, dst, src, want)
  PROVE  PointersInv'
<1>a. PointersTyped /\ ThreadInv(t) /\ ChainsApart
  BY DEF PointersInv
<1>b. /\ RootsOf[t] \subseteq Places /\ RootsOf[t] \cap Objects = {} /\ None \notin Places
      /\ Objects \subseteq Places
      /\ \A x \in Places : <<x>> \notin Places \cup {None}
  BY PlaceFacts
<1>c. \/ l = None /\ src = None /\ want = None /\ ~move
      \/ /\ l \in RootsOf[t] \cup Objects /\ l # dst /\ want = ptr[l]
         /\ (src = l \/ (src = <<l>> /\ ~move))
         /\ move => l \in Pointers!Writable(t)
  BY DEF GivenAt
<1>1. /\ call[t].step = "idle" /\ dst \in Pointers!Writable(t)
      /\ UNCHANGED <<ptr, count, state>>
  BY DEF Pointers!Begin
<1>2. /\ dst \in Places /\ dst \in RootsOf[t] \cup Objects
      /\ dst \in Objects => /\ \A x \in Places : ptr[x] = dst => x \in RootsOf[t]
                            /\ \E r \in RootsOf[t] : ptr[r] = dst
  BY <1>1, WritablePlaces
<1>3. want \in Objects \cup {None}
  BY <1>a, <1>b, <1>c DEF PointersTyped
<1>4. PICK step \in {"take", "detach"} :
        /\ step = "take" <=> ptr[dst] = None
        /\ call' = [call EXCEPT ![t] = [step |-> step, move |-> move, dst |-> dst,
                                        src |-> src, want |-> want]]
  <2>1. CASE ptr[dst] = None
    BY <2>1 DEF Pointers!Begin
  <2>2. CASE ptr[dst] # None
    BY <2>2 DEF Pointers!Begin
  <2> QED
    BY <2>1, <2>2
<1>5. PICK q \in Seq(Places) : /\ q = IF step = "take" THEN << >> ELSE <<dst>>
                               /\ chain' = [chain EXCEPT ![t] = q]
  <2>1. << >> \in Seq(Places) /\ <<dst>> \in Seq(Places)
    BY <1>2
  <2>2. CASE ptr[dst] = None
    BY <1>4, <2>1, <2>2 DEF Pointers!Begin
  <2>3. CASE ptr[dst] # None
    BY <1>4, <2>1, <2>3 DEF Pointers!Begin
  <2> QED
    BY <2>2, <2>3
<1>6. src \in Places \cup {None} \cup {<<x>> : x \in Places}
  BY <1>b, <1>c
<1>7. PointersTyped'
  <2>1. chain' \in [Threads -> Seq(Places)]
    BY <1>a, <1>5 DEF PointersTyped
  <2>2. call' \in [Threads -> [step : {"idle", "detach", "take", "attach"}, move : BOOLEAN,
                             dst : Places \cup {None},
                             src : Places \cup {None} \cup {<<x>> : x \in Places},
                             want : Objects \cup {None}]]
    BY <1>a, <1>2, <1>3, <1>4, <1>6 DEF PointersTyped
  <2> QED
    BY <1>a, <1>1, <2>1, <2>2 DEF PointersTyped
<1>8. /\ call'[t].step = step /\ call'[t].move = move /\ call'[t].dst = dst
      /\ call'[t].src = src /\ call'[t].want = want /\ chain'[t] = q
      /\ \A u \in Threads \ {t} : call'[u] = call[u] /\ chain'[u] = chain[u]
  BY <1>a, <1>4, <1>5 DEF PointersTyped
<1>9. /\ Len(q) = IF step = "take" THEN 0 ELSE 1
      /\ step # "take" => q[1] = dst
  BY <1>5
<1>10. Pointers!Owner(t)' = l
  BY <1>b, <1>c, <1>8 DEF Pointers!Owner, Places
<1>11. ThreadInv(t)'
  <2>1. CallOf(t)'
    BY <1>b, <1>c, <1>2, <1>4, <1>8, <1>10 DEF CallOf
  <2>2. ChainOf(t)'
    BY <1>1, <1>4, <1>8, <1>9 DEF ChainOf
  <2>3. ClaimOf(t)'
    <3>1. move /\ src \in Objects => src = l /\ l \in Pointers!Writable(t)
      BY <1>b, <1>c
    <3>2. move /\ src \in Objects => /\ \A x \in Places : ptr[x] = src => x \in RootsOf[t]
                                     /\ state[src] # "none"
      BY <3>1, WritablePlaces
    <3> QED
      BY <1>1, <1>2, <1>8, <3>2 DEF ClaimOf
  <2>4. SourceOf(t)'
    BY <1>b, <1>c, <1>1, <1>4, <1>8, <1>10 DEF SourceOf
  <2>5. AttachOf(t)'
    BY <1>4, <1>8 DEF AttachOf
  <2> QED
    BY <2>1, <2>2, <2>3, <2>4, <2>5 DEF ThreadInv
<1>12. ASSUME NEW u \in Threads, u # t PROVE ThreadInv(u)'
  BY <1>1, <1>7, <1>8, <1>12, ThreadUndisturbed
<1>13. ChainsApart'
  <2>1. ASSUME NEW u \in Threads, u # t, NEW i \in 1..Len(chain[u]), chain[u][i] = dst PROVE FALSE
    <3>1. dst \notin RootsOf[t] /\ ~Steady(t, dst)
      BY <1>2, <2>1, ClaimsApart DEF Claimed
    <3>2. call[t].dst = None
      BY <1>a, <1>1 DEF ThreadInv, CallOf
    <3> QED
      BY <1>b, <1>2, <3>1, <3>2 DEF Steady
  <2> QED
    BY <1>a, <1>8, <1>9, <2>1 DEF ChainsApart
<1>14. \A x : Taken(x)' <=> Taken(x)
  <2>1. call[t].step # "attach" /\ Len(chain[t]) - 1 < 1
    BY <1>a, <1>1 DEF PointersTyped, ThreadInv, ChainOf
  <2>2. call'[t].step # "attach" /\ Len(chain'[t]) - 1 < 1
    BY <1>4, <1>8, <1>9
  <2> QED
    BY <1>8, <2>1, <2>2 DEF Taken
<1>15. \A o \in Objects : CountOf(o)'
  BY <1>1, <1>14, CountsUndisturbed
<1> QED
  BY <1>7, <1>11, <1>12, <1>13, <1>15 DEF PointersInv
(* A new object has one pointer, which is about to acquire it.             *)
LEMMA MakeInv ==
  ASSUME PointersInv, NEW t \in Threads, NEW dst, NEW o \in Objects, Pointers!Make(t, dst, o)
  PROVE  PointersInv'
<1>a. /\ PointersTyped /\ ThreadInv(t) /\ ChainsApart
      /\ \A x \in Objects : CountOf(x)
  BY DEF PointersInv
<1>b. /\ RootsOf[t] \subseteq Places /\ RootsOf[t] \cap Objects = {} /\ None \notin Places
      /\ Objects \subseteq Places
  BY PlaceFacts
<1>1. /\ call[t].step = "idle" /\ dst \in RootsOf[t] /\ ptr[dst] = None /\ state[o] = "none"
      /\ state' = [state EXCEPT ![o] = "live"] /\ ptr' = [ptr EXCEPT ![dst] = o]
      /\ call' = [call EXCEPT ![t] = [step |-> "attach", move |-> FALSE, dst |-> dst,
                                      src |-> None, want |-> o]]
      /\ UNCHANGED <<count, chain>>
  BY DEF Pointers!Make
<1>2. PointersTyped'
  <2>1. call' \in [Threads -> [step : {"idle", "detach", "take", "attach"}, move : BOOLEAN,
                             dst : Places \cup {None},
                             src : Places \cup {None} \cup {<<x>> : x \in Places},
                             want : Objects \cup {None}]]
    BY <1>a, <1>b, <1>1 DEF PointersTyped
  <2>2. ptr' \in [Places -> Objects \cup {None}] /\ state' \in [Objects -> {"none", "live", "deleted"}]
    BY <1>a, <1>b, <1>1 DEF PointersTyped
  <2> QED
    BY <1>a, <1>1, <2>1, <2>2 DEF PointersTyped
<1>3. /\ call'[t].step = "attach" /\ call'[t].move = FALSE /\ call'[t].dst = dst
      /\ call'[t].src = None /\ call'[t].want = o
      /\ \A u \in Threads \ {t} : call'[u] = call[u]
      /\ ptr'[dst] = o /\ \A l \in Places \ {dst} : ptr'[l] = ptr[l]
      /\ state'[o] = "live" /\ \A x \in Objects \ {o} : state'[x] = state[x]
  BY <1>a, <1>b, <1>1 DEF PointersTyped
<1>4. \A l \in Places : ptr[l] # o
  BY <1>1, UsedIsLive
<1>5. Len(chain[t]) = 0 /\ Len(chain[t]) \in Nat /\ call[t].dst = None
  BY <1>a, <1>1 DEF PointersTyped, ThreadInv, ChainOf, CallOf
<1>6. Steady(t, dst)
  BY <1>b, <1>1, <1>5 DEF Steady
<1>7. ThreadInv(t)'
  <2>1. Pointers!Owner(t)' = None
    BY <1>3 DEF Pointers!Owner
  <2>2. CallOf(t)'
    BY <1>b, <1>1, <1>3, <2>1 DEF CallOf
  <2>3. ChainOf(t)'
    BY <1>1, <1>3, <1>5 DEF ChainOf
  <2>4. ClaimOf(t)' /\ SourceOf(t)'
    BY <1>b, <1>1, <1>3 DEF ClaimOf, SourceOf
  <2>5. AttachOf(t)'
    BY <1>1, <1>3, <1>4 DEF AttachOf
  <2> QED
    BY <2>2, <2>3, <2>4, <2>5 DEF ThreadInv
<1>8. ASSUME NEW u \in Threads, u # t PROVE ThreadInv(u)'
  <2>1. ThreadInv(u)
    BY DEF PointersInv
  <2>2. /\ dst \notin RootsOf[u] /\ ~Steady(u, dst) /\ dst # call[u].dst
        /\ \A i \in 1..Len(chain[u]) : chain[u][i] # dst
    <3>1. ~Claimed(u, dst)
      BY <1>b, <1>1, <1>6, <1>8, SteadyHeld
    <3>2. dst \notin RootsOf[u] /\ dst \notin Objects
      BY <1>b, <1>1, <1>8, PlaceFacts
    <3> QED
      BY <3>1, <3>2 DEF Claimed, Steady
  <2>3. /\ \A i \in 2..Len(chain[u]) : chain[u][i] # o
        /\ ~(call[u].step = "attach" /\ call[u].want = o)
    BY <1>1, <2>1 DEF ThreadInv, ChainOf, AttachOf
  <2>4. ~KeptBy(u, o)
    <3>1. call[u].dst # o
      BY <1>4, <2>1, PlaceFacts DEF ThreadInv, ClaimOf
    <3>2. ~(call[u].move /\ call[u].src = o)
      BY <1>1, <2>1 DEF ThreadInv, ClaimOf
    <3> QED
      BY <2>3, <3>1, <3>2 DEF KeptBy
  <2> QED
    BY <1>1, <1>2, <1>3, <1>8, <2>2, <2>3, <2>4, ThreadUndisturbed
<1>9. ChainsApart'
  BY <1>a, <1>1 DEF ChainsApart
<1>10. \A x \in Places : Taken(x)' <=> Taken(x) \/ x = dst
  BY <1>1, <1>3 DEF Taken
<1>11. ASSUME NEW x \in Objects PROVE CountOf(x)'
  <2>1. CASE x = o
    <3>1. HoldersOf(x)' = {}
      BY <1>3, <1>4, <1>10, <2>1 DEF HoldersOf
    <3>2. count'[x] = 0
      BY <1>a, <1>1, <2>1 DEF CountOf
    <3>3. Cardinality(HoldersOf(x)') = 0
      BY <3>1, FS_EmptySet
    <3> QED
      BY <1>3, <2>1, <3>1, <3>2, <3>3 DEF CountOf
  <2>2. CASE x # o
    <3>1. HoldersOf(x)' = HoldersOf(x)
      BY <1>b, <1>1, <1>3, <1>10, <2>2 DEF HoldersOf
    <3> QED
      BY <1>a, <1>1, <1>3, <2>2, <3>1 DEF CountOf
  <2> QED
    BY <2>1, <2>2
<1> QED
  BY <1>2, <1>7, <1>8, <1>9, <1>11 DEF PointersInv

(* A call begins: what it reads is what its thread may read.               *)
LEMMA CallsInv ==
  ASSUME PointersInv, NEW t \in Threads, Pointers!Calls(t)
  PROVE  PointersInv'
<1>a. PointersTyped
  BY DEF PointersInv
<1>1. \A l \in Pointers!Readable(t) : l \in RootsOf[t] \cup Objects
  BY DEF Pointers!Readable
<1>2. \A l \in Pointers!Writable(t) : l \in RootsOf[t] \cup Objects
  BY WritablePlaces
<1>3. PICK dst \in Pointers!Locations :
        \/ \E src \in Pointers!Locations :
             \/ Pointers!Assign(t, dst, src) \/ Pointers!Move(t, dst, src)
             \/ Pointers!ResetTo(t, dst, src)
        \/ \E o \in Objects : Pointers!Make(t, dst, o)
        \/ Pointers!Reset(t, dst)
  BY DEF Pointers!Calls
<1>4. ASSUME NEW src, Pointers!Assign(t, dst, src) PROVE PointersInv'
  <2>1. src \in Pointers!Readable(t) \ {dst} /\ Pointers!Begin(t, FALSE, dst, src, ptr[src])
    BY <1>4 DEF Pointers!Assign
  <2>2. GivenAt(src, t, FALSE, dst, src, ptr[src])
    BY <1>1, <2>1 DEF GivenAt
  <2> QED
    BY <2>1, <2>2, BeginInv
<1>5. ASSUME NEW src, Pointers!Move(t, dst, src) PROVE PointersInv'
  <2>1. src \in Pointers!Writable(t) \ {dst} /\ Pointers!Begin(t, TRUE, dst, src, ptr[src])
    BY <1>5 DEF Pointers!Move
  <2>2. GivenAt(src, t, TRUE, dst, src, ptr[src])
    BY <1>2, <2>1 DEF GivenAt
  <2> QED
    BY <2>1, <2>2, BeginInv
<1>6. ASSUME NEW src, Pointers!ResetTo(t, dst, src) PROVE PointersInv'
  <2>1. /\ src \in Pointers!Readable(t) /\ ptr[dst] # ptr[src]
        /\ Pointers!Begin(t, FALSE, dst, <<src>>, ptr[src])
    BY <1>6 DEF Pointers!ResetTo
  <2>2. GivenAt(src, t, FALSE, dst, <<src>>, ptr[src])
    BY <1>1, <2>1 DEF GivenAt
  <2> QED
    BY <2>1, <2>2, BeginInv
<1>7. ASSUME Pointers!Reset(t, dst) PROVE PointersInv'
  <2>1. Pointers!Begin(t, FALSE, dst, None, None)
    BY <1>7 DEF Pointers!Reset
  <2>2. GivenAt(None, t, FALSE, dst, None, None)
    BY DEF GivenAt
  <2> QED
    BY <2>1, <2>2, BeginInv
<1> QED
  BY <1>3, <1>4, <1>5, <1>6, <1>7, MakeInv

(* Nothing is to be said of a thread that is in no call.                   *)
LEMMA IdleThread ==
  ASSUME NEW t \in Threads, call'[t] = Pointers!Idle, Len(chain'[t]) = 0
  PROVE  ThreadInv(t)'
<1>1. /\ call'[t].step = "idle" /\ call'[t].move = FALSE /\ call'[t].dst = None
      /\ call'[t].src = None /\ call'[t].want = None
  BY DEF Pointers!Idle
<1>2. Pointers!Owner(t)' = None
  BY <1>1 DEF Pointers!Owner
<1>3. None \notin Objects
  BY PlaceFacts
<1> QED
  BY <1>1, <1>2, <1>3 DEF ThreadInv, CallOf, ChainOf, ClaimOf, SourceOf, AttachOf

(* What a pointer refers to is acquired (BSTSmartPointer.h:144-216).       *)
LEMMA TryAttachInv ==
  ASSUME PointersInv, NEW t \in Threads, Pointers!TryAttach(t)
  PROVE  PointersInv'
<1>a. /\ PointersTyped /\ ThreadInv(t) /\ ChainsApart
      /\ \A x \in Objects : CountOf(x)
  BY DEF PointersInv
<1>b. /\ RootsOf[t] \subseteq Places /\ None \notin Places /\ Objects \subseteq Places
  BY PlaceFacts
<1>1. PICK dst, o : dst = call[t].dst /\ o = ptr[dst]
  OBVIOUS
<1>2. /\ call[t].step = "attach" /\ count' = [count EXCEPT ![o] = @ + 1]
      /\ call' = [call EXCEPT ![t] = Pointers!Idle]
      /\ UNCHANGED <<ptr, state, chain>>
  BY <1>1 DEF Pointers!TryAttach
<1>3. /\ dst \in Places /\ o \in Objects /\ state[o] = "live"
      /\ Len(chain[t]) = 0 /\ Len(chain[t]) \in Nat
  BY <1>a, <1>b, <1>1, <1>2 DEF PointersTyped, ThreadInv, CallOf, ChainOf, AttachOf
<1>4. /\ call'[t] = Pointers!Idle /\ \A u \in Threads \ {t} : call'[u] = call[u]
      /\ count[o] \in Nat /\ count'[o] = count[o] + 1
      /\ \A x \in Objects \ {o} : count'[x] = count[x]
  BY <1>a, <1>2, <1>3 DEF PointersTyped
<1>5. PointersTyped'
  <2>1. call' \in [Threads -> [step : {"idle", "detach", "take", "attach"}, move : BOOLEAN,
                             dst : Places \cup {None},
                             src : Places \cup {None} \cup {<<x>> : x \in Places},
                             want : Objects \cup {None}]]
    BY <1>a, <1>2 DEF PointersTyped, Pointers!Idle
  <2>2. count' \in [Objects -> Nat]
    BY <1>a, <1>2, <1>3 DEF PointersTyped
  <2> QED
    BY <1>a, <1>2, <2>1, <2>2 DEF PointersTyped
<1>6. ThreadInv(t)'
  BY <1>2, <1>3, <1>4, IdleThread
<1>7. ASSUME NEW u \in Threads, u # t PROVE ThreadInv(u)'
  BY <1>2, <1>4, <1>5, <1>7, ThreadUndisturbed
<1>8. ChainsApart'
  BY <1>a, <1>2 DEF ChainsApart
<1>9. \A x \in Places : Taken(x)' <=> Taken(x) /\ x # dst
  <2>1. \A u \in Threads \ {t} : ~Claimed(u, dst)
    BY <1>1, <1>3, ClaimsApart
  <2>2. ASSUME NEW u \in Threads \ {t}, \/ call[u].step = "attach" /\ call[u].dst = dst
                                        \/ \E i \in 1..Len(chain[u]) - 1 : chain[u][i] = dst
        PROVE  FALSE
    <3>1. Len(chain[u]) \in Nat
      BY <1>a DEF PointersTyped
    <3> QED
      BY <2>1, <2>2, <3>1 DEF Claimed
  <2>3. call'[t].step # "attach" /\ ~(\E i \in 1..Len(chain[t]) - 1 : TRUE)
    BY <1>3, <1>4 DEF Pointers!Idle
  <2> QED
    BY <1>1, <1>2, <1>4, <2>2, <2>3 DEF Taken
<1>10. Taken(dst)
  BY <1>1, <1>2 DEF Taken
<1>11. ASSUME NEW x \in Objects PROVE CountOf(x)'
  <2>1. CASE x = o
    <3>1. HoldersOf(x)' = HoldersOf(x) \cup {dst} /\ dst \notin HoldersOf(x)
      BY <1>1, <1>2, <1>3, <1>9, <1>10, <2>1 DEF HoldersOf
    <3>2. Cardinality(HoldersOf(x) \cup {dst}) = Cardinality(HoldersOf(x)) + 1
      BY <3>1, HoldersFinite, FS_AddElement
    <3> QED
      BY <1>a, <1>2, <1>3, <1>4, <2>1, <3>1, <3>2 DEF CountOf
  <2>2. CASE x # o
    <3>1. HoldersOf(x)' = HoldersOf(x)
      BY <1>1, <1>2, <1>9, <2>2 DEF HoldersOf
    <3> QED
      BY <1>a, <1>2, <1>4, <2>2, <3>1 DEF CountOf
  <2> QED
    BY <2>1, <2>2
<1> QED
  BY <1>5, <1>6, <1>7, <1>8, <1>11 DEF PointersInv

(* A call takes what it wants, and of a move leaves nothing at its source. *)
LEMMA TakeStep ==
  ASSUME PointersInv, NEW t \in Threads, Pointers!Take(t), ~Pointers!Unowned(t)
  PROVE  /\ UNCHANGED <<count, state, chain>> /\ call[t].dst \in Places
         /\ ptr' \in [Places -> Objects \cup {None}] /\ ptr'[call[t].dst] = call[t].want
         /\ \A l \in Places \ {call[t].dst} :
              ptr'[l] = IF call[t].move /\ l = call[t].src THEN None ELSE ptr[l]
         /\ call' = [call EXCEPT ![t] = IF call[t].move \/ call[t].want = None
                                          THEN Pointers!Idle ELSE [@ EXCEPT !.step = "attach"]]
<1>a. PointersTyped /\ ThreadInv(t)
  BY DEF PointersInv
<1>b. None \notin Places /\ Objects \subseteq Places /\ RootsOf[t] \subseteq Places
  BY PlaceFacts
<1>1. PICK c : c = call[t]
  OBVIOUS
<1>2. /\ c.step = "take" /\ UNCHANGED <<count, state, chain>>
      /\ ptr' = IF c.src = None THEN ptr
                ELSE IF c.src \notin Places THEN [ptr EXCEPT ![c.dst] = c.want]
                ELSE IF c.move THEN [ptr EXCEPT ![c.dst] = ptr[c.src], ![c.src] = None]
                ELSE [ptr EXCEPT ![c.dst] = ptr[c.src]]
      /\ call' = [call EXCEPT ![t] = IF c.move \/ ptr'[c.dst] = None
                                       THEN Pointers!Idle ELSE [c EXCEPT !.step = "attach"]]
  BY <1>1 DEF Pointers!Take, Places
<1>3. /\ c.dst \in Places /\ ptr[c.dst] = None /\ c.want \in Objects \cup {None}
      /\ c.move => c.src \in Places
  BY <1>a, <1>b, <1>1, <1>2 DEF PointersTyped, ThreadInv, CallOf, SourceOf
<1>4. /\ c.src = None => c.want = None /\ ~c.move
      /\ c.src \in Places => c.src # c.dst /\ ptr[c.src] = c.want
  <2>1. CASE c.src = None
    <3>1. Pointers!Owner(t) = None
      BY <1>a, <1>b, <1>1, <2>1, OwnerCases
    <3> QED
      BY <1>a, <1>b, <1>1, <1>2, <2>1, <3>1 DEF ThreadInv, SourceOf
  <2>2. CASE c.src \in Places
    <3>1. Pointers!Owner(t) = c.src /\ c.src # None
      BY <1>a, <1>b, <1>1, <2>2, OwnerCases
    <3> QED
      BY <1>b, <1>1, <1>2, <2>2, <3>1, SourceRead DEF Steady
  <2> QED
    BY <1>b, <2>1, <2>2
<1>5. /\ ptr' \in [Places -> Objects \cup {None}] /\ ptr'[c.dst] = c.want
      /\ \A l \in Places \ {c.dst} : ptr'[l] = IF c.move /\ l = c.src THEN None ELSE ptr[l]
  <2>1. CASE c.src = None
    BY <1>a, <1>2, <1>3, <1>4, <2>1 DEF PointersTyped
  <2>2. CASE c.src \notin Places \cup {None}
    BY <1>a, <1>2, <1>3, <1>4, <2>2 DEF PointersTyped
  <2>3. CASE c.src \in Places /\ c.move
    <3>1. ptr' = [ptr EXCEPT ![c.dst] = ptr[c.src], ![c.src] = None]
      BY <1>b, <1>2, <2>3
    <3> QED
      BY <1>a, <1>3, <1>4, <2>3, <3>1 DEF PointersTyped
  <2>4. CASE c.src \in Places /\ ~c.move
    <3>1. ptr' = [ptr EXCEPT ![c.dst] = ptr[c.src]]
      BY <1>b, <1>2, <2>4
    <3> QED
      BY <1>a, <1>3, <1>4, <2>4, <3>1 DEF PointersTyped
  <2> QED
    BY <2>1, <2>2, <2>3, <2>4
<1>6. call' = [call EXCEPT ![t] = IF c.move \/ c.want = None
                                   THEN Pointers!Idle ELSE [c EXCEPT !.step = "attach"]]
  BY <1>2, <1>5
<1> QED
  BY <1>1, <1>2, <1>3, <1>5, <1>6

(* A pointer is given what the source has, or the source is left empty.    *)
LEMMA TakeInv ==
  ASSUME PointersInv, NEW t \in Threads, Pointers!Take(t), ~Pointers!Unowned(t)
  PROVE  PointersInv'
<1>a. /\ PointersTyped /\ ThreadInv(t) /\ ChainsApart
      /\ \A x \in Objects : CountOf(x)
  BY DEF PointersInv
<1>b. /\ None \notin Places /\ Objects \subseteq Places /\ RootsOf[t] \subseteq Places
      /\ RootsOf[t] \cap Objects = {}
  BY PlaceFacts
<1>1. PICK c : c = call[t]
  OBVIOUS
<1>2. /\ UNCHANGED <<count, state, chain>> /\ c.dst \in Places
      /\ ptr' \in [Places -> Objects \cup {None}] /\ ptr'[c.dst] = c.want
      /\ \A l \in Places \ {c.dst} : ptr'[l] = IF c.move /\ l = c.src THEN None ELSE ptr[l]
      /\ call' = [call EXCEPT ![t] = IF c.move \/ c.want = None
                                      THEN Pointers!Idle ELSE [@ EXCEPT !.step = "attach"]]
  BY <1>1, TakeStep
<1>3. c.step = "take"
  BY <1>1 DEF Pointers!Take
<1>4. /\ ptr[c.dst] = None /\ c.want \in Objects \cup {None} /\ c.move \in BOOLEAN
      /\ c.move => c.src \in Places
      /\ Len(chain[t]) = 0 /\ Len(chain[t]) \in Nat
  BY <1>a, <1>1, <1>3 DEF PointersTyped, ThreadInv, CallOf, SourceOf, ChainOf
<1>5. /\ c.move \/ c.want = None => call'[t] = Pointers!Idle
      /\ ~(c.move \/ c.want = None) =>
           /\ call'[t].step = "attach" /\ call'[t].move = FALSE /\ call'[t].dst = c.dst
           /\ call'[t].src = c.src /\ call'[t].want = c.want
      /\ \A u \in Threads \ {t} : call'[u] = call[u]
      /\ call' \in [Threads -> [step : {"idle", "detach", "take", "attach"}, move : BOOLEAN,
                                dst : Places \cup {None},
                                src : Places \cup {None} \cup {<<x>> : x \in Places},
                                want : Objects \cup {None}]]
  <2>1. CASE c.move \/ c.want = None
    <3>1. call' = [call EXCEPT ![t] = Pointers!Idle]
      BY <1>2, <2>1
    <3> QED
      BY <1>a, <2>1, <3>1 DEF PointersTyped, Pointers!Idle
  <2>2. CASE ~(c.move \/ c.want = None)
    <3>1. call' = [call EXCEPT ![t] = [c EXCEPT !.step = "attach"]]
      BY <1>1, <1>2, <2>2
    <3>2. c \in [step : {"idle", "detach", "take", "attach"}, move : BOOLEAN,
                 dst : Places \cup {None},
                 src : Places \cup {None} \cup {<<x>> : x \in Places},
                 want : Objects \cup {None}]
      BY <1>a, <1>1 DEF PointersTyped
    <3> QED
      BY <1>a, <1>4, <2>2, <3>1, <3>2 DEF PointersTyped
  <2> QED
    BY <2>1, <2>2
<1>6. PointersTyped'
  BY <1>a, <1>2, <1>5 DEF PointersTyped
<1>7. PICK l : l = Pointers!Owner(t)
  OBVIOUS
<1>8. c.src # None => /\ l \in Places /\ Steady(t, l) /\ ptr[l] = c.want /\ l # c.dst
  BY <1>1, <1>3, <1>7, SourceRead DEF Steady
<1>9. c.src = None => c.want = None /\ ~c.move
  <2>1. ASSUME c.src = None PROVE Pointers!Owner(t) = None
    BY <1>a, <1>b, <1>1, <2>1, OwnerCases
  <2> QED
    BY <1>a, <1>1, <1>3, <2>1 DEF ThreadInv, SourceOf
<1>10. c.move => c.src = l
  BY <1>1, <1>4, <1>7 DEF Pointers!Owner, Places
<1>11. ThreadInv(t)'
  <2>1. CASE c.move \/ c.want = None
    BY <1>2, <1>4, <1>5, <2>1, IdleThread
  <2>2. CASE ~(c.move \/ c.want = None)
    <3>1. /\ c.want \in Objects /\ c.src # None /\ \A x \in Places \ {c.dst} : ptr'[x] = ptr[x]
      BY <1>2, <1>4, <1>9, <2>2
    <3>2. Pointers!Owner(t)' = l
      BY <1>1, <1>5, <1>7, <2>2 DEF Pointers!Owner
    <3>3. CallOf(t)'
      BY <1>a, <1>1, <1>3, <1>5, <1>7, <2>2, <3>2 DEF ThreadInv, CallOf
    <3>4. ChainOf(t)' /\ SourceOf(t)'
      BY <1>2, <1>4, <1>5, <2>2 DEF ChainOf, SourceOf
    <3>5. ClaimOf(t)'
      BY <1>a, <1>b, <1>1, <1>2, <1>5, <2>2, <3>1 DEF ThreadInv, ClaimOf
    <3>6. AttachOf(t)'
      <4>1. state[c.want] = "live"
        BY <1>8, <3>1, UsedIsLive
      <4>2. Steady(t, l)'
        BY <1>b, <1>1, <1>5, <1>8, <2>2, <3>1 DEF Steady
      <4>3. l \in Places /\ ptr'[l] = c.want
        BY <1>8, <3>1
      <4> QED
        BY <1>2, <1>5, <2>2, <3>1, <4>1, <4>2, <4>3 DEF AttachOf
    <3> QED
      BY <3>3, <3>4, <3>5, <3>6 DEF ThreadInv
  <2> QED
    BY <2>1, <2>2
<1>12. ASSUME NEW u \in Threads, u # t PROVE ThreadInv(u)'
  <2>1. ASSUME NEW x \in Places, ptr'[x] # ptr[x]
        PROVE  /\ x \notin RootsOf[u] /\ ~Steady(u, x) /\ x # call[u].dst
               /\ \A i \in 1..Len(chain[u]) : chain[u][i] # x
               /\ ptr'[x] = None \/ ~KeptBy(u, ptr'[x])
    <3>1. Claimed(t, x)
      BY <1>1, <1>2, <2>1 DEF Claimed
    <3>2. ptr'[x] # None => x = c.dst /\ ptr'[x] = c.want /\ c.want \in Objects
      BY <1>2, <1>4, <2>1
    <3>3. c.want \in Objects => ~KeptBy(u, c.want)
      BY <1>b, <1>8, <1>9, <1>12, ReadNotKept
    <3> QED
      BY <1>12, <2>1, <3>1, <3>2, <3>3, ClaimsApart
  <2> QED
    BY <1>2, <1>5, <1>6, <1>12, <2>1, ThreadUndisturbed
<1>13. ChainsApart'
  BY <1>a, <1>2 DEF ChainsApart
<1>14. ~Taken(c.dst)
  <2>1. \A u \in Threads \ {t} : ~Claimed(u, c.dst)
    BY <1>1, <1>2, ClaimsApart
  <2>2. ASSUME NEW u \in Threads \ {t}, \/ call[u].step = "attach" /\ call[u].dst = c.dst
                                        \/ \E i \in 1..Len(chain[u]) - 1 : chain[u][i] = c.dst
        PROVE  FALSE
    <3>1. Len(chain[u]) \in Nat
      BY <1>a DEF PointersTyped
    <3> QED
      BY <2>1, <2>2, <3>1 DEF Claimed
  <2>3. call[t].step # "attach" /\ ~(\E i \in 1..Len(chain[t]) - 1 : TRUE)
    BY <1>1, <1>3, <1>4
  <2> QED
    BY <2>2, <2>3 DEF Taken
<1>15. CASE ~c.move
  <2>1. \A x \in Places \ {c.dst} : Taken(x)' <=> Taken(x)
    <3>1. ASSUME NEW x \in Places \ {c.dst}, NEW u \in Threads
          PROVE  (call'[u].step = "attach" /\ call'[u].dst = x)
                   <=> (call[u].step = "attach" /\ call[u].dst = x)
      BY <1>1, <1>3, <1>5, <1>15, <3>1 DEF Pointers!Idle
    <3> QED
      BY <1>2, <3>1 DEF Taken
  <2>2. c.want # None => Taken(c.dst)'
    BY <1>5, <1>15 DEF Taken
  <2>3. \A o \in Objects : \A x \in Places :
          ptr'[x] = o /\ ~Taken(x)' <=> ptr[x] = o /\ ~Taken(x)
    BY <1>b, <1>2, <1>4, <1>15, <2>1, <2>2
  <2>4. \A o \in Objects : CountOf(o)'
    BY <1>2, <2>3, CountsUndisturbed
  <2> QED
    BY <1>6, <1>11, <1>12, <1>13, <2>4 DEF PointersInv
<1>16. CASE c.move
  <2>1. \A x : Taken(x)' <=> Taken(x)
    <3>1. ASSUME NEW x, NEW u \in Threads
          PROVE  (call'[u].step = "attach" /\ call'[u].dst = x)
                   <=> (call[u].step = "attach" /\ call[u].dst = x)
      BY <1>1, <1>3, <1>5, <1>16, <3>1 DEF Pointers!Idle
    <3> QED
      BY <1>2, <3>1 DEF Taken
  <2>2. /\ l \in Places /\ l # c.dst /\ ptr[l] = c.want /\ ptr'[l] = None /\ ~Taken(l)
        /\ \A x \in Places \ {c.dst, l} : ptr'[x] = ptr[x]
    BY <1>2, <1>8, <1>9, <1>10, <1>16, SteadyHeld
  <2>3. ASSUME NEW o \in Objects PROVE CountOf(o)'
    <3>1. CASE o = c.want
      <4>1. HoldersOf(o)' = (HoldersOf(o) \ {l}) \cup {c.dst} /\ l \in HoldersOf(o)
        BY <1>b, <1>2, <1>14, <2>1, <2>2, <3>1 DEF HoldersOf
      <4>2. c.dst \notin HoldersOf(o) \ {l}
        BY <1>b, <1>4 DEF HoldersOf
      <4>3. IsFiniteSet(HoldersOf(o)) /\ Cardinality(HoldersOf(o)) \in Nat
        BY HoldersFinite
      <4>4. /\ IsFiniteSet(HoldersOf(o) \ {l})
            /\ Cardinality(HoldersOf(o) \ {l}) = Cardinality(HoldersOf(o)) - 1
        BY <4>1, <4>3, FS_RemoveElement
      <4>5. Cardinality((HoldersOf(o) \ {l}) \cup {c.dst}) = Cardinality(HoldersOf(o) \ {l}) + 1
        BY <4>2, <4>4, FS_AddElement
      <4>6. state[o] = "live"
        BY <2>2, <3>1, UsedIsLive
      <4> QED
        BY <1>a, <1>2, <4>1, <4>3, <4>4, <4>5, <4>6 DEF CountOf
    <3>2. CASE o # c.want
      <4>1. HoldersOf(o)' = HoldersOf(o)
        BY <1>b, <1>2, <1>4, <2>1, <2>2, <3>2 DEF HoldersOf
      <4> QED
        BY <1>a, <1>2, <4>1 DEF CountOf
    <3> QED
      BY <3>1, <3>2
  <2> QED
    BY <1>6, <1>11, <1>12, <1>13, <2>3 DEF PointersInv
<1> QED
  BY <1>15, <1>16

(* The members of a sequence.                                              *)
LEMMA SetOfSequence ==
  ASSUME NEW S, NEW s \in Seq(S)
  PROVE  \A x : x \in Pointers!ToSet(s) <=> \E i \in 1..Len(s) : s[i] = x
  BY DEF Pointers!ToSet

(* The last reference to o was given up and its member goes next.          *)
GivesOn(t, q, o) ==
    /\ call[t].step = "detach" /\ count' = [count EXCEPT ![o] = @ - 1]
    /\ count[o] = 1 /\ ptr[o] # None /\ chain' = [chain EXCEPT ![t] = Append(q, o)]
    /\ UNCHANGED <<ptr, state, call>>

(* All that was given up is deleted, but for an object that others hold.   *)
GivesUp(t, q, o) ==
    /\ call[t].step = "detach" /\ count' = [count EXCEPT ![o] = @ - 1]
    /\ \A x \in Objects :
         state'[x] = IF (\E i \in 2..Len(q) : q[i] = x) \/ (count[o] = 1 /\ x = o)
                       THEN "deleted" ELSE state[x]
    /\ \A x \in Places : ptr'[x] = IF \E i \in 1..Len(q) : q[i] = x THEN None ELSE ptr[x]
    /\ ptr' \in [Places -> Objects \cup {None}]
    /\ state' \in [Objects -> {"none", "live", "deleted"}]
    /\ chain' = [chain EXCEPT ![t] = << >>]
    /\ call' = [call EXCEPT ![t].step = "take"]

(* Giving up a reference: of the last one the member goes next, if there   *)
(* is any, or else all that was given up is deleted.                       *)
LEMMA TryDetachStep ==
  ASSUME PointersInv, NEW t \in Threads, Pointers!TryDetach(t),
         NEW q, q = chain[t], NEW l, l = q[Len(q)], NEW o, o = ptr[l]
  PROVE  GivesOn(t, q, o) \/ GivesUp(t, q, o)
<1>a. PointersTyped /\ ThreadInv(t)
  BY DEF PointersInv
<1>1. call[t].step = "detach"
  BY DEF Pointers!TryDetach
<1>2. q \in Seq(Places) /\ Len(q) \in Nat \ {0}
  BY <1>a, <1>1 DEF PointersTyped, ThreadInv, ChainOf
<1>3. PICK dead : dead = Pointers!ToSet(Tail(q)) \cup (IF count[o] = 1 THEN {o} ELSE {})
  OBVIOUS
<1>4. /\ count' = [count EXCEPT ![o] = @ - 1]
      /\ IF count[o] = 1 /\ ptr[o] # None
            THEN /\ chain' = [chain EXCEPT ![t] = Append(@, o)]
                 /\ UNCHANGED <<ptr, state, call>>
            ELSE /\ state' = [x \in Objects |-> IF x \in dead THEN "deleted" ELSE state[x]]
                 /\ ptr' = [x \in Places |-> IF x \in Pointers!ToSet(q) THEN None ELSE ptr[x]]
                 /\ chain' = [chain EXCEPT ![t] = << >>]
                 /\ call' = [call EXCEPT ![t].step = "take"]
  BY <1>3 DEF Pointers!TryDetach, Pointers!Last, Places
<1>5. CASE count[o] = 1 /\ ptr[o] # None
  BY <1>a, <1>1, <1>4, <1>5 DEF PointersTyped, GivesOn
<1>6. CASE ~(count[o] = 1 /\ ptr[o] # None)
  <2>1. \A x : x \in Pointers!ToSet(q) <=> \E i \in 1..Len(q) : q[i] = x
    BY <1>2, SetOfSequence
  <2>2. \A x : x \in Pointers!ToSet(Tail(q)) <=> \E i \in 2..Len(q) : q[i] = x
    <3>1. /\ Tail(q) \in Seq(Places) /\ Len(Tail(q)) = Len(q) - 1
          /\ \A i \in 1..Len(q) - 1 : Tail(q)[i] = q[i + 1]
      <4>1. q # << >>
        BY <1>2
      <4> QED
        BY <1>2, <4>1, HeadTailProperties
    <3>2. \A x : x \in Pointers!ToSet(Tail(q)) <=> \E i \in 1..Len(q) - 1 : q[i + 1] = x
      <4>1. \A x : x \in Pointers!ToSet(Tail(q)) <=> \E i \in 1..Len(Tail(q)) : Tail(q)[i] = x
        BY <3>1, SetOfSequence
      <4> QED
        BY <3>1, <4>1
    <3>3. \A i : i \in 2..Len(q) => i - 1 \in 1..Len(q) - 1 /\ (i - 1) + 1 = i
      BY <1>2
    <3>4. \A i : i \in 1..Len(q) - 1 => i + 1 \in 2..Len(q)
      BY <1>2
    <3> QED
      BY <3>2, <3>3, <3>4
  <2>3. /\ state' = [x \in Objects |-> IF x \in dead THEN "deleted" ELSE state[x]]
        /\ ptr' = [x \in Places |-> IF x \in Pointers!ToSet(q) THEN None ELSE ptr[x]]
        /\ chain' = [chain EXCEPT ![t] = << >>]
        /\ call' = [call EXCEPT ![t].step = "take"]
    BY <1>4, <1>6
  <2>4. \A x \in Objects :
          state'[x] = IF (\E i \in 2..Len(q) : q[i] = x) \/ (count[o] = 1 /\ x = o)
                        THEN "deleted" ELSE state[x]
    BY <1>3, <2>2, <2>3
  <2>5. \A x \in Places : ptr'[x] = IF \E i \in 1..Len(q) : q[i] = x THEN None ELSE ptr[x]
    BY <2>1, <2>3
  <2>6. /\ ptr' \in [Places -> Objects \cup {None}]
        /\ state' \in [Objects -> {"none", "live", "deleted"}]
    BY <1>a, <2>3 DEF PointersTyped
  <2> QED
    BY <1>1, <1>4, <2>3, <2>4, <2>5, <2>6 DEF GivesUp
<1> QED
  BY <1>5, <1>6

(* The last reference was given up and the member of the object goes next. *)
LEMMA DetachOnInv ==
  ASSUME PointersInv, NEW t \in Threads, NEW q, q = chain[t], NEW l, l = q[Len(q)],
         NEW o, o = ptr[l], GivesOn(t, q, o)
  PROVE  PointersInv'
<1>0. /\ call[t].step = "detach" /\ count' = [count EXCEPT ![o] = @ - 1]
      /\ count[o] = 1 /\ ptr[o] # None /\ chain' = [chain EXCEPT ![t] = Append(q, o)]
      /\ UNCHANGED <<ptr, state, call>>
  BY DEF GivesOn
<1> USE <1>0
<1>a. /\ PointersTyped /\ ThreadInv(t) /\ ChainsApart
      /\ \A x \in Objects : CountOf(x)
  BY DEF PointersInv
<1>b. /\ None \notin Places /\ Objects \subseteq Places /\ RootsOf[t] \subseteq Places
      /\ RootsOf[t] \cap Objects = {}
  BY PlaceFacts
<1>1. /\ Len(q) \in Nat \ {0} /\ q \in Seq(Places)
      /\ l \in Places /\ ~Taken(l) /\ Claimed(t, l)
      /\ o \in Objects /\ state[o] = "live" /\ l \in HoldersOf(o)
  BY <1>a, LastHolds DEF PointersTyped
<1>2. HoldersOf(o) = {l} /\ \A x \in Places : ptr[x] = o => x = l
  BY LastIsAlone
<1>3. /\ Append(q, o) \in Seq(Places) /\ Len(Append(q, o)) = Len(q) + 1
      /\ \A i \in 1..Len(q) : Append(q, o)[i] = q[i]
      /\ Append(q, o)[Len(q) + 1] = o
  BY <1>b, <1>1, AppendProperties
<1>4. /\ chain'[t] = Append(q, o) /\ \A u \in Threads \ {t} : chain'[u] = chain[u]
      /\ count'[o] = 0 /\ \A x \in Objects \ {o} : count'[x] = count[x]
  BY <1>a, <1>1 DEF PointersTyped
<1>5. PointersTyped'
  <2>1. chain' \in [Threads -> Seq(Places)]
    BY <1>a, <1>3 DEF PointersTyped
  <2>2. count' \in [Objects -> Nat]
    BY <1>a, <1>1 DEF PointersTyped
  <2> QED
    BY <1>a, <2>1, <2>2 DEF PointersTyped
<1>6. l = call[t].dst \/ l \in Objects
  BY <1>a, <1>1, ChainPlaces
<1>7. ASSUME NEW i \in 1..Len(q), q[i] = o PROVE FALSE
  <2>1. CASE i = 1
    <3>1. call[t].dst = o
      BY <1>a, <1>1, <1>7, <2>1 DEF ThreadInv, ChainOf
    <3>2. PICK r \in RootsOf[t] : ptr[r] = o
      BY <1>a, <1>1, <3>1 DEF ThreadInv, ClaimOf
    <3>3. r = l
      BY <1>b, <1>2, <3>2
    <3> QED
      BY <1>b, <1>1, <1>6, <3>1, <3>3
  <2>2. CASE i # 1
    <3>1. i \in 2..Len(q)
      BY <1>1, <2>2
    <3>2. l = q[i - 1]
      BY <1>a, <1>1, <1>7, <3>1 DEF ThreadInv, ChainOf
    <3>3. i - 1 \in 1..Len(q) /\ i - 1 # Len(q) /\ Len(q) \in 1..Len(q)
      BY <1>1, <3>1
    <3> QED
      BY <1>a, <3>2, <3>3 DEF ThreadInv, ChainOf
  <2> QED
    BY <2>1, <2>2
<1>8. ThreadInv(t)'
  <2>1. /\ \A x : Steady(t, x)' <=> Steady(t, x)
        /\ Pointers!Owner(t)' = Pointers!Owner(t)
    BY DEF Steady, Pointers!Owner
  <2>2. CallOf(t)' /\ ClaimOf(t)' /\ AttachOf(t)'
    BY <1>a, <2>1 DEF ThreadInv, CallOf, ClaimOf, AttachOf
  <2>3. SourceOf(t)'
    BY <1>a, <2>1 DEF ThreadInv, SourceOf
  <2>4. ChainOf(t)'
    <3>1. /\ chain'[t][1] = call[t].dst /\ Len(chain'[t]) = Len(q) + 1
          /\ chain'[t][Len(chain'[t])] = o
      BY <1>a, <1>1, <1>3, <1>4 DEF ThreadInv, ChainOf
    <3>2. ASSUME NEW i \in 2..Len(chain'[t])
          PROVE  /\ chain'[t][i] \in Objects /\ state[chain'[t][i]] = "live"
                 /\ ptr[chain'[t][i - 1]] = chain'[t][i]
                 /\ \A x \in Places : ptr[x] = chain'[t][i] => x = chain'[t][i - 1]
      <4>1. CASE i = Len(q) + 1
        <5>1. chain'[t][i] = o /\ chain'[t][i - 1] = l
          BY <1>1, <1>3, <1>4, <4>1
        <5> QED
          BY <1>1, <1>2, <5>1
      <4>2. CASE i # Len(q) + 1
        <5>1. i \in 2..Len(q) /\ i - 1 \in 1..Len(q)
          BY <1>1, <3>1, <4>2
        <5>2. chain'[t][i] = q[i] /\ chain'[t][i - 1] = q[i - 1]
          BY <1>1, <1>3, <1>4, <5>1
        <5> QED
          BY <1>a, <5>1, <5>2 DEF ThreadInv, ChainOf
      <4> QED
        BY <4>1, <4>2
    <3>3. ASSUME NEW i \in 1..Len(chain'[t]), NEW j \in 1..Len(chain'[t]),
                 chain'[t][i] = chain'[t][j]
          PROVE  i = j
      <4>1. \A k \in 1..Len(chain'[t]) : k = Len(q) + 1 \/ k \in 1..Len(q)
        BY <1>1, <3>1
      <4>2. \A k \in 1..Len(q) : chain'[t][k] = q[k] /\ q[k] # o
        BY <1>3, <1>4, <1>7
      <4>3. \A k, m \in 1..Len(q) : q[k] = q[m] => k = m
        BY <1>a DEF ThreadInv, ChainOf
      <4> QED
        BY <1>3, <1>4, <3>3, <4>1, <4>2, <4>3
    <3>4. Len(chain'[t]) > 0
      BY <1>1, <3>1
    <3> QED
      BY <3>1, <3>2, <3>3, <3>4 DEF ChainOf
  <2> QED
    BY <2>2, <2>3, <2>4 DEF ThreadInv
<1>9. ASSUME NEW u \in Threads, u # t PROVE ThreadInv(u)'
  BY <1>4, <1>5, <1>9, ThreadUndisturbed
<1>10. ChainsApart'
  <2>1. ASSUME NEW u \in Threads, u # t, NEW j \in 1..Len(chain[u]), chain[u][j] = o PROVE FALSE
    <3>1. ThreadInv(u) /\ Len(chain[u]) \in Nat
      BY DEF PointersInv, PointersTyped
    <3>2. /\ l \notin RootsOf[u] /\ l # call[u].dst
          /\ \A i \in 1..Len(chain[u]) : chain[u][i] # l
      BY <1>1, <2>1, ClaimsApart
    <3>3. CASE j = 1
      <4>1. call[u].dst = o
        BY <2>1, <3>1, <3>3 DEF ThreadInv, ChainOf
      <4>2. PICK r \in RootsOf[u] : ptr[r] = o
        BY <1>1, <3>1, <4>1 DEF ThreadInv, ClaimOf
      <4>3. r = l
        BY <1>2, <4>2, PlaceFacts
      <4> QED
        BY <3>2, <4>3
    <3>4. CASE j # 1
      <4>1. j \in 2..Len(chain[u]) /\ j - 1 \in 1..Len(chain[u])
        BY <3>1, <3>4
      <4>2. l = chain[u][j - 1]
        BY <1>1, <2>1, <3>1, <4>1 DEF ThreadInv, ChainOf
      <4> QED
        BY <3>2, <4>1, <4>2
    <3> QED
      BY <3>3, <3>4
  <2>2. ASSUME NEW u \in Threads, u # t, NEW i \in 1..Len(chain'[t]), NEW j \in 1..Len(chain[u])
        PROVE  chain'[t][i] # chain[u][j]
    <3>1. i = Len(q) + 1 \/ i \in 1..Len(q)
      BY <1>1, <1>3, <1>4
    <3> QED
      BY <1>a, <1>3, <1>4, <2>1, <2>2, <3>1 DEF ChainsApart
  <2> QED
    BY <1>a, <1>4, <2>2 DEF ChainsApart
<1>11. \A x \in Places : Taken(x)' <=> Taken(x) \/ x = l
  <2>1. \A x : (\E i \in 1..Len(chain'[t]) - 1 : chain'[t][i] = x)
                 <=> (\E i \in 1..Len(q) - 1 : q[i] = x) \/ x = l
    <3>1. \A i : i \in 1..Len(chain'[t]) - 1 <=> i = Len(q) \/ i \in 1..Len(q) - 1
      BY <1>1, <1>3, <1>4
    <3>2. \A i : i = Len(q) \/ i \in 1..Len(q) - 1 => chain'[t][i] = q[i]
      BY <1>1, <1>3, <1>4
    <3> QED
      BY <3>1, <3>2
  <2> QED
    BY <1>4, <2>1 DEF Taken
<1>12. ASSUME NEW x \in Objects PROVE CountOf(x)'
  <2>1. CASE x = o
    <3>1. HoldersOf(x)' = {}
      BY <1>2, <1>11, <2>1 DEF HoldersOf
    <3>2. Cardinality(HoldersOf(x)') = 0
      BY <3>1, FS_EmptySet
    <3> QED
      BY <1>4, <2>1, <3>1, <3>2 DEF CountOf
  <2>2. CASE x # o
    <3>1. HoldersOf(x)' = HoldersOf(x)
      BY <1>11, <2>2 DEF HoldersOf
    <3> QED
      BY <1>a, <1>4, <2>2, <3>1 DEF CountOf
  <2> QED
    BY <2>1, <2>2
<1> QED
  BY <1>5, <1>8, <1>9, <1>10, <1>12 DEF PointersInv

(* The call goes on with the source.                                       *)
LEMMA DetachedTyped ==
  ASSUME PointersTyped, NEW t \in Threads
  PROVE  [call EXCEPT ![t].step = "take"]
           \in [Threads -> [step : {"idle", "detach", "take", "attach"}, move : BOOLEAN,
                          dst : Places \cup {None},
                          src : Places \cup {None} \cup {<<x>> : x \in Places},
                          want : Objects \cup {None}]]
<1>1. PICK R : R = Places \cup {None} \cup {<<x>> : x \in Places}
  OBVIOUS
<1>2. PICK c \in [step : {"idle", "detach", "take", "attach"}, move : BOOLEAN,
                  dst : Places \cup {None}, src : R, want : Objects \cup {None}] : c = call[t]
  BY <1>1 DEF PointersTyped
<1>3. [c EXCEPT !.step = "take"] \in [step : {"idle", "detach", "take", "attach"}, move : BOOLEAN,
                  dst : Places \cup {None}, src : R, want : Objects \cup {None}]
  OBVIOUS
<1>4. PICK e : e = [c EXCEPT !.step = "take"]
  OBVIOUS
<1>5. [call EXCEPT ![t].step = "take"] = [call EXCEPT ![t] = e]
  BY <1>2, <1>4, Zenon
<1> QED
  BY <1>1, <1>3, <1>4, <1>5 DEF PointersTyped

(* What was given up is deleted, but for an object that others still hold. *)
LEMMA DetachEndInv ==
  ASSUME PointersInv, NEW t \in Threads, NEW q, q = chain[t], NEW l, l = q[Len(q)],
         NEW o, o = ptr[l], GivesUp(t, q, o)
  PROVE  PointersInv'
<1>0. /\ call[t].step = "detach" /\ count' = [count EXCEPT ![o] = @ - 1]
      /\ \A x \in Objects :
           state'[x] = IF (\E i \in 2..Len(q) : q[i] = x) \/ (count[o] = 1 /\ x = o)
                         THEN "deleted" ELSE state[x]
      /\ \A x \in Places : ptr'[x] = IF \E i \in 1..Len(q) : q[i] = x THEN None ELSE ptr[x]
      /\ ptr' \in [Places -> Objects \cup {None}]
      /\ state' \in [Objects -> {"none", "live", "deleted"}]
      /\ chain' = [chain EXCEPT ![t] = << >>]
      /\ call' = [call EXCEPT ![t].step = "take"]
  BY DEF GivesUp
<1> USE <1>0
<1>a. /\ PointersTyped /\ ThreadInv(t) /\ ChainsApart
      /\ \A x \in Objects : CountOf(x)
  BY DEF PointersInv
<1>b. /\ None \notin Places /\ Objects \subseteq Places /\ RootsOf[t] \subseteq Places
      /\ RootsOf[t] \cap Objects = {} /\ None \notin Objects
  BY PlaceFacts
<1>1. /\ Len(q) \in Nat \ {0} /\ q \in Seq(Places)
      /\ l \in Places /\ ~Taken(l) /\ Claimed(t, l)
      /\ o \in Objects /\ state[o] = "live" /\ l \in HoldersOf(o)
      /\ count[o] \in Nat \ {0} /\ count[o] = Cardinality(HoldersOf(o))
  BY <1>a, LastHolds DEF PointersTyped
<1>2. count[o] = 1 => HoldersOf(o) = {l} /\ \A x \in Places : ptr[x] = o => x = l
  BY LastIsAlone
<1>3. /\ chain'[t] = << >> /\ Len(chain'[t]) = 0
      /\ call'[t].step = "take" /\ call'[t].move = call[t].move /\ call'[t].dst = call[t].dst
      /\ call'[t].src = call[t].src /\ call'[t].want = call[t].want
      /\ \A u \in Threads \ {t} : chain'[u] = chain[u] /\ call'[u] = call[u]
      /\ count'[o] = count[o] - 1 /\ \A x \in Objects \ {o} : count'[x] = count[x]
  BY <1>a, <1>1 DEF PointersTyped
<1>4. PointersTyped'
  <2>1. chain' \in [Threads -> Seq(Places)]
    BY <1>a DEF PointersTyped
  <2>2. count' \in [Objects -> Nat]
    BY <1>a, <1>1 DEF PointersTyped
  <2>3. call' \in [Threads -> [step : {"idle", "detach", "take", "attach"}, move : BOOLEAN,
                              dst : Places \cup {None},
                              src : Places \cup {None} \cup {<<x>> : x \in Places},
                              want : Objects \cup {None}]]
    BY <1>a, DetachedTyped, Zenon
  <2> QED
    BY <2>1, <2>2, <2>3 DEF PointersTyped
<1>5. ASSUME NEW i \in 2..Len(q)
      PROVE  /\ q[i] \in Objects /\ state[q[i]] = "live" /\ q[i - 1] \in Places
             /\ i - 1 \in 1..Len(q) - 1 /\ ptr[q[i - 1]] = q[i]
             /\ \A x \in Places : ptr[x] = q[i] => x = q[i - 1]
  <2>1. i - 1 \in 1..Len(q) - 1 /\ i - 1 \in 1..Len(q)
    BY <1>1
  <2> QED
    BY <1>a, <1>1, <2>1 DEF ThreadInv, ChainOf
<1>6. \A i \in 1..Len(q) : q[i] \in Places /\ Claimed(t, q[i]) /\ (q[i] = call[t].dst \/ q[i] \in Objects)
  BY <1>a, <1>1, ChainPlaces DEF Claimed
<1>7. call[t].dst = q[1] /\ 1 \in 1..Len(q)
  BY <1>a, <1>1 DEF ThreadInv, ChainOf
<1>8. \A r \in RootsOf[t] : r # call[t].dst => ptr'[r] = ptr[r]
  BY <1>b, <1>6
<1>9. ThreadInv(t)'
  <2>1. Pointers!Owner(t)' = Pointers!Owner(t)
    BY <1>3 DEF Pointers!Owner
  <2>2. CallOf(t)'
    BY <1>a, <1>3, <2>1 DEF ThreadInv, CallOf
  <2>3. ChainOf(t)' /\ AttachOf(t)'
    BY <1>3 DEF ChainOf, AttachOf
  <2>4. ClaimOf(t)'
    <3>1. \A x \in Places : ptr'[x] = ptr[x] \/ ptr'[x] = None
      OBVIOUS
    <3>2. \A r \in RootsOf[t] : call[t].dst \in Objects => ptr'[r] = ptr[r]
      BY <1>b, <1>8
    <3>3. \A x \in Objects : state[x] # "none" => state'[x] # "none"
      OBVIOUS
    <3>4. call[t].dst \in Objects =>
            /\ \A x \in Places : ptr'[x] = call[t].dst => x \in RootsOf[t] \cup {call[t].dst}
            /\ \E r \in RootsOf[t] : ptr'[r] = call[t].dst
      BY <1>a, <1>b, <3>1, <3>2 DEF ThreadInv, ClaimOf
    <3>5. call[t].move /\ call[t].src \in Objects =>
            /\ \A x \in Places : ptr'[x] = call[t].src => x \in RootsOf[t]
            /\ state'[call[t].src] # "none"
      BY <1>a, <1>b, <3>1, <3>3 DEF ThreadInv, ClaimOf
    <3> QED
      BY <1>3, <3>4, <3>5 DEF ClaimOf
  <2>5. SourceOf(t)'
    <3>1. ptr'[call[t].dst] = None
      BY <1>6, <1>7
    <3>2. PICK w : w = Pointers!Owner(t)
      OBVIOUS
    <3>3. /\ w = None => call[t].src = None /\ call[t].want = None /\ ~call[t].move
          /\ w # None => w # call[t].dst /\ (Steady(t, w) => ptr[w] = call[t].want)
      BY <1>a, <3>2 DEF ThreadInv, SourceOf
    <3>4. ASSUME w # None, Steady(t, w)' PROVE ptr'[w] = call[t].want
      <4>1. w \in Places
        BY <1>a, <1>b, <3>2, <3>4 DEF ThreadInv, CallOf
      <4>2. Steady(t, w)
        BY <1>3, <1>8, <3>4 DEF Steady
      <4>3. \A i \in 1..Len(q) : q[i] # w
        BY <4>1, <4>2, SteadyHeld
      <4> QED
        BY <3>3, <3>4, <4>1, <4>2, <4>3
    <3> QED
      BY <1>3, <2>1, <3>1, <3>2, <3>3, <3>4 DEF SourceOf
  <2> QED
    BY <2>2, <2>3, <2>4, <2>5 DEF ThreadInv
<1>10. ASSUME NEW u \in Threads, u # t PROVE ThreadInv(u)'
  <2>1. ThreadInv(u) /\ Len(chain[u]) \in Nat
    BY DEF PointersInv, PointersTyped
  <2>2. ASSUME NEW x \in Places, Claimed(t, x)
        PROVE  /\ x \notin RootsOf[u] /\ ~Steady(u, x) /\ x # call[u].dst
               /\ \A i \in 1..Len(chain[u]) : chain[u][i] # x
    BY <1>10, <2>2, ClaimsApart
  <2>3. ASSUME NEW x \in Places, ptr'[x] # ptr[x]
        PROVE  /\ x \notin RootsOf[u] /\ ~Steady(u, x) /\ x # call[u].dst
               /\ \A i \in 1..Len(chain[u]) : chain[u][i] # x
               /\ ptr'[x] = None \/ ~KeptBy(u, ptr'[x])
    BY <1>6, <2>2, <2>3
  <2>4. ASSUME NEW x \in Objects, state'[x] # state[x]
        PROVE  /\ state'[x] # "none"
               /\ \A i \in 2..Len(chain[u]) : chain[u][i] # x
               /\ ~(call[u].step = "attach" /\ call[u].want = x)
    <3>1. PICK y \in Places : Claimed(t, y) /\ \A z \in Places : ptr[z] = x => z = y
      <4>1. CASE \E i \in 2..Len(q) : q[i] = x
        <5>1. PICK i \in 2..Len(q) : q[i] = x
          BY <4>1
        <5>2. i - 1 \in 1..Len(q)
          BY <1>1
        <5> QED
          BY <1>5, <1>6, <5>1, <5>2
      <4>2. CASE count[o] = 1 /\ x = o
        BY <1>1, <1>2, <4>2
      <4> QED
        BY <2>4, <4>1, <4>2
    <3>2. /\ y # call[u].dst
          /\ \A i \in 1..Len(chain[u]) : chain[u][i] # y
      BY <2>2, <3>1
    <3>3. ASSUME NEW i \in 2..Len(chain[u]), chain[u][i] = x PROVE FALSE
      <4>1. i - 1 \in 1..Len(chain[u]) /\ chain[u][i - 1] \in Places
        BY <1>a, <2>1 DEF PointersTyped
      <4>2. ptr[chain[u][i - 1]] = x
        BY <2>1, <3>3 DEF ThreadInv, ChainOf
      <4> QED
        BY <3>1, <3>2, <4>1, <4>2
    <3>4. ASSUME call[u].step = "attach", call[u].want = x PROVE FALSE
      <4>1. ptr[call[u].dst] = x /\ call[u].dst \in Places
        BY <2>1, <3>4, PlaceFacts DEF ThreadInv, AttachOf, CallOf
      <4> QED
        BY <3>1, <3>2, <4>1
    <3>5. state'[x] # "none"
      BY <2>4
    <3> QED
      BY <3>3, <3>4, <3>5
  <2> QED
    BY <1>3, <1>4, <1>10, <2>3, <2>4, ThreadUndisturbed
<1>11. ChainsApart'
  <2>1. ASSUME NEW u \in Threads, NEW w \in Threads, u # w,
               NEW i \in 1..Len(chain'[u]), NEW j \in 1..Len(chain'[w])
        PROVE  chain'[u][i] # chain'[w][j]
    BY <1>a, <1>3, <2>1 DEF ChainsApart
  <2> QED
    BY <2>1 DEF ChainsApart
<1>12. ASSUME NEW y \in Objects PROVE HoldersOf(y)' = HoldersOf(y) \ {l}
  <2>1. \A x \in Places : (\A i \in 1..Len(q) : q[i] # x) => (Taken(x)' <=> Taken(x))
    <3>1. call[t].step # "attach" /\ call'[t].step # "attach"
      BY <1>3
    <3>2. ASSUME NEW x \in Places, \A i \in 1..Len(q) : q[i] # x
          PROVE  /\ ~(\E i \in 1..Len(chain[t]) - 1 : chain[t][i] = x)
                 /\ ~(\E i \in 1..Len(chain'[t]) - 1 : chain'[t][i] = x)
      BY <1>1, <1>3, <3>2
    <3> QED
      BY <1>3, <3>1, <3>2 DEF Taken
  <2>2. \A i \in 1..Len(q) : q[i] = l \/ Taken(q[i])
    <3>1. \A i \in 1..Len(q) : i = Len(q) \/ i \in 1..Len(q) - 1
      BY <1>1
    <3> QED
      BY <3>1 DEF Taken
  <2>3. ptr'[l] = None
    BY <1>1
  <2> QED
    BY <1>b, <2>1, <2>2, <2>3 DEF HoldersOf
<1>13. ASSUME NEW y \in Objects PROVE CountOf(y)'
  <2>0. CountOf(y)
    BY <1>a
  <2>1. CASE y = o
    <3>1. /\ IsFiniteSet(HoldersOf(o))
          /\ Cardinality(HoldersOf(o) \ {l}) = Cardinality(HoldersOf(o)) - 1
      BY <1>1, HoldersFinite, FS_RemoveElement
    <3>2. count'[y] = Cardinality(HoldersOf(y)')
      BY <1>1, <1>3, <1>12, <2>1, <3>1
    <3>3. CASE count[o] = 1
      <4>1. HoldersOf(y)' = {}
        BY <1>2, <1>12, <2>1, <3>3
      <4>2. count'[y] = 0
        BY <1>3, <2>1, <3>3
      <4> QED
        BY <3>2, <4>1, <4>2 DEF CountOf
    <3>4. CASE count[o] # 1
      <4>1. ASSUME NEW i \in 2..Len(q), q[i] = o PROVE FALSE
        <5>1. l = q[i - 1] /\ i - 1 \in 1..Len(q) - 1
          BY <1>1, <1>5, <4>1
        <5>2. Taken(l)
          BY <5>1 DEF Taken
        <5> QED
          BY <1>1, <5>2
      <4>2. state'[y] = "live"
        BY <1>1, <2>1, <3>4, <4>1
      <4> QED
        BY <3>2, <4>2 DEF CountOf
    <3> QED
      BY <3>3, <3>4
  <2>2. CASE y # o
    <3>1. HoldersOf(y)' = HoldersOf(y) /\ count'[y] = count[y]
      BY <1>1, <1>3, <1>12, <2>2 DEF HoldersOf
    <3>2. CASE \E i \in 2..Len(q) : q[i] = y
      <4>1. PICK i \in 2..Len(q) : q[i] = y
        BY <3>2
      <4>2. Taken(q[i - 1]) /\ \A x \in Places : ptr[x] = y => x = q[i - 1]
        BY <1>5, <4>1 DEF Taken
      <4>3. HoldersOf(y) = {}
        BY <4>2 DEF HoldersOf
      <4>4. count[y] = 0
        BY <2>0, <1>5, <4>1, <4>3, FS_EmptySet DEF CountOf
      <4>5. state'[y] = "deleted"
        BY <3>2
      <4> QED
        BY <3>1, <4>3, <4>4, <4>5 DEF CountOf
    <3>3. CASE ~ \E i \in 2..Len(q) : q[i] = y
      <4>1. state'[y] = state[y]
        BY <2>2, <3>3
      <4> QED
        BY <2>0, <3>1, <4>1 DEF CountOf
    <3> QED
      BY <3>2, <3>3
  <2> QED
    BY <2>1, <2>2
<1> QED
  BY <1>4, <1>9, <1>10, <1>11, <1>13 DEF PointersInv

(* A reference is given up, which may delete the object.                   *)
LEMMA TryDetachInv ==
  ASSUME PointersInv, NEW t \in Threads, Pointers!TryDetach(t)
  PROVE  PointersInv'
<1>1. PICK q : q = chain[t]
  OBVIOUS
<1>2. PICK l : l = q[Len(q)]
  OBVIOUS
<1>3. PICK o : o = ptr[l]
  OBVIOUS
<1>4. GivesOn(t, q, o) \/ GivesUp(t, q, o)
  BY <1>1, <1>2, <1>3, TryDetachStep
<1>5. CASE GivesOn(t, q, o)
  BY <1>1, <1>2, <1>3, <1>5, DetachOnInv
<1>6. CASE GivesUp(t, q, o)
  BY <1>1, <1>2, <1>3, <1>6, DetachEndInv
<1> QED
  BY <1>4, <1>5, <1>6

(* What is not reached from the pointers of the threads nobody refers to.  *)
LEMMA PointersInitInv == Pointers!Init => PointersInv
<1> SUFFICES ASSUME Pointers!Init PROVE PointersInv
  OBVIOUS
<1>b. /\ None \notin Places /\ Objects \subseteq Places
      /\ \A l \in Places : l \in Objects \/ l \in Pointers!Roots
  BY PlaceFacts DEF Places, Pointers!Locations
<1>1. /\ ptr \in [Places -> Objects \cup {None}]
      /\ state = [o \in Objects |-> IF o \in Pointers!Reachable(ptr) THEN "live" ELSE "none"]
      /\ \A o \in Objects : state[o] = "none" => ptr[o] = None
      /\ count = [o \in Objects |-> Pointers!Cardinality(Pointers!Users(o))]
      /\ call = [t \in Threads |-> Pointers!Idle]
      /\ chain = [t \in Threads |-> << >>]
  BY DEF Pointers!Init, Places
<1>2. \A S : Pointers!Cardinality(S) = Cardinality(S)
  BY DEF Pointers!Cardinality, Cardinality
<1>3. ~ \E l : Taken(l)
  <2>1. ASSUME NEW t \in Threads PROVE call[t].step # "attach" /\ Len(chain[t]) = 0
    BY <1>1 DEF Pointers!Idle
  <2> QED
    BY <2>1 DEF Taken
<1>4. ASSUME NEW o \in Objects
      PROVE  /\ HoldersOf(o) = Pointers!Users(o) /\ count[o] = Cardinality(HoldersOf(o))
             /\ count[o] \in Nat
  <2>1. HoldersOf(o) = Pointers!Users(o)
    BY <1>3 DEF HoldersOf, Pointers!Users, Places
  <2>2. count[o] = Cardinality(HoldersOf(o))
    BY <1>1, <1>2, <2>1
  <2> QED
    BY <2>1, <2>2, HoldersFinite
<1>5. PointersTyped
  <2>1. Pointers!Idle \in [step : {"idle", "detach", "take", "attach"}, move : BOOLEAN,
                           dst : Places \cup {None},
                           src : Places \cup {None} \cup {<<l>> : l \in Places},
                           want : Objects \cup {None}]
    BY DEF Pointers!Idle
  <2>2. call \in [Threads -> [step : {"idle", "detach", "take", "attach"}, move : BOOLEAN,
                             dst : Places \cup {None},
                             src : Places \cup {None} \cup {<<l>> : l \in Places},
                             want : Objects \cup {None}]]
    BY <1>1, <2>1
  <2>3. count \in [Objects -> Nat]
    BY <1>1, <1>4
  <2>4. state \in [Objects -> {"none", "live", "deleted"}]
    BY <1>1
  <2>5. chain \in [Threads -> Seq(Places)]
    BY <1>1
  <2> QED
    BY <1>1, <2>2, <2>3, <2>4, <2>5 DEF PointersTyped
<1>6. ASSUME NEW t \in Threads PROVE ThreadInv(t)
  <2>1. /\ call[t].step = "idle" /\ call[t].move = FALSE /\ call[t].dst = None
        /\ call[t].src = None /\ call[t].want = None /\ Len(chain[t]) = 0
    BY <1>1 DEF Pointers!Idle
  <2>2. Pointers!Owner(t) = None
    BY <2>1 DEF Pointers!Owner
  <2> QED
    BY <1>b, <2>1, <2>2 DEF ThreadInv, CallOf, ChainOf, ClaimOf, SourceOf, AttachOf
<1>7. ChainsApart
  BY <1>1 DEF ChainsApart
<1>8. ASSUME NEW o \in Objects PROVE CountOf(o)
  <2>1. ASSUME state[o] # "live", NEW l \in Places, ptr[l] = o PROVE FALSE
    <3>1. o \notin Pointers!Reachable(ptr)
      BY <1>1, <2>1
    <3>2. PICK S \in SUBSET Objects :
            (\A x \in Pointers!Roots \cup S : ptr[x] \in S \cup {None}) /\ o \notin S
      BY <3>1 DEF Pointers!Reachable
    <3>3. l \notin Pointers!Roots \cup S
      BY <1>b, <2>1, <3>2
    <3>4. l \in Objects /\ l \notin Pointers!Reachable(ptr)
      BY <1>b, <3>2, <3>3 DEF Pointers!Reachable
    <3>5. ptr[l] = None
      BY <1>1, <3>4
    <3> QED
      BY <1>b, <2>1, <3>5
  <2>2. CASE state[o] # "live"
    <3>1. HoldersOf(o) = {}
      BY <2>1, <2>2 DEF HoldersOf
    <3> QED
      BY <1>4, <2>2, <3>1, FS_EmptySet DEF CountOf
  <2>3. CASE state[o] = "live"
    BY <1>4, <2>3 DEF CountOf
  <2> QED
    BY <2>2, <2>3
<1> QED
  BY <1>5, <1>6, <1>7, <1>8 DEF PointersInv

(* A read of what nobody holds ends the model and changes nothing else.    *)
LEMMA PointersSame ==
  ASSUME PointersInv, UNCHANGED <<ptr, count, state, call, chain>>
  PROVE  PointersInv'
<1>1. PointersTyped /\ ChainsApart /\ (\A t \in Threads : ThreadInv(t)) /\ (\A o \in Objects : CountOf(o))
  BY DEF PointersInv
<1>2. PointersTyped'
  BY <1>1 DEF PointersTyped
<1>3. ASSUME NEW t \in Threads PROVE ThreadInv(t)'
  BY <1>2, ThreadUndisturbed
<1>4. ChainsApart'
  BY <1>1 DEF ChainsApart
<1>5. \A l : Taken(l)' <=> Taken(l)
  BY DEF Taken
<1>6. \A o \in Objects : CountOf(o)'
  BY <1>5, CountsUndisturbed
<1> QED
  BY <1>2, <1>3, <1>4, <1>6 DEF PointersInv

(* Every step on the pointers keeps their invariant.                       *)
LEMMA PointersNextInv == PointersInv /\ Pointers!Next => PointersInv'
<1> SUFFICES ASSUME PointersInv, Pointers!Next PROVE PointersInv'
  OBVIOUS
<1>1. ASSUME NEW t \in Threads, Pointers!Take(t), Pointers!Unowned(t) PROVE PointersInv'
  <2>1. UNCHANGED <<ptr, count, state, call, chain>>
    BY <1>1 DEF Pointers!Take
  <2> QED
    BY <2>1, PointersSame
<1> QED
  BY <1>1, CallsInv, TryDetachInv, TakeInv, TryAttachInv DEF Pointers!Next

(* So counts are exact, and what a call reads, counts or releases is live. *)
LEMMA PointersInvCounted ==
  ASSUME PointersInv
  PROVE  Pointers!TypeOK /\ Pointers!CountsExact /\ Pointers!NothingFreedUsed
<1>a. /\ PointersTyped /\ (\A t \in Threads : ThreadInv(t)) /\ (\A o \in Objects : CountOf(o))
  BY DEF PointersInv
<1>b. Objects \subseteq Places /\ None \notin Places /\ IsFiniteSet(Places)
  BY PlaceFacts
<1>c. \A S : Pointers!Cardinality(S) = Cardinality(S)
  BY DEF Pointers!Cardinality, Cardinality
<1>1. ASSUME NEW o \in Objects PROVE Pointers!Holders(o) = HoldersOf(o)
  BY DEF Pointers!Holders, Pointers!Users, HoldersOf, Taken, Places
<1>2. ASSUME NEW o \in Objects PROVE count[o] \in 0..Pointers!Cardinality(Places)
  <2>1. CountOf(o) /\ count[o] \in Nat
    BY <1>a DEF PointersTyped
  <2>2. HoldersOf(o) \subseteq Places
    BY DEF HoldersOf
  <2>3. Cardinality(HoldersOf(o)) <= Cardinality(Places) /\ Cardinality(Places) \in Nat
    BY <1>b, <2>2, FS_Subset, FS_CardinalityType
  <2>4. count[o] <= Cardinality(Places)
    BY <2>1, <2>3 DEF CountOf
  <2> QED
    BY <1>c, <2>1, <2>3, <2>4
<1>3. Pointers!TypeOK
  <2>1. count \in [Objects -> 0..Pointers!Cardinality(Places)]
    BY <1>a, <1>2 DEF PointersTyped
  <2>2. ASSUME NEW t \in Threads
        PROVE  /\ call[t].step \in {"idle", "detach", "take", "attach"}
               /\ call[t].step = "detach" <=> chain[t] # << >>
               /\ \A i \in 1..Len(chain[t]) - 1 : chain[t][i + 1] = ptr[chain[t][i]]
    <3>1. /\ call[t].step \in {"idle", "detach", "take", "attach"}
          /\ chain[t] \in Seq(Places) /\ Len(chain[t]) \in Nat
      BY <1>a DEF PointersTyped
    <3>2. /\ call[t].step = "detach" <=> Len(chain[t]) > 0
          /\ \A i \in 2..Len(chain[t]) : ptr[chain[t][i - 1]] = chain[t][i]
      BY <1>a DEF ThreadInv, ChainOf
    <3>3. chain[t] # << >> <=> Len(chain[t]) > 0
      BY <3>1
    <3>4. ASSUME NEW i \in 1..Len(chain[t]) - 1 PROVE chain[t][i + 1] = ptr[chain[t][i]]
      <4>1. i + 1 \in 2..Len(chain[t]) /\ (i + 1) - 1 = i
        BY <3>1
      <4> QED
        BY <3>2, <4>1
    <3> QED
      BY <3>1, <3>2, <3>3, <3>4
  <2> QED
    BY <1>a, <2>1, <2>2 DEF PointersTyped, Pointers!TypeOK, Places
<1>4. Pointers!CountsExact
  BY <1>a, <1>c, <1>1 DEF CountOf, Pointers!CountsExact
<1>5. ASSUME NEW t \in Threads, call[t].step = "take", Pointers!Owner(t) \in Objects,
             ~Pointers!Unowned(t)
      PROVE  state[Pointers!Owner(t)] = "live"
  <2>1. Pointers!Owner(t) \in Pointers!Readable(t) /\ Pointers!Owner(t) \notin RootsOf[t]
    BY <1>5, PlaceFacts DEF Pointers!Unowned
  <2>2. PICK r \in RootsOf[t] : ptr[r] = Pointers!Owner(t)
    BY <2>1 DEF Pointers!Readable
  <2>3. r \in Places
    BY PlaceFacts
  <2> QED
    BY <1>5, <2>2, <2>3, UsedIsLive
<1>6. ASSUME NEW t \in Threads, call[t].step = "attach"
      PROVE  state[ptr[call[t].dst]] = "live"
  BY <1>a, <1>6 DEF ThreadInv, AttachOf
<1>7. ASSUME NEW t \in Threads, call[t].step = "detach"
      PROVE  LET o == ptr[Pointers!Last(chain[t])] IN state[o] = "live" /\ count[o] > 0
  <2>1. PICK l : l = chain[t][Len(chain[t])]
    OBVIOUS
  <2>2. Pointers!Last(chain[t]) = l
    BY <2>1 DEF Pointers!Last
  <2>3. state[ptr[l]] = "live" /\ count[ptr[l]] \in Nat \ {0}
    BY <1>7, <2>1, LastHolds
  <2>4. count[ptr[l]] > 0
    BY <2>3
  <2> QED
    BY <2>2, <2>3, <2>4
<1>8. Pointers!NothingFreedUsed
  BY <1>5, <1>6, <1>7 DEF Pointers!NothingFreedUsed
<1> QED
  BY <1>3, <1>4, <1>8

-----------------------------------------------------------------------------
(* The policy of handles                                                   *)

HoldingRefs(h) == {r \in Refs : handle[r] = h}

(* As HandlesCounted, of one handle.                                       *)
RefCounted(h) == policy[h] = 1 + Cardinality(HoldingRefs(h)) + forgotten[h] - copies[h]

RefInv == /\ handle \in [Refs -> Handles \cup {Invalid, Absent}]
          /\ policy \in [Handles -> Int]
          /\ forgotten \in [Handles -> Int] /\ copies \in [Handles -> Int]
          /\ \A h \in Handles : RefCounted(h)

(* What the assumption says of references.                                 *)
LEMMA RefAssumption ==
  IsFiniteSet(Refs) /\ Invalid \notin Handles /\ Absent \notin Handles \cup {Invalid}
<1>1. Refd!HandleRefAssumption
  BY OwnershipAssumption
<1>2. \A S : Refd!IsFiniteSet(S) = IsFiniteSet(S)
  BY DEF Refd!IsFiniteSet, IsFiniteSet
<1> QED
  BY <1>1, <1>2 DEF Refd!HandleRefAssumption

(* So handles are counted.                                                 *)
LEMMA RefInvCounted == RefInv => Refd!TypeOK /\ Refd!HandlesCounted
<1>1. \A S : Refd!Cardinality(S) = Cardinality(S)
  BY DEF Refd!Cardinality, Cardinality
<1> QED
  BY <1>1 DEF RefInv, RefCounted, Refd!TypeOK, Refd!HandlesCounted, HoldingRefs

(* The references to a handle can be counted.                              *)
LEMMA HoldingFinite ==
  ASSUME NEW h PROVE IsFiniteSet(HoldingRefs(h)) /\ Cardinality(HoldingRefs(h)) \in Nat
<1>1. HoldingRefs(h) \subseteq Refs
  BY DEF HoldingRefs
<1> QED
  BY <1>1, RefAssumption, FS_Subset, FS_CardinalityType

(* One more reference holds what is put in r, one less what was in it.     *)
LEMMA HoldingChange ==
  ASSUME RefInv, NEW r \in Refs, NEW x, handle' = [handle EXCEPT ![r] = x], NEW h \in Handles
  PROVE  Cardinality(HoldingRefs(h)')
           = Cardinality(HoldingRefs(h)) + (IF x = h THEN 1 ELSE 0) - (IF handle[r] = h THEN 1 ELSE 0)
<1>1. handle'[r] = x /\ \A o \in Refs \ {r} : handle'[o] = handle[o]
  BY DEF RefInv
<1>2. IsFiniteSet(HoldingRefs(h)) /\ Cardinality(HoldingRefs(h)) \in Nat
  BY HoldingFinite
<1>3. CASE x = h /\ handle[r] # h
  <2>1. HoldingRefs(h)' = HoldingRefs(h) \cup {r} /\ r \notin HoldingRefs(h)
    BY <1>1, <1>3 DEF HoldingRefs
  <2>2. Cardinality(HoldingRefs(h) \cup {r}) = Cardinality(HoldingRefs(h)) + 1
    BY <1>2, <2>1, FS_AddElement
  <2> QED
    BY <1>2, <1>3, <2>1, <2>2
<1>4. CASE x # h /\ handle[r] = h
  <2>1. HoldingRefs(h)' = HoldingRefs(h) \ {r} /\ r \in HoldingRefs(h)
    BY <1>1, <1>4 DEF HoldingRefs
  <2>2. Cardinality(HoldingRefs(h) \ {r}) = Cardinality(HoldingRefs(h)) - 1
    BY <1>2, <2>1, FS_RemoveElement
  <2> QED
    BY <1>2, <1>4, <2>1, <2>2
<1>5. CASE x = h <=> handle[r] = h
  <2>1. HoldingRefs(h)' = HoldingRefs(h)
    BY <1>1, <1>5 DEF HoldingRefs
  <2> QED
    BY <1>2, <1>5, <2>1
<1> QED
  BY <1>3, <1>4, <1>5

(* What Plus does to the entry of each handle.                             *)
LEMMA PlusEntries ==
  ASSUME NEW f \in [Handles -> Int], NEW x, NEW n \in Int
  PROVE  /\ Refd!Plus(f, x, n) \in [Handles -> Int]
         /\ \A h \in Handles : Refd!Plus(f, x, n)[h] = f[h] + (IF x = h THEN n ELSE 0)
  BY DEF Refd!Plus

(* No reference holds a handle to begin with.                              *)
LEMMA RefInitInv == Refd!Init => RefInv
<1> SUFFICES ASSUME Refd!Init PROVE RefInv
  OBVIOUS
<1>1. ASSUME NEW h \in Handles PROVE Cardinality(HoldingRefs(h)) = 0
  <2>1. HoldingRefs(h) = {}
    BY RefAssumption DEF Refd!Init, HoldingRefs
  <2> QED
    BY <2>1, FS_EmptySet
<1> QED
  BY <1>1 DEF Refd!Init, RefInv, RefCounted

(* A step that puts x in r, and counts what it does, keeps the sum.        *)
LEMMA RefNextInv == RefInv /\ Refd!Next => RefInv'
<1> SUFFICES ASSUME RefInv, Refd!Next PROVE RefInv'
  OBVIOUS
<1>a. /\ handle \in [Refs -> Handles \cup {Invalid, Absent}]
      /\ policy \in [Handles -> Int] /\ forgotten \in [Handles -> Int] /\ copies \in [Handles -> Int]
      /\ \A h \in Handles :
           policy[h] = 1 + Cardinality(HoldingRefs(h)) + forgotten[h] - copies[h]
  BY DEF RefInv, RefCounted
<1>b. \A h \in Handles : Cardinality(HoldingRefs(h)) \in Nat
  BY HoldingFinite
<1>1. ASSUME NEW r \in Refs, NEW h \in Handles \cup {Invalid}, Refd!Construct(r, h) PROVE RefInv'
  <2>1. /\ handle[r] = Absent /\ handle' = [handle EXCEPT ![r] = h]
        /\ policy' = Refd!Plus(policy, h, 1) /\ UNCHANGED <<forgotten, copies>>
    BY <1>1 DEF Refd!Construct
  <2>2. /\ policy' \in [Handles -> Int]
        /\ \A x \in Handles : policy'[x] = policy[x] + (IF h = x THEN 1 ELSE 0)
    BY <1>a, <2>1, PlusEntries
  <2>3. ASSUME NEW y \in Handles
        PROVE  Cardinality(HoldingRefs(y)')
                 = Cardinality(HoldingRefs(y)) + (IF h = y THEN 1 ELSE 0)
    <3>1. Cardinality(HoldingRefs(y)')
            = Cardinality(HoldingRefs(y)) + (IF h = y THEN 1 ELSE 0) - (IF handle[r] = y THEN 1 ELSE 0)
      BY <2>1, HoldingChange
    <3>2. handle[r] # y
      BY <2>1, RefAssumption
    <3> QED
      BY <1>b, <3>1, <3>2
  <2>4. ASSUME NEW y \in Handles
        PROVE  RefCounted(y)'
    BY <1>a, <1>b, <2>1, <2>2, <2>3 DEF RefCounted
  <2>5. handle' \in [Refs -> Handles \cup {Invalid, Absent}]
    BY <1>a, <2>1
  <2>6. /\ policy' \in [Handles -> Int] /\ forgotten' \in [Handles -> Int]
        /\ copies' \in [Handles -> Int]
    BY <1>a, <1>b, <2>1, <2>2, <2>3
  <2> QED
    BY <2>4, <2>5, <2>6 DEF RefInv
<1>2. ASSUME NEW r \in Refs, Refd!Release(r) \/ Refd!Destroy(r) PROVE RefInv'
  <2>1. /\ policy' = Refd!Plus(policy, handle[r], -1) /\ UNCHANGED <<forgotten, copies>>
    BY <1>2 DEF Refd!Release, Refd!Destroy
  <2>2. PICK x \in {Invalid, Absent} : handle' = [handle EXCEPT ![r] = x]
    BY <1>2 DEF Refd!Release, Refd!Destroy
  <2>3. /\ policy' \in [Handles -> Int]
        /\ \A h \in Handles : policy'[h] = policy[h] + (IF handle[r] = h THEN -1 ELSE 0)
    BY <1>a, <2>1, PlusEntries
  <2>4. ASSUME NEW y \in Handles
        PROVE  Cardinality(HoldingRefs(y)')
                 = Cardinality(HoldingRefs(y)) - (IF handle[r] = y THEN 1 ELSE 0)
    <3>1. Cardinality(HoldingRefs(y)')
            = Cardinality(HoldingRefs(y)) + (IF x = y THEN 1 ELSE 0) - (IF handle[r] = y THEN 1 ELSE 0)
      BY <2>2, HoldingChange
    <3>2. x # y
      BY RefAssumption
    <3> QED
      BY <1>b, <3>1, <3>2
  <2>5. ASSUME NEW y \in Handles
        PROVE  RefCounted(y)'
    BY <1>a, <1>b, <2>1, <2>2, <2>3, <2>4 DEF RefCounted
  <2>6. handle' \in [Refs -> Handles \cup {Invalid, Absent}]
    BY <1>a, <2>2
  <2>7. /\ policy' \in [Handles -> Int] /\ forgotten' \in [Handles -> Int]
        /\ copies' \in [Handles -> Int]
    BY <1>a, <1>b, <2>1, <2>2, <2>3, <2>4
  <2> QED
    BY <2>5, <2>6, <2>7 DEF RefInv
<1>3. ASSUME NEW r \in Refs, Refd!Invalidate(r) PROVE RefInv'
  <2>1. /\ handle' = [handle EXCEPT ![r] = Invalid] /\ forgotten' = Refd!Plus(forgotten, handle[r], 1)
        /\ UNCHANGED <<policy, copies>>
    BY <1>3 DEF Refd!Invalidate
  <2>2. /\ forgotten' \in [Handles -> Int]
        /\ \A h \in Handles : forgotten'[h] = forgotten[h] + (IF handle[r] = h THEN 1 ELSE 0)
    BY <1>a, <2>1, PlusEntries
  <2>3. ASSUME NEW y \in Handles
        PROVE  Cardinality(HoldingRefs(y)')
                 = Cardinality(HoldingRefs(y)) - (IF handle[r] = y THEN 1 ELSE 0)
    <3>1. Cardinality(HoldingRefs(y)')
            = Cardinality(HoldingRefs(y)) + (IF Invalid = y THEN 1 ELSE 0) - (IF handle[r] = y THEN 1 ELSE 0)
      BY <2>1, HoldingChange
    <3>2. Invalid # y
      BY RefAssumption
    <3> QED
      BY <1>b, <3>1, <3>2
  <2>4. ASSUME NEW y \in Handles
        PROVE  RefCounted(y)'
    BY <1>a, <1>b, <2>1, <2>2, <2>3 DEF RefCounted
  <2>5. handle' \in [Refs -> Handles \cup {Invalid, Absent}]
    BY <1>a, <2>1
  <2>6. /\ policy' \in [Handles -> Int] /\ forgotten' \in [Handles -> Int]
        /\ copies' \in [Handles -> Int]
    BY <1>a, <1>b, <2>1, <2>2, <2>3
  <2> QED
    BY <2>4, <2>5, <2>6 DEF RefInv
<1>4. ASSUME NEW r \in Refs, NEW from \in Refs, Refd!Copy(r, from) PROVE RefInv'
  <2>1. /\ handle' = [handle EXCEPT ![r] = handle[from]]
        /\ forgotten' = Refd!Plus(forgotten, handle[r], 1)
        /\ copies' = Refd!Plus(copies, handle[from], 1)
        /\ policy' = policy
    BY <1>4 DEF Refd!Copy
  <2>2. /\ forgotten' \in [Handles -> Int]
        /\ \A h \in Handles : forgotten'[h] = forgotten[h] + (IF handle[r] = h THEN 1 ELSE 0)
    BY <1>a, <2>1, PlusEntries
  <2>3. /\ copies' \in [Handles -> Int]
        /\ \A h \in Handles : copies'[h] = copies[h] + (IF handle[from] = h THEN 1 ELSE 0)
    BY <1>a, <2>1, PlusEntries
  <2>4. PICK x \in Handles \cup {Invalid, Absent} : x = handle[from]
    BY <1>a
  <2>5. ASSUME NEW y \in Handles
        PROVE  Cardinality(HoldingRefs(y)')
                 = Cardinality(HoldingRefs(y)) + (IF x = y THEN 1 ELSE 0)
                     - (IF handle[r] = y THEN 1 ELSE 0)
    BY <2>1, <2>4, HoldingChange
  <2>6. ASSUME NEW y \in Handles
        PROVE  RefCounted(y)'
    <3>1. policy[y] = 1 + Cardinality(HoldingRefs(y)) + forgotten[y] - copies[y]
      BY <1>a
    <3>2. policy[y] \in Int /\ forgotten[y] \in Int /\ copies[y] \in Int
      BY <1>a
    <3>3. /\ policy'[y] = policy[y]
          /\ forgotten'[y] = forgotten[y] + (IF handle[r] = y THEN 1 ELSE 0)
          /\ copies'[y] = copies[y] + (IF x = y THEN 1 ELSE 0)
      BY <2>1, <2>2, <2>3, <2>4
    <3> QED
      BY <1>b, <2>5, <3>1, <3>2, <3>3 DEF RefCounted
  <2>7. handle' \in [Refs -> Handles \cup {Invalid, Absent}]
    BY <1>a, <2>1
  <2>8. /\ policy' \in [Handles -> Int] /\ forgotten' \in [Handles -> Int]
        /\ copies' \in [Handles -> Int]
    BY <1>a, <1>b, <2>1, <2>2, <2>3, <2>4, <2>5
  <2> QED
    BY <2>6, <2>7, <2>8 DEF RefInv
<1> QED
  BY <1>1, <1>2, <1>3, <1>4 DEF Refd!Next

-----------------------------------------------------------------------------
(* The streams of wrappers                                                 *)

(* A stream that is not freed has one wrapper, which exists.               *)
StreamInv ==
    /\ m_data \in [Wrappers -> 1..MaxStreams \cup {Nothing}]
    /\ made \in 0..MaxStreams
    /\ \A w \in Wrappers : m_data[w] # Nothing =>
         w \in alive /\ m_data[w] \in 1..made /\ m_data[w] \notin freed
    /\ \A w, v \in Wrappers : m_data[w] = m_data[v] => w = v \/ m_data[w] = Nothing
    /\ \A i \in 1..made : i \in freed \/ \E w \in Wrappers : m_data[w] = i
    /\ alive \subseteq Wrappers /\ freed \subseteq 1..made
    /\ freed = destructed \cup over /\ destructed \cap over = {}

(* The assumption about the wrappers.                                      *)
LEMMA StreamAssumption == Stream!StreamWrapperAssumption
  BY OwnershipAssumption

(* So a stream that is not freed has one wrapper, a freed one none.        *)
LEMMA StreamInvOwned == StreamInv => Stream!StreamsOwned
<1> SUFFICES ASSUME StreamInv PROVE Stream!StreamsOwned
  OBVIOUS
<1>1. MaxStreams \in Nat /\ Nothing \notin 1..MaxStreams
  BY StreamAssumption DEF Stream!StreamWrapperAssumption
<1>2. ASSUME NEW i \in 1..made
      PROVE  \/ i \notin freed /\ \E w \in alive : m_data[w] = i /\ \A v \in alive \ {w} : m_data[v] # i
             \/ i \in freed /\ \A w \in alive : m_data[w] # i
  <2>1. i # Nothing
    BY <1>1 DEF StreamInv
  <2> QED
    BY <2>1 DEF StreamInv
<1> QED
  BY <1>2 DEF StreamInv, Stream!StreamsOwned

(* There is no stream to begin with.                                       *)
LEMMA StreamInitInv == Stream!Init => StreamInv
  BY StreamAssumption DEF Stream!Init, StreamInv, Stream!StreamWrapperAssumption

(* A wrapper is made with a stream of its own.                             *)
LEMMA StreamConstructInv ==
  ASSUME StreamInv, NEW w \in Wrappers, Stream!Construct(w)
  PROVE  StreamInv'
<1>1. MaxStreams \in Nat /\ Nothing \notin 1..MaxStreams
  BY StreamAssumption DEF Stream!StreamWrapperAssumption
<1>2. /\ w \notin alive /\ made < MaxStreams /\ alive' = alive \cup {w} /\ made' = made + 1
      /\ m_data' = [m_data EXCEPT ![w] = made'] /\ UNCHANGED <<destructed, freed, over>>
  BY DEF Stream!Construct
<1>3. /\ made' \in 1..MaxStreams /\ made' \notin 1..made /\ made' # Nothing
      /\ 1..made' = 1..made \cup {made'}
  BY <1>1, <1>2 DEF StreamInv
<1>4. /\ m_data'[w] = made' /\ \A v \in Wrappers \ {w} : m_data'[v] = m_data[v]
      /\ m_data' \in [Wrappers -> 1..MaxStreams \cup {Nothing}]
  BY <1>2, <1>3 DEF StreamInv
<1>5. m_data[w] = Nothing /\ made' \notin freed
  BY <1>2, <1>3 DEF StreamInv
<1>6. \A i \in 1..made' : i \in freed' \/ \E v \in Wrappers : m_data'[v] = i
  <2>1. ASSUME NEW i \in 1..made', i # made' PROVE i \in freed' \/ \E v \in Wrappers : m_data'[v] = i
    <3>1. i \in 1..made
      BY <1>3, <2>1
    <3>2. i # Nothing
      BY <1>1, <3>1 DEF StreamInv
    <3> QED
      BY <1>2, <1>4, <1>5, <3>1, <3>2 DEF StreamInv
  <2> QED
    BY <1>4, <2>1
<1>7. \A v, u \in Wrappers : m_data'[v] = m_data'[u] => v = u \/ m_data'[v] = Nothing
  BY <1>3, <1>4 DEF StreamInv
<1>8. \A v \in Wrappers : m_data'[v] # Nothing =>
        v \in alive' /\ m_data'[v] \in 1..made' /\ m_data'[v] \notin freed'
  BY <1>2, <1>3, <1>4, <1>5 DEF StreamInv
<1> QED
  BY <1>2, <1>3, <1>4, <1>6, <1>7, <1>8 DEF StreamInv

(* A stream is moved to another wrapper, or destructed with its own.       *)
LEMMA StreamOtherInv ==
  ASSUME StreamInv, NEW w \in Wrappers, NEW v \in Wrappers,
         Stream!Destroy(w) \/ Stream!MoveConstruct(w, v) \/ Stream!MoveAssign(w, v)
  PROVE  StreamInv'
<1>1. made' = made
  BY DEF Stream!Destroy, Stream!MoveConstruct, Stream!MoveAssign
<1>2. CASE Stream!Destroy(w)
  <2>1. /\ alive' = alive \ {w} /\ m_data' = [m_data EXCEPT ![w] = Nothing]
        /\ over' = over
        /\ m_data[w] = Nothing => UNCHANGED <<destructed, freed>>
        /\ m_data[w] # Nothing => /\ destructed' = destructed \cup {m_data[w]}
                                  /\ freed' = freed \cup {m_data[w]}
    BY <1>2 DEF Stream!Destroy
  <2>2. m_data'[w] = Nothing /\ \A u \in Wrappers \ {w} : m_data'[u] = m_data[u]
    BY <2>1 DEF StreamInv
  <2>3. freed' = destructed' \cup over' /\ destructed' \cap over' = {} /\ freed' \subseteq 1..made
    BY <2>1 DEF StreamInv
  <2>4. \A i \in 1..made : i \in freed' \/ \E u \in Wrappers : m_data'[u] = i
    BY <2>1, <2>2 DEF StreamInv
  <2> QED
    BY <1>1, <2>1, <2>2, <2>3, <2>4 DEF StreamInv
<1>3. CASE Stream!MoveConstruct(w, v)
  <2>1. /\ w \notin alive /\ v \in alive /\ alive' = alive \cup {w}
        /\ m_data' = [m_data EXCEPT ![w] = m_data[v], ![v] = Nothing]
        /\ UNCHANGED <<destructed, freed, over>>
    BY <1>3 DEF Stream!MoveConstruct
  <2>2. /\ m_data'[w] = m_data[v] /\ m_data'[v] = Nothing /\ m_data[w] = Nothing
        /\ \A u \in Wrappers \ {w, v} : m_data'[u] = m_data[u]
        /\ m_data' \in [Wrappers -> 1..MaxStreams \cup {Nothing}]
    BY <2>1 DEF StreamInv
  <2>3. \A i \in 1..made : i \in freed' \/ \E u \in Wrappers : m_data'[u] = i
    <3>1. ASSUME NEW i \in 1..made, i \notin freed PROVE \E u \in Wrappers : m_data'[u] = i
      <4>1. i # Nothing
        BY StreamAssumption DEF StreamInv, Stream!StreamWrapperAssumption
      <4> QED
        BY <2>2, <3>1, <4>1 DEF StreamInv
    <3> QED
      BY <2>1, <3>1
  <2> QED
    BY <1>1, <2>1, <2>2, <2>3 DEF StreamInv
<1>4. CASE Stream!MoveAssign(w, v)
  <2>1. CASE w = v
    <3>1. UNCHANGED <<m_data, freed, over, alive, destructed>>
      BY <1>4, <2>1 DEF Stream!MoveAssign
    <3> QED
      BY <1>1, <3>1 DEF StreamInv
  <2>2. CASE w # v
    <3>1. /\ {w, v} \subseteq alive /\ alive' = alive
          /\ m_data' = [m_data EXCEPT ![w] = m_data[v], ![v] = Nothing]
          /\ destructed' = destructed
          /\ m_data[w] = Nothing => UNCHANGED <<over, freed>>
          /\ m_data[w] # Nothing => /\ over' = over \cup {m_data[w]}
                                    /\ freed' = freed \cup {m_data[w]}
      BY <1>4, <2>2 DEF Stream!MoveAssign
    <3>2. /\ m_data'[w] = m_data[v] /\ m_data'[v] = Nothing
          /\ \A u \in Wrappers \ {w, v} : m_data'[u] = m_data[u]
          /\ m_data' \in [Wrappers -> 1..MaxStreams \cup {Nothing}]
      BY <2>2, <3>1 DEF StreamInv
    <3>3. \A i \in 1..made : i \in freed' \/ \E u \in Wrappers : m_data'[u] = i
      <4>1. ASSUME NEW i \in 1..made, i \notin freed' PROVE \E u \in Wrappers : m_data'[u] = i
        <5>1. i # Nothing
          BY StreamAssumption DEF StreamInv, Stream!StreamWrapperAssumption
        <5>2. PICK u \in Wrappers : m_data[u] = i
          BY <3>1, <4>1 DEF StreamInv
        <5>3. u # w
          BY <3>1, <4>1, <5>1, <5>2
        <5> QED
          BY <3>2, <5>2, <5>3
      <4> QED
        BY <4>1
    <3>4. freed' = destructed' \cup over' /\ destructed' \cap over' = {} /\ freed' \subseteq 1..made
      BY <3>1 DEF StreamInv
    <3>5. \A x, y \in Wrappers : m_data'[x] = m_data'[y] => x = y \/ m_data'[x] = Nothing
      BY <2>2, <3>2 DEF StreamInv
    <3>6. \A x \in Wrappers : m_data'[x] # Nothing =>
            x \in alive' /\ m_data'[x] \in 1..made /\ m_data'[x] \notin freed'
      <4>1. ASSUME NEW x \in Wrappers, m_data'[x] # Nothing
            PROVE  \E y \in Wrappers \ {w} : m_data'[x] = m_data[y]
        BY <2>2, <3>2, <4>1
      <4> QED
        BY <3>1, <4>1 DEF StreamInv
    <3> QED
      BY <1>1, <3>1, <3>2, <3>3, <3>4, <3>5, <3>6 DEF StreamInv
  <2> QED
    BY <2>1, <2>2
<1> QED
  BY <1>2, <1>3, <1>4

(* Every step on the wrappers keeps their invariant.                       *)
LEMMA StreamNextInv == StreamInv /\ Stream!Next => StreamInv'
  BY StreamConstructInv, StreamOtherInv DEF Stream!Next

-----------------------------------------------------------------------------
(* The parts together                                                      *)

(* A step of another part leaves what the invariants are about alone.      *)
LEMMA OthersStep ==
  /\ TableInv /\ UNCHANGED tableVars => TableInv'
  /\ CodeInv /\ UNCHANGED codeVars => CodeInv'
  /\ PointersInv /\ UNCHANGED pointerVars => PointersInv'
  /\ RefInv /\ UNCHANGED refVars => RefInv'
  /\ StreamInv /\ UNCHANGED streamVars => StreamInv'
<1>1. ASSUME TableInv, UNCHANGED tableVars PROVE TableInv'
  <2>1. UNCHANGED <<slot, prot, original, detour, calls, log, overlapped, faulted>>
    BY <1>1 DEF tableVars
  <2>2. SlotsTyped /\ DetoursTyped /\ DetourAlone /\ SlotChained /\ Table!NotOverItself /\ PageKept
    BY <1>1 DEF TableInv
  <2>3. SlotsTyped' /\ DetoursTyped'
    BY <2>1, <2>2 DEF SlotsTyped, DetoursTyped
  <2>4. DetourAlone' /\ Table!NotOverItself' /\ PageKept'
    BY <2>1, <2>2 DEF DetourAlone, Table!NotOverItself, PageKept
  <2>5. SlotChained'
    BY <2>1, <2>2 DEF SlotChained
  <2> QED
    BY <2>3, <2>4, <2>5 DEF TableInv
<1>2. ASSUME CodeInv, UNCHANGED codeVars PROVE CodeInv'
  <2>1. UNCHANGED <<target, orig, returned, hooked, room, allocating, ended, stopped>>
    BY <1>2 DEF codeVars
  <2> QED
    BY <1>2, <2>1 DEF CodeInv, CodeTyped, SiteChained, ToldInChain, Code!OneGenerator
<1>3. ASSUME PointersInv, UNCHANGED pointerVars PROVE PointersInv'
  BY <1>3, PointersSame DEF pointerVars
<1>4. ASSUME RefInv, UNCHANGED refVars PROVE RefInv'
  <2>1. UNCHANGED <<handle, policy, forgotten, copies>>
    BY <1>4 DEF refVars
  <2>2. \A h \in Handles : HoldingRefs(h)' = HoldingRefs(h)
    BY <2>1 DEF HoldingRefs
  <2>3. \A h \in Handles : RefCounted(h)'
    BY <1>4, <2>1, <2>2 DEF RefInv, RefCounted
  <2> QED
    BY <1>4, <2>1, <2>3 DEF RefInv
<1>5. ASSUME StreamInv, UNCHANGED streamVars PROVE StreamInv'
  <2>1. UNCHANGED <<alive, m_data, made, destructed, freed, over>>
    BY <1>5 DEF streamVars
  <2> QED
    BY <1>5, <2>1 DEF StreamInv
<1> QED
  BY <1>1, <1>2, <1>3, <1>4, <1>5

(* Detours: the functions put in a slot, or at a call site, call on to each *)
(* other in the order they were put there, whatever the threads that do it *)
(* at once, none over itself; a page is left as it was by calls that do    *)
(* not overlap; one generator at a time has the trampoline (VFT.h:19-112,  *)
(* IHook.h:89-199, JITASM.cpp:7-24).                                       *)
THEOREM SlotsAndSitesChained == Spec => []Detours
<1>1. Init => TableInv /\ CodeInv
  BY TableInitInv, CodeInitInv DEF Init
<1>2. ASSUME TableInv, CodeInv,
             [PointerStep \/ TableStep \/ RefStep \/ CodeStep \/ StreamStep]_vars
      PROVE  TableInv' /\ CodeInv'
  <2>1. CASE TableStep
    BY <1>2, <2>1, TableNextInv, OthersStep DEF TableStep
  <2>2. CASE CodeStep
    BY <1>2, <2>2, CodeNextInv, OthersStep DEF CodeStep
  <2>3. CASE PointerStep \/ RefStep \/ StreamStep \/ UNCHANGED vars
    <3>1. UNCHANGED tableVars /\ UNCHANGED codeVars
      BY <2>3 DEF PointerStep, RefStep, StreamStep, vars
    <3> QED
      BY <1>2, <3>1, OthersStep
  <2> QED
    BY <1>2, <2>1, <2>2, <2>3
<1>3. TableInv /\ CodeInv => Detours
  BY TableInvDetours, CodeInvChained DEF Detours, CodeInv
<1> QED
  BY <1>1, <1>2, <1>3, PTL DEF Spec

(* What is used is counted, whatever the step.                             *)
CountedInv == PointersInv /\ RefInv /\ StreamInv

(* Nothing is used or counted to begin with.                               *)
LEMMA CountedInitInv == Init => CountedInv
  BY PointersInitInv, RefInitInv, StreamInitInv DEF Init, CountedInv

(* A step of any part keeps the counts of all.                             *)
LEMMA CountedNextInv ==
  ASSUME CountedInv, [PointerStep \/ TableStep \/ RefStep \/ CodeStep \/ StreamStep]_vars
  PROVE  CountedInv'
<1>1. CASE PointerStep
  BY <1>1, PointersNextInv, OthersStep DEF PointerStep, CountedInv
<1>2. CASE RefStep
  BY <1>2, RefNextInv, OthersStep DEF RefStep, CountedInv
<1>3. CASE StreamStep
  BY <1>3, StreamNextInv, OthersStep DEF StreamStep, CountedInv
<1>4. CASE TableStep \/ CodeStep \/ UNCHANGED vars
  <2>1. UNCHANGED pointerVars /\ UNCHANGED refVars /\ UNCHANGED streamVars
    BY <1>4 DEF TableStep, CodeStep, vars
  <2> QED
    BY <2>1, OthersStep DEF CountedInv
<1> QED
  BY <1>1, <1>2, <1>3, <1>4

(* Counted: however the assignments of the threads interleave, the count   *)
(* of an object is the number of the pointers that acquired it, none       *)
(* refers to a deleted object, and no call reads, counts or releases one   *)
(* that is deleted (BSTSmartPointer.h:144-257); the policy holds a handle  *)
(* as often as references do, but for those invalidated and the copies     *)
(* that do not count (GameHandles.cpp:59-88); a stream has one wrapper     *)
(* until its memory goes (Stream.h).                                       *)
THEOREM UsesCounted == Spec => []Counted
<1>1. CountedInv => Counted
  BY PointersInvCounted, RefInvCounted, StreamInvOwned DEF CountedInv, Counted
<1> QED
  BY CountedInitInv, CountedNextInv, <1>1, PTL DEF Spec

(* What a thread does leaves the calls of the others as they are.          *)
LEMMA CallsElsewhere ==
  ASSUME PointersInv, NEW t \in Threads, NEW u \in Threads, t # u,
         \/ Pointers!Calls(u) \/ Pointers!TryDetach(u) \/ Pointers!Take(u)
         \/ Pointers!TryAttach(u)
  PROVE  call'[t] = call[t]
<1>1. \A e : [call EXCEPT ![u] = e][t] = call[t]
  BY DEF PointersInv, PointersTyped
<1>2. ASSUME Pointers!Calls(u) PROVE \E e : call' = [call EXCEPT ![u] = e]
  <2>1. ASSUME NEW move, NEW dst, NEW src, NEW want, Pointers!Begin(u, move, dst, src, want)
        PROVE  \E e : call' = [call EXCEPT ![u] = e]
    BY <2>1, Zenon DEF Pointers!Begin
  <2>2. ASSUME NEW dst, NEW o, Pointers!Make(u, dst, o)
        PROVE  \E e : call' = [call EXCEPT ![u] = e]
    BY <2>2, Zenon DEF Pointers!Make
  <2> QED
    BY <1>2, <2>1, <2>2, Zenon
       DEF Pointers!Calls, Pointers!Assign, Pointers!Move, Pointers!ResetTo, Pointers!Reset
<1>3. ASSUME Pointers!TryDetach(u)
      PROVE  UNCHANGED call \/ call' = [call EXCEPT ![u].step = "take"]
  BY <1>3, Zenon DEF Pointers!TryDetach
<1>4. ASSUME Pointers!Take(u) PROVE UNCHANGED call \/ \E e : call' = [call EXCEPT ![u] = e]
  BY <1>4, Zenon DEF Pointers!Take
<1>5. ASSUME Pointers!TryAttach(u) PROVE \E e : call' = [call EXCEPT ![u] = e]
  BY <1>5, Zenon DEF Pointers!TryAttach
<1>6. [call EXCEPT ![u].step = "take"][t] = call[t]
  BY DEF PointersInv, PointersTyped
<1> QED
  BY <1>1, <1>2, <1>3, <1>4, <1>5, <1>6

(* A call that ends left its pointer with what it was given to assign.     *)
LEMMA EndsAssigned ==
  ASSUME PointersInv, Pointers!Next, NEW t \in Threads,
         call[t].step \in {"take", "attach"}, call'[t].step = "idle"
  PROVE  ptr'[call[t].dst] = call[t].want
<1>a. PointersTyped /\ ThreadInv(t)
  BY DEF PointersInv
<1>1. PICK u \in Threads : \/ Pointers!Calls(u) \/ Pointers!TryDetach(u)
                           \/ Pointers!Take(u) \/ Pointers!TryAttach(u)
  BY DEF Pointers!Next
<1>2. u = t
  BY <1>1, CallsElsewhere
<1>3. ASSUME Pointers!Take(t) PROVE ptr'[call[t].dst] = call[t].want
  <2>1. ~Pointers!Unowned(t)
    BY <1>3 DEF Pointers!Take
  <2> QED
    BY <1>3, <2>1, TakeStep
<1>4. ASSUME Pointers!TryAttach(t) PROVE ptr'[call[t].dst] = call[t].want
  BY <1>a, <1>4 DEF Pointers!TryAttach, ThreadInv, AttachOf
<1>5. ~Pointers!TryDetach(t)
  BY DEF Pointers!TryDetach
<1>6. ~Pointers!Calls(t)
  BY DEF Pointers!Calls, Pointers!Assign, Pointers!Move, Pointers!ResetTo, Pointers!Reset,
         Pointers!Begin, Pointers!Make
<1> QED
  BY <1>1, <1>2, <1>3, <1>4, <1>5, <1>6

(* AssignsSource: whatever the threads do in between, an assignment leaves *)
(* its pointer with what the source held when the call began               *)
(* (BSTSmartPointer.h:144-216).                                            *)
THEOREM SourceAssigned == Spec => AssignsSource
<1>1. ASSUME CountedInv, [PointerStep \/ TableStep \/ RefStep \/ CodeStep \/ StreamStep]_vars
      PROVE  [\A t \in Threads :
                call[t].step \in {"take", "attach"} /\ call'[t].step = "idle"
                => ptr'[call[t].dst] = call[t].want]_(Pointers!vars)
  <2>1. CASE PointerStep
    BY <1>1, <2>1, EndsAssigned DEF PointerStep, CountedInv
  <2>2. CASE TableStep \/ RefStep \/ CodeStep \/ StreamStep \/ UNCHANGED vars
    <3>1. UNCHANGED pointerVars
      BY <2>2 DEF TableStep, RefStep, CodeStep, StreamStep, vars
    <3> QED
      BY <3>1 DEF pointerVars, Pointers!vars
  <2> QED
    BY <1>1, <2>1, <2>2
<1> QED
  BY CountedInitInv, CountedNextInv, <1>1, PTL DEF Spec, AssignsSource, Pointers!AssignsSource
=============================================================================
