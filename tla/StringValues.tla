----------------------------- MODULE StringValues -----------------------------
(***************************************************************************)
(* What stl::fixed_string promises its users: an object has the value it   *)
(* was last given, whatever other threads do with other objects that have  *)
(* the same value. A value is a string up to case.                         *)
(*                                                                         *)
(* While a call writes an object its value is Unknown; a call that reads a *)
(* second object takes effect when it ends. broken is set by a call that   *)
(* breaks the promise; nothing is promised from then on.                   *)
(***************************************************************************)
CONSTANTS Threads, Objects, Values,
          Empty,      \* the value of an empty string
          Unknown,    \* the value of an object that is being written
          Calls,      \* the calls: [op, dst, src, key]
          None        \* no call

VARIABLES value, call, broken

Init == /\ value = [o \in Objects |-> Empty]
        /\ call = [t \in Threads |-> None]
        /\ broken = FALSE

Begin(t, k) == /\ call[t] = None
               /\ call' = [call EXCEPT ![t] = k]
               /\ value' = [value EXCEPT ![k.dst] = Unknown]

(* What a call makes of its objects' values.                               *)
Effect(k) ==
    CASE k.op = "set"   -> [value EXCEPT ![k.dst] = k.key]
      [] k.op = "clear" -> [value EXCEPT ![k.dst] = Empty]
      [] k.op = "copy"  -> [value EXCEPT ![k.dst] = value[k.src]]
      [] k.op = "move"  -> [value EXCEPT ![k.dst] = value[k.src], ![k.src] = Empty]

End(t) == /\ call[t] # None
          /\ value' = Effect(call[t])
          /\ call' = [call EXCEPT ![t] = None]

Next == \/ broken'
        \/ \E t \in Threads : (\E k \in Calls : Begin(t, k)) \/ End(t)

Spec == Init /\ [][Next]_<<value, call, broken>>
=============================================================================
