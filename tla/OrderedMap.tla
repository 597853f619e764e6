----------------------------- MODULE OrderedMap -----------------------------
(* What a map with ordered keys promises: map[k] is the value at k or      *)
(* Absent, and ret is the entry that the last call's iterator refers to,   *)
(* or Absent for the end.                                                  *)
EXTENDS Integers, Sequences, SequencesExt, FiniteSets

CONSTANTS Keys, Values, Default, Lists, Absent

VARIABLES map, ret

vars == <<map, ret>>

Nothing == [k \in Keys |-> Absent]

Entry(m, k) == IF m[k] = Absent THEN Absent ELSE <<k, m[k]>>

(* The entry with the least key above k.                                   *)
After(m, k) == LET above == {j \in Keys : j > k /\ m[j] # Absent}
               IN  IF above = {} THEN Absent
                   ELSE Entry(m, CHOOSE j \in above : \A i \in above : j <= i)

(* The entries of a list go in in order, the first of equal keys stays.    *)
Added(m, list) == FoldLeft(LAMBDA n, e : IF n[e[1]] = Absent
                                           THEN [n EXCEPT ![e[1]] = e[2]] ELSE n, m, list)

Init == map = Nothing /\ ret = Absent

Find(k) == ret' = Entry(map, k) /\ UNCHANGED map
Begin == ret' = After(map, -1) /\ UNCHANGED map
Add(k, v) == map' = Added(map, <<<<k, v>>>>) /\ ret' = Entry(map', k)
Put(k, v) == map' = [map EXCEPT ![k] = v] /\ ret' = Entry(map', k)
Erase(k) == /\ map' = [map EXCEPT ![k] = Absent]
            /\ ret' = IF map[k] = Absent THEN Absent ELSE After(map, k)
Clear == map' = Nothing /\ ret' = Absent
AddList(list) == map' = Added(map, list) /\ ret' = Absent
Replace(list) == map' = Added(Nothing, list) /\ ret' = Absent

Next == \/ Begin \/ Clear
        \/ \E k \in Keys : \/ Find(k) \/ Erase(k)
                           \/ \E v \in Values : Add(k, v) \/ Put(k, v)
        \/ \E list \in Lists : AddList(list) \/ Replace(list)

Spec == Init /\ [][Next]_vars
=============================================================================
