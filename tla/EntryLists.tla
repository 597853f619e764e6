----------------------------- MODULE EntryLists -----------------------------
(* What vectormaps promise: each is a list of entries without two of a     *)
(* key. entries[x][i] is the key and the value at position i of list x.    *)
EXTENDS Integers, Sequences, SequencesExt

CONSTANTS Maps, Keys, Values, Moved, Lists

VARIABLE entries

Init == entries = [x \in Maps |-> << >>]

(* The first entry of a key stays.                                         *)
Added(s, e) == IF \E i \in DOMAIN s : s[i][1] = e[1] THEN s ELSE Append(s, e)

Becomes(x, s) == entries' = [entries EXCEPT ![x] = s]

Emplace(x, k, v) == Becomes(x, Added(entries[x], <<k, v>>))
Erase(x, k) == \E i \in DOMAIN entries[x] :
                  entries[x][i][1] = k /\ Becomes(x, RemoveAt(entries[x], i))
AssignList(x, list) == Becomes(x, FoldLeft(Added, << >>, list))
Clear(x) == Becomes(x, << >>)

(* Any order of the same entries.                                          *)
Sort(x) == LET here == DOMAIN entries[x] IN
           \E order \in [here -> here] :
              /\ \A i \in here : \E j \in here : order[j] = i
              /\ Becomes(x, [i \in here |-> entries[x][order[i]]])

(* What x is given is what y has, or nothing if they are the same.         *)
Copy(x, y) == Becomes(x, IF x = y THEN << >> ELSE entries[y])

(* As Copy, and another y keeps its keys.                                  *)
Move(x, y) ==
    IF x = y THEN Clear(x)
    ELSE entries' = [entries EXCEPT ![x] = entries[y],
                                    ![y] = [i \in DOMAIN entries[y] |-> <<entries[y][i][1], Moved>>]]

Next == \E x \in Maps : \/ \E k \in Keys : Erase(x, k) \/ \E v \in Values : Emplace(x, k, v)
                        \/ \E list \in Lists : AssignList(x, list)
                        \/ Clear(x) \/ Sort(x)
                        \/ \E y \in Maps : Copy(x, y) \/ Move(x, y)

Spec == Init /\ [][Next]_entries
=============================================================================
