------------------------------ MODULE FlatMap ------------------------------
(***************************************************************************)
(* stl::map of Map.h: the entries in a vector, sorted by key. Every        *)
(* operation looks for its key with std::upper_bound and std::less_equal,  *)
(* which finds the first entry whose key is not below the one looked for,  *)
(* if the vector is sorted and no key is there twice. Positions are        *)
(* counted from 1, end() is one past the last. Set.h is the same without   *)
(* values.                                                                 *)
(***************************************************************************)
EXTENDS Integers, Sequences, SequencesExt

CONSTANTS Keys, Values,
          Default, \* mapped_type()
          Lists,   \* what initializer lists and archives hold
          Absent

FlatMapAssumption ==
    /\ Keys \subseteq Nat /\ Default \in Values /\ Absent \notin Values
    /\ Lists \subseteq Seq(Keys \X Values)

VARIABLES data,
          ret   \* the entry that the last call's iterator refers to

vars == <<data, ret>>

End(d) == Len(d) + 1
At(d, i) == IF i = End(d) THEN Absent ELSE d[i]

(* A variant with the usual comparison, std::less.                         *)
UpperBoundLess(d, k) == LET above == {i \in DOMAIN d : k < d[i][1]}
                        IN  IF above = {} THEN End(d)
                            ELSE CHOOSE i \in above : \A j \in above : i <= j

(* std::upper_bound with std::less_equal.                                  *)
UpperBound(d, k) == LET from == {i \in DOMAIN d : k <= d[i][1]}
                    IN  IF from = {} THEN End(d)
                        ELSE CHOOSE i \in from : \A j \in from : i <= j

(* it != data.end() && it->first == a_key                                  *)
Hit(d, k) == UpperBound(d, k) # End(d) /\ d[UpperBound(d, k)][1] = k

find(d, k) == IF Hit(d, k) THEN UpperBound(d, k) ELSE End(d)

(* emplace_impl and try_emplace_impl.                                      *)
Emplaced(d, e) == IF Hit(d, e[1]) THEN d ELSE InsertAt(d, UpperBound(d, e[1]), e)
EmplacedAll(d, list) == FoldLeft(Emplaced, d, list)

Init == data = << >> /\ ret = Absent

-----------------------------------------------------------------------------
Find(k) == ret' = At(data, find(data, k)) /\ UNCHANGED data
Begin == ret' = At(data, 1) /\ UNCHANGED data

Emplace(k, v) == /\ data' = Emplaced(data, <<k, v>>)
                 /\ ret' = At(data', UpperBound(data, k))

(* operator[], and at() that throws for a key that is not there.           *)
Index(k) == Emplace(k, Default)
AtKey(k) == Hit(data, k) /\ Find(k)

InsertOrAssign(k, v) ==
    /\ data' = IF Hit(data, k) THEN [data EXCEPT ![UpperBound(data, k)] = <<k, v>>]
               ELSE InsertAt(data, UpperBound(data, k), <<k, v>>)
    /\ ret' = At(data', UpperBound(data, k))

(* erase(a_it) returns the entry that took the place.                      *)
EraseAt(i) == /\ data' = RemoveAt(data, i)
              /\ ret' = At(data', i)

EraseKey(k) == IF Hit(data, k) THEN EraseAt(find(data, k))
               ELSE ret' = Absent /\ UNCHANGED data

Clear == data' = << >> /\ ret' = Absent

(* insert of a list; assignment, and load() of an archive, clear first.    *)
InsertList(list) == data' = EmplacedAll(data, list) /\ ret' = Absent
Load(list) == data' = EmplacedAll(<< >>, list) /\ ret' = Absent

Next == \/ Begin \/ Clear
        \/ \E k \in Keys : \/ Find(k) \/ Index(k) \/ AtKey(k) \/ EraseKey(k)
                           \/ \E v \in Values : Emplace(k, v) \/ InsertOrAssign(k, v)
        \/ \E i \in DOMAIN data : EraseAt(i)
        \/ \E list \in Lists : InsertList(list) \/ Load(list)

Spec == Init /\ [][Next]_vars

-----------------------------------------------------------------------------
TypeOK == data \in Seq(Keys \X Values) /\ ret \in (Keys \X Values) \cup {Absent}

(* The entries are sorted and no key is there twice, which upper_bound     *)
(* with less_equal needs (lines 105-115, 283-373).                          *)
Sorted == \A i \in 1..Len(data) - 1 : data[i][1] < data[i + 1][1]

(* The vector is a map: every call finds, adds, replaces and removes what  *)
(* a map with ordered keys would.                                          *)
mapBar == [k \in Keys |-> IF \E i \in DOMAIN data : data[i][1] = k
                            THEN data[CHOOSE i \in DOMAIN data : data[i][1] = k][2]
                            ELSE Absent]
Ordered == INSTANCE OrderedMap WITH map <- mapBar
IsMap == Ordered!Spec
=============================================================================
