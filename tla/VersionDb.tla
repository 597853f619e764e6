----------------------------- MODULE VersionDb -----------------------------
(***************************************************************************)
(* VersionDb, which reads the file of addresses, and IAL, which looks them *)
(* up. Ids and offsets are deltas from the entry before, added and         *)
(* subtracted in 64 bits; an offset may be in units of a pointer. Widths   *)
(* are constants. The writer is external: for each pair it takes any code  *)
(* that can express the pair without wrapping. A file may end early: a     *)
(* read then leaves its variable uninitialized, any value here, and        *)
(* nothing looks at the state of the stream.                               *)
(***************************************************************************)
EXTENDS Integers

CONSTANTS Byte, Short, Dword, Word, \* one more than the largest of the type
          Pairs,    \* ids and offsets that the writer may write
          MaxPairs, \* bound: entries in a file
          PtrSize,
          Garbage,  \* values of uninitialized variables
          Base,     \* address of the module
          Queries,  \* ids of the two editions, and what each adds to the address
          None

VersionDbAssumption ==
    /\ {Byte, Short, Dword, Word, PtrSize, Base} \subseteq Nat \ {0}
    /\ MaxPairs \in Nat
    /\ Byte < Short /\ Short < Dword /\ Dword < Word
    /\ Pairs \subseteq (1..Word - 1) \X (0..Word - 1)
    /\ Garbage \subseteq 0..Word - 1 /\ None \notin 0..Word
    /\ Queries \subseteq (0..Word - 1) \X (0..Word - 1) \X Int \X Int

VARIABLES step,    \* start, entries, end, released, divided or dereferenced
          cut,     \* how many entries of the file are whole, -1 for a file that
                   \*   ends in its header
          size,    \* addrCount
          scale,   \* ptrSize
          at,      \* i
          pvid, poffset,
          db,      \* _data: offsets by id
          base,    \* _base
          isAE, loaded, \* m_isAE, m_isLoaded
          bad,     \* m_hasBadQuery
          written, before, \* what the writer meant, and its last pair
          asked, offset, answer \* the last query

queryVars == <<bad, asked, offset, answer>>
writerVars == <<written, before>>
vars == <<step, cut, size, scale, at, pvid, poffset, db, base, isAE, loaded, writerVars,
          queryVars>>

Nowhere == [id \in 0..Word - 1 |-> None]

Init == /\ step = "start" /\ size \in 0..MaxPairs /\ cut \in -1..size
        /\ isAE \in BOOLEAN /\ scale = 0 /\ at = 0 /\ pvid = 0 /\ poffset = 0
        /\ db = Nowhere /\ base = 0
        /\ loaded = FALSE /\ bad = FALSE
        /\ written = Nowhere /\ before = <<0, 0>>
        /\ asked = None /\ offset = 0 /\ answer = 0

(* What a code makes of an argument and the value before.                  *)
Value(code, prev, arg) ==
    CASE code \in {0, 6, 7} -> arg
      [] code = 1 -> (prev + 1) % Word
      [] code \in {2, 4} -> (prev + arg) % Word
      [] code \in {3, 5} -> (prev - arg) % Word

(* The arguments with which a code of the file says v.                     *)
Arguments(code, prev, v) ==
    CASE code = 0 -> {v}
      [] code = 1 -> IF v = prev + 1 THEN {0} ELSE {}
      [] code \in {2, 4} -> (0..(IF code = 2 THEN Byte ELSE Short) - 1) \cap {v - prev}
      [] code \in {3, 5} -> (0..(IF code = 3 THEN Byte ELSE Short) - 1) \cap {prev - v}
      [] code \in {6, 7} -> (0..(IF code = 6 THEN Short ELSE Dword) - 1) \cap {v}

-----------------------------------------------------------------------------
(* The version is unknown, the file is not there or of another format.     *)
LoadNothing == /\ step = "start"
               /\ step' = "end"
               /\ UNCHANGED <<cut, size, scale, at, pvid, poffset, db, base, isAE, loaded,
                              writerVars, queryVars>>

(* After the versions: the length of a name that is skipped, ptrSize and   *)
(* addrCount.                                                              *)
ReadHeader ==
    /\ step = "start"
    /\ \/ /\ cut = -1               \* tnLen is out of its range
          /\ step' = "end" /\ UNCHANGED <<base, size, scale>>
       \/ /\ step' = "entries" /\ base' = Base
          /\ IF cut = -1 THEN size' \in 0..MaxPairs /\ scale' \in Garbage
                         ELSE scale' = PtrSize /\ UNCHANGED size
    /\ UNCHANGED <<cut, at, pvid, poffset, db, isAE, loaded, writerVars, queryVars>>

Units(units) == IF units THEN scale ELSE 1

(* A variant that keeps the offset in units for the next entry.            *)
DecodeUnscaled(low, arg, high, arg2, units) ==
    LET value == Value(high, poffset \div Units(units), arg2)
        q1 == Value(low, pvid, arg)
    IN  /\ db' = [db EXCEPT ![q1] = (value * Units(units)) % Word]
        /\ pvid' = q1 /\ poffset' = value /\ at' = at + 1

(* One round of the loop, with what was read.                              *)
Decode(low, arg, high, arg2, units) ==
    LET q1 == Value(low, pvid, arg)
        q2 == (Value(high, poffset \div Units(units), arg2) * Units(units)) % Word
    IN  /\ db' = [db EXCEPT ![q1] = q2]
        /\ pvid' = q1 /\ poffset' = q2 /\ at' = at + 1

Reading == step = "entries" /\ at < size

ReadEntry ==
    /\ Reading /\ at < cut
    /\ \E pair \in Pairs, low \in 0..7, high \in 0..7, units \in BOOLEAN :
         LET unit == IF units THEN PtrSize ELSE 1 IN
         /\ pair[2] % unit = 0
         /\ \E arg \in Arguments(low, before[1], pair[1]),
              arg2 \in Arguments(high, before[2] \div unit, pair[2] \div unit) :
              Decode(low, arg, high, arg2, units)
         /\ written' = [written EXCEPT ![pair[1]] = pair[2]] /\ before' = pair
    /\ UNCHANGED <<step, cut, size, scale, base, isAE, loaded, queryVars>>

(* The type and the arguments are whatever was in their variables. A type  *)
(* that is out of its range clears the map.                                *)
ReadGarbage ==
    /\ Reading /\ at >= cut
    /\ \E low \in 0..8, high \in 0..7, units \in BOOLEAN, arg, arg2 \in Garbage :
         IF low = 8
           THEN /\ step' = "end" /\ db' = Nowhere /\ base' = 0
                /\ UNCHANGED <<at, pvid, poffset>>
           ELSE IF units /\ scale = 0
           THEN step' = "divided" /\ UNCHANGED <<db, base, at, pvid, poffset>>
           ELSE Decode(low, arg, high, arg2, units) /\ UNCHANGED <<step, base>>
    /\ UNCHANGED <<cut, size, scale, isAE, loaded, writerVars, queryVars>>

LoadEnd == /\ step = "entries" /\ at = size
           /\ step' = "end" /\ loaded' = TRUE
           /\ UNCHANGED <<cut, size, scale, at, pvid, poffset, db, base, isAE, writerVars,
                    queryVars>>

(* IAL::Release: the database is gone.                                     *)
Release == /\ step = "end"
           /\ step' = "released" /\ loaded' = FALSE
           /\ UNCHANGED <<cut, size, scale, at, pvid, poffset, db, base, isAE, writerVars,
                    queryVars>>

FindAddressById(id) == IF base = 0 \/ db[id] = None THEN 0 ELSE (base + db[id]) % Word

(* AddrImpl: the id and the offset of the edition of the game; 0 is no    *)
(* query. The overload without offsets is the query with offsets of 0.     *)
Addr(se, ae, offsetSe, offsetAe) ==
    LET id == IF isAE THEN ae ELSE se
        found == FindAddressById(id) IN
    /\ step \in {"end", "released"}
    /\ IF step = "released" /\ id # 0
         THEN step' = "dereferenced" /\ UNCHANGED queryVars
         ELSE /\ asked' = id /\ offset' = IF isAE THEN offsetAe ELSE offsetSe
              /\ answer' = IF id = 0 \/ found = 0 THEN 0 ELSE (found + offset') % Word
              /\ bad' = (bad \/ (id # 0 /\ found = 0))
              /\ UNCHANGED step
    /\ UNCHANGED <<cut, size, scale, at, pvid, poffset, db, base, isAE, loaded, writerVars>>

Next == \/ LoadNothing \/ ReadHeader \/ ReadEntry \/ ReadGarbage \/ LoadEnd \/ Release
        \/ \E q \in Queries : Addr(q[1], q[2], q[3], q[4])

Spec == Init /\ [][Next]_vars

-----------------------------------------------------------------------------
TypeOK == /\ db \in [0..Word - 1 -> (0..Word - 1) \cup {None}]
          /\ at \in 0..size /\ cut \in -1..MaxPairs
          /\ pvid \in 0..Word - 1 /\ poffset \in 0..Word - 1

(* The entries before the end of a file are read as they were meant,       *)
(* whatever codes they were written with, and the last entry of an id      *)
(* counts; so a whole file is, and a load that fails anywhere leaves       *)
(* nothing that resolves. A file that was cut may load: what its missing   *)
(* entries then hold is not promised (versiondb.h:165-321).                *)
LoadsExactly ==
    /\ step = "entries" /\ at <= cut => db = written
    /\ step = "end" => \/ loaded /\ (cut = size => db = written)
                       \/ ~loaded /\ \A id \in DOMAIN db : FindAddressById(id) = 0

(* An address out of a whole file is that of the id, moved by the offset   *)
(* of the query; no query that failed goes unnoticed, 0 is then no sum;    *)
(* only a file without a pointer size divides by 0, and only a query after *)
(* Release finds no database (AddressLibrary.h:176-232,                    *)
(* versiondb.h:68-90).                                                     *)
AddressesMeant ==
    /\ answer # 0 /\ cut = size => /\ asked # 0 /\ written[asked] # None
                                   /\ answer = (Base + written[asked] + offset) % Word
    /\ ~bad /\ asked \notin {None, 0} => answer # 0 \/ offset # 0
    /\ step = "divided" => cut = -1
    /\ step = "dereferenced" => ~loaded
=============================================================================
