--------------------------- MODULE Serialization ---------------------------
(***************************************************************************)
(* ISerializationBase: a record in the save of the host is a length and    *)
(* compressed data. The host is external: its writes may fail and leave a  *)
(* part of what was to be written, its file may lose an end, its reads     *)
(* return what the record still has. A body is a sequence of bytes: the    *)
(* pieces of the length, then those of the data; a byte of garbage is no   *)
(* piece of anything. Data is a model value with a compressed size; it     *)
(* decompresses if it is whole, else the check sum of gzip fails. Memory   *)
(* ends only at sizes that no data has.                                    *)
(***************************************************************************)
EXTENDS Integers, Sequences, SequencesExt

CONSTANTS Data,
          Size,     \* compressed size of data, in bytes
          LenBytes, \* sizeof(compressedSize)
          MaxSize,  \* largest value of compressedSize
          MaxRecords

SerializationAssumption == /\ Size \in [Data -> 1..MaxSize - 1] /\ LenBytes \in Nat \ {0}
                           /\ MaxSize \in Nat /\ MaxRecords \in Nat
                           /\ Data \cap {"refused", "partial", "thrown"} = {}

VARIABLES step,    \* of WriteRecord or ReadRecord; idle outside
          records, \* of the save: [data, body, written, cut]; data is what
                   \*   Store gave, written what WriteRecord returned, cut what
                   \*   the host lost
          pending, \* what Store gave to the running WriteRecord
          at,      \* the record that is read
          compressedSize, buffer, \* of ReadRecord
          outcome  \* what became of each record that was read

readVars == <<at, compressedSize, buffer, outcome>>
vars == <<step, records, pending, readVars>>

Init == /\ step = "idle" /\ records = << >> /\ pending = << >>
        /\ at = 0 /\ compressedSize = 0 /\ buffer = << >> /\ outcome = << >>

LengthOf(d) == [i \in 1..LenBytes |-> <<"length", Size[d], i>>]
BytesOf(d) == [i \in 1..Size[d] |-> <<d, i>>]
Whole(d) == LengthOf(d) \o BytesOf(d)

last == records[Len(records)]
SetLast(r) == records' = [records EXCEPT ![Len(records)] = r]

(* The host writes what it is given, or fails after a part of it.          *)
HostWrites(bytes) == SetLast([last EXCEPT !.body = @ \o bytes])
HostFails(bytes) == \E n \in 0..Len(bytes) - 1 : HostWrites(SubSeq(bytes, 1, n))

-----------------------------------------------------------------------------
(* WriteRecord begins with Store, which may throw or write nothing, and    *)
(* the compression, which may throw. Then nothing has been opened.         *)
StoreFails == step = "idle" /\ at = 0 /\ UNCHANGED vars

StoreData(d) == /\ step = "idle" /\ at = 0 /\ Len(records) < MaxRecords
                /\ step' = "open" /\ pending' = d
                /\ UNCHANGED <<records, readVars>>

OpenRecord ==
    /\ step = "open"
    /\ \/ step' = "idle" /\ UNCHANGED records
       \/ /\ step' = "length"
          /\ records' = Append(records, [data |-> pending, body |-> << >>, written |-> FALSE,
                                         cut |-> FALSE])
    /\ UNCHANGED <<pending, readVars>>

WriteLength == /\ step = "length"
               /\ \/ step' = "data" /\ HostWrites(LengthOf(pending))
                  \/ step' = "idle" /\ HostFails(LengthOf(pending))
               /\ UNCHANGED <<pending, readVars>>

(* A variant that does not look at what the host returns.                  *)
WriteDataUnchecked ==
    /\ step = "data" /\ step' = "idle"
    /\ \E n \in 0..Size[pending] :
         SetLast([last EXCEPT !.body = @ \o SubSeq(BytesOf(pending), 1, n), !.written = TRUE])
    /\ UNCHANGED <<pending, readVars>>

WriteData == /\ step = "data" /\ step' = "idle"
             /\ \/ SetLast([last EXCEPT !.body = @ \o BytesOf(pending), !.written = TRUE])
                \/ HostFails(BytesOf(pending))
             /\ UNCHANGED <<pending, readVars>>

(* The file of the host loses the end of its last record.                  *)
LoseEnd == /\ step = "idle" /\ at = 0 /\ records # << >>
           /\ \E n \in 0..Len(last.body) - 1 :
                SetLast([last EXCEPT !.body = SubSeq(@, 1, n), !.cut = TRUE])
           /\ UNCHANGED <<step, pending, readVars>>

-----------------------------------------------------------------------------
(* The host comes to the next record and the plugin calls ReadRecord.      *)
NextRecord == /\ step = "idle" /\ at < Len(records)
              /\ at' = at + 1 /\ step' = "readlength"
              /\ UNCHANGED <<records, pending, compressedSize, buffer, outcome>>

Ends(o) == step' = "idle" /\ outcome' = Append(outcome, o)

body == records[at].body

(* Only a read of nothing is a failure. What is not read of the variable   *)
(* is not initialized.                                                     *)
ReadLength ==
    /\ step = "readlength"
    /\ \/ body = << >> /\ Ends("refused") /\ UNCHANGED compressedSize
       \/ /\ body # << >>
          /\ IF Len(body) < LenBytes THEN compressedSize' \in 0..MaxSize
                                     ELSE compressedSize' = body[1][2]
          /\ \/ compressedSize' = 0 /\ Ends("refused")
             \/ compressedSize' # 0 /\ step' = "readdata" /\ UNCHANGED outcome
    /\ UNCHANGED <<records, pending, at, buffer>>

(* make_unique_for_overwrite throws outside of any try block.              *)
AllocationThrows == /\ step = "readdata" /\ compressedSize = MaxSize
                    /\ Ends("thrown")
                    /\ UNCHANGED <<records, pending, at, compressedSize, buffer>>

ReadData == /\ step = "readdata"
            /\ IF Len(body) - LenBytes < compressedSize
                 THEN Ends("refused") /\ UNCHANGED buffer
                 ELSE /\ buffer' = SubSeq(body, LenBytes + 1, LenBytes + compressedSize)
                      /\ step' = "load" /\ UNCHANGED outcome
            /\ UNCHANGED <<records, pending, at, compressedSize>>

Decompressed == {d \in Data : buffer = BytesOf(d)}

(* Load may throw with a part of its work done.                            *)
LoadData == /\ step = "load"
            /\ \/ Decompressed = {} /\ Ends("refused")
               \/ \E d \in Decompressed : Ends(d) \/ Ends("partial")
            /\ UNCHANGED <<records, pending, at, compressedSize, buffer>>

Next == \/ StoreFails \/ OpenRecord \/ WriteLength \/ WriteData \/ LoseEnd
        \/ NextRecord \/ ReadLength \/ AllocationThrows \/ ReadData \/ LoadData
        \/ \E d \in Data : StoreData(d)

Spec == Init /\ [][Next]_vars

-----------------------------------------------------------------------------
(* Load is given all of what Store gave for the same record or nothing. A  *)
(* record for which WriteRecord returned true is refused only if the host  *)
(* lost a part of it; one for which it returned false is never loaded; a   *)
(* throw that nothing here catches needs a length that is not whole        *)
(* (Serialization.cpp:83-98, 117-182).                                     *)
AllOrNothing ==
    \A i \in DOMAIN outcome :
      LET r == records[i] IN
      /\ outcome[i] \in Data => outcome[i] = r.data /\ r.body = Whole(r.data)
      /\ outcome[i] \in Data \cup {"partial"} <=> r.written /\ ~r.cut
      /\ outcome[i] = "thrown" => Len(r.body) \in 1..LenBytes - 1
=============================================================================
