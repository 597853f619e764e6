----------------------------- MODULE MCLoading -----------------------------
(* What the program takes in from outside and what a broken or old source  *)
(* can do to it: the file of addresses, an ini file, the records of a      *)
(* save, the interfaces of the script extender, the clock. A behaviour is  *)
(* one of the five.                                                        *)
(*                                                                         *)
(* Addresses: words of 32, a byte of 2, a short of 4, so that two entries  *)
(* wrap around and repeat an id; a query is of 4 in one edition and of any *)
(* id in the other, and adds nothing or -3. Ini: every file of at most     *)
(* three lines of eight, and two long ones. Save: two records, data of one *)
(* and two bytes. Plugin: three interfaces, each missing, too old or good; *)
(* sizes below, at and above the unit of allocation, and 0. Timer:         *)
(* intervals of 0 and 2 up to a time of 4.                                 *)
EXTENDS Integers, Sequences, SequencesExt

CONSTANTS Byte, Short, Dword, Word, Pairs, MaxPairs, PtrSize, Garbage, Base, Queries, None,
          Files, Sections, Names, NoName,
          Data, Size, LenBytes, MaxSize, MaxRecords, d1, d2,
          Interfaces, Trampoline, Compiled, Versions, Granularities, Sizes,
          Intervals, MaxTime, MaxCounter

VARIABLES loadingPart,
          dbStep, cut, size, scale, dbAt, pvid, poffset, db, base, isAE, loaded, bad,
          written, before, asked, offset, answer,
          init, error, values, file, line, section, prev_name,
          saveStep, records, pending, saveAt, compressedSize, buffer, outcome,
          accepted, offers, granularity, sizes, logOpen, m_pluginHandle, m_interfaces,
          asking, m_trampolines, result,
          now, m_interval, m_tIntervalBegin, m_tStart, m_tCounter, m_tAccum, m_tInterval, m_tLast,
          reports, least, most

Db == INSTANCE VersionDb WITH step <- dbStep, at <- dbAt
Ini == INSTANCE IniReader
Save == INSTANCE Serialization WITH step <- saveStep, at <- saveAt
Plugin == INSTANCE PluginLoad
Timer == INSTANCE PerfTimer

ASSUME LoadingAssumption ==
    /\ Db!VersionDbAssumption /\ Ini!IniReaderAssumption
    /\ Save!SerializationAssumption /\ Plugin!PluginLoadAssumption
    /\ Timer!PerfTimerAssumption

MCPairs == {<<1, 0>>, <<2, 6>>, <<9, 3>>, <<4, 12>>, <<31, 31>>, <<17, 30>>}
MCIds == {0} \cup {pair[1] : pair \in MCPairs}
MCQueries == {q \in MCIds \X MCIds \X {0, -3} \X {0, -3} :
                 4 \in {q[1], q[2]} /\ 0 \in {q[3], q[4]}}

Line(kind, indented, name, value, text) ==
    [kind |-> kind, indented |-> indented, name |-> name, value |-> value, text |-> text]
Pair(indented, name, value) == Line("pair", indented, name, value, "text " \o value)
Section(indented, name) == Line("section", indented, name, "", "text " \o name)
Other(kind, indented) == Line(kind, indented, "", "", "text")
MCLines == {Pair(FALSE, "x", "1"), Pair(TRUE, "y", "2"), Pair(FALSE, "", "3"),
            Section(FALSE, "A"), Section(TRUE, "B"),
            Other("broken", TRUE), Other("broken", FALSE), Other("comment", TRUE)}
MCFiles ==
    BoundedSeq(MCLines, 3) \cup
    {<<Section(FALSE, "A"), Pair(FALSE, "x", "1"), Other("blank", FALSE), Other("broken", TRUE),
       Other("broken", FALSE), Section(FALSE, "B"), Pair(TRUE, "y", "2"), Section(FALSE, "A"),
       Pair(FALSE, "x", "4")>>,
     <<Pair(TRUE, "x", "1"), Pair(TRUE, "y", "2"), Section(TRUE, "A"), Section(FALSE, "B"),
       Pair(FALSE, "", "3"), Section(TRUE, "A"), Pair(TRUE, "y", "2"), Other("broken", FALSE)>>}

MCSize == [d \in {d1, d2} |-> IF d = d1 THEN 1 ELSE 2]
MCInterfaces == <<"messaging", "serialization", "trampoline">>
MCCompiled == [i \in ToSet(MCInterfaces) |-> 2]
MCSizes == {<<0, 0>>, <<3, 0>>, <<0, 8>>, <<4, 9>>}

dbVars == <<dbStep, cut, size, scale, dbAt, pvid, poffset, db, base, isAE, loaded, bad,
            written, before, asked, offset, answer>>
iniVars == <<init, error, values, file, line, section, prev_name>>
saveVars == <<saveStep, records, pending, saveAt, compressedSize, buffer, outcome>>
pluginVars == <<accepted, offers, granularity, sizes, logOpen, m_pluginHandle, m_interfaces,
                asking, m_trampolines, result>>
timerVars == <<now, m_interval, m_tIntervalBegin, m_tStart, m_tCounter, m_tAccum, m_tInterval,
               m_tLast, reports, least, most>>
loadingVars == <<loadingPart, dbVars, iniVars, saveVars, pluginVars, timerVars>>

LoadingInit ==
    /\ loadingPart \in {"addresses", "ini", "save", "plugin", "timer"}
    /\ Db!Init /\ Ini!Init /\ Save!Init /\ Plugin!Init /\ Timer!Init
    /\ loadingPart # "addresses" => size = 0 /\ cut = 0 /\ ~isAE
    /\ loadingPart # "plugin" => /\ ~accepted /\ granularity = 0 /\ sizes = <<0, 0>>
                                 /\ \A i \in DOMAIN offers : offers[i] = None
    /\ loadingPart # "timer" => now = 0 /\ m_interval = 0

DbStep == /\ loadingPart = "addresses" /\ Db!Next
          /\ UNCHANGED <<loadingPart, iniVars, saveVars, pluginVars, timerVars>>
IniStep == /\ loadingPart = "ini" /\ Ini!Next
           /\ UNCHANGED <<loadingPart, dbVars, saveVars, pluginVars, timerVars>>
SaveStep == /\ loadingPart = "save" /\ Save!Next
            /\ UNCHANGED <<loadingPart, dbVars, iniVars, pluginVars, timerVars>>
PluginStep == /\ loadingPart = "plugin" /\ Plugin!Next
              /\ UNCHANGED <<loadingPart, dbVars, iniVars, saveVars, timerVars>>
TimerStep == /\ loadingPart = "timer" /\ Timer!Next
             /\ UNCHANGED <<loadingPart, dbVars, iniVars, saveVars, pluginVars>>

LoadingNext == DbStep \/ IniStep \/ SaveStep \/ PluginStep \/ TimerStep

LoadingSpec == LoadingInit /\ [][LoadingNext]_loadingVars

(* A file of addresses is read as it was meant as far as it is whole, a    *)
(* failed load leaves nothing that resolves, and an address out of a whole *)
(* file is that of the id and the offset of the edition                    *)
(* (versiondb.h:165-321, AddressLibrary.h:176-232).                        *)
AddressesAsMeant == Db!TypeOK /\ Db!LoadsExactly /\ Db!AddressesMeant

(* INIReader.cpp:53-201: the values are those of one file, whole, and the  *)
(* error is its first.                                                     *)
ValuesOfOneFile == Ini!ValuesOfOneFile

(* Serialization.cpp:11-189: Load is given what Store gave, or nothing.    *)
AllOrNothing == Save!AllOrNothing

(* ISKSE.h:152-244, 316-410: what QueryInterfaces and CreateTrampolines    *)
(* returned is what there is of interfaces and trampolines, these as large *)
(* as asked for and in whole units.                                        *)
PluginReady == Plugin!InterfacesGood /\ Plugin!TrampolinesGood

(* PerfCounter.h:128-174: a report is an average of the times since the    *)
(* one before it.                                                          *)
Averages == Timer!Averages
=============================================================================
