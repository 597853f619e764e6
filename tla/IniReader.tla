----------------------------- MODULE IniReader -----------------------------
(***************************************************************************)
(* INIReader: a parser that goes through the lines of a file and a map of  *)
(* sections and names. A line is a record: what it is after white space    *)
(* and comments are taken off, whether it was indented, its name and value *)
(* (of a section line, the section), and its whole text. While a name is   *)
(* known, any indented line but a comment or a blank one continues its     *)
(* value. Names that differ in case are one. No name, section or line is   *)
(* too long for its buffer. The handler never fails.                       *)
(***************************************************************************)
EXTENDS Integers, Sequences, SequencesExt

CONSTANTS Files,    \* sequences of lines
          Sections, Names, NoName \* NoName is the empty string

(* A broken line is a section without ] or neither of = and : in it.       *)
IsLine(l) == /\ l.kind \in {"comment", "blank", "section", "pair", "broken"}
             /\ l.indented \in BOOLEAN

IniReaderAssumption == \A f \in Files : f \in Seq(ToSet(f)) /\ \A i \in DOMAIN f : IsLine(f[i])

VARIABLES init,   \* _init
          error,  \* _error
          values, \* _values: <<section, name, the lines of the value>>
          file,   \* the file that is parsed, or was parsed last
          line,   \* lineno, while a file is parsed
          section, prev_name

vars == <<init, error, values, file, line, section, prev_name>>

Init == /\ init = FALSE /\ error = -1 /\ values = {}
        /\ file = << >> /\ line = 0
        /\ section = NoName /\ prev_name = NoName

Outside == line = 0

(* Load(filename), and the constructors; fopen_s may fail, -1, and so may  *)
(* the allocation of the line, -2.                                         *)
LoadMissing == /\ Outside /\ ~init
               /\ error' \in {-1, -2} /\ init' = TRUE
               /\ UNCHANGED <<values, file, line, section, prev_name>>

(* A variant that loads whatever was loaded before.                        *)
LoadStartAgain(f) == /\ Outside
                     /\ file' = f /\ line' = 1 /\ error' = 0
                     /\ section' = NoName /\ prev_name' = NoName
                     /\ UNCHANGED <<init, values>>

LoadStart(f) == /\ Outside /\ ~init
                /\ file' = f /\ line' = 1 /\ error' = 0
                /\ section' = NoName /\ prev_name' = NoName
                /\ UNCHANGED <<init, values>>

(* A second Load does nothing, whether the first found its file or not.    *)
LoadIgnored == Outside /\ init /\ UNCHANGED vars

(* ValueHandler: the values of a name are joined.                          *)
Handle(name, value) ==
    LET old == {e \in values : e[1] = section /\ e[2] = name} IN
    values' = IF old = {} THEN values \cup {<<section, name, <<value>>>>}
              ELSE (values \ old) \cup {<<section, name, Append(e[3], value)>> : e \in old}

Fail == error' = IF error = 0 THEN line ELSE error

Continues(l) == prev_name # NoName /\ l.indented /\ l.kind \notin {"comment", "blank"}

Parse ==
    LET l == file[line] IN
    /\ ~Outside /\ line <= Len(file)
    /\ \/ Continues(l) /\ Handle(prev_name, l.text) /\ UNCHANGED <<error, section, prev_name>>
       \/ /\ ~Continues(l)
          /\ \/ l.kind \in {"comment", "blank"} /\ UNCHANGED <<error, values, section, prev_name>>
             \/ /\ l.kind = "section"
                /\ section' = l.name /\ prev_name' = NoName
                /\ UNCHANGED <<error, values>>
             \/ /\ l.kind = "pair"
                /\ prev_name' = l.name /\ Handle(l.name, l.value)
                /\ UNCHANGED <<error, section>>
             \/ l.kind = "broken" /\ Fail /\ UNCHANGED <<values, section, prev_name>>
    /\ line' = line + 1
    /\ UNCHANGED <<init, file>>

LoadEnd == /\ ~Outside /\ line = Len(file) + 1
           /\ line' = 0 /\ init' = TRUE
           /\ UNCHANGED <<error, values, file, section, prev_name>>

Clear == Outside /\ values' = {} /\ UNCHANGED <<init, error, file, line, section, prev_name>>

RemoveSection(s) == /\ Outside
                    /\ values' = {e \in values : e[1] # s}
                    /\ UNCHANGED <<init, error, file, line, section, prev_name>>

Next == \/ LoadMissing \/ LoadIgnored \/ Parse \/ LoadEnd \/ Clear
        \/ \E f \in Files : LoadStart(f)
        \/ \E s \in Sections : RemoveSection(s)

Spec == Init /\ [][Next]_vars

-----------------------------------------------------------------------------
(* The meaning of a file f, told without the parser: the head of a line is *)
(* the last pair or section at or before it that does not itself continue  *)
(* the value of a name.                                                    *)
Named(f, i) == i # 0 /\ f[i].kind = "pair" /\ f[i].name # NoName

Heads(f) ==
    LET head[i \in 0..Len(f)] ==
          IF i = 0 THEN 0
          ELSE IF f[i].kind \in {"section", "pair"} /\ ~(f[i].indented /\ Named(f, head[i - 1]))
          THEN i ELSE head[i - 1]
    IN  head

Continued(f, i) == /\ f[i].indented /\ f[i].kind \notin {"comment", "blank"}
                   /\ Named(f, Heads(f)[i - 1])

SectionOf(f, i) == LET heads == {j \in 1..i : f[j].kind = "section" /\ Heads(f)[j] = j}
                   IN  IF heads = {} THEN NoName
                       ELSE f[CHOOSE j \in heads : \A h \in heads : h <= j].name

Says(f, i, s, n) == /\ Continued(f, i) \/ (Heads(f)[i] = i /\ f[i].kind = "pair")
                    /\ SectionOf(f, i) = s /\ f[Heads(f)[i]].name = n

Text(f, i) == IF Continued(f, i) THEN f[i].text ELSE f[i].value

(* What the first i lines say of a name.                                   *)
Told(f, s, n) ==
    LET told[i \in 0..Len(f)] ==
          IF i = 0 THEN << >>
          ELSE IF Says(f, i, s, n) THEN Append(told[i - 1], Text(f, i)) ELSE told[i - 1]
    IN  told

Broken(f, i) == {j \in 1..i : f[j].kind = "broken" /\ ~Continued(f, j)}

(* The lines that were parsed.                                             *)
Parsed == IF Outside THEN Len(file) ELSE line - 1

(* _error is of the file; every value is of it too, with all that the      *)
(* lines so far say of its name, in their order; none is missing while the *)
(* parser runs and when it ends. No second file is joined to a first, a    *)
(* value goes on across comments, blank lines and errors, and no error     *)
(* hides what comes after it                                               *)
(* (INIReader.h:44-46, INIReader.cpp:98-149, 190-196, 332-348).            *)
ValuesOfOneFile ==
    /\ \/ error \in {-1, -2} /\ values = {}
       \/ error = 0 /\ Broken(file, Parsed) = {}
       \/ error \in Broken(file, Parsed) /\ \A i \in Broken(file, Parsed) : error <= i
    /\ \A e \in values : e[3] = Told(file, e[1], e[2])[Parsed] /\ e[3] # << >>
    /\ ~Outside => \A i \in 1..Parsed, s \in Sections, n \in Names :
                     Says(file, i, s, n) => \E e \in values : e[1] = s /\ e[2] = n
=============================================================================
