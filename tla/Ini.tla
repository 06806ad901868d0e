-------------------------------- MODULE Ini --------------------------------
(***************************************************************************)
(* The configuration store (util_ini.c): sections and entries in linked    *)
(* lists, read from a file line by line, changed by the library's calls in *)
(* any order, and written back.  NVPlay itself only reads; a user of the   *)
(* library may do all of this, and looks entries up by the first match.    *)
(*                                                                         *)
(* A name is its rank in strcmp's order, 0 the empty one.  A file is the   *)
(* sequence of its lines as fgets hands them over, behind the byte order   *)
(* mark if it has one, and whether the last of them ends in a newline: a   *)
(* line of more than 1023 bytes is several of them.  No name is longer     *)
(* than the 127 bytes that sname and ename have room for (:315, :316).  A  *)
(* text is what the code tells apart in an entry's data: the numbers a     *)
(* setter prints, and words.  A number written in one form is not read in  *)
(* another.                                                                *)
(***************************************************************************)
EXTENDS Integers, Sequences, SequencesExt

CONSTANTS
  Sections,      (* names of sections, 0 among them                         *)
  Names,         (* names of entries, 0 among them                          *)
  Files,         (* files that may be read                                  *)
  Numbers,       (* values given to the setters of integers                 *)
  Radix,         (* of %lX: 16                                              *)
  Digits,        (* digits of each hexadecimal form: 4, 5 and 8             *)
  Byte,          (* number of values of a byte of a MAC address             *)
  Doubles,       (* what %lg writes: at most six digits, and a power of ten *)
  MaxCalls       (* bound: calls of the library in a behaviour              *)

HexForms == {"hex16", "hex20", "hex32"}
Word == Radix ^ Digits["hex32"]

(* A MAC address as the code keeps it: three bytes.                        *)
Addresses == Byte * Byte * Byte

ASSUME IniAssumption ==
  /\ Radix \in Nat \ {0, 1} /\ Byte \in Nat \ {0}
  /\ 0 \in Doubles /\ Doubles \subseteq Nat
  /\ DOMAIN Digits = HexForms
  /\ \A f \in HexForms : Digits[f] \in Nat \ {0}
  /\ 0 \in Sections /\ 0 \in Names
  /\ Sections \subseteq Nat /\ Names \subseteq Nat
  /\ Numbers \subseteq 0..(Word - 1)
  /\ MaxCalls \in Nat

VARIABLES
  up,       (* the client holds an ini_t                                    *)
  store,    (* its sections in list order                                   *)
  disk,     (* what ini_write has written last                              *)
  calls     (* calls so far                                                 *)

vars == <<up, store, disk, calls>>

-----------------------------------------------------------------------------
(* Texts, how the setters print them and how the getters read them         *)

Blank == [form |-> "word", value |-> ""]
Words == {"", "true", "false", "name", "quoted", ",5", ".5"}

(* %lg prints the nearest number that it can write; where two are as near, *)
(* either.                                                                 *)
Distance(v, w) == IF v <= w THEN w - v ELSE v - w
Rounded(v) ==
  CHOOSE r \in Doubles : \A q \in Doubles : Distance(v, r) <= Distance(v, q)

(* %li of a uint32_t prints the same digits as %li of the int32_t with its *)
(* bits, and %lu reads a negative number back into them.                   *)
(* Mutant: the byte above a MAC address is printed too.                    *)
Printed_Unmasked(form, v) ==
  CASE form \in {"int", "uint"} -> [form |-> "dec", value |-> v]
    [] form \in HexForms -> [form |-> "hex", value |-> v, width |-> Digits[form]]
    [] form = "mac" -> [form |-> "mac", value |-> v]
    [] form = "double" -> [form |-> "real", value |-> Rounded(v)]
    [] form = "string" -> [form |-> "word", value |-> v]
Printed(form, v) ==
  CASE form \in {"int", "uint"} -> [form |-> "dec", value |-> v]
    [] form \in HexForms -> [form |-> "hex", value |-> v, width |-> Digits[form]]
    [] form = "mac" -> [form |-> "mac", value |-> v % Addresses]
    [] form = "double" -> [form |-> "real", value |-> Rounded(v)]
    [] form = "string" -> [form |-> "word", value |-> v]

Setters == {"int", "uint", "mac", "double"} \union HexForms

(* What the setters store.                                                 *)
Given ==
  {Printed(f, v) : f \in Setters, v \in Numbers}
    \union {Printed("string", w) : w \in Words}

Texts ==
  [form : {"dec"}, value : 0..(Word - 1)]
    \union [form : {"real"}, value : Doubles]
    \union [form : {"hex"}, value : 0..(Word - 1), width : Range(Digits)]
    \union [form : {"mac"}, value : 0..(Addresses - 1)]
    \union [form : {"word"}, value : Words]

(* The digits that %0wlX prints: at least w, and more if they are needed.  *)
Length(text) ==
  IF text.value < Radix ^ text.width THEN text.width
  ELSE CHOOSE n \in text.width + 1 .. text.width + Digits["hex32"] :
         Radix ^ (n - 1) <= text.value /\ text.value < Radix ^ n

(* %0wlX reads no more than the first w digits.                            *)
Leading(text, w) ==
  IF Length(text) <= w THEN text.value
  ELSE text.value \div Radix ^ (Length(text) - w)

(* ini_section_get_int ... get_mac of a text: what sscanf does not find is *)
(* 0, the initial value.                                                   *)
(* Mutant: every hexadecimal number is read with the digits of a hex16.    *)
Scanned_Short(form, text) ==
  CASE form = "int" /\ text = Printed("string", "true") -> 1
    [] form \in {"int", "uint"} /\ text.form = "dec" -> text.value
    [] form \in HexForms /\ text.form = "hex" -> Leading(text, Digits["hex16"])
    [] form = "mac" /\ text.form = "mac" -> text.value
    [] form = "double" /\ text.form = "real" -> text.value
    [] OTHER -> 0
Scanned(form, text) ==
  CASE form = "int" /\ text = Printed("string", "true") -> 1
    [] form \in {"int", "uint"} /\ text.form = "dec" -> text.value
    [] form \in HexForms /\ text.form = "hex" -> Leading(text, Digits[form])
    [] form = "mac" /\ text.form = "mac" -> text.value
    [] form = "double" /\ text.form = "real" -> text.value
    [] OTHER -> 0

(* ini_strip_quotes: what follows a # goes, then quotes, then blanks.      *)
Strip(text) ==
  IF text = Printed("string", "quoted") THEN Printed("string", "name") ELSE text

-----------------------------------------------------------------------------
(* Sections and entries                                                    *)

Entry(name, data) == [name |-> name, data |-> data]
Section(name) == [name |-> name, entries |-> <<>>]

(* The two macros of the lists: at the end, and out of any place.          *)
list_add(list, new) == Append(list, new)
list_delete(list, i) == RemoveAt(list, i)

(* Entries without a name do not count.                                    *)
Named(entries) == SelectSeq(entries, LAMBDA e : e.name # 0)

(* Position of the first element with the name, 0 if there is none.        *)
Find(list, name) ==
  LET hits == {i \in DOMAIN list : list[i].name = name}
  IN  IF hits = {} THEN 0 ELSE Min(hits)

(* What ini_section_get_string finds for a key.                            *)
NoText == [form |-> "none"]
Lookup(sections, s, n) ==
  LET i == Find(sections, s)
      j == Find(sections[i].entries, n)
  IN  IF i = 0 THEN NoText ELSE IF j = 0 THEN NoText
      ELSE sections[i].entries[j].data

(* find_or_create_section, then find_entry or create_entry, then sprintf.  *)
WithSection(sections, s) ==
  IF Find(sections, s) # 0 THEN sections ELSE list_add(sections, Section(s))

WithEntry(entries, n, data) ==
  LET j == Find(entries, n)
  IN  IF j = 0 THEN list_add(entries, Entry(n, data))
      ELSE [entries EXCEPT ![j].data = data]

ToLast(sections, n, data) ==
  [sections EXCEPT ![Len(sections)].entries = list_add(@, Entry(n, data))]

-----------------------------------------------------------------------------
(* ini_read                                                                *)

Line(kind, name, data) == [kind |-> kind, name |-> name, data |-> data]
Lines ==
  [kind : {"section"}, name : Sections, data : {Blank}]
    \union [kind : {"entry"}, name : Names, data : Texts]
    \union [kind : {"open"}, name : Sections, data : {Blank}]
    \union [kind : {"incomplete", "comment"}, name : Names, data : Texts]

ASSUME FilesAssumption ==
  \A file \in Files : file.lines \in Seq(Lines) /\ file.ended \in BOOLEAN

(* What one line adds: a header that is closed begins a section; an entry  *)
(* goes to the last section, without asking whether its name is there      *)
(* already.  Comments, blank lines, headers that are not closed and names  *)
(* without a value ("incomplete") leave no trace.                          *)
(* Mutant: a header that is not closed begins a section as well.           *)
AddLine_Open(sections, line) ==
  CASE line.kind \in {"section", "open"} -> list_add(sections, Section(line.name))
    [] line.kind = "entry" -> ToLast(sections, line.name, line.data)
    [] OTHER -> sections
AddLine(sections, line) ==
  CASE line.kind = "section" -> list_add(sections, Section(line.name))
    [] line.kind = "entry" -> ToLast(sections, line.name, line.data)
    [] OTHER -> sections

(* The loop leaves when fgets has met the end of the file, and with it the *)
(* line it has just read if that has no newline.                           *)
LinesRead(file) == IF file.ended THEN file.lines ELSE Front(file.lines)

(* The sections after each line; there is always a first one, without a    *)
(* name.                                                                   *)
AfterLines(lines) ==
  LET after[k \in 0 .. Len(lines)] ==
        IF k = 0 THEN <<Section(0)>> ELSE AddLine(after[k - 1], lines[k])
  IN  after

Parsed(file) == AfterLines(LinesRead(file))[Len(LinesRead(file))]

-----------------------------------------------------------------------------
(* ini_write: it prints its uninitialised buffer temp where names belong.  *)
(* An empty value is written as "name = ", which is no entry when read.    *)

EntryLine(temp, e) ==
  Line(IF e.data = Blank THEN "incomplete" ELSE "entry", temp, e.data)

SectionLines(temp, sec) ==
  LET named == Named(sec.entries)
  IN  (IF sec.name = 0 THEN <<>> ELSE <<Line("section", temp, Blank)>>)
        \o [i \in 1..Len(named) |-> EntryLine(temp, named[i])]

Written(temp) ==
  [lines |-> FlattenSeq([i \in 1..Len(store) |-> SectionLines(temp, store[i])]),
   ended |-> TRUE]

-----------------------------------------------------------------------------
(* delete_section_if_empty                                                 *)

(* Entries i and j trade places if both have a name and j's is greater.    *)
(* Mutant: the outer entry is lost, not put in the other's place.          *)
Exchange_Lost(entries, i, j) ==
  IF /\ i # j /\ entries[i].name # 0 /\ entries[j].name # 0
     /\ entries[j].name > entries[i].name
  THEN [entries EXCEPT ![i] = entries[j]]
  ELSE entries
Exchange(entries, i, j) ==
  IF /\ i # j /\ entries[i].name # 0 /\ entries[j].name # 0
     /\ entries[j].name > entries[i].name
  THEN [entries EXCEPT ![i] = entries[j], ![j] = entries[i]]
  ELSE entries

(* The two nested loops over the list.                                     *)
InnerLoop(entries, i) ==
  LET after[j \in 0 .. Len(entries)] ==
        IF j = 0 THEN entries ELSE Exchange(after[j - 1], i, j)
  IN  after
OuterLoop(entries) ==
  LET after[i \in 0 .. Len(entries)] ==
        IF i = 0 THEN entries ELSE InnerLoop(after[i - 1], i)[Len(entries)]
  IN  after
Sorted(entries) == OuterLoop(entries)[Len(entries)]

(* Entries without a name are lost with their section.                     *)
IsEmpty(sec) == \A j \in DOMAIN sec.entries : sec.entries[j].name = 0

-----------------------------------------------------------------------------
(* The calls                                                               *)

Call == calls < MaxCalls /\ calls' = calls + 1

Init == up = FALSE /\ store = <<>> /\ disk = [lines |-> <<>>, ended |-> TRUE] /\ calls = 0

ini_new == Call /\ ~up /\ up' = TRUE /\ store' = <<>> /\ UNCHANGED disk

ini_read(file) ==
  Call /\ ~up /\ up' = TRUE /\ store' = Parsed(file) /\ UNCHANGED disk

ini_close == Call /\ up /\ up' = FALSE /\ store' = <<>> /\ UNCHANGED disk

ini_write(temp) ==
  Call /\ up /\ disk' = Written(temp) /\ UNCHANGED <<up, store>>

(* ini_set_int ... ini_set_string.                                         *)
(* Mutant: the entry is always created.                                    *)
ini_set_Append(s, n, data) ==
  /\ Call /\ up
  /\ LET with == WithSection(store, s)
         i == Find(with, s)
     IN  store' = [with EXCEPT ![i].entries = Append(@, Entry(n, data))]
  /\ UNCHANGED <<up, disk>>
ini_set(s, n, data) ==
  /\ Call /\ up
  /\ LET with == WithSection(store, s)
         i == Find(with, s)
     IN  store' = [with EXCEPT ![i].entries = WithEntry(@, n, data)]
  /\ UNCHANGED <<up, disk>>

ini_find_or_create_section(s) ==
  Call /\ up /\ store' = WithSection(store, s) /\ UNCHANGED <<up, disk>>

(* The calls below take a section that ini_find_section has found.         *)
ini_section_delete_var(i, n) ==
  /\ Call
  /\ LET j == Find(store[i].entries, n)
     IN  j # 0 /\ store' = [store EXCEPT ![i].entries = list_delete(@, j)]
  /\ UNCHANGED <<up, disk>>

ini_rename_section(i, s) ==
  Call /\ store' = [store EXCEPT ![i].name = s] /\ UNCHANGED <<up, disk>>

ini_delete_section_if_empty(i) ==
  /\ Call
  /\ store' = IF IsEmpty(store[i]) THEN list_delete(store, i)
              ELSE [store EXCEPT ![i].entries = Sorted(@)]
  /\ UNCHANGED <<up, disk>>

(* A text that is no number has its commas turned into points for good.    *)
ini_section_get_double(i, n) ==
  /\ Call
  /\ LET j == Find(store[i].entries, n)
     IN  /\ j # 0 /\ store[i].entries[j].data = Printed("string", ",5")
         /\ store' = [store EXCEPT ![i].entries[j].data = Printed("string", ".5")]
  /\ UNCHANGED <<up, disk>>

StripEntry(e) == IF e.name = 0 THEN e ELSE [e EXCEPT !.data = Strip(@)]
StripEntries(entries) == [j \in DOMAIN entries |-> StripEntry(entries[j])]

ini_strip_quotes ==
  /\ Call /\ up
  /\ store' = [i \in DOMAIN store |-> [store[i] EXCEPT !.entries = StripEntries(@)]]
  /\ UNCHANGED <<up, disk>>

OnSection(i) ==
  \/ \E n \in Names : ini_section_delete_var(i, n) \/ ini_section_get_double(i, n)
  \/ \E s \in Sections : ini_rename_section(i, s)
  \/ ini_delete_section_if_empty(i)

Next ==
  \/ ini_new \/ ini_close \/ ini_strip_quotes
  \/ \E file \in Files : ini_read(file)
  \/ \E temp \in Names : ini_write(temp)
  \/ \E s \in Sections : ini_find_or_create_section(s)
  \/ \E s \in Sections, n \in Names, data \in Given : ini_set(s, n, data)
  \/ \E s \in Sections : LET i == Find(store, s) IN i # 0 /\ OnSection(i)

Spec == Init /\ [][Next]_vars

-----------------------------------------------------------------------------
(* Properties                                                              *)

EntryType == [name : Names, data : Texts]
SectionType == [name : Sections, entries : Seq(EntryType)]

(* Types and ranges of the variables; without an ini_t there is no store.  *)
TypeOK ==
  /\ up \in BOOLEAN
  /\ store \in Seq(SectionType)
  /\ ~up => store = <<>>
  /\ calls \in 0..MaxCalls

Distinct(list) == \A i, j \in DOMAIN list : i # j => list[i].name # list[j].name
NamesDiffer(entries) ==
  \A i, j \in DOMAIN entries :
    i # j /\ entries[i].name # 0 => entries[i].name # entries[j].name

Once(sections) == \A i \in DOMAIN sections : NamesDiffer(sections[i].entries)
Conf(sections) ==
  [k \in Sections \X (Names \ {0}) |-> Lookup(sections, k[1], k[2])]

Abstract == INSTANCE Settings WITH
  Names <- Names \ {0},
  apart <- Distinct(store),
  once  <- Once(store),
  conf  <- Conf(store)

(* However the lists are built, searched, sorted and cut, what the lookups *)
(* find changes like a map: every call touches only the keys it names, and *)
(* without duplicates does to them exactly what it promises.                  *)
KeepsSettings == Abstract!Spec

(* The same entries, those with a name in ascending order, the others in   *)
(* place.                                                                  *)
Rearranged(new, old) ==
  LET Moving == {j \in DOMAIN new : new[j].name # 0}
  IN  /\ Len(new) = Len(old)
      /\ \E place \in Bijection(DOMAIN new, DOMAIN old) :
           \A j \in DOMAIN new : new[j] = old[place[j]]
      /\ \A j, k \in Moving : j < k => new[j].name <= new[k].name
      /\ \A j \in DOMAIN new \ Moving : new[j] = old[j]

(* The exchange sort hidden in delete_section_if_empty, which tests j      *)
(* against all i and not only the later ones, does sort.                   *)
SortsEntries ==
  [][\A i \in DOMAIN store :
       ini_delete_section_if_empty(i) /\ ~IsEmpty(store[i]) =>
         Rearranged(store'[i].entries, store[i].entries)]_vars

Fits(form, v) ==
  CASE form \in HexForms -> v < Radix ^ Digits[form]
    [] form = "mac" -> v < Addresses
    [] form = "double" -> v \in Doubles
    [] OTHER -> TRUE

(* What a setter has stored is what the getter of its form reads, if the   *)
(* value fits the form (a double: six digits), whatever else the section   *)
(* held before.                                                            *)
ReadsBack ==
  [][\A s \in Sections, n \in Names, form \in Setters, v \in Numbers :
       Fits(form, v) /\ ini_set(s, n, Printed(form, v))
         => Scanned(form, Lookup(store', s, n)) = v]_vars

(* The lines that count for section s: from behind its first header, or,   *)
(* for the section without a name, the top, to the next header.            *)
Heads(lines) == {0} \union {i \in DOMAIN lines : lines[i].kind = "section"}
HeadsOf(lines, s) ==
  {i \in Heads(lines) : IF i = 0 THEN s = 0 ELSE lines[i].name = s}
FirstHead(lines, s) == Min(HeadsOf(lines, s))
Body(lines, s) ==
  {j \in DOMAIN lines :
     /\ HeadsOf(lines, s) # {}
     /\ j > FirstHead(lines, s) /\ lines[j].kind = "entry"
     /\ \A h \in Heads(lines) : h <= FirstHead(lines, s) \/ h > j}
Hits(lines, s, n) == {j \in Body(lines, s) : lines[j].name = n}
FirstHit(lines, s, n) ==
  IF Hits(lines, s, n) = {} THEN NoText ELSE lines[Min(Hits(lines, s, n))].data

(* Whatever the file, a lookup in what ini_read makes of it finds the      *)
(* first entry of that name below the first header of that section, and    *)
(* nothing when there is none.  (It is enough to look once, at the start.) *)
FindsFirst ==
  calls = 0 =>
    \A file \in Files, s \in Sections, n \in Names :
      Lookup(Parsed(file), s, n) = FirstHit(LinesRead(file), s, n)

(* util_ini.c, over ini_write: "Write the in-memory configuration to       *)
(* disk."  Reading the file gives the configuration again.                 *)
WritesTheConfiguration ==
  [][disk' # disk => \A s \in Sections, n \in Names \ {0} :
       Lookup(store, s, n) # Blank =>
         Lookup(Parsed(disk'), s, n) = Lookup(store, s, n)]_vars

=============================================================================
