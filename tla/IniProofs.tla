----------------------------- MODULE IniProofs -----------------------------
(***************************************************************************)
(* Proofs about Ini, for any names, numbers and files, of any length.      *)
(*                                                                         *)
(* What a loop over a list computes is a matter of induction.  The library *)
(* gives it as a fact about sets of numbers: one that is not empty has a   *)
(* least element.                                                          *)
(***************************************************************************)
EXTENDS Ini, WellFoundedInduction, TLAPS

-----------------------------------------------------------------------------
(* Numbers, sequences and lists                                            *)

LEMMA MinSpec ==
  ASSUME NEW S, S \subseteq Nat, S # {}
  PROVE  Min(S) \in S /\ \A k \in S : Min(S) <= k
<1>1. PICK i \in S : \A k \in S : ~(<<k, i>> \in OpToRel(<, Nat))
  BY WFMin, NatLessThanWellFounded
<1>2. \A k \in S : ~(k < i)
  BY <1>1 DEF OpToRel
<1>3. \E x \in S : \A k \in S : x <= k
  BY <1>2
<1> QED BY <1>3 DEF Min

LEMMA MinIs ==
  ASSUME NEW S, S \subseteq Nat, NEW i \in S, \A k \in S : i <= k
  PROVE  Min(S) = i
<1>1. Min(S) \in S /\ Min(S) <= i
  BY MinSpec
<1>2. i <= Min(S) /\ i \in Nat /\ Min(S) \in Nat
  BY <1>1
<1> QED BY <1>1, <1>2

LEMMA Induction ==
  ASSUME NEW m \in Nat, NEW S, 0 \in S, \A k \in 0 .. m - 1 : k \in S => k + 1 \in S
  PROVE  \A k \in 0 .. m : k \in S
<1> DEFINE Out == {k \in 0 .. m : k \notin S}
<1> SUFFICES ASSUME Out # {} PROVE FALSE OBVIOUS
<1>1. PICK i \in Out : \A k \in Out : i <= k
  <2>1. Out \subseteq Nat OBVIOUS
  <2> QED BY <2>1, MinSpec
<1>2. i # 0 /\ i - 1 \in 0 .. m - 1 /\ i - 1 \in S
  BY <1>1
<1>3. i - 1 + 1 \in S
  BY <1>2
<1> QED BY <1>1, <1>3

(* Find is the position of the first element with the name.                *)
LEMMA FindSpec ==
  ASSUME NEW T, NEW list \in Seq(T), NEW name
  PROVE  /\ Find(list, name) \in 0 .. Len(list)
         /\ Find(list, name) = 0 => \A k \in 1 .. Len(list) : list[k].name # name
         /\ Find(list, name) # 0 =>
              /\ list[Find(list, name)].name = name
              /\ \A k \in 1 .. Find(list, name) - 1 : list[k].name # name
<1> DEFINE hits == {i \in DOMAIN list : list[i].name = name}
<1>1. DOMAIN list = 1 .. Len(list) /\ Len(list) \in Nat OBVIOUS
<1>2. CASE hits = {}
  BY <1>1, <1>2 DEF Find
<1>3. CASE hits # {}
  <2>1. Min(hits) \in hits /\ \A k \in hits : Min(hits) <= k
    <3>1. hits \subseteq Nat BY <1>1
    <3> QED BY <1>3, <3>1, MinSpec
  <2>2. Find(list, name) = Min(hits)
    BY <1>3 DEF Find
  <2>3. Find(list, name) \in hits /\ \A k \in hits : Find(list, name) <= k
    BY <2>1, <2>2
  <2> QED BY <1>1, <2>3
<1> QED BY <1>2, <1>3

(* That position is the only one like it.                                  *)
LEMMA FindIs ==
  ASSUME NEW T, NEW list \in Seq(T), NEW name, NEW i \in 1 .. Len(list),
         list[i].name = name, \A k \in 1 .. i - 1 : list[k].name # name
  PROVE  Find(list, name) = i
<1>1. Find(list, name) # 0
  BY FindSpec
<1>2. ~(Find(list, name) < i) /\ ~(i < Find(list, name))
  BY <1>1, FindSpec
<1> QED BY <1>2, FindSpec

LEMMA FindNot ==
  ASSUME NEW T, NEW list \in Seq(T), NEW name,
         \A k \in 1 .. Len(list) : list[k].name # name
  PROVE  Find(list, name) = 0
BY FindSpec

LEMMA FindInNone == ASSUME NEW name PROVE Find(<<>>, name) = 0
BY DEF Find

LEMMA AddSpec ==
  ASSUME NEW T, NEW list \in Seq(T), NEW new \in T
  PROVE  /\ list_add(list, new) \in Seq(T)
         /\ Len(list_add(list, new)) = Len(list) + 1
         /\ \A k \in 1 .. Len(list) : list_add(list, new)[k] = list[k]
         /\ list_add(list, new)[Len(list) + 1] = new
BY DEF list_add

LEMMA ConcatInSeq ==
  ASSUME NEW T, NEW a \in Seq(T), NEW b \in Seq(T)
  PROVE  a \o b \in Seq(T)
OBVIOUS

LEMMA DeleteSpec ==
  ASSUME NEW T, NEW list \in Seq(T), NEW i \in 1 .. Len(list)
  PROVE  /\ list_delete(list, i) \in Seq(T)
         /\ Len(list_delete(list, i)) = Len(list) - 1
         /\ \A k \in 1 .. i - 1 : list_delete(list, i)[k] = list[k]
         /\ \A k \in i .. Len(list) - 1 : list_delete(list, i)[k] = list[k + 1]
<1> DEFINE a == SubSeq(list, 1, i - 1)
           b == SubSeq(list, i + 1, Len(list))
<1>1. a \in Seq(T) /\ Len(a) = i - 1 /\ \A k \in 1 .. i - 1 : a[k] = list[k]
  OBVIOUS
<1>2. b \in Seq(T) /\ Len(b) = Len(list) - i
      /\ \A k \in 1 .. Len(list) - i : b[k] = list[i + k]
  OBVIOUS
<1>3. list_delete(list, i) = a \o b
  BY DEF list_delete, RemoveAt
<1> HIDE DEF a, b
<1>4. a \o b \in Seq(T)
  BY <1>1, <1>2, ConcatInSeq
<1>5. Len(a \o b) = Len(list) - 1
  BY <1>1, <1>2
<1>6. \A k \in 1 .. i - 1 : (a \o b)[k] = list[k]
  BY <1>1, <1>2
<1>7. ASSUME NEW k \in i .. Len(list) - 1 PROVE (a \o b)[k] = list[k + 1]
  <2>1. (a \o b)[k] = b[k - (i - 1)]
    BY <1>1, <1>2
  <2>2. k - (i - 1) \in 1 .. Len(list) - i /\ i + (k - (i - 1)) = k + 1
    OBVIOUS
  <2> QED BY <1>2, <2>1, <2>2
<1> QED BY <1>3, <1>4, <1>5, <1>6, <1>7

-----------------------------------------------------------------------------
(* Texts                                                                   *)

LEMMA AddressesPositive == Addresses \in Nat \ {0}
<1>1. \A m, n \in Nat \ {0} : m * n \in Nat \ {0} OBVIOUS
<1>2. Byte * Byte \in Nat \ {0} BY <1>1, IniAssumption DEF IniAssumption
<1> QED BY <1>1, <1>2, IniAssumption DEF IniAssumption, Addresses

(* There is a nearest one, and of what %lg can write it is the number      *)
(* itself.                                                                 *)
LEMMA RoundedTyped == ASSUME NEW v \in Nat PROVE Rounded(v) \in Doubles
<1> DEFINE D == {Distance(v, r) : r \in Doubles}
<1>1. \A r \in Doubles : Distance(v, r) \in Nat
  BY IniAssumption DEF IniAssumption, Distance
<1>2. D \subseteq Nat /\ D # {}
  BY <1>1, IniAssumption DEF IniAssumption
<1>3. Min(D) \in D /\ \A d \in D : Min(D) <= d
  BY <1>2, MinSpec
<1>4. \E r \in Doubles : \A q \in Doubles : Distance(v, r) <= Distance(v, q)
  BY <1>3
<1> QED BY <1>4 DEF Rounded

LEMMA RoundedSame == ASSUME NEW v \in Doubles PROVE Rounded(v) = v
<1> DEFINE Near(r) == \A q \in Doubles : Distance(v, r) <= Distance(v, q)
<1>1. \A r \in Doubles : r \in Nat /\ v \in Nat
  BY IniAssumption DEF IniAssumption
<1>2. Near(v)
  BY <1>1 DEF Distance
<1>3. \A r \in Doubles : Near(r) => r = v
  BY <1>1 DEF Distance
<1>4. Rounded(v) \in Doubles /\ Near(Rounded(v))
  BY <1>2 DEF Rounded
<1> QED BY <1>3, <1>4

LEMMA GivenTyped == Given \subseteq Texts
<1> USE IniAssumption DEF IniAssumption
<1>1. ASSUME NEW v \in Numbers, NEW f \in Setters PROVE Printed(f, v) \in Texts
  <2>1. v \in 0 .. Word - 1 OBVIOUS
  <2>2. CASE f \in {"int", "uint"}
    BY <2>1, <2>2 DEF Printed, Texts, HexForms
  <2>3. CASE f \in HexForms
    <3>1. Digits[f] \in Range(Digits) BY <2>3 DEF Range
    <3>2. Printed(f, v) = [form |-> "hex", value |-> v, width |-> Digits[f]]
      BY <2>3 DEF Printed, HexForms
    <3> QED BY <2>1, <3>1, <3>2 DEF Texts
  <2>4. CASE f = "mac"
    <3>1. v \in Int BY <2>1
    <3>2. v % Addresses \in 0 .. Addresses - 1
      BY <3>1, AddressesPositive
    <3>3. Printed(f, v) = [form |-> "mac", value |-> v % Addresses]
      BY <2>4 DEF Printed, HexForms
    <3> QED BY <3>2, <3>3 DEF Texts
  <2>5. CASE f = "double"
    <3>1. Rounded(v) \in Doubles
      BY <2>1, RoundedTyped
    <3>2. Printed(f, v) = [form |-> "real", value |-> Rounded(v)]
      BY <2>5 DEF Printed, HexForms
    <3> QED BY <3>1, <3>2 DEF Texts
  <2> QED BY <2>2, <2>3, <2>4, <2>5 DEF Setters
<1>2. ASSUME NEW w \in Words PROVE Printed("string", w) \in Texts
  BY DEF Printed, Texts, HexForms
<1> QED BY <1>1, <1>2 DEF Given

LEMMA WordTyped == ASSUME NEW w \in Words PROVE Printed("string", w) \in Texts
BY GivenTyped DEF Given

LEMMA StripTyped == ASSUME NEW t \in Texts PROVE Strip(t) \in Texts
BY WordTyped DEF Strip, Words

LEMMA NoTextIsNone == NoText \notin Texts
<1>1. NoText.form = "none" BY DEF NoText
<1>2. \A t \in Texts : t.form \in {"dec", "real", "hex", "mac", "word"}
  BY DEF Texts
<1> QED BY <1>1, <1>2

LEMMA Zero == 0 \in Sections /\ 0 \in Names
BY IniAssumption DEF IniAssumption

-----------------------------------------------------------------------------
(* Types                                                                   *)

LEMMA EntryTyped ==
  ASSUME NEW n \in Names, NEW t \in Texts
  PROVE  Entry(n, t) \in EntryType /\ Entry(n, t).name = n /\ Entry(n, t).data = t
BY DEF Entry, EntryType

LEMMA SectionTyped ==
  ASSUME NEW s \in Sections
  PROVE  /\ Section(s) \in SectionType
         /\ Section(s).name = s /\ Section(s).entries = <<>>
<1>1. <<>> \in Seq(EntryType) OBVIOUS
<1> QED BY <1>1 DEF Section, SectionType

LEMMA RecordSet ==
  /\ \A sec \in SectionType, es \in Seq(EntryType) :
       /\ [sec EXCEPT !.entries = es] \in SectionType
       /\ [sec EXCEPT !.entries = es].name = sec.name
       /\ [sec EXCEPT !.entries = es].entries = es
  /\ \A sec \in SectionType, s \in Sections :
       /\ [sec EXCEPT !.name = s] \in SectionType
       /\ [sec EXCEPT !.name = s].name = s
       /\ [sec EXCEPT !.name = s].entries = sec.entries
  /\ \A e \in EntryType, t \in Texts :
       /\ [e EXCEPT !.data = t] \in EntryType
       /\ [e EXCEPT !.data = t].name = e.name
       /\ [e EXCEPT !.data = t].data = t
BY DEF SectionType, EntryType

(* One section with other entries, or another name.                        *)
LEMMA EntriesSet ==
  ASSUME NEW st \in Seq(SectionType), NEW i \in 1 .. Len(st),
         NEW es \in Seq(EntryType), NEW new, new = [st EXCEPT ![i].entries = es]
  PROVE  /\ new \in Seq(SectionType) /\ Len(new) = Len(st)
         /\ \A k \in 1 .. Len(st) :
              /\ new[k].name = st[k].name
              /\ new[k].entries = IF k = i THEN es ELSE st[k].entries
<1> DEFINE sec == [st[i] EXCEPT !.entries = es]
<1>1. st[i] \in SectionType OBVIOUS
<1>2. sec \in SectionType /\ sec.name = st[i].name /\ sec.entries = es
  BY <1>1, RecordSet
<1>3. new = [st EXCEPT ![i] = sec]
  OBVIOUS
<1> HIDE DEF sec
<1>4. new \in Seq(SectionType) /\ Len(new) = Len(st)
      /\ \A k \in 1 .. Len(st) : new[k] = IF k = i THEN sec ELSE st[k]
  BY <1>2, <1>3
<1> QED BY <1>2, <1>4

LEMMA EntriesSetTyped ==
  ASSUME NEW st \in Seq(SectionType), NEW i \in 1 .. Len(st), NEW es \in Seq(EntryType)
  PROVE  [st EXCEPT ![i].entries = es] \in Seq(SectionType)
BY EntriesSet

LEMMA NameSet ==
  ASSUME NEW st \in Seq(SectionType), NEW i \in 1 .. Len(st), NEW s \in Sections,
         NEW new, new = [st EXCEPT ![i].name = s]
  PROVE  /\ new \in Seq(SectionType) /\ Len(new) = Len(st)
         /\ \A k \in 1 .. Len(st) :
              /\ new[k].name = IF k = i THEN s ELSE st[k].name
              /\ new[k].entries = st[k].entries
<1> DEFINE sec == [st[i] EXCEPT !.name = s]
<1>1. sec \in SectionType /\ sec.name = s /\ sec.entries = st[i].entries
  <2>1. st[i] \in SectionType OBVIOUS
  <2> QED BY <2>1, RecordSet
<1>2. new = [st EXCEPT ![i] = sec]
  OBVIOUS
<1> HIDE DEF sec
<1>3. new \in Seq(SectionType) /\ Len(new) = Len(st)
      /\ \A k \in 1 .. Len(st) : new[k] = IF k = i THEN sec ELSE st[k]
  BY <1>1, <1>2
<1> QED BY <1>1, <1>3

LEMMA DataSet ==
  ASSUME NEW es \in Seq(EntryType), NEW j \in 1 .. Len(es), NEW t \in Texts,
         NEW new, new = [es EXCEPT ![j].data = t]
  PROVE  /\ new \in Seq(EntryType) /\ Len(new) = Len(es)
         /\ \A k \in 1 .. Len(es) :
              /\ new[k].name = es[k].name
              /\ new[k].data = IF k = j THEN t ELSE es[k].data
<1> DEFINE e == [es[j] EXCEPT !.data = t]
<1>1. e \in EntryType /\ e.name = es[j].name /\ e.data = t
  <2>1. es[j] \in EntryType OBVIOUS
  <2> QED BY <2>1, RecordSet
<1>2. new = [es EXCEPT ![j] = e]
  OBVIOUS
<1> HIDE DEF e
<1>3. new \in Seq(EntryType) /\ Len(new) = Len(es)
      /\ \A k \in 1 .. Len(es) : new[k] = IF k = j THEN e ELSE es[k]
  BY <1>1, <1>2
<1> QED BY <1>1, <1>3

-----------------------------------------------------------------------------
(* The loops                                                               *)

(* The sections after k lines are those after k - 1 with line k added.     *)
LEMMA AfterLinesDef ==
  ASSUME NEW T, NEW lines \in Seq(T)
  PROVE  /\ AfterLines(lines)[0] = <<Section(0)>>
         /\ \A k \in 1 .. Len(lines) :
              AfterLines(lines)[k] = AddLine(AfterLines(lines)[k - 1], lines[k])
<1> DEFINE Body_(g, m) ==
             [k \in 0 .. m |-> IF k = 0 THEN <<Section(0)>> ELSE AddLine(g[k - 1], lines[k])]
           Has == {m \in Nat : \E g : g = Body_(g, m)}
<1>1. 0 \in Has
  <2> DEFINE g == [k \in 0 .. 0 |-> <<Section(0)>>]
  <2>1. g = Body_(g, 0) OBVIOUS
  <2> QED BY <2>1
<1>2. ASSUME NEW m \in 0 .. Len(lines) - 1, m \in Has PROVE m + 1 \in Has
  <2>1. PICK g : g = Body_(g, m)
    BY <1>2
  <2> DEFINE h == [k \in 0 .. m + 1 |->
                     IF k = m + 1 THEN AddLine(g[m], lines[m + 1]) ELSE g[k]]
  <2>2. \A k \in 0 .. m + 1 :
          h[k] = IF k = 0 THEN <<Section(0)>> ELSE AddLine(h[k - 1], lines[k])
    <3> SUFFICES ASSUME NEW k \in 0 .. m + 1
        PROVE  h[k] = IF k = 0 THEN <<Section(0)>> ELSE AddLine(h[k - 1], lines[k])
        OBVIOUS
    <3>1. CASE k = m + 1
      BY <3>1
    <3>2. CASE k \in 0 .. m
      <4>1. g[k] = IF k = 0 THEN <<Section(0)>> ELSE AddLine(g[k - 1], lines[k])
        BY <2>1, <3>2
      <4>2. h[k] = g[k] /\ (k # 0 => h[k - 1] = g[k - 1])
        BY <3>2
      <4> QED BY <4>1, <4>2
    <3> QED BY <3>1, <3>2
  <2>3. h = [k \in 0 .. m + 1 |-> h[k]]
    OBVIOUS
  <2>4. m + 1 \in Nat
    OBVIOUS
  <2> HIDE DEF h
  <2>5. h = Body_(h, m + 1)
    BY <2>2, <2>3
  <2> QED BY <2>4, <2>5
<1>3. Len(lines) \in Has
  <2>1. Len(lines) \in Nat OBVIOUS
  <2> HIDE DEF Has
  <2>2. \A k \in 0 .. Len(lines) : k \in Has
    BY <1>1, <1>2, <2>1, Induction
  <2> QED BY <2>1, <2>2
<1>4. \E g : g = Body_(g, Len(lines))
  BY <1>3
<1>5. AfterLines(lines) = Body_(AfterLines(lines), Len(lines))
  BY <1>4, Zenon DEF AfterLines
<1>6. 0 \in 0 .. Len(lines) /\ \A k \in 1 .. Len(lines) : k \in 0 .. Len(lines) /\ k # 0
  OBVIOUS
<1> QED BY <1>5, <1>6

-----------------------------------------------------------------------------
(* Finding                                                                 *)

LEMMA FindAdd ==
  ASSUME NEW T, NEW list \in Seq(T), NEW new \in T, NEW name
  PROVE  Find(list_add(list, new), name) =
           IF Find(list, name) # 0 THEN Find(list, name)
           ELSE IF new.name = name THEN Len(list) + 1 ELSE 0
<1> DEFINE list2 == list_add(list, new)
<1>1. /\ list2 \in Seq(T) /\ Len(list2) = Len(list) + 1
      /\ \A k \in 1 .. Len(list) : list2[k] = list[k]
      /\ list2[Len(list) + 1] = new
  BY DEF list_add
<1> HIDE DEF list2
<1>2. Len(list) \in Nat OBVIOUS
<1>3. CASE Find(list, name) # 0
  <2>1. /\ Find(list, name) \in 1 .. Len(list2)
        /\ list2[Find(list, name)].name = name
        /\ \A k \in 1 .. Find(list, name) - 1 : list2[k].name # name
    BY <1>1, <1>2, <1>3, FindSpec
  <2>2. Find(list2, name) = Find(list, name)
    BY <1>1, <2>1, FindIs
  <2> QED BY <1>3, <2>2 DEF list2
<1>4. CASE Find(list, name) = 0 /\ new.name = name
  <2>0. \A k \in 1 .. Len(list) : list[k].name # name
    BY <1>4, FindSpec
  <2>1. \A k \in 1 .. Len(list) + 1 - 1 : list2[k].name # name
    BY <1>1, <1>2, <2>0
  <2>2. Len(list) + 1 \in 1 .. Len(list2)
    BY <1>1, <1>2
  <2>3. Find(list2, name) = Len(list) + 1
    BY <1>1, <1>4, <2>1, <2>2, FindIs
  <2> QED BY <1>4, <2>3 DEF list2
<1>5. CASE Find(list, name) = 0 /\ new.name # name
  <2>0. \A k \in 1 .. Len(list) : list[k].name # name
    BY <1>5, FindSpec
  <2>1. \A k \in 1 .. Len(list2) : list2[k].name # name
    <3> SUFFICES ASSUME NEW k \in 1 .. Len(list2) PROVE list2[k].name # name
      OBVIOUS
    <3>1. k \in 1 .. Len(list) \/ k = Len(list) + 1
      BY <1>1, <1>2
    <3> QED BY <1>1, <1>5, <2>0, <3>1
  <2>2. Find(list2, name) = 0
    BY <1>1, <2>1, FindNot
  <2> QED BY <1>5, <2>2 DEF list2
<1> QED BY <1>3, <1>4, <1>5

(* Only the names matter to Find.                                          *)
LEMMA FindSame ==
  ASSUME NEW T, NEW a \in Seq(T), NEW b \in Seq(T), NEW name, Len(a) = Len(b),
         \A k \in 1 .. Len(a) : a[k].name = name <=> b[k].name = name
  PROVE  Find(a, name) = Find(b, name)
<1>1. CASE Find(a, name) = 0
  BY <1>1, FindSpec, FindNot
<1>2. CASE Find(a, name) # 0
  <2>1. /\ Find(a, name) \in 1 .. Len(b)
        /\ b[Find(a, name)].name = name
        /\ \A k \in 1 .. Find(a, name) - 1 : b[k].name # name
    BY <1>2, FindSpec
  <2> QED BY <2>1, FindIs
<1> QED BY <1>1, <1>2

LEMMA SectionsTyped ==
  ASSUME NEW st \in Seq(SectionType), NEW i \in 1 .. Len(st)
  PROVE  st[i] \in SectionType /\ st[i].name \in Sections /\ st[i].entries \in Seq(EntryType)
<1>1. st[i] \in SectionType OBVIOUS
<1> QED BY <1>1 DEF SectionType

LEMMA EntriesTyped ==
  ASSUME NEW es \in Seq(EntryType), NEW i \in 1 .. Len(es)
  PROVE  es[i] \in EntryType /\ es[i].name \in Names /\ es[i].data \in Texts
<1>1. es[i] \in EntryType OBVIOUS
<1> QED BY <1>1 DEF EntryType

LEMMA LookupTyped ==
  ASSUME NEW st \in Seq(SectionType), NEW s, NEW n
  PROVE  Lookup(st, s, n) \in Texts \cup {NoText}
<1>1. CASE Find(st, s) = 0
  BY <1>1 DEF Lookup
<1>2. CASE Find(st, s) # 0
  <2>1. Find(st, s) \in 1 .. Len(st)
    BY <1>2, FindSpec
  <2>2. st[Find(st, s)].entries \in Seq(EntryType)
    BY <2>1, SectionsTyped
  <2>3. Find(st[Find(st, s)].entries, n) \in 0 .. Len(st[Find(st, s)].entries)
    BY <2>2, FindSpec
  <2>4. Find(st[Find(st, s)].entries, n) # 0 =>
          st[Find(st, s)].entries[Find(st[Find(st, s)].entries, n)].data \in Texts
    BY <2>2, <2>3, EntriesTyped
  <2> QED BY <1>2, <2>4 DEF Lookup
<1> QED BY <1>1, <1>2

-----------------------------------------------------------------------------
(* What ini_read makes of a file                                           *)

LEMMA LinesTyped ==
  ASSUME NEW l \in Lines
  PROVE  /\ l.kind \in {"section", "entry", "open", "incomplete", "comment"}
         /\ l.kind = "section" => l.name \in Sections
         /\ l.kind = "entry" => l.name \in Names /\ l.data \in Texts
BY DEF Lines

LEMMA HeadsSpec ==
  ASSUME NEW got \in Seq(Lines), NEW s
  PROVE  /\ HeadsOf(got, s) \subseteq Heads(got) /\ Heads(got) \subseteq 0 .. Len(got)
         /\ HeadsOf(got, s) # {} =>
              /\ FirstHead(got, s) \in HeadsOf(got, s)
              /\ \A k \in HeadsOf(got, s) : FirstHead(got, s) <= k
<1>1. HeadsOf(got, s) \subseteq Heads(got) /\ Heads(got) \subseteq 0 .. Len(got)
  BY DEF HeadsOf, Heads
<1>2. ASSUME HeadsOf(got, s) # {}
      PROVE  /\ FirstHead(got, s) \in HeadsOf(got, s)
             /\ \A k \in HeadsOf(got, s) : FirstHead(got, s) <= k
  <2>1. HeadsOf(got, s) \subseteq Nat
    BY <1>1
  <2> QED BY <1>2, <2>1, MinSpec DEF FirstHead
<1> QED BY <1>1, <1>2

(* The heads after one more line.                                          *)
LEMMA LineAdded ==
  ASSUME NEW got \in Seq(Lines), NEW l \in Lines, NEW got2, got2 = Append(got, l)
  PROVE  /\ got2 \in Seq(Lines) /\ Len(got) \in Nat /\ Len(got2) = Len(got) + 1
         /\ DOMAIN got = 1 .. Len(got) /\ DOMAIN got2 = 1 .. Len(got) + 1
         /\ got2[Len(got) + 1] = l
         /\ \A k \in 1 .. Len(got) : got2[k] = got[k]
OBVIOUS

LEMMA HeadsGrow ==
  ASSUME NEW got \in Seq(Lines), NEW l \in Lines, NEW s,
         NEW got2, got2 = Append(got, l), NEW i
  PROVE  /\ i \in Heads(got2) <=>
              i \in Heads(got) \/ (i = Len(got) + 1 /\ l.kind = "section")
         /\ i \in HeadsOf(got2, s) <=>
              i \in HeadsOf(got, s) \/ (i = Len(got) + 1 /\ l.kind = "section" /\ l.name = s)
<1>1. /\ got2 \in Seq(Lines) /\ Len(got) \in Nat
      /\ DOMAIN got = 1 .. Len(got) /\ DOMAIN got2 = 1 .. Len(got) + 1
      /\ got2[Len(got) + 1] = l
      /\ \A k \in 1 .. Len(got) : got2[k] = got[k]
  BY LineAdded
<1>2. /\ Heads(got) \subseteq 0 .. Len(got) /\ HeadsOf(got, s) \subseteq Heads(got)
      /\ Heads(got2) \subseteq 0 .. Len(got) + 1 /\ HeadsOf(got2, s) \subseteq Heads(got2)
  BY <1>1 DEF Heads, HeadsOf
<1>3. CASE i \in 0 .. Len(got)
  <2>1. i \in Heads(got2) <=> i \in Heads(got)
    BY <1>1, <1>3 DEF Heads
  <2>2. i \in HeadsOf(got2, s) <=> i \in HeadsOf(got, s)
    BY <1>1, <1>3, <2>1 DEF HeadsOf
  <2> QED BY <1>1, <1>3, <2>1, <2>2
<1>4. CASE i = Len(got) + 1
  <2>1. i \in Heads(got2) <=> l.kind = "section"
    BY <1>1, <1>4 DEF Heads
  <2>2. i \in HeadsOf(got2, s) <=> l.kind = "section" /\ l.name = s
    BY <1>1, <1>4, <2>1 DEF HeadsOf
  <2>3. i \notin 0 .. Len(got)
    BY <1>1, <1>4
  <2> QED BY <1>2, <1>4, <2>1, <2>2, <2>3
<1>5. CASE i \notin 0 .. Len(got) + 1
  BY <1>1, <1>2, <1>5
<1> QED BY <1>1, <1>3, <1>4, <1>5

LEMMA FirstStays ==
  ASSUME NEW got \in Seq(Lines), NEW l \in Lines, NEW s,
         NEW got2, got2 = Append(got, l), HeadsOf(got, s) # {}
  PROVE  FirstHead(got2, s) = FirstHead(got, s)
<1>1. got2 \in Seq(Lines) /\ Len(got) \in Nat /\ Len(got2) = Len(got) + 1
  BY LineAdded
<1>2. \A i : i \in HeadsOf(got2, s) <=>
        i \in HeadsOf(got, s) \/ (i = Len(got) + 1 /\ l.kind = "section" /\ l.name = s)
  BY HeadsGrow
<1>3. /\ FirstHead(got, s) \in HeadsOf(got, s) /\ FirstHead(got, s) \in 0 .. Len(got)
      /\ \A k \in HeadsOf(got, s) : FirstHead(got, s) <= k
  BY HeadsSpec
<1>4. HeadsOf(got2, s) \subseteq 0 .. Len(got) + 1
  BY <1>1, HeadsSpec
<1>5. \A k \in HeadsOf(got2, s) : FirstHead(got, s) <= k
  BY <1>1, <1>2, <1>3
<1>6. Min(HeadsOf(got2, s)) = FirstHead(got, s)
  <2>1. HeadsOf(got2, s) \subseteq Nat /\ FirstHead(got, s) \in HeadsOf(got2, s)
    BY <1>1, <1>2, <1>3, <1>4
  <2> QED BY <1>5, <2>1, MinIs
<1> QED BY <1>6 DEF FirstHead

(* An entry counts for the section whose first header is the last so far.  *)
Counts(got, s) ==
  HeadsOf(got, s) # {} /\ \A h \in Heads(got) : h <= FirstHead(got, s)

LEMMA BodyGrows ==
  ASSUME NEW got \in Seq(Lines), NEW l \in Lines, NEW s,
         NEW got2, got2 = Append(got, l), NEW j
  PROVE  j \in Body(got2, s) <=>
           j \in Body(got, s) \/ (j = Len(got) + 1 /\ l.kind = "entry" /\ Counts(got, s))
<1> DEFINE first == FirstHead(got, s)
<1>1. /\ got2 \in Seq(Lines) /\ Len(got) \in Nat
      /\ DOMAIN got = 1 .. Len(got) /\ DOMAIN got2 = 1 .. Len(got) + 1
      /\ got2[Len(got) + 1] = l
      /\ \A k \in 1 .. Len(got) : got2[k] = got[k]
  BY LineAdded
<1>2. \A i : i \in Heads(got2) <=>
             i \in Heads(got) \/ (i = Len(got) + 1 /\ l.kind = "section")
  BY HeadsGrow
<1>3. \A i : i \in HeadsOf(got2, s) <=>
        i \in HeadsOf(got, s) \/ (i = Len(got) + 1 /\ l.kind = "section" /\ l.name = s)
  BY HeadsGrow
<1>4. Heads(got) \subseteq 0 .. Len(got) /\ HeadsOf(got, s) \subseteq 0 .. Len(got)
  BY HeadsSpec
<1>5. Body(got, s) \subseteq 1 .. Len(got) /\ Body(got2, s) \subseteq 1 .. Len(got) + 1
  BY <1>1 DEF Body
<1>6. CASE HeadsOf(got, s) # {}
  <2>1. HeadsOf(got2, s) # {} /\ FirstHead(got2, s) = first
    BY <1>3, <1>6, FirstStays
  <2>2. first \in 0 .. Len(got)
    BY <1>4, <1>6, HeadsSpec
  <2>3. CASE j \in 1 .. Len(got)
    <3>1. (\A h \in Heads(got2) : h <= first \/ h > j)
            <=> (\A h \in Heads(got) : h <= first \/ h > j)
      BY <1>1, <1>2, <2>3
    <3> QED BY <1>1, <1>6, <2>1, <2>3, <3>1 DEF Body
  <2>4. CASE j = Len(got) + 1
    <3>1. l.kind = "entry" => ((\A h \in Heads(got2) : h <= first \/ h > j)
                                <=> (\A h \in Heads(got) : h <= first))
      BY <1>1, <1>2, <1>4, <2>2, <2>4
    <3>2. j \in Body(got2, s) <=> l.kind = "entry" /\ \A h \in Heads(got2) : h <= first \/ h > j
      BY <1>1, <2>1, <2>2, <2>4 DEF Body
    <3> QED BY <1>1, <1>5, <1>6, <2>4, <3>1, <3>2 DEF Counts
  <2> QED BY <1>1, <1>5, <2>3, <2>4
<1>7. CASE HeadsOf(got, s) = {}
  <2>1. j \notin Body(got, s) /\ ~Counts(got, s)
    BY <1>7 DEF Body, Counts
  <2>2. ASSUME HeadsOf(got2, s) # {} PROVE FirstHead(got2, s) = Len(got) + 1
    <3>1. FirstHead(got2, s) \in HeadsOf(got2, s)
      BY <1>1, <2>2, HeadsSpec
    <3> QED BY <1>3, <1>7, <3>1
  <2>3. j \notin Body(got2, s)
    BY <1>1, <2>2 DEF Body
  <2> QED BY <2>1, <2>3
<1> QED BY <1>6, <1>7

(* The first entry of a name after one more line.                          *)
LEMMA FirstHitGrows ==
  ASSUME NEW got \in Seq(Lines), NEW l \in Lines, NEW s, NEW n,
         NEW got2, got2 = Append(got, l)
  PROVE  FirstHit(got2, s, n) =
           IF Hits(got, s, n) # {} THEN FirstHit(got, s, n)
           ELSE IF l.kind = "entry" /\ Counts(got, s) /\ l.name = n THEN l.data
           ELSE NoText
<1> DEFINE p == Len(got) + 1
<1>1. /\ got2 \in Seq(Lines) /\ Len(got) \in Nat
      /\ got2[p] = l
      /\ \A k \in 1 .. Len(got) : got2[k] = got[k]
  OBVIOUS
<1>2. Body(got, s) \subseteq 1 .. Len(got)
  BY DEF Body
<1>3. Hits(got, s, n) \subseteq 1 .. Len(got)
  BY <1>2 DEF Hits
<1>4. ASSUME NEW j
      PROVE  j \in Hits(got2, s, n) <=>
               j \in Hits(got, s, n)
               \/ (j = p /\ l.kind = "entry" /\ Counts(got, s) /\ l.name = n)
  <2>1. j \in Body(got2, s) <=>
          j \in Body(got, s) \/ (j = Len(got) + 1 /\ l.kind = "entry" /\ Counts(got, s))
    BY BodyGrows
  <2> QED BY <1>1, <1>2, <2>1 DEF Hits
<1>5. CASE Hits(got, s, n) # {}
  <2> DEFINE m == Min(Hits(got, s, n))
  <2>1. m \in Hits(got, s, n) /\ \A k \in Hits(got, s, n) : m <= k
    <3>1. Hits(got, s, n) \subseteq Nat BY <1>3
    <3> QED BY <1>5, <3>1, MinSpec
  <2>2. m \in Hits(got2, s, n) /\ \A k \in Hits(got2, s, n) : m <= k
    BY <1>3, <1>4, <2>1
  <2>3. Hits(got2, s, n) \subseteq Nat
    BY <1>1, <1>3, <1>4
  <2>4. Min(Hits(got2, s, n)) = m
    BY <2>2, <2>3, MinIs
  <2>5. Hits(got2, s, n) # {}
    BY <2>2
  <2> QED BY <1>1, <1>3, <1>5, <2>1, <2>4, <2>5 DEF FirstHit
<1>6. CASE Hits(got, s, n) = {} /\ l.kind = "entry" /\ Counts(got, s) /\ l.name = n
  <2>1. Hits(got2, s, n) = {p}
    BY <1>4, <1>6
  <2>2. Min(Hits(got2, s, n)) = p
    <3>1. p \in Hits(got2, s, n) /\ \A k \in Hits(got2, s, n) : p <= k
      BY <1>1, <2>1
    <3>2. Hits(got2, s, n) \subseteq Nat
      BY <1>1, <2>1
    <3> QED BY <3>1, <3>2, MinIs
  <2> QED BY <1>1, <1>6, <2>1, <2>2 DEF FirstHit
<1>7. CASE Hits(got, s, n) = {} /\ ~(l.kind = "entry" /\ Counts(got, s) /\ l.name = n)
  BY <1>4, <1>7 DEF FirstHit
<1> QED BY <1>5, <1>6, <1>7

(* What the sections are after some lines: a section is found if it has a  *)
(* header, as the last one if its first header is the last, and a lookup   *)
(* finds what it should.                                                   *)
Reads(st, got) ==
  /\ st \in Seq(SectionType) /\ Len(st) > 0
  /\ \A s \in Sections :
       /\ Find(st, s) = 0 <=> HeadsOf(got, s) = {}
       /\ Find(st, s) # 0 => (Find(st, s) = Len(st) <=> Counts(got, s))
       /\ \A n \in Names : Lookup(st, s, n) = FirstHit(got, s, n)

LEMMA NothingRead == Reads(<<Section(0)>>, <<>>)
<1> DEFINE st == <<Section(0)>>
<1>1. st \in Seq(SectionType) /\ Len(st) = 1 /\ st[1].name = 0 /\ st[1].entries = <<>>
  BY SectionTyped, Zero
<1> HIDE DEF st
<1> SUFFICES ASSUME NEW s \in Sections
    PROVE  /\ Find(st, s) = 0 <=> HeadsOf(<<>>, s) = {}
           /\ Find(st, s) # 0 => (Find(st, s) = Len(st) <=> Counts(<<>>, s))
           /\ \A n \in Names : Lookup(st, s, n) = FirstHit(<<>>, s, n)
  BY <1>1 DEF Reads, st
<1>2. Heads(<<>>) = {0} /\ HeadsOf(<<>>, s) = {i \in {0} : s = 0}
  BY DEF Heads, HeadsOf
<1>3. \A n : FirstHit(<<>>, s, n) = NoText
  BY DEF FirstHit, Hits, Body
<1>4. CASE s = 0
  <2>1. Find(st, s) = 1
    BY <1>1, <1>4, FindIs
  <2>2. Counts(<<>>, s)
    <3>1. FirstHead(<<>>, s) = 0
      <4>1. <<>> \in Seq(Lines) OBVIOUS
      <4>2. FirstHead(<<>>, s) \in HeadsOf(<<>>, s)
        BY <1>2, <1>4, <4>1, HeadsSpec
      <4> QED BY <1>2, <4>2
    <3> QED BY <1>2, <1>4, <3>1 DEF Counts
  <2>3. \A n : Find(st[1].entries, n) = 0
    BY <1>1, FindInNone
  <2>4. \A n : Lookup(st, s, n) = NoText
    BY <2>1, <2>3 DEF Lookup
  <2>5. HeadsOf(<<>>, s) # {}
    BY <1>2, <1>4
  <2> QED BY <1>1, <1>3, <2>1, <2>2, <2>4, <2>5
<1>5. CASE s # 0
  <2>1. Find(st, s) = 0
    BY <1>1, <1>5, FindNot
  <2>2. \A n : Lookup(st, s, n) = NoText
    BY <2>1 DEF Lookup
  <2> QED BY <1>2, <1>3, <1>5, <2>1, <2>2
<1> QED BY <1>4, <1>5

(* What a lookup finds, said with the positions it goes by.                *)
LEMMA LookupSpec ==
  ASSUME NEW st \in Seq(SectionType), NEW s, NEW n,
         NEW i, i = Find(st, s), NEW j, j = Find(st[i].entries, n)
  PROVE  /\ i = 0 => Lookup(st, s, n) = NoText
         /\ i # 0 /\ j = 0 => Lookup(st, s, n) = NoText
         /\ i # 0 /\ j # 0 => Lookup(st, s, n) = st[i].entries[j].data
BY DEF Lookup

LEMMA LookupNone ==
  ASSUME NEW st \in Seq(SectionType), NEW s, NEW n, Find(st, s) # 0
  PROVE  Lookup(st, s, n) = NoText <=> Find(st[Find(st, s)].entries, n) = 0
<1> DEFINE i == Find(st, s)
           j == Find(st[i].entries, n)
<1>1. i \in 1 .. Len(st) BY FindSpec
<1>2. st[i].entries \in Seq(EntryType) BY <1>1, SectionsTyped
<1>3. j \in 0 .. Len(st[i].entries) BY <1>2, FindSpec
<1>4. j # 0 => st[i].entries[j].data \in Texts
  BY <1>2, <1>3, EntriesTyped
<1> QED BY <1>4, NoTextIsNone DEF Lookup

(* A line that begins a section.                                           *)
LEMMA SectionRead ==
  ASSUME NEW got \in Seq(Lines), NEW l \in Lines, NEW got2, got2 = Append(got, l),
         NEW st, Reads(st, got), l.kind = "section",
         NEW st2, st2 = list_add(st, Section(l.name))
  PROVE  Reads(st2, got2)
<1>1. st \in Seq(SectionType) /\ Len(st) \in Nat /\ l.name \in Sections
  BY LinesTyped DEF Reads
<1>2. Section(l.name) \in SectionType /\ Section(l.name).name = l.name
      /\ Section(l.name).entries = <<>>
  BY <1>1, SectionTyped
<1>3. /\ st2 \in Seq(SectionType) /\ Len(st2) = Len(st) + 1
      /\ \A k \in 1 .. Len(st) : st2[k] = st[k]
      /\ st2[Len(st) + 1] = Section(l.name)
  BY <1>1, <1>2 DEF list_add
<1> SUFFICES ASSUME NEW s \in Sections
    PROVE  /\ Find(st2, s) = 0 <=> HeadsOf(got2, s) = {}
           /\ Find(st2, s) # 0 => (Find(st2, s) = Len(st2) <=> Counts(got2, s))
           /\ \A n \in Names : Lookup(st2, s, n) = FirstHit(got2, s, n)
  BY <1>1, <1>3 DEF Reads
<1>4. Find(st2, s) = IF Find(st, s) # 0 THEN Find(st, s)
                     ELSE IF l.name = s THEN Len(st) + 1 ELSE 0
  BY <1>1, <1>2, FindAdd
<1>5. /\ got2 \in Seq(Lines) /\ Len(got) \in Nat
      /\ \A i : i \in Heads(got2) <=> i \in Heads(got) \/ i = Len(got) + 1
      /\ \A i : i \in HeadsOf(got2, s) <=>
                  i \in HeadsOf(got, s) \/ (i = Len(got) + 1 /\ l.name = s)
  BY HeadsGrow, LineAdded
<1>6. Heads(got) \subseteq 0 .. Len(got) /\ HeadsOf(got, s) \subseteq 0 .. Len(got)
  BY HeadsSpec
<1>7. \A n \in Names : FirstHit(got2, s, n) = FirstHit(got, s, n)
  <2>1. \A n \in Names : Hits(got, s, n) = {} => FirstHit(got, s, n) = NoText
    BY DEF FirstHit
  <2> QED BY <2>1, FirstHitGrows
<1>8. Find(st, s) \in 0 .. Len(st)
  BY <1>1, FindSpec
<1>9. /\ Find(st, s) = 0 <=> HeadsOf(got, s) = {}
      /\ \A n \in Names : Lookup(st, s, n) = FirstHit(got, s, n)
  BY DEF Reads
<1>10. CASE Find(st, s) # 0
  <2>1. Find(st2, s) = Find(st, s) /\ Find(st2, s) # Len(st2)
    BY <1>1, <1>3, <1>4, <1>8, <1>10
  <2>2. HeadsOf(got2, s) # {} /\ FirstHead(got2, s) = FirstHead(got, s)
    BY <1>5, <1>9, <1>10, FirstStays
  <2>3. FirstHead(got, s) \in 0 .. Len(got)
    BY <1>6, <1>9, <1>10, HeadsSpec
  <2>4. ~Counts(got2, s)
    BY <1>5, <2>2, <2>3 DEF Counts
  <2>5. st2[Find(st, s)] = st[Find(st, s)]
    BY <1>3, <1>8, <1>10
  <2>6. \A n \in Names : Lookup(st2, s, n) = Lookup(st, s, n)
    BY <2>1, <2>5 DEF Lookup
  <2> QED BY <1>7, <1>9, <1>10, <2>1, <2>2, <2>4, <2>6
<1>11. CASE Find(st, s) = 0 /\ l.name = s
  <2>1. Find(st2, s) = Len(st) + 1
    BY <1>4, <1>11
  <2>2. FirstHead(got2, s) = Len(got) + 1 /\ HeadsOf(got2, s) # {}
    <3>1. HeadsOf(got2, s) # {}
      BY <1>5, <1>11
    <3>2. FirstHead(got2, s) \in HeadsOf(got2, s)
      BY <1>5, <3>1, HeadsSpec
    <3> QED BY <1>5, <1>9, <1>11, <3>1, <3>2
  <2>3. Counts(got2, s)
    BY <1>5, <1>6, <2>2 DEF Counts
  <2>4. \A n : Find(st2[Len(st) + 1].entries, n) = 0
    BY <1>2, <1>3, FindInNone
  <2>5. \A n \in Names : Lookup(st2, s, n) = NoText /\ Lookup(st, s, n) = NoText
    BY <1>1, <1>11, <2>1, <2>4 DEF Lookup
  <2> QED BY <1>1, <1>3, <1>7, <1>9, <2>1, <2>2, <2>3, <2>5
<1>12. CASE Find(st, s) = 0 /\ l.name # s
  <2>1. Find(st2, s) = 0
    BY <1>4, <1>12
  <2>2. HeadsOf(got2, s) = {}
    BY <1>5, <1>9, <1>12
  <2>3. \A n \in Names : Lookup(st2, s, n) = NoText /\ Lookup(st, s, n) = NoText
    BY <1>12, <2>1 DEF Lookup
  <2> QED BY <1>7, <1>9, <2>1, <2>2, <2>3
<1> QED BY <1>10, <1>11, <1>12

(* A line that adds an entry.                                              *)
LEMMA EntryRead ==
  ASSUME NEW got \in Seq(Lines), NEW l \in Lines, NEW got2, got2 = Append(got, l),
         NEW st, Reads(st, got), l.kind = "entry",
         NEW st2, st2 = ToLast(st, l.name, l.data)
  PROVE  Reads(st2, got2)
<1>0. PICK last \in 1 .. Len(st) : last = Len(st)
  BY DEF Reads
<1> DEFINE ne  == Entry(l.name, l.data)
           es   == st[last].entries
           es2  == list_add(es, ne)
<1>1. st \in Seq(SectionType) /\ last = Len(st) /\ Len(st) \in Nat
      /\ l.name \in Names /\ l.data \in Texts
  BY <1>0, LinesTyped DEF Reads
<1>2. ne \in EntryType /\ ne.name = l.name /\ ne.data = l.data
  BY <1>1, EntryTyped
<1>3. es \in Seq(EntryType) /\ Len(es) \in Nat
  BY <1>1, SectionsTyped
<1>4. /\ es2 \in Seq(EntryType) /\ Len(es2) = Len(es) + 1
      /\ \A k \in 1 .. Len(es) : es2[k] = es[k]
      /\ es2[Len(es) + 1] = ne
  BY <1>2, <1>3 DEF list_add
<1>5. st2 = [st EXCEPT ![last].entries = es2]
  BY <1>0 DEF ToLast
<1> HIDE DEF es2, ne
<1>6. /\ st2 \in Seq(SectionType) /\ Len(st2) = Len(st)
      /\ \A k \in 1 .. Len(st) :
           /\ st2[k].name = st[k].name
           /\ st2[k].entries = IF k = last THEN es2 ELSE st[k].entries
  <2>1. st \in Seq(SectionType) /\ last \in 1 .. Len(st) /\ es2 \in Seq(EntryType)
    BY <1>1, <1>4
  <2>2. st2 \in Seq(SectionType)
    BY <1>5, <2>1, EntriesSetTyped
  <2>5. Len(st2) = Len(st)
    BY <1>5, <2>1, EntriesSet
  <2>3. \A k \in 1 .. Len(st) : st2[k].name = st[k].name
    BY <1>5, <2>1, EntriesSet
  <2>4. \A k \in 1 .. Len(st) : st2[k].entries = IF k = last THEN es2 ELSE st[k].entries
    BY <1>5, <2>1, EntriesSet
  <2> QED BY <2>2, <2>3, <2>4, <2>5
<1> SUFFICES ASSUME NEW s \in Sections
    PROVE  /\ Find(st2, s) = 0 <=> HeadsOf(got2, s) = {}
           /\ Find(st2, s) # 0 => (Find(st2, s) = Len(st2) <=> Counts(got2, s))
           /\ \A n \in Names : Lookup(st2, s, n) = FirstHit(got2, s, n)
  BY <1>1, <1>6 DEF Reads
<1>7. Find(st2, s) = Find(st, s) /\ Find(st, s) \in 0 .. Len(st)
  <2>1. Len(st2) = Len(st) /\ \A k \in 1 .. Len(st2) : st2[k].name = s <=> st[k].name = s
    BY <1>6
  <2>2. Find(st2, s) = Find(st, s)
    BY <1>1, <1>6, <2>1, FindSame
  <2> QED BY <1>1, <2>2, FindSpec
<1>8. /\ \A i : i \in Heads(got2) <=> i \in Heads(got)
      /\ \A i : i \in HeadsOf(got2, s) <=> i \in HeadsOf(got, s)
  BY HeadsGrow
<1>9. Heads(got2) = Heads(got) /\ HeadsOf(got2, s) = HeadsOf(got, s)
  BY <1>8
<1>10. Counts(got2, s) <=> Counts(got, s)
  BY <1>9, FirstStays DEF Counts
<1>11. /\ Find(st, s) = 0 <=> HeadsOf(got, s) = {}
       /\ Find(st, s) # 0 => (Find(st, s) = Len(st) <=> Counts(got, s))
       /\ \A n \in Names : Lookup(st, s, n) = FirstHit(got, s, n)
  BY DEF Reads
<1>12. ASSUME NEW n \in Names PROVE Lookup(st2, s, n) = FirstHit(got2, s, n)
  <2>1. FirstHit(got2, s, n) =
          IF Hits(got, s, n) # {} THEN FirstHit(got, s, n)
          ELSE IF Counts(got, s) /\ l.name = n THEN l.data ELSE NoText
    BY FirstHitGrows
  <2>2. Hits(got, s, n) = {} => FirstHit(got, s, n) = NoText
    BY DEF FirstHit
  <2>3. Hits(got, s, n) # {} => FirstHit(got, s, n) # NoText
    <3>1. ASSUME Hits(got, s, n) # {} PROVE FirstHit(got, s, n) # NoText
      <4>1. Hits(got, s, n) \subseteq 1 .. Len(got)
        BY DEF Hits, Body
      <4>2. Hits(got, s, n) \subseteq Nat
        BY <4>1
      <4>3. Min(Hits(got, s, n)) \in Hits(got, s, n)
        BY <3>1, <4>2, MinSpec
      <4> DEFINE m == Min(Hits(got, s, n))
      <4>4. m \in 1 .. Len(got) /\ got[m].kind = "entry"
        BY <4>3 DEF Hits, Body
      <4> HIDE DEF m
      <4>5. got[m] \in Lines
        BY <4>4
      <4>6. got[m].data \in Texts
        BY <4>4, <4>5, LinesTyped
      <4> QED BY <3>1, <4>6, NoTextIsNone DEF FirstHit, m
    <3> QED BY <3>1
  <2>4. CASE Find(st, s) = 0
    <3>1. Lookup(st2, s, n) = NoText /\ Lookup(st, s, n) = NoText
      BY <1>7, <2>4 DEF Lookup
    <3>2. ~Counts(got, s)
      BY <1>11, <2>4 DEF Counts
    <3> QED BY <1>11, <2>1, <3>1, <3>2
  <2>5. CASE Find(st, s) # 0 /\ Find(st, s) # Len(st)
    <3>1. st2[Find(st, s)].entries = st[Find(st, s)].entries
      BY <1>1, <1>6, <1>7, <2>5
    <3>2. Lookup(st2, s, n) = Lookup(st, s, n)
      BY <1>7, <2>5, <3>1 DEF Lookup
    <3>3. ~Counts(got, s)
      BY <1>11, <2>5
    <3> QED BY <1>11, <2>1, <2>2, <3>2, <3>3
  <2>6. CASE Find(st, s) = Len(st)
    <3>1. st2[Find(st2, s)].entries = es2 /\ st[Find(st, s)].entries = es
      BY <1>1, <1>6, <1>7, <2>6
    <3>2. Find(st, s) # 0 /\ Find(st2, s) # 0 /\ Counts(got, s)
      BY <1>1, <1>7, <1>11, <2>6
    <3>3. Find(es2, n) = IF Find(es, n) # 0 THEN Find(es, n)
                         ELSE IF ne.name = n THEN Len(es) + 1 ELSE 0
      BY <1>2, <1>3, FindAdd DEF es2
    <3>4. Find(es, n) \in 0 .. Len(es)
      BY <1>3, FindSpec
    <3>5. Lookup(st2, s, n) = IF Find(es2, n) = 0 THEN NoText ELSE es2[Find(es2, n)].data
      BY <3>1, <3>2 DEF Lookup
    <3>6. Lookup(st, s, n) = IF Find(es, n) = 0 THEN NoText ELSE es[Find(es, n)].data
      BY <3>1, <3>2 DEF Lookup
    <3>7. Find(es, n) = 0 <=> Hits(got, s, n) = {}
      BY <1>1, <1>11, <2>2, <2>3, <3>1, <3>2, LookupNone
    <3>8. CASE Find(es, n) # 0
      <4>1. Find(es2, n) = Find(es, n) /\ es2[Find(es, n)] = es[Find(es, n)]
        BY <1>3, <1>4, <3>3, <3>4, <3>8
      <4> QED BY <1>11, <2>1, <3>5, <3>6, <3>7, <3>8, <4>1
    <3>9. CASE Find(es, n) = 0 /\ ne.name = n
      <4>1. Find(es2, n) = Len(es) + 1 /\ es2[Len(es) + 1].data = l.data
        BY <1>2, <1>4, <3>3, <3>9
      <4> QED BY <1>2, <1>3, <2>1, <3>2, <3>5, <3>7, <3>9, <4>1
    <3>10. CASE Find(es, n) = 0 /\ ne.name # n
      BY <1>2, <2>1, <3>3, <3>5, <3>7, <3>10
    <3> QED BY <3>8, <3>9, <3>10
  <2> QED BY <2>4, <2>5, <2>6
<1> QED BY <1>6, <1>7, <1>9, <1>10, <1>11, <1>12

LEMMA OtherRead ==
  ASSUME NEW got \in Seq(Lines), NEW l \in Lines, NEW got2, got2 = Append(got, l),
         NEW st, Reads(st, got), l.kind \notin {"section", "entry"}
  PROVE  Reads(st, got2)
<1> SUFFICES ASSUME NEW s \in Sections
    PROVE  /\ Find(st, s) = 0 <=> HeadsOf(got2, s) = {}
           /\ Find(st, s) # 0 => (Find(st, s) = Len(st) <=> Counts(got2, s))
           /\ \A n \in Names : Lookup(st, s, n) = FirstHit(got2, s, n)
  BY DEF Reads
<1>1. /\ \A i : i \in Heads(got2) <=> i \in Heads(got)
      /\ \A i : i \in HeadsOf(got2, s) <=> i \in HeadsOf(got, s)
  BY HeadsGrow
<1>2. Heads(got2) = Heads(got) /\ HeadsOf(got2, s) = HeadsOf(got, s)
  BY <1>1
<1>3. Counts(got2, s) <=> Counts(got, s)
  BY <1>2, FirstStays DEF Counts
<1>4. \A n \in Names : Hits(got, s, n) = {} => FirstHit(got, s, n) = NoText
  BY DEF FirstHit
<1>5. \A n \in Names : FirstHit(got2, s, n) = FirstHit(got, s, n)
  BY <1>4, FirstHitGrows
<1>6. /\ Find(st, s) = 0 <=> HeadsOf(got, s) = {}
      /\ Find(st, s) # 0 => (Find(st, s) = Len(st) <=> Counts(got, s))
      /\ \A n \in Names : Lookup(st, s, n) = FirstHit(got, s, n)
  BY DEF Reads
<1> QED BY <1>2, <1>3, <1>5, <1>6

LEMMA LineRead ==
  ASSUME NEW got \in Seq(Lines), NEW l \in Lines, NEW st, Reads(st, got)
  PROVE  Reads(AddLine(st, l), Append(got, l))
<1>1. l.kind \in {"section", "entry", "open", "incomplete", "comment"}
  BY LinesTyped
<1>2. CASE l.kind = "section"
  <2>1. AddLine(st, l) = list_add(st, Section(l.name))
    BY <1>2 DEF AddLine
  <2> QED BY <1>2, <2>1, SectionRead
<1>3. CASE l.kind = "entry"
  <2>1. AddLine(st, l) = ToLast(st, l.name, l.data)
    BY <1>3 DEF AddLine
  <2> QED BY <1>3, <2>1, EntryRead
<1>4. CASE l.kind \notin {"section", "entry"}
  <2>1. AddLine(st, l) = st
    BY <1>4 DEF AddLine
  <2> QED BY <1>4, <2>1, OtherRead
<1> QED BY <1>2, <1>3, <1>4

(* All the lines of a file.                                                *)
LEMMA AllRead ==
  ASSUME NEW lines \in Seq(Lines)
  PROVE  Reads(AfterLines(lines)[Len(lines)], lines)
<1> DEFINE Good == {k \in 0 .. Len(lines) :
                      Reads(AfterLines(lines)[k], SubSeq(lines, 1, k))}
<1>1. Len(lines) \in Nat OBVIOUS
<1>2. 0 \in Good
  <2>1. SubSeq(lines, 1, 0) = <<>> OBVIOUS
  <2>2. AfterLines(lines)[0] = <<Section(0)>>
    BY AfterLinesDef
  <2>3. Reads(AfterLines(lines)[0], SubSeq(lines, 1, 0))
    BY <2>1, <2>2, NothingRead, Zenon
  <2>4. 0 \in 0 .. Len(lines)
    BY <1>1
  <2> QED BY <2>3, <2>4, Zenon
<1>3. ASSUME NEW k \in 0 .. Len(lines) - 1, k \in Good PROVE k + 1 \in Good
  <2>1. /\ k + 1 \in 1 .. Len(lines) /\ k + 1 - 1 = k
        /\ lines[k + 1] \in Lines /\ SubSeq(lines, 1, k) \in Seq(Lines)
    BY <1>1
  <2>2. AfterLines(lines)[k + 1] = AddLine(AfterLines(lines)[k], lines[k + 1])
    BY <2>1, AfterLinesDef
  <2>3. SubSeq(lines, 1, k + 1) = Append(SubSeq(lines, 1, k), lines[k + 1])
    BY <1>1
  <2>4. Reads(AfterLines(lines)[k], SubSeq(lines, 1, k))
    BY <1>3
  <2>5. Reads(AfterLines(lines)[k + 1], SubSeq(lines, 1, k + 1))
    BY <2>1, <2>2, <2>3, <2>4, LineRead
  <2> QED BY <1>1, <2>1, <2>5
<1>4. Len(lines) \in Good
  <2> HIDE DEF Good
  <2>1. \A k \in 0 .. Len(lines) : k \in Good
    BY <1>1, <1>2, <1>3, Induction
  <2> QED BY <1>1, <2>1
<1>5. SubSeq(lines, 1, Len(lines)) = lines OBVIOUS
<1> QED BY <1>4, <1>5

LEMMA FileRead ==
  ASSUME NEW file \in Files
  PROVE  Reads(Parsed(file), LinesRead(file))
<1>1. file.lines \in Seq(Lines)
  BY FilesAssumption DEF FilesAssumption
<1>2. LinesRead(file) \in Seq(Lines)
  BY <1>1 DEF LinesRead, Front
<1> QED BY <1>2, AllRead DEF Parsed

LEMMA FindsFirstAlways == FindsFirst
<1> SUFFICES ASSUME NEW file \in Files, NEW s \in Sections, NEW n \in Names
    PROVE  Lookup(Parsed(file), s, n) = FirstHit(LinesRead(file), s, n)
  BY DEF FindsFirst
<1> QED BY FileRead DEF Reads

(* A lookup in what ini_read makes of a file finds the first entry of that *)
(* name below the first header of that section, whatever the file.         *)
THEOREM FindsTheFirst == Spec => []FindsFirst
BY FindsFirstAlways, PTL

-----------------------------------------------------------------------------
(* The exchange sort                                                       *)

LEMMA InnerLoopDef ==
  ASSUME NEW T, NEW es \in Seq(T), NEW i
  PROVE  /\ InnerLoop(es, i)[0] = es
         /\ \A j \in 1 .. Len(es) :
              InnerLoop(es, i)[j] = Exchange(InnerLoop(es, i)[j - 1], i, j)
<1> DEFINE Rows(g, m) ==
             [j \in 0 .. m |-> IF j = 0 THEN es ELSE Exchange(g[j - 1], i, j)]
           Has == {m \in Nat : \E g : g = Rows(g, m)}
<1>1. 0 \in Has
  <2> DEFINE g == [j \in 0 .. 0 |-> es]
  <2>1. g = Rows(g, 0) OBVIOUS
  <2> QED BY <2>1
<1>2. ASSUME NEW m \in 0 .. Len(es) - 1, m \in Has PROVE m + 1 \in Has
  <2>1. PICK g : g = Rows(g, m)
    BY <1>2
  <2> DEFINE h == [j \in 0 .. m + 1 |->
                     IF j = m + 1 THEN Exchange(g[m], i, m + 1) ELSE g[j]]
  <2>2. \A j \in 0 .. m + 1 : h[j] = IF j = 0 THEN es ELSE Exchange(h[j - 1], i, j)
    <3> SUFFICES ASSUME NEW j \in 0 .. m + 1
        PROVE  h[j] = IF j = 0 THEN es ELSE Exchange(h[j - 1], i, j)
        OBVIOUS
    <3>1. CASE j = m + 1
      BY <3>1
    <3>2. CASE j \in 0 .. m
      <4>1. g[j] = IF j = 0 THEN es ELSE Exchange(g[j - 1], i, j)
        BY <2>1, <3>2
      <4>2. h[j] = g[j] /\ (j # 0 => h[j - 1] = g[j - 1])
        BY <3>2
      <4> QED BY <4>1, <4>2
    <3> QED BY <3>1, <3>2
  <2>3. h = [j \in 0 .. m + 1 |-> h[j]]
    OBVIOUS
  <2>4. m + 1 \in Nat
    OBVIOUS
  <2> HIDE DEF h
  <2>5. h = Rows(h, m + 1)
    BY <2>2, <2>3
  <2> QED BY <2>4, <2>5
<1>3. Len(es) \in Has
  <2>1. Len(es) \in Nat OBVIOUS
  <2> HIDE DEF Has
  <2>2. \A k \in 0 .. Len(es) : k \in Has
    BY <1>1, <1>2, <2>1, Induction
  <2> QED BY <2>1, <2>2
<1>4. \E g : g = Rows(g, Len(es))
  BY <1>3
<1>5. InnerLoop(es, i) = Rows(InnerLoop(es, i), Len(es))
  BY <1>4, Zenon DEF InnerLoop
<1>6. 0 \in 0 .. Len(es) /\ \A j \in 1 .. Len(es) : j \in 0 .. Len(es) /\ j # 0
  OBVIOUS
<1> QED BY <1>5, <1>6

LEMMA OuterLoopDef ==
  ASSUME NEW T, NEW es \in Seq(T)
  PROVE  /\ OuterLoop(es)[0] = es
         /\ \A i \in 1 .. Len(es) :
              OuterLoop(es)[i] = InnerLoop(OuterLoop(es)[i - 1], i)[Len(es)]
<1> DEFINE Round(e, i) == InnerLoop(e, i)[Len(es)]
           Rows(g, m) ==
             [i \in 0 .. m |-> IF i = 0 THEN es ELSE Round(g[i - 1], i)]
           Has == {m \in Nat : \E g : g = Rows(g, m)}
<1> HIDE DEF Round
<1>1. 0 \in Has
  <2> DEFINE g == [i \in 0 .. 0 |-> es]
  <2>1. g = Rows(g, 0) OBVIOUS
  <2> QED BY <2>1
<1>2. ASSUME NEW m \in 0 .. Len(es) - 1, m \in Has PROVE m + 1 \in Has
  <2>1. PICK g : g = Rows(g, m)
    BY <1>2
  <2> DEFINE h == [i \in 0 .. m + 1 |->
                     IF i = m + 1 THEN Round(g[m], m + 1) ELSE g[i]]
  <2>2. \A i \in 0 .. m + 1 : h[i] = IF i = 0 THEN es ELSE Round(h[i - 1], i)
    <3> SUFFICES ASSUME NEW i \in 0 .. m + 1
        PROVE  h[i] = IF i = 0 THEN es ELSE Round(h[i - 1], i)
        OBVIOUS
    <3>1. CASE i = m + 1
      BY <3>1
    <3>2. CASE i \in 0 .. m
      <4>1. g[i] = IF i = 0 THEN es ELSE Round(g[i - 1], i)
        BY <2>1, <3>2
      <4>2. h[i] = g[i] /\ (i # 0 => h[i - 1] = g[i - 1])
        BY <3>2
      <4> QED BY <4>1, <4>2
    <3> QED BY <3>1, <3>2
  <2>3. h = [i \in 0 .. m + 1 |-> h[i]]
    OBVIOUS
  <2>4. m + 1 \in Nat
    OBVIOUS
  <2> HIDE DEF h
  <2>5. h = Rows(h, m + 1)
    BY <2>2, <2>3
  <2> QED BY <2>4, <2>5
<1>3. Len(es) \in Has
  <2>1. Len(es) \in Nat OBVIOUS
  <2> HIDE DEF Has
  <2>2. \A k \in 0 .. Len(es) : k \in Has
    BY <1>1, <1>2, <2>1, Induction
  <2> QED BY <2>1, <2>2
<1>4. \E g : g = Rows(g, Len(es))
  BY <1>3
<1>5. OuterLoop(es) = Rows(OuterLoop(es), Len(es))
  BY <1>4, Zenon DEF OuterLoop, Round
<1>6. 0 \in 0 .. Len(es) /\ \A i \in 1 .. Len(es) : i \in 0 .. Len(es) /\ i # 0
  OBVIOUS
<1> QED BY <1>5, <1>6 DEF Round

(* The same entries, those without a name in place.                        *)
Permutes(place, a, es) ==
  /\ place \in Bijection(1 .. Len(es), 1 .. Len(es))
  /\ \A j \in 1 .. Len(es) : a[j] = es[place[j]]
Shuffled(a, es) ==
  /\ a \in Seq(EntryType) /\ Len(a) = Len(es)
  /\ \E place : Permutes(place, a, es)
  /\ \A j \in 1 .. Len(es) : /\ a[j].name = 0 <=> es[j].name = 0
                             /\ es[j].name = 0 => a[j] = es[j]

(* The entries before i are in order, and none before j is above entry i.  *)
Ordered(a, i) ==
  \A k, l \in 1 .. Len(a) :
    k < l /\ l < i /\ a[k].name # 0 /\ a[l].name # 0 => a[k].name <= a[l].name
Highest(a, i, j) ==
  a[i].name # 0 =>
    \A k \in 1 .. Len(a) : k < j /\ a[k].name # 0 => a[k].name <= a[i].name

LEMMA BijectionSpec ==
  ASSUME NEW S, NEW T, NEW f
  PROVE  f \in Bijection(S, T) <=>
           /\ f \in [S -> T]
           /\ \A x, y \in S : f[x] = f[y] => x = y
           /\ \A y \in T : \E x \in S : f[x] = y
BY DEF Bijection, Injection, Surjection, IsInjective

(* Two places have been exchanged, and no other has changed.               *)
Swapped(q, p, S, i, j) ==
  /\ q[i] = p[j] /\ q[j] = p[i]
  /\ \A k \in S : k # i /\ k # j => q[k] = p[k]

(* A permutation with two of its places exchanged is one.                  *)
LEMMA ExchangedPermutes ==
  ASSUME NEW S, NEW p \in Bijection(S, S), NEW i \in S, NEW j \in S,
         NEW q \in [S -> S], Swapped(q, p, S, i, j)
  PROVE  q \in Bijection(S, S)
<1>1. /\ p \in [S -> S]
      /\ \A x, y \in S : p[x] = p[y] => x = y
      /\ \A y \in S : \E x \in S : p[x] = y
  BY BijectionSpec
<1>2. /\ q[i] = p[j] /\ q[j] = p[i]
      /\ \A k \in S : k # i /\ k # j => q[k] = p[k]
  BY DEF Swapped
<1>3. ASSUME NEW x \in S, NEW y \in S, q[x] = q[y] PROVE x = y
  BY <1>1, <1>2, <1>3
<1>4. ASSUME NEW y \in S PROVE \E x \in S : q[x] = y
  <2>1. PICK x \in S : p[x] = y
    BY <1>1
  <2>2. CASE x = i BY <1>2, <2>1, <2>2
  <2>3. CASE x = j BY <1>2, <2>1, <2>3
  <2>4. CASE x # i /\ x # j BY <1>2, <2>1, <2>4
  <2> QED BY <2>2, <2>3, <2>4
<1>5. \A x, y \in S : q[x] = q[y] => x = y
  BY <1>3
<1>6. \A y \in S : \E x \in S : q[x] = y
  BY <1>4
<1>7. q \in [S -> S]
  OBVIOUS
<1>8. q \in Injection(S, S) /\ q \in Surjection(S, S)
  BY <1>5, <1>6, <1>7 DEF Injection, Surjection, IsInjective
<1> QED BY <1>8 DEF Bijection

(* Entry j takes the place of entry i and i's that of j if j is above i.   *)
Above(a, i, j) ==
  i # j /\ a[i].name # 0 /\ a[j].name # 0 /\ a[j].name > a[i].name

LEMMA ExchangeSpec ==
  ASSUME NEW a \in Seq(EntryType), NEW i \in 1 .. Len(a), NEW j \in 1 .. Len(a),
         NEW b, b = Exchange(a, i, j)
  PROVE  /\ b \in Seq(EntryType) /\ Len(b) = Len(a)
         /\ Above(a, i, j) => Swapped(b, a, 1 .. Len(a), i, j)
         /\ ~Above(a, i, j) => b = a
<1>1. CASE Above(a, i, j)
  <2>1. b = [a EXCEPT ![i] = a[j], ![j] = a[i]]
    BY <1>1 DEF Exchange, Above
  <2>2. a[i] \in EntryType /\ a[j] \in EntryType
    OBVIOUS
  <2>3. b \in Seq(EntryType) /\ Len(b) = Len(a)
    BY <2>1, <2>2
  <2>4. b[i] = a[j] /\ b[j] = a[i] /\ \A k \in 1 .. Len(a) : k # i /\ k # j => b[k] = a[k]
    BY <2>1
  <2> QED BY <1>1, <2>3, <2>4 DEF Swapped
<1>2. CASE ~Above(a, i, j)
  BY <1>2 DEF Exchange, Above
<1> QED BY <1>1, <1>2

LEMMA ExchangeShuffles ==
  ASSUME NEW es \in Seq(EntryType), NEW a \in Seq(EntryType), Shuffled(a, es),
         NEW i \in 1 .. Len(a), NEW j \in 1 .. Len(a),
         NEW b, b = Exchange(a, i, j)
  PROVE  Shuffled(b, es)
<1>1. Len(a) = Len(es)
  BY DEF Shuffled
<1>2. i \in 1 .. Len(es) /\ j \in 1 .. Len(es)
  BY <1>1
<1>3. b \in Seq(EntryType) /\ Len(b) = Len(a)
  BY ExchangeSpec
<1>4. CASE ~Above(a, i, j)
  <2>1. b = a
    BY <1>4, ExchangeSpec
  <2> QED BY <2>1
<1>5. CASE Above(a, i, j)
  <2>1. PICK p : Permutes(p, a, es)
    BY DEF Shuffled
  <2>2. PICK q : q = [p EXCEPT ![i] = p[j], ![j] = p[i]]
    OBVIOUS
  <2>3. PICK S : S = 1 .. Len(es)
    OBVIOUS
  <2>4. p \in Bijection(S, S) /\ i \in S /\ j \in S
    BY <1>2, <2>1, <2>3 DEF Permutes
  <2>5. q \in Bijection(S, S) /\ Swapped(q, p, S, i, j)
    <3>1. p \in [S -> S]
      BY <2>4, BijectionSpec
    <3>2. q \in [S -> S] /\ Swapped(q, p, S, i, j)
      BY <2>2, <2>4, <3>1 DEF Swapped
    <3> HIDE <2>2
    <3> QED BY <2>4, <3>2, ExchangedPermutes
  <2>6. Swapped(b, a, S, i, j)
    BY <1>1, <1>5, <2>3, ExchangeSpec
  <2>7. \A k \in S : a[k] = es[p[k]]
    BY <2>1, <2>3, Zenon DEF Permutes
  <2>8. \A k \in S : b[k] = es[q[k]]
    BY <2>4, <2>5, <2>6, <2>7 DEF Swapped
  <2>9. Permutes(q, b, es)
    BY <2>3, <2>5, <2>8 DEF Permutes
  <2>10. \A k \in S : a[k].name = 0 <=> es[k].name = 0
    BY <2>3 DEF Shuffled
  <2>11. \A k \in S : es[k].name = 0 => a[k] = es[k]
    BY <2>3 DEF Shuffled
  <2>12. b[i].name # 0 /\ b[j].name # 0 /\ es[i].name # 0 /\ es[j].name # 0
    BY <1>5, <2>4, <2>6, <2>10 DEF Above, Swapped
  <2>13. \A k \in S : b[k].name = 0 <=> es[k].name = 0
    BY <2>6, <2>10, <2>12 DEF Swapped
  <2>14. \A k \in S : es[k].name = 0 => b[k] = es[k]
    BY <2>6, <2>11, <2>12 DEF Swapped
  <2> QED BY <1>1, <1>3, <2>3, <2>9, <2>13, <2>14 DEF Shuffled
<1> QED BY <1>4, <1>5

LEMMA ShuffledRefl == ASSUME NEW es \in Seq(EntryType) PROVE Shuffled(es, es)
<1> DEFINE p == [k \in 1 .. Len(es) |-> k]
<1>1. Permutes(p, es, es)
  BY BijectionSpec DEF Permutes
<1> QED BY <1>1 DEF Shuffled

LEMMA ExchangeOrders ==
  ASSUME NEW a \in Seq(EntryType), NEW i \in 1 .. Len(a), NEW j \in 1 .. Len(a),
         Ordered(a, i), Highest(a, i, j), NEW b, b = Exchange(a, i, j)
  PROVE  Ordered(b, i) /\ Highest(b, i, j + 1)
<1>1. /\ b \in Seq(EntryType) /\ Len(b) = Len(a)
      /\ Above(a, i, j) => Swapped(b, a, 1 .. Len(a), i, j)
      /\ ~Above(a, i, j) => b = a
  BY ExchangeSpec
<1>2. \A k \in 1 .. Len(a) : a[k].name \in Nat /\ b[k].name \in Nat
  <2>1. Names \subseteq Nat BY IniAssumption DEF IniAssumption
  <2> QED BY <1>1, <2>1, EntriesTyped
<1>3. Len(a) \in Nat OBVIOUS
<1>4. CASE Above(a, i, j)
  <2> USE <1>4 DEF Above, Swapped
  <2>1. Highest(b, i, j + 1)
    BY <1>1, <1>2, <1>3, <1>4 DEF Highest
  <2>2. ASSUME NEW k \in 1 .. Len(a), NEW l \in 1 .. Len(a), k < l, l < i,
               b[k].name # 0, b[l].name # 0
        PROVE  b[k].name <= b[l].name
    <3>1. CASE k # j /\ l # j
      BY <1>1, <1>3, <2>2, <3>1 DEF Ordered
    <3>2. CASE k = j
      <4>1. a[j].name <= a[l].name
        BY <1>1, <1>3, <1>4, <2>2, <3>2 DEF Ordered
      <4> QED BY <1>1, <1>2, <1>3, <1>4, <2>2, <3>2, <4>1
    <3>3. CASE l = j
      <4>1. a[k].name <= a[i].name
        BY <1>1, <1>3, <1>4, <2>2, <3>3 DEF Highest
      <4> QED BY <1>1, <1>2, <1>3, <1>4, <2>2, <3>3, <4>1
    <3> QED BY <3>1, <3>2, <3>3
  <2>3. Ordered(b, i)
    BY <1>1, <2>2 DEF Ordered
  <2> QED BY <2>1, <2>3
<1>5. CASE ~Above(a, i, j)
  BY <1>1, <1>2, <1>3, <1>5 DEF Ordered, Highest, Above
<1> QED BY <1>4, <1>5

(* One round of the outer loop leaves one more entry in order.             *)
LEMMA InnerLoopOrders ==
  ASSUME NEW es \in Seq(EntryType), NEW a, Shuffled(a, es),
         NEW i \in 1 .. Len(es), Ordered(a, i),
         NEW b, b = InnerLoop(a, i)[Len(es)]
  PROVE  Shuffled(b, es) /\ Ordered(b, i + 1)
<1>1. a \in Seq(EntryType) /\ Len(a) = Len(es) /\ Len(es) \in Nat
  BY DEF Shuffled
<1> DEFINE Good == {j \in 0 .. Len(es) :
                      /\ Shuffled(InnerLoop(a, i)[j], es)
                      /\ Ordered(InnerLoop(a, i)[j], i)
                      /\ Highest(InnerLoop(a, i)[j], i, j + 1)}
<1>2. 0 \in Good
  <2>1. InnerLoop(a, i)[0] = a
    BY <1>1, InnerLoopDef
  <2>2. Highest(a, i, 0 + 1)
    BY DEF Highest
  <2>3. 0 \in 0 .. Len(es) BY <1>1
  <2> QED BY <2>1, <2>2, <2>3
<1>3. ASSUME NEW j \in 0 .. Len(es) - 1, j \in Good PROVE j + 1 \in Good
  <2>1. PICK c : c = InnerLoop(a, i)[j]
    OBVIOUS
  <2>2. Shuffled(c, es) /\ Ordered(c, i) /\ Highest(c, i, j + 1)
    BY <1>3, <2>1
  <2>3. j + 1 \in 1 .. Len(es) /\ j + 1 - 1 = j /\ j + 1 \in 0 .. Len(es)
    BY <1>1
  <2>4. PICK d : d = Exchange(c, i, j + 1)
    OBVIOUS
  <2>5. InnerLoop(a, i)[j + 1] = d
    BY <1>1, <2>1, <2>3, <2>4, InnerLoopDef
  <2>6. c \in Seq(EntryType) /\ Len(c) = Len(es)
    BY <2>2 DEF Shuffled
  <2>7. Shuffled(d, es)
    BY <2>2, <2>3, <2>4, <2>6, ExchangeShuffles
  <2>8. Ordered(d, i) /\ Highest(d, i, j + 1 + 1)
    BY <2>2, <2>3, <2>4, <2>6, ExchangeOrders
  <2> QED BY <2>3, <2>5, <2>7, <2>8
<1>4. Len(es) \in Good
  <2> HIDE DEF Good
  <2>1. \A j \in 0 .. Len(es) : j \in Good
    BY <1>1, <1>2, <1>3, Induction
  <2> QED BY <1>1, <2>1
<1>5. Shuffled(b, es) /\ Ordered(b, i) /\ Highest(b, i, Len(es) + 1)
  BY <1>4
<1>6. Ordered(b, i + 1)
  <2>1. Len(b) = Len(es) BY <1>5 DEF Shuffled
  <2> QED BY <1>1, <1>5, <2>1 DEF Ordered, Highest
<1> QED BY <1>5, <1>6

(* All the rounds leave all of them in order.                              *)
LEMMA SortedSpec ==
  ASSUME NEW es \in Seq(EntryType)
  PROVE  Shuffled(Sorted(es), es) /\ Ordered(Sorted(es), Len(es) + 1)
<1>1. Len(es) \in Nat OBVIOUS
<1> DEFINE Good == {i \in 0 .. Len(es) :
                      /\ Shuffled(OuterLoop(es)[i], es)
                      /\ Ordered(OuterLoop(es)[i], i + 1)}
<1>2. 0 \in Good
  <2>1. OuterLoop(es)[0] = es
    BY OuterLoopDef
  <2>2. Ordered(es, 0 + 1)
    BY DEF Ordered
  <2>3. 0 \in 0 .. Len(es) BY <1>1
  <2> QED BY <2>1, <2>2, <2>3, ShuffledRefl
<1>3. ASSUME NEW i \in 0 .. Len(es) - 1, i \in Good PROVE i + 1 \in Good
  <2>1. PICK a : a = OuterLoop(es)[i]
    OBVIOUS
  <2>2. Shuffled(a, es) /\ Ordered(a, i + 1)
    BY <1>3, <2>1
  <2>3. i + 1 \in 1 .. Len(es) /\ i + 1 - 1 = i /\ i + 1 \in 0 .. Len(es)
    BY <1>1
  <2>4. PICK b : b = InnerLoop(a, i + 1)[Len(es)]
    OBVIOUS
  <2>5. OuterLoop(es)[i + 1] = b
    BY <2>1, <2>3, <2>4, OuterLoopDef
  <2>6. Shuffled(b, es) /\ Ordered(b, i + 1 + 1)
    BY <2>2, <2>3, <2>4, InnerLoopOrders
  <2> QED BY <2>3, <2>5, <2>6
<1>4. Len(es) \in Good
  <2> HIDE DEF Good
  <2>1. \A i \in 0 .. Len(es) : i \in Good
    BY <1>1, <1>2, <1>3, Induction
  <2> QED BY <1>1, <2>1
<1> QED BY <1>4 DEF Sorted

-----------------------------------------------------------------------------
(* Types                                                                   *)

LEMMA NoneTyped == <<>> \in Seq(SectionType)
OBVIOUS

LEMMA InitTyped == Init => TypeOK
<1>1. MaxCalls \in Nat
  BY IniAssumption DEF IniAssumption
<1>2. Init => calls \in 0 .. MaxCalls
  BY <1>1 DEF Init
<1>3. Init => up \in BOOLEAN /\ store \in Seq(SectionType) /\ (~up => store = <<>>)
  BY NoneTyped, Zenon DEF Init
<1> QED BY <1>2, <1>3 DEF TypeOK

(* A call within the bound that leaves a typed store.                      *)
LEMMA CallTyped ==
  ASSUME TypeOK, Call, store' \in Seq(SectionType), up' \in BOOLEAN,
         ~up' => store' = <<>>
  PROVE  TypeOK'
BY IniAssumption DEF TypeOK, Call, IniAssumption

(* What an entry of a section turns into.                                  *)
LEMMA WithSectionSpec ==
  ASSUME NEW st \in Seq(SectionType), NEW s \in Sections,
         NEW new, new = WithSection(st, s), NEW i, i = Find(new, s)
  PROVE  new \in Seq(SectionType) /\ i \in 1 .. Len(new)
<1>1. CASE Find(st, s) # 0
  <2>1. new = st BY <1>1 DEF WithSection
  <2> QED BY <1>1, <2>1, FindSpec
<1>2. CASE Find(st, s) = 0
  <2>1. new = list_add(st, Section(s)) BY <1>2 DEF WithSection
  <2>2. Section(s) \in SectionType /\ Section(s).name = s BY SectionTyped
  <2>3. new \in Seq(SectionType) /\ Len(new) = Len(st) + 1
    BY <2>1, <2>2, AddSpec
  <2>4. i = Len(st) + 1
    BY <1>2, <2>1, <2>2, FindAdd
  <2> QED BY <2>3, <2>4
<1> QED BY <1>1, <1>2

LEMMA WithEntryTyped ==
  ASSUME NEW es \in Seq(EntryType), NEW n \in Names, NEW t \in Texts
  PROVE  WithEntry(es, n, t) \in Seq(EntryType)
<1>1. CASE Find(es, n) = 0
  <2>1. WithEntry(es, n, t) = list_add(es, Entry(n, t))
    BY <1>1 DEF WithEntry
  <2> QED BY <2>1, EntryTyped, AddSpec
<1>2. CASE Find(es, n) # 0
  <2>1. WithEntry(es, n, t) = [es EXCEPT ![Find(es, n)].data = t]
    BY <1>2 DEF WithEntry
  <2>2. Find(es, n) \in 1 .. Len(es)
    BY <1>2, FindSpec
  <2>3. PICK j \in 1 .. Len(es) : j = Find(es, n)
    BY <2>2
  <2>4. PICK new : new = [es EXCEPT ![j].data = t]
    OBVIOUS
  <2>5. new \in Seq(EntryType)
    BY <2>4, DataSet
  <2> QED BY <2>1, <2>3, <2>4, <2>5
<1> QED BY <1>1, <1>2

(* One section's entries are replaced in place.                            *)
LEMMA ReplaceTyped ==
  ASSUME TypeOK, NEW i \in 1 .. Len(store), NEW es \in Seq(EntryType),
         Call, store' = [store EXCEPT ![i].entries = es], UNCHANGED up
  PROVE  TypeOK'
<1>1. store \in Seq(SectionType) /\ up \in BOOLEAN /\ (~up => store = <<>>)
  BY DEF TypeOK
<1>2. store' \in Seq(SectionType)
  BY <1>1, EntriesSetTyped
<1>3. up
  BY <1>1
<1> QED BY <1>1, <1>2, <1>3, CallTyped

(* A section that a find_section has found.                                *)
LEMMA FoundTyped ==
  ASSUME TypeOK, NEW s, NEW i, i = Find(store, s), i # 0
  PROVE  i \in 1 .. Len(store) /\ up /\ store \in Seq(SectionType)
         /\ store[i].entries \in Seq(EntryType)
<1>1. store \in Seq(SectionType)
  BY DEF TypeOK
<1>2. i \in 1 .. Len(store)
  BY <1>1, FindSpec
<1>3. up
  BY <1>2 DEF TypeOK
<1>4. store[i].entries \in Seq(EntryType)
  BY <1>1, <1>2, SectionsTyped
<1> QED BY <1>1, <1>2, <1>3, <1>4

(* The texts of the named entries are stripped.                            *)
Bare(new, st) ==
  \A i \in 1 .. Len(st) :
    /\ new[i].name = st[i].name
    /\ Len(new[i].entries) = Len(st[i].entries)
    /\ \A j \in 1 .. Len(st[i].entries) :
         /\ new[i].entries[j].name = st[i].entries[j].name
         /\ new[i].entries[j].data =
              IF st[i].entries[j].name = 0 THEN st[i].entries[j].data
              ELSE Strip(st[i].entries[j].data)

(* What ini_strip_quotes makes of a store.                                 *)
Stripped(st) == [i \in DOMAIN st |-> [st[i] EXCEPT !.entries = StripEntries(@)]]

LEMMA StoreStripped ==
  ASSUME NEW st \in Seq(SectionType), NEW new,
         new = Stripped(st)
  PROVE  /\ new \in Seq(SectionType) /\ Len(new) = Len(st)
         /\ Bare(new, st)
<1>1. ASSUME NEW es \in Seq(EntryType)
      PROVE  /\ StripEntries(es) \in Seq(EntryType)
             /\ Len(StripEntries(es)) = Len(es)
             /\ \A j \in 1 .. Len(es) :
                  /\ StripEntries(es)[j].name = es[j].name
                  /\ StripEntries(es)[j].data =
                       IF es[j].name = 0 THEN es[j].data ELSE Strip(es[j].data)
  <2>1. DOMAIN es = 1 .. Len(es) /\ Len(es) \in Nat OBVIOUS
  <2>2. ASSUME NEW e \in EntryType
        PROVE  /\ StripEntry(e) \in EntryType
               /\ StripEntry(e).name = e.name
               /\ StripEntry(e).data = IF e.name = 0 THEN e.data ELSE Strip(e.data)
    <3>1. e.data \in Texts
      BY DEF EntryType
    <3>2. PICK t \in Texts : t = Strip(e.data)
      BY <3>1, StripTyped
    <3>3. StripEntry(e) = IF e.name = 0 THEN e ELSE [e EXCEPT !.data = t]
      BY <3>2 DEF StripEntry
    <3> QED BY <3>2, <3>3, RecordSet
  <2>3. StripEntries(es) = [j \in 1 .. Len(es) |-> StripEntry(es[j])]
    BY <2>1 DEF StripEntries
  <2>4. \A j \in 1 .. Len(es) : es[j] \in EntryType
    OBVIOUS
  <2>5. StripEntries(es) \in [1 .. Len(es) -> EntryType]
    BY <2>2, <2>3, <2>4
  <2>6. StripEntries(es) \in Seq(EntryType) /\ Len(StripEntries(es)) = Len(es)
    BY <2>1, <2>5
  <2> QED BY <2>2, <2>3, <2>4, <2>6
<1>2. DOMAIN st = 1 .. Len(st) /\ Len(st) \in Nat OBVIOUS
<1>3. new = [i \in 1 .. Len(st) |-> [st[i] EXCEPT !.entries = StripEntries(st[i].entries)]]
  BY <1>2 DEF Stripped
<1>4. ASSUME NEW i \in 1 .. Len(st)
      PROVE  /\ new[i] \in SectionType /\ new[i].name = st[i].name
             /\ new[i].entries = StripEntries(st[i].entries)
             /\ st[i].entries \in Seq(EntryType)
  <2>1. st[i] \in SectionType /\ st[i].entries \in Seq(EntryType)
    BY SectionsTyped
  <2>2. PICK es \in Seq(EntryType) : es = StripEntries(st[i].entries)
    BY <1>1, <2>1
  <2>3. new[i] = [st[i] EXCEPT !.entries = es]
    BY <1>3, <2>2
  <2> QED BY <2>1, <2>2, <2>3, RecordSet
<1>5. new \in [1 .. Len(st) -> SectionType]
  BY <1>3, <1>4
<1>6. new \in Seq(SectionType) /\ Len(new) = Len(st)
  BY <1>2, <1>5
<1>7. Bare(new, st)
  BY <1>1, <1>4 DEF Bare
<1> QED BY <1>6, <1>7

LEMMA StepTyped == TypeOK /\ [Next]_vars => TypeOK'
<1> SUFFICES ASSUME TypeOK, [Next]_vars PROVE TypeOK' OBVIOUS
<1>0. store \in Seq(SectionType) /\ up \in BOOLEAN
  BY DEF TypeOK
<1>1. CASE ini_new
  BY <1>1, CallTyped, NoneTyped DEF ini_new
<1>2. CASE ini_close
  <2>1. Call /\ up' \in BOOLEAN /\ store' \in Seq(SectionType) /\ store' = <<>>
    BY <1>2, NoneTyped, Zenon DEF ini_close
  <2> QED BY <2>1, CallTyped
<1>3. CASE ini_strip_quotes
  <2>1. store' \in Seq(SectionType)
    BY <1>0, <1>3, StoreStripped DEF ini_strip_quotes, Stripped
  <2> QED BY <1>0, <1>3, <2>1, CallTyped DEF ini_strip_quotes
<1>4. ASSUME NEW file \in Files, ini_read(file) PROVE TypeOK'
  <2>1. Parsed(file) \in Seq(SectionType)
    BY FileRead DEF Reads
  <2> QED BY <1>4, <2>1, CallTyped DEF ini_read
<1>5. ASSUME NEW temp \in Names, ini_write(temp) PROVE TypeOK'
  BY <1>0, <1>5, CallTyped DEF ini_write
<1>6. ASSUME NEW s \in Sections, ini_find_or_create_section(s) PROVE TypeOK'
  <2>1. store' \in Seq(SectionType)
    BY <1>0, <1>6, WithSectionSpec DEF ini_find_or_create_section
  <2> QED BY <1>0, <1>6, <2>1, CallTyped DEF ini_find_or_create_section
<1>7. ASSUME NEW s \in Sections, NEW n \in Names, NEW data \in Given, ini_set(s, n, data)
      PROVE  TypeOK'
  <2>1. PICK new : new = WithSection(store, s)
    OBVIOUS
  <2>2. PICK i : i = Find(new, s)
    OBVIOUS
  <2>3. new \in Seq(SectionType) /\ i \in 1 .. Len(new)
    BY <1>0, <2>1, <2>2, WithSectionSpec
  <2>4. PICK es : es = WithEntry(new[i].entries, n, data)
    OBVIOUS
  <2>5. es \in Seq(EntryType)
    <3>1. new[i].entries \in Seq(EntryType)
      BY <2>3, SectionsTyped
    <3> QED BY <2>4, <3>1, WithEntryTyped, GivenTyped
  <2>6. store' = [new EXCEPT ![i].entries = es]
    BY <1>7, <2>1, <2>2, <2>4 DEF ini_set
  <2>7. store' \in Seq(SectionType)
    BY <2>3, <2>5, <2>6, EntriesSetTyped
  <2> QED BY <1>0, <1>7, <2>7, CallTyped DEF ini_set
<1>8. ASSUME NEW s \in Sections, NEW i, i = Find(store, s), i # 0, OnSection(i)
      PROVE  TypeOK'
  <2>0. i \in 1 .. Len(store) /\ up /\ store[i].entries \in Seq(EntryType)
    BY <1>8, FoundTyped
  <2>1. ASSUME NEW n \in Names, ini_section_delete_var(i, n) PROVE TypeOK'
    <3>1. PICK es : es = list_delete(store[i].entries, Find(store[i].entries, n))
      OBVIOUS
    <3>2. Find(store[i].entries, n) \in 1 .. Len(store[i].entries)
      BY <2>0, <2>1, FindSpec DEF ini_section_delete_var
    <3>3. es \in Seq(EntryType)
      BY <2>0, <3>1, <3>2, DeleteSpec
    <3>4. store' = [store EXCEPT ![i].entries = es]
      BY <2>1, <3>1 DEF ini_section_delete_var
    <3> QED BY <2>0, <2>1, <3>3, <3>4, ReplaceTyped DEF ini_section_delete_var
  <2>2. ASSUME NEW n \in Names, ini_section_get_double(i, n) PROVE TypeOK'
    <3>1. PICK es : es = store[i].entries
      OBVIOUS
    <3>2. PICK j : j = Find(es, n)
      OBVIOUS
    <3>3. j \in 1 .. Len(es)
      <4>1. j # 0
        BY <2>2, <3>1, <3>2 DEF ini_section_get_double
      <4> QED BY <2>0, <3>1, <3>2, <4>1, FindSpec
    <3>4. PICK t \in Texts : t = Printed("string", ".5")
      BY WordTyped DEF Words
    <3>5. PICK new : new = [es EXCEPT ![j].data = t]
      OBVIOUS
    <3>6. new \in Seq(EntryType)
      BY <2>0, <3>1, <3>3, <3>5, DataSet
    <3>7. store' = [store EXCEPT ![i].entries[j].data = t]
      BY <2>2, <3>1, <3>2, <3>4 DEF ini_section_get_double
    <3>8. store' = [store EXCEPT ![i].entries = new]
      BY <3>1, <3>5, <3>7
    <3> QED BY <2>0, <2>2, <3>6, <3>8, ReplaceTyped DEF ini_section_get_double
  <2>3. ASSUME NEW t \in Sections, ini_rename_section(i, t) PROVE TypeOK'
    <3>1. store' \in Seq(SectionType)
      BY <1>0, <2>0, <2>3, NameSet DEF ini_rename_section
    <3> QED BY <2>0, <2>3, <3>1, CallTyped DEF ini_rename_section
  <2>4. CASE ini_delete_section_if_empty(i)
    <3>1. CASE IsEmpty(store[i])
      <4>1. store' = list_delete(store, i)
        BY <2>4, <3>1 DEF ini_delete_section_if_empty
      <4>2. store' \in Seq(SectionType)
        BY <1>0, <2>0, <4>1, DeleteSpec
      <4> QED BY <2>0, <2>4, <4>2, CallTyped DEF ini_delete_section_if_empty
    <3>2. CASE ~IsEmpty(store[i])
      <4>1. PICK es : es = Sorted(store[i].entries)
        OBVIOUS
      <4>2. es \in Seq(EntryType)
        BY <2>0, <4>1, SortedSpec DEF Shuffled
      <4>3. store' = [store EXCEPT ![i].entries = es]
        BY <2>4, <3>2, <4>1 DEF ini_delete_section_if_empty
      <4> QED BY <2>0, <2>4, <4>2, <4>3, ReplaceTyped DEF ini_delete_section_if_empty
    <3> QED BY <3>1, <3>2
  <2> QED BY <1>8, <2>1, <2>2, <2>3, <2>4 DEF OnSection
<1>9. CASE UNCHANGED vars
  BY <1>9 DEF vars, TypeOK
<1> QED BY <1>1, <1>2, <1>3, <1>4, <1>5, <1>6, <1>7, <1>8, <1>9 DEF Next

(* The store is always a list of sections of named texts, and empty        *)
(* without a configuration, whatever is read, set, cut, sorted or renamed. *)
THEOREM TypesHold == Spec => []TypeOK
BY InitTyped, StepTyped, PTL DEF Spec

(* The two loops of ini_delete_section_if_empty put the named entries in   *)
(* order, however many there are, lose none and leave the others in place. *)
THEOREM TidyingSorts == Spec => SortsEntries
<1> DEFINE Sorts ==
      \A i \in DOMAIN store :
        ini_delete_section_if_empty(i) /\ ~IsEmpty(store[i]) =>
          Rearranged(store'[i].entries, store[i].entries)
<1>1. ASSUME TypeOK, NEW i \in DOMAIN store,
             ini_delete_section_if_empty(i), ~IsEmpty(store[i])
      PROVE  Rearranged(store'[i].entries, store[i].entries)
  <2>1. store \in Seq(SectionType) /\ i \in 1 .. Len(store)
    BY <1>1 DEF TypeOK
  <2>2. PICK old : old = store[i].entries
    OBVIOUS
  <2>3. old \in Seq(EntryType) /\ Len(old) \in Nat
    BY <2>1, <2>2, SectionsTyped
  <2>4. PICK new : new = Sorted(old)
    OBVIOUS
  <2>5. Shuffled(new, old) /\ Ordered(new, Len(old) + 1)
    BY <2>3, <2>4, SortedSpec
  <2>6. new \in Seq(EntryType) /\ Len(new) = Len(old)
    BY <2>5 DEF Shuffled
  <2>7. store'[i].entries = new
    <3>1. PICK st : st = store'
      OBVIOUS
    <3>2. st = [store EXCEPT ![i].entries = new]
      BY <1>1, <2>2, <2>4, <3>1 DEF ini_delete_section_if_empty
    <3>3. \A k \in 1 .. Len(store) :
            /\ st[k].name = store[k].name
            /\ st[k].entries = IF k = i THEN new ELSE store[k].entries
      BY <2>1, <2>6, <3>2, EntriesSet
    <3>4. st[i].entries = new
      BY <2>1, <3>3
    <3> QED BY <3>1, <3>4
  <2>8. DOMAIN new = 1 .. Len(old) /\ DOMAIN old = 1 .. Len(old)
    BY <2>3, <2>6
  <2>9. \E place \in Bijection(DOMAIN new, DOMAIN old) :
          \A j \in DOMAIN new : new[j] = old[place[j]]
    BY <2>5, <2>8 DEF Shuffled, Permutes
  <2>10. ASSUME NEW j \in DOMAIN new, NEW k \in DOMAIN new, new[j].name # 0,
                new[k].name # 0, j < k
         PROVE  new[j].name <= new[k].name
    BY <2>3, <2>5, <2>6, <2>8, <2>10 DEF Ordered
  <2>11. ASSUME NEW j \in DOMAIN new, new[j].name = 0 PROVE new[j] = old[j]
    BY <2>5, <2>8, <2>11 DEF Shuffled
  <2>12. Rearranged(new, old)
    BY <2>6, <2>9, <2>10, <2>11 DEF Rearranged
  <2> QED BY <2>2, <2>7, <2>12
<1>2. TypeOK => [Sorts]_vars
  BY <1>1
<1> QED BY <1>2, TypesHold, PTL DEF SortsEntries

-----------------------------------------------------------------------------
(* What the calls do to the map                                            *)

(* What a lookup finds among the entries of a section.                     *)
TextOf(es, n) == IF Find(es, n) = 0 THEN NoText ELSE es[Find(es, n)].data

LEMMA LookupIs ==
  ASSUME NEW st, NEW s, NEW n
  PROVE  Lookup(st, s, n) = IF Find(st, s) = 0 THEN NoText
                            ELSE TextOf(st[Find(st, s)].entries, n)
BY DEF Lookup, TextOf

LEMMA ConfAt ==
  ASSUME NEW st, NEW s \in Sections, NEW n \in Names \ {0}
  PROVE  Conf(st)[<<s, n>>] = Lookup(st, s, n)
BY DEF Conf

LEMMA ConfTyped ==
  ASSUME NEW st \in Seq(SectionType)
  PROVE  Conf(st) \in [Sections \X (Names \ {0}) -> Texts \union {NoText}]
BY LookupTyped DEF Conf

(* The map is the same if all lookups are.                                 *)
LEMMA SameConf ==
  ASSUME NEW st, NEW new,
         \A s \in Sections, n \in Names \ {0} : Lookup(new, s, n) = Lookup(st, s, n)
  PROVE  Conf(new) = Conf(st)
BY DEF Conf

(* It changes at one key if one lookup does.                               *)
LEMMA OneKey ==
  ASSUME NEW st, NEW new, NEW s \in Sections, NEW n \in Names \ {0},
         \A t \in Sections, m \in Names \ {0} :
           t # s \/ m # n => Lookup(new, t, m) = Lookup(st, t, m)
  PROVE  Conf(new) = [Conf(st) EXCEPT ![<<s, n>>] = Conf(new)[<<s, n>>]]
<1> DEFINE K == Sections \X (Names \ {0})
<1>1. \A k \in K : k # <<s, n>> => Lookup(new, k[1], k[2]) = Lookup(st, k[1], k[2])
  OBVIOUS
<1>2. <<s, n>> \in K /\ Conf(new)[<<s, n>>] = Lookup(new, s, n)
  BY ConfAt
<1> QED BY <1>1, <1>2 DEF Conf

(* The names of an instance are those of another.                          *)
LEMMA SameNames ==
  ASSUME NEW T, NEW a \in Seq(T), NEW b \in Seq(T), Len(a) = Len(b),
         \A k \in 1 .. Len(a) : a[k].name = b[k].name
  PROVE  /\ Distinct(a) = Distinct(b)
         /\ NamesDiffer(a) = NamesDiffer(b)
         /\ \A name : Find(a, name) = Find(b, name)
<1>1. DOMAIN a = 1 .. Len(a) /\ DOMAIN b = 1 .. Len(a)
  OBVIOUS
<1>2. \A name : Find(a, name) = Find(b, name)
  BY FindSame
<1>3. Distinct(a) = Distinct(b)
  BY <1>1 DEF Distinct
<1>4. NamesDiffer(a) = NamesDiffer(b)
  BY <1>1 DEF NamesDiffer
<1> QED BY <1>2, <1>3, <1>4

(* Section i has other entries: only lookups in it see that.               *)
Replaced(st, i, es) == [st EXCEPT ![i].entries = es]

LEMMA ReplaceSpec ==
  ASSUME NEW st \in Seq(SectionType), NEW i \in 1 .. Len(st),
         NEW es \in Seq(EntryType), NEW new, new = Replaced(st, i, es)
  PROVE  /\ Distinct(new) = Distinct(st)
         /\ \A s, n : Find(st, s) # i => Lookup(new, s, n) = Lookup(st, s, n)
         /\ \A s, n : Find(st, s) = i => Lookup(new, s, n) = TextOf(es, n)
         /\ (NamesDiffer(st[i].entries) => NamesDiffer(es)) => (Once(st) => Once(new))
         /\ (NamesDiffer(es) => NamesDiffer(st[i].entries)) => (Once(new) => Once(st))
<1>0. \A k \in 1 .. Len(st) :
        /\ new[k].name = st[k].name
        /\ new[k].entries = IF k = i THEN es ELSE st[k].entries
  BY EntriesSet DEF Replaced
<1>1. /\ new \in Seq(SectionType) /\ Len(new) = Len(st)
      /\ \A k \in 1 .. Len(st) :
           /\ new[k].name = st[k].name
           /\ new[k].entries = IF k = i THEN es ELSE st[k].entries
  BY <1>0, EntriesSet DEF Replaced
<1>2. Distinct(new) = Distinct(st) /\ \A s : Find(new, s) = Find(st, s)
  BY <1>1, SameNames
<1>3. DOMAIN st = 1 .. Len(st) /\ DOMAIN new = 1 .. Len(st)
  BY <1>1
<1>4. \A s : Find(st, s) \in 0 .. Len(st)
  BY FindSpec
<1>5. ASSUME NEW s, NEW n, Find(st, s) # i PROVE Lookup(new, s, n) = Lookup(st, s, n)
  BY <1>1, <1>2, <1>4, <1>5, LookupIs
<1>6. ASSUME NEW s, NEW n, Find(st, s) = i PROVE Lookup(new, s, n) = TextOf(es, n)
  BY <1>1, <1>2, <1>4, <1>6, LookupIs
<1>7. (NamesDiffer(st[i].entries) => NamesDiffer(es)) => (Once(st) => Once(new))
  BY <1>1, <1>3 DEF Once
<1>8. (NamesDiffer(es) => NamesDiffer(st[i].entries)) => (Once(new) => Once(st))
  BY <1>1, <1>3 DEF Once
<1> QED BY <1>2, <1>5, <1>6, <1>7, <1>8

(* A section is found that was there, or it is new and empty.              *)
LEMMA WithSectionKeeps ==
  ASSUME NEW st \in Seq(SectionType), NEW s \in Sections,
         NEW new, new = WithSection(st, s)
  PROVE  /\ \A t, n : Lookup(new, t, n) = Lookup(st, t, n)
         /\ Distinct(new) = Distinct(st) /\ Once(new) = Once(st)
         /\ Find(new, s) # 0 /\ \A t : t # s => Find(new, t) = Find(st, t)
<1>1. CASE Find(st, s) # 0
  <2>1. new = st BY <1>1 DEF WithSection
  <2> QED BY <1>1, <2>1
<1>2. CASE Find(st, s) = 0
  <2> DEFINE sec == Section(s)
  <2>1. new = list_add(st, sec) BY <1>2 DEF WithSection
  <2>2. sec \in SectionType /\ sec.name = s /\ sec.entries = <<>> BY SectionTyped
  <2> HIDE DEF sec
  <2>3. /\ new \in Seq(SectionType) /\ Len(new) = Len(st) + 1
        /\ \A k \in 1 .. Len(st) : new[k] = st[k]
        /\ new[Len(st) + 1] = sec
    BY <2>1, <2>2 DEF list_add
  <2>4. \A t : Find(new, t) = IF Find(st, t) # 0 THEN Find(st, t)
                              ELSE IF s = t THEN Len(st) + 1 ELSE 0
    BY <2>1, <2>2, FindAdd
  <2>5. Len(st) \in Nat /\ \A t : Find(st, t) \in 0 .. Len(st)
    BY FindSpec
  <2>6. \A n : Find(<<>>, n) = 0
    BY FindInNone
  <2>7. ASSUME NEW t, NEW n PROVE Lookup(new, t, n) = Lookup(st, t, n)
    <3>1. CASE Find(st, t) # 0
      <4>1. Find(new, t) = Find(st, t) /\ new[Find(st, t)] = st[Find(st, t)]
        BY <2>3, <2>4, <2>5, <3>1
      <4> QED BY <3>1, <4>1, LookupIs
    <3>2. CASE Find(st, t) = 0 /\ t = s
      <4>1. Find(new, t) # 0 /\ new[Find(new, t)].entries = <<>>
        BY <2>2, <2>3, <2>4, <2>5, <3>2
      <4>2. TextOf(<<>>, n) = NoText
        BY <2>6 DEF TextOf
      <4> QED BY <3>2, <4>1, <4>2, LookupIs
    <3>3. CASE Find(st, t) = 0 /\ t # s
      BY <2>4, <3>3, LookupIs
    <3> QED BY <3>1, <3>2, <3>3
  <2>8. DOMAIN st = 1 .. Len(st) /\ DOMAIN new = 1 .. Len(st) + 1
    BY <2>3
  <2>9. \A k \in 1 .. Len(st) : st[k].name # s
    BY <1>2, FindSpec
  <2>10. Distinct(st) => Distinct(new)
    BY <2>2, <2>3, <2>5, <2>8, <2>9 DEF Distinct
  <2>11. Distinct(new) => Distinct(st)
    BY <2>3, <2>5, <2>8 DEF Distinct
  <2>12. NamesDiffer(sec.entries)
    BY <2>2 DEF NamesDiffer
  <2>13. Once(st) => Once(new)
    BY <2>3, <2>5, <2>8, <2>12 DEF Once
  <2>14. Once(new) => Once(st)
    BY <2>3, <2>5, <2>8 DEF Once
  <2>15. Distinct(new) = Distinct(st)
    BY <2>10, <2>11 DEF Distinct
  <2>16. Once(new) = Once(st)
    BY <2>13, <2>14 DEF Once
  <2>17. Find(new, s) # 0 /\ \A t : t # s => Find(new, t) = Find(st, t)
    BY <2>4, <2>5
  <2> QED BY <2>7, <2>15, <2>16, <2>17
<1> QED BY <1>1, <1>2

(* The first entry of the name has the data, or a new one does.            *)
LEMMA WithEntrySpec ==
  ASSUME NEW es \in Seq(EntryType), NEW n \in Names, NEW t \in Texts,
         NEW new, new = WithEntry(es, n, t)
  PROVE  /\ TextOf(new, n) = t
         /\ \A m : m # n => TextOf(new, m) = TextOf(es, m)
         /\ NamesDiffer(new) = NamesDiffer(es)
<1> DEFINE j == Find(es, n)
<1>1. CASE j # 0
  <2>1. j \in 1 .. Len(es) /\ es[j].name = n
    BY <1>1, FindSpec
  <2>2. new = [es EXCEPT ![j].data = t]
    BY <1>1 DEF WithEntry
  <2> HIDE DEF j
  <2>3. new \in Seq(EntryType) /\ Len(new) = Len(es)
    BY <2>1, <2>2, DataSet
  <2>4. \A k \in 1 .. Len(es) :
          /\ new[k].name = es[k].name
          /\ new[k].data = IF k = j THEN t ELSE es[k].data
    BY <2>1, <2>2, DataSet
  <2>5. NamesDiffer(new) = NamesDiffer(es) /\ \A m : Find(new, m) = Find(es, m)
    BY <2>3, <2>4, SameNames
  <2>6. TextOf(new, n) = t
    BY <2>1, <2>4, <2>5 DEF TextOf, j
  <2>7. ASSUME NEW m, m # n PROVE TextOf(new, m) = TextOf(es, m)
    <3>1. Find(es, m) \in 0 .. Len(es) /\ (Find(es, m) # 0 => es[Find(es, m)].name = m)
      BY FindSpec
    <3>2. Find(es, m) # 0 => Find(es, m) # j
      BY <2>1, <2>7, <3>1
    <3> QED BY <2>4, <2>5, <3>1, <3>2 DEF TextOf
  <2> QED BY <2>5, <2>6, <2>7
<1>2. CASE j = 0
  <2>1. new = list_add(es, Entry(n, t))
    BY <1>2 DEF WithEntry
  <2>2. PICK e : e = Entry(n, t)
    OBVIOUS
  <2>3. e \in EntryType /\ e.name = n /\ e.data = t
    BY <2>2, EntryTyped
  <2>4. /\ new \in Seq(EntryType) /\ Len(new) = Len(es) + 1
        /\ \A k \in 1 .. Len(es) : new[k] = es[k]
        /\ new[Len(es) + 1] = e
    BY <2>1, <2>2, <2>3 DEF list_add
  <2>5. \A m : Find(new, m) = IF Find(es, m) # 0 THEN Find(es, m)
                              ELSE IF n = m THEN Len(es) + 1 ELSE 0
    BY <2>1, <2>2, <2>3, FindAdd
  <2>6. Len(es) \in Nat /\ \A m : Find(es, m) \in 0 .. Len(es)
    BY FindSpec
  <2>7. TextOf(new, n) = t
    BY <1>2, <2>3, <2>4, <2>5, <2>6 DEF TextOf
  <2>8. ASSUME NEW m, m # n PROVE TextOf(new, m) = TextOf(es, m)
    BY <2>4, <2>5, <2>6, <2>8 DEF TextOf
  <2>9. DOMAIN es = 1 .. Len(es) /\ DOMAIN new = 1 .. Len(es) + 1
    BY <2>4
  <2>10. \A k \in 1 .. Len(es) : es[k].name # n
    BY <1>2, FindSpec
  <2>11. NamesDiffer(es) => NamesDiffer(new)
    BY <2>3, <2>4, <2>6, <2>9, <2>10 DEF NamesDiffer
  <2>12. NamesDiffer(new) => NamesDiffer(es)
    BY <2>4, <2>6, <2>9 DEF NamesDiffer
  <2>13. NamesDiffer(new) = NamesDiffer(es)
    BY <2>11, <2>12 DEF NamesDiffer
  <2> QED BY <2>7, <2>8, <2>13
<1> QED BY <1>1, <1>2

(* ini_set_...: the key has the text, and no other key has another.        *)
LEMMA SetSpec ==
  ASSUME NEW st \in Seq(SectionType), NEW s \in Sections, NEW n \in Names, NEW t \in Texts,
         NEW with, with = WithSection(st, s), NEW i, i = Find(with, s),
         NEW es, es = WithEntry(with[i].entries, n, t),
         NEW new, new = Replaced(with, i, es)
  PROVE  /\ Lookup(new, s, n) = t
         /\ \A u, m : u # s \/ m # n => Lookup(new, u, m) = Lookup(st, u, m)
         /\ Distinct(new) = Distinct(st) /\ Once(new) = Once(st)
<1>1. with \in Seq(SectionType) /\ i \in 1 .. Len(with)
  BY WithSectionSpec
<1>2. /\ \A u, m : Lookup(with, u, m) = Lookup(st, u, m)
      /\ Distinct(with) = Distinct(st) /\ Once(with) = Once(st)
  BY WithSectionKeeps
<1>3. with[i].entries \in Seq(EntryType)
  BY <1>1, SectionsTyped
<1>4. es \in Seq(EntryType)
  BY <1>3, WithEntryTyped
<1>5. /\ TextOf(es, n) = t
      /\ \A m : m # n => TextOf(es, m) = TextOf(with[i].entries, m)
      /\ NamesDiffer(es) = NamesDiffer(with[i].entries)
  BY <1>3, WithEntrySpec
<1>6. Distinct(new) = Distinct(with)
  BY <1>1, <1>4, ReplaceSpec
<1>7. \A u, m : Find(with, u) # i => Lookup(new, u, m) = Lookup(with, u, m)
  BY <1>1, <1>4, ReplaceSpec
<1>8. \A u, m : Find(with, u) = i => Lookup(new, u, m) = TextOf(es, m)
  BY <1>1, <1>4, ReplaceSpec
<1>9. Once(new) = Once(with)
  <2>1. Once(with) => Once(new)
    BY <1>1, <1>4, <1>5, ReplaceSpec
  <2>2. Once(new) => Once(with)
    BY <1>1, <1>4, <1>5, ReplaceSpec
  <2> QED BY <2>1, <2>2 DEF Once
<1>10. Lookup(new, s, n) = t
  <2>1. i = Find(with, s)
    OBVIOUS
  <2> QED BY <1>5, <1>8, <2>1
<1>11. ASSUME NEW u, NEW m, u # s \/ m # n PROVE Lookup(new, u, m) = Lookup(st, u, m)
  <2>1. Lookup(with, u, m) = Lookup(st, u, m)
    BY <1>2
  <2>2. CASE Find(with, u) # i
    BY <1>7, <2>1, <2>2
  <2>3. CASE Find(with, u) = i
    <3>1. u = s /\ m # n
      BY <1>1, <1>11, <2>3, FindSpec
    <3>2. Lookup(with, u, m) = TextOf(with[i].entries, m)
      BY <1>1, <2>3, LookupIs
    <3>3. Lookup(new, u, m) = TextOf(es, m)
      BY <1>8, <2>3
    <3>4. TextOf(es, m) = TextOf(with[i].entries, m)
      BY <1>5, <3>1
    <3> QED BY <2>1, <3>2, <3>3, <3>4
  <2> QED BY <2>2, <2>3
<1> QED BY <1>2, <1>6, <1>9, <1>10, <1>11

(* A list without element i: the others are found as before.               *)
LEMMA DeleteFind ==
  ASSUME NEW T, NEW list \in Seq(T), NEW i \in 1 .. Len(list),
         NEW new, new = list_delete(list, i), NEW name, list[i].name # name
  PROVE  /\ Find(list, name) = 0 => Find(new, name) = 0
         /\ Find(list, name) # 0 =>
              Find(new, name) # 0 /\ new[Find(new, name)] = list[Find(list, name)]
<1>1. new \in Seq(T) /\ Len(new) = Len(list) - 1 /\ Len(list) \in Nat
  BY DeleteSpec
<1>2. \A k \in 1 .. i - 1 : new[k] = list[k]
  BY DeleteSpec
<1>3. \A k \in i .. Len(list) - 1 : new[k] = list[k + 1]
  BY DeleteSpec
<1> DEFINE f == Find(list, name)
<1>4. /\ f \in 0 .. Len(list)
      /\ f = 0 => \A k \in 1 .. Len(list) : list[k].name # name
      /\ f # 0 => list[f].name = name /\ \A k \in 1 .. f - 1 : list[k].name # name
  BY FindSpec
<1> HIDE DEF f
<1>5. CASE f = 0
  <2>1. ASSUME NEW k \in 1 .. Len(new) PROVE new[k].name # name
    <3>1. CASE k < i BY <1>1, <1>2, <1>4, <1>5, <3>1
    <3>2. CASE k >= i BY <1>1, <1>3, <1>4, <1>5, <3>2
    <3> QED BY <1>1, <3>1, <3>2
  <2> QED BY <1>1, <1>5, <2>1, FindNot DEF f
<1>6. CASE f # 0 /\ f < i
  <2>1. f \in 1 .. Len(new) /\ new[f] = list[f]
    BY <1>1, <1>2, <1>4, <1>6
  <2>2. \A k \in 1 .. f - 1 : new[k].name # name
    BY <1>1, <1>2, <1>4, <1>6
  <2>3. new[f].name = name
    BY <1>4, <1>6, <2>1
  <2>4. Find(new, name) = f
    BY <1>1, <2>1, <2>2, <2>3, FindIs, Zenon
  <2> QED BY <1>6, <2>1, <2>4 DEF f
<1>7. CASE f # 0 /\ f > i
  <2>1. PICK g : g = f - 1
    OBVIOUS
  <2>2. g \in 1 .. Len(new) /\ new[g] = list[f]
    BY <1>1, <1>3, <1>4, <1>7, <2>1
  <2>3. ASSUME NEW k \in 1 .. g - 1 PROVE new[k].name # name
    <3>1. CASE k < i BY <1>1, <1>2, <1>4, <1>7, <2>1, <3>1
    <3>2. CASE k >= i BY <1>1, <1>3, <1>4, <1>7, <2>1, <3>2
    <3> QED BY <1>1, <3>1, <3>2
  <2>4. Find(new, name) = g
    BY <1>1, <1>4, <1>7, <2>2, <2>3, FindIs
  <2> QED BY <1>7, <2>2, <2>4 DEF f
<1>8. f # i
  BY <1>4
<1> QED BY <1>4, <1>5, <1>6, <1>7, <1>8

LEMMA DeleteNames ==
  ASSUME NEW T, NEW list \in Seq(T), NEW i \in 1 .. Len(list),
         NEW new, new = list_delete(list, i)
  PROVE  /\ Distinct(list) => Distinct(new) /\ Find(new, list[i].name) = 0
         /\ NamesDiffer(list) => NamesDiffer(new)
         /\ list[i].name = 0 /\ NamesDiffer(new) => NamesDiffer(list)
         /\ list[i].name # 0 /\ NamesDiffer(list) => Find(new, list[i].name) = 0
<1>1. new \in Seq(T) /\ Len(new) = Len(list) - 1 /\ Len(list) \in Nat
  BY DeleteSpec
<1>2. \A k \in 1 .. i - 1 : new[k] = list[k]
  BY DeleteSpec
<1>3. \A k \in i .. Len(list) - 1 : new[k] = list[k + 1]
  BY DeleteSpec
<1> DEFINE Was(k) == IF k < i THEN k ELSE k + 1
<1>4. \A k \in 1 .. Len(new) : /\ Was(k) \in 1 .. Len(list) /\ Was(k) # i
                               /\ new[k] = list[Was(k)]
  BY <1>1, <1>2, <1>3
<1>5. \A k, l \in 1 .. Len(new) : k # l => Was(k) # Was(l)
  BY <1>1
<1>6. \A l \in 1 .. Len(list) : l # i => \E k \in 1 .. Len(new) : Was(k) = l
  <2> SUFFICES ASSUME NEW l \in 1 .. Len(list), l # i
               PROVE  \E k \in 1 .. Len(new) : Was(k) = l
    OBVIOUS
  <2>1. CASE l < i
    BY <1>1, <2>1
  <2>2. CASE l > i
    <3>1. l - 1 \in 1 .. Len(new) /\ Was(l - 1) = l
      BY <1>1, <2>2
    <3> QED BY <3>1
  <2> QED BY <1>1, <2>1, <2>2
<1> HIDE DEF Was
<1>7. DOMAIN list = 1 .. Len(list) /\ DOMAIN new = 1 .. Len(new)
  BY <1>1
<1>8. Distinct(list) => Distinct(new)
  BY <1>4, <1>5, <1>7 DEF Distinct
<1>9. ASSUME Distinct(list) \/ (list[i].name # 0 /\ NamesDiffer(list))
      PROVE  Find(new, list[i].name) = 0
  <2>1. \A k \in 1 .. Len(new) : new[k].name # list[i].name
    BY <1>4, <1>7, <1>9 DEF Distinct, NamesDiffer
  <2> QED BY <1>1, <2>1, FindNot
<1>10. NamesDiffer(list) => NamesDiffer(new)
  BY <1>4, <1>5, <1>7 DEF NamesDiffer
<1>11. ASSUME list[i].name = 0, NamesDiffer(new) PROVE NamesDiffer(list)
  <2> SUFFICES ASSUME NEW k \in 1 .. Len(list), NEW l \in 1 .. Len(list),
                      k # l, list[k].name # 0
               PROVE  list[k].name # list[l].name
    BY <1>7 DEF NamesDiffer
  <2>1. CASE l = i
    BY <1>11, <2>1
  <2>2. CASE l # i
    <3>1. PICK k1 \in 1 .. Len(new) : Was(k1) = k
      BY <1>6, <1>11
    <3>2. PICK l1 \in 1 .. Len(new) : Was(l1) = l
      BY <1>6, <2>2
    <3>3. new[k1] = list[k] /\ new[l1] = list[l] /\ k1 # l1
      BY <1>4, <3>1, <3>2
    <3>4. \A x, y \in 1 .. Len(new) : x # y /\ new[x].name # 0 => new[x].name # new[y].name
      BY <1>7, <1>11 DEF NamesDiffer
    <3> QED BY <3>3, <3>4
  <2> QED BY <2>1, <2>2
<1> QED BY <1>8, <1>9, <1>10, <1>11

(* ini_section_delete_var: what else the section holds is found as before. *)
LEMMA CutSpec ==
  ASSUME NEW es \in Seq(EntryType), NEW n, NEW j, j = Find(es, n), j # 0,
         NEW new, new = list_delete(es, j)
  PROVE  /\ \A m : m # n => TextOf(new, m) = TextOf(es, m)
         /\ NamesDiffer(es) => NamesDiffer(new)
         /\ n = 0 /\ NamesDiffer(new) => NamesDiffer(es)
         /\ n # 0 /\ NamesDiffer(es) => TextOf(new, n) = NoText
<1>1. j \in 1 .. Len(es) /\ es[j].name = n
  BY FindSpec
<1>2. /\ NamesDiffer(es) => NamesDiffer(new)
      /\ n = 0 /\ NamesDiffer(new) => NamesDiffer(es)
      /\ n # 0 /\ NamesDiffer(es) => Find(new, n) = 0
  BY <1>1, DeleteNames
<1>3. ASSUME NEW m, m # n PROVE TextOf(new, m) = TextOf(es, m)
  <2>1. Find(es, m) = 0 => Find(new, m) = 0
    BY <1>1, <1>3, DeleteFind
  <2>2. Find(es, m) # 0 => Find(new, m) # 0 /\ new[Find(new, m)] = es[Find(es, m)]
    BY <1>1, <1>3, DeleteFind
  <2> QED BY <2>1, <2>2 DEF TextOf
<1> QED BY <1>2, <1>3 DEF TextOf

(* Sorting moves no text to another name.                                  *)
LEMMA SortKeeps ==
  ASSUME NEW es \in Seq(EntryType), NEW new, Shuffled(new, es), NamesDiffer(es)
  PROVE  /\ \A n : n # 0 => TextOf(new, n) = TextOf(es, n)
         /\ NamesDiffer(new)
<1>1. PICK p : Permutes(p, new, es)
  BY DEF Shuffled
<1>2. PICK S : S = 1 .. Len(es)
  OBVIOUS
<1>3. p \in Bijection(S, S) /\ \A k \in S : new[k] = es[p[k]]
  BY <1>1, <1>2 DEF Permutes
<1>4. /\ p \in [S -> S]
      /\ \A x, y \in S : p[x] = p[y] => x = y
      /\ \A y \in S : \E x \in S : p[x] = y
  BY <1>3, BijectionSpec
<1>5. new \in Seq(EntryType) /\ Len(new) = Len(es)
  BY DEF Shuffled
<1>6. DOMAIN es = S /\ DOMAIN new = S
  BY <1>2, <1>5
<1>7. \A x, y \in S : x # y /\ es[x].name # 0 => es[x].name # es[y].name
  BY <1>6 DEF NamesDiffer
<1>8. NamesDiffer(new)
  <2> SUFFICES ASSUME NEW x \in S, NEW y \in S, x # y, new[x].name # 0
               PROVE  new[x].name # new[y].name
    BY <1>6 DEF NamesDiffer
  <2>1. p[x] \in S /\ p[y] \in S /\ p[x] # p[y]
    BY <1>4
  <2>2. new[x] = es[p[x]] /\ new[y] = es[p[y]]
    BY <1>3
  <2> QED BY <1>7, <2>1, <2>2
<1>9. ASSUME NEW n, n # 0 PROVE TextOf(new, n) = TextOf(es, n)
  <2>1. CASE Find(es, n) = 0
    <3>1. \A k \in S : es[k].name # n
      BY <1>2, <2>1, FindSpec
    <3>2. \A k \in 1 .. Len(new) : new[k].name # n
      BY <1>2, <1>3, <1>4, <1>5, <3>1
    <3>3. Find(new, n) = 0
      BY <1>5, <3>2, FindNot
    <3> QED BY <2>1, <3>3 DEF TextOf
  <2>2. CASE Find(es, n) # 0
    <3>1. PICK f \in S : f = Find(es, n) /\ es[f].name = n
      BY <1>2, <2>2, FindSpec
    <3>2. PICK k \in S : p[k] = f
      BY <1>4
    <3>3. new[k].name = n
      BY <1>3, <3>1, <3>2
    <3>4. Find(new, n) # 0
      BY <1>2, <1>5, <3>3, FindSpec
    <3>5. PICK g \in S : g = Find(new, n) /\ new[g].name = n
      BY <1>2, <1>5, <3>4, FindSpec
    <3>6. p[g] \in S /\ es[p[g]].name = n /\ new[g] = es[p[g]]
      BY <1>3, <1>4, <3>5
    <3>7. p[g] = f
      BY <1>7, <1>9, <3>1, <3>6
    <3> QED BY <2>2, <3>1, <3>4, <3>5, <3>6, <3>7 DEF TextOf
  <2> QED BY <2>1, <2>2
<1> QED BY <1>8, <1>9

(* Renaming a section: its names and texts move with it.                   *)
Renamed(st, i, t) == [st EXCEPT ![i].name = t]

LEMMA RenameSpec ==
  ASSUME NEW st \in Seq(SectionType), NEW s \in Sections, NEW t \in Sections,
         NEW i, i = Find(st, s), i # 0,
         NEW new, new = Renamed(st, i, t)
  PROVE  /\ Once(new) = Once(st)
         /\ \A u, n : u # s /\ u # t => Lookup(new, u, n) = Lookup(st, u, n)
         /\ s = t => \A u, n : Lookup(new, u, n) = Lookup(st, u, n)
         /\ s # t /\ Distinct(st) /\ Distinct(new) =>
              \A n : Lookup(new, s, n) = NoText /\ Lookup(new, t, n) = Lookup(st, s, n)
<1>1. i \in 1 .. Len(st) /\ st[i].name = s
  BY FindSpec
<1>2. new \in Seq(SectionType) /\ Len(new) = Len(st)
  BY <1>1, NameSet DEF Renamed
<1>3. \A k \in 1 .. Len(st) : /\ new[k].name = IF k = i THEN t ELSE st[k].name
                              /\ new[k].entries = st[k].entries
  BY <1>1, NameSet DEF Renamed
<1>4. DOMAIN st = 1 .. Len(st) /\ DOMAIN new = 1 .. Len(st) /\ Len(st) \in Nat
  BY <1>2
<1>5. \A u : Find(st, u) \in 0 .. Len(st)
  BY FindSpec
<1>6. ASSUME NEW u, NEW n, Find(new, u) = Find(st, u)
      PROVE  Lookup(new, u, n) = Lookup(st, u, n)
  BY <1>3, <1>5, <1>6, LookupIs
<1>7. Once(new) = Once(st)
  BY <1>3, <1>4 DEF Once
<1>8. ASSUME NEW u, (u # s /\ u # t) \/ s = t PROVE Find(new, u) = Find(st, u)
  <2>1. \A k \in 1 .. Len(st) : new[k].name = u <=> st[k].name = u
    BY <1>1, <1>3, <1>8
  <2> QED BY <1>2, <2>1, FindSame
<1>9. ASSUME s # t, Distinct(st), Distinct(new), NEW n
      PROVE  Lookup(new, s, n) = NoText /\ Lookup(new, t, n) = Lookup(st, s, n)
  <2>1. \A k \in 1 .. Len(st) : k # i => st[k].name # s /\ new[k].name # t
    BY <1>1, <1>3, <1>4, <1>9 DEF Distinct
  <2>2. \A k \in 1 .. Len(new) : new[k].name # s
    BY <1>2, <1>3, <1>9, <2>1
  <2>3. Find(new, s) = 0
    BY <1>2, <2>2, FindNot
  <2>4. \A k \in 1 .. i - 1 : new[k].name # t
    BY <1>1, <1>4, <2>1
  <2>5. new[i].name = t
    BY <1>1, <1>3
  <2>6. Find(new, t) = i
    BY <1>1, <1>2, <2>4, <2>5, FindIs
  <2>7. i = Find(st, s)
    OBVIOUS
  <2> QED BY <1>1, <1>3, <2>3, <2>6, <2>7, LookupIs
<1> QED BY <1>6, <1>7, <1>8, <1>9

(* Tidying an empty section takes it away.                                 *)
LEMMA EmptySpec ==
  ASSUME NEW st \in Seq(SectionType), NEW s \in Sections,
         NEW i, i = Find(st, s), i # 0, IsEmpty(st[i]),
         NEW new, new = list_delete(st, i)
  PROVE  /\ \A u, n : u # s => Lookup(new, u, n) = Lookup(st, u, n)
         /\ Distinct(st) => Distinct(new)
         /\ Once(st) => Once(new)
         /\ Distinct(st) => \A n : n # 0 => Lookup(new, s, n) = Lookup(st, s, n)
<1>1. i \in 1 .. Len(st) /\ st[i].name = s
  BY FindSpec
<1>2. new \in Seq(SectionType) /\ Len(new) = Len(st) - 1 /\ Len(st) \in Nat
  BY <1>1, DeleteSpec
<1>3. \A k \in 1 .. i - 1 : new[k] = st[k]
  BY <1>1, DeleteSpec
<1>4. \A k \in i .. Len(st) - 1 : new[k] = st[k + 1]
  BY <1>1, DeleteSpec
<1>5. Distinct(st) => Distinct(new) /\ Find(new, s) = 0
  BY <1>1, DeleteNames
<1>6. ASSUME NEW u, NEW n, u # s PROVE Lookup(new, u, n) = Lookup(st, u, n)
  <2>1. Find(st, u) = 0 => Find(new, u) = 0
    BY <1>1, <1>6, DeleteFind
  <2>2. Find(st, u) # 0 => Find(new, u) # 0 /\ new[Find(new, u)] = st[Find(st, u)]
    BY <1>1, <1>6, DeleteFind
  <2> QED BY <2>1, <2>2, LookupIs
<1>7. \A k \in 1 .. Len(new) : \E l \in 1 .. Len(st) : new[k] = st[l]
  <2> SUFFICES ASSUME NEW k \in 1 .. Len(new)
               PROVE  \E l \in 1 .. Len(st) : new[k] = st[l]
    OBVIOUS
  <2>1. CASE k < i
    BY <1>1, <1>2, <1>3, <2>1
  <2>2. CASE k >= i
    <3>1. k + 1 \in 1 .. Len(st) /\ new[k] = st[k + 1]
      BY <1>1, <1>2, <1>4, <2>2
    <3> QED BY <3>1
  <2> QED BY <1>1, <1>2, <2>1, <2>2
<1>8. Once(st) => Once(new)
  <2>1. DOMAIN st = 1 .. Len(st) /\ DOMAIN new = 1 .. Len(new)
    BY <1>2
  <2> QED BY <1>7, <2>1 DEF Once
<1>9. ASSUME Distinct(st), NEW n, n # 0 PROVE Lookup(new, s, n) = Lookup(st, s, n)
  <2>1. PICK es : es = st[i].entries
    OBVIOUS
  <2>2. es \in Seq(EntryType)
    BY <1>1, <2>1, SectionsTyped
  <2>3. \A j \in 1 .. Len(es) : es[j].name # n
    BY <1>9, <2>1, <2>2 DEF IsEmpty
  <2>4. Find(es, n) = 0
    BY <2>2, <2>3, FindNot
  <2>5. Lookup(st, s, n) = NoText
    BY <2>1, <2>4, LookupIs DEF TextOf
  <2> QED BY <1>5, <1>9, <2>5, LookupIs
<1> QED BY <1>5, <1>6, <1>8, <1>9

(* ini_strip_quotes strips every text a lookup finds.                      *)
LEMMA StripSpec ==
  ASSUME NEW st \in Seq(SectionType), NEW new,
         new = Stripped(st)
  PROVE  /\ Distinct(new) = Distinct(st) /\ Once(new) = Once(st)
         /\ \A s, n : n # 0 =>
              Lookup(new, s, n) = IF Lookup(st, s, n) = NoText THEN NoText
                                  ELSE Strip(Lookup(st, s, n))
<1>1. new \in Seq(SectionType) /\ Len(new) = Len(st)
  BY StoreStripped
<1>20. Bare(new, st)
  BY StoreStripped
<1>2. \A i \in 1 .. Len(st) :
        /\ new[i].name = st[i].name
        /\ Len(new[i].entries) = Len(st[i].entries)
        /\ \A j \in 1 .. Len(st[i].entries) :
             /\ new[i].entries[j].name = st[i].entries[j].name
             /\ new[i].entries[j].data =
                  IF st[i].entries[j].name = 0 THEN st[i].entries[j].data
                  ELSE Strip(st[i].entries[j].data)
  BY <1>20 DEF Bare
<1>3. DOMAIN st = 1 .. Len(st) /\ DOMAIN new = 1 .. Len(st) /\ Len(st) \in Nat
  BY <1>1
<1>4. Distinct(new) = Distinct(st) /\ \A s : Find(new, s) = Find(st, s)
  BY <1>1, <1>2, SameNames
<1>5. ASSUME NEW i \in 1 .. Len(st)
      PROVE  /\ NamesDiffer(new[i].entries) = NamesDiffer(st[i].entries)
             /\ \A n : Find(new[i].entries, n) = Find(st[i].entries, n)
  <2>1. PICK a : a = new[i].entries
    OBVIOUS
  <2>2. PICK b : b = st[i].entries
    OBVIOUS
  <2>3. a \in Seq(EntryType) /\ b \in Seq(EntryType)
    BY <1>1, <2>1, <2>2, SectionsTyped
  <2>4. Len(a) = Len(b) /\ \A j \in 1 .. Len(a) : a[j].name = b[j].name
    BY <1>2, <2>1, <2>2
  <2>5. NamesDiffer(a) = NamesDiffer(b) /\ \A n : Find(a, n) = Find(b, n)
    BY <2>3, <2>4, SameNames
  <2> QED BY <2>1, <2>2, <2>5
<1>6. Once(new) = Once(st)
  BY <1>3, <1>5 DEF Once
<1>7. ASSUME NEW s, NEW n, n # 0
      PROVE  Lookup(new, s, n) = IF Lookup(st, s, n) = NoText THEN NoText
                                 ELSE Strip(Lookup(st, s, n))
  <2>1. CASE Find(st, s) = 0
    BY <1>4, <2>1, LookupIs
  <2>2. CASE Find(st, s) # 0
    <3>1. PICK i \in 1 .. Len(st) : i = Find(st, s)
      BY <2>2, FindSpec
    <3>2. st[i].entries \in Seq(EntryType)
      BY SectionsTyped
    <3>3. PICK j : j = Find(st[i].entries, n)
      OBVIOUS
    <3>4. Find(new[i].entries, n) = j /\ Find(new, s) = i
      BY <1>4, <1>5, <3>1, <3>3
    <3>5. CASE j = 0
      BY <2>2, <3>1, <3>3, <3>4, <3>5, LookupIs DEF TextOf
    <3>6. CASE j # 0
      <4>1. j \in 1 .. Len(st[i].entries) /\ st[i].entries[j].name = n
        BY <3>2, <3>3, <3>6, FindSpec
      <4>2. st[i].entries[j].data \in Texts
        BY <3>2, <4>1, EntriesTyped
      <4>3. new[i].entries[j].data = Strip(st[i].entries[j].data)
        BY <1>2, <1>7, <4>1
      <4>4. Lookup(st, s, n) = st[i].entries[j].data
        BY <2>2, <3>1, <3>3, <3>6, LookupIs DEF TextOf
      <4>5. Lookup(new, s, n) = new[i].entries[j].data
        BY <2>2, <3>1, <3>4, <3>6, LookupIs DEF TextOf
      <4> QED BY <4>2, <4>3, <4>4, <4>5, NoTextIsNone
    <3> QED BY <3>5, <3>6
  <2> QED BY <2>1, <2>2
<1> QED BY <1>4, <1>6, <1>7

(* A call of ini_set, on the store.                                        *)
LEMMA SetStep ==
  ASSUME store \in Seq(SectionType), NEW s \in Sections, NEW n \in Names,
         NEW data \in Texts, ini_set(s, n, data), NEW new, new = store'
  PROVE  /\ Lookup(new, s, n) = data
         /\ \A u, m : u # s \/ m # n => Lookup(new, u, m) = Lookup(store, u, m)
         /\ Distinct(new) = Distinct(store) /\ Once(new) = Once(store)
<1>1. PICK with : with = WithSection(store, s)
  OBVIOUS
<1>2. PICK i : i = Find(with, s)
  OBVIOUS
<1>3. PICK es : es = WithEntry(with[i].entries, n, data)
  OBVIOUS
<1>4. new = Replaced(with, i, es)
  BY <1>1, <1>2, <1>3 DEF ini_set, Replaced
<1>5. Lookup(new, s, n) = data
  BY <1>1, <1>2, <1>3, <1>4, SetSpec
<1>6. \A u, m : u # s \/ m # n => Lookup(new, u, m) = Lookup(store, u, m)
  BY <1>1, <1>2, <1>3, <1>4, SetSpec
<1>7. Distinct(new) = Distinct(store) /\ Once(new) = Once(store)
  BY <1>1, <1>2, <1>3, <1>4, SetSpec
<1> QED BY <1>5, <1>6, <1>7

LEMMA ScansBack ==
  ASSUME NEW form \in Setters, NEW v \in Numbers, Fits(form, v)
  PROVE  Scanned(form, Printed(form, v)) = v
<1>1. v \in Nat
  BY IniAssumption DEF IniAssumption
<1>2. Printed("string", "true").form = "word"
  BY DEF Printed, HexForms
<1>3. CASE form \in {"int", "uint"}
  <2>1. Printed(form, v) = [form |-> "dec", value |-> v]
    BY <1>3 DEF Printed, HexForms
  <2>2. Printed(form, v) # Printed("string", "true")
    BY <1>2, <2>1
  <2> QED BY <1>3, <2>1, <2>2 DEF Scanned, HexForms
<1>4. CASE form \in HexForms
  <2>1. Printed(form, v) = [form |-> "hex", value |-> v, width |-> Digits[form]]
    BY <1>4 DEF Printed, HexForms
  <2>2. v < Radix ^ Digits[form]
    BY <1>4 DEF Fits, HexForms
  <2>3. Length(Printed(form, v)) = Digits[form]
    BY <2>1, <2>2 DEF Length
  <2>4. Digits[form] \in Nat
    BY <1>4, IniAssumption DEF IniAssumption
  <2>5. Leading(Printed(form, v), Digits[form]) = v
    BY <2>1, <2>3, <2>4 DEF Leading
  <2>6. Printed(form, v) # Printed("string", "true")
    BY <1>2, <2>1
  <2> QED BY <1>4, <2>1, <2>5, <2>6 DEF Scanned, HexForms
<1>5. CASE form = "mac"
  <2>1. v < Addresses
    BY <1>5 DEF Fits, HexForms
  <2>2. v % Addresses = v
    BY <1>1, <2>1, AddressesPositive
  <2>3. Printed(form, v) = [form |-> "mac", value |-> v]
    BY <1>5, <2>2 DEF Printed, HexForms
  <2> QED BY <1>5, <2>3 DEF Scanned, HexForms
<1>6. CASE form = "double"
  <2>0. Rounded(v) = v
    BY <1>6, RoundedSame DEF Fits, HexForms
  <2>1. Printed(form, v) = [form |-> "real", value |-> v]
    BY <1>6, <2>0 DEF Printed, HexForms
  <2> QED BY <1>6, <2>1 DEF Scanned, HexForms
<1> QED BY <1>3, <1>4, <1>5, <1>6 DEF Setters

(* What a setter has stored is what the getter of its form reads, for all  *)
(* values that fit the form and whatever the section held before.          *)
THEOREM SettersReadBack == Spec => ReadsBack
<1>1. ASSUME TypeOK, NEW s \in Sections, NEW n \in Names, NEW form \in Setters,
             NEW v \in Numbers, Fits(form, v), ini_set(s, n, Printed(form, v))
      PROVE  Scanned(form, Lookup(store', s, n)) = v
  <2>1. Printed(form, v) \in Texts
    BY GivenTyped DEF Given
  <2>2. store \in Seq(SectionType)
    BY <1>1 DEF TypeOK
  <2>3. PICK new : new = store'
    OBVIOUS
  <2>4. PICK data \in Texts : data = Printed(form, v)
    BY <2>1
  <2>5. ini_set(s, n, data)
    BY <1>1, <2>4
  <2>6. Lookup(new, s, n) = data
    BY <2>2, <2>3, <2>5, SetStep
  <2> QED BY <1>1, <2>3, <2>4, <2>6, ScansBack
<1> DEFINE Step ==
      \A s \in Sections, n \in Names, form \in Setters, v \in Numbers :
        Fits(form, v) /\ ini_set(s, n, Printed(form, v))
          => Scanned(form, Lookup(store', s, n)) = v
<1>2. TypeOK => [Step]_vars
  BY <1>1
<1> QED BY <1>2, TypesHold, PTL DEF ReadsBack

-----------------------------------------------------------------------------
(* The map that a user of the library expects                              *)

LEMMA Truths ==
  ASSUME NEW st
  PROVE  Distinct(st) \in BOOLEAN /\ Once(st) \in BOOLEAN
BY DEF Distinct, Once

LEMMA NothingHeld ==
  /\ Conf(<<>>) = [k \in Sections \X (Names \ {0}) |-> NoText]
  /\ Distinct(<<>>) /\ Once(<<>>)
<1>1. \A s, n : Lookup(<<>>, s, n) = NoText
  BY FindInNone, LookupIs
<1>2. Conf(<<>>) = [k \in Sections \X (Names \ {0}) |-> NoText]
  BY <1>1 DEF Conf
<1>3. Distinct(<<>>) = TRUE /\ Once(<<>>) = TRUE
  BY DEF Distinct, Once
<1> QED BY <1>2, <1>3

LEMMA Loads ==
  ASSUME ~up, up' = TRUE, NEW new \in Seq(SectionType), store' = new
  PROVE  Abstract!Load
<1>1. Conf(new) \in [Sections \X (Names \ {0}) -> Texts \union {NoText}]
  BY ConfTyped
<1>2. Distinct(new) \in BOOLEAN /\ Once(new) \in BOOLEAN
  BY Truths
<1> QED BY <1>1, <1>2 DEF Abstract!Load, Abstract!Keys

LEMMA Stutters ==
  ASSUME UNCHANGED up, NEW new, store' = new, Conf(new) = Conf(store),
         Distinct(new) = Distinct(store), Once(new) = Once(store)
  PROVE  UNCHANGED Abstract!vars
BY DEF Abstract!vars

LEMMA Sets ==
  ASSUME UNCHANGED up, NEW new, store' = new, NEW s \in Sections, NEW n \in Names \ {0},
         Lookup(new, s, n) \in Texts,
         \A t \in Sections, m \in Names \ {0} :
           t # s \/ m # n => Lookup(new, t, m) = Lookup(store, t, m),
         Distinct(new) = Distinct(store), Once(new) = Once(store)
  PROVE  Abstract!Set(<<s, n>>)
<1>1. Conf(new) = [Conf(store) EXCEPT ![<<s, n>>] = Conf(new)[<<s, n>>]]
  BY OneKey
<1>2. Conf(new)[<<s, n>>] \in Texts
  BY ConfAt
<1> QED BY <1>1, <1>2 DEF Abstract!Set, Abstract!Only

LEMMA KeyOf ==
  ASSUME NEW s \in Sections, NEW n \in Names \ {0}
  PROVE  <<s, n>> \in Abstract!Keys
BY DEF Abstract!Keys

(* A call on section s, which find_section has found at place i.           *)
LEMMA CutMaps ==
  ASSUME store \in Seq(SectionType), NEW s \in Sections,
         NEW i, i = Find(store, s), i # 0,
         NEW n \in Names, ini_section_delete_var(i, n)
  PROVE  [Abstract!Next]_(Abstract!vars)
<1>1. i \in 1 .. Len(store)
  BY FindSpec
<1>2. PICK es : es = store[i].entries
  OBVIOUS
<1>3. es \in Seq(EntryType)
  BY <1>1, <1>2, SectionsTyped
<1>4. PICK j : j = Find(es, n)
  OBVIOUS
<1>5. PICK rest : rest = list_delete(es, j)
  OBVIOUS
<1>6. PICK new : new = store'
  OBVIOUS
<1>7. j # 0 /\ UNCHANGED up /\ new = Replaced(store, i, rest)
  BY <1>2, <1>4, <1>5, <1>6 DEF ini_section_delete_var, Replaced
<1>8. rest \in Seq(EntryType)
  <2>1. j \in 1 .. Len(es)
    BY <1>3, <1>4, <1>7, FindSpec
  <2> QED BY <1>3, <1>5, <2>1, DeleteSpec
<1>9. \A m : m # n => TextOf(rest, m) = TextOf(es, m)
  BY <1>3, <1>4, <1>5, <1>7, CutSpec
<1>10. NamesDiffer(es) => NamesDiffer(rest)
  BY <1>3, <1>4, <1>5, <1>7, CutSpec
<1>11. Distinct(new) = Distinct(store)
  BY <1>1, <1>7, <1>8, ReplaceSpec
<1>12. Once(store) => Once(new)
  BY <1>1, <1>2, <1>7, <1>8, <1>10, ReplaceSpec
<1>13. \A u, m : Find(store, u) # i => Lookup(new, u, m) = Lookup(store, u, m)
  BY <1>1, <1>7, <1>8, ReplaceSpec
<1>14. \A u, m : Find(store, u) = i => Lookup(new, u, m) = TextOf(rest, m)
  BY <1>1, <1>7, <1>8, ReplaceSpec
<1>15. ASSUME NEW u, NEW m, u # s \/ m # n PROVE Lookup(new, u, m) = Lookup(store, u, m)
  <2>1. CASE Find(store, u) # i
    BY <1>13, <2>1
  <2>2. CASE Find(store, u) = i
    <3>1. u = s /\ m # n
      BY <1>1, <1>15, <2>2, FindSpec
    <3>2. Lookup(store, u, m) = TextOf(es, m)
      BY <1>2, <2>2, LookupIs
    <3> QED BY <1>9, <1>14, <2>2, <3>1, <3>2
  <2> QED BY <2>1, <2>2
<1>16. CASE n = 0
  <2>1. NamesDiffer(rest) => NamesDiffer(es)
    BY <1>3, <1>4, <1>5, <1>7, <1>16, CutSpec
  <2>2. Once(new) => Once(store)
    BY <1>1, <1>2, <1>7, <1>8, <2>1, ReplaceSpec
  <2>3. Once(new) = Once(store)
    BY <1>12, <2>2 DEF Once
  <2>4. Conf(new) = Conf(store)
    BY <1>15, <1>16, SameConf
  <2> QED BY <1>6, <1>7, <1>11, <2>3, <2>4, Stutters
<1>17. CASE n # 0
  <2>1. Conf(new) = [Conf(store) EXCEPT ![<<s, n>>] = Conf(new)[<<s, n>>]]
    BY <1>15, <1>17, OneKey
  <2>2. Once(store) => Conf(new)[<<s, n>>] = NoText
    <3> SUFFICES ASSUME Once(store) PROVE Conf(new)[<<s, n>>] = NoText
      OBVIOUS
    <3>1. NamesDiffer(es)
      <4>1. i \in DOMAIN store BY <1>1
      <4> QED BY <1>2, <4>1 DEF Once
    <3>2. TextOf(rest, n) = NoText
      BY <1>3, <1>4, <1>5, <1>7, <1>17, <3>1, CutSpec
    <3>3. Lookup(new, s, n) = NoText
      BY <1>14, <3>2
    <3> QED BY <1>17, <3>3, ConfAt
  <2>3. Abstract!Delete(<<s, n>>)
    BY <1>6, <1>7, <1>11, <1>12, <2>1, <2>2 DEF Abstract!Delete, Abstract!Only
  <2>4. <<s, n>> \in Abstract!Keys
    BY <1>17, KeyOf
  <2> QED BY <2>3, <2>4 DEF Abstract!Next
<1> QED BY <1>16, <1>17

LEMMA DoubleMaps ==
  ASSUME store \in Seq(SectionType), NEW s \in Sections,
         NEW i, i = Find(store, s), i # 0,
         NEW n \in Names, ini_section_get_double(i, n)
  PROVE  [Abstract!Next]_(Abstract!vars)
<1>1. i \in 1 .. Len(store)
  BY FindSpec
<1>2. PICK es : es = store[i].entries
  OBVIOUS
<1>3. es \in Seq(EntryType)
  BY <1>1, <1>2, SectionsTyped
<1>4. PICK j : j = Find(es, n)
  OBVIOUS
<1>5. PICK t \in Texts : t = Printed("string", ".5")
  BY WordTyped DEF Words
<1>6. PICK other : other = [es EXCEPT ![j].data = t]
  OBVIOUS
<1>7. PICK new : new = store'
  OBVIOUS
<1>8. j # 0 /\ UNCHANGED up /\ new = [store EXCEPT ![i].entries[j].data = t]
  BY <1>2, <1>4, <1>5, <1>7 DEF ini_section_get_double
<1>9. new = Replaced(store, i, other)
  BY <1>2, <1>6, <1>8 DEF Replaced
<1>10. other = WithEntry(es, n, t)
  BY <1>4, <1>6, <1>8 DEF WithEntry
<1>11. other \in Seq(EntryType)
  BY <1>3, <1>10, WithEntryTyped
<1>12. /\ TextOf(other, n) = t
       /\ \A m : m # n => TextOf(other, m) = TextOf(es, m)
       /\ NamesDiffer(other) = NamesDiffer(es)
  BY <1>3, <1>10, WithEntrySpec
<1>13. Distinct(new) = Distinct(store)
  BY <1>1, <1>9, <1>11, ReplaceSpec
<1>14. Once(new) = Once(store)
  <2>1. Once(store) => Once(new)
    BY <1>1, <1>2, <1>9, <1>11, <1>12, ReplaceSpec
  <2>2. Once(new) => Once(store)
    BY <1>1, <1>2, <1>9, <1>11, <1>12, ReplaceSpec
  <2> QED BY <2>1, <2>2 DEF Once
<1>15. \A u, m : Find(store, u) # i => Lookup(new, u, m) = Lookup(store, u, m)
  BY <1>1, <1>9, <1>11, ReplaceSpec
<1>16. \A u, m : Find(store, u) = i => Lookup(new, u, m) = TextOf(other, m)
  BY <1>1, <1>9, <1>11, ReplaceSpec
<1>17. ASSUME NEW u, NEW m, u # s \/ m # n PROVE Lookup(new, u, m) = Lookup(store, u, m)
  <2>1. CASE Find(store, u) # i
    BY <1>15, <2>1
  <2>2. CASE Find(store, u) = i
    <3>1. u = s /\ m # n
      BY <1>1, <1>17, <2>2, FindSpec
    <3>2. Lookup(store, u, m) = TextOf(es, m)
      BY <1>2, <2>2, LookupIs
    <3> QED BY <1>12, <1>16, <2>2, <3>1, <3>2
  <2> QED BY <2>1, <2>2
<1>18. CASE n = 0
  <2>1. Conf(new) = Conf(store)
    BY <1>17, <1>18, SameConf
  <2> QED BY <1>7, <1>8, <1>13, <1>14, <2>1, Stutters
<1>19. CASE n # 0
  <2>1. Lookup(new, s, n) \in Texts
    BY <1>12, <1>16
  <2>2. n \in Names \ {0}
    BY <1>19
  <2>3. Abstract!Set(<<s, n>>)
    <3>1. \A u, m : u # s \/ m # n => Lookup(new, u, m) = Lookup(store, u, m)
      BY <1>17
    <3>2. UNCHANGED up
      BY <1>8
    <3> QED BY <1>7, <1>13, <1>14, <2>1, <2>2, <3>1, <3>2, Sets
  <2> QED BY <2>2, <2>3, KeyOf DEF Abstract!Next
<1> QED BY <1>18, <1>19

LEMMA RenameMaps ==
  ASSUME store \in Seq(SectionType), NEW s \in Sections,
         NEW i, i = Find(store, s), i # 0,
         NEW t \in Sections, ini_rename_section(i, t)
  PROVE  [Abstract!Next]_(Abstract!vars)
<1>1. PICK new : new = store'
  OBVIOUS
<1>2. new = Renamed(store, i, t) /\ UNCHANGED up
  BY <1>1 DEF ini_rename_section, Renamed
<1>3. Once(new) = Once(store)
  BY <1>2, RenameSpec
<1>4. \A u, n : u # s /\ u # t => Lookup(new, u, n) = Lookup(store, u, n)
  BY <1>2, RenameSpec
<1>5. s = t => \A u, n : Lookup(new, u, n) = Lookup(store, u, n)
  BY <1>2, RenameSpec
<1>6. s # t /\ Distinct(store) /\ Distinct(new) =>
        \A n : Lookup(new, s, n) = NoText /\ Lookup(new, t, n) = Lookup(store, s, n)
  BY <1>2, RenameSpec
<1> DEFINE K == Sections \X (Names \ {0})
<1>7. \A k \in K : k[1] \notin {s, t} => Conf(new)[k] = Conf(store)[k]
  BY <1>4 DEF Conf
<1>8. ASSUME Distinct(store), Distinct(new)
      PROVE  Conf(new) \in
               {Conf(store),
                [k \in K |-> CASE k[1] = t -> Conf(store)[<<s, k[2]>>]
                               [] k[1] = s /\ s # t -> NoText
                               [] OTHER -> Conf(store)[k]]}
  <2>1. CASE s = t
    BY <1>5, <2>1, SameConf
  <2>2. CASE s # t
    <3>1. ASSUME NEW k \in K
          PROVE  Conf(new)[k] = CASE k[1] = t -> Conf(store)[<<s, k[2]>>]
                                  [] k[1] = s /\ s # t -> NoText
                                  [] OTHER -> Conf(store)[k]
      <4>1. k = <<k[1], k[2]>> /\ k[1] \in Sections /\ k[2] \in Names \ {0}
        OBVIOUS
      <4>2. Conf(new)[k] = Lookup(new, k[1], k[2]) /\ Conf(store)[k] = Lookup(store, k[1], k[2])
        BY <4>1, ConfAt
      <4>3. Conf(store)[<<s, k[2]>>] = Lookup(store, s, k[2])
        BY <4>1, ConfAt
      <4>4. CASE k[1] = t
        BY <1>6, <1>8, <2>2, <4>2, <4>3, <4>4
      <4>5. CASE k[1] = s
        BY <1>6, <1>8, <2>2, <4>2, <4>5
      <4>6. CASE k[1] # s /\ k[1] # t
        BY <1>4, <4>2, <4>6
      <4> QED BY <4>4, <4>5, <4>6
    <3>2. Conf(new) = [k \in K |-> Conf(new)[k]]
      BY DEF Conf
    <3> QED BY <3>1, <3>2
  <2> QED BY <2>1, <2>2
<1>9. Abstract!Rename(s, t)
  BY <1>1, <1>2, <1>3, <1>7, <1>8
     DEF Abstract!Rename, Abstract!Elsewhere, Abstract!Moved, Abstract!Keys
<1> QED BY <1>9 DEF Abstract!Next

LEMMA TidyMaps ==
  ASSUME store \in Seq(SectionType), NEW s \in Sections,
         NEW i, i = Find(store, s), i # 0, ini_delete_section_if_empty(i)
  PROVE  [Abstract!Next]_(Abstract!vars)
<1>1. PICK new : new = store'
  OBVIOUS
<1>2. i \in 1 .. Len(store)
  BY FindSpec
<1>3. ASSUME \A u, n : u # s => Lookup(new, u, n) = Lookup(store, u, n),
             Distinct(store) => Distinct(new),
             Once(store) => Once(new),
             Distinct(store) /\ Once(store) =>
               \A n : n # 0 => Lookup(new, s, n) = Lookup(store, s, n)
      PROVE  Abstract!Tidy(s)
  <2>1. \A k \in Sections \X (Names \ {0}) : k[1] \notin {s} => Conf(new)[k] = Conf(store)[k]
    BY <1>3 DEF Conf
  <2>2. Distinct(store) /\ Once(store) => Conf(new) = Conf(store)
    BY <1>3, SameConf
  <2>3. UNCHANGED up
    BY DEF ini_delete_section_if_empty
  <2> QED BY <1>1, <1>3, <2>1, <2>2, <2>3
          DEF Abstract!Tidy, Abstract!Elsewhere, Abstract!Keys
<1>4. CASE IsEmpty(store[i])
  <2>1. new = list_delete(store, i)
    BY <1>1, <1>4 DEF ini_delete_section_if_empty
  <2>2. \A u, n : u # s => Lookup(new, u, n) = Lookup(store, u, n)
    BY <1>4, <2>1, EmptySpec
  <2>3. (Distinct(store) => Distinct(new)) /\ (Once(store) => Once(new))
    BY <1>4, <2>1, EmptySpec
  <2>4. Distinct(store) => \A n : n # 0 => Lookup(new, s, n) = Lookup(store, s, n)
    BY <1>4, <2>1, EmptySpec
  <2>5. Abstract!Tidy(s)
    BY <1>3, <2>2, <2>3, <2>4
  <2> QED BY <2>5 DEF Abstract!Next
<1>5. CASE ~IsEmpty(store[i])
  <2>1. PICK es : es = store[i].entries
    OBVIOUS
  <2>2. es \in Seq(EntryType)
    BY <1>2, <2>1, SectionsTyped
  <2>3. PICK rest : rest = Sorted(es)
    OBVIOUS
  <2>4. Shuffled(rest, es)
    BY <2>2, <2>3, SortedSpec
  <2>5. rest \in Seq(EntryType)
    BY <2>4 DEF Shuffled
  <2>6. new = Replaced(store, i, rest)
    BY <1>1, <1>5, <2>1, <2>3 DEF ini_delete_section_if_empty, Replaced
  <2>7. NamesDiffer(es) => NamesDiffer(rest)
    BY <2>2, <2>4, SortKeeps
  <2>8. Distinct(new) = Distinct(store)
    BY <1>2, <2>5, <2>6, ReplaceSpec
  <2>9. Once(store) => Once(new)
    BY <1>2, <2>1, <2>5, <2>6, <2>7, ReplaceSpec
  <2>10. \A u, m : Find(store, u) # i => Lookup(new, u, m) = Lookup(store, u, m)
    BY <1>2, <2>5, <2>6, ReplaceSpec
  <2>11. \A u, m : Find(store, u) = i => Lookup(new, u, m) = TextOf(rest, m)
    BY <1>2, <2>5, <2>6, ReplaceSpec
  <2>12. \A u : u # s => Find(store, u) # i
    BY <1>2, FindSpec
  <2>13. ASSUME Once(store), NEW n, n # 0 PROVE Lookup(new, s, n) = Lookup(store, s, n)
    <3>1. NamesDiffer(es)
      <4>1. i \in DOMAIN store BY <1>2
      <4> QED BY <2>1, <2>13, <4>1 DEF Once
    <3>2. TextOf(rest, n) = TextOf(es, n)
      BY <2>2, <2>4, <2>13, <3>1, SortKeeps
    <3>3. Lookup(store, s, n) = TextOf(es, n)
      BY <2>1, LookupIs
    <3> QED BY <2>11, <3>2, <3>3
  <2>14. Abstract!Tidy(s)
    BY <1>3, <2>8, <2>9, <2>10, <2>12, <2>13
  <2> QED BY <2>14 DEF Abstract!Next
<1> QED BY <1>4, <1>5

LEMMA StepMaps == TypeOK /\ [Next]_vars => [Abstract!Next]_(Abstract!vars)
<1> SUFFICES ASSUME TypeOK, [Next]_vars PROVE [Abstract!Next]_(Abstract!vars)
  OBVIOUS
<1>0. store \in Seq(SectionType) /\ up \in BOOLEAN
  BY DEF TypeOK
<1> USE DEF Abstract!Next
<1>1. CASE ini_new
  <2>1. store' = <<>> /\ ~up /\ up' = TRUE
    BY <1>1 DEF ini_new
  <2> QED BY <2>1, NoneTyped, Loads
<1>2. CASE ini_close
  <2>1. store' = <<>> /\ up /\ up' = FALSE
    BY <1>2 DEF ini_close
  <2>2. Abstract!Close
    BY <2>1, NothingHeld DEF Abstract!Close, Abstract!Empty, Abstract!Keys
  <2> QED BY <2>2
<1>3. CASE ini_strip_quotes
  <2>1. PICK new : new = store'
    OBVIOUS
  <2>2. new = Stripped(store)
    BY <1>3, <2>1 DEF ini_strip_quotes, Stripped
  <2>3. Distinct(new) = Distinct(store) /\ Once(new) = Once(store)
    BY <1>0, <2>2, StripSpec
  <2>4. \A s, n : n # 0 =>
          Lookup(new, s, n) = IF Lookup(store, s, n) = NoText THEN NoText
                              ELSE Strip(Lookup(store, s, n))
    BY <1>0, <2>2, StripSpec
  <2>5. Conf(new) = [k \in Sections \X (Names \ {0}) |->
                       IF Conf(store)[k] = NoText THEN NoText ELSE Strip(Conf(store)[k])]
    BY <2>4 DEF Conf
  <2>6. Abstract!StripAll
    BY <1>3, <2>1, <2>3, <2>5 DEF ini_strip_quotes, Abstract!StripAll, Abstract!Keys
  <2> QED BY <2>6
<1>4. ASSUME NEW file \in Files, ini_read(file)
      PROVE  [Abstract!Next]_(Abstract!vars)
  <2>1. Parsed(file) \in Seq(SectionType)
    BY FileRead DEF Reads
  <2>2. store' = Parsed(file) /\ ~up /\ up' = TRUE
    BY <1>4 DEF ini_read
  <2> QED BY <2>1, <2>2, Loads
<1>5. ASSUME NEW temp \in Names, ini_write(temp)
      PROVE  [Abstract!Next]_(Abstract!vars)
  BY <1>5 DEF ini_write, Abstract!vars
<1>6. ASSUME NEW s \in Sections, ini_find_or_create_section(s)
      PROVE  [Abstract!Next]_(Abstract!vars)
  <2>1. PICK new : new = store'
    OBVIOUS
  <2>2. new = WithSection(store, s) /\ UNCHANGED up
    BY <1>6, <2>1 DEF ini_find_or_create_section
  <2>3. \A t, n : Lookup(new, t, n) = Lookup(store, t, n)
    BY <1>0, <2>2, WithSectionKeeps
  <2>4. Distinct(new) = Distinct(store) /\ Once(new) = Once(store)
    BY <1>0, <2>2, WithSectionKeeps
  <2>5. Conf(new) = Conf(store)
    BY <2>3, SameConf
  <2> QED BY <2>1, <2>2, <2>4, <2>5, Stutters
<1>7. ASSUME NEW s \in Sections, NEW n \in Names, NEW data \in Given, ini_set(s, n, data)
      PROVE  [Abstract!Next]_(Abstract!vars)
  <2>1. PICK new : new = store'
    OBVIOUS
  <2>2. data \in Texts
    BY GivenTyped
  <2>3. Lookup(new, s, n) = data
    BY <1>0, <1>7, <2>1, <2>2, SetStep
  <2>4. \A u, m : u # s \/ m # n => Lookup(new, u, m) = Lookup(store, u, m)
    BY <1>0, <1>7, <2>1, <2>2, SetStep
  <2>5. Distinct(new) = Distinct(store) /\ Once(new) = Once(store)
    BY <1>0, <1>7, <2>1, <2>2, SetStep
  <2>6. UNCHANGED up
    BY <1>7 DEF ini_set
  <2>7. CASE n = 0
    <3>1. Conf(new) = Conf(store)
      BY <2>4, <2>7, SameConf
    <3> QED BY <2>1, <2>5, <2>6, <3>1, Stutters
  <2>8. CASE n # 0
    <3>1. Abstract!Set(<<s, n>>)
      BY <2>1, <2>2, <2>3, <2>4, <2>5, <2>6, <2>8, Sets
    <3> QED BY <2>8, <3>1, KeyOf
  <2> QED BY <2>7, <2>8
<1>8. ASSUME NEW s \in Sections, NEW i, i = Find(store, s), i # 0, OnSection(i)
      PROVE  [Abstract!Next]_(Abstract!vars)
  <2>1. ASSUME NEW n \in Names, ini_section_delete_var(i, n)
        PROVE  [Abstract!Next]_(Abstract!vars)
    BY <1>0, <1>8, <2>1, CutMaps
  <2>2. ASSUME NEW n \in Names, ini_section_get_double(i, n)
        PROVE  [Abstract!Next]_(Abstract!vars)
    BY <1>0, <1>8, <2>2, DoubleMaps
  <2>3. ASSUME NEW t \in Sections, ini_rename_section(i, t)
        PROVE  [Abstract!Next]_(Abstract!vars)
    BY <1>0, <1>8, <2>3, RenameMaps
  <2>4. CASE ini_delete_section_if_empty(i)
    BY <1>0, <1>8, <2>4, TidyMaps
  <2> QED BY <1>8, <2>1, <2>2, <2>3, <2>4 DEF OnSection
<1>9. CASE UNCHANGED vars
  BY <1>9 DEF vars, Abstract!vars
<1> HIDE DEF Abstract!Next
<1> QED BY <1>1, <1>2, <1>3, <1>4, <1>5, <1>6, <1>7, <1>8, <1>9 DEF Next

(* However the lists are built, searched, sorted and cut, lookups see the  *)
(* map of Settings: each call touches the keys it names and no others, and *)
(* where no name stands twice it does to them what it promises.            *)
THEOREM ImplementsSettings == Spec => KeepsSettings
<1>1. Init => Abstract!Init
  BY NothingHeld DEF Init, Abstract!Init, Abstract!Empty, Abstract!Keys
<1> QED BY <1>1, TypesHold, StepMaps, PTL DEF Spec, KeepsSettings, Abstract!Spec
=============================================================================
