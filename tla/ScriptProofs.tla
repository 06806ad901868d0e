---------------------------- MODULE ScriptProofs ----------------------------
(***************************************************************************)
(* Recursion of the script runner is bounded, whatever the scripts are and *)
(* however many there are: by the files the C library can have open.       *)
(***************************************************************************)
EXTENDS Script, TLAPS

(* The part of the state the bound is about.  handles never goes down, as  *)
(* no script is ever closed, so it counts the calls there have been; the   *)
(* calls still on the stack are among them.                                *)
DepthInv ==
  /\ \E S : stack \in Seq(S)
  /\ handles \in Nat
  /\ DepthWithinHandles

LEMMA PrefixIsSeq ==
  ASSUME NEW S, NEW s \in Seq(S), NEW n \in Nat, n <= Len(s)
  PROVE  SubSeq(s, 1, n) \in Seq(S) /\ Len(SubSeq(s, 1, n)) = n
  OBVIOUS

(* The stack of one call more, with another call on top, or one call less. *)
LEMMA StackSteps ==
  ASSUME NEW S, NEW s \in Seq(S), NEW call, NEW next
  PROVE  /\ Append(s, call) \in Seq(S \cup {call})
         /\ Len(Append(s, call)) = Len(s) + 1
         /\ s # <<>> =>
              LET callers == SubSeq(s, 1, Len(s) - 1) IN
              /\ callers \in Seq(S)
              /\ Len(callers) = Len(s) - 1
              /\ Append(callers, call) \in Seq(S \cup {call})
              /\ Len(Append(callers, call)) = Len(s)
              /\ Append(Append(callers, call), next) \in Seq(S \cup {call, next})
              /\ Len(Append(Append(callers, call), next)) = Len(s) + 1
<1>1. ASSUME NEW T, NEW t \in Seq(T), NEW x
      PROVE  Append(t, x) \in Seq(T \cup {x}) /\ Len(Append(t, x)) = Len(t) + 1
  <2>1. t \in Seq(T \cup {x})
    OBVIOUS
  <2> QED BY <2>1
<1>2. CASE s # <<>>
  <2> DEFINE callers == SubSeq(s, 1, Len(s) - 1)
  <2>1. Len(s) \in Nat /\ Len(s) - 1 \in Nat
    BY <1>2
  <2>2. callers \in Seq(S) /\ Len(callers) = Len(s) - 1
    <3> DEFINE n == Len(s) - 1
    <3>1. n \in Nat /\ n <= Len(s)
      BY <2>1
    <3> HIDE DEF n
    <3>2. SubSeq(s, 1, n) \in Seq(S) /\ Len(SubSeq(s, 1, n)) = n
      BY <3>1, PrefixIsSeq
    <3> QED BY <3>2 DEF n
  <2> HIDE DEF callers
  <2>3. Append(callers, call) \in Seq(S \cup {call}) /\ Len(Append(callers, call)) = Len(s)
    BY <1>1, <2>1, <2>2
  <2>4. /\ Append(Append(callers, call), next) \in Seq((S \cup {call}) \cup {next})
        /\ Len(Append(Append(callers, call), next)) = Len(s) + 1
    BY <1>1, <2>1, <2>3
  <2>5. (S \cup {call}) \cup {next} = S \cup {call, next}
    OBVIOUS
  <2> QED BY <1>1, <1>2, <2>2, <2>3, <2>4, <2>5 DEF callers
<1> QED BY <1>1, <1>2

(* What a step can do to the stack.                                        *)
LEMMA StepShape ==
  ASSUME [Next]_vars
  PROVE  \/ stack' \in {stack, <<>>} /\ handles' = handles
         \/ stack # <<>> /\ stack' = Callers /\ handles' = handles
         \/ stack # <<>> /\ handles' = handles
              /\ \E call : stack' = Append(Callers, call)
         \/ stack # <<>> /\ handles < MaxHandles /\ handles' = handles + 1
              /\ \E call, next : stack' = Append(Append(Callers, call), next)
         \/ stack = <<>> /\ handles < MaxHandles /\ handles' = handles + 1
              /\ \E call : stack' = Append(stack, call)
<1>1. CASE CheckVersion
  <2>1. stack # <<>> /\ handles' = handles
    BY <1>1 DEF CheckVersion
  <2>2. stack' = <<>> \/ stack' = Callers \/ \E call : stack' = Append(Callers, call)
    <3>1. PICK o \in Outcomes(Top.file) :
            \/ Fault
            \/ Return
            \/ Becomes([Top EXCEPT !.at = "read"])
            \/ Becomes([Top EXCEPT !.at = "read", !.skipped = TRUE,
                                   !.read = Len(disk[Top.file].lines),
                                   !.line_buf = CutAtDot(LastLine(Top.file))])
      BY <1>1 DEF CheckVersion
    <3> QED BY <3>1 DEF Fault, Return, Becomes
  <2> QED BY <2>1, <2>2
<1>2. CASE ReadLine
  BY <1>2 DEF ReadLine, Becomes
<1>3. CASE EndOfScript
  BY <1>3 DEF EndOfScript, Return
<1>4. CASE NVPlay_RunScriptCommand
  <2>0. stack # <<>>
    BY <1>4 DEF NVPlay_RunScriptCommand, AtLine
  <2>1. CASE SkipLine
    BY <2>0, <2>1 DEF SkipLine, Becomes
  <2>2. CASE RejectLine
    BY <2>0, <2>2 DEF RejectLine, Becomes
  <2>3. CASE Execute
    BY <2>0, <2>3 DEF Execute, Becomes
  <2>4. CASE Command_RunScript
    <3> DEFINE name   == Top.line_buf.tokens[2]
               caller == AfterLine(FirstToken(Top.line_buf))
    <3>1. CASE Clean(Top.line_buf, 2) /\ CanOpen(name)
      <4>1. /\ stack' = Append(Append(Callers, caller), NewCall(name))
            /\ handles' = handles + 1
        BY <2>4, <3>1 DEF Command_RunScript
      <4>2. handles < MaxHandles
        BY <3>1 DEF CanOpen
      <4> QED BY <2>0, <4>1, <4>2
    <3>2. CASE ~(Clean(Top.line_buf, 2) /\ CanOpen(name))
      BY <2>0, <2>4, <3>2 DEF Command_RunScript
    <3> QED BY <3>1, <3>2
  <2>5. CASE GarblesLog
    BY <2>5 DEF GarblesLog, Fault
  <2> QED BY <1>4, <2>1, <2>2, <2>3, <2>4, <2>5 DEF NVPlay_RunScriptCommand
<1>5. ASSUME NEW name \in Files, NVPlay_RunScript(name)
      PROVE  /\ stack = <<>> /\ handles < MaxHandles /\ handles' = handles + 1
             /\ \E call : stack' = Append(stack, call)
  <2>1. stack = <<>> /\ stack' = <<NewCall(name)>>
    BY <1>5 DEF NVPlay_RunScript
  <2>2. Append(stack, NewCall(name)) = <<NewCall(name)>>
    BY <2>1
  <2> QED BY <1>5, <2>1, <2>2 DEF NVPlay_RunScript, CanOpen
<1>6. CASE AtPrompt \/ UNCHANGED vars
  BY <1>6 DEF AtPrompt, vars
<1> QED BY <1>1, <1>2, <1>3, <1>4, <1>5, <1>6 DEF Next, Interpret

LEMMA DepthStep == DepthInv /\ [Next]_vars => DepthInv'
<1> SUFFICES ASSUME DepthInv, [Next]_vars PROVE DepthInv'
  OBVIOUS
<1>1. PICK S : stack \in Seq(S)
  BY DEF DepthInv
<1>2. /\ Len(stack) \in Nat /\ handles \in Nat /\ MaxHandles \in Nat
      /\ Len(stack) <= handles /\ handles <= MaxHandles
  BY <1>1, ScriptAssumption DEF DepthInv, DepthWithinHandles
<1>3. CASE stack' \in {stack, <<>>} /\ handles' = handles
  <2>1. CASE stack' = stack
    BY <1>3, <2>1 DEF DepthInv, DepthWithinHandles
  <2>2. CASE stack' = <<>>
    <3>1. stack' \in Seq({}) /\ Len(stack') = 0
      BY <2>2
    <3> QED BY <1>2, <1>3, <3>1 DEF DepthInv, DepthWithinHandles
  <2> QED BY <1>3, <2>1, <2>2
<1>4. CASE stack # <<>> /\ stack' = Callers /\ handles' = handles
  <2>1. stack' \in Seq(S) /\ Len(stack') = Len(stack) - 1
    BY <1>1, <1>4, StackSteps DEF Callers
  <2> QED BY <1>2, <1>4, <2>1 DEF DepthInv, DepthWithinHandles
<1>5. ASSUME NEW call, stack # <<>>, stack' = Append(Callers, call), handles' = handles
      PROVE  DepthInv'
  <2>1. stack' \in Seq(S \cup {call}) /\ Len(stack') = Len(stack)
    BY <1>1, <1>5, StackSteps DEF Callers
  <2> QED BY <1>2, <1>5, <2>1 DEF DepthInv, DepthWithinHandles
<1>6. ASSUME NEW call, NEW next, stack # <<>>, handles < MaxHandles,
             handles' = handles + 1,
             stack' = Append(Append(Callers, call), next)
      PROVE  DepthInv'
  <2>1. stack' \in Seq(S \cup {call, next}) /\ Len(stack') = Len(stack) + 1
    BY <1>1, <1>6, StackSteps DEF Callers
  <2> QED BY <1>2, <1>6, <2>1 DEF DepthInv, DepthWithinHandles
<1>7. ASSUME NEW call, handles < MaxHandles, handles' = handles + 1,
             stack' = Append(stack, call)
      PROVE  DepthInv'
  <2>1. stack' \in Seq(S \cup {call}) /\ Len(stack') = Len(stack) + 1
    BY <1>1, <1>7, StackSteps
  <2> QED BY <1>2, <1>7, <2>1 DEF DepthInv, DepthWithinHandles
<1> QED BY <1>3, <1>4, <1>5, <1>6, <1>7, StepShape

LEMMA DepthInit == Init => DepthInv
<1> SUFFICES ASSUME Init PROVE DepthInv
  OBVIOUS
<1>1. stack = <<>> /\ handles = 0
  BY DEF Init
<1>2. stack \in Seq({}) /\ Len(stack) = 0
  BY <1>1
<1> QED BY <1>1, <1>2, ScriptAssumption DEF DepthInv, DepthWithinHandles

(* However scripts call themselves and each other, as many calls of        *)
(* NVPlay_RunScript as there are files to open are the deepest recursion.  *)
THEOREM RecursionIsBounded == Spec => []DepthWithinHandles
<1>1. Init => DepthInv
  BY DepthInit
<1>2. DepthInv /\ [Next]_vars => DepthInv'
  BY DepthStep
<1>3. DepthInv => DepthWithinHandles
  BY DEF DepthInv
<1> QED BY <1>1, <1>2, <1>3, PTL DEF Spec

-----------------------------------------------------------------------------
(* The disk                                                                *)

Text     == Seq(Words)
Contents == [lines : Seq(Text), terminated : BOOLEAN]

(* The disk holds files of lines, and no step changes it.                  *)
DiskOK ==
  /\ DOMAIN disk \subseteq Files
  /\ disk \in [DOMAIN disk -> Contents]

(* Short sequences, whatever they are made of.                             *)
LEMMA LinesOfWords ==
  ASSUME NEW S
  PROVE  /\ <<>> \in Seq(S)
         /\ \A a, b \in S : <<a, b>> \in Seq(S)
         /\ \A a, b, c \in S : <<a, b, c>> \in Seq(S)
         /\ \A s \in Seq(S), a \in S : Append(s, a) \in Seq(S)
  OBVIOUS

LEMMA TextsAreTexts == Texts \subseteq Text
<1>1. /\ "//" \in Words /\ "wm32" \in Words /\ "hex" \in Words /\ "rrc32" \in Words
      /\ "MINIMUM_VERSION" \in Words /\ "1.1.1.1" \in Words /\ "9.9.9.9" \in Words
      /\ "%n" \in Words
      /\ "rs" \in Words /\ "" \in Words /\ \A f \in Files : f \in Words
  BY DEF Words
<1>2. /\ <<>> \in Text /\ <<"//", "wm32">> \in Text
      /\ <<"wm32", "hex", "hex">> \in Text /\ <<"rrc32", "hex">> \in Text
      /\ <<"MINIMUM_VERSION", "1.1.1.1">> \in Text
      /\ <<"wm32", "hex", "9.9.9.9">> \in Text /\ <<"wm32", "hex", "%n">> \in Text
  BY <1>1, LinesOfWords, Zenon DEF Text
<1>3. \A f \in Files : <<"rs", f>> \in Text /\ <<"rs", f, "">> \in Text
  BY <1>1, LinesOfWords, Zenon DEF Text
<1> HIDE DEF Text
<1> QED BY <1>2, <1>3 DEF Texts

LEMMA DiskInit == Init => DiskOK
<1> SUFFICES ASSUME Init PROVE DiskOK
  OBVIOUS
<1>1. PICK n \in 0 .. MaxText :
        \E t \in [1 .. n -> Texts], p \in Places(n), ended \in BOOLEAN :
          disk = DiskOf(t, p, ended)
  BY DEF Init, Disks
<1>2. PICK t \in [1 .. n -> Texts], p \in Places(n), ended \in BOOLEAN :
        disk = DiskOf(t, p, ended)
  BY <1>1
<1>3. n \in Nat /\ t \in Seq(Text) /\ Len(t) = n
  BY TextsAreTexts, ScriptAssumption
<1>4. /\ DOMAIN p \subseteq Files
      /\ \A f \in DOMAIN p : /\ p[f][1] \in 0 .. n /\ p[f][2] \in 0 .. n
                             /\ p[f][1] <= p[f][2]
  BY DEF Places
<1>5. ASSUME NEW f \in DOMAIN p PROVE LinesOf(t, p[f]) \in Seq(Text)
  <2> DEFINE a == p[f][1]
             b == p[f][2]
  <2>1. a \in 0 .. n /\ b \in 0 .. n /\ a <= b
    BY <1>4
  <2> HIDE DEF a, b
  <2>2. SubSeq(t, a + 1, b) \in Seq(Text)
    BY <1>3, <2>1
  <2> QED BY <2>2 DEF LinesOf, a, b
<1>6. ASSUME NEW f \in DOMAIN p
      PROVE  Ends(LinesOf(t, p[f]), ended) \in BOOLEAN
  BY Zenon DEF Ends
<1>7. DOMAIN disk = DOMAIN p
  BY <1>2 DEF DiskOf
<1>8. \A f \in DOMAIN p : disk[f] \in Contents
  BY <1>2, <1>5, <1>6 DEF DiskOf, Contents
<1>9. disk = [f \in DOMAIN p |-> disk[f]]
  BY <1>2 DEF DiskOf
<1> QED BY <1>4, <1>7, <1>8, <1>9 DEF DiskOK

LEMMA LineTypes ==
  ASSUME DiskOK, NEW f \in DOMAIN disk
  PROVE  /\ disk[f].lines \in Seq(Text) /\ Len(disk[f].lines) \in Nat
         /\ disk[f].terminated \in BOOLEAN
         /\ \A i \in 1 .. Len(disk[f].lines) : LineOf(f, i) \in Buffers
         /\ LastLine(f) \in Buffers
<1>1. disk[f] \in Contents
  BY DEF DiskOK
<1>2. disk[f].lines \in Seq(Text) /\ disk[f].terminated \in BOOLEAN
  BY <1>1 DEF Contents
<1>3. Len(disk[f].lines) \in Nat
  BY <1>2
<1>4. ASSUME NEW i \in 1 .. Len(disk[f].lines) PROVE LineOf(f, i) \in Buffers
  <2>1. disk[f].lines[i] \in Seq(Words)
    BY <1>2 DEF Text
  <2>2. (i < Len(disk[f].lines) \/ disk[f].terminated) \in BOOLEAN
    BY <1>2, Zenon
  <2> QED BY <2>1, <2>2 DEF LineOf, Buffers
<1>5. LastLine(f) \in Buffers
  <2>1. CASE disk[f].lines = <<>>
    BY <2>1 DEF LastLine, Empty, Buffers
  <2>2. CASE disk[f].lines # <<>>
    <3>1. Len(disk[f].lines) \in 1 .. Len(disk[f].lines)
      BY <1>2, <1>3, <2>2
    <3> QED BY <1>4, <2>2, <3>1 DEF LastLine
  <2> QED BY <2>1, <2>2
<1> QED BY <1>2, <1>3, <1>4, <1>5

-----------------------------------------------------------------------------
(* The calls on the stack                                                  *)

Calls ==
  [file : DOMAIN disk, at : {"check", "read", "run"}, read : Nat, line_buf : Buffers,
   eof : BOOLEAN, fresh : BOOLEAN, ran : Nat, did : SUBSET Nat, skipped : BOOLEAN]

Size(c) == Len(disk[c.file].lines)

(* How far a call has come: up to the line before the one to be run, or,   *)
(* between two lines, up to the last one read.                             *)
Progress(c) ==
  /\ c.read <= Size(c) /\ c.ran <= c.read
  /\ c.at = "check" => c.read = 0 /\ c.ran = 0 /\ c.did = {} /\ ~c.eof /\ ~c.skipped
  /\ c.eof => c.read = Size(c)
  /\ ~c.skipped =>
       /\ c.at = "read" => c.ran = c.read
       /\ c.at = "run"  => c.ran = IF c.fresh THEN c.read - 1 ELSE c.read

(* A line that has been executed is in the buffer with its first token     *)
(* only, or not at all.                                                    *)
Spent(c) ==
  /\ c.did \subseteq 0 .. c.read
  /\ c.read \in c.did => /\ Len(c.line_buf.tokens) = 1
                         /\ c.at = "run" => ~c.fresh

GoodCalls == {c \in Calls : Progress(c) /\ Spent(c)}

CallInv ==
  /\ DiskOK
  /\ stack \in Seq(GoodCalls)
  /\ crashed \in BOOLEAN

LEMMA GoodCallsStay == ASSUME UNCHANGED disk PROVE GoodCalls' = GoodCalls
  BY DEF GoodCalls, Calls, Progress, Spent, Size

(* Where the steps leave the stack.                                        *)
LEMMA StackOfCalls ==
  ASSUME CallInv
  PROVE  /\ stack # <<>> => Top \in GoodCalls /\ Callers \in Seq(GoodCalls)
         /\ \A c \in GoodCalls :
              /\ <<c>> \in Seq(GoodCalls)
              /\ stack # <<>> => Append(Callers, c) \in Seq(GoodCalls)
         /\ \A c, d \in GoodCalls :
              stack # <<>> => Append(Append(Callers, c), d) \in Seq(GoodCalls)
<1>1. stack \in Seq(GoodCalls)
  BY DEF CallInv
<1>2. stack # <<>> => Top \in GoodCalls
  BY <1>1 DEF Top
<1>3. stack # <<>> => Callers \in Seq(GoodCalls)
  BY <1>1, StackSteps DEF Callers
<1> QED BY <1>1, <1>2, <1>3

LEMMA NewCallIsGood ==
  ASSUME DiskOK, NEW name \in DOMAIN disk PROVE NewCall(name) \in GoodCalls
<1>1. Empty \in Buffers
  BY DEF Empty, Buffers
<1>2. Len(disk[name].lines) \in Nat
  BY LineTypes
<1> QED BY <1>1, <1>2 DEF NewCall, GoodCalls, Calls, Progress, Spent, Size

LEMMA FirstTokenFits ==
  ASSUME NEW b \in Buffers, IsCommand(b)
  PROVE  FirstToken(b) \in Buffers /\ Len(FirstToken(b).tokens) = 1
<1>1. b.tokens \in Seq(Words) /\ b.eol \in BOOLEAN /\ b.tokens # <<>>
  BY DEF Buffers, IsCommand
<1>2. Head(b.tokens) \in Words
  BY <1>1
<1>3. <<Head(b.tokens)>> \in Seq(Words) /\ Len(<<Head(b.tokens)>>) = 1
  BY <1>2
<1>4. (b.eol /\ Len(b.tokens) = 1) \in BOOLEAN
  BY Zenon
<1> QED BY <1>3, <1>4 DEF FirstToken, Buffers

-----------------------------------------------------------------------------
(* Each step keeps them                                                    *)

LEMMA CheckKeeps == ASSUME CallInv, CheckVersion PROVE CallInv'
<1>1. stack # <<>> /\ Top.at = "check" /\ UNCHANGED disk
  BY DEF CheckVersion
<1>2. Top \in GoodCalls /\ Top \in Calls /\ Top.file \in DOMAIN disk /\ DiskOK
  BY <1>1, StackOfCalls DEF GoodCalls, Calls, CallInv
<1>3. Size(Top) \in Nat /\ disk[Top.file].lines \in Seq(Text) /\ LastLine(Top.file) \in Buffers
  BY <1>2, LineTypes DEF Size
<1>4. PICK o \in Outcomes(Top.file) :
        \/ o = "fault"  /\ Fault
        \/ o = "refuse" /\ Return /\ UNCHANGED crashed
        \/ /\ o = "run"
           /\ Becomes([Top EXCEPT !.at = "read"])
           /\ UNCHANGED crashed
        \/ /\ o = "skip"
           /\ Becomes([Top EXCEPT !.at = "read", !.skipped = TRUE,
                                  !.read = Len(disk[Top.file].lines),
                                  !.line_buf = CutAtDot(LastLine(Top.file))])
           /\ UNCHANGED crashed
  BY DEF CheckVersion
<1>5. SUFFICES stack' \in Seq(GoodCalls) /\ crashed' \in BOOLEAN
  BY <1>1, GoodCallsStay DEF CallInv, DiskOK
<1>6. CASE o = "fault"
  BY <1>4, <1>6 DEF Fault
<1>7. CASE o = "refuse"
  BY <1>1, <1>4, <1>7, StackOfCalls DEF Return, CallInv
<1>8. CASE o = "run"
  <2>1. [Top EXCEPT !.at = "read"] \in GoodCalls
    BY <1>1, <1>2, <1>3 DEF GoodCalls, Calls, Progress, Spent, Size
  <2> QED BY <1>1, <1>4, <1>8, <2>1, StackOfCalls DEF Becomes, CallInv
<1>9. CASE o = "skip"
  <2> DEFINE b == LastLine(Top.file)
             i == CHOOSE i \in DOMAIN b.tokens : Dotted(b.tokens[i]) # <<>>
             c == [Top EXCEPT !.at = "read", !.skipped = TRUE,
                              !.read = Len(disk[Top.file].lines),
                              !.line_buf = CutAtDot(b)]
  <2>1. \E k \in DOMAIN b.tokens : Dotted(b.tokens[k]) # <<>>
    <3>1. Gaps(Version(Top.file)) = {}
      BY <1>9 DEF Outcomes
    <3>2. Version(Top.file) # <<>>
      BY <3>1 DEF Gaps
    <3> QED BY <3>2 DEF Version
  <2>2. i \in DOMAIN b.tokens /\ b.tokens \in Seq(Words)
    BY <1>3, <2>1 DEF Buffers
  <2> HIDE DEF i
  <2>3. i - 1 \in Nat /\ i - 1 <= Len(b.tokens)
    BY <2>2
  <2>4. SubSeq(b.tokens, 1, i - 1) \in Seq(Words)
    BY <2>2, <2>3, PrefixIsSeq
  <2>5. Append(SubSeq(b.tokens, 1, i - 1), "stub") \in Seq(Words)
    <3>1. "stub" \in Words
      BY DEF Words
    <3> HIDE DEF b
    <3> QED BY <2>4, <3>1, LinesOfWords, Zenon
  <2>6. CutAtDot(b) \in Buffers
    BY <2>5 DEF CutAtDot, Buffers, i
  <2> HIDE DEF b
  <2>7. c \in Calls
    BY <1>2, <1>3, <2>6 DEF Calls, Size
  <2>8. Progress(c) /\ Spent(c)
    BY <1>1, <1>2, <1>3, <2>6 DEF GoodCalls, Calls, Progress, Spent, Size
  <2>9. c \in GoodCalls
    BY <2>7, <2>8 DEF GoodCalls
  <2> QED BY <1>1, <1>4, <1>9, <2>9, StackOfCalls DEF Becomes, CallInv, b
<1> QED BY <1>4, <1>6, <1>7, <1>8, <1>9

LEMMA ReadKeeps == ASSUME CallInv, ReadLine PROVE CallInv'
<1>1. stack # <<>> /\ Top.at = "read" /\ ~Top.eof /\ UNCHANGED <<disk, crashed>>
  BY DEF ReadLine
<1>2. Top \in GoodCalls /\ Top \in Calls /\ Top.file \in DOMAIN disk /\ DiskOK
  BY <1>1, StackOfCalls DEF GoodCalls, Calls, CallInv
<1>3. Size(Top) \in Nat /\ Top.read \in Nat /\ disk[Top.file].terminated \in BOOLEAN
  BY <1>2, LineTypes DEF Size, Calls
<1> DEFINE n == Top.read + 1
           more == n <= Len(disk[Top.file].lines)
           c == [Top EXCEPT !.at = "run", !.eof = FileEnds(Top.file, n),
                            !.read = IF more THEN n ELSE @,
                            !.line_buf = IF more THEN LineOf(Top.file, n) ELSE @,
                            !.fresh = more]
<1>4. stack' = Append(Callers, c)
  BY DEF ReadLine, Becomes
<1>5. FileEnds(Top.file, n) \in BOOLEAN /\ more \in BOOLEAN
  <2>1. FileEnds(Top.file, n) \in BOOLEAN
    BY Zenon DEF FileEnds
  <2>2. more \in BOOLEAN
    BY <1>3 DEF Size
  <2> QED BY <2>1, <2>2
<1>6. more => LineOf(Top.file, n) \in Buffers
  BY <1>2, <1>3, LineTypes DEF Size
<1>7. Top \in Calls /\ Progress(Top) /\ Spent(Top)
  BY <1>2 DEF GoodCalls
<1> DEFINE e == FileEnds(Top.file, n)
           r == IF more THEN n ELSE Top.read
           l == IF more THEN LineOf(Top.file, n) ELSE Top.line_buf
<1>8. r \in Nat /\ l \in Buffers /\ e \in BOOLEAN /\ more \in BOOLEAN
  BY <1>2, <1>3, <1>5, <1>6 DEF Calls
<1>9. /\ Top.read <= r /\ r <= Size(Top)
      /\ e => r = Size(Top)
      /\ IF more THEN r = Top.read + 1 ELSE r = Top.read /\ l = Top.line_buf
  BY <1>3, <1>7 DEF FileEnds, Progress, Size
<1>10. c = [Top EXCEPT !.at = "run", !.eof = e, !.read = r, !.line_buf = l,
                      !.fresh = more]
  OBVIOUS
<1> HIDE DEF c, e, r, l, more, n
<1>11. c \in Calls
  BY <1>7, <1>8, <1>10 DEF Calls
<1>12. Progress(c)
  BY <1>1, <1>3, <1>7, <1>8, <1>9, <1>10 DEF Calls, Progress, Size
<1>13. Spent(c)
  BY <1>1, <1>3, <1>7, <1>8, <1>9, <1>10 DEF Calls, Spent
<1>14. c \in GoodCalls
  BY <1>11, <1>12, <1>13 DEF GoodCalls
<1>15. stack' \in Seq(GoodCalls)
  BY <1>1, <1>4, <1>14, StackOfCalls
<1> QED BY <1>1, <1>15, GoodCallsStay DEF CallInv, DiskOK

LEMMA EndKeeps == ASSUME CallInv, EndOfScript PROVE CallInv'
<1>1. stack # <<>> /\ stack' = Callers /\ UNCHANGED <<disk, crashed>>
  BY DEF EndOfScript, Return
<1> QED BY <1>1, StackOfCalls, GoodCallsStay DEF CallInv, DiskOK

(* A call whose line has been run.                                         *)
LEMMA AfterLineIsGood ==
  ASSUME CallInv, AtLine, NEW rest \in Buffers, NEW did \in SUBSET Nat,
         \/ did = Top.did /\ (Len(rest.tokens) = 1 \/ rest = Top.line_buf)
         \/ did = Top.did \cup {Top.read} /\ Len(rest.tokens) = 1
  PROVE  [AfterLine(rest) EXCEPT !.did = did] \in GoodCalls
<1>1. Top \in GoodCalls /\ Top \in Calls /\ Top.at = "run"
  BY StackOfCalls DEF AtLine, GoodCalls
<1>2. Size(Top) \in Nat /\ Top.read \in Nat /\ Top.ran \in Nat /\ Top.did \in SUBSET Nat
  BY <1>1, LineTypes DEF CallInv, Size, Calls
<1> DEFINE c == [AfterLine(rest) EXCEPT !.did = did]
<1>3. c \in Calls
  BY <1>1, <1>2 DEF AfterLine, Calls
<1>4. Progress(c)
  BY <1>1, <1>2 DEF AfterLine, GoodCalls, Calls, Progress, Size
<1>5. Spent(c)
  BY <1>1, <1>2 DEF AfterLine, GoodCalls, Calls, Spent
<1> QED BY <1>3, <1>4, <1>5 DEF GoodCalls

LEMMA CommandKeeps == ASSUME CallInv, NVPlay_RunScriptCommand PROVE CallInv'
<1>1. AtLine /\ stack # <<>> /\ UNCHANGED disk /\ crashed' \in BOOLEAN
  BY DEF NVPlay_RunScriptCommand, AtLine, GarblesLog, Fault, CallInv
<1>2. Top \in Calls /\ Top.line_buf \in Buffers /\ Top.did \in SUBSET Nat /\ Top.read \in Nat
  BY <1>1, StackOfCalls DEF GoodCalls, Calls
<1>3. ASSUME NEW rest \in Buffers, Len(rest.tokens) = 1 \/ rest = Top.line_buf
      PROVE  AfterLine(rest) \in GoodCalls
  <2>1. [AfterLine(rest) EXCEPT !.did = Top.did] \in GoodCalls
    BY <1>1, <1>2, <1>3, AfterLineIsGood
  <2>2. [AfterLine(rest) EXCEPT !.did = Top.did] = AfterLine(rest)
    BY <1>2 DEF AfterLine, Calls
  <2> QED BY <2>1, <2>2
<1>4. SUFFICES stack' \in Seq(GoodCalls)
  BY <1>1, GoodCallsStay DEF CallInv, DiskOK
<1>5. CASE SkipLine
  BY <1>1, <1>2, <1>3, <1>5, StackOfCalls DEF SkipLine, Becomes
<1>6. CASE RejectLine
  <2>1. FirstToken(Top.line_buf) \in Buffers /\ Len(FirstToken(Top.line_buf).tokens) = 1
    BY <1>2, <1>6, FirstTokenFits DEF RejectLine
  <2> QED BY <1>1, <1>3, <1>6, <2>1, StackOfCalls DEF RejectLine, Becomes
<1>7. CASE Execute
  <2>1. FirstToken(Top.line_buf) \in Buffers /\ Len(FirstToken(Top.line_buf).tokens) = 1
    BY <1>2, <1>7, FirstTokenFits DEF Execute, Runs
  <2> DEFINE d == IF TakesParameters(Top.line_buf) THEN Top.did \cup {Top.read} ELSE Top.did
             a == AfterLine(FirstToken(Top.line_buf))
  <2>2. a.did = Top.did
    BY <1>2 DEF AfterLine, Calls
  <2>3. stack' = Append(Callers, [a EXCEPT !.did = d])
    BY <1>7, <2>2 DEF Execute, Becomes
  <2>4. [a EXCEPT !.did = d] \in GoodCalls
    <3>1. d \in SUBSET Nat /\ (d = Top.did \/ d = Top.did \cup {Top.read})
      BY <1>2
    <3> HIDE DEF d
    <3> QED BY <1>1, <2>1, <3>1, AfterLineIsGood
  <2> QED BY <1>1, <2>3, <2>4, StackOfCalls
<1>8. CASE Command_RunScript
  <2>1. FirstToken(Top.line_buf) \in Buffers /\ Len(FirstToken(Top.line_buf).tokens) = 1
    BY <1>2, <1>8, FirstTokenFits DEF Command_RunScript, Runs
  <2> DEFINE name == Top.line_buf.tokens[2]
             a == AfterLine(FirstToken(Top.line_buf))
  <2>2. a \in GoodCalls
    BY <1>3, <2>1
  <2>3. CASE Clean(Top.line_buf, 2) /\ CanOpen(name)
    <3>1. stack' = Append(Append(Callers, a), NewCall(name))
      BY <1>8, <2>3 DEF Command_RunScript
    <3>2. NewCall(name) \in GoodCalls
      BY <2>3, NewCallIsGood DEF CanOpen, CallInv
    <3> HIDE DEF name, a
    <3> QED BY <1>1, <2>2, <3>1, <3>2, StackOfCalls
  <2>4. CASE ~(Clean(Top.line_buf, 2) /\ CanOpen(name))
    <3>1. stack' = Append(Callers, a)
      BY <1>8, <2>4 DEF Command_RunScript
    <3> HIDE DEF a
    <3> QED BY <1>1, <2>2, <3>1, StackOfCalls
  <2> QED BY <2>3, <2>4
<1>9. CASE GarblesLog
  BY <1>9 DEF GarblesLog, Fault
<1> QED BY <1>5, <1>6, <1>7, <1>8, <1>9 DEF NVPlay_RunScriptCommand

LEMMA CallStep == CallInv /\ [Next]_vars => CallInv'
<1> SUFFICES ASSUME CallInv, [Next]_vars PROVE CallInv'
  OBVIOUS
<1>1. CASE Interpret
  BY <1>1, CheckKeeps, ReadKeeps, EndKeeps, CommandKeeps DEF Interpret
<1>2. ASSUME NEW name \in Files, NVPlay_RunScript(name) PROVE CallInv'
  <2>1. NewCall(name) \in GoodCalls
    BY <1>2, NewCallIsGood DEF NVPlay_RunScript, CanOpen, CallInv
  <2>2. stack' \in Seq(GoodCalls)
    BY <1>2, <2>1, StackOfCalls DEF NVPlay_RunScript
  <2> QED BY <1>2, <2>2, GoodCallsStay DEF NVPlay_RunScript, CallInv, DiskOK
<1>3. CASE AtPrompt \/ UNCHANGED vars
  BY <1>3, GoodCallsStay DEF AtPrompt, vars, CallInv, DiskOK
<1> QED BY <1>1, <1>2, <1>3 DEF Next

LEMMA CallsAreGood == Spec => []CallInv
<1>1. Init => CallInv
  <2> SUFFICES ASSUME Init PROVE CallInv
    OBVIOUS
  <2>1. stack = <<>> /\ crashed = FALSE
    BY DEF Init
  <2>2. stack \in Seq(GoodCalls)
    BY <2>1
  <2>3. crashed \in BOOLEAN
    BY <2>1
  <2> QED BY <2>2, <2>3, DiskInit DEF CallInv
<1> QED BY <1>1, CallStep, PTL DEF Spec

-----------------------------------------------------------------------------
(* Results                                                                 *)

(* Every variable keeps its type, and a call stays within its file.        *)
THEOREM ScriptTypeOK == Spec => []TypeOK
<1>1. CallInv /\ DepthInv => TypeOK
  <2> SUFFICES ASSUME CallInv, DepthInv PROVE TypeOK
    OBVIOUS
  <2>1. handles \in 0 .. MaxHandles
    BY ScriptAssumption DEF DepthInv, DepthWithinHandles
  <2>2. ASSUME NEW i \in 1 .. Len(stack)
        PROVE  /\ stack[i].file \in DOMAIN disk
               /\ stack[i].at \in {"check", "read", "run"}
               /\ stack[i].read \in 0 .. Len(disk[stack[i].file].lines)
               /\ stack[i].line_buf \in Buffers
               /\ {stack[i].eof, stack[i].fresh, stack[i].skipped} \subseteq BOOLEAN
               /\ stack[i].ran \in 0 .. stack[i].read
               /\ stack[i].did \subseteq 0 .. stack[i].read
    <3>1. stack[i] \in GoodCalls
      BY DEF CallInv
    <3> DEFINE c == stack[i]
    <3>2. c \in Calls /\ Progress(c) /\ Spent(c)
      BY <3>1 DEF GoodCalls
    <3>3. c.file \in DOMAIN disk /\ Size(c) \in Nat
      BY <3>2, LineTypes DEF CallInv, Calls, Size
    <3> HIDE DEF c
    <3>4. /\ c.at \in {"check", "read", "run"}
          /\ c.read \in 0 .. Size(c)
          /\ c.line_buf \in Buffers
          /\ {c.eof, c.fresh, c.skipped} \subseteq BOOLEAN
          /\ c.ran \in 0 .. c.read
          /\ c.did \subseteq 0 .. c.read
      BY <3>2, <3>3 DEF Calls, Progress, Spent
    <3> QED BY <3>3, <3>4 DEF c, Size
  <2> QED BY <2>1, <2>2 DEF TypeOK, CallInv, DiskOK
<1>2. Spec => []DepthInv
  <2>1. Init => DepthInv
    BY DepthInit
  <2> QED BY <2>1, DepthStep, PTL DEF Spec
<1> QED BY <1>1, <1>2, CallsAreGood, PTL

(* A script left at its end has had all its lines run in order, whatever   *)
(* has been called in between, unless the version check skipped them.      *)
THEOREM EveryLineIsRun == Spec => EveryLineRuns
<1> DEFINE P == EndOfScript => Top.skipped \/ Top.ran = Len(disk[Top.file].lines)
<1>1. CallInv => P
  <2> SUFFICES ASSUME CallInv, EndOfScript
               PROVE  Top.skipped \/ Top.ran = Len(disk[Top.file].lines)
    OBVIOUS
  <2>1. stack # <<>> /\ Top.at = "read" /\ Top.eof
    BY DEF EndOfScript
  <2>2. Progress(Top)
    BY <2>1, StackOfCalls DEF GoodCalls
  <2> QED BY <2>1, <2>2 DEF Progress, Size
<1>2. CallInv /\ [Next]_vars => [P]_vars
  BY <1>1
<1> QED BY <1>2, CallsAreGood, PTL DEF Spec, EveryLineRuns

(* No command with parameters is executed a second time when what the end  *)
(* of the file has left in the buffer is run again: it has lost them.      *)
THEOREM NothingRunsTwice == Spec => NoCommandTwice
<1> DEFINE P == AtLine /\ Execute /\ TakesParameters(Top.line_buf)
                  => Top.read \notin Top.did
<1>1. CallInv => P
  <2> SUFFICES ASSUME CallInv, AtLine, Execute, TakesParameters(Top.line_buf),
                      Top.read \in Top.did
               PROVE  FALSE
    OBVIOUS
  <2>1. Spent(Top) /\ Top.line_buf \in Buffers
    BY StackOfCalls DEF AtLine, GoodCalls, Calls
  <2>2. Len(Top.line_buf.tokens) = 1
    BY <2>1 DEF Spent
  <2>3. Head(Top.line_buf.tokens) \in {"wm32", "rrc32", "rs"}
    BY DEF Execute, Runs, Known, num_parameters
  <2>4. num_parameters[Head(Top.line_buf.tokens)] \in Nat
    BY <2>3 DEF num_parameters
  <2> QED BY <2>2, <2>4 DEF Execute, Runs, Enough, TakesParameters
<1>2. CallInv /\ [Next]_vars => [P]_vars
  BY <1>1
<1> QED BY <1>2, CallsAreGood, PTL DEF Spec, NoCommandTwice

=============================================================================
