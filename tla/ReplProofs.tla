----------------------------- MODULE ReplProofs -----------------------------
(***************************************************************************)
(* What holds of the REPL's command history for every buffer size, history *)
(* length and length of session.                                           *)
(***************************************************************************)
EXTENDS Repl, TLAPS

(* The inductive invariant: besides the types, the cursor is in the array  *)
(* once a line is recorded, never beyond the newest slot, and the slots    *)
(* beyond that one are still the zeroed ones.                              *)
IInv == TypeOK /\ CursorInHistory /\ CursorWithinMax /\ EmptyAboveMax

(* The first word of a line is no longer than the line, so it fits too.    *)
LEMMA FirstWordsFit ==
  ASSUME NEW n \in 0 .. MaxStr - 1, NEW c \in LineClasses(n), NEW w \in FirstWords(n, c)
  PROVE  c \in Classes /\ w \in Words
<1>1. c \in Classes BY DEF LineClasses, Classes
<1>2. CASE w = [len |-> n, class |-> c] BY <1>1, <1>2 DEF Words
<1>3. CASE w \in [len : 1 .. n - 1, class : Classes]
  BY <1>1, <1>3, ReplAssumption DEF Words
<1>4. QED BY <1>1, <1>2, <1>3 DEF FirstWords

(* A completed line keeps the types of the variables it sets.              *)
LEMMA SubmitTypes ==
  ASSUME TypeOK, NEW n \in 0 .. MaxStr - 1, Submit(n)
  PROVE  /\ pc' = "eval" /\ len' \in 0 .. MaxStr - 1
         /\ text' \in Lines /\ lines' \in Lines
         /\ class' \in Classes /\ word' \in Words /\ formats' \subseteq Lines
<1>1. PICK c \in LineClasses(n) :
        /\ class' = c /\ word' \in FirstWords(n, c)
        /\ formats' \in {formats} \cup
             (IF n > 0 /\ c = "command" THEN {formats \cup {lines'}} ELSE {})
  BY DEF Submit
<1>2. class' \in Classes /\ word' \in Words BY <1>1, FirstWordsFit
<1>3. lines' \in Lines BY ReplAssumption DEF Submit, TypeOK, Lines
<1>4. formats' \subseteq formats \cup {lines'} BY <1>1
<1>5. formats' \subseteq Lines BY <1>3, <1>4 DEF TypeOK
<1>6. QED BY <1>2, <1>3, <1>5 DEF Submit

(* The length a call of Input_GetStringAndChar starts from.                *)
LEMMA StartOfCallType == ASSUME TypeOK PROVE StartOfCall \in 0 .. MaxStr - 1
  BY ReplAssumption DEF TypeOK, StartOfCall

(* Recording a line and moving the cursor: the heart of the argument.      *)
LEMMA AdvancePreserves ==
  ASSUME IInv, NEW id \in IdAfterCopy(command_history_id),
         Advance(Record(command_history, command_history_id), id)
  PROVE  /\ command_history' \in [Slots -> Lines]
         /\ command_history_id' \in -1 .. MaxHistory - 1
         /\ command_history_id_max' \in 0 .. MaxHistory
         /\ (CursorInHistory /\ CursorWithinMax /\ EmptyAboveMax)'
<1> DEFINE h == Record(command_history, command_history_id)
<1>1. h \in [Slots -> Lines] BY DEF IInv, TypeOK, Record
<1>2. id \in -1 .. MaxHistory - 1 /\ id >= command_history_id
  BY ReplAssumption DEF IInv, TypeOK, IdAfterCopy, Slots
<1>3. \A s \in Slots : s >= command_history_id_max /\ s > id => h[s] = 0
  BY <1>2, ReplAssumption DEF IInv, TypeOK, EmptyAboveMax, Record, Slots
<1>4. Shift(h) \in [Slots -> Lines] BY <1>1 DEF Shift
<1>5. command_history' \in [Slots -> Lines] BY <1>1, <1>4 DEF Advance
<1>6. /\ command_history_id_max' \in 0 .. MaxHistory
      /\ command_history_id_max' >= id + 1
      /\ command_history_id_max' >= command_history_id_max
  BY <1>2, ReplAssumption DEF Advance, Highest, IInv, TypeOK
<1>7. /\ command_history_id' \in 0 .. MaxHistory - 1
      /\ command_history_id' <= id + 1
  BY <1>2, ReplAssumption DEF Advance
<1>8. EmptyAboveMax'
  <2>1. CASE id + 1 >= MaxHistory
    BY <1>2, <1>6, <2>1, ReplAssumption DEF EmptyAboveMax, Slots
  <2>2. CASE ~(id + 1 >= MaxHistory)
    <3>1. command_history' = h BY <2>2 DEF Advance
    <3>2. SUFFICES ASSUME NEW s \in Slots, s >= command_history_id_max'
                   PROVE  h[s] = 0
      BY <3>1 DEF EmptyAboveMax
    <3>3. s >= command_history_id_max /\ s > id
      BY <1>2, <1>6, <3>2, ReplAssumption DEF Slots, IInv, TypeOK
    <3>4. QED BY <1>3, <3>3
  <2>3. QED BY <2>1, <2>2
<1>9. QED
  BY <1>2, <1>5, <1>6, <1>7, <1>8, ReplAssumption
  DEF CursorInHistory, CursorWithinMax, Slots

(* What may become of a program that prints some slots.                    *)
LEMMA SurvivingOutcomes ==
  ASSUME NEW slots, NEW o \in Surviving(slots)
  PROVE  /\ o \in {"read", "crashed", "garbled"}
         /\ slots \subseteq Slots => o # "crashed"
  BY DEF Surviving, Garbling

(* Moving through the history keeps the cursor where it may be.            *)
LEMMA BrowsePreserves ==
  ASSUME IInv, \/ NVPlay_ReplDecrementCommandHistory
               \/ NVPlay_ReplIncrementCommandHistory
  PROVE  /\ pc' \in {"read", "crashed", "garbled"}
         /\ command_history' = command_history
         /\ command_history_id' \in -1 .. MaxHistory - 1
         /\ command_history_id_max' = command_history_id_max
         /\ (CursorInHistory /\ CursorWithinMax /\ EmptyAboveMax)'
<1>1. /\ pc' \in {"read", "crashed", "garbled"}
      /\ command_history' = command_history
      /\ command_history_id_max' = command_history_id_max
  BY SurvivingOutcomes DEF NVPlay_ReplDecrementCommandHistory, NVPlay_ReplIncrementCommandHistory
<1>2. EmptyAboveMax' BY <1>1 DEF IInv, EmptyAboveMax
<1>3. CASE NVPlay_ReplDecrementCommandHistory
  <2>1. command_history_id' \in 0 .. MaxHistory - 1
        /\ (command_history_id' = 0 \/ command_history_id' <= command_history_id)
    BY <1>3, ReplAssumption
    DEF NVPlay_ReplDecrementCommandHistory, ClampLow, IInv, TypeOK
  <2>2. QED BY <1>1, <1>2, <2>1, ReplAssumption
            DEF IInv, TypeOK, CursorInHistory, CursorWithinMax, Slots
<1>4. CASE NVPlay_ReplIncrementCommandHistory
  <2>1. /\ command_history_id' \in -1 .. MaxHistory - 1
        /\ command_history_id' <= command_history_id_max
        /\ command_history_id_max > 0 => command_history_id' >= 0
    BY <1>4, ReplAssumption
    DEF NVPlay_ReplIncrementCommandHistory, ClampHigh, IInv, TypeOK
  <2>2. QED BY <1>1, <1>2, <2>1, ReplAssumption
            DEF IInv, TypeOK, CursorInHistory, CursorWithinMax, Slots
<1>5. QED BY <1>3, <1>4

LEMMA InitEstablishes == Init => IInv
<1> SUFFICES ASSUME Init PROVE IInv
  OBVIOUS
<1>1. /\ len \in 0 .. MaxStr - 1 /\ typed \in Nat
      /\ text \in Lines /\ lines \in Lines /\ ran \in Lines
      /\ class \in Classes /\ word \in Words /\ formats \subseteq Lines
  BY ReplAssumption DEF Init, Lines, Classes, Words
<1>2. /\ command_history \in [Slots -> Lines]
      /\ command_history_id \in -1 .. MaxHistory - 1
      /\ command_history_id_max \in 0 .. MaxHistory
      /\ CursorInHistory /\ CursorWithinMax /\ EmptyAboveMax
  BY ReplAssumption
  DEF Init, CursorInHistory, CursorWithinMax, EmptyAboveMax, Slots, Lines
<1>3. /\ dumb \in BOOLEAN /\ input_last_return_was_successful \in BOOLEAN
      /\ pc \in {"read", "eval", "stopped", "crashed", "garbled"}
  BY Zenon DEF Init
<1>4. QED BY <1>1, <1>2, <1>3, Zenon DEF IInv, TypeOK

(* A call that returns false, and what it does to the line variables.      *)
LEMMA ReturnsTypes ==
  ASSUME TypeOK, NEW n \in 0 .. MaxStr - 1, Returns(n)
  PROVE  /\ dumb' \in BOOLEAN /\ input_last_return_was_successful' \in BOOLEAN
         /\ len' \in 0 .. MaxStr - 1
         /\ text' \in Lines /\ lines' \in Lines /\ ran' \in Lines
         /\ class' \in Classes /\ word' \in Words /\ formats' \subseteq Lines
<1>1. text' \in Lines BY ReplAssumption DEF TypeOK, Returns, Lines
<1>2. QED BY <1>1, Zenon DEF TypeOK, Returns

(* A step that leaves the history alone keeps what IInv says of it.        *)
LEMMA SameHistory ==
  ASSUME IInv, UNCHANGED history
  PROVE  /\ command_history' \in [Slots -> Lines]
         /\ command_history_id' \in -1 .. MaxHistory - 1
         /\ command_history_id_max' \in 0 .. MaxHistory
         /\ (CursorInHistory /\ CursorWithinMax /\ EmptyAboveMax)'
  BY DEF history, IInv, TypeOK, CursorInHistory, CursorWithinMax, EmptyAboveMax

(* A line that is run ends the REPL, or not, or nobody knows.              *)
LEMMA DispatchOutcomes ==
  ASSUME Dispatch PROVE pc' \in {"stopped", "read", "garbled"}
  BY DEF Dispatch, Garbling

LEMMA NextPreserves == IInv /\ [Next]_vars => IInv'
<1> SUFFICES ASSUME IInv, [Next]_vars PROVE IInv'
  OBVIOUS
<1> USE DEF IInv
<1>1. ASSUME NEW k \in Keys, Poll(k) PROVE IInv'
  <2>0. StartOfCall \in 0 .. MaxStr - 1 BY StartOfCallType
  <2>1. CASE Ignore(k)
    BY <2>0, <2>1, SameHistory, ReturnsTypes DEF Ignore, KeepReading, TypeOK
  <2>2. CASE Backspace(k)
    <3> DEFINE n == IF StartOfCall > 0 THEN StartOfCall - 1 ELSE 0
    <3>1. n \in 0 .. MaxStr - 1 BY <2>0, ReplAssumption
    <3>2. typed' \in Nat BY <2>2 DEF Backspace, TypeOK
    <3>3. pc' = "read" /\ Returns(n) /\ UNCHANGED history BY <2>2 DEF Backspace, KeepReading
    <3>4. QED BY <3>1, <3>2, <3>3, SameHistory, ReturnsTypes DEF TypeOK
  <2>3. CASE TypeChar(k)
    <3> DEFINE n == StartOfCall + Bytes(k)
    <3>1. Bytes(k) \in {0, 1} BY DEF Bytes
    <3>2. n \in 0 .. MaxStr - 1
      BY <2>0, <2>3, <3>1, ReplAssumption DEF TypeChar, OutOfSpace
    <3>3. typed' \in Nat BY <2>3, <3>1 DEF TypeChar, TypeOK
    <3>4. pc' = "read" /\ Returns(n) /\ UNCHANGED history BY <2>3 DEF TypeChar, KeepReading
    <3>5. QED BY <3>2, <3>3, <3>4, SameHistory, ReturnsTypes DEF TypeOK
  <2>4. CASE Enter(k)
    <3>1. UNCHANGED <<dumb, history, typed, ran>>
          /\ input_last_return_was_successful' \in BOOLEAN
      BY <2>4, Zenon DEF Enter
    <3>2. Submit(StartOfCall) BY <2>4 DEF Enter
    <3>3. QED BY <2>0, <3>1, <3>2, SameHistory, SubmitTypes DEF TypeOK
  <2>5. CASE Browse(k)
    <3>1. Returns(StartOfCall) /\ UNCHANGED typed BY <2>5 DEF Browse
    <3>2. \/ NVPlay_ReplDecrementCommandHistory
          \/ NVPlay_ReplIncrementCommandHistory
      BY <2>5 DEF Browse
    <3>3. QED BY <2>0, <3>1, <3>2, ReturnsTypes, BrowsePreserves DEF TypeOK
  <2>6. CASE GarbledMessage(k)
    BY <2>0, <2>6, SameHistory, ReturnsTypes DEF GarbledMessage, TypeOK
  <2>7. QED BY <1>1, <2>1, <2>2, <2>3, <2>4, <2>5, <2>6 DEF Poll
<1>2. CASE ReadLine
  <2>1. PICK n \in 0 .. MaxStr - 1 : Submit(n) BY <1>2 DEF ReadLine
  <2>2. QED BY <1>2, <2>1, SameHistory, SubmitTypes DEF ReadLine, TypeOK
<1>3. CASE ReadEOF
  BY <1>3, SameHistory DEF ReadEOF, TypeOK, input
<1>4. CASE Eval
  <2>1. PICK id \in IdAfterCopy(command_history_id) :
          Advance(Record(command_history, command_history_id), id)
    BY <1>4 DEF Eval
  <2>2. len' \in 0 .. MaxStr - 1 /\ class' \in Classes /\ pc' \in {"stopped", "read", "garbled"}
    BY <1>4, DispatchOutcomes DEF Eval, Dispatch, TypeOK, Words
  <2>3. QED BY <1>4, <2>1, <2>2, AdvancePreserves DEF Eval, TypeOK
<1>5. CASE CorruptingCopy
  BY <1>5, SameHistory DEF CorruptingCopy, TypeOK, input
<1>6. CASE UNCHANGED vars
  BY <1>6, SameHistory DEF vars, input, history, TypeOK
<1>7. QED BY <1>1, <1>2, <1>3, <1>4, <1>5, <1>6 DEF Next, Stopped

(* IInv holds throughout every session.                                    *)
THEOREM HistoryInvariant == Spec => []IInv
<1>1. Init => IInv BY InitEstablishes
<1>2. IInv /\ [Next]_vars => IInv' BY NextPreserves
<1>3. QED BY <1>1, <1>2, PTL DEF Spec

(* Every variable of the REPL and its line input keeps its type.           *)
THEOREM TypeCorrect == Spec => []TypeOK
  BY HistoryInvariant, PTL DEF IInv

(* For any history length and any sequence of keys and lines the cursor is *)
(* a valid index of command_history as soon as one line is recorded, never *)
(* past the slot right after the newest one, and what stands beyond that   *)
(* has never been written: an arrow key shows recorded lines or an empty   *)
(* one.                                                                    *)
THEOREM HistoryIsInOrder == Spec => []HistoryInOrder
<1>1. IInv => HistoryInOrder BY DEF IInv, HistoryInOrder
<1> QED BY <1>1, HistoryInvariant, PTL

-----------------------------------------------------------------------------
(* Action properties                                                       *)

(* The step that records a line, seen from the array.                      *)
LEMMA RecordedBehindCursor ==
  ASSUME IInv, Eval, command_history_id \in Slots
  PROVE  /\ command_history_id' - 1 \in Slots
         /\ command_history'[command_history_id' - 1] = text
         /\ pc' # "crashed"
<1> DEFINE h == [command_history EXCEPT ![command_history_id] = text]
<1>1. Advance(h, command_history_id)
  BY DEF Eval, IdAfterCopy, Record
<1>2. h[command_history_id] = text BY DEF IInv, TypeOK
<1>3. CASE command_history_id + 1 >= MaxHistory
  <2>1. command_history_id = MaxHistory - 1
    BY <1>3, ReplAssumption DEF Slots
  <2>2. command_history_id' = MaxHistory - 1 /\ command_history' = Shift(h)
    BY <1>1, <1>3, <2>1 DEF Advance
  <2>3. command_history_id' - 1 \in Slots /\ (MaxHistory - 2) + 1 \in Slots
    BY <2>2, ReplAssumption DEF Slots
  <2>4. Shift(h)[MaxHistory - 2] = h[MaxHistory - 1]
    BY <2>2, <2>3, ReplAssumption DEF Shift, Slots
  <2>5. QED
    BY <1>2, <2>1, <2>2, <2>3, <2>4, DispatchOutcomes, ReplAssumption DEF Eval
<1>4. CASE ~(command_history_id + 1 >= MaxHistory)
  <2>1. command_history_id' = command_history_id + 1 /\ command_history' = h
    BY <1>1, <1>4 DEF Advance
  <2>2. command_history_id' - 1 = command_history_id
    BY <2>1 DEF Slots
  <2>3. QED BY <1>2, <2>1, <2>2, DispatchOutcomes DEF Eval
<1>5. QED BY <1>3, <1>4

(* Only Eval leaves the "eval" stage without crashing.                     *)
LEMMA EvalStage ==
  ASSUME [Next]_vars, pc = "eval", pc' # "crashed"
  PROVE  Eval \/ UNCHANGED vars
  BY DEF Next, Poll, ReadLine, ReadEOF, CorruptingCopy, Stopped

(* The most recent line is always found just before the cursor.            *)
THEOREM LatestLineKept == Spec => LatestBehindCursor
<1> DEFINE P == pc = "eval" /\ command_history_id \in Slots /\ pc' # "crashed"
       => /\ command_history_id' - 1 \in Slots
          /\ command_history'[command_history_id' - 1] = text
<1>1. IInv /\ [Next]_vars => [P]_vars
  BY RecordedBehindCursor, EvalStage
<1>2. QED BY <1>1, HistoryInvariant, PTL DEF Spec, LatestBehindCursor

(* With two lines recorded the REPL never again indexes command_history    *)
(* outside its array (gpu_repl.c:53-85, 142); what printw does with the    *)
(* text it finds in there is not part of this.                             *)
THEOREM IndexStaysInArray == Spec => TwoLinesKeepIndexInArray
<1> DEFINE P == command_history_id_max >= 2 /\ pc' = "crashed" => pc = "crashed"
<1>1. ASSUME IInv, [Next]_vars, command_history_id_max >= 2, pc' = "crashed"
      PROVE  pc = "crashed"
  <2>0. command_history_id \in Slots
    BY <1>1 DEF IInv, TypeOK, CursorInHistory
  <2>1. ASSUME NEW k \in Keys, Poll(k) PROVE FALSE
    <3>1. Browse(k)
      BY <1>1, <2>1
      DEF Poll, Ignore, Backspace, TypeChar, GarbledMessage, Enter, KeepReading, Submit
    <3>2. CASE NVPlay_ReplDecrementCommandHistory
      <4>1. ClampLow(command_history_id - 1) \in Slots
        BY <2>0, ReplAssumption DEF ClampLow, Slots
      <4>2. QED BY <1>1, <2>0, <3>2, <4>1, SurvivingOutcomes
                DEF NVPlay_ReplDecrementCommandHistory
    <3>3. CASE NVPlay_ReplIncrementCommandHistory
      <4>0. /\ command_history_id \in 0 .. MaxHistory - 1
            /\ command_history_id_max \in 2 .. MaxHistory
        BY <1>1, <2>0, ReplAssumption DEF Slots, IInv, TypeOK
      <4>1. ClampHigh(command_history_id + 1) - 1 \in Slots
        BY <4>0, ReplAssumption DEF ClampHigh, Slots
      <4>2. QED BY <1>1, <2>0, <3>3, <4>1, SurvivingOutcomes
                DEF NVPlay_ReplIncrementCommandHistory
    <3>4. QED BY <3>1, <3>2, <3>3 DEF Browse
  <2>2. QED BY <1>1, <2>0, <2>1, DispatchOutcomes
            DEF Next, ReadLine, Submit, ReadEOF, Eval, CorruptingCopy, Stopped, vars
<1>2. IInv /\ [Next]_vars => [P]_vars BY <1>1
<1>3. QED BY <1>2, HistoryInvariant, PTL DEF Spec, TwoLinesKeepIndexInArray

(* The step that records a line, seen from the lines recorded before.      *)
LEMMA EvalForgets ==
  ASSUME IInv, Eval, NEW s \in Slots, s # command_history_id,
         ~(s = 0 /\ command_history_id = MaxHistory - 1)
  PROVE  \E t \in Slots : command_history'[t] = command_history[s]
<1> DEFINE h == Record(command_history, command_history_id)
<1>1. PICK id \in IdAfterCopy(command_history_id) : Advance(h, id)
  BY DEF Eval
<1>2. h[s] = command_history[s]
  BY DEF Record, IInv, TypeOK
<1>3. CASE id + 1 >= MaxHistory
  <2>1. command_history_id = MaxHistory - 1
    BY <1>3, ReplAssumption DEF IdAfterCopy, IInv, TypeOK, Slots
  <2>2. s \in Int /\ s # 0 /\ s - 1 \in Slots /\ (s - 1) + 1 = s
    BY <2>1, ReplAssumption DEF Slots
  <2>3. Shift(h)[s - 1] = h[s]
    BY <2>2 DEF Shift
  <2>4. QED BY <1>1, <1>2, <1>3, <2>2, <2>3 DEF Advance
<1>4. CASE ~(id + 1 >= MaxHistory)
  BY <1>1, <1>2, <1>4 DEF Advance
<1>5. QED BY <1>3, <1>4

(* A line is lost only where the code writes over it: at the cursor, or at *)
(* the end of a full history.                                              *)
THEOREM OnlyOldestForgotten == Spec => ForgetsOnlyOldest
<1> DEFINE Kept(s) == \/ \E t \in Slots : command_history'[t] = command_history[s]
                      \/ s = command_history_id
                      \/ s = 0 /\ command_history_id = MaxHistory - 1
<1>1. ASSUME IInv, [Next]_vars, NEW s \in Slots PROVE Kept(s)
  <2>1. CASE Eval
    BY <1>1, <2>1, EvalForgets
  <2>2. CASE ~Eval
    <3>1. command_history' = command_history
      BY <1>1, <2>2 DEF Next, Poll, Ignore, Backspace, TypeChar, GarbledMessage, Enter, Browse, ReadLine,
         ReadEOF, CorruptingCopy, Stopped, vars, history,
         NVPlay_ReplDecrementCommandHistory, NVPlay_ReplIncrementCommandHistory
    <3>2. QED BY <3>1
  <2>3. QED BY <2>1, <2>2
<1>2. IInv /\ [Next]_vars => [\A s \in Slots : Kept(s)]_vars
  BY <1>1
<1>3. QED BY <1>2, HistoryInvariant, PTL DEF Spec, ForgetsOnlyOldest

-----------------------------------------------------------------------------
(* The line that is evaluated                                              *)

(* Between two lines the buffer holds what has been typed, or is about to  *)
(* be cleared, because the call that completed the line has raised the     *)
(* flag and Eval leaves it up.                                             *)
TypedInv ==
  ~dumb =>
    /\ pc = "eval" => len = typed /\ input_last_return_was_successful
    /\ pc = "read" => typed = StartOfCall

LEMMA TypedStep == TypeOK /\ TypedInv /\ [Next]_vars => TypedInv'
<1> SUFFICES ASSUME TypeOK, TypedInv, [Next]_vars PROVE TypedInv'
  OBVIOUS
<1>1. ASSUME NEW k \in Keys, Poll(k) PROVE TypedInv'
  <2>1. ~dumb /\ typed = StartOfCall /\ typed \in Nat
    BY <1>1 DEF Poll, TypedInv, TypeOK
  <2>2. ASSUME NEW n, KeepReading(n), typed' = n PROVE TypedInv'
    BY <2>2 DEF KeepReading, Returns, TypedInv, StartOfCall
  <2>3. CASE Ignore(k)
    BY <2>1, <2>2, <2>3 DEF Ignore
  <2>4. CASE Backspace(k)
    BY <2>1, <2>2, <2>4 DEF Backspace
  <2>5. CASE TypeChar(k)
    BY <2>1, <2>2, <2>5 DEF TypeChar
  <2>6. CASE Enter(k)
    BY <2>1, <2>6 DEF Enter, Submit, TypedInv
  <2>7. CASE Browse(k)
    <3>1. pc' # "eval"
      BY <2>7, SurvivingOutcomes
      DEF Browse, NVPlay_ReplDecrementCommandHistory, NVPlay_ReplIncrementCommandHistory
    <3>2. QED BY <2>1, <2>7, <3>1 DEF Browse, Returns, TypedInv, StartOfCall
  <2>8. CASE GarbledMessage(k)
    BY <2>8 DEF GarbledMessage, TypedInv
  <2>9. QED BY <1>1, <2>3, <2>4, <2>5, <2>6, <2>7, <2>8 DEF Poll
<1>2. CASE ReadLine \/ ReadEOF
  BY <1>2 DEF ReadLine, ReadEOF, TypedInv
<1>3. CASE Eval
  BY <1>3, DispatchOutcomes DEF Eval, TypedInv, StartOfCall
<1>4. CASE CorruptingCopy
  BY <1>4 DEF CorruptingCopy, TypedInv
<1>5. CASE UNCHANGED vars
  BY <1>5 DEF vars, input, TypedInv, StartOfCall
<1>6. QED BY <1>1, <1>2, <1>3, <1>4, <1>5 DEF Next, Stopped

(* A line typed at the console is evaluated as it was typed: the buffer,   *)
(* which is cleared one call late, never adds anything to it.              *)
THEOREM LineIsTyped == Spec => []LineIsWhatWasTyped
<1>1. Init => TypedInv
  BY DEF Init, TypedInv, StartOfCall
<1>2. TypedInv => LineIsWhatWasTyped
  BY DEF TypedInv, LineIsWhatWasTyped
<1>3. QED BY <1>1, <1>2, TypedStep, TypeCorrect, PTL DEF Spec
=============================================================================
