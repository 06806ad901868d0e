---------------------------- MODULE ScreenProofs ----------------------------
(***************************************************************************)
(* For every width of the screen and every size of the REPL's buffers: the *)
(* console does to the REPL nothing but show it, and what it shows stays   *)
(* in step with the line as far as the properties of Screen say.           *)
(***************************************************************************)
EXTENDS Screen, ReplProofs

(* With the screen, the REPL makes the steps it makes without.             *)
LEMMA LookIsPoll == ASSUME NEW k \in Keys, Look(k) PROVE Poll(k)
  BY DEF Look, Poll, Skip, Echo, Erase

LEMMA ScreenStep == [ScreenNext]_svars => [Next]_vars
<1>1. ASSUME NEW k \in Keys, Look(k) PROVE Next
  BY <1>1, LookIsPoll DEF Next
<1>2. Evaluate \/ DumbEval => Next BY DEF Evaluate, DumbEval, Next
<1>3. DumbRead \/ ReadEOF \/ CorruptingCopy \/ Stopped => Next BY DEF DumbRead, Next
<1>4. UNCHANGED svars => UNCHANGED vars BY DEF svars
<1> QED BY <1>1, <1>2, <1>3, <1>4 DEF ScreenNext

(* The console of core/console/console_core.c is no part of what the REPL  *)
(* decides: every run of the two together is a run of the REPL, so that    *)
(* all that is proved of Repl holds of it.                                 *)
THEOREM ScreenIsARepl == ScreenSpec => Spec
<1>1. ScreenInit => Init BY DEF ScreenInit
<1> QED BY <1>1, ScreenStep, PTL DEF ScreenSpec, Spec

-----------------------------------------------------------------------------
(* The invariant.  In the row where the line began, the cursor stands as   *)
(* far behind the beginning as what was typed is wide, which is why        *)
(* Backspace can erase there; in a later row the user's text begins at the *)
(* edge, where Backspace stops by itself.                                  *)
InStep ==
  AtWork =>
    /\ Line <= shown
    /\ adrift => left = 0
    /\ ~adrift => col = left + shown
    /\ plain /\ ~adrift => shown = Line

(* A line is evaluated after Enter, which has the next call clear it.      *)
ClearedNext == pc = "eval" /\ ~dumb => input_last_return_was_successful

ScreenInv == ScreenTypeOK /\ InStep /\ ClearedNext

(* What a character does to the cursor, wherever it is put.                *)
LEMMA PushTypes ==
  ASSUME ScreenTypeOK, NEW k, NEW c \in Columns, NEW l \in Columns, NEW a \in BOOLEAN,
         Console_PushChar(k, c, l, a)
  PROVE  /\ col' \in Columns /\ left' \in Columns /\ shown' \in Nat
         /\ adrift' \in BOOLEAN /\ plain' \in BOOLEAN
<1>1. c \in 0 .. Cols - 1 /\ Cols \in Nat /\ Cols >= 2 /\ Width(k) \in 1 .. 2
  BY ScreenAssumption DEF Columns, Width
<1>2. (c + Width(k)) % Cols \in 0 .. Cols - 1 BY <1>1
<1>3. col' \in Columns /\ shown' \in Nat
  BY <1>1, <1>2 DEF Console_PushChar, ScreenTypeOK, Columns
<1>4. left' \in {0, l} BY DEF Console_PushChar
<1>5. left' \in Columns BY <1>1, <1>4 DEF Columns
<1>6. adrift' \in BOOLEAN /\ plain' \in BOOLEAN BY Zenon DEF Console_PushChar
<1> QED BY <1>3, <1>5, <1>6

LEMMA PopTypes ==
  ASSUME ScreenTypeOK, Console_PopChar, col > 0 => shown > 0
  PROVE  /\ col' \in Columns /\ left' \in Columns /\ shown' \in Nat
         /\ adrift' \in BOOLEAN /\ plain' \in BOOLEAN
<1>1. adrift' \in BOOLEAN /\ plain' \in BOOLEAN
  BY Zenon DEF Console_PopChar, ScreenTypeOK
<1>2. col' \in Columns /\ left' \in Columns /\ shown' \in Nat
  BY ScreenAssumption DEF Console_PopChar, ScreenTypeOK, Columns
<1> QED BY <1>1, <1>2

(* In the middle of a row a character moves the cursor by its width.       *)
LEMMA PushWithin ==
  ASSUME NEW k, NEW c \in Columns, NEW l, NEW a, Console_PushChar(k, c, l, a),
         ~(c + Width(k) >= Cols)
  PROVE  col' = c + Width(k)
<1>1. /\ c \in 0 .. Cols - 1 /\ Cols \in Nat /\ Cols >= 2
      /\ Width(k) \in Nat /\ c + Width(k) < Cols
  BY ScreenAssumption DEF Columns, Width
<1>2. (c + Width(k)) % Cols = c + Width(k) BY <1>1
<1> QED BY <1>2 DEF Console_PushChar

(* While keys are read, what the next call starts from is what the last    *)
(* one left.                                                               *)
LEMMA Kept ==
  ASSUME NEW n, KeepReading(n)
  PROVE  Line' = n /\ pc' = "read" /\ dumb' = dumb /\ ClearedNext'
  BY DEF KeepReading, Returns, Line, StartOfCall, ClearedNext

LEMMA LineNow == ASSUME pc = "read", ~dumb PROVE Line = StartOfCall /\ AtWork
  BY DEF Line, AtWork

-----------------------------------------------------------------------------
(* One lemma for each thing the polling loop does.                         *)

LEMMA PushKeeps ==
  ASSUME NEW k \in Keys, TypeOK', ScreenInv, pc = "read", ~dumb, TypeChar(k),
         key_debug' = key_debug,
         NEW c \in Columns, NEW l \in Columns, NEW a \in BOOLEAN,
         Console_PushChar(k, c, l, a), a => l = 0,
         ~a => c = l + shown,
         plain /\ ~a => shown = StartOfCall
  PROVE  ScreenInv'
<1>0. StartOfCall \in Nat BY StartOfCallType DEF ScreenInv, ScreenTypeOK
<1>1. Width(k) \in 1 .. 2 /\ Bytes(k) \in 0 .. 1 /\ (Width(k) = 1 => Bytes(k) = 1)
  BY DEF Width, Bytes
<1>2. Line' = StartOfCall + Bytes(k) /\ pc' = "read" /\ dumb' = dumb /\ ClearedNext'
  BY Kept DEF TypeChar
<1>3. ScreenTypeOK'
  BY <1>2, PushTypes DEF ScreenInv, ScreenTypeOK
<1>4. StartOfCall <= shown
  BY LineNow DEF ScreenInv, InStep
<1>5. shown' = shown + Width(k) /\ shown \in Nat /\ c \in Int /\ l \in Int
  BY ScreenAssumption DEF Console_PushChar, ScreenInv, ScreenTypeOK, Columns
<1>6. Line' <= shown' BY <1>0, <1>1, <1>2, <1>4, <1>5
<1>7. adrift' = (a \/ c + Width(k) >= Cols) BY Zenon DEF Console_PushChar
<1>8. adrift' => left' = 0
  BY <1>7, Zenon DEF Console_PushChar
<1>9. ASSUME ~adrift' PROVE col' = left' + shown'
  <2>1. ~a /\ ~(c + Width(k) >= Cols) BY <1>7, <1>9, Zenon
  <2>2. left' = l BY <2>1 DEF Console_PushChar
  <2>3. col' = c + Width(k) BY <2>1, PushWithin
  <2>4. c = l + shown BY <2>1, Zenon
  <2> QED BY <1>1, <1>5, <2>2, <2>3, <2>4
<1>10. ASSUME plain', ~adrift' PROVE shown' = Line'
  <2>1. ~a /\ plain /\ Width(k) = 1 BY <1>7, <1>10, Zenon DEF Console_PushChar
  <2>2. shown = StartOfCall BY <2>1, Zenon
  <2> QED BY <1>0, <1>1, <1>2, <1>5, <2>1, <2>2
<1>11. InStep' BY <1>6, <1>8, <1>9, <1>10, Zenon DEF InStep
<1> QED BY <1>2, <1>3, <1>11 DEF ScreenInv

LEMMA EchoKeeps ==
  ASSUME NEW k \in Keys, TypeOK', ScreenInv, pc = "read", ~dumb, Echo(k),
         key_debug' = key_debug
  PROVE  ScreenInv'
<1>1. CASE key_debug
  <2>1. Console_PushChar(k, 0, 0, TRUE) BY <1>1, Zenon DEF Echo
  <2>2. 0 \in Columns BY ScreenAssumption DEF Columns
  <2> QED BY <2>1, <2>2, PushKeeps DEF Echo
<1>2. CASE ~key_debug
  <2>1. Console_PushChar(k, col, left, adrift) BY <1>2, Zenon DEF Echo
  <2>2. /\ adrift => left = 0
        /\ ~adrift => col = left + shown
        /\ plain /\ ~adrift => shown = StartOfCall
    BY LineNow DEF ScreenInv, InStep
  <2>3. col \in Columns /\ left \in Columns /\ adrift \in BOOLEAN
    BY DEF ScreenInv, ScreenTypeOK
  <2> QED BY <2>1, <2>2, <2>3, PushKeeps DEF Echo
<1> QED BY <1>1, <1>2

LEMMA EraseKeeps ==
  ASSUME NEW k \in Keys, TypeOK', ScreenInv, pc = "read", ~dumb, Erase(k),
         key_debug' = key_debug
  PROVE  ScreenInv'
<1>1. StartOfCall \in Nat BY StartOfCallType DEF ScreenInv, ScreenTypeOK
<1>2. /\ Line' = IF StartOfCall > 0 THEN StartOfCall - 1 ELSE 0
      /\ pc' = "read" /\ dumb' = dumb /\ ClearedNext'
  BY Kept DEF Erase, Backspace
<1>3. /\ StartOfCall <= shown /\ (adrift => left = 0)
      /\ ~adrift => col = left + shown
      /\ plain /\ ~adrift => shown = StartOfCall
  BY LineNow DEF ScreenInv, InStep
<1>4. shown \in Nat /\ col \in Nat /\ left \in Nat
  BY ScreenAssumption DEF ScreenInv, ScreenTypeOK, Columns
<1>5. CASE StartOfCall > 0
  <2>1. Console_PopChar BY <1>5 DEF Erase
  <2>2. ScreenTypeOK'
    BY <1>1, <1>2, <1>3, <1>4, <1>5, <2>1, PopTypes DEF ScreenInv, ScreenTypeOK
  <2>3. left' = left /\ adrift' = adrift /\ plain' = plain BY <2>1 DEF Console_PopChar
  <2>4. CASE col > 0
    <3>1. col' = col - 1 /\ shown' = shown - 1 BY <2>1, <2>4 DEF Console_PopChar
    <3>2. Line' <= shown' BY <1>1, <1>2, <1>3, <1>4, <1>5, <3>1
    <3>3. ASSUME ~adrift' PROVE col' = left' + shown'
      <4>1. col = left + shown BY <1>3, <2>3, <3>3, Zenon
      <4>2. left' = left BY <2>3
      <4> QED BY <1>4, <3>1, <4>1, <4>2
    <3>4. ASSUME plain', ~adrift' PROVE shown' = Line'
      <4>1. shown = StartOfCall BY <1>3, <2>3, <3>4, Zenon
      <4> QED BY <1>1, <1>2, <1>5, <3>1, <4>1
    <3>5. adrift' => left' = 0 BY <1>3, <2>3, Zenon
    <3> QED BY <1>2, <2>2, <3>2, <3>3, <3>4, <3>5, Zenon DEF ScreenInv, InStep
  <2>5. CASE ~(col > 0)
    <3>1. col' = col /\ shown' = shown BY <2>1, <2>5 DEF Console_PopChar
    <3>2. adrift
      <4>1. col # left + shown BY <1>1, <1>3, <1>4, <1>5, <2>5
      <4> QED BY <1>3, <4>1, Zenon
    <3>3. Line' <= shown' BY <1>1, <1>2, <1>3, <1>4, <1>5, <3>1
    <3>4. adrift' /\ left' = 0 BY <1>3, <2>3, <3>2, Zenon
    <3> QED BY <1>2, <2>2, <3>3, <3>4, Zenon DEF ScreenInv, InStep
  <2> QED BY <2>4, <2>5
<1>6. CASE ~(StartOfCall > 0)
  <2>1. /\ col' = col /\ left' = left /\ shown' = shown
        /\ adrift' = adrift /\ plain' = plain
    BY <1>6 DEF Erase, screen
  <2>2. Line' = StartOfCall BY <1>1, <1>2, <1>6
  <2>3. ScreenTypeOK' BY <1>2, <2>1 DEF ScreenInv, ScreenTypeOK
  <2> QED BY <1>2, <1>3, <2>1, <2>2, <2>3 DEF ScreenInv, InStep
<1> QED BY <1>5, <1>6

(* Whole lines that are printed leave what was typed where it is.          *)
LEMMA LinesKeep ==
  ASSUME TypeOK', ScreenInv, pc = "read", ~dumb, Console_PushLine, dumb' = dumb,
         key_debug' = key_debug, Line' = StartOfCall, ClearedNext'
  PROVE  ScreenInv'
<1>1. col' = 0 /\ left' = 0 /\ adrift' = TRUE /\ shown' = shown /\ plain' = plain
  BY DEF Console_PushLine, Logging_Write
<1>2. ScreenTypeOK'
  BY <1>1, ScreenAssumption DEF ScreenInv, ScreenTypeOK, Columns
<1>3. StartOfCall <= shown BY LineNow DEF ScreenInv, InStep
<1> QED BY <1>1, <1>2, <1>3 DEF ScreenInv, InStep

LEMMA BrowseKeeps ==
  ASSUME NEW k \in Keys, TypeOK', ScreenInv, pc = "read", ~dumb, Browse(k), Console_PushLine,
         key_debug' = key_debug
  PROVE  ScreenInv'
<1>1. pc' \in {"read", "crashed", "garbled"}
  BY SurvivingOutcomes
  DEF Browse, NVPlay_ReplDecrementCommandHistory, NVPlay_ReplIncrementCommandHistory
<1>2. len' = StartOfCall /\ input_last_return_was_successful' = FALSE /\ dumb' = dumb
  BY DEF Browse, Returns
<1>3. Line' = StartOfCall BY <1>1, <1>2 DEF Line, StartOfCall
<1>4. ClearedNext' BY <1>1 DEF ClearedNext
<1> QED BY <1>2, <1>3, <1>4, LinesKeep

(* A key that does nothing moves no cursor.                                *)
LEMMA StillKeeps ==
  ASSUME TypeOK', ScreenInv, pc = "read", ~dumb, UNCHANGED screen, dumb' = dumb,
         key_debug' = key_debug, Line' = StartOfCall, ClearedNext'
  PROVE  ScreenInv'
<1>1. /\ col' = col /\ left' = left /\ shown' = shown
      /\ adrift' = adrift /\ plain' = plain
  BY DEF screen
<1>2. ScreenTypeOK' BY <1>1 DEF ScreenInv, ScreenTypeOK
<1>3. Line = StartOfCall /\ AtWork BY LineNow
<1> QED BY <1>1, <1>2, <1>3 DEF ScreenInv, InStep

LEMMA AnnounceKeeps ==
  ASSUME TypeOK', ScreenInv, pc = "read", ~dumb, Announce \/ UNCHANGED screen, dumb' = dumb,
         key_debug' = key_debug, Line' = StartOfCall, ClearedNext'
  PROVE  ScreenInv'
<1>1. Console_PushLine \/ UNCHANGED screen BY Zenon DEF Announce
<1> QED BY <1>1, LinesKeep, StillKeeps

LEMMA LookKeeps ==
  ASSUME NEW k \in Keys, TypeOK', ScreenInv, Look(k)
  PROVE  ScreenInv'
<1>1. pc = "read" /\ ~dumb /\ key_debug' = key_debug BY DEF Look
<1>2. CASE Skip(k)
  <2>1. Announce \/ UNCHANGED screen BY <1>2, Zenon DEF Skip
  <2>2. KeepReading(StartOfCall) BY <1>2 DEF Skip, Ignore
  <2> QED BY <1>1, <2>1, <2>2, Kept, AnnounceKeeps
<1>3. CASE Echo(k) BY <1>1, <1>3, EchoKeeps
<1>4. CASE Erase(k) BY <1>1, <1>4, EraseKeeps
<1>5. CASE Enter(k) /\ Announce
  <2>1. Line' = StartOfCall /\ dumb' = dumb /\ ClearedNext'
    BY <1>5 DEF Enter, Submit, Line, ClearedNext
  <2> QED BY <1>1, <1>5, <2>1, AnnounceKeeps
<1>6. CASE Browse(k) /\ Console_PushLine BY <1>1, <1>6, BrowseKeeps
<1>7. CASE GarbledMessage(k) /\ UNCHANGED screen
  <2>1. /\ len' = StartOfCall /\ input_last_return_was_successful' = FALSE
        /\ dumb' = dumb /\ pc' = "garbled"
    BY <1>7 DEF GarbledMessage, Returns
  <2>2. Line' = StartOfCall BY <2>1 DEF Line, StartOfCall
  <2>3. ClearedNext' BY <2>1 DEF ClearedNext
  <2> QED BY <1>1, <1>7, <2>1, <2>2, <2>3, StillKeeps
<1> QED BY <1>2, <1>3, <1>4, <1>5, <1>6, <1>7 DEF Look

(* Behind a new prompt there is nothing, and nothing is left of the line.  *)
LEMMA EvaluateKeeps ==
  ASSUME TypeOK', ScreenInv, Evaluate
  PROVE  ScreenInv'
<1>1. pc = "eval" /\ pc' # "eval" /\ ~dumb /\ dumb' = dumb
  BY DispatchOutcomes DEF Evaluate, Eval
<1>2. input_last_return_was_successful'
  BY <1>1 DEF Evaluate, Eval, ScreenInv, ClearedNext
<1>3. Line' = 0 BY <1>1, <1>2 DEF Line, StartOfCall
<1>4. col' \in Columns /\ left' = col' /\ shown' = 0
  BY DEF Evaluate, Logging_Write
<1>5. adrift' = FALSE /\ plain' = TRUE BY DEF Evaluate
<1>6. adrift' \in BOOLEAN /\ plain' \in BOOLEAN /\ key_debug' = key_debug
  BY <1>5 DEF Evaluate
<1>7. left' \in Columns /\ shown' \in Nat BY <1>4
<1>8. ScreenTypeOK' BY <1>4, <1>6, <1>7 DEF ScreenInv, ScreenTypeOK
<1>9. col' \in Int BY <1>4, ScreenAssumption DEF Columns
<1>10. Line' <= shown' /\ shown' = Line' BY <1>3, <1>4
<1>11. col' = left' + shown'
  <2>1. left' = col' /\ shown' = 0 BY <1>4
  <2>2. \A c \in Int : c + 0 = c OBVIOUS
  <2>3. col' + 0 = col' BY <1>9, <2>2, Zenon
  <2> QED BY <2>1, <2>3, Zenon
<1>12. InStep' BY <1>5, <1>10, <1>11, Zenon DEF InStep
<1>13. ClearedNext' BY <1>2 DEF ClearedNext
<1> QED BY <1>8, <1>12, <1>13 DEF ScreenInv

(* The dumb console leaves the screen of curses alone, and nothing is said *)
(* of a screen nobody looks at.                                            *)
LEMMA UnseenKeeps ==
  ASSUME TypeOK', ScreenInv, Unseen, dumb' = dumb, dumb \/ pc' = "crashed"
  PROVE  ScreenInv'
<1>1. ScreenTypeOK' BY DEF Unseen, ScreenInv, ScreenTypeOK, screen
<1> QED BY <1>1 DEF ScreenInv, InStep, AtWork, ClearedNext

LEMMA ScreenInvStep ==
  ASSUME TypeOK', ScreenInv, [ScreenNext]_svars PROVE ScreenInv'
<1>1. ASSUME NEW k \in Keys, Look(k) PROVE ScreenInv' BY <1>1, LookKeeps
<1>2. CASE Evaluate BY <1>2, EvaluateKeeps
<1>3. CASE DumbRead \/ DumbEval \/ (ReadEOF /\ Unseen)
  <2>1. dumb /\ dumb' = dumb /\ Unseen
    BY <1>3 DEF DumbRead, ReadLine, DumbEval, Eval, ReadEOF
  <2> QED BY <2>1, UnseenKeeps
<1>4. CASE CorruptingCopy /\ Unseen
  <2>1. dumb' = dumb /\ pc' = "crashed" BY <1>4 DEF CorruptingCopy
  <2> QED BY <1>4, <2>1, UnseenKeeps
<1>5. CASE UNCHANGED svars
  BY <1>5 DEF svars, vars, input, screen, ScreenInv, ScreenTypeOK, InStep,
              ClearedNext, AtWork, Line, StartOfCall
<1>6. Stopped /\ Unseen => UNCHANGED svars BY DEF Stopped, Unseen, svars
<1> QED BY <1>1, <1>2, <1>3, <1>4, <1>5, <1>6 DEF ScreenNext

LEMMA ScreenInvInit == TypeOK /\ ScreenInit => ScreenInv
<1> SUFFICES ASSUME TypeOK, ScreenInit PROVE ScreenInv OBVIOUS
<1>1. Line = 0 /\ pc = "read" BY DEF ScreenInit, Init, Line, StartOfCall
<1>2. col \in Int BY ScreenAssumption DEF ScreenInit, Columns
<1>3. ScreenTypeOK BY DEF ScreenInit, ScreenTypeOK
<1>4. InStep BY <1>1, <1>2 DEF ScreenInit, InStep
<1>5. ClearedNext BY <1>1 DEF ClearedNext
<1> QED BY <1>3, <1>4, <1>5 DEF ScreenInv

THEOREM ScreenInvariant == ScreenSpec => []ScreenInv
<1>1. ScreenSpec => []TypeOK BY ScreenIsARepl, TypeCorrect, PTL
<1>2. TypeOK /\ ScreenInit => ScreenInv BY ScreenInvInit
<1>3. TypeOK' /\ ScreenInv /\ [ScreenNext]_svars => ScreenInv' BY ScreenInvStep
<1> QED BY <1>1, <1>2, <1>3, PTL DEF ScreenSpec

-----------------------------------------------------------------------------
(* console_core.c, console_input.c: the variables have their types.        *)
THEOREM ScreenTypes == ScreenSpec => []ScreenTypeOK
<1>1. ScreenInv => ScreenTypeOK BY DEF ScreenInv
<1> QED BY <1>1, ScreenInvariant, PTL

(* Nothing is evaluated that had no place on the screen: every byte that   *)
(* console_input.c puts in the line was echoed in at least one column, the *)
(* arrow keys print over nothing, and Console_PopChar takes at most one    *)
(* column for a byte.  In the row of the prompt, while every key took one  *)
(* column, screen and repl_string agree.                                   *)
THEOREM LineCanBeSeen == ScreenSpec => []ShownAsTyped
<1>1. ScreenInv => ShownAsTyped BY DEF ScreenInv, InStep, ShownAsTyped
<1> QED BY <1>1, ScreenInvariant, PTL

(* Console_PopChar is called for a character of the line only, and never   *)
(* reaches what Logging_Write has printed before it.                       *)
THEOREM PromptIsSafe == ScreenSpec => []PromptStays
<1>1. ASSUME ScreenInv, AtWork PROVE left <= col
  <2>1. col \in Nat /\ left \in Nat /\ shown \in Nat
    BY <1>1, ScreenAssumption DEF ScreenInv, ScreenTypeOK, Columns
  <2>2. (adrift => left = 0) /\ (~adrift => col = left + shown)
    BY <1>1 DEF ScreenInv, InStep
  <2>3. CASE adrift BY <2>1, <2>2, <2>3
  <2>4. CASE ~adrift BY <2>1, <2>2, <2>4
  <2> QED BY <2>3, <2>4
<1>2. ScreenInv => PromptStays BY <1>1 DEF PromptStays
<1> QED BY <1>2, ScreenInvariant, PTL

=============================================================================
