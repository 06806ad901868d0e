------------------------------- MODULE Screen -------------------------------
(***************************************************************************)
(* The REPL and its console: what of the line in repl_string the user can  *)
(* see.  On curses console_core.c echoes and erases characters where the   *)
(* cursor stands, Logging_Write puts its texts in between, and neither     *)
(* knows the buffer.  The dumb console writes to stdout and does not touch *)
(* the curses screen.                                                      *)
(*                                                                         *)
(* Of the screen the model keeps the cursor's column and the characters    *)
(* typed since the prompt.  Rows only follow each other (scrollok), and a  *)
(* text may leave the cursor in any column.                                *)
(***************************************************************************)
EXTENDS Repl

CONSTANTS
  Cols,     (* COLS: characters of a row                             *)
  MaxShown  (* bound: characters typed, erased or not, into one line *)

ASSUME ScreenAssumption == Cols \in Nat /\ Cols >= 2 /\ MaxShown \in Nat

VARIABLES
  key_debug,  (* the setting DebugKeyboard: every key is written about     *)
  col,        (* the cursor's column                                       *)
  left,       (* column where what was typed begins in the cursor's row    *)
  shown,      (* columns that what was typed since the prompt takes up     *)
  adrift,     (* the cursor has left the row in which the line began       *)
  plain       (* ghost: every key echoed since the prompt took one column  *)

screen == <<col, left, shown, adrift, plain>>
svars  == <<vars, key_debug, screen>>

Columns == 0 .. Cols - 1

(* Logging_Write, of a text that ends with a newline or one that does not. *)
Logging_Write(newline) == col' \in IF newline THEN {0} ELSE Columns

(* "GPU>", after the messages that greet the user or a command's output.   *)
ScreenInit ==
  /\ Init /\ key_debug \in BOOLEAN
  /\ col \in Columns /\ left = col
  /\ shown = 0 /\ adrift = FALSE /\ plain = TRUE

-----------------------------------------------------------------------------
(* console_core.c                                                          *)

(* What addch shows of a key that was cut to a char: a character, or ^X.   *)
Width(k) == IF k = "char" THEN 1 ELSE 2

(* addch where the cursor is (column c of a row whose text begins at l):   *)
(* from the last column it goes on to the next row.                        *)
Console_PushChar(k, c, l, a) ==
  /\ col' = (c + Width(k)) % Cols
  /\ left' = IF c + Width(k) >= Cols THEN 0 ELSE l
  /\ adrift' = (a \/ c + Width(k) >= Cols)
  /\ shown' = shown + Width(k)
  /\ plain' = (plain /\ Width(k) = 1)

(* Back one column, and the character there is deleted.  From the first    *)
(* column the cursor is sent to column COLS of the row above, where there  *)
(* is none: curses refuses, and deletes what is right of the text.         *)
(* Mutant: the cursor is not moved.                                        *)
Console_PopChar_Stays == UNCHANGED screen
Console_PopChar ==
  /\ IF col > 0 THEN col' = col - 1 /\ shown' = shown - 1
                ELSE UNCHANGED <<col, shown>>
  /\ UNCHANGED <<left, adrift, plain>>

(* Whole lines behind what was typed: a line from the history and a        *)
(* message about it, or one about the key.  printw takes them for formats: *)
(* what is undefined then is Garbling of Repl, here they leave the cursor  *)
(* at the beginning of a row.                                              *)
Console_PushLine ==
  /\ Logging_Write(TRUE)
  /\ left' = 0 /\ adrift' = TRUE
  /\ UNCHANGED <<shown, plain>>

-----------------------------------------------------------------------------
(* The actions of the REPL, and what they do to the screen                 *)

(* Mutant: the character is erased whether or not there is one.            *)
Erase_Always(k) == Backspace(k) /\ Console_PopChar
Erase(k) ==
  /\ Backspace(k)
  /\ IF StartOfCall > 0 THEN Console_PopChar ELSE UNCHANGED screen

(* A character follows the message about its key, if there are such.       *)
Echo(k) ==
  /\ TypeChar(k) /\ shown + Width(k) <= MaxShown
  /\ IF key_debug THEN Console_PushChar(k, 0, 0, TRUE)
     ELSE Console_PushChar(k, col, left, adrift)

(* A key that is not echoed.                                               *)
Announce == IF key_debug THEN Console_PushLine ELSE UNCHANGED screen

Skip(k) ==
  /\ Ignore(k)
  /\ IF k = "none" \/ OutOfSpace(StartOfCall) THEN UNCHANGED screen ELSE Announce

(* One turn of the polling loop.                                           *)
Look(k) ==
  /\ pc = "read" /\ ~dumb
  /\ \/ Skip(k) \/ Echo(k) \/ Erase(k)
     \/ key_debug /\ GarbledMessage(k) /\ UNCHANGED screen
     \/ Enter(k) /\ Announce
     \/ Browse(k) /\ Console_PushLine
  /\ UNCHANGED key_debug

(* The help, or what a command prints, and the next prompt.                *)
Evaluate ==
  /\ Eval /\ ~dumb
  /\ Logging_Write(FALSE)
  /\ left' = col' /\ shown' = 0 /\ adrift' = FALSE /\ plain' = TRUE
  /\ UNCHANGED key_debug

Unseen == UNCHANGED <<key_debug, screen>>
DumbRead == ReadLine /\ Unseen
DumbEval == Eval /\ dumb /\ Unseen

ScreenNext ==
  \/ \E k \in Keys : Look(k)
  \/ Evaluate
  \/ DumbRead
  \/ ReadEOF /\ Unseen
  \/ DumbEval
  \/ CorruptingCopy /\ Unseen
  \/ Stopped /\ Unseen

ScreenSpec == ScreenInit /\ [][ScreenNext]_svars

(* The fairness of Repl.                                                   *)
ScreenFairness ==
  /\ WF_svars(Look("enter"))
  /\ WF_svars(DumbRead)
  /\ WF_svars(Evaluate \/ DumbEval)

FairScreenSpec == ScreenSpec /\ ScreenFairness

-----------------------------------------------------------------------------
(* Properties                                                              *)

ScreenTypeOK ==
  /\ TypeOK /\ key_debug \in BOOLEAN
  /\ col \in Columns /\ left \in Columns
  /\ shown \in Nat /\ adrift \in BOOLEAN /\ plain \in BOOLEAN

AtWork == ~dumb /\ pc \in {"read", "eval"}

(* The characters of the line: the next call may be about to clear them.   *)
Line == IF pc = "eval" THEN len ELSE StartOfCall

(* Every character of the line that will be evaluated has its column on    *)
(* the screen, whatever was typed, erased and looked up in the history     *)
(* before.  As long as the cursor has stayed in the row where the line     *)
(* began and no key was echoed in two columns, there is nothing more to    *)
(* see: Backspace takes from both or from neither.                         *)
ShownAsTyped ==
  AtWork => /\ Line <= shown
            /\ plain /\ ~adrift => shown = Line

(* Backspace never eats into the prompt, nor into anything that was        *)
(* printed: the cursor stays right of where the user's own text begins.    *)
PromptStays == AtWork => left <= col

(* console_core.c:91, "Deletes a character": a Backspace that takes one    *)
(* from the line takes it from the screen.                                 *)
BackspaceDeletes ==
  [][len' < StartOfCall /\ pc = "read" /\ ~dumb => shown' < shown]_svars

=============================================================================
