-------------------------------- MODULE Repl --------------------------------
(***************************************************************************)
(* The read-eval-print loop of NVPlay (core/gpu/gpu_repl.c) together with  *)
(* the non-blocking line input it polls (console_input.c).                 *)
(*                                                                         *)
(* Characters are abstracted to how many of them stand in repl_string; a   *)
(* submitted line is known by its serial number (1, 2, ...), 0 being the   *)
(* text of a zeroed buffer.  The history is the array of the C code, with  *)
(* the serial of the line each slot holds.                                 *)
(*                                                                         *)
(* The console prints a text by giving it to printw as the FORMAT.  What   *)
(* that does to a text with directives is undefined: the program goes on,  *)
(* or pc is "garbled" and the model says nothing of what follows.          *)
(***************************************************************************)
EXTENDS Integers

CONSTANTS
  MaxStr,      (* MAX_STR: size of repl_string, one byte of it for the NUL *)
  MaxHistory,  (* MAX_COMMAND_HISTORY: slots of command_history            *)
  MaxTyped,    (* bound: characters the user types into one line           *)
  MaxLines     (* bound: lines submitted in one session                    *)

ASSUME ReplAssumption ==
  /\ MaxStr \in Nat /\ MaxStr >= 2
  /\ MaxHistory \in Nat /\ MaxHistory >= 2
  /\ MaxTyped \in Nat
  /\ MaxLines \in Nat

VARIABLES
  dumb,                    (* config.dumb_console: fgets instead of curses *)
  pc,                      (* where NVPlay_Repl stands                     *)
  len,                     (* strlen(repl_string)                          *)
  text,                    (* serial of the line in repl_string            *)
  class,                   (* how the REPL classifies that line            *)
  word,                    (* its first word: length and class             *)
  input_last_return_was_successful,
  command_history,
  command_history_id,
  command_history_id_max,
  lines,                   (* lines submitted so far                       *)
  formats,                 (* those of them that hold a directive of printf *)
  typed,                   (* ghost: characters of the current line alive  *)
  ran                      (* ghost: serial of the line evaluated last     *)

input   == <<len, text, class, word, input_last_return_was_successful, typed>>
history == <<command_history, command_history_id, command_history_id_max>>
vars    == <<dumb, pc, input, history, lines, formats, ran>>

Slots == 0 .. MaxHistory - 1
Lines == 0 .. MaxLines

(* What getch() hands over: nothing, or a key.  A key counts as printable  *)
(* unless its name begins with ^ or contains KEY_, so that ALT_, CTL_, PAD *)
(* and SHF_ keys do, and is cut to a char: "char" is every one whose byte  *)
(* takes one column, "wide" one cut to a control byte, which is echoed in  *)
(* two (^X), "null" one of which no byte is left (^@).  The keys that      *)
(* would be cut to \b, \t, \n or \r are never delivered by the keyboard    *)
(* driver (nor is "null", which is kept).  "other" is every key that       *)
(* neither prints nor means anything to the REPL.                          *)
Printable == {"char", "wide", "null"}
Keys == Printable \cup {"none", "backspace", "enter", "up", "down", "other"}

(* What a key adds to the string: a NUL adds nothing.                      *)
Bytes(k) == IF k = "null" THEN 0 ELSE 1

(* How the REPL classifies a line: "q" or "exit", "?" or "help", the rest. *)
Classes == {"exit", "help", "command"}
Words   == [len : 0 .. MaxStr - 1, class : Classes]

(* A line of n characters of class c, and the first word it may start with *)
(* (an empty line, and one that is a single word, are their own).          *)
LineClasses(n)   == IF n = 0 THEN {"command"} ELSE Classes
FirstWords(n, c) == {[len |-> n, class |-> c]} \cup
  IF c = "command" THEN [len : 1 .. n - 1, class : Classes] ELSE {}

Init ==
  /\ dumb \in BOOLEAN
  /\ pc = "read"
  /\ len = 0 /\ text = 0 /\ typed = 0
  /\ class = "command" /\ word = [len |-> 0, class |-> "command"]
  /\ input_last_return_was_successful = FALSE
  /\ command_history = [s \in Slots |-> 0]
  /\ command_history_id = 0
  /\ command_history_id_max = 0
  /\ lines = 0 /\ formats = {} /\ ran = 0

-----------------------------------------------------------------------------
(* Input_GetStringAndChar                                                  *)

(* The buffer a call works on: a call that follows a successful one starts *)
(* by clearing it.                                                         *)
(* Mutant: the buffer is never cleared between two lines.                  *)
StartOfCall_Forgets == len
StartOfCall == IF input_last_return_was_successful THEN 0 ELSE len

(* The call returns before it looks at the key when the string is full.    *)
(* Mutant: the string counts as full one character early.                  *)
OutOfSpace_Early(n) == n >= MaxStr - 2
OutOfSpace(n) == n >= MaxStr - 1

(* A call that returns false and leaves n characters in the buffer.        *)
Returns(n) ==
  /\ len' = n
  /\ text' = IF input_last_return_was_successful THEN 0 ELSE text
  /\ input_last_return_was_successful' = FALSE
  /\ UNCHANGED <<dumb, class, word, lines, formats, ran>>

KeepReading(n) == pc' = "read" /\ Returns(n)

(* A line of n characters is complete.                                     *)
Submit(n) ==
  /\ lines < MaxLines
  /\ lines' = lines + 1
  /\ text' = lines'
  /\ len' = n
  /\ \E c \in LineClasses(n) :
       /\ class' = c /\ word' \in FirstWords(n, c)
       /\ formats' \in {formats} \cup
            (IF n > 0 /\ c = "command" THEN {formats \cup {lines'}} ELSE {})
  /\ pc' = "eval"

(* No key, a full buffer, or a key that does nothing.                      *)
Ignore(k) ==
  /\ k \in {"none", "other"} \/ OutOfSpace(StartOfCall)
  /\ KeepReading(StartOfCall)
  /\ UNCHANGED <<history, typed>>

Backspace(k) ==
  /\ k = "backspace" /\ ~OutOfSpace(StartOfCall)
  /\ KeepReading(IF StartOfCall > 0 THEN StartOfCall - 1 ELSE 0)
  /\ typed' = IF typed > 0 THEN typed - 1 ELSE 0
  /\ UNCHANGED history

TypeChar(k) ==
  /\ k \in Printable /\ ~OutOfSpace(StartOfCall)
  /\ typed + Bytes(k) <= MaxTyped
  /\ KeepReading(StartOfCall + Bytes(k))
  /\ typed' = typed + Bytes(k)
  /\ UNCHANGED history

(* With DebugKeyboard set a message names the key first: of the key % that *)
(* makes a directive.                                                      *)
GarbledMessage(k) ==
  /\ k = "char" /\ ~OutOfSpace(StartOfCall)
  /\ pc' = "garbled"
  /\ Returns(StartOfCall)
  /\ UNCHANGED <<history, typed>>

Enter(k) ==
  /\ k = "enter" /\ ~OutOfSpace(StartOfCall)
  /\ Submit(StartOfCall)
  /\ input_last_return_was_successful' = TRUE
  /\ UNCHANGED <<dumb, history, typed, ran>>

-----------------------------------------------------------------------------
(* Console_PushLine: printw(text).                                         *)
Garbling(texts) == IF texts \cap formats = {} THEN {} ELSE {"garbled"}

(* Browsing the history prints two slots.  Reading the one before the      *)
(* array is undefined: what stands there is printed, or the program dies.  *)
Surviving(slots) ==
  {"read"} \cup (IF slots \subseteq Slots THEN {} ELSE {"crashed"})
           \cup Garbling({command_history[s] : s \in slots \cap Slots})

(* Mutant: the lower clamp misses the first slot by one.                   *)
ClampLow_Off(id) == IF id < 0 THEN -1 ELSE id
ClampLow(id) == IF id < 0 THEN 0 ELSE id

NVPlay_ReplDecrementCommandHistory ==
  LET id == ClampLow(command_history_id - 1) IN
  /\ command_history_id' = id
  /\ pc' \in Surviving({command_history_id, id})
  /\ UNCHANGED <<command_history, command_history_id_max>>

(* Mutant: the upper clamp compares with > and lets the cursor run ahead.  *)
ClampHigh_Late(id) ==
  IF id > command_history_id_max THEN command_history_id_max + 1 ELSE id
ClampHigh(id) ==
  IF id >= command_history_id_max THEN command_history_id_max - 1 ELSE id

NVPlay_ReplIncrementCommandHistory ==
  LET id == ClampHigh(command_history_id + 1) IN
  /\ command_history_id' = id
  /\ pc' \in Surviving({command_history_id, id - 1})
  /\ UNCHANGED <<command_history, command_history_id_max>>

Browse(k) ==
  /\ k \in {"up", "down"} /\ ~OutOfSpace(StartOfCall)
  /\ Returns(StartOfCall)
  /\ IF k = "up" THEN NVPlay_ReplDecrementCommandHistory
                 ELSE NVPlay_ReplIncrementCommandHistory
  /\ UNCHANGED typed

(* One iteration of the polling loop of NVPlay_Repl.                       *)
Poll(k) ==
  /\ pc = "read" /\ ~dumb
  /\ \/ Ignore(k) \/ Backspace(k) \/ TypeChar(k) \/ GarbledMessage(k)
     \/ Enter(k) \/ Browse(k)

-----------------------------------------------------------------------------
(* The dumb console: fgets fills repl_string with the next line of stdin,  *)
(* or leaves it alone at the end of the file.                              *)

ReadLine ==
  /\ pc = "read" /\ dumb
  /\ \E n \in 0 .. MaxStr - 1 : Submit(n)
  /\ UNCHANGED <<dumb, input_last_return_was_successful, history, typed, ran>>

ReadEOF ==
  /\ pc = "read" /\ dumb
  /\ pc' = "eval"
  /\ UNCHANGED <<dumb, input, history, lines, formats, ran>>

-----------------------------------------------------------------------------
(* The rest of the loop body: record the line, then run it.                *)

(* The copy to command_history[id].  Slot -1 is the memory in front of the *)
(* array: strncpy pads the text with zeros, so the counters that the C     *)
(* file declares just before the array keep their values or become zero    *)
(* (command_history_id_max is zero then already), or the program dies.     *)
Record(h, id) == IF id \in Slots THEN [h EXCEPT ![id] = text] ELSE h
IdAfterCopy(id) == IF id \in Slots THEN {id} ELSE {id, 0}

(* Mutant: copying upwards in place smears the oldest line over the array. *)
Shift_Smears(h) == [s \in Slots |-> h[0]]
Shift(h) == [s \in Slots |-> IF s + 1 \in Slots THEN h[s + 1] ELSE h[s]]

Highest(a, b) == IF b > a THEN b ELSE a

(* command_history_id++, the new maximum, and the shift when it is full.   *)
(* Mutants: the full history is not shifted; or the cursor restarts at 0.  *)
Advance_NoShift(h, id) ==
  /\ command_history_id_max' = Highest(command_history_id_max, id + 1)
  /\ command_history' = h
  /\ command_history_id' = id + 1
Advance_Restarts(h, id) ==
  /\ command_history_id_max' = Highest(command_history_id_max, id + 1)
  /\ command_history' = IF id + 1 >= MaxHistory THEN Shift(h) ELSE h
  /\ command_history_id' = IF id + 1 >= MaxHistory THEN 0 ELSE id + 1
Advance(h, id) ==
  /\ command_history_id_max' = Highest(command_history_id_max, id + 1)
  /\ command_history' = IF id + 1 >= MaxHistory THEN Shift(h) ELSE h
  /\ command_history_id' = IF id + 1 >= MaxHistory THEN id ELSE id + 1

(* NVPlay_RunScriptCommand prints the line, and cuts the buffer after its  *)
(* first word (strtok).  A line that is run again is that word, and there  *)
(* only the dumb console is, which prints with fputs: what print and its   *)
(* kin are given, a format to Logging_Write, is cut off.                   *)
Dispatch ==
  /\ pc' \in {IF class = "exit" THEN "stopped" ELSE "read"}
            \cup Garbling({text} \ {ran})
  /\ len' = IF class = "command" THEN word.len ELSE len
  /\ class' = IF class = "command" THEN word.class ELSE class

Eval ==
  /\ pc = "eval"
  /\ \E id \in IdAfterCopy(command_history_id) :
       Advance(Record(command_history, command_history_id), id)
  /\ Dispatch
  /\ ran' = text
  /\ typed' = 0
  /\ UNCHANGED <<dumb, text, word, input_last_return_was_successful, lines, formats>>

(* The copy in front of the array destroys something the program needs.    *)
CorruptingCopy ==
  /\ pc = "eval" /\ command_history_id \notin Slots
  /\ pc' = "crashed"
  /\ UNCHANGED <<dumb, input, history, lines, formats, ran>>

Stopped == pc \in {"stopped", "crashed", "garbled"} /\ UNCHANGED vars

Next ==
  \/ \E k \in Keys : Poll(k)
  \/ ReadLine
  \/ ReadEOF
  \/ Eval
  \/ CorruptingCopy
  \/ Stopped

Spec == Init /\ [][Next]_vars

(* The program keeps polling and evaluating; the user, whatever else he    *)
(* types, presses Enter again and again.                                   *)
Fairness ==
  /\ WF_vars(Poll("enter"))
  /\ WF_vars(ReadLine)
  /\ WF_vars(Eval)

FairSpec == Spec /\ Fairness
-----------------------------------------------------------------------------
(* Properties                                                              *)

TypeOK ==
  /\ dumb \in BOOLEAN
  /\ pc \in {"read", "eval", "stopped", "crashed", "garbled"}
  /\ len \in 0 .. MaxStr - 1
  /\ text \in Lines /\ lines \in Lines /\ ran \in Lines
  /\ formats \subseteq Lines
  /\ class \in Classes /\ word \in Words
  /\ typed \in Nat
  /\ input_last_return_was_successful \in BOOLEAN
  /\ command_history \in [Slots -> Lines]
  /\ command_history_id \in -1 .. MaxHistory - 1
  /\ command_history_id_max \in 0 .. MaxHistory

(* The history cursor stands on a slot of the array as soon as one line    *)
(* has been recorded in it, whatever mix of arrow keys and lines follows.  *)
CursorInHistory == command_history_id_max > 0 => command_history_id \in Slots

(* Browsing never goes past the newest recorded slot, and the slots beyond *)
(* it have never been written: an arrow key shows recorded lines or the    *)
(* empty slot right after them, nothing else.                              *)
CursorWithinMax == command_history_id <= command_history_id_max
EmptyAboveMax ==
  \A s \in Slots : s >= command_history_id_max => command_history[s] = 0
HistoryInOrder == CursorInHistory /\ CursorWithinMax /\ EmptyAboveMax

(* The line handed to the evaluator has the bytes of the keys typed since  *)
(* the last one: the static flag that makes the next call clear the buffer *)
(* never lets an earlier line show through.                                *)
LineIsWhatWasTyped == pc = "eval" /\ ~dumb => len = typed

(* Right after a line is recorded, the slot before the cursor holds it,    *)
(* also when the history was full and has been shifted.                    *)
LatestBehindCursor ==
  [][pc = "eval" /\ command_history_id \in Slots /\ pc' # "crashed"
       => /\ command_history_id' - 1 \in Slots
          /\ command_history'[command_history_id' - 1] = text]_vars

(* A recorded line leaves the history only by being written over at the    *)
(* cursor, or as the oldest one of a full history.                         *)
ForgetsOnlyOldest ==
  [][\A s \in Slots :
       \/ \E t \in Slots : command_history'[t] = command_history[s]
       \/ s = command_history_id
       \/ s = 0 /\ command_history_id = MaxHistory - 1]_vars

(* Once two lines are recorded, no key and no line makes the REPL index    *)
(* the history outside its array.  (What printw makes of the text in a     *)
(* slot is another matter: see TextIsPrinted.)                             *)
TwoLinesKeepIndexInArray ==
  [][command_history_id_max >= 2 /\ pc' = "crashed" => pc = "crashed"]_vars

(* A user who keeps pressing Enter gets the line evaluated, as long as it  *)
(* does not fill the buffer: from then on no key is looked at any more.    *)
EnterIsAnswered ==
  (pc = "read" /\ lines < MaxLines)
    ~> (pc \in {"eval", "crashed", "garbled"} \/ len = MaxStr - 1)

-----------------------------------------------------------------------------
(* What the repository says of the REPL, and the code does not do          *)

(* gpu_repl.c:103: "Type q or exit to exit."  A user who keeps pressing    *)
(* Enter gets any line evaluated: not one that fills the buffer.           *)
EveryLineIsAnswered ==
  (pc = "read" /\ lines < MaxLines) ~> (pc \in {"eval", "crashed", "garbled"})

(* gpu_repl.c:144: fgets blocks on the dumb console, so that every turn of *)
(* the loop evaluates a line that has just been read.                      *)
EveryTurnReadsALine == [][pc = "eval" /\ pc' = "read" => ran' # ran]_vars

(* script_help.c:16: "print text: Print message".  Whatever the user has   *)
(* typed, the console prints it: not a text with a % in it.                *)
TextIsPrinted == [](pc # "garbled")
=============================================================================
