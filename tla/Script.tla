------------------------------- MODULE Script -------------------------------
(***************************************************************************)
(* The script runner (core/script/script_parser.c): NVPlay_RunScript reads *)
(* a file line by line and hands each line to NVPlay_RunScriptCommand,     *)
(* which may call NVPlay_RunScript again.  The C stack is the variable     *)
(* stack; a FILE that has been opened is never closed.                     *)
(*                                                                         *)
(* A line is its sequence of blank-separated tokens.  line_buf holds one   *)
(* with, at times, the newline still stuck to the last token (eol): files  *)
(* are read in binary mode, and String_RTrim, which looks for blanks at    *)
(* the terminating NUL, never finds one.                                   *)
(***************************************************************************)
EXTENDS Integers, Sequences
LOCAL INSTANCE SequencesExt

CONSTANTS
  Files,               (* names a script may have                          *)
  AUTOEXEC_FILENAME,   (* one of them                                      *)
  MaxHandles,          (* files the C library can have open                *)
  MaxText              (* bound: lines on the disk, over all files         *)

ASSUME ScriptAssumption ==
  /\ AUTOEXEC_FILENAME \in Files
  /\ MaxHandles \in Nat /\ MaxText \in Nat

VARIABLES
  disk,      (* the files: their lines, and whether the last one ends in \n *)
  stack,     (* the calls of NVPlay_RunScript, innermost last               *)
  handles,   (* files open                                                  *)
  crashed

vars == <<disk, stack, handles, crashed>>

APP_VERSION == <<2, 0, 0>>

(* num_parameters of a command of each kind: two; none, by mistake (rrc32  *)
(* takes one, its entry in the table leaves the count out); runscript.     *)
num_parameters == [wm32 |-> 2, rrc32 |-> 0, rs |-> 1]

(* The lines the model's files are made of; a blank at the end of a line   *)
(* keeps the newline off the name.                                         *)
Texts ==
  {<<>>, <<"//", "wm32">>, <<"wm32", "hex", "hex">>, <<"rrc32", "hex">>,
   <<"MINIMUM_VERSION", "1.1.1.1">>, <<"wm32", "hex", "9.9.9.9">>,
   <<"wm32", "hex", "%n">>}
  \cup {<<"rs", f>> : f \in Files} \cup {<<"rs", f, "">> : f \in Files \ {AUTOEXEC_FILENAME}}

(* What a line is made of; a token cut at its dot leaves a stub.           *)
Words == Files \cup {"//", "wm32", "rrc32", "rs", "MINIMUM_VERSION",
                     "hex", "1.1.1.1", "9.9.9.9", "%n", "", "stub"}

(* The numbers that atoi finds behind the dots of a token.  At most one    *)
(* token of a line has dots.                                               *)
Dotted(token) ==
  CASE token \in Files     -> <<0>>
    [] token = "9.9.9.9"   -> <<9, 9, 9>>
    [] token = "1.1.1.1"   -> <<1, 1, 1>>
    [] OTHER               -> <<>>

(* What may be on the disk: a text of n lines, and files that are          *)
(* stretches of it and do not overlap.  What has no newline and no text is *)
(* no line.                                                                *)
Places(n) ==
  LET stretches == {s \in (0 .. n) \X (0 .. n) : s[1] <= s[2]} IN
  UNION {{p \in [present -> stretches] :
            \A f, g \in present : f = g \/ p[f][2] <= p[g][1] \/ p[g][2] <= p[f][1]} :
         present \in SUBSET Files}

LinesOf(t, s) == SubSeq(t, s[1] + 1, s[2])

Ends(lines, ended) == ended \/ lines = <<>> \/ Last(lines) = <<>>

DiskOf(t, p, ended) ==
  [f \in DOMAIN p |-> [lines      |-> LinesOf(t, p[f]),
                       terminated |-> Ends(LinesOf(t, p[f]), ended)]]

Disks ==
  UNION {{DiskOf(t, p, ended) :
            t \in [1 .. n -> Texts], p \in Places(n), ended \in BOOLEAN} :
         n \in 0 .. MaxText}

Buffers == [tokens : Seq(Words), eol : BOOLEAN]
Empty   == [tokens |-> <<>>, eol |-> FALSE]

Init ==
  /\ disk \in Disks
  /\ stack = <<>> /\ handles = 0 /\ crashed = FALSE

-----------------------------------------------------------------------------
(* One call of NVPlay_RunScript                                            *)

Top     == stack[Len(stack)]
Callers == SubSeq(stack, 1, Len(stack) - 1)
Becomes(call) == stack' = Append(Callers, call)

(* Line i of a file, as fgets delivers it.                                 *)
LineOf(f, i) ==
  [tokens |-> disk[f].lines[i],
   eol    |-> i < Len(disk[f].lines) \/ disk[f].terminated]

LastLine(f) ==
  IF disk[f].lines = <<>> THEN Empty ELSE LineOf(f, Len(disk[f].lines))

(* Mutant: any number of files can be open.                                *)
CanOpen_Always(name) == name \in DOMAIN disk
CanOpen(name) == name \in DOMAIN disk /\ handles < MaxHandles

(* at: in the version check, about to read a line, or about to run it.     *)
(* read: lines of the file behind the file position; eof: feof().          *)
(* Ghosts: fresh, fgets has just filled line_buf; ran, the lines run one   *)
(* after the other from the first; did, those whose command took           *)
(* parameters and was executed; skipped, the check moved on to the end.    *)
NewCall(name) ==
  [file |-> name, at |-> "check", read |-> 0, line_buf |-> Empty, eof |-> FALSE,
   fresh |-> FALSE, ran |-> 0, did |-> {}, skipped |-> FALSE]

(* The caller goes on, the file stays open.                                *)
Return == stack' = Callers

Fault == crashed' = TRUE /\ stack' = <<>>

(* Two passes: the first loop leaves the last line of the file in line_buf *)
(* and that line is taken for the one with the version in it.  A missing   *)
(* component is atoi(NULL): a fault, or zero, which ends the check.        *)
Version(f) ==
  LET t == LastLine(f).tokens
      dotted == {i \in DOMAIN t : Dotted(t[i]) # <<>>}
  IN IF dotted = {} THEN <<>> ELSE Dotted(t[CHOOSE i \in dotted : TRUE])

Gaps(v) == {i \in 1 .. 3 : i > Len(v) \/ v[i] = 0}

IsSupported(v) == \A i \in 1 .. 3 : v[i] >= APP_VERSION[i]

Outcomes(f) ==
  LET v == Version(f) IN
  IF disk[f].lines = <<>> \/ AUTOEXEC_FILENAME \in ToSet(LastLine(f).tokens)
    THEN {"run"}
  ELSE IF Gaps(v) = {} THEN IF IsSupported(v) THEN {"skip"} ELSE {"refuse"}
  ELSE IF \E i \in Gaps(v) : i <= Len(v) THEN {"run"}
  ELSE {"run", "fault"}

(* strtok(line_buf, "."): what stands before the first dot.                *)
CutAtDot(text) ==
  LET i == CHOOSE i \in DOMAIN text.tokens : Dotted(text.tokens[i]) # <<>>
  IN [tokens |-> Append(SubSeq(text.tokens, 1, i - 1), "stub"), eol |-> FALSE]

CheckVersion ==
  /\ stack # <<>> /\ Top.at = "check"
  /\ \E o \in Outcomes(Top.file) :
       \/ o = "fault"  /\ Fault
       \/ o = "refuse" /\ Return /\ UNCHANGED crashed
       \/ /\ o = "run"
          /\ Becomes([Top EXCEPT !.at = "read"])
          /\ UNCHANGED crashed
       \/ /\ o = "skip"   (* script_start is where the first loop stopped   *)
          /\ Becomes([Top EXCEPT !.at = "read", !.skipped = TRUE,
                                 !.read = Len(disk[Top.file].lines),
                                 !.line_buf = CutAtDot(LastLine(Top.file))])
          /\ UNCHANGED crashed
  /\ UNCHANGED <<disk, handles>>

(* fgets.  At the end of the file it leaves line_buf as it is, and what is *)
(* left in there is run all the same.                                      *)
(* Mutant: the end of the file is noticed one line too early.              *)
FileEnds_Early(f, n) == n >= Len(disk[f].lines) - 1
(* Mutant: the end of an unterminated file only.                           *)
FileEnds_Never(f, n) == n = Len(disk[f].lines) /\ ~disk[f].terminated
FileEnds(f, n) ==
  \/ n > Len(disk[f].lines)
  \/ n = Len(disk[f].lines) /\ ~disk[f].terminated

ReadLine ==
  /\ stack # <<>> /\ Top.at = "read" /\ ~Top.eof
  /\ LET n == Top.read + 1
         more == n <= Len(disk[Top.file].lines)
     IN Becomes([Top EXCEPT !.at = "run", !.eof = FileEnds(Top.file, n),
                            !.read = IF more THEN n ELSE @,
                            !.line_buf = IF more THEN LineOf(Top.file, n) ELSE @,
                            !.fresh = more])
  /\ UNCHANGED <<disk, handles, crashed>>

EndOfScript ==
  /\ stack # <<>> /\ Top.at = "read" /\ Top.eof
  /\ Return
  /\ UNCHANGED <<disk, handles, crashed>>

-----------------------------------------------------------------------------
(* NVPlay_RunScriptCommand                                                 *)

(* A token that compares equal to its name: no newline stuck to it.        *)
Clean(text, i) == i \in 1 .. Len(text.tokens) /\ (i < Len(text.tokens) \/ ~text.eol)

(* strtok puts a NUL behind the first token.                               *)
(* Mutant: the line is tokenised in a copy and stays whole.                *)
FirstToken_Copied(text) == text
FirstToken(text) ==
  [tokens |-> <<Head(text.tokens)>>, eol |-> text.eol /\ Len(text.tokens) = 1]

IsCommand(text) == text.tokens # <<>> /\ Head(text.tokens) # "//"

Known(text) == Clean(text, 1) /\ Head(text.tokens) \in DOMAIN num_parameters

Enough(text) == Len(text.tokens) - 1 >= num_parameters[Head(text.tokens)]

(* The call after its line has been run, and has left rest in line_buf.    *)
AfterLine(rest) ==
  [Top EXCEPT !.at = "read", !.line_buf = rest,
              !.ran = IF Top.fresh /\ Top.read = Top.ran + 1 THEN Top.read ELSE @]

(* A blank line, or a comment.                                             *)
SkipLine ==
  /\ ~IsCommand(Top.line_buf)
  /\ Becomes(AfterLine(Top.line_buf))
  /\ UNCHANGED handles

(* An unknown command, or one without enough parameters: a warning.        *)
RejectLine ==
  /\ IsCommand(Top.line_buf)
  /\ ~(Known(Top.line_buf) /\ Enough(Top.line_buf))
  /\ Becomes(AfterLine(FirstToken(Top.line_buf)))
  /\ UNCHANGED handles

Runs(text) == IsCommand(text) /\ Known(text) /\ Enough(text)

TakesParameters(text) == num_parameters[Head(text.tokens)] > 0

Execute ==
  /\ Runs(Top.line_buf) /\ Head(Top.line_buf.tokens) # "rs"
  /\ Becomes([AfterLine(FirstToken(Top.line_buf)) EXCEPT
                !.did = IF TakesParameters(Top.line_buf)
                        THEN @ \cup {Top.read} ELSE @])
  /\ UNCHANGED handles

(* Command_RunScript: a file that cannot be opened is an error message.    *)
Command_RunScript ==
  /\ Runs(Top.line_buf) /\ Head(Top.line_buf.tokens) = "rs"
  /\ LET name   == Top.line_buf.tokens[2]
         caller == Append(Callers, AfterLine(FirstToken(Top.line_buf)))
     IN IF Clean(Top.line_buf, 2) /\ CanOpen(name)
        THEN stack' = Append(caller, NewCall(name)) /\ handles' = handles + 1
        ELSE stack' = caller /\ UNCHANGED handles

AtLine == stack # <<>> /\ Top.at = "run"

(* A line that is run is logged before it is cut, and the console gives it *)
(* to printw as the format.  What becomes of the program is undefined; if  *)
(* it lives, the line is run like any other.                               *)
GarblesLog ==
  /\ IsCommand(Top.line_buf)
  /\ "%n" \in ToSet(Top.line_buf.tokens)
  /\ Fault
  /\ UNCHANGED handles

NVPlay_RunScriptCommand ==
  /\ AtLine
  /\ \/ (SkipLine \/ RejectLine \/ Execute \/ Command_RunScript) /\ UNCHANGED crashed
     \/ GarblesLog
  /\ UNCHANGED disk

-----------------------------------------------------------------------------
(* autoexec.nvs, -script, or the user's runscript at the prompt.           *)
NVPlay_RunScript(name) ==
  /\ stack = <<>> /\ ~crashed
  /\ CanOpen(name)
  /\ stack' = <<NewCall(name)>> /\ handles' = handles + 1
  /\ UNCHANGED <<disk, crashed>>

Interpret ==
  CheckVersion \/ ReadLine \/ EndOfScript \/ NVPlay_RunScriptCommand

AtPrompt == stack = <<>> /\ UNCHANGED vars

Next == Interpret \/ (\E name \in Files : NVPlay_RunScript(name)) \/ AtPrompt

Spec == Init /\ [][Next]_vars

(* The interpreter runs on; nobody has to start a script.                  *)
FairSpec == Spec /\ WF_vars(Interpret)

-----------------------------------------------------------------------------
(* Properties                                                              *)

TypeOK ==
  /\ handles \in 0 .. MaxHandles
  /\ crashed \in BOOLEAN
  /\ DOMAIN disk \subseteq Files
  /\ \A i \in 1 .. Len(stack) :
       /\ stack[i].file \in DOMAIN disk
       /\ stack[i].at \in {"check", "read", "run"}
       /\ stack[i].read \in 0 .. Len(disk[stack[i].file].lines)
       /\ stack[i].line_buf \in Buffers
       /\ {stack[i].eof, stack[i].fresh, stack[i].skipped} \subseteq BOOLEAN
       /\ stack[i].ran \in 0 .. stack[i].read
       /\ stack[i].did \subseteq 0 .. stack[i].read

(* Scripts that call themselves or each other cannot recurse without end:  *)
(* each call on the stack has its own file open, and there are only so     *)
(* many.                                                                   *)
DepthWithinHandles == Len(stack) <= handles /\ handles <= MaxHandles

(* A script that is left at its end has had every line run, once and in    *)
(* order, whatever scripts were called on the way, unless the version      *)
(* check itself moved on to the end.                                       *)
EveryLineRuns ==
  [][EndOfScript => Top.skipped \/ Top.ran = Len(disk[Top.file].lines)]_vars

(* The line that is left in the buffer at the end of the file is run once  *)
(* more, but a command that takes parameters is not executed twice.        *)
NoCommandTwice ==
  [][AtLine /\ Execute /\ TakesParameters(Top.line_buf)
       => Top.read \notin Top.did]_vars

(* A script comes to its end, also one that calls itself on every line.    *)
ScriptEnds == stack # <<>> ~> stack = <<>>

-----------------------------------------------------------------------------
(* What the repository says, and the code does not do                      *)

(* docs/releasenotes.txt:15: "Scripts can call other scripts with the      *)
(* runscript command".                                                     *)
ScriptsCallScripts ==
  [][AtLine /\ handles < MaxHandles
       /\ Len(Top.line_buf.tokens) > 1 /\ Head(Top.line_buf.tokens) = "rs"
       /\ Top.line_buf.tokens[2] \in DOMAIN disk
     => handles' = handles + 1]_vars

(* script_parser.c:202: a script is refused with "This script requires     *)
(* NVPlay version ... but you have version ... Please update": the version *)
(* it requires is newer.                                                   *)
RefusedForNewer ==
  [][CheckVersion /\ stack' = Callers /\ ~crashed'
       => LET v == Version(Top.file) IN
          \E i \in 1 .. 3 : /\ v[i] > APP_VERSION[i]
                            /\ \A j \in 1 .. i - 1 : v[j] = APP_VERSION[j]]_vars
=============================================================================
