------------------------------ MODULE Cmdline -------------------------------
(***************************************************************************)
(* NVPlay_ParseCmdline (core/core_cmdline.c): one pass over argv, starting *)
(* at the program's own name.  An argument is known by what it matches;    *)
(* the two spellings of an option are one option.                          *)
(***************************************************************************)
EXTENDS Integers, Sequences, SequencesExt

CONSTANT MaxArgs   (* bound: arguments after the program's own name *)

ASSUME CmdlineAssumption == MaxArgs \in Nat

ModeOf == [script |-> "script", replay |-> "replay", help |-> "help",
           bootonly |-> "bootgpu", kerneltest |-> "kernel"]

Options == DOMAIN ModeOf \cup {"dumbconsole"}
Args    == Options \cup {"file"}       (* "file": anything else             *)
Modes   == {"repl"} \cup {ModeOf[o] : o \in DOMAIN ModeOf}

VARIABLES
  argv,             (* the arguments; argv[0] of C is argv[1] here          *)
  arg,              (* index of the argument the loop looks at              *)
  run_mode,
  dumb_console,
  reg_script_file,  (* index of the argument copied there; 0 none, -1 junk  *)
  parsed            (* "no", "yes", "refused", or "fault"                   *)

cmdline == <<argv, arg, run_mode, dumb_console, reg_script_file, parsed>>

Argvs == {<<"file">> \o s : s \in SeqOf(Args, MaxArgs)}

CmdlineInit ==
  /\ argv \in Argvs
  /\ arg = 1
  /\ run_mode = "repl" /\ dumb_console = FALSE /\ reg_script_file = 0
  /\ parsed = "no"

(* #define ARG_LEFT argc - i < 1: "no argument left", and never true, as   *)
(* the loop runs with i < argc.                                            *)
ARG_LEFT == Len(argv) - (arg - 1) < 1

(* Mutant: the index is moved to the name first and then counted again.    *)
CopyName_Late ==
  IF arg < Len(argv)
  THEN reg_script_file' = arg + 2 /\ parsed' = "no"
  ELSE reg_script_file' = -1 /\ parsed' \in {"no", "fault"}
(* Copying argv[argc], a null pointer: a fault, or a meaningless name.     *)
CopyName ==
  IF arg < Len(argv)
  THEN reg_script_file' = arg + 1 /\ parsed' = "no"
  ELSE reg_script_file' = -1 /\ parsed' \in {"no", "fault"}

Refuse ==
  /\ parsed' = "refused"
  /\ UNCHANGED <<arg, run_mode, dumb_console, reg_script_file>>

(* Mutant: the file name of -script is looked at as an option as well.     *)
ScriptOption_NoSkip ==
  /\ argv[arg] = "script"
  /\ run_mode' = "script" /\ CopyName /\ arg' = arg + 1
  /\ UNCHANGED dumb_console
ScriptOption ==
  /\ argv[arg] = "script"
  /\ IF ARG_LEFT THEN Refuse
     ELSE /\ run_mode' = "script" /\ CopyName /\ arg' = arg + 2
          /\ UNCHANGED dumb_console

(* The replay file's own buffer is never read; copying a missing one is    *)
(* the same fault.  Its name is looked at as an option afterwards.         *)
ReplayOption ==
  /\ argv[arg] = "replay"
  /\ IF ARG_LEFT THEN Refuse
     ELSE /\ run_mode' = "replay" /\ arg' = arg + 1
          /\ parsed' \in IF arg < Len(argv) THEN {"no"} ELSE {"no", "fault"}
          /\ UNCHANGED <<dumb_console, reg_script_file>>

OtherOption ==
  /\ argv[arg] \notin {"script", "replay"}
  /\ run_mode' = IF argv[arg] \in DOMAIN ModeOf THEN ModeOf[argv[arg]] ELSE run_mode
  /\ dumb_console' = (dumb_console \/ argv[arg] = "dumbconsole")
  /\ arg' = arg + 1
  /\ UNCHANGED <<reg_script_file, parsed>>

ParseArg ==
  /\ parsed = "no" /\ arg <= Len(argv)
  /\ ScriptOption \/ ReplayOption \/ OtherOption
  /\ UNCHANGED argv

ParseEnd ==
  /\ parsed = "no" /\ arg > Len(argv)
  /\ parsed' = "yes"
  /\ UNCHANGED <<argv, arg, run_mode, dumb_console, reg_script_file>>

-----------------------------------------------------------------------------
CmdlineTypeOK ==
  /\ argv \in Seq(Args)
  /\ arg \in 1 .. Len(argv) + 2
  /\ run_mode \in Modes /\ dumb_console \in BOOLEAN
  /\ reg_script_file \in -1 .. Len(argv)
  /\ parsed \in {"no", "yes", "refused", "fault"}

(* The reference: the loop must read as options all positions but those    *)
(* that name the file of an earlier -script, which are the ones that a run *)
(* of an odd number of -script ends at.                                    *)
RunBefore(p, k) ==
  /\ \A q \in p - k .. p - 1 : argv[q] = "script"
  /\ argv[p - k - 1] # "script"
Skipped(p) == \E k \in 1 .. p - 2 : k % 2 = 1 /\ RunBefore(p, k)
OptionsAt(S) == {p \in 1 .. Len(argv) : argv[p] \in S /\ ~Skipped(p)}

(* Whatever options are given in whatever order, the last one that selects *)
(* a mode decides, the name after -script is never taken for an option and *)
(* is the name kept, and -dumbconsole counts wherever it stands.           *)
LastModeWins ==
  parsed = "yes" =>
    /\ dumb_console = (OptionsAt({"dumbconsole"}) # {})
    /\ LET chosen == OptionsAt(DOMAIN ModeOf)
           last   == CHOOSE p \in chosen : \A q \in chosen : q <= p
       IN IF chosen = {} THEN run_mode = "repl"
          ELSE /\ run_mode = ModeOf[argv[last]]
               /\ run_mode = "script" /\ last < Len(argv)
                    => reg_script_file = last + 1

(* core_cmdline.c:53: "-script provided, but no registry script file       *)
(* provided!", after which parsing fails.                                  *)
MissingFileIsRefused ==
  parsed \in {"yes", "fault"} /\ argv # <<>> /\ ~Skipped(Len(argv))
    => argv[Len(argv)] # "script"
=============================================================================
