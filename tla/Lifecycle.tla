------------------------------ MODULE Lifecycle ------------------------------
(***************************************************************************)
(* One run of NVPlay from main() to exit() (main.c): the command line, the *)
(* console and the log, the checks that may refuse to go on, the HAL of    *)
(* the card that was found, autoexec.nvs, the mode asked for, and          *)
(* NVPlay_Shutdown, from wherever it is called.                            *)
(*                                                                         *)
(* Of the card the model keeps the one register that outlives the program: *)
(* PRAMDAC_(PLL_)COEFF_SELECT, which says where the clocks come from.      *)
(* Everything a script or the user may do to the card is a change of it.   *)
(***************************************************************************)
EXTENDS Cmdline, Kernel

VARIABLES
  pc,           (* where main() stands                                     *)
  curses,       (* PDcurses owns the screen                                *)
  log,          (* log file: "closed", "open", or "null" (fopen failed)    *)
  tests,        (* config.test_list: families of the tests in it           *)
  os,           (* os_level: DOS is its initial value, zero                *)
  hal,          (* HAL of the card GPU_Detect has found, or "none"         *)
  clock,        (* the card's clock selection                              *)
  saved,        (* original_pll_setting of the HAL's static state          *)
  initialised,  (* current_device.initialised                              *)
  exit_code     (* what exit() was or will be called with; -1: not yet     *)

setup == <<curses, log, tests, os>>
card  == <<hal, clock, saved, initialised>>
main  == <<pc, setup, card, exit_code>>
vars == <<cmdline, kvars, main>>

(* Before a card is found, and after.                                      *)
(* "keypress": under NT, before giving up; "hung": in a command that will  *)
(* not return.                                                             *)
Checking == {"cmdline", "console", "logging", "config", "os", "keypress",
             "pci", "gpu"}
Running  == {"save", "switch", "run", "autoexec", "repl", "script", "hung",
             "kernel"}

Clocks == {"boot", "software", "zero"}

Init ==
  /\ CmdlineInit /\ KernelInit
  /\ pc = "cmdline"
  /\ curses = FALSE /\ log = "closed" /\ tests = {} /\ os = "dos" /\ hal = "none"
  /\ clock = "boot" /\ saved = "zero"
  /\ initialised = FALSE /\ exit_code = -1

(* NVPlay_Shutdown: never returns to its caller.                           *)
Shutdown(code) == pc' = "shutdown" /\ exit_code' = code

Goto(next) == pc' = next /\ UNCHANGED exit_code

-----------------------------------------------------------------------------
(* NVPlay_Init                                                             *)

(* The result of NVPlay_ParseCmdline is not looked at.                     *)
ParseCmdline ==
  /\ pc = "cmdline"
  /\ ParseArg \/ ParseEnd
  /\ Goto(CASE parsed' = "no" -> "cmdline"
            [] parsed' = "fault" -> "killed"
            [] OTHER -> "console")
  /\ UNCHANGED <<kvars, setup, card>>

Console_Init ==
  /\ pc = "console"
  /\ curses' = ~dumb_console
  /\ Goto("logging")
  /\ UNCHANGED <<cmdline, kvars, log, tests, os, card>>

(* log_settings.valid and level have just been set: true whatever fopen    *)
(* returned.  What is written to a null stream is undefined, see Killed.   *)
Logging_Init ==
  /\ pc = "logging"
  /\ log' \in {"open", "null"}
  /\ Goto("config")
  /\ UNCHANGED <<cmdline, kvars, curses, tests, os, card>>

(* The families tests are written for; the generic ones fit any card.      *)
TestFamilies == {"generic", "nv1", "nv3"}

(* nvplay.ini may be missing, or have no [Tests].  The tests listed are    *)
(* those that fit the card found so far.  Help needs the file as well.     *)
Config_Load ==
  /\ pc = "config"
  /\ \/ Shutdown(3) /\ UNCHANGED tests
     \/ /\ IF run_mode = "help" THEN Shutdown(8) ELSE Goto("os")
        /\ tests' \in {{}, {f \in TestFamilies : f \in {"generic", hal}}}
  /\ UNCHANGED <<cmdline, kvars, curses, log, os, card>>

(* All versions of Windows, and those that cannot be told, are alike.      *)
OSLevels == {"dos", "windows", "nt"}

(* The block at the end of NVPlay_DetectOS that gives up curses under NT   *)
(* does nothing: NT has returned from the function before.                 *)
(* Mutant: NT is detected and then used like any other Windows.            *)
NVPlay_DetectOS_Ignored ==
  /\ pc = "os"
  /\ os' \in OSLevels
  /\ Goto("pci")
  /\ UNCHANGED <<cmdline, kvars, curses, log, tests, card>>
NVPlay_DetectOS ==
  /\ pc = "os"
  /\ os' \in OSLevels
  /\ Goto(IF os' = "nt" THEN "keypress" ELSE "pci")
  /\ UNCHANGED <<cmdline, kvars, curses, log, tests, card>>

(* getchar() returns: the user has read why NVPlay will not run under NT.  *)
KeyPressed ==
  /\ pc = "keypress"
  /\ Shutdown(9)
  /\ UNCHANGED <<cmdline, kvars, setup, card>>

PCI_BiosIsPresent ==
  /\ pc = "pci"
  /\ Shutdown(1) \/ Goto("gpu")
  /\ UNCHANGED <<cmdline, kvars, setup, card>>

GPU_Detect ==
  /\ pc = "gpu"
  /\ \/ Shutdown(2) /\ UNCHANGED hal
     \/ Goto("save") /\ hal' \in Hals
  /\ UNCHANGED <<cmdline, kvars, curses, log, tests, os, clock, saved, initialised>>

(* hal->init_function: every family has one and every one returns true.    *)
(* It saves the clock selection first and switches it after that.          *)
SaveClocks ==
  /\ pc = "save"
  /\ saved' = IF hal \in SavesClocks THEN clock ELSE saved
  /\ Goto("switch")
  /\ UNCHANGED <<cmdline, kvars, setup, hal, clock, initialised>>

SwitchClocks ==
  /\ pc = "switch"
  /\ clock' = IF hal \in SwitchesClocks THEN "software" ELSE clock
  /\ Goto("run")
  /\ UNCHANGED <<cmdline, kvars, setup, hal, saved, initialised>>

-----------------------------------------------------------------------------
(* NVPlay_Run                                                              *)

(* Mutant: the device is never marked as initialised.                      *)
NVPlay_Run_Forgets ==
  /\ pc = "run"
  /\ Goto("autoexec")
  /\ UNCHANGED <<cmdline, kvars, setup, card>>
NVPlay_Run ==
  /\ pc = "run"
  /\ initialised' = TRUE
  /\ Goto("autoexec")
  /\ UNCHANGED <<cmdline, kvars, setup, hal, clock, saved>>

(* One command of autoexec.nvs, of the script, or of the user: the port,   *)
(* PCI and RAMIN commands reach every register, without a bounds check.    *)
(* One that does not return goes on changing what it reaches.              *)
Command ==
  /\ pc \in {"autoexec", "script", "repl", "hung"}
  /\ clock' \in Clocks
  /\ UNCHANGED <<cmdline, kvars, pc, setup, hal, saved,
                 initialised, exit_code>>

(* A range with an end near 2^32 never gets past it: its loop variable     *)
(* wraps (see Commands).                                                   *)
CommandHangs ==
  /\ pc \in {"autoexec", "script", "repl"}
  /\ Goto("hung")
  /\ UNCHANGED <<cmdline, kvars, setup, card>>

ModeRuns ==
  CASE run_mode \in {"repl", "script", "kernel"} -> Goto(run_mode)
    [] OTHER -> Shutdown(0)

(* autoexec.nvs is over, or there is none: on to the mode.  Both it and a  *)
(* script get here after finitely many commands that return (see Script).  *)
AutoexecEnds ==
  /\ pc = "autoexec"
  /\ ModeRuns
  /\ UNCHANGED <<cmdline, kvars, setup, card>>

ScriptEnds ==
  /\ pc = "script"
  /\ Shutdown(0)
  /\ UNCHANGED <<cmdline, kvars, setup, card>>

ReplEnds ==
  /\ pc = "repl"
  /\ Shutdown(0)
  /\ UNCHANGED <<cmdline, kvars, setup, card>>

Kernel_Main ==
  /\ pc = "kernel"
  /\ KernelNext(hal)
  /\ CASE kpc' = "fatal" -> Shutdown(12)
       [] kpc' = "fault" -> Goto("killed")
       [] kpc' = "done"  -> Shutdown(0)
       [] OTHER -> Goto("kernel")
  /\ UNCHANGED <<cmdline, setup, card>>

-----------------------------------------------------------------------------
(* The HAL's shutdown, then the log and exit().  Nothing ends curses.      *)
(* Mutant: an orderly end that skips the HAL.                              *)
NVPlay_Shutdown_NoHal ==
  /\ pc = "shutdown"
  /\ Goto("exited")
  /\ UNCHANGED <<cmdline, kvars, setup, card>>
NVPlay_Shutdown ==
  /\ pc = "shutdown"
  /\ clock' = IF initialised /\ hal \in HasShutdown \cap SavesClocks
              THEN saved ELSE clock
  /\ log' = "closed"
  /\ pc' \in IF log = "null" THEN {"exited", "killed"} ELSE {"exited"}
  /\ UNCHANGED <<cmdline, kvars, curses, tests, os, hal, saved, initialised, exit_code>>

Over == pc \in {"exited", "killed"}

(* Ctrl-C (cbreak leaves it to DOS), a fault, the power switch.            *)
Killed ==
  /\ ~Over
  /\ Goto("killed")
  /\ UNCHANGED <<cmdline, kvars, setup, card>>

Program ==
  \/ ParseCmdline \/ Console_Init \/ Logging_Init \/ Config_Load
  \/ NVPlay_DetectOS \/ PCI_BiosIsPresent \/ GPU_Detect
  \/ SaveClocks \/ SwitchClocks
  \/ NVPlay_Run \/ AutoexecEnds \/ ScriptEnds \/ Kernel_Main
  \/ NVPlay_Shutdown

Ended == Over /\ UNCHANGED vars

Next ==
  \/ Program
  \/ Command \/ CommandHangs
  \/ KeyPressed \/ ReplEnds
  \/ Killed \/ Ended

Spec == Init /\ [][Next]_vars

(* The program runs on, as long as no command keeps it: a script is over   *)
(* after finitely many that return.  No fairness makes the user leave the  *)
(* REPL or press a key, and none brings a command back.                    *)
FairSpec == Spec /\ WF_vars(Program)

-----------------------------------------------------------------------------
(* Properties                                                              *)

TypeOK ==
  /\ CmdlineTypeOK /\ KernelTypeOK
  /\ pc \in Checking \cup Running \cup {"shutdown", "exited", "killed"}
  /\ curses \in BOOLEAN /\ initialised \in BOOLEAN
  /\ log \in {"closed", "open", "null"}
  /\ tests \subseteq TestFamilies
  /\ os \in OSLevels
  /\ hal \in Hals \cup {"none"}
  /\ clock \in Clocks /\ saved \in Clocks
  /\ exit_code \in {-1, 0, 1, 2, 3, 8, 9, 12}

(* Whatever scripts, the user or the kernel test did to the clocks, and    *)
(* whichever of the exits the program leaves by, a card whose HAL saves    *)
(* the clock selection has it back after exit().                           *)
ClockGivenBack == pc = "exited" /\ hal \in SavesClocks => clock = "boot"

(* Nothing has touched the clocks in a run that only shows the help, under *)
(* an operating system that is refused, or before a card was found.        *)
HandsOff ==
  run_mode = "help" \/ os = "nt" \/ hal = "none" => clock = "boot"

(* The exit code tells how the run went: success only after the card was   *)
(* initialised, and of a kernel test only with both engines brought up;    *)
(* "crashed state" only for a kernel test on a card without kernel         *)
(* functions; the others only when no card was found.                      *)
ExitCodeTells ==
  pc = "exited" =>
    /\ exit_code = 0 => /\ initialised
                        /\ run_mode = "kernel"
                             => pfifo = "ready" /\ pgraph # "boot"
    /\ exit_code = 12 <=> run_mode = "kernel" /\ hal # "none"
                          /\ hal \notin HasFifoInit
    /\ exit_code \in {1, 2, 3, 8, 9} <=> hal = "none"

(* Nothing but its user and a command that does not return keeps NVPlay    *)
(* from its exit: a run gets to the REPL, waits for the key it asks for    *)
(* under NT and nowhere else, is kept by a command of a script it was      *)
(* given, or comes to an end by itself, in the kernel test as well.        *)
ComesToAnEnd ==
  <>(\/ pc \in {"repl", "hung", "exited", "killed"}
     \/ pc = "keypress" /\ os = "nt")

(* The run as its owner sees it.                                           *)
Session == INSTANCE GpuSession WITH
  Boot <- "boot",
  returns <- hal \in SavesClocks,
  phase <- CASE pc = "killed" -> "killed"
             [] pc = "exited" -> IF hal = "none" THEN "refused" ELSE "finished"
             [] OTHER -> IF hal = "none" THEN "out" ELSE "in"
SessionSpec == Session!Spec

-----------------------------------------------------------------------------
(* What the repository says, and the code does not do                      *)

(* kernel/core/kernel.c:71: "If we are initialising we have to reset".     *)
ResetOnInit == kpc = "done" => pgraph = "reset"

(* config/config.c:42: the tests are chosen by the GPU that is installed.  *)
TestsOfTheCard ==
  pc \in Running /\ tests # {} /\ hal \in TestFamilies => hal \in tests

=============================================================================
