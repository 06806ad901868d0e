--------------------------- MODULE LifecycleProofs ---------------------------
(***************************************************************************)
(* Proofs about Lifecycle, for command lines of any length.                *)
(***************************************************************************)
EXTENDS Lifecycle, TLAPS

(* What holds between two steps of main(), beyond the types: no card and   *)
(* nothing touched while checking, a card that is worth running on after;  *)
(* the value saved is the one of the boot from the moment it is saved; and *)
(* a shutdown with a card is one with the card initialised.                *)
Undisturbed == hal = "none" => clock = "boot" /\ ~initialised
NoCardYet   == pc \in Checking => hal = "none"
CardFound   == pc \in Running => hal \in Hals
Accepted    == pc \in {"pci", "gpu"} \cup Running => os # "nt"
NotHelping  == pc \in {"os", "pci", "gpu"} \cup Running => run_mode # "help"
Refused     == os = "nt" \/ run_mode = "help" => hal = "none"
BootBefore  == pc \in {"save"} => clock = "boot"
BootSaved   == hal \in SavesClocks /\ pc \notin {"save", "killed"} => saved = "boot"
Initialised == hal # "none" /\ pc \notin {"save", "switch", "run", "killed"}
                 => initialised

LInv ==
  /\ TypeOK
  /\ Undisturbed /\ NoCardYet /\ CardFound /\ Accepted /\ NotHelping /\ Refused
  /\ BootBefore /\ BootSaved /\ Initialised
  /\ ClockGivenBack

LEMMA KernelTypeStep ==
  ASSUME NEW h, KernelTypeOK, KernelNext(h)
  PROVE  KernelTypeOK'
BY DEF KernelTypeOK, KernelNext, Alloc, Kernel_SetStateFifo, NV4_InitFIFO, Kernel_Fatal, Fault,
       Kernel_SetStateGraph_Init, Kernel_SetStateGraph_Reset, Loop

LEMMA CmdlineTypeInit == CmdlineInit => CmdlineTypeOK
<1> SUFFICES ASSUME CmdlineInit PROVE CmdlineTypeOK OBVIOUS
<1>1. PICK s \in SeqOf(Args, MaxArgs) : argv = <<"file">> \o s
  BY DEF CmdlineInit, Argvs
<1>2. s \in Seq(Args)
  BY CmdlineAssumption DEF SeqOf, CmdlineAssumption
<1>3. argv \in Seq(Args)
  BY <1>1, <1>2 DEF Args
<1>4. Len(argv) \in Nat
  BY <1>3
<1>5. "repl" \in Modes BY DEF Modes
<1>6. arg \in 1 .. Len(argv) + 2 /\ reg_script_file \in -1 .. Len(argv)
  BY <1>4 DEF CmdlineInit
<1> QED BY <1>3, <1>5, <1>6, Zenon DEF CmdlineInit, CmdlineTypeOK

LEMMA CmdlineTypeStep ==
  ASSUME CmdlineTypeOK, ParseArg \/ ParseEnd
  PROVE  CmdlineTypeOK'
<1>m. \A o \in DOMAIN ModeOf : ModeOf[o] \in Modes
  BY DEF Modes
<1>d. "script" \in DOMAIN ModeOf /\ "replay" \in DOMAIN ModeOf
      /\ ModeOf["script"] = "script" /\ ModeOf["replay"] = "replay"
  BY DEF ModeOf
<1>1. CASE ParseEnd
  BY <1>1 DEF ParseEnd, CmdlineTypeOK
<1>2. CASE ParseArg
  <2>1. ~ARG_LEFT
    BY <1>2 DEF ParseArg, ARG_LEFT, CmdlineTypeOK
  <2>2. CASE ScriptOption
    BY <1>2, <1>m, <1>d, <2>1, <2>2
    DEF ParseArg, ScriptOption, CopyName, CmdlineTypeOK
  <2>3. CASE ReplayOption
    BY <1>2, <1>m, <1>d, <2>1, <2>3
    DEF ParseArg, ReplayOption, CmdlineTypeOK
  <2>4. CASE OtherOption
    BY <1>2, <1>m, <2>4 DEF ParseArg, OtherOption, CmdlineTypeOK
  <2> QED BY <1>2, <2>2, <2>3, <2>4 DEF ParseArg
<1> QED BY <1>1, <1>2

LEMMA LInvInit == Init => LInv
<1> SUFFICES ASSUME Init PROVE LInv OBVIOUS
<1>1. CmdlineTypeOK
  BY CmdlineTypeInit DEF Init
<1>2. KernelTypeOK
  BY DEF Init, KernelInit, KernelTypeOK
<1>3. TypeOK
  BY <1>1, <1>2 DEF Init, TypeOK, Checking, Clocks, OSLevels
<1>4. run_mode # "help"
  BY DEF Init, CmdlineInit
<1> QED
  BY <1>3, <1>4 DEF Init, LInv, Undisturbed, NoCardYet, CardFound, Accepted,
     NotHelping, Refused, BootBefore, BootSaved, Initialised, ClockGivenBack,
     Checking, Running, Hals, SavesClocks

LEMMA LInvStep == LInv /\ [Next]_vars => LInv'
<1> SUFFICES ASSUME LInv, [Next]_vars PROVE LInv' OBVIOUS
<1> USE DEF LInv, TypeOK, Undisturbed, NoCardYet, CardFound, Accepted, NotHelping,
        Refused, BootBefore, BootSaved, Initialised, ClockGivenBack, Checking,
        Running, Clocks, Goto, Shutdown, setup, card
<1>a. UNCHANGED kvars => KernelTypeOK'
  BY DEF KernelTypeOK, kvars
<1>b. UNCHANGED cmdline => CmdlineTypeOK' /\ run_mode' = run_mode
  BY DEF CmdlineTypeOK, cmdline
<1>1. CASE ParseCmdline
  <2>1. CmdlineTypeOK'
    BY <1>1, CmdlineTypeStep DEF ParseCmdline
  <2> QED BY <1>1, <1>a, <2>1 DEF ParseCmdline, Hals, SavesClocks
<1>2. CASE Console_Init
  BY <1>2, <1>a, <1>b DEF Console_Init
<1>3. CASE Logging_Init
  BY <1>3, <1>a, <1>b DEF Logging_Init
<1>4. CASE Config_Load
  BY <1>4, <1>a, <1>b DEF Config_Load
<1>5. CASE NVPlay_DetectOS
  BY <1>5, <1>a, <1>b DEF NVPlay_DetectOS, OSLevels
<1>6. CASE PCI_BiosIsPresent
  BY <1>6, <1>a, <1>b DEF PCI_BiosIsPresent
<1>7. CASE GPU_Detect
  BY <1>7, <1>a, <1>b DEF GPU_Detect, Hals
<1>8. CASE SaveClocks
  BY <1>8, <1>a, <1>b DEF SaveClocks, Hals
<1>9. CASE SwitchClocks
  BY <1>9, <1>a, <1>b DEF SwitchClocks, Hals
<1>10. CASE NVPlay_Run
  BY <1>10, <1>a, <1>b DEF NVPlay_Run, Hals
<1>11. CASE AutoexecEnds
  BY <1>11, <1>a, <1>b DEF AutoexecEnds, ModeRuns, Hals
<1>12. CASE ScriptEnds
  BY <1>12, <1>a, <1>b DEF ScriptEnds, Hals
<1>13. CASE Kernel_Main
  <2>1. KernelTypeOK'
    BY <1>13, KernelTypeStep DEF Kernel_Main
  <2> QED BY <1>13, <1>b, <2>1 DEF Kernel_Main, Hals
<1>14. CASE NVPlay_Shutdown
  BY <1>14, <1>a, <1>b DEF NVPlay_Shutdown, Hals, HasShutdown, SavesClocks
<1>15. CASE Command
  BY <1>15, <1>a, <1>b DEF Command, Hals
<1>16. CASE ReplEnds
  BY <1>16, <1>a, <1>b DEF ReplEnds, Hals
<1>17. CASE Killed
  BY <1>17, <1>a, <1>b DEF Killed, Over
<1>18. CASE UNCHANGED vars
  BY <1>18, <1>a, <1>b DEF vars, main
<1>19. CASE KeyPressed
  BY <1>19, <1>a, <1>b DEF KeyPressed
<1>20. CASE CommandHangs
  BY <1>20, <1>a, <1>b DEF CommandHangs, Hals
<1> QED
  BY <1>1, <1>2, <1>3, <1>4, <1>5, <1>6, <1>7, <1>8, <1>9, <1>10, <1>11, <1>12,
     <1>13, <1>14, <1>15, <1>16, <1>17, <1>18, <1>19, <1>20 DEF Next, Program, Ended

LEMMA LifecycleInvariant == Spec => []LInv
BY LInvInit, LInvStep, PTL DEF Spec

(* Every variable keeps its type, for command lines of any length.         *)
THEOREM TypeCorrect == Spec => []TypeOK
<1>1. LInv => TypeOK BY DEF LInv
<1> QED BY <1>1, LifecycleInvariant, PTL

(* An orderly end gives the clocks back on the families that save them.    *)
THEOREM ClocksReturned == Spec => []ClockGivenBack
<1>1. LInv => ClockGivenBack BY DEF LInv
<1> QED BY <1>1, LifecycleInvariant, PTL

(* A run that refuses, or only shows the help, has left the clocks alone.  *)
THEOREM Refusing == Spec => []HandsOff
<1>1. LInv => HandsOff BY DEF LInv, HandsOff, Refused, Undisturbed
<1> QED BY <1>1, LifecycleInvariant, PTL

-----------------------------------------------------------------------------
(* The exit code, which needs what the kernel has done so far.             *)

KernelFresh  == pc \notin {"kernel", "shutdown", "exited", "killed"} => kpc = "off"
KernelAsked  == /\ pc = "kernel" => run_mode = "kernel"
                /\ pc \in {"script", "repl"} => run_mode # "kernel"
KernelOpen   == pc = "kernel" => kpc \in {"off", "fifo", "graph", "reset", "loop"}
FifoFirst    == kpc \in {"graph", "reset", "loop", "done"}
                  => hal \in HasFifoInit /\ pfifo = "ready"
GraphNext    == kpc \in {"reset", "loop", "done"} => pgraph # "boot"
CodeChosen   ==
  pc = "shutdown" =>
    /\ exit_code = 0 => /\ initialised
                        /\ run_mode = "kernel"
                             => pfifo = "ready" /\ pgraph # "boot"
    /\ exit_code = 12 <=> run_mode = "kernel" /\ hal # "none"
                          /\ hal \notin HasFifoInit
    /\ exit_code \in {1, 2, 3, 8, 9} <=> hal = "none"

CodeInv ==
  /\ KernelFresh /\ KernelAsked /\ KernelOpen /\ FifoFirst /\ GraphNext
  /\ CodeChosen /\ ExitCodeTells

LEMMA CodeInvStep == LInv /\ CodeInv /\ [Next]_vars => CodeInv'
<1> SUFFICES ASSUME LInv, CodeInv, [Next]_vars PROVE CodeInv' OBVIOUS
<1> USE DEF CodeInv, KernelFresh, KernelAsked, KernelOpen, FifoFirst, GraphNext,
        CodeChosen, ExitCodeTells, Checking, Running, Goto, Shutdown, setup, card,
        HasFifoInit, HasGraphInit, HasGraphReset
<1>l. /\ pc \in Checking => hal = "none"
      /\ pc \in Running => hal \in Hals
      /\ hal # "none" /\ pc \notin {"save", "switch", "run", "killed"} => initialised
  BY DEF LInv, NoCardYet, CardFound, Initialised
<1>n. "none" \notin Hals
  BY DEF Hals
<1>b. UNCHANGED cmdline => run_mode' = run_mode
  BY DEF cmdline
<1>1. CASE ParseCmdline
  BY <1>1, <1>l DEF ParseCmdline, kvars
<1>2. CASE Console_Init \/ Logging_Init \/ Config_Load \/ NVPlay_DetectOS
  BY <1>2, <1>b, <1>l DEF Console_Init, Logging_Init, Config_Load,
     NVPlay_DetectOS, kvars
<1>3. CASE KeyPressed \/ PCI_BiosIsPresent \/ GPU_Detect
  BY <1>3, <1>b, <1>l DEF KeyPressed, PCI_BiosIsPresent, GPU_Detect, kvars
<1>4. CASE SaveClocks \/ SwitchClocks \/ NVPlay_Run \/ Command \/ CommandHangs
  BY <1>4, <1>b, <1>l DEF SaveClocks, SwitchClocks, NVPlay_Run, Command,
     CommandHangs, kvars
<1>5. CASE AutoexecEnds
  BY <1>5, <1>b, <1>l, <1>n DEF AutoexecEnds, ModeRuns, kvars
<1>6. CASE ScriptEnds \/ ReplEnds
  BY <1>6, <1>b, <1>l, <1>n DEF ScriptEnds, ReplEnds, kvars
<1>7. CASE Kernel_Main
  <2>1. KernelNext(hal) /\ run_mode' = run_mode /\ UNCHANGED <<hal, initialised>>
    BY <1>7, <1>b DEF Kernel_Main
  <2>2. FifoFirst' /\ GraphNext'
    BY <2>1, <1>7 DEF KernelNext, Alloc, Kernel_SetStateFifo, NV4_InitFIFO, Kernel_Fatal, Fault,
       Kernel_SetStateGraph_Init, Kernel_SetStateGraph_Reset, Loop
  <2>3. kpc' = "fatal" => hal \notin HasFifoInit
    BY <2>1, <1>7 DEF KernelNext, Alloc, Kernel_SetStateFifo, NV4_InitFIFO, Kernel_Fatal, Fault,
       Kernel_SetStateGraph_Init, Kernel_SetStateGraph_Reset, Loop, Kernel_Main
  <2>4. kpc' \in {"fifo", "graph", "reset", "loop", "done", "fatal", "fault"}
    BY <2>1 DEF KernelNext, Alloc, Kernel_SetStateFifo, NV4_InitFIFO, Kernel_Fatal, Fault,
       Kernel_SetStateGraph_Init, Kernel_SetStateGraph_Reset, Loop
  <2> QED BY <1>7, <1>l, <1>n, <2>1, <2>2, <2>3, <2>4 DEF Kernel_Main
<1>8. CASE NVPlay_Shutdown
  BY <1>8, <1>b DEF NVPlay_Shutdown, kvars
<1>9. CASE Killed
  BY <1>9, <1>b DEF Killed, kvars
<1>10. CASE UNCHANGED vars
  BY <1>10, <1>b DEF vars, main, kvars
<1> QED
  BY <1>1, <1>2, <1>3, <1>4, <1>5, <1>6, <1>7, <1>8, <1>9, <1>10
  DEF Next, Program, Ended

(* What the caller of NVPlay reads off the exit code is how the run went.  *)
THEOREM ExitCodeIsRight == Spec => []ExitCodeTells
<1>1. Init => CodeInv
  BY DEF Init, KernelInit, CodeInv, KernelFresh, KernelAsked, KernelOpen,
     FifoFirst, GraphNext, CodeChosen, ExitCodeTells
<1>2. CodeInv => ExitCodeTells BY DEF CodeInv
<1> QED BY <1>1, <1>2, LifecycleInvariant, CodeInvStep, PTL DEF Spec

-----------------------------------------------------------------------------
(* The command line.  The loop never stands on the name of a -script file, *)
(* which needs how many -script stand before it; and what it has set is    *)
(* what the options it has passed ask for.                                 *)

IsOption(p) == \E k \in 0 .. p - 2 : k % 2 = 0 /\ RunBefore(p, k)
Passed(S)   == {p \in OptionsAt(S) : p < arg}
Decides(p)  == /\ p \in Passed(DOMAIN ModeOf)
               /\ \A q \in Passed(DOMAIN ModeOf) : q <= p
               /\ run_mode = ModeOf[argv[p]]
               /\ run_mode = "script" /\ p < Len(argv) => reg_script_file = p + 1
ModeSoFar   == IF Passed(DOMAIN ModeOf) = {} THEN run_mode = "repl"
               ELSE \E p \in 1 .. Len(argv) : Decides(p)
DumbSoFar   == dumb_console = (Passed({"dumbconsole"}) # {})

ParseInv ==
  /\ Len(argv) > 0 /\ argv[1] = "file"
  /\ parsed = "no" /\ arg <= Len(argv) => arg = 1 \/ IsOption(arg)
  /\ parsed = "yes" => arg > Len(argv)
  /\ ModeSoFar /\ DumbSoFar

(* There is one run of -script before a position.                          *)
LEMMA OneRun ==
  ASSUME NEW p \in Int, NEW k \in Nat, NEW l \in Nat,
         RunBefore(p, k), RunBefore(p, l)
  PROVE  k = l
<1>1. ~(k < l)
  <2> SUFFICES ASSUME k < l PROVE FALSE OBVIOUS
  <2>1. p - k - 1 \in p - l .. p - 1 OBVIOUS
  <2> QED BY <2>1 DEF RunBefore
<1>2. ~(l < k)
  <2> SUFFICES ASSUME l < k PROVE FALSE OBVIOUS
  <2>1. p - l - 1 \in p - k .. p - 1 OBVIOUS
  <2> QED BY <2>1 DEF RunBefore
<1> QED BY <1>1, <1>2

(* A run is one longer after one more -script.                             *)
LEMMA RunGrows ==
  ASSUME NEW p \in Int, NEW k \in Nat, RunBefore(p, k), argv[p] = "script"
  PROVE  RunBefore(p + 1, k + 1)
<1>1. p + 1 - (k + 1) = p - k /\ p + 1 - 1 = p OBVIOUS
<1>2. ASSUME NEW q \in p - k .. p PROVE argv[q] = "script"
  <2>1. q = p \/ q \in p - k .. p - 1 OBVIOUS
  <2> QED BY <2>1 DEF RunBefore
<1>3. argv[p + 1 - (k + 1) - 1] # "script"
  BY <1>1 DEF RunBefore
<1> QED BY <1>1, <1>2, <1>3 DEF RunBefore

LEMMA NoRunAfter ==
  ASSUME NEW p \in Int, argv[p] # "script"
  PROVE  RunBefore(p + 1, 0)
<1>1. p + 1 - 0 - 1 = p OBVIOUS
<1>2. \A q \in p + 1 - 0 .. p + 1 - 1 : argv[q] = "script" OBVIOUS
<1>3. argv[p + 1 - 0 - 1] # "script" BY <1>1
<1> QED BY <1>2, <1>3 DEF RunBefore

(* Where the loop stands is read as an option; what it steps over is not.  *)
LEMMA OptionIsRead == ASSUME NEW p \in Nat, IsOption(p) PROVE ~Skipped(p)
<1> SUFFICES ASSUME Skipped(p) PROVE FALSE OBVIOUS
<1>1. PICK k \in 0 .. p - 2 : k % 2 = 0 /\ RunBefore(p, k)
  BY DEF IsOption
<1>2. PICK l \in 1 .. p - 2 : l % 2 = 1 /\ RunBefore(p, l)
  BY DEF Skipped
<1>3. k = l
  BY <1>1, <1>2, OneRun
<1> QED BY <1>1, <1>2, <1>3

LEMMA StepsOverName ==
  ASSUME NEW p \in Nat, IsOption(p), argv[p] = "script"
  PROVE  Skipped(p + 1)
<1>1. PICK k \in 0 .. p - 2 : k % 2 = 0 /\ RunBefore(p, k)
  BY DEF IsOption
<1>2. RunBefore(p + 1, k + 1)
  BY <1>1, RunGrows
<1>3. k + 1 \in 1 .. p + 1 - 2 /\ (k + 1) % 2 = 1
  BY <1>1
<1> QED BY <1>2, <1>3 DEF Skipped

LEMMA NextIsOption ==
  ASSUME NEW p \in Nat \ {0}, argv[p] # "script"
  PROVE  IsOption(p + 1)
<1>1. RunBefore(p + 1, 0)
  BY NoRunAfter
<1>2. 0 \in 0 .. p + 1 - 2 /\ 0 % 2 = 0 OBVIOUS
<1> QED BY <1>1, <1>2 DEF IsOption

LEMMA AfterNameIsOption ==
  ASSUME NEW p \in Nat, IsOption(p), argv[p] = "script"
  PROVE  IsOption(p + 2)
<1>1. PICK k \in 0 .. p - 2 : k % 2 = 0 /\ RunBefore(p, k)
  BY DEF IsOption
<1>2. RunBefore(p + 1, k + 1)
  BY <1>1, RunGrows
<1>3. p + 1 + 1 = p + 2 OBVIOUS
<1>4. CASE argv[p + 1] = "script"
  <2>1. RunBefore(p + 1 + 1, k + 1 + 1)
    BY <1>2, <1>4, RunGrows
  <2>2. k + 1 + 1 \in 0 .. p + 2 - 2 /\ (k + 1 + 1) % 2 = 0
    BY <1>1
  <2> QED BY <1>3, <2>1, <2>2 DEF IsOption
<1>5. CASE argv[p + 1] # "script"
  BY <1>3, <1>5, NextIsOption
<1> QED BY <1>4, <1>5

(* The options below the next position are those below this one, and this  *)
(* one itself.                                                             *)
LEMMA OneMorePassed ==
  ASSUME NEW S, CmdlineTypeOK, arg <= Len(argv), argv' = argv, argv[1] = "file",
         arg = 1 \/ IsOption(arg),
         \/ arg' = arg + 1
         \/ arg' = arg + 2 /\ argv[arg] = "script"
  PROVE  Passed(S)' = Passed(S) \cup {p \in {arg} : argv[p] \in S}
<1>1. arg \in Nat /\ Len(argv) \in Nat /\ arg \in 1 .. Len(argv)
  BY DEF CmdlineTypeOK
<1>2. OptionsAt(S)' = OptionsAt(S)
  BY DEF OptionsAt, Skipped, RunBefore
<1>3. arg \in OptionsAt(S) <=> argv[arg] \in S
  <2>1. arg = 1 => ~Skipped(arg)
    BY DEF Skipped
  <2> QED BY <1>1, <2>1, OptionIsRead DEF OptionsAt
<1>4. arg' = arg + 2 => arg + 1 \notin OptionsAt(S)
  <2>1. "script" # "file" OBVIOUS
  <2> QED BY <1>1, <2>1, StepsOverName DEF OptionsAt
<1>5. OptionsAt(S) \subseteq Nat
  BY <1>1 DEF OptionsAt
<1> QED BY <1>1, <1>2, <1>3, <1>4, <1>5 DEF Passed

LEMMA PassedStays ==
  ASSUME NEW S, argv' = argv, arg' = arg
  PROVE  Passed(S)' = Passed(S)
<1>1. OptionsAt(S)' = OptionsAt(S)
  BY DEF OptionsAt, Skipped, RunBefore
<1> QED BY <1>1 DEF Passed

LEMMA ParseInvInit == CmdlineInit => ParseInv
<1> SUFFICES ASSUME CmdlineInit PROVE ParseInv OBVIOUS
<1>1. PICK s \in SeqOf(Args, MaxArgs) : argv = <<"file">> \o s
  BY DEF CmdlineInit, Argvs
<1>2. s \in Seq(Args)
  BY CmdlineAssumption DEF SeqOf, CmdlineAssumption
<1>3. Len(argv) \in Nat /\ Len(argv) > 0 /\ argv[1] = "file"
  BY <1>1, <1>2
<1>4. arg = 1 /\ parsed = "no" /\ run_mode = "repl" /\ dumb_console = FALSE
  BY DEF CmdlineInit
<1>5. \A S : OptionsAt(S) \subseteq 1 .. Len(argv)
  BY DEF OptionsAt
<1>6. \A S : Passed(S) = {}
  BY <1>3, <1>4, <1>5 DEF Passed
<1>7. ModeSoFar /\ DumbSoFar
  BY <1>4, <1>6 DEF ModeSoFar, DumbSoFar
<1> QED BY <1>3, <1>4, <1>7 DEF ParseInv

LEMMA ParseInvStep ==
  ASSUME CmdlineTypeOK, ParseInv, ParseArg \/ ParseEnd
  PROVE  ParseInv'
<1>1. /\ Len(argv) \in Nat /\ arg \in Nat \ {0} /\ argv' = argv
      /\ Len(argv) > 0 /\ argv[1] = "file" /\ ModeSoFar /\ DumbSoFar
  BY DEF CmdlineTypeOK, ParseInv, ParseArg, ParseEnd
<1>2. CASE ParseEnd
  <2>1. UNCHANGED <<argv, arg, run_mode, dumb_console, reg_script_file>>
    BY <1>2 DEF ParseEnd
  <2>2. ModeSoFar' /\ DumbSoFar'
    <3>1. \A S : Passed(S)' = Passed(S)
      BY <2>1, PassedStays
    <3> QED BY <1>1, <2>1, <3>1 DEF ModeSoFar, DumbSoFar, Decides
  <2> QED BY <1>1, <1>2, <2>1, <2>2 DEF ParseInv, ParseEnd
<1>3. CASE ParseArg
  <2>1. /\ parsed = "no" /\ arg <= Len(argv) /\ ~ARG_LEFT
        /\ arg = 1 \/ IsOption(arg)
    BY <1>1, <1>3 DEF ParseArg, ParseInv, ARG_LEFT
  <2>2. \/ arg' = arg + 1 /\ argv[arg] # "script"
        \/ arg' = arg + 2 /\ argv[arg] = "script"
    BY <1>3, <2>1 DEF ParseArg, ScriptOption, ReplayOption, OtherOption
  <2>3. \A S : Passed(S)' = Passed(S) \cup {p \in {arg} : argv[p] \in S}
    BY <1>1, <2>1, <2>2, OneMorePassed
  <2>4. parsed' # "yes"
    BY <1>3, <2>1 DEF ParseArg, ScriptOption, CopyName, ReplayOption, OtherOption
  <2>5. IsOption(arg')
    <3>1. CASE arg' = arg + 1 /\ argv[arg] # "script"
      BY <1>1, <3>1, NextIsOption
    <3>2. CASE arg' = arg + 2 /\ argv[arg] = "script"
      <4>1. "script" # "file" OBVIOUS
      <4> QED BY <1>1, <2>1, <3>2, <4>1, AfterNameIsOption
    <3> QED BY <2>2, <3>1, <3>2
  <2>6. IsOption(arg)'
    BY <1>1, <2>5 DEF IsOption, RunBefore
  <2>7. DumbSoFar'
    <3>1. dumb_console' = (dumb_console \/ argv[arg] = "dumbconsole")
      BY <1>3, <2>1 DEF ParseArg, ScriptOption, ReplayOption, OtherOption, CmdlineTypeOK
    <3> QED BY <1>1, <2>3, <3>1 DEF DumbSoFar
  <2>8. ModeSoFar'
    <3>1. \A q \in Passed(DOMAIN ModeOf) : q \in Nat /\ q < arg
      BY <1>1 DEF Passed, OptionsAt
    <3>2. CASE argv[arg] \in DOMAIN ModeOf
      <4>1. run_mode' = ModeOf[argv[arg]]
        BY <1>3, <2>1, <3>2 DEF ParseArg, ScriptOption, ReplayOption, OtherOption, ModeOf
      <4>2. run_mode' = "script" /\ arg < Len(argv) => reg_script_file' = arg + 1
        <5>1. ModeOf[argv[arg]] = "script" => argv[arg] = "script"
          BY <3>2 DEF ModeOf
        <5> QED
          BY <1>3, <2>1, <4>1, <5>1
          DEF ParseArg, ScriptOption, CopyName, ReplayOption, OtherOption
      <4>3. PICK a \in 1 .. Len(argv) : a = arg
        BY <1>1, <2>1
      <4>4. Passed(DOMAIN ModeOf)' = Passed(DOMAIN ModeOf) \cup {a}
        BY <2>3, <3>2, <4>3
      <4>5. Decides(a)'
        BY <1>1, <3>1, <4>1, <4>2, <4>3, <4>4 DEF Decides
      <4> QED BY <1>1, <4>4, <4>5 DEF ModeSoFar
    <3>3. CASE argv[arg] \notin DOMAIN ModeOf
      <4>1. UNCHANGED <<run_mode, reg_script_file>>
        BY <1>3, <3>3 DEF ParseArg, ScriptOption, ReplayOption, OtherOption, ModeOf
      <4>2. Passed(DOMAIN ModeOf)' = Passed(DOMAIN ModeOf)
        BY <2>3, <3>3
      <4> QED BY <1>1, <4>1, <4>2 DEF ModeSoFar, Decides
    <3> QED BY <3>2, <3>3
  <2> QED BY <1>1, <2>4, <2>6, <2>7, <2>8 DEF ParseInv
<1> QED BY <1>2, <1>3

(* Whatever the order and the number of the options, the last one that     *)
(* selects a mode decides, and the name after -script is not one of them.  *)
THEOREM ModesAreRight == Spec => []LastModeWins
<1>1. Init => ParseInv
  BY ParseInvInit DEF Init
<1>2. LInv /\ ParseInv /\ [Next]_vars => ParseInv'
  <2> SUFFICES ASSUME LInv, ParseInv, [Next]_vars PROVE ParseInv' OBVIOUS
  <2>1. CmdlineTypeOK
    BY DEF LInv, TypeOK
  <2>2. CASE ParseCmdline
    BY <2>1, <2>2, ParseInvStep DEF ParseCmdline
  <2>3. CASE UNCHANGED cmdline
    <3>1. \A S : Passed(S)' = Passed(S)
      BY <2>3, PassedStays DEF cmdline
    <3>2. ModeSoFar' /\ DumbSoFar'
      BY <2>3, <3>1 DEF cmdline, ParseInv, ModeSoFar, DumbSoFar, Decides
    <3>3. IsOption(arg) => IsOption(arg)'
      BY <2>3 DEF cmdline, IsOption, RunBefore
    <3> QED BY <2>3, <3>2, <3>3 DEF cmdline, ParseInv
  <2>4. ParseCmdline \/ UNCHANGED cmdline
    BY DEF Next, Program, Ended, vars, main, Console_Init, Logging_Init, Config_Load,
       NVPlay_DetectOS, KeyPressed, PCI_BiosIsPresent, GPU_Detect, SaveClocks,
       SwitchClocks, NVPlay_Run, AutoexecEnds, ScriptEnds, ReplEnds, Command,
       CommandHangs, Kernel_Main, NVPlay_Shutdown, Killed
  <2> QED BY <2>2, <2>3, <2>4
<1>3. ParseInv /\ LInv => LastModeWins
  <2> SUFFICES ASSUME ParseInv, LInv, parsed = "yes" PROVE LastModeWins
    BY DEF LastModeWins
  <2>1. Len(argv) \in Nat /\ arg \in Nat /\ arg > Len(argv)
    BY DEF LInv, TypeOK, CmdlineTypeOK, ParseInv
  <2>2. \A S : Passed(S) = OptionsAt(S)
    BY <2>1 DEF Passed, OptionsAt
  <2> DEFINE chosen == OptionsAt(DOMAIN ModeOf)
             last   == CHOOSE p \in chosen : \A q \in chosen : q <= p
  <2>3. ASSUME chosen # {}
        PROVE  /\ run_mode = ModeOf[argv[last]]
               /\ run_mode = "script" /\ last < Len(argv)
                    => reg_script_file = last + 1
    <3>1. PICK p \in 1 .. Len(argv) : Decides(p)
      BY <2>2, <2>3 DEF ParseInv, ModeSoFar
    <3>2. p \in chosen /\ \A q \in chosen : q <= p
      BY <2>2, <3>1 DEF Decides
    <3>3. \A q \in chosen : q \in Nat
      BY <2>1 DEF OptionsAt
    <3>4. last \in chosen /\ \A q \in chosen : q <= last
      BY <3>2
    <3>5. last = p
      <4>1. p <= last /\ last <= p /\ p \in Nat /\ last \in Nat
        BY <3>2, <3>3, <3>4
      <4> HIDE DEF last
      <4> QED BY <4>1
    <3> QED BY <3>1, <3>5 DEF Decides
  <2>4. chosen = {} => run_mode = "repl"
    BY <2>2 DEF ParseInv, ModeSoFar
  <2>5. dumb_console = (OptionsAt({"dumbconsole"}) # {})
    BY <2>2 DEF ParseInv, DumbSoFar
  <2> QED BY <2>3, <2>4, <2>5 DEF LastModeWins
<1> QED BY <1>1, <1>2, <1>3, LifecycleInvariant, PTL DEF Spec

-----------------------------------------------------------------------------
(* Refinement                                                              *)

LEMMA SessionStep == LInv /\ [Next]_vars => [Session!Next]_(Session!vars)
<1> SUFFICES ASSUME LInv, [Next]_vars PROVE [Session!Next]_(Session!vars) OBVIOUS
<1> USE DEF Session!vars, Checking, Running, Goto, Shutdown, setup, card
<1>l. /\ pc \in Checking => hal = "none"
      /\ pc \in Running => hal \in Hals
      /\ hal = "none" => ~initialised
      /\ hal # "none" /\ pc = "shutdown" => initialised
      /\ hal \in SavesClocks /\ pc = "shutdown" => saved = "boot"
  BY DEF LInv, NoCardYet, CardFound, Initialised, Undisturbed, BootSaved
<1>n. "none" \notin Hals /\ "none" \notin SavesClocks /\ SavesClocks \subseteq HasShutdown
  BY DEF Hals, SavesClocks, HasShutdown
<1>1. CASE ParseCmdline
  BY <1>1, <1>l, <1>n DEF ParseCmdline, Session!Next, Session!Die
<1>2. CASE Console_Init \/ Logging_Init \/ Config_Load \/ NVPlay_DetectOS
  BY <1>2 DEF Console_Init, Logging_Init, Config_Load, NVPlay_DetectOS
<1>3. CASE PCI_BiosIsPresent \/ KeyPressed
  BY <1>3 DEF PCI_BiosIsPresent, KeyPressed
<1>4. CASE GPU_Detect
  BY <1>4, <1>l, <1>n DEF GPU_Detect, Session!Next, Session!Find
<1>5. CASE SaveClocks \/ NVPlay_Run
  BY <1>5 DEF SaveClocks, NVPlay_Run
<1>6. CASE SwitchClocks \/ Command
  BY <1>6, <1>l, <1>n DEF SwitchClocks, Command, Clocks, Session!Next, Session!Use
<1>7. CASE AutoexecEnds \/ ScriptEnds \/ ReplEnds \/ CommandHangs
  BY <1>7 DEF AutoexecEnds, ModeRuns, ScriptEnds, ReplEnds, CommandHangs
<1>8. CASE Kernel_Main
  BY <1>8, <1>l, <1>n DEF Kernel_Main, Session!Next, Session!Die
<1>9. CASE NVPlay_Shutdown
  <2>1. clock' = IF hal \in SavesClocks THEN "boot" ELSE clock
    BY <1>9, <1>l, <1>n DEF NVPlay_Shutdown
  <2>2. CASE pc' = "killed"
    BY <1>9, <2>1, <2>2, <1>n DEF NVPlay_Shutdown, Session!Next, Session!Die
  <2>3. CASE pc' = "exited"
    BY <1>9, <2>1, <2>3, <1>n
    DEF NVPlay_Shutdown, Session!Next, Session!Finish, Session!Refuse
  <2> QED BY <1>9, <2>2, <2>3 DEF NVPlay_Shutdown
<1>10. CASE Killed
  BY <1>10, <1>l, <1>n DEF Killed, Over, Session!Next, Session!Die
<1>11. CASE UNCHANGED vars
  BY <1>11 DEF vars, main
<1> QED
  BY <1>1, <1>2, <1>3, <1>4, <1>5, <1>6, <1>7, <1>8, <1>9, <1>10, <1>11
  DEF Next, Program, Ended

(* One run of the program is a session as GpuSession promises it.          *)
THEOREM ImplementsSession == Spec => SessionSpec
<1>1. Init => Session!Init
  BY DEF Init, Session!Init, SavesClocks
<1> QED
  BY <1>1, LifecycleInvariant, SessionStep, PTL DEF Spec, SessionSpec, Session!Spec
=============================================================================
