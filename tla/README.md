# NVPlayground in TLA+

NVPlayground (NVPlay) is a DOS program that explores old graphics cards: it finds a supported PCI
card, maps its apertures, and lets its user read and write the card from a prompt (the REPL), from
script files, or from a small "resource manager" that brings the card's engines up. This directory
holds TLA+ modules of its control logic, TLC runs that check them on small instances, and TLAPS
proofs of what should hold for every value of the constants.

Paths below are relative to the program's source directory `src/`, unless they begin with `docs/`.

## 1. The system

NVPlay is a single thread under DOS. What makes it hard is not parallelism but *state that
outlives its use*: static buffers and cursors shared by successive and nested calls, a hardware
register that must be back in its first state whichever exit the program takes, unsigned loop
variables, and a long chain of refusals before anything works.

| Component | Source | State it keeps | Operations | Talks to |
|---|---|---|---|---|
| Lifecycle | `main.c` | run mode, exit code, `current_device.initialised` | `NVPlay_Init`, `NVPlay_Run`, `NVPlay_Shutdown` | everything |
| Command line | `core/core_cmdline.c` | `command_line` | `NVPlay_ParseCmdline` | sets the mode for `main` |
| Detection | `core/core_detect.c`, `core/pci/pci.c`, `core/gpu/gpu_list.c` | `os_level`, `current_device` | `NVPlay_DetectOS`, `PCI_BiosIsPresent`, `GPU_Detect` | may refuse to go on |
| HAL table | `architecture/nvidia/kernel/nv_generic_hal.c` | none | which family has which function | Lifecycle, Kernel |
| GPU init/shutdown | `architecture/*/*_core.c` | segments and their limits, what the card is, amount of memory, saved clock coefficients and selection | `*_Init`, `*_Shutdown` | PCI, DPMI, card |
| Kernel | `architecture/nvidia/kernel/**`, `architecture/nvidia/nv4/nv4_{fifo,graph,intr}.c` | `kernel_gpu`, PFIFO and PGRAPH registers | `Kernel_Main`, `Kernel_SetState`, `Kernel_Fatal` | `NVPlay_Shutdown` on failure |
| REPL and input | `core/gpu/gpu_repl.c`, `core/console/console_input.c` | the line buffer, the history, its cursor and maximum, a static "last call succeeded" flag | poll, arrow keys, evaluate | script runner |
| Script runner | `core/script/script_parser.c`, `util/util_string.c` | the line buffer, open files, statics of `strtok` | `NVPlay_RunScript`, `NVPlay_RunScriptCommand` | itself (recursion), the commands |
| Card commands | `core/script/script_commands.c`, `core/gpu/gpu_io.c`, `core/pci/pci.c` | loop variable, selectors | single and range accesses of MMIO, VRAM, RAMIN, PCI configuration | the card |
| VGA registers | same two files | on the card: index latches, the attribute flip-flop, the registers | CRTC, sequencer, graphics, attribute, single and range; port reads and writes | the card |
| Configuration | `config/config.c`, `util/util_ini.c` | `config`; linked lists of sections and entries | read, find, get, set, delete, rename, write | Lifecycle |
| Logging | `util/util_logging.c` | the log file, where messages go | open, write, close | Lifecycle, console |
| Console | `core/console/console_core.c` | curses: the cursor and what stands where | echo and erase a character, print a line | REPL, logging |
| Tests and dumps | `core/tests/`, `*_tests.c` | the dump buffer, files on disk | loops over the apertures | the segments, the card |
| Tables, help | `*_class_names.c`, `nv3_mode_table.c`, `*_help.c` | constants | none | none |

`PROJECT.json` lists the same components with their status, and under `hazards` what in this code
is hard to test, each at its line with the property that covers it.

### Hard behaviours, and what makes each component correct

* **REPL.** Lines are recorded *at the cursor* the user browses with, then the cursor advances,
  then a full array is shifted. Correct: the cursor stays on the array and never past the newest
  line, the newest line is right behind the cursor also after a shift, no line is lost that was
  not overwritten at the cursor or the oldest. The input routine clears its buffer one call late,
  driven by a static flag, while the evaluator has already cut the same buffer with `strtok`.
  Correct: what is evaluated is what has been typed, and Enter is answered.
* **Console.** The screen is a second copy of the line, kept by moving the cursor from wherever it
  stands; history and messages are printed in between. A key is cut to a `char` before it is
  echoed, and a text is handed to `printw` as its format. Correct: what will be evaluated can be
  seen, and erasing stops at the prompt.
* **Lifecycle.** Seven exit codes and sudden death at any point. Correct: the clock selection the
  HAL saved is back after `exit()`, whatever ran in between; the exit code tells the truth; a run
  that only shows help or refuses the operating system leaves the card alone.
* **Kernel.** Bring-up with failure at each engine. Correct: success means both engines are up.
* **Script runner.** Recursion with shared statics, files never closed, a loop that tests `feof`
  before `fgets`. Correct: every line once and in order, recursion bounded, termination.
* **Commands.** Bounds tests at the two ends of a range, 32-bit wrapping, alignment tested before
  an address is cut to 16 bits. Correct: a range touches what was asked and nothing else, and
  ends.
* **Bring-up.** BARs are read before they are programmed; nobody looks at a failed mapping; the
  clocks are read, their source is switched, which may disturb them, and they are written back.
  Correct: a card that has come up runs at the clocks it had at boot, and the segment covers it.
* **VGA registers.** Each takes two to four port accesses, through latches and a flip-flop that
  port commands leave in any state; an index is a `uint8_t` and the loop variable is not. Correct:
  a function reads and writes the register it names, and no other.
* **Configuration.** Lists in which a name may stand twice, a sort hidden in a function that
  deletes, getters that alter what they read. Correct: lookups change like a map.
* **Dumps.** A file is written block by block because the card may lock up; the last block is
  written in an extra round of the loop; parts of an NV3 must not be read. No result of `fwrite`
  is looked at. Correct: a dump is the BAR, word by word, and a crash costs one block, as long as
  the disk has room.

## 2. Modules and how they correspond to the code

```
Hal ---> Kernel --+                                        Repl ---> ReplProofs --+
                  +--> Lifecycle ---> LifecycleProofs       +---> Screen ---> ScreenProofs
        Cmdline --+       |                                Script ---> ScriptProofs
                          +-- implements GpuSession        Commands ---> CommandsProofs
Hal ---> Bringup ---> Dumps ---> DumpsProofs                +---> MCCommands (TLC)
                        +---> MCDumps (TLC)                Vga -- implements RegisterFile
Ini -- implements Settings                                  +---> VgaProofs, MCVga (TLC)
 +---> IniProofs, MCIni (TLC)
```

`PROJECT.json` "map" gives the lines each definition stands for. The parts are composed in
`Lifecycle`, where `Cmdline` and `Kernel` run step by step. There the script runner, the REPL and
the commands appear as one action (`Command`: any change of the clock selection) and an end;
`Script`, `Repl`, `Commands`, `Vga` and `Dumps` model them in detail. The HAL's init function,
three steps in `Lifecycle`, is the subject of `Bringup`. That `ScriptEnds` may be taken in
`Lifecycle` under weak fairness rests on the liveness property `ScriptEnds` of `Script`, in which
a command is one step; a command that does not return (a range with an end near 2^32, see
`Commands`) is `CommandHangs`. No fairness makes the user leave the REPL or press a key.

* **Repl.** One action per outcome of a call of `Input_GetStringAndChar` (`Ignore`, `Backspace`,
  `TypeChar`, `Enter`, `Browse`), `ReadLine`/`ReadEOF` for the `fgets` of the dumb console, and
  `Eval` for the rest of the loop body with the dispatch. A line is its serial number and its
  length. Keys are told apart by what is left of them when they are cut to a `char`: one column, a
  control byte that is echoed in two, or no byte. (ALT, CTL and keypad keys count as printable.)
  `command_history`, `command_history_id` and `command_history_id_max` are the C variables; id -1
  is a real outcome of the code's clamps: a slot outside the array is a nondeterministic choice
  between going on and dying. `formats` are the lines that hold a directive of `printf`: where the
  console prints one, `pc` may become "garbled", and nothing is said of what follows (`Garbling`).
  `typed` and `ran` are ghosts.
* **Screen.** `Repl` with its console, which is what TLC runs: every action of the polling loop
  together with what it does to the screen (`Echo`, `Erase`, `Announce`, and `Console_PushLine`
  for history). Of the screen it keeps the cursor's column (`col`), where the user's text begins
  in the cursor's row (`left`), how many columns what was typed takes up (`shown`), whether the
  line has left the row it began in (`adrift`) and whether every key took one column (`plain`, a
  ghost). How far a printed text moves the cursor is left open, so no property depends on wording.
  That curses refuses to move to column `COLS` is taken from `external/pdcurses`.
* **Cmdline.** One step per argument: `ScriptOption`, `ReplayOption`, `OtherOption`. `ARG_LEFT` is
  the macro as written; copying `argv[argc]` gives a fault or junk.
* **Kernel**, **Hal.** One action per subsystem and state of `Kernel_SetState`, and the table of
  which family provides which function.
* **Lifecycle.** One action per stage of `NVPlay_Init`, `NVPlay_Run` and `NVPlay_Shutdown`.
  Interrupts the program issues (DOS version, PCI BIOS, detection) are nondeterministic answers.
  Of the card it keeps PRAMDAC's clock selection, the one register that the code itself writes
  back. `SaveClocks` and `SwitchClocks` are two steps so that a kill may come in between. Under
  Windows NT `NVPlay_DetectOS` waits in `getchar` for a key (`KeyPressed`) before the program
  gives up.
* **GpuSession.** What the program promises the card's owner, in four values and three variables;
  `Lifecycle` is shown to implement it.
* **Script.** The C stack is a sequence of calls; a line is a sequence of tokens, with a mark when
  the newline still sticks to the last one (`String_RTrim` never trims). `CheckVersion`,
  `ReadLine`, `EndOfScript` and `NVPlay_RunScriptCommand` (comment, unknown, executed, nested) are
  the steps. A line that is run is logged first, and one with a `%n` in it may be the end of the
  program there (`GarblesLog`).
* **Commands.** `Single`, `Range`, `Loop`, `Done`. The constants scale 2^32, 2^16 and 16 MB down;
  operands go through `strtol`'s clamping. `touched` is a ghost: the addresses a command reached
  *on the card* after the checks, the wrappers and the BIOS.
* **Vga.** A `VGA_` function *is* the sequence of port accesses it makes (`VGA_WriteAttribute`
  ...); a command is begun by one action and goes on by `Access`, one port access a step. The
  card's side, latches, flip-flop and the place of the CRTC's ports, is `Respond` and `Answer`,
  taken from how VGA hardware is used here. What a read of port 3C2 tells the functions
  (`status0`) need not be where the CRTC is (`colour`): that port reads back another register than
  it writes. `Reliable` names the functions that do what they say. A range command keeps its third
  operand (`operand`), though the code writes the second (`RangeValue`). `done`, a ghost, is the
  register operation just completed.
* **RegisterFile.** Named groups of byte registers: a write sets the one it names, a read answers
  with it. Port commands are `DirectAccess`, about which nothing is promised.
* **Ini.** One action per call of the library that changes state, the loops over lists being
  functions. A name is its rank in `strcmp`'s order; a text is what the code tells apart in it:
  numbers as the setters print them, a few words for quotes, commas and truth values. A double is
  printed with `%lg`, so as the nearest number that has six digits (`Doubles`, `Rounded`).
  `AddLine` is the parser's effect of one line; `Sorted` is the pair of nested loops in
  `delete_section_if_empty`, exchange by exchange. Both loops are recursive functions of how far
  they have come, which is the form that can be proved about. `FilesAssumption` says that a file
  is a sequence of the lines `Ini` tells apart. These are the pieces that `fgets` hands over, 1023
  bytes at most. Names are shorter than 128 bytes: longer ones overflow the parser's buffers
  (`util_ini.c:373`), and nothing is said of them.
* **Settings.** A map from section and name to text. Two flags tell whether sections or names
  stand twice; what a call promises depends on them.
* **Bringup.** `GPU_Detect` goes through `supported_devices` entry by entry; `Map`, `Identify`,
  `SaveClocks`, `SwitchClocks` and one `ProgramClock` per coefficient are the stages of the init
  functions, with what each family does differently. `dpmi` says whether the host maps anything.
  `Dies` may come anywhere. Table entries name the ids of `gpu.h` (`PCI_DEVICE`).
* **Dumps.** `runtest` on the card `Bringup` has found: one step per round of `NV_DumpMMIO`'s
  loops, with the loop variable, the buffer with the heap behind it, and the files. The disk may
  fill up at any block (`Write`): then a part of the block is kept, nothing after it, and the loop
  goes on. That nobody makes room while a dump runs, and that what `fflush` has handed over
  survives a death of the program, is assumed. `beyond` is a ghost: which of segment and buffer
  was left. `BootAssumption` is what `gpu.h` says of real cards: `NV_PMC_BOOT_0` names the
  generation that the PCI id does. It holds of the machines the runs use, and is needed only for
  what a dump contains: with a card that contradicted its own id, `NV_DumpMMIO` would choose the
  loop of another generation.

## 3. The runs

| Run | Bounds | Distinct states |
|---|---|---|
| `Screen_run` | buffer of 4, history of 3, 3 characters a line, 4 lines, 3 columns, 4 columns' worth of typing on the screen | 702 969 |
| `Lifecycle_run` | up to 3 arguments after the program's name | 496 723 |
| `Script_run` | 2 files, 3 handles, 3 lines on the disk | 474 449 |
| `Commands_run` | 2^32 -> 256, 2^16 -> 32, 16 MB -> 16, config space 8, memory 8 or 32, 7 operands | 57 516 |
| `Vga_run` | 2^32 -> 16, 2^8 -> 4, operands 0, 1, 2, 15, 5 ports, 2 commands | 297 060 |
| `Ini_run` | every file of up to 4 lines out of 7, 2 sections, 3 names, radix 2, doubles of two digits to the base 3, 2 calls | 73 390 |
| `Dumps_run` | 14 machines, a megabyte of 4 bytes, blocks of 16 bytes, 2 tests | 6 471 030 |

**Why the bounds are enough.** A history of 3 is filled by three lines, and the third and the
fourth shift it; a line buffer of 4 can be filled exactly by 3 characters. On rows of three
columns a line of three characters passes the edge wherever it begins; four columns let one more
character be typed after an erasure that has failed, and hold two keys that are echoed in two
columns. Three arguments hold an option with its file name and another option before or after it,
or three competing modes. Two script files and three handles let a file call itself, the two call
each other, and `fopen` fail in the middle of a script; three lines put a call before, between and
after commands. The operands of `Commands` lie below zero, at 0, unaligned, one below, at and
beyond the aperture, and above `LONG_MAX`; the memory sizes are below and above the aperture, so
that each branch of the BAR1 size is taken. Two commands of `Vga` are one that leaves latches and
flip-flop somewhere and one that works with them; a range up to 15 over four registers goes round
more than three times; the ports are those where a wide access meets an index port with its data
port, the attribute port, or the flip-flop's reset. Four lines of an ini file hold an entry above
the first header, two entries of one name and a section that is there twice; the first call loads,
the second acts on what was loaded, and 5 and 14 fit and do not fit the shorter forms; as a
double, 5 is kept and 14 is rounded. The machines of `Dumps` are a card of each family alone,
without addresses, or in front of another; BAR0 is 4 blocks, so that the first, a middle and the
last, extra flush differ, and excluded areas begin and end inside and at the edge of blocks.

**What the runs show**

* `Screen_run`, of the REPL with its console: the cursor stays on the array, not past the newest
  line, with nothing behind it (`HistoryInOrder`); the last line is always one step up
  (`LatestBehindCursor`); a line is lost only where the code means it (`ForgetsOnlyOldest`); after
  two lines, no key makes the program index the array outside its bounds
  (`TwoLinesKeepIndexInArray`: before that, arrow keys do, with cursor -1; what `printw` makes of
  the recorded text is not part of it); the line evaluated has the bytes of the keys typed
  (`LineIsWhatWasTyped`); Enter is answered unless the line fills the buffer (`EnterIsAnswered`);
  what will be evaluated can be seen, and in the row where the line began nothing else, as long as
  the keys took one column each (`ShownAsTyped`); Backspace never comes to the left of the user's
  text (`PromptStays`). In later rows there may be more to see than the line has: see
  `BackspaceDeletes` below.
* `Lifecycle_run`: `LastModeWins` (against a reference reading of the whole command line),
  `ClockGivenBack`, `HandsOff`, `ExitCodeTells`, the refinement `SessionSpec`, and `ComesToAnEnd`:
  a run may stay in the REPL, at the key press under NT, and in a command that does not return,
  and nowhere else.
* `Script_run`: `DepthWithinHandles`, `EveryLineRuns`, `NoCommandTwice`, `ScriptEnds`.
  `ScriptEnds` is about the runner: a command counts as one step, also one whose range does not
  end. `EveryLineRuns` excepts the scripts whose accepted version check leaves the file position
  at the end, none of whose lines are run but what the check left in the buffer. `NoCommandTwice`
  is about commands with parameters: one that takes none, or whose count is missing from the table
  (`rrc32`), does run again at the end of a file that ends in a newline.
* `Commands_run`: `RangeIsWhatWasAsked`, `EndPointsSuffice`, `ConfigAligned`, `RangesEnd`.
  `RangesEnd` excepts ends within one step of 2^32, where the code's loop does not end.
* `Vga_run`: the functions in `Reliable` implement `RegisterFile` whatever port commands have left
  behind (`Files`); a range writes one byte to every register it names and leaves the others as
  they were, also where an index wraps (`RangeFills`; which byte is `RangeWritesItsValue`, below);
  registers past a group's last are left alone (`StaysInGroup`); every command returns
  (`CommandsReturn`). `Reliable` leaves out `VGA_WriteGraphics`, `VGA_ReadCRTC`, `VGA_WriteCRTC`
  with colour, and the CRTC and attribute functions when they are told the wrong place: these are
  findings.
* `Ini_run`: lookups in the lists implement `Settings` (`KeepsSettings`: each call changes the
  lookups at its keys only; which text a setter leaves is `ReadsBack`); the hidden sort sorts and
  loses nothing (`SortsEntries`); getters read what setters stored, if the value fits the form: a
  double of more than six digits does not (`ReadsBack`); after reading a file a lookup gives the
  first entry below the first header (`FindsFirst`).
* `Dumps_run`: the clocks are those of boot once the card is up and after shutdown (`ClocksKept`);
  a dump holds the BAR word by word but for the excluded areas, and one of an NV3 or later that
  says it succeeded is complete unless the disk has filled up (`DumpIsTheBar`); a death costs one
  block as long as the disk has room (`CrashLosesOneBlock`).

**Runs that end in a counterexample.** Each checks one sentence of the repository, and what the
code does contradicts it; the details are in `PROJECT.json` "findings".

| Run | What it shows |
|---|---|
| `Script_calls` | `runscript f` looks for a file whose name ends in a newline. |
| `Commands_bounds` | The bounds checks refuse what is inside and pass what is outside. |
| `Vga_graphics` | A write to a graphics register lands in the CRTC. |
| `Dumps_bounds` | On an NV5 or NV1x the dump of BAR1 leaves its buffer or its segment. |
| `Dumps_relocated` | A card that is given its address at start-up is mapped at the address it had before: 0. |

More disagreements were met while modelling and have no run of their own. Those that are stated as
properties can be reproduced by naming the property in a copy of the cfg:

| Property | In | What the code does |
|---|---|---|
| `EveryLineIsAnswered` | `Repl` | A line that fills the buffer swallows every later key. |
| `BackspaceDeletes` | `Screen` | At a row's first column Backspace shortens the line and leaves the screen as it is. |
| `TextIsPrinted` | `Repl` | A text with a `%` in it is handed to `printw` as its format. |
| `EveryTurnReadsALine` | `Repl` | At the end of the input, the dumb console runs the previous line's first word for ever. |
| `ResetOnInit` | `Lifecycle` | The kernel reports success though PGRAPH has not been reset. |
| `MissingFileIsRefused` | `Cmdline` | `-script` as the last argument is not refused. |
| `TestsOfTheCard` | `Lifecycle` | Tests are chosen by the card before the card is known. |
| `RefusedForNewer` | `Script` | A script for an older version is told that it needs a newer one. |
| `RangeWritesItsValue` | `Vga` | The ranges write their end, not the third operand the help asks for. |
| `InvalidIsIgnored` | `Vga` | `wsrrange` warns about an invalid index and goes on. |
| `WritesTheConfiguration` | `Ini` | `ini_write` prints an uninitialised buffer where names belong. |
| `NV1DumpIsComplete` | `Dumps` | The dump of an NV1 lacks its last block. |
| `SuccessIsComplete` | `Dumps` | On a full disk a dump is short and says it succeeded. |

The rest are visible in one definition: `NV_WriteRamin32` serves fewer chips than `NV_ReadRamin32`
(`HasRamin`), `Command_ReadMMIOConsole8` reads no register (`ReadsNothing`), `VGA_ReadCRTC` never
writes the index, a double is stored with six digits (`Rounded`), the dumps of RAMFC, RAMRO and
RAMHT leave their arrays (`NVGeneric_DumpText`), and the generation of NV1 and NV3 is computed
wrong (`BaseLocation`). A name of 128 bytes or more in a file overflows the parser's buffers,
which `Ini` leaves out.

**Fairness.** The program is one thread that polls or computes, so weak fairness of its own steps
is justified: `Program` in Lifecycle, `Interpret` in Script, `Loop \/ Done` in Commands, `Access`
in Vga, `DumbRead` and `Evaluate \/ DumbEval` in Screen. `Program` leaves out `Command`,
`CommandHangs`, `KeyPressed` and the end of the REPL: a command that does not return is never
brought back, and no key need ever be pressed. `WF_svars(Look("enter"))` is about the user: *if*
he keeps pressing Enter. Without it there is nothing to answer. No fairness is put on commands, on
faults or on starting a script.

**Deadlock** is checked in the runs of `Screen`, `Lifecycle` and `Script`. It is not in those of
`Commands` and `Dumps`, where a program that an access beyond a segment has killed, or that has
exited, has no step left, nor in those of `Vga` and `Ini`, which end when the bound on commands or
calls is reached.

## 4. The proofs

All theorems hold for every value of the constants that the named assumptions allow.

* **ReplProofs** (`ReplAssumption`: a history of at least two slots, a buffer of at least two
  bytes). The inductive invariant `IInv` is the conjunction of `TypeOK`, `CursorInHistory`,
  `CursorWithinMax` and `EmptyAboveMax`: the clamps of the arrow keys are right only for a maximum
  within the array, the recording step keeps the maximum there only for a cursor at or below it,
  and slots above the maximum stay empty only if nothing is recorded beyond it. From it:
  `TypeCorrect`, `HistoryIsInOrder`, and, with the step that records a line expanded, the action
  properties `LatestLineKept`, `OnlyOldestForgotten` and `IndexStaysInArray`. `LineIsTyped` rests
  on `TypedInv`: between two lines the buffer holds what was typed, or is about to be cleared,
  because the call that completed the line has raised the flag.
* **ScreenProofs** (`ScreenAssumption`: at least two columns). `ScreenIsARepl` is a refinement:
  every step is one of `Repl` or leaves its variables alone, so `ReplProofs` holds of the two
  together. `InStep` is what the properties rest on: in the row where the line began the cursor
  stands as many columns right of its beginning as what was typed takes up, and these are never
  fewer than the line has characters, which is why `Console_PopChar` can only erase what was
  typed; in a later row the text begins at the edge, where the cursor stops by itself. They are
  exactly as many while every key took one column (`plain`). That `Line` speaks of the buffer
  *after* the pending clearing needs `ClearedNext`: a line is evaluated only after the flag was
  raised. From these: `ScreenTypes`, `LineCanBeSeen`, `PromptIsSafe`.
* **LifecycleProofs** (`CmdlineAssumption`). `LInv` says, stage by stage, what has not happened
  yet: no card before `GPU_Detect`, clocks undisturbed up to the switch, "boot" saved from
  `SaveClocks` on for the families that save it, `initialised` from `NVPlay_Run` on. `CodeInv`
  ties the exit code to the kernel's position. From these: `TypeCorrect`, `ClocksReturned`,
  `Refusing`, `ExitCodeIsRight`, and `ImplementsSession`: every run is a run of `GpuSession`
  (initial states map to initial states, each action to a step or a stutter). `ClockGivenBack`
  needs `initialised` at every exit after the switch: that is where an added early exit between
  the HAL's init function and `NVPlay_Run` would break it. `ModesAreRight` proves `LastModeWins`
  for command lines of any length. `ParseInv` says what the loop owes the arguments before the one
  it looks at: the mode is that of the last option among them, where an argument is an option
  unless a `-script` before it has taken it as its file (`-replay` skips nothing). Which that is
  depends on how many `-script` stand in a row before it, an odd or an even number, and the lemmas
  about `RunBefore` say how that number changes when the loop goes on by one argument or by two.
* **ScriptProofs** (`ScriptAssumption`). `DepthInv`: the stack is a sequence no longer than the
  number of open files, which is at most `MaxHandles`; whence `RecursionIsBounded`. `CallInv` says
  of every call on the stack, the suspended ones included, how far it has come: `Progress` (the
  lines run are those read, or one fewer while a fresh one waits; the end of the file is seen only
  when all were read) and `Spent` (a line that has been executed stands in the buffer with its
  first token only). From these: `ScriptTypeOK`, `EveryLineIsRun` and `NothingRunsTwice`, for any
  number of files and any disk made of the model's kinds of lines.
* **CommandsProofs** (`CommandsAssumption`: `PciMod` a multiple of 4, `AddrMod` of 8 and at least
  16 apertures). `EndPointsAreEnough` follows from `AboveStart`: a checked range began above its
  bound and has not fallen below its start. That needs `NoWrap`: a segment ends far below 2^32, so
  an access that does not kill the program is far from where the loop variable wraps.
  `RangesAreWhatWasAsked` rests on `TouchedInv`: what has been accessed is the image of the range
  up to `offset`, or the loop variable has wrapped, and then it never reaches the end again.
  `ConfigAccessesAligned` rests on `CutStaysAligned`: cutting an aligned address to its low part
  leaves it aligned. `TypeCorrect` bounds the loop variable.

* **VgaProofs** (`VgaAssumption`: no relation but that an index is no wider than a loop variable).
  The inductive invariant is `TypeOK`, `CmdOK` (what fields a command of each group has), `AtOK`
  (the loop variable lies in the range, or the check has warned and gone on) and `Prepared`: for
  each reliable function, what its earlier accesses have left in the latch and the flip-flop by
  the time of the step that comes next. Without `Prepared` the last access of a function would
  reach any register. From it: `VgaTypeOK`, `VgaImplementsRegisterFile`, `VgaStaysInGroup`, and,
  with `Filled` (the registers the loop has passed, modulo the width of an index, hold the
  command's value, and all others are as before it), `VgaRangeFills`.
* **DumpsProofs** (`BringupAssumption`, `DumpsAssumption`: a megabyte and a block are multiples of
  4 and blocks divide the aperture). `ClockInv` says for each stage which coefficients are those
  of boot and which are kept: `DumpsClocksKept`. `BringInv`, `TestInv` and `LoopInv` give types
  and, for a running loop, that what is on the disk is not ahead of the loop variable and, as long
  as the disk has room, whole blocks and not more than one behind: `DumpsTypeOK`,
  `DumpsCrashLosesOneBlock`. `DumpsAreTheBar` uses `BootAssumption` besides. `FamilyInv` carries
  it from detection to the tests: the id read from the card belongs to the family of the table
  entry, so that the loop chosen by the id is the one of the card. `BarInv` says what buffer and
  files hold: each word of the buffer that `pos` has passed and each word of a file is the BAR's
  or the filler of an excluded area, as far as the aperture goes. The two come together at the
  last flush: a file of whole blocks, one block behind a loop variable that has reached the end,
  is complete after it, if the disk had room for each. Where it had not, what was kept is still a
  beginning of the BAR: nothing follows a block that was cut short.
* **IniProofs** (`IniAssumption`, `FilesAssumption`). Everything here is about loops over lists of
  any length. The library's induction theorems take an operator and cannot be used; `MinSpec`
  stands in for them: a set of numbers that is not empty has a least element, so a counterexample
  would be a least one, and the step up to it refutes it. `FindsTheFirst`: `Reads` ties the
  sections built from the first k lines to the headers and entries among them, and a lookup in
  them to the first entry below the first header. `TidyingSorts`: the loops compare all pairs, so
  round i puts the highest named entry of the whole list in place i (`Highest`) and, in passing,
  what stood there in its place among those before it: those stay in order (`Ordered`), as does,
  in the last round, the whole list. What is exchanged stays a permutation that moves no entry
  without a name (`Shuffled`). `SettersReadBack` goes form by form through what is printed and
  scanned. For a double, `RoundedSame` says that a number which `%lg` can write is the nearest one
  to itself; the hexadecimal forms need that a number below the form's power of the radix has no
  more digits than the form. `ImplementsSettings`: each call changes `Lookup` only at the keys
  that the call of `Settings` names, by lemmas on what appending to, deleting from and replacing
  in a list does to `Find`. `TypesHold` is the type invariant that all of them stand on.

**Only model-checked.** Liveness (`EnterIsAnswered`, `ComesToAnEnd`, `ScriptEnds`, `RangesEnd`,
`CommandsReturn`), which is out of the prover's reach. Every safety invariant, action property and
refinement that a passing run checks is also a theorem. The counterexamples of the runs that end
in one are TLC's alone.

## 5. What is not modelled

* *`nv3_explode`*: a hardware register nothing else uses. The commands that only print are in
  `Screen`, as any text.
* *Straps, power-up and interrupt enable in the init functions*: written or read once, used by
  nothing that is modelled.
* *The tests of single families* (NV1 password and garbage, overclocking, manufacture
  information): the configuration is read before the card is known, so none of them gets into the
  list that `runtest` searches. They are code that no run of the program reaches.
* *Interrupt handling of the kernel*: the loop that would service interrupts is never entered.
* *A configuration file that cannot be opened*: `ini_read` returns NULL and no state changes.
* *What garbled output does*: a text that `printw` takes for its format may do anything, and the
  models stop there. `Running script file %s` is given a `FILE *`; what is printed for it is taken
  for text.
* *Tables, help, wording, colours, log contents*: no control. `Console_Update`, `Console_Flush`,
  `Input_KeyDown` and `Input_ModState` are called from nowhere.
* What the card does with a value written to it is unknown to the program, and to the model.

## 6. Plan

Done: the modules above and their proofs. What would come next:

1. Refinement of Lifecycle's `Command`/`ScriptEnds` by `Script`, and of its three clock steps by
   `Bringup`, so that one theorem covers the composed program.
2. `Bringup` in front of `Commands`, so that the segments a range command works in are those that
   the init functions have set up.
3. That a segment never reaches beyond the card's aperture, as a theorem about `Bringup`, and from
   it the range properties of `Commands` for the segments of each family.
