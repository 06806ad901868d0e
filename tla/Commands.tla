------------------------------ MODULE Commands ------------------------------
(***************************************************************************)
(* The commands that read and write the card: MMIO, VRAM, RAMIN and PCI    *)
(* configuration space, one value at a time or over a range                *)
(* (core/script/script_commands.c), down to the far pointer accesses of    *)
(* core/gpu/gpu_io.c and the PCI BIOS calls of core/pci/pci.c.             *)
(*                                                                         *)
(* Addresses are the program's uint32_t; the constants scale them down.    *)
(* An access beyond a segment's limit kills the program.                   *)
(***************************************************************************)
EXTENDS Integers

CONSTANTS
  AddrMod,      (* 2^32                                                     *)
  PciMod,       (* 2^16, what the register DI holds                         *)
  Aperture,     (* NV_MMIO_SIZE = NV4_MMIO_SIZE = 16 MB                     *)
  ConfigSize,   (* bytes of PCI configuration space the BIOS serves         *)
  Vrams,        (* amounts of video memory that cards have                  *)
  Typed         (* the numbers that users type, negative ones included      *)

ASSUME CommandsAssumption ==
  /\ AddrMod \in Nat /\ PciMod \in Nat /\ Aperture \in Nat /\ ConfigSize \in Nat
  /\ Aperture > 0 /\ Aperture % 16 = 0
  /\ PciMod > 0 /\ PciMod % 4 = 0 /\ PciMod <= AddrMod
  /\ AddrMod % 8 = 0 /\ AddrMod >= 16 * Aperture
  /\ Vrams \subseteq 1 .. 8 * Aperture /\ Typed \subseteq Int

VARIABLES
  card,      (* current_device                                              *)
  cmd,       (* the command that is running, or ran last                    *)
  offset,    (* the loop variable of its range                              *)
  status,    (* "idle" before the first command, "running", "returned" true,*)
             (* "refused" by the bounds check, or the program is "dead"     *)
  touched    (* ghost: where the command's accesses went, on the card       *)

vars == <<card, cmd, offset, status, touched>>

-----------------------------------------------------------------------------
(* The card                                                                *)

(* NV5 stands for NV5 and NV6, NV1A for NV1A and NV1F.                     *)
Celsius == {"NV10", "NV1A"}
Chips   == {"NV1", "NV3", "NV4", "NV5"} \cup Celsius

(* map128: the setting NV10_AlwaysMapFullBAR1.                             *)
Cards ==
  {c \in [chip : Chips, vram : Vrams, map128 : BOOLEAN] :
     c.chip \notin Celsius => ~c.map128 /\ c.vram <= Aperture}

NV1_PCI_BAR0_SIZE == Aperture - 1

(* The limit of the segment behind bar0_selector.                          *)
Bar0Limit(c) == IF c.chip \in Celsius THEN 2 * Aperture - 1 ELSE Aperture - 1

(* Behind bar1_selector.  NV1 never sets it: the null selector.            *)
Bar1Limit(c) ==
  CASE c.chip = "NV1"       -> -1
    [] c.chip \notin Celsius -> Aperture - 1
    [] OTHER -> IF c.vram <= Aperture THEN 2 * Aperture - 1
                ELSE IF c.map128 THEN 8 * Aperture - 1 ELSE c.vram

RaminStart(c) ==
  CASE c.chip = "NV1" -> Aperture \div 16
    [] c.chip = "NV3" -> 3 * (Aperture \div 4)
    [] OTHER          -> 7 * (Aperture \div 16)

-----------------------------------------------------------------------------
(* The commands                                                            *)

Spaces == {<<"mmio", 1>>, <<"mmio", 4>>, <<"vram", 1>>, <<"vram", 2>>, <<"vram", 4>>,
           <<"ramin", 4>>, <<"pci", 1>>, <<"pci", 2>>, <<"pci", 4>>}

Ops == {[space |-> s[1], width |-> s[2], form |-> f] :
          s \in Spaces, f \in {"write", "read", "range"}}

(* strtol(text, NULL, 16): a 32-bit long, clamped, stored as uint32_t.     *)
Strtol(n) ==
  LET half == AddrMod \div 2 IN
  IF n >= half THEN half - 1 ELSE IF n < -half THEN half ELSE n % AddrMod

MmioMax(c) == IF c.chip = "NV1" THEN NV1_PCI_BAR0_SIZE ELSE Aperture

(* The two bounds checks: their callers go on if they answer TRUE.         *)
BoundsCheck(c, space, addr) ==
  addr >= IF space = "mmio" THEN MmioMax(c) ELSE c.vram

Checked(op) == op.space \in {"mmio", "vram"}

(* Mutant: only the end of a range is checked.                             *)
Refuses_ByEnd(c, op, start, end) == Checked(op) /\ ~BoundsCheck(c, op.space, end)
Refuses(c, op, start, end) ==
  /\ Checked(op)
  /\ ~BoundsCheck(c, op.space, start) \/ ~BoundsCheck(c, op.space, end)

(* Command_ReadMMIOConsole32 reads before it checks.                       *)
ReadsFirst(op) == op = [space |-> "mmio", width |-> 4, form |-> "read"]

(* Command_ReadMMIOConsole8 reads nothing: it prints its second operand.   *)
ReadsNothing(op) == op = [space |-> "mmio", width |-> 1, form |-> "read"]

-----------------------------------------------------------------------------
(* One access                                                              *)

(* NV_WriteRamin32 knows fewer cards than NV_ReadRamin32.                  *)
HasRamin(c, op) == op.form = "read" \/ c.chip \notin {"NV5", "NV1A"}

Segment(c, op) ==
  CASE op.space = "pci"  -> "config"
    [] op.space = "vram" -> "bar1"
    [] op.space = "ramin" /\ c.chip = "NV3" -> "bar1"
    [] OTHER -> "bar0"

(* The address on the card: RAMIN is a part of a segment, configuration    *)
(* space has 16 bits of address.                                           *)
Address(c, op, o) ==
  CASE op.space = "ramin" -> (RaminStart(c) + o) % AddrMod
    [] op.space = "pci"   -> o % PciMod
    [] OTHER              -> o

Limit(c, op) == IF Segment(c, op) = "bar0" THEN Bar0Limit(c) ELSE Bar1Limit(c)

Faults(c, op, o) ==
  /\ op.space # "pci"
  /\ op.space = "ramin" => HasRamin(c, op)
  /\ Address(c, op, o) + op.width - 1 > Limit(c, op)

(* Mutant: the wrappers leave alignment to the BIOS.                       *)
Arrives_Unaligned(c, op, o) ==
  /\ op.space = "ramin" => HasRamin(c, op)
  /\ op.space = "pci"   => Address(c, op, o) < ConfigSize
(* What the wrappers and the BIOS let through; the rest is only logged.    *)
Arrives(c, op, o) ==
  /\ op.space = "ramin" => HasRamin(c, op)
  /\ op.space = "pci"   => o % op.width = 0 /\ Address(c, op, o) < ConfigSize

Reached(c, op, o) ==
  IF Arrives(c, op, o) THEN {Address(c, op, o)} ELSE {}

-----------------------------------------------------------------------------
(* One command                                                             *)

NoCommand == [space |-> "none", width |-> 1, form |-> "none", start |-> 0, end |-> 0]

Init ==
  /\ card \in Cards
  /\ cmd = NoCommand /\ offset = 0 /\ status = "idle" /\ touched = {}

Given(op, start, end) ==
  cmd' = [space |-> op.space, width |-> op.width, form |-> op.form,
          start |-> start, end |-> end]

AtPrompt == status \notin {"running", "dead"}

(* The commands that access one address.                                   *)
Single(op, n) ==
  LET o        == Strtol(n)
      refused  == Refuses(card, op, o, o)
      accesses == ~ReadsNothing(op) /\ (refused => ReadsFirst(op))
      dies     == accesses /\ Faults(card, op, o)
  IN
  /\ AtPrompt /\ op.form \in {"write", "read"}
  /\ Given(op, o, o) /\ offset' = o
  /\ touched' = IF accesses /\ ~dies THEN Reached(card, op, o) ELSE {}
  /\ status' = IF dies THEN "dead" ELSE IF refused THEN "refused" ELSE "returned"
  /\ UNCHANGED card

(* The commands that write a range, up to its end.                         *)
Range(op, a, b) ==
  LET start == Strtol(a)
      end   == Strtol(b)
  IN
  /\ AtPrompt /\ op.form = "range"
  /\ Given(op, start, end) /\ offset' = start /\ touched' = {}
  /\ status' = IF Refuses(card, op, start, end) THEN "refused" ELSE "running"
  /\ UNCHANGED card

(* Mutant: the loop waits for the end itself.                              *)
More_NotEqual(c, o) == o # c.end
(* Mutant: the end is a part of the range.                                 *)
More_Inclusive(c, o) == o <= c.end
More(c, o) == o < c.end

(* Mutant: the loop variable has more than 32 bits.                        *)
After_Wide(c, o) == o + c.width
After(c, o) == (o + c.width) % AddrMod

Loop ==
  /\ status = "running" /\ More(cmd, offset)
  /\ IF Faults(card, cmd, offset)
       THEN status' = "dead" /\ UNCHANGED <<offset, touched>>
       ELSE /\ offset' = After(cmd, offset)
            /\ touched' = touched \cup Reached(card, cmd, offset)
            /\ UNCHANGED status
  /\ UNCHANGED <<card, cmd>>

Done ==
  /\ status = "running" /\ ~More(cmd, offset)
  /\ status' = "returned"
  /\ UNCHANGED <<card, cmd, offset, touched>>

Next ==
  \/ \E op \in Ops, n \in Typed : Single(op, n)
  \/ \E op \in Ops, a \in Typed, b \in Typed : Range(op, a, b)
  \/ Loop
  \/ Done

Spec     == Init /\ [][Next]_vars
(* Users need not type; a loop that has begun goes on by itself.           *)
FairSpec == Spec /\ WF_vars(Loop \/ Done)

-----------------------------------------------------------------------------
(* Properties                                                              *)

Addresses == 0 .. AddrMod - 1

GivenCommands == [space : {"mmio", "vram", "ramin", "pci"}, width : {1, 2, 4},
           form : {"write", "read", "range"}, start : Addresses, end : Addresses]

(* The variables have their types; the loop variable stays a uint32_t.     *)
TypeOK ==
  /\ card \in Cards
  /\ cmd \in GivenCommands \cup {NoCommand}
  /\ offset \in Addresses
  /\ status \in {"idle", "running", "returned", "refused", "dead"}
  /\ touched \subseteq Addresses

(* A range command that returns has accessed its range and nothing else:   *)
(* every width'th address from the first operand, the second excluded,     *)
(* less those that the wrappers and the BIOS turn away.  One whose end is  *)
(* so close to 2^32 that the loop variable wraps past it has no return.    *)
RangeIsWhatWasAsked ==
  (status = "returned" /\ cmd.form = "range") =>
    touched = UNION {Reached(card, cmd, o) :
                       o \in {o \in cmd.start .. cmd.end - 1 :
                                (o - cmd.start) % cmd.width = 0}}

(* Testing the two ends of a range is enough: at every address a checked   *)
(* range command has accessed the check would have answered as it did at   *)
(* the ends.                                                               *)
EndPointsSuffice ==
  (cmd.form = "range" /\ Checked(cmd)) =>
    \A a \in touched : ~Refuses(card, cmd, a, a)

(* Accesses to configuration space are aligned there, though the wrappers  *)
(* look at the address before its upper half is cut off.                   *)
ConfigAligned ==
  cmd.space = "pci" => \A a \in touched : a % cmd.width = 0

(* A range command comes to an end, unless the loop variable can wrap past *)
(* its end (offset < offset_end with a uint32_t offset).                   *)
RangesEnd ==
  (status = "running" /\ cmd.end <= AddrMod - cmd.width) ~> (status # "running")

(* "Error: Address %lx out of bounds!" says that the address is.  It is    *)
(* what the message of script_commands.c:30 claims; the program refuses    *)
(* the addresses inside.                                                   *)
RefusedIsOutOfBounds ==
  (status = "refused" /\ cmd.space = "mmio") =>
    cmd.start >= MmioMax(card) \/ cmd.end >= MmioMax(card)

=============================================================================
