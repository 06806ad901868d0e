------------------------------- MODULE Bringup -------------------------------
(***************************************************************************)
(* From the table of supported cards to a card that is ready for use:      *)
(* GPU_Detect (core/core_detect.c) and the init functions of the GPU       *)
(* families, which find the card's apertures, put a segment around each,   *)
(* read what kind of card it is, power it up and take over its clocks.     *)
(*                                                                         *)
(* Nothing here looks at a result: a segment that does not cover the card, *)
(* because its BAR was never programmed or the DPMI host would not map it, *)
(* is used like any other.  Sizes are scaled down by MB.                   *)
(***************************************************************************)
EXTENDS Integers, Sequences, Hal

CONSTANTS
  MB,        (* bytes of a megabyte                                         *)
  Machines,  (* sets of cards that may be in a machine                      *)
  Boots,     (* values that a read of NV_PMC_BOOT_0 may give                *)
  Rams       (* and a read of the register with the amount of memory        *)

(* programmed: the BIOS has given the card its addresses.                  *)
Card == [vendor : STRING, id : Nat, boot : Boots, ram : Rams, programmed : BOOLEAN]

ASSUME BringupAssumption ==
  /\ MB \in Nat \ {0} /\ Boots \subseteq Nat /\ 0 \in Boots /\ Rams \subseteq Nat
  /\ \A m \in Machines : m \subseteq Card

VARIABLES
  pc,          (* where GPU_Detect and the init function stand              *)
  machine,     (* the cards in the machine                                  *)
  dpmi,        (* the DPMI host maps physical addresses                     *)
  always_map,  (* the setting NV10_AlwaysMapFullBAR1                        *)
  entry,       (* of supported_devices, the one that is looked for          *)
  device,      (* the card found: bus_info, real_device_id                  *)
  bar0,        (* the card's BAR0 holds an address                          *)
  seg0, seg1,  (* what is behind bar0_selector and bar1_selector            *)
  boot_0,      (* current_device.nv_pmc_boot_0                              *)
  vram,        (* current_device.vram_amount                                *)
  pll,         (* the card: its clock coefficients                          *)
  source,      (* the card: the clock selection register                    *)
  kept,        (* current_device.vpll, mpll, nvpll                          *)
  saved        (* original_pll_setting                                      *)

found  == <<machine, dpmi, always_map, entry, device>>
mapped == <<bar0, seg0, seg1>>
kind   == <<boot_0, vram>>
clocks == <<pll, source, kept, saved>>
bringup == <<pc, found, mapped, kind, clocks>>

-----------------------------------------------------------------------------
(* The table                                                               *)

Entry(first, last, vendor, hal) ==
  [first |-> first, last |-> last, vendor |-> vendor, hal |-> hal]

(* The device ids the cards have.  "SGS" and "SGS-NV" are the vendors of   *)
(* NV1 and NV3 cards.                                                      *)
PCI_DEVICE ==
  [NV1_NV |-> 9, NV2 |-> 16, NV3 |-> 24, NV3T_ACPI |-> 25, NV4 |-> 32,
   NV5 |-> 40, NV5_CRAP |-> 44, NV6 |-> 45,
   NV10 |-> 256, NV10_DDR |-> 257, NV10_QUADRO |-> 259,
   NV11_MX400 |-> 272, NV11_GO |-> 274, NV11_QUADRO |-> 275,
   NV15 |-> 336, NV15_ULTRA |-> 338, NV15_QUADRO |-> 339,
   NV17_START |-> 368, NV17_END |-> 383, NV18_START |-> 384, NV18_END |-> 397,
   NV1A |-> 416, NV1F |-> 496, VIRGE_325 |-> 22065, CIRRUS_5446 |-> 184]

Of(id, vendor, hal) == Entry(PCI_DEVICE[id], PCI_DEVICE[id], vendor, hal)
From(first, last, vendor, hal) == Entry(PCI_DEVICE[first], PCI_DEVICE[last], vendor, hal)

supported_devices == <<
  Of("NV1_NV", "SGS", "nv1"),
  Of("NV1_NV", "NV", "nv1"),
  Of("NV2", "NV", "nv1"),
  From("NV3", "NV3T_ACPI", "SGS-NV", "nv3"),
  Of("NV4", "NV", "nv4"),
  From("NV5", "NV5_CRAP", "NV", "nv4"),
  Of("NV6", "NV", "nv4"),
  Of("NV10", "NV", "celsius"),
  Of("NV10_DDR", "NV", "celsius"),
  Of("NV10_QUADRO", "NV", "celsius"),
  From("NV15", "NV15_ULTRA", "NV", "celsius"),
  Of("NV15_QUADRO", "NV", "celsius"),
  From("NV11_MX400", "NV11_GO", "NV", "celsius"),
  Of("NV11_QUADRO", "NV", "celsius"),
  From("NV17_START", "NV17_END", "NV", "celsius"),
  From("NV18_START", "NV18_END", "NV", "celsius"),
  Of("NV1A", "NV", "celsius"),
  Of("NV1F", "NV", "celsius"),
  Of("VIRGE_325", "S3", "virge"),
  Of("CIRRUS_5446", "Cirrus", "alpine") >>

Fits(c, e) == c.vendor = e.vendor /\ e.first <= c.id /\ c.id <= e.last

hal == supported_devices[entry].hal

(* NV_PMC_BOOT_0 of each family: first and last stepping in gpu.h.  The    *)
(* first digit is the fab, which NV10's have to be compared without.       *)
NV_PMC_BOOT_NV1 == 65792 .. 65796                   (* 10100 .. 10104       *)
NV_PMC_BOOT_NV3(boot) == (boot % 1048576) \div 4096 = 48        (* ?30???, any fab *)
NV_PMC_BOOT_NV4 == 536887296 .. 537149441           (* 20004000 .. 20044001 *)
NV_PMC_BOOT_NV5 == 537935872 .. 539115520           (* 20104000 .. 20224000 *)
NV_PMC_BOOT_NV10_BASE == 16777216                   (* 1000000              *)
WithoutFab(boot) == boot % 268435456

(* Which family a card says it is.                                         *)
GPU_IsNV1  == boot_0 \in NV_PMC_BOOT_NV1
GPU_IsNV3  == NV_PMC_BOOT_NV3(boot_0)
GPU_IsNV4  == boot_0 \in NV_PMC_BOOT_NV4
GPU_IsNV5  == boot_0 \in NV_PMC_BOOT_NV5
GPU_IsNV10 == WithoutFab(boot_0) >= NV_PMC_BOOT_NV10_BASE

(* (real_device_id & ~8) >> 3, which is not the number in the cards' names:*)
(* 0 for NV1 and 2 for NV3.                                                *)
GPU_NV_GetGeneration ==
  IF GPU_IsNV10 THEN 16
  ELSE LET eights == device.id \div 8 IN eights - (eights % 2)

-----------------------------------------------------------------------------
(* Segments                                                                *)

NV_MMIO_SIZE == 16 * MB

NoDevice == [vendor |-> "none", id |-> 0, boot |-> 0, ram |-> 0, programmed |-> FALSE]

(* The null selector: nothing can be reached through it.                   *)
NoSegment == [to |-> "none", limit |-> -1]

(* A segment over a base address that was read from a BAR: over the card,  *)
(* or over some other memory.                                              *)
SegmentAt(base, limit) ==
  [to |-> IF base /\ dpmi THEN "card" ELSE "memory", limit |-> limit]

(* The limits the init functions set.  NV1's size is one less than it is,  *)
(* and is used for the limit; ViRGE and Alpine take the size for it.       *)
(* rev: of the 5446, as the video BIOS tells.                              *)
Bar0Limit(rev) ==
  CASE hal = "celsius" -> 2 * NV_MMIO_SIZE - 1
    [] hal = "virge"   -> 4 * NV_MMIO_SIZE
    [] hal = "alpine"  -> IF rev = "A" THEN NV_MMIO_SIZE ELSE 2 * NV_MMIO_SIZE
    [] OTHER           -> NV_MMIO_SIZE - 1

(* NV10_Init, which sets BAR1's limit again when it knows the memory.      *)
CelsiusLimit(amount) ==
  IF amount <= NV_MMIO_SIZE THEN 2 * NV_MMIO_SIZE - 1
  ELSE IF always_map THEN 128 * MB - 1
  ELSE amount

(* The amount of memory, from the register that the family has it in.      *)
(* Values that no branch knows leave vram_amount as it is: 0.              *)
VramAmount(ram) ==
  LET amount == ram % 4 IN
  CASE hal = "nv1" -> <<1, 2, 4, 0>>[amount + 1] * MB
    [] hal = "nv3" -> IF amount = 0 /\ (ram \div 32) % 2 = 1 THEN 8 * MB
                      ELSE <<1, 2, 4, 0>>[amount + 1] * MB
    [] hal = "nv4" -> <<2, 4, 8, 16>>[amount + 1] * MB
    [] hal = "celsius" -> (ram % 256) * MB
    [] OTHER -> 0

-----------------------------------------------------------------------------
(* The steps                                                               *)

Coefficients == {"nvpll", "mpll", "vpll"}
AtBoot == [c \in Coefficients |-> "boot"]

Init ==
  /\ machine \in Machines /\ dpmi \in BOOLEAN /\ always_map \in BOOLEAN
  /\ pc = "detect" /\ entry = 1 /\ device = NoDevice
  /\ bar0 = FALSE /\ seg0 = NoSegment /\ seg1 = NoSegment
  /\ boot_0 = 0 /\ vram = 0
  /\ pll = AtBoot /\ source = "boot"
  /\ kept = [c \in Coefficients |-> "zero"] /\ saved = "zero"

(* One entry of the table against the cards in the machine, in the order   *)
(* of their device ids.  The BIOS has no card for the sentinel.            *)
GPU_Detect ==
  LET hits == {c \in machine : Fits(c, supported_devices[entry])} IN
  /\ pc = "detect"
  /\ \/ /\ \E c \in hits : /\ \A d \in hits : c.id <= d.id
                           /\ device' = c /\ bar0' = c.programmed
        /\ pc' = "map" /\ UNCHANGED entry
     \/ /\ hits = {} /\ entry < Len(supported_devices)
        /\ entry' = entry + 1
        /\ UNCHANGED <<pc, device, bar0>>
     \/ /\ hits = {} /\ entry = Len(supported_devices)
        /\ pc' = "no card"
        /\ UNCHANGED <<entry, device, bar0>>
  /\ UNCHANGED <<machine, dpmi, always_map, seg0, seg1, kind, clocks>>

Relocates == {"nv1", "virge", "alpine"}
HasBar1   == {"nv3", "nv4", "celsius"}

(* The BARs are read.  Families that relocate BAR0 write an address to one *)
(* that has none, and go on with what they read before.                    *)
Map ==
  /\ pc = "map"
  /\ bar0' = (bar0 \/ hal \in Relocates)
  /\ \E rev \in {"A", "B"} : seg0' = SegmentAt(bar0, Bar0Limit(rev))
  /\ seg1' = IF hal \in HasBar1
             THEN SegmentAt(bar0, Bar0Limit("A")) ELSE NoSegment
  /\ pc' = "identify"
  /\ UNCHANGED <<found, kind, clocks>>

(* NV_PMC_BOOT_0 and the amount of memory, if there is a card behind the   *)
(* segment, or whatever is there.  ViRGE and Alpine read neither.          *)
Identify ==
  /\ pc = "identify"
  /\ IF hal \in {"virge", "alpine"} THEN UNCHANGED <<kind, seg1>>
     ELSE \E boot \in Boots, ram \in Rams :
            /\ seg0.to = "card" => boot = device.boot /\ ram = device.ram
            /\ boot_0' = boot /\ vram' = VramAmount(ram)
            /\ seg1' = IF hal = "celsius"
                       THEN [seg1 EXCEPT !.limit = CelsiusLimit(VramAmount(ram))]
                       ELSE seg1
  /\ pc' = IF hal \in SwitchesClocks THEN "save" ELSE "ready"
  /\ UNCHANGED <<found, bar0, seg0, clocks>>

-----------------------------------------------------------------------------
(* The clocks                                                              *)

OnCard == seg0.to = "card"

(* NV3 reads two of the coefficients, and saves no selection.              *)
SaveClocks ==
  /\ pc = "save"
  /\ kept' = [c \in Coefficients |->
                IF c = "nvpll" /\ hal = "nv3" THEN kept[c]
                ELSE IF OnCard THEN pll[c] ELSE "noise"]
  /\ saved' = IF hal \notin SavesClocks THEN saved
              ELSE IF OnCard THEN source ELSE "noise"
  /\ pc' = "switch"
  /\ UNCHANGED <<found, mapped, kind, pll, source>>

(* "NV3 doesn't care what you set source to but NV4 does": its clocks may  *)
(* be anything until they are programmed.                                  *)
(* Mutant: NV4 is left at that too.                                        *)
SwitchClocks_NotProgrammed ==
  /\ pc = "switch"
  /\ source' = IF OnCard THEN "software" ELSE source
  /\ pll' \in IF OnCard /\ hal # "nv3" THEN [Coefficients -> {"boot", "noise"}]
              ELSE {pll}
  /\ pc' = "ready"
  /\ UNCHANGED <<found, mapped, kind, kept, saved>>
SwitchClocks ==
  /\ pc = "switch"
  /\ source' = IF OnCard THEN "software" ELSE source
  /\ pll' \in IF OnCard /\ hal # "nv3" THEN [Coefficients -> {"boot", "noise"}]
              ELSE {pll}
  /\ pc' = IF hal = "nv3" THEN "ready" ELSE "nvpll"
  /\ UNCHANGED <<found, mapped, kind, kept, saved>>

After(c) == CASE c = "nvpll" -> "mpll" [] c = "mpll" -> "vpll" [] OTHER -> "ready"

ProgramClock(c) ==
  /\ pc = c
  /\ pll' = IF OnCard THEN [pll EXCEPT ![c] = kept[c]] ELSE pll
  /\ pc' = After(c)
  /\ UNCHANGED <<found, mapped, kind, source, kept, saved>>

(* The hal's shutdown function writes the selection back, at any time      *)
(* after the init function has returned.                                   *)
ShutdownHal ==
  /\ pc = "ready"
  /\ source' = IF hal \in SavesClocks /\ OnCard THEN saved ELSE source
  /\ pc' = "exited"
  /\ UNCHANGED <<found, mapped, kind, pll, kept, saved>>

(* A fault on memory that is not the card's, the user, the hardware.       *)
Dies ==
  /\ pc \notin {"dead", "exited", "no card"}
  /\ pc' = "dead"
  /\ UNCHANGED <<found, mapped, kind, clocks>>

Bring ==
  \/ GPU_Detect \/ Map \/ Identify
  \/ SaveClocks \/ SwitchClocks \/ \E c \in Coefficients : ProgramClock(c)

-----------------------------------------------------------------------------
(* Properties                                                              *)

Segments == [to : {"card", "memory"}, limit : Nat] \cup {NoSegment}

(* The variables have their types.                                         *)
BringupTypeOK ==
  /\ pc \in {"detect", "no card", "map", "identify", "save", "switch", "ready",
             "exited", "dead"} \cup Coefficients
  /\ machine \in Machines /\ dpmi \in BOOLEAN /\ always_map \in BOOLEAN
  /\ entry \in 1 .. Len(supported_devices)
  /\ device \in machine \cup {NoDevice}
  /\ bar0 \in BOOLEAN /\ seg0 \in Segments /\ seg1 \in Segments
  /\ boot_0 \in Boots /\ vram \in Nat
  /\ pll \in [Coefficients -> {"boot", "noise"}] /\ source \in {"boot", "software"}
  /\ kept \in [Coefficients -> {"boot", "noise", "zero"}]
  /\ saved \in {"boot", "software", "noise", "zero"}

(* Taking over the clocks does not change them: when the init function has *)
(* returned the card runs at the coefficients it had at boot, whatever the *)
(* switch of their source did to it, and a card whose selection has been   *)
(* given back has neither coefficients nor selection changed.              *)
ClocksKept ==
  /\ pc = "ready" => pll = AtBoot
  /\ pc = "exited" => pll = AtBoot /\ (hal \in SavesClocks => source = "boot")

(* nv1_core.c:55, virge_core.c:22, alpine_core.c:24: "Enable MMIO and I/O and *)
(* relocate the PCI BARs if they aren't already programmed e.g. on dos":   *)
(* once BAR0 holds an address, the segment covers the card.                *)
RelocatedCardIsReached == pc = "ready" /\ bar0 /\ dpmi => OnCard

=============================================================================
