----------------------------- MODULE DumpsProofs -----------------------------
(***************************************************************************)
(* For any set of machines and any card in them: taking over the clocks of *)
(* a card does not change them, and the tests leave them alone; the        *)
(* variables have their types; a dump that is cut short has lost one block *)
(* at most; and one that is finished is the BAR, while the disk has room,  *)
(* where the cards tell of themselves what gpu.h says they do              *)
(* (BootAssumption).                                                       *)
(***************************************************************************)
EXTENDS Dumps, TLAPS

(* What is known of the clocks at each step.  Before the source has been   *)
(* switched they are as at boot; then each is as at boot once it has been  *)
(* programmed with what was kept, and what was kept is what they were.     *)
Untouched == pll = AtBoot /\ source = "boot"

Early == {"detect", "no card", "map", "identify", "save", "switch"}

KeptIsBoot ==
  /\ hal # "nv3" => kept = AtBoot
  /\ hal \in SavesClocks => saved = "boot"

ClockInv ==
  /\ pll \in [Coefficients -> {"boot", "noise"}]
  /\ ~OnCard \/ pc \in Early => Untouched
  /\ OnCard /\ pc \in {"switch"} \cup Coefficients => KeptIsBoot
  /\ pc \in Coefficients => hal # "nv3"
  /\ pc \in {"mpll", "vpll"} => pll["nvpll"] = "boot"
  /\ pc = "vpll" => pll["mpll"] = "boot"
  /\ pc \in {"ready", "exited"} => pll = AtBoot
  /\ pc = "ready" /\ OnCard /\ hal \in SavesClocks => saved = "boot"
  /\ pc = "exited" /\ hal \in SavesClocks => source = "boot"

LEMMA ClockInvInit == DumpsInit => ClockInv
  BY DEF DumpsInit, Init, ClockInv, Untouched, AtBoot, Early, Coefficients

(* The family is that of the table's entry, which stays once it has been   *)
(* found.                                                                  *)
LEMMA HalStays == entry' = entry => hal' = hal
  BY DEF hal

LEMMA DetectKeepsClocks == ASSUME ClockInv, GPU_Detect PROVE ClockInv'
<1>1. pll' = pll /\ source' = source /\ kept' = kept /\ saved' = saved /\ seg0' = seg0
  BY DEF GPU_Detect, clocks
<1>2. pc = "detect" /\ pc' \in {"detect", "map", "no card"}
  BY DEF GPU_Detect
<1>3. Untouched'
  BY <1>1, <1>2 DEF ClockInv, Untouched, Early, AtBoot
<1> QED
  BY <1>1, <1>2, <1>3 DEF ClockInv, Untouched, Early, Coefficients

LEMMA MapKeepsClocks == ASSUME ClockInv, Map PROVE ClockInv'
<1>1. pll' = pll /\ source' = source
  BY DEF Map, clocks
<1>2. pc = "map" /\ pc' = "identify"
  BY DEF Map
<1>3. Untouched'
  BY <1>1, <1>2 DEF ClockInv, Untouched, Early, AtBoot
<1> QED
  BY <1>1, <1>2, <1>3 DEF ClockInv, Untouched, Early, Coefficients

LEMMA IdentifyKeepsClocks == ASSUME ClockInv, Identify PROVE ClockInv'
<1>1. /\ pll' = pll /\ source' = source /\ hal' = hal
      /\ seg0' = seg0
  BY HalStays DEF Identify, clocks, found
<1>2. /\ pc = "identify"
      /\ \/ pc' = "save"
         \/ pc' = "ready" /\ hal \notin SavesClocks
  BY DEF Identify, SwitchesClocks, SavesClocks
<1>3. Untouched'
  BY <1>1, <1>2 DEF ClockInv, Untouched, Early, AtBoot
<1> QED
  BY <1>1, <1>2, <1>3 DEF ClockInv, Untouched, Early, Coefficients

LEMMA SaveKeepsClocks == ASSUME ClockInv, SaveClocks PROVE ClockInv'
<1>1. pll' = pll /\ source' = source /\ hal' = hal /\ OnCard' = OnCard
  BY HalStays DEF SaveClocks, found, mapped, OnCard
<1>2. pc = "save" /\ pc' = "switch"
  BY DEF SaveClocks
<1>3. Untouched /\ Untouched'
  BY <1>1, <1>2 DEF ClockInv, Untouched, Early, AtBoot
<1>4. OnCard => KeptIsBoot'
  BY <1>1, <1>3 DEF SaveClocks, KeptIsBoot, Untouched, AtBoot, Coefficients
<1> QED
  BY <1>1, <1>2, <1>3, <1>4 DEF ClockInv, Early, Coefficients

LEMMA SwitchKeepsClocks == ASSUME ClockInv, SwitchClocks PROVE ClockInv'
<1>1. /\ hal' = hal /\ OnCard' = OnCard /\ kept' = kept /\ saved' = saved
      /\ pc = "switch"
  BY HalStays DEF SwitchClocks, found, mapped, OnCard
<1>2. Untouched
  BY <1>1 DEF ClockInv, Early
<1>3. ~OnCard => Untouched'
  BY <1>1, <1>2 DEF SwitchClocks, Untouched, AtBoot
<1>4. OnCard => KeptIsBoot'
  BY <1>1 DEF ClockInv, KeptIsBoot, AtBoot
<1>5. CASE hal = "nv3"
  <2>1. pc' = "ready" /\ pll' = pll
    BY <1>5 DEF SwitchClocks
  <2>2. hal' \notin SavesClocks
    BY <1>1, <1>5 DEF SavesClocks
  <2> QED
    BY <1>1, <1>2, <1>3, <2>1, <2>2 DEF ClockInv, Untouched, Early, Coefficients, AtBoot
<1>6. CASE hal # "nv3"
  <2>1. pc' = "nvpll"
    BY <1>6 DEF SwitchClocks
  <2>2. pll' \in [Coefficients -> {"boot", "noise"}]
    BY <1>2 DEF SwitchClocks, Untouched, ClockInv
  <2> QED
    BY <1>1, <1>3, <1>4, <1>6, <2>1, <2>2 DEF ClockInv, Early, Coefficients
<1> QED
  BY <1>5, <1>6

LEMMA ProgramKeepsClocks ==
  ASSUME ClockInv, NEW c \in Coefficients, ProgramClock(c) PROVE ClockInv'
<1>1. /\ hal' = hal /\ OnCard' = OnCard /\ source' = source /\ kept' = kept
      /\ saved' = saved /\ pc = c /\ hal # "nv3"
  BY HalStays DEF ProgramClock, found, mapped, OnCard, ClockInv
<1>2. pll' = IF OnCard THEN [pll EXCEPT ![c] = "boot"] ELSE pll
  BY <1>1 DEF ProgramClock, ClockInv, KeptIsBoot, AtBoot
<1>3. pll \in [Coefficients -> {"boot", "noise"}]
  BY DEF ClockInv
<1>4. ~OnCard => Untouched /\ Untouched'
  BY <1>1, <1>2 DEF ClockInv, Untouched, AtBoot
<1>5. /\ pll' \in [Coefficients -> {"boot", "noise"}]
      /\ pll'[c] = "boot"
      /\ \A d \in Coefficients : pll[d] = "boot" => pll'[d] = "boot"
  BY <1>2, <1>3, <1>4 DEF Untouched, AtBoot
<1>6. OnCard => KeptIsBoot /\ KeptIsBoot'
  BY <1>1 DEF ClockInv, KeptIsBoot, AtBoot
<1>7. CASE c = "nvpll"
  <2>1. pc' = "mpll"
    BY <1>7 DEF ProgramClock, After
  <2> QED
    BY <1>1, <1>4, <1>5, <1>6, <1>7, <2>1 DEF ClockInv, Early, Coefficients
<1>8. CASE c = "mpll"
  <2>1. pc' = "vpll"
    BY <1>8 DEF ProgramClock, After
  <2>2. pll'["nvpll"] = "boot"
    BY <1>1, <1>5, <1>8 DEF ClockInv, Coefficients
  <2> QED
    BY <1>1, <1>4, <1>5, <1>6, <1>8, <2>1, <2>2 DEF ClockInv, Early, Coefficients
<1>9. CASE c = "vpll"
  <2>1. pc' = "ready"
    BY <1>9 DEF ProgramClock, After
  <2>2. \A d \in Coefficients : pll'[d] = "boot"
    BY <1>1, <1>5, <1>9 DEF ClockInv, Coefficients
  <2>3. pll' = AtBoot'
    BY <1>5, <2>2 DEF AtBoot
  <2> QED
    BY <1>1, <1>4, <1>5, <1>6, <2>1, <2>3 DEF ClockInv, Early, Coefficients, KeptIsBoot
<1> QED
  BY <1>7, <1>8, <1>9 DEF Coefficients

LEMMA ShutdownKeepsClocks == ASSUME ClockInv, ShutdownHal PROVE ClockInv'
<1>1. /\ hal' = hal /\ OnCard' = OnCard /\ pll' = pll
      /\ pc = "ready" /\ pc' = "exited"
  BY HalStays DEF ShutdownHal, found, mapped, OnCard
<1>2. ~OnCard => Untouched'
  BY <1>1 DEF ShutdownHal, ClockInv, Untouched, AtBoot
<1>3. hal \in SavesClocks => source' = "boot"
  BY <1>1 DEF ShutdownHal, ClockInv, Untouched
<1> QED
  BY <1>1, <1>2, <1>3 DEF ClockInv, Early, Coefficients, AtBoot

LEMMA DyingKeepsClocks == ASSUME ClockInv, Dies PROVE ClockInv'
<1>1. /\ hal' = hal /\ OnCard' = OnCard /\ pll' = pll /\ source' = source
      /\ pc' = "dead"
  BY HalStays DEF Dies, found, mapped, clocks, OnCard
<1> QED
  BY <1>1 DEF ClockInv, Untouched, Early, Coefficients, AtBoot

(* A test changes nothing of the bring-up but that it may kill the program.*)
OnlyDies == UNCHANGED <<found, mapped, kind, clocks>> /\ pc' \in {pc, "dead"}

LEMMA TestOnlyDies == ASSUME Test PROVE OnlyDies
<1>1. ASSUME NEW t, PrintingTest(t) PROVE OnlyDies
  BY <1>1 DEF PrintingTest, bringup, OnlyDies
<1>2. CASE NVGeneric_DumpMMIO
  BY <1>2 DEF NVGeneric_DumpMMIO, bringup, OnlyDies
<1>3. CASE Iterate
  BY <1>3 DEF Iterate, Fetch, OnlyDies
<1>4. CASE RunsOut
  BY <1>4 DEF RunsOut, bringup, OnlyDies
<1>5. CASE NVGeneric_DumpVBIOS
  BY <1>5 DEF NVGeneric_DumpVBIOS, OnlyDies
<1>6. ASSUME NEW t, NVGeneric_DumpText(t) PROVE OnlyDies
  BY <1>6 DEF NVGeneric_DumpText, OnlyDies
<1> QED
  BY <1>1, <1>2, <1>3, <1>4, <1>5, <1>6 DEF Test

LEMMA TestKeepsClocks == ASSUME ClockInv, Test PROVE ClockInv'
<1>1. /\ entry' = entry /\ seg0' = seg0
      /\ pll' = pll /\ source' = source /\ kept' = kept /\ saved' = saved
      /\ pc' \in {pc, "dead"}
  BY TestOnlyDies DEF OnlyDies, found, mapped, clocks
<1>2. hal' = hal /\ OnCard' = OnCard
  BY <1>1, HalStays DEF OnCard
<1>3. Untouched' = Untouched
  BY <1>1 DEF Untouched, AtBoot
<1>4. KeptIsBoot' = KeptIsBoot
  BY <1>1, <1>2 DEF KeptIsBoot, AtBoot
<1>5. CASE pc' = pc
  BY <1>1, <1>2, <1>3, <1>4, <1>5 DEF ClockInv, AtBoot
<1>6. CASE pc' = "dead"
  BY <1>1, <1>2, <1>3, <1>6 DEF ClockInv, Early, Coefficients
<1> QED
  BY <1>1, <1>5, <1>6

LEMMA StutterKeepsClocks == ASSUME ClockInv, UNCHANGED vars PROVE ClockInv'
<1>1. /\ entry' = entry /\ seg0' = seg0 /\ pc' = pc
      /\ pll' = pll /\ source' = source /\ kept' = kept /\ saved' = saved
  BY DEF vars, bringup, found, mapped, clocks
<1> QED
  BY <1>1, HalStays DEF ClockInv, Untouched, OnCard, KeptIsBoot, AtBoot

LEMMA StepKeepsClocks == ClockInv /\ [Next]_vars => ClockInv'
<1> SUFFICES ASSUME ClockInv, [Next]_vars PROVE ClockInv'
  OBVIOUS
<1> USE DetectKeepsClocks, MapKeepsClocks, IdentifyKeepsClocks, SaveKeepsClocks,
        SwitchKeepsClocks, ProgramKeepsClocks, ShutdownKeepsClocks,
        DyingKeepsClocks, TestKeepsClocks, StutterKeepsClocks
<1>1. CASE Bring
  BY <1>1 DEF Bring
<1>2. CASE Next /\ ~Bring
  BY <1>2 DEF Next
<1>3. CASE UNCHANGED vars
  BY <1>3
<1> QED
  BY <1>1, <1>2, <1>3

(* Whatever the switch of their source does to a card's coefficients, they *)
(* are those of boot when the init function returns, and after shutdown    *)
(* the source is as well: NV4_Init, NV10_Init and their shutdown functions.*)
THEOREM DumpsClocksKept == Spec => []ClocksKept
<1>1. ClockInv => ClocksKept
  BY DEF ClockInv, ClocksKept
<1> QED
  BY <1>1, ClockInvInit, StepKeepsClocks, PTL DEF Spec

-----------------------------------------------------------------------------
(* Types, and what of a dump is on the disk                                *)

Loops == {"nv1", "bar0", "bar1"}
Cell  == {"bar0", "bar1", "nv1", "NONE", "zero"} \X Nat

(* The segment of a Celsius' BAR1 is there when its limit is set again.    *)
BringInv ==
  BringupTypeOK /\ (pc = "identify" /\ hal = "celsius" => seg1.to # "none")

OnDisk == Len(disk[DumpFile[loop]])

TestInv ==
  /\ test \in GenericTests \cup OtherTests \cup {"none"}
  /\ result \in {"none", "true", "false"}
  /\ loop \in Loops \cup {"none"}
  /\ pos \in Nat /\ pos <= Size /\ pos % 4 = 0
  /\ disk \in [Files -> Seq(Cell)]
  /\ \A f \in Files : Len(disk[f]) <= IF f = "nvbios.bin" THEN VBIOS_LENGTH ELSE 2 * Words
  /\ full \in BOOLEAN /\ there \subseteq TextFiles /\ index \in {"none", "nv3", "nv4"}
  /\ beyond \in {"no", "segment", "buffer"} /\ ran \in 0 .. MaxTests

(* While a loop runs no more is in the file than was read, and, while the  *)
(* disk has room, whole blocks, and all before the last that was read.  A  *)
(* file that is open for the next loop is empty.                           *)
LoopInv ==
  /\ loop = "none" => pos = 0 /\ buf = <<>>
  /\ loop # "none" =>
       /\ test = "NV_DumpMMIO" /\ result = "none" /\ pc \in {"ready", "dead"}
       /\ buf \in [0 .. 2 * Words - 1 -> Cell]
       /\ 4 * OnDisk <= pos
       /\ ~full => /\ (4 * OnDisk) % Flush = 0 /\ pos - 4 * OnDisk <= Flush
                   /\ pc = "ready" /\ pos > 0 => 4 * OnDisk < pos
  /\ loop = "bar0" => disk["nvbar1.bin"] = <<>>

DumpInv == ClockInv /\ BringInv /\ TestInv /\ LoopInv

(* Arithmetic of blocks.                                                   *)
LEMMA IsMultiple ==
  ASSUME NEW F \in Nat \ {0}, NEW a \in Nat, NEW q \in Int, a = F * q PROVE a % F = 0
<1>1. F > 0
  OBVIOUS
<1> QED
  BY <1>1, SMTT(20)

LEMMA Multiple ==
  ASSUME NEW F \in Nat \ {0}, NEW a \in Nat, a % F = 0 PROVE \E q \in Int : a = F * q
<1>1. F > 0
  OBVIOUS
<1> QED
  BY <1>1, SMTT(20)

LEMMA NextMultiple ==
  ASSUME NEW F \in Nat \ {0}, NEW a \in Nat, a % F = 0 PROVE (a + F) % F = 0
<1>1. PICK q \in Int : a = F * q
  BY Multiple
<1>2. a + F = F * (q + 1) /\ a + F \in Nat /\ q + 1 \in Int
  BY <1>1
<1> QED
  BY <1>2, IsMultiple

LEMMA OneBlockApart ==
  ASSUME NEW F \in Nat \ {0}, NEW a \in Nat, NEW b \in Nat,
         a % F = 0, b % F = 0, a < b, b - a <= F
  PROVE  b - a = F
<1>1. PICK j \in Int : a = F * j
  BY Multiple
<1>2. PICK k \in Int : b = F * k
  BY Multiple
<1>3. (k - j) * F <= F /\ (k - j) * F > 0
  BY <1>1, <1>2
<1>4. k - j = 1
  BY <1>3
<1> QED
  BY <1>1, <1>2, <1>4

LEMMA Sizes ==
  /\ MB \in Nat /\ MB > 0 /\ Words \in Nat /\ NV_MMIO_SIZE = 4 * Words /\ Words > 0
  /\ Flush \in Nat \ {0} /\ Flush >= 4 /\ Flush % 4 = 0
  /\ Flush \div 4 \in Nat /\ 4 * (Flush \div 4) = Flush
  /\ NV_MMIO_SIZE % Flush = 0 /\ (2 * NV_MMIO_SIZE) % Flush = 0
  /\ VBIOS_LENGTH \in Nat /\ MaxTests \in Nat
<1>1. MB \in Nat /\ MB > 0
  BY BringupAssumption
<1>2. Flush \in Nat \ {0} /\ Flush % 4 = 0 /\ NV_MMIO_SIZE % Flush = 0
  BY DumpsAssumption
<1>3. VBIOS_LENGTH \in Nat /\ MaxTests \in Nat
  BY DumpsAssumption
<1>4. NV_MMIO_SIZE \in Nat /\ NV_MMIO_SIZE = 4 * Words /\ Words \in Nat /\ Words > 0
  BY <1>1 DEF NV_MMIO_SIZE, Words
<1>5. PICK q \in Int : NV_MMIO_SIZE = Flush * q
  BY <1>2, <1>4, Multiple
<1>6. 2 * NV_MMIO_SIZE = Flush * (2 * q) /\ 2 * q \in Int /\ 2 * NV_MMIO_SIZE \in Nat
  BY <1>2, <1>4, <1>5
<1>7. (2 * NV_MMIO_SIZE) % Flush = 0
  BY <1>2, <1>6, IsMultiple
<1>8. Flush >= 4 /\ Flush \div 4 \in Nat /\ 4 * (Flush \div 4) = Flush
  BY <1>2
<1> QED
  BY <1>1, <1>2, <1>3, <1>4, <1>7, <1>8

LEMMA SizeOfLoop ==
  /\ Size \in Nat /\ Size <= 8 * Words /\ Size > 0
  /\ Size % 4 = 0 /\ Size % Flush = 0
  /\ loop # "bar1" => Size = NV_MMIO_SIZE
  BY Sizes DEF Size, vram_dump_size

LEMMA DumpInvInit == DumpsInit => DumpInv
<1> SUFFICES ASSUME DumpsInit PROVE DumpInv
  OBVIOUS
<1>1. ClockInv
  BY ClockInvInit
<1>2. BringInv
  <2>1. 0 \in Boots
    BY BringupAssumption
  <2>2. 1 \in 1 .. Len(supported_devices)
    BY DEF supported_devices
  <2>3. pll = AtBoot /\ AtBoot \in [Coefficients -> {"boot", "noise"}]
    BY DEF DumpsInit, Init, AtBoot
  <2>4. kept \in [Coefficients -> {"boot", "noise", "zero"}]
    BY DEF DumpsInit, Init
  <2> QED
    BY <2>1, <2>2, <2>3, <2>4 DEF DumpsInit, Init, BringInv, BringupTypeOK, Segments
<1>3. TestInv
  <2>1. \A f \in Files : disk[f] = <<>>
    BY DEF DumpsInit
  <2>2. disk \in [Files -> Seq(Cell)]
    BY <2>1 DEF DumpsInit
  <2>3. \A f \in Files : Len(disk[f]) = 0
    BY <2>1
  <2>4. full \in BOOLEAN
    BY DEF DumpsInit
  <2> QED
    BY <2>2, <2>3, <2>4, Sizes, SizeOfLoop DEF DumpsInit, TestInv
<1>4. LoopInv
  BY DEF DumpsInit, LoopInv
<1> QED
  BY <1>1, <1>2, <1>3, <1>4 DEF DumpInv

-----------------------------------------------------------------------------
(* The steps of the bring-up keep the types.                               *)

LEMMA TableLength == Len(supported_devices) = 20
  BY DEF supported_devices

LEMMA LimitsAreNat ==
  ASSUME NEW rev \in {"A", "B"} PROVE Bar0Limit(rev) \in Nat
<1>1. NV_MMIO_SIZE \in Nat /\ NV_MMIO_SIZE > 0
  BY Sizes
<1>2. /\ NV_MMIO_SIZE - 1 \in Nat /\ 2 * NV_MMIO_SIZE - 1 \in Nat
      /\ 4 * NV_MMIO_SIZE \in Nat /\ 2 * NV_MMIO_SIZE \in Nat
  BY <1>1
<1> QED
  BY <1>1, <1>2 DEF Bar0Limit

LEMMA VramIsNat == ASSUME NEW ram \in Rams PROVE VramAmount(ram) \in Nat
<1>1. ram \in Nat /\ MB \in Nat
  BY BringupAssumption
<1>2. ram % 4 \in {0, 1, 2, 3}
  BY <1>1
<1>3. ram % 256 \in Nat
  BY <1>1
<1>4. /\ <<1, 2, 4, 0>>[(ram % 4) + 1] \in Nat
      /\ <<2, 4, 8, 16>>[(ram % 4) + 1] \in Nat
  BY <1>2
<1>5. \A n \in Nat : n * MB \in Nat
  BY <1>1
<1>6. (ram % 256) * MB \in Nat /\ 8 * MB \in Nat
  BY <1>1, <1>3
<1> DEFINE small == <<1, 2, 4, 0>>[(ram % 4) + 1] large == <<2, 4, 8, 16>>[(ram % 4) + 1]
<1>7. small * MB \in Nat /\ large * MB \in Nat
  BY <1>4, <1>5
<1> QED
  BY <1>6, <1>7 DEF VramAmount

LEMMA CelsiusLimitIsNat ==
  ASSUME NEW amount \in Nat PROVE CelsiusLimit(amount) \in Nat
  BY Sizes DEF CelsiusLimit

LEMMA SegmentTyped ==
  ASSUME NEW base, NEW limit \in Nat
  PROVE  SegmentAt(base, limit) \in Segments /\ SegmentAt(base, limit).to # "none"
  BY DEF SegmentAt, Segments

LEMMA DetectStaysInTable ==
  ASSUME entry \in 1 .. Len(supported_devices), GPU_Detect
  PROVE  entry' \in 1 .. Len(supported_devices)
<1>1. entry \in 1 .. 20
  BY TableLength
<1>2. entry' = entry \/ (entry < 20 /\ entry' = entry + 1)
  BY TableLength DEF GPU_Detect
<1>3. ASSUME NEW e \in 1 .. 20, NEW f, f = e \/ (e < 20 /\ f = e + 1)
      PROVE  f \in 1 .. 20
  BY ONLY <1>3
<1>4. entry' \in 1 .. 20
  BY <1>1, <1>2, <1>3, Zenon
<1> QED
  BY <1>4, TableLength

LEMMA BringKeepsTypes ==
  ASSUME ClockInv, ClockInv', BringInv, Bring \/ Dies \/ ShutdownHal PROVE BringInv'
<1> USE DEF BringInv, BringupTypeOK
<1>1. CASE GPU_Detect
  <2>1. device' \in machine \cup {NoDevice} /\ bar0' \in BOOLEAN
    <3>1. ASSUME NEW c \in machine PROVE c.programmed \in BOOLEAN
      BY <3>1, BringupAssumption DEF Card
    <3> QED
      BY <1>1, <3>1 DEF GPU_Detect
  <2>2. entry' \in 1 .. Len(supported_devices)
    BY <1>1, DetectStaysInTable
  <2>3. pc' \in {"detect", "map", "no card"}
    BY <1>1 DEF GPU_Detect
  <2> QED
    BY <1>1, <2>1, <2>2, <2>3 DEF GPU_Detect, kind, clocks
<1>2. CASE Map
  <2>1. seg0' \in Segments
    BY <1>2, LimitsAreNat, SegmentTyped DEF Map
  <2>2. SegmentAt(bar0, Bar0Limit("A")) \in Segments
    BY LimitsAreNat, SegmentTyped
  <2>3. seg1' \in Segments /\ (hal = "celsius" => seg1'.to # "none")
    BY <1>2, <2>2, LimitsAreNat, SegmentTyped DEF Map, Segments, HasBar1
  <2>4. hal' = hal /\ bar0' \in BOOLEAN
    BY <1>2, HalStays DEF Map, found
  <2> QED
    BY <1>2, <2>1, <2>3, <2>4 DEF Map, found, kind, clocks
<1>3. CASE Identify
  <2>1. boot_0' \in Boots /\ vram' \in Nat
    BY <1>3, VramIsNat DEF Identify, kind
  <2>2. seg1' \in Segments
    <3>1. ASSUME NEW ram \in Rams, hal = "celsius"
          PROVE  [seg1 EXCEPT !.limit = CelsiusLimit(VramAmount(ram))] \in Segments
      <4>1. CelsiusLimit(VramAmount(ram)) \in Nat
        BY VramIsNat, CelsiusLimitIsNat
      <4>2. seg1 \in [to : {"card", "memory"}, limit : Nat]
        BY <1>3, <3>1 DEF Identify, Segments, NoSegment
      <4> QED
        BY <4>1, <4>2 DEF Segments
    <3> QED
      BY <1>3, <3>1 DEF Identify
  <2>3. pc' \in {"save", "ready"}
    BY <1>3 DEF Identify
  <2> QED
    BY <1>3, <2>1, <2>2, <2>3 DEF Identify, found, clocks
<1>4. CASE SaveClocks
  <2>1. kept' \in [Coefficients -> {"boot", "noise", "zero"}]
    BY <1>4 DEF SaveClocks
  <2>2. saved' \in {"boot", "software", "noise", "zero"}
    BY <1>4 DEF SaveClocks
  <2>3. pc' = "switch"
    BY <1>4 DEF SaveClocks
  <2> QED
    BY <1>4, <2>1, <2>2, <2>3 DEF SaveClocks, found, mapped, kind
<1>5. CASE SwitchClocks
  <2>1. pll' \in [Coefficients -> {"boot", "noise"}]
    BY DEF ClockInv
  <2>2. pc' \in {"ready", "nvpll"} /\ source' \in {"boot", "software"}
    BY <1>5 DEF SwitchClocks
  <2> QED
    BY <1>5, <2>1, <2>2 DEF SwitchClocks, found, mapped, kind, Coefficients
<1>6. CASE \E c \in Coefficients : ProgramClock(c)
  <2>1. pll' \in [Coefficients -> {"boot", "noise"}]
    BY DEF ClockInv
  <2>2. pc' \in {"mpll", "vpll", "ready"}
    BY <1>6 DEF ProgramClock, After
  <2> QED
    BY <1>6, <2>1, <2>2 DEF ProgramClock, found, mapped, kind, Coefficients
<1>7. CASE ShutdownHal
  <2>1. source' \in {"boot", "software"}
    BY <1>7 DEF ShutdownHal, ClockInv
  <2> QED
    BY <1>7, <2>1 DEF ShutdownHal, found, mapped, kind
<1>8. CASE Dies
  BY <1>8 DEF Dies, found, mapped, kind, clocks
<1> QED
  BY <1>1, <1>2, <1>3, <1>4, <1>5, <1>6, <1>7, <1>8 DEF Bring

-----------------------------------------------------------------------------
(* What the bring-up and the tests leave of each other.                    *)

LEMMA SizeOfNextLoop == Size' \in Nat /\ (loop' # "bar1" => Size' = NV_MMIO_SIZE)
<1>1. NV_MMIO_SIZE \in Nat /\ 2 * NV_MMIO_SIZE \in Nat
  BY Sizes
<1>2. NV_MMIO_SIZE' = NV_MMIO_SIZE
  BY DEF NV_MMIO_SIZE
<1> QED
  BY <1>1, <1>2 DEF Size, vram_dump_size, GPU_IsNV5, GPU_IsNV10

LEMMA SizeStays ==
  ASSUME loop' = loop, boot_0' = boot_0 PROVE Size' = Size
  BY DEF Size, vram_dump_size, GPU_IsNV5, GPU_IsNV10

LEMMA BringKeepsTests ==
  ASSUME TestInv, LoopInv, UNCHANGED testVars,
         Bring \/ Dies \/ (loop = "none" /\ ShutdownHal)
  PROVE  TestInv' /\ LoopInv'
<1>1. CASE loop = "none"
  <2>1. Size = NV_MMIO_SIZE /\ Size' = NV_MMIO_SIZE
    BY <1>1, SizeOfLoop, SizeOfNextLoop DEF testVars
  <2> QED
    BY <1>1, <2>1 DEF TestInv, LoopInv, testVars
<1>2. CASE loop # "none"
  <2>1. pc \in {"ready", "dead"}
    BY <1>2 DEF LoopInv
  <2>2. ~Bring
    BY <2>1 DEF Bring, GPU_Detect, Map, Identify, SaveClocks, SwitchClocks,
                ProgramClock, Coefficients
  <2>3. pc' = "dead" /\ boot_0' = boot_0
    BY <1>2, <2>2 DEF Dies, kind
  <2>4. Size' = Size
    BY <2>3, SizeStays DEF testVars
  <2> QED
    BY <1>2, <2>3, <2>4 DEF TestInv, LoopInv, testVars, OnDisk
<1> QED
  BY <1>1, <1>2

LEMMA StutterKeepsDumps ==
  ASSUME BringInv, TestInv, LoopInv, UNCHANGED vars PROVE BringInv' /\ TestInv' /\ LoopInv'
<1>1. UNCHANGED testVars /\ UNCHANGED bringup
  BY DEF vars
<1>2. Size' = Size
  BY <1>1, SizeStays DEF testVars, bringup, kind
<1>3. BringInv'
  BY <1>1, HalStays DEF BringInv, BringupTypeOK, bringup, found, mapped, kind, clocks
<1> QED
  BY <1>1, <1>2, <1>3 DEF TestInv, LoopInv, testVars, OnDisk, bringup

LEMMA TestKeepsBringInv == ASSUME BringInv, Test PROVE BringInv'
<1>1. OnlyDies
  BY TestOnlyDies
<1>2. hal' = hal
  BY <1>1, HalStays DEF OnlyDies, found
<1> QED
  BY <1>1, <1>2 DEF OnlyDies, BringInv, BringupTypeOK, found, mapped, kind, clocks

-----------------------------------------------------------------------------
(* The tests keep the types and what is known of a loop.                   *)

LEMMA FileNames ==
  /\ Files = {"nv1bar0.bin", "nvbar0.bin", "nvbar1.bin", "nvbios.bin"}
  /\ DOMAIN DumpFile = Loops
  /\ DumpFile["nv1"] = "nv1bar0.bin" /\ DumpFile["bar0"] = "nvbar0.bin"
  /\ DumpFile["bar1"] = "nvbar1.bin"
  BY DEF Files, DumpFile, Loops

(* A test that runs no loop, and changes at most the file of the VBIOS.    *)
LEMMA ShortTest ==
  ASSUME TestInv, LoopInv, OnlyDies,
         NEW t \in GenericTests \cup OtherTests, Starts(t),
         NEW r \in {"true", "false"}, Returns(r),
         disk' \in [Files -> Seq(Cell)],
         \A f \in Files : disk'[f] = disk[f] \/ Len(disk'[f]) = 0
                           \/ (f = "nvbios.bin" /\ Len(disk'[f]) <= VBIOS_LENGTH),
         full' \in BOOLEAN, index' \in {"none", "nv3", "nv4"}, beyond' \in {"no", "segment", "buffer"}
  PROVE  TestInv' /\ LoopInv'
<1>1. loop = "none" /\ loop' = "none" /\ pos' = pos /\ buf' = buf
  BY DEF Starts, Returns
<1>2. Size = NV_MMIO_SIZE /\ Size' = NV_MMIO_SIZE
  BY <1>1, SizeOfLoop, SizeOfNextLoop
<1>3. LoopInv'
  BY <1>1 DEF LoopInv
<1>4. ran' \in 0 .. MaxTests
  BY Sizes DEF Starts, TestInv
<1>5. \A f \in Files :
         Len(disk'[f]) <= IF f = "nvbios.bin" THEN VBIOS_LENGTH ELSE 2 * Words
  BY Sizes DEF TestInv
<1> QED
  BY <1>1, <1>2, <1>3, <1>4, <1>5 DEF TestInv, Starts, Returns

LEMMA PrintingKeepsTypes ==
  ASSUME TestInv, LoopInv, NEW t, PrintingTest(t) PROVE TestInv' /\ LoopInv'
<1>1. t \in GenericTests \cup OtherTests /\ Starts(t)
  BY DEF PrintingTest, GenericTests
<1>2. PICK r \in {"true", "false"} : Returns(r)
  BY DEF PrintingTest
<1>3. OnlyDies
  BY DEF PrintingTest, bringup, OnlyDies
<1> QED
  BY <1>1, <1>2, <1>3, ShortTest DEF PrintingTest, TestInv

LEMMA TextKeepsTypes ==
  ASSUME TestInv, LoopInv, NEW t \in DOMAIN TextTests, NVGeneric_DumpText(t)
  PROVE  TestInv' /\ LoopInv'
<1>1. t \in GenericTests \cup OtherTests /\ Starts(t)
  BY DEF NVGeneric_DumpText, GenericTests, TextTests
<1>2. PICK r \in {"true", "false"} : Returns(r)
  BY DEF NVGeneric_DumpText
<1>3. OnlyDies
  BY DEF NVGeneric_DumpText, OnlyDies
<1>4. index' \in {"none", "nv3", "nv4"} /\ beyond' \in {"no", "segment", "buffer"}
  BY DEF NVGeneric_DumpText, TestInv
<1> QED
  BY <1>1, <1>2, <1>3, <1>4, ShortTest DEF NVGeneric_DumpText, TestInv

LEMMA VBIOSKeepsTypes ==
  ASSUME TestInv, LoopInv, NVGeneric_DumpVBIOS PROVE TestInv' /\ LoopInv'
<1> DEFINE vbios_bin == [i \in 1 .. VBIOS_LENGTH |-> Shown("bar0", BaseLocation + 4 * (i - 1))]
<1>1. "NV_DumpVBIOS" \in GenericTests \cup OtherTests /\ Starts("NV_DumpVBIOS")
  BY DEF NVGeneric_DumpVBIOS, GenericTests
<1>2. Returns("true")
  BY DEF NVGeneric_DumpVBIOS
<1>3. OnlyDies
  BY DEF NVGeneric_DumpVBIOS, OnlyDies
<1>4. BaseLocation \in Nat
  BY DumpsAssumption DEF BaseLocation
<1>5. vbios_bin \in Seq(Cell) /\ Len(vbios_bin) = VBIOS_LENGTH
  <2>1. ASSUME NEW i \in 1 .. VBIOS_LENGTH
        PROVE  Shown("bar0", BaseLocation + 4 * (i - 1)) \in Cell
    <3>1. i \in Nat /\ i >= 1
      BY Sizes
    <3>2. BaseLocation + 4 * (i - 1) \in Nat
      BY <1>4, <3>1
    <3> QED
      BY <3>2 DEF Shown, Cell
  <2> QED
    BY <2>1, Sizes
<1>6. \/ \E n \in 0 .. VBIOS_LENGTH :
            disk' = [disk EXCEPT !["nvbios.bin"] = SubSeq(vbios_bin, 1, n)]
      \/ disk' = disk
  BY DEF NVGeneric_DumpVBIOS
<1> HIDE DEF vbios_bin
<1>7. /\ disk' \in [Files -> Seq(Cell)]
      /\ \A f \in Files : disk'[f] = disk[f] \/ Len(disk'[f]) = 0
                           \/ (f = "nvbios.bin" /\ Len(disk'[f]) <= VBIOS_LENGTH)
  <2>1. CASE disk' = disk
    BY <2>1 DEF TestInv
  <2>2. ASSUME NEW n \in 0 .. VBIOS_LENGTH,
               disk' = [disk EXCEPT !["nvbios.bin"] = SubSeq(vbios_bin, 1, n)]
        PROVE  /\ disk' \in [Files -> Seq(Cell)]
               /\ \A f \in Files : disk'[f] = disk[f] \/ Len(disk'[f]) = 0
                                    \/ (f = "nvbios.bin" /\ Len(disk'[f]) <= VBIOS_LENGTH)
    <3>1. SubSeq(vbios_bin, 1, n) \in Seq(Cell) /\ Len(SubSeq(vbios_bin, 1, n)) <= VBIOS_LENGTH
      BY <1>5, Sizes
    <3> QED
      BY <2>2, <3>1 DEF TestInv
  <2> QED
    BY <1>6, <2>1, <2>2
<1> QED
  BY <1>1, <1>2, <1>3, <1>7, ShortTest DEF NVGeneric_DumpVBIOS, TestInv

LEMMA MMIOKeepsTypes ==
  ASSUME TestInv, LoopInv, NVGeneric_DumpMMIO PROVE TestInv' /\ LoopInv'
<1>1. "NV_DumpMMIO" \in GenericTests \cup OtherTests /\ Starts("NV_DumpMMIO")
  BY DEF NVGeneric_DumpMMIO, GenericTests
<1>2. OnlyDies
  BY DEF NVGeneric_DumpMMIO, bringup, OnlyDies
<1>3. PICK opened : Opens(opened)
  BY DEF NVGeneric_DumpMMIO
<1>4. /\ disk' \in [Files -> Seq(Cell)]
      /\ \A f \in Files : disk'[f] = disk[f] \/ disk'[f] = <<>>
  <2>1. \A f \in Files : disk[f] \in Seq(Cell)
    BY DEF TestInv
  <2>2. <<>> \in Seq(Cell)
    OBVIOUS
  <2> QED
    BY <1>3, <2>1, <2>2 DEF Opens
<1>5. full' \in BOOLEAN
  BY DEF NVGeneric_DumpMMIO
<1>6. CASE Returns("false")
  BY <1>1, <1>2, <1>4, <1>5, <1>6, ShortTest DEF NVGeneric_DumpMMIO, TestInv
<1>7. CASE ~Returns("false")
  <2> DEFINE files == IF GPU_IsNV1 THEN {"nv1bar0.bin"} ELSE {"nvbar0.bin", "nvbar1.bin"}
  <2>1. /\ loop' = (IF GPU_IsNV1 THEN "nv1" ELSE "bar0") /\ pos' = 0 /\ result' = "none"
        /\ buf' = [w \in 0 .. 2 * Words - 1 |-> Zero]
        /\ disk' = [f \in Files |-> IF f \in files THEN <<>> ELSE disk[f]]
    BY <1>7 DEF NVGeneric_DumpMMIO, Opens
  <2>2. loop' \in Loops /\ loop' # "bar1" /\ OnDisk' = 0
    BY <2>1, FileNames DEF Loops, OnDisk
  <2>3. loop' = "bar0" => disk'["nvbar1.bin"] = <<>>
    BY <2>1, FileNames
  <2>4. Zero \in Cell
    BY DEF Zero, Cell
  <2>5. Size' = NV_MMIO_SIZE /\ Size' \in Nat
    BY <2>2, SizeOfNextLoop
  <2>6. test' = "NV_DumpMMIO" /\ pc' = "ready" /\ ran' \in 0 .. MaxTests /\ there' = there
    BY Sizes DEF NVGeneric_DumpMMIO, Starts, TestInv, bringup
  <2>7. \A f \in Files :
           Len(disk'[f]) <= IF f = "nvbios.bin" THEN VBIOS_LENGTH ELSE 2 * Words
    BY <1>4, Sizes DEF TestInv
  <2>8. TestInv'
    BY <1>1, <1>4, <1>5, <2>1, <2>2, <2>5, <2>6, <2>7 DEF TestInv, NVGeneric_DumpMMIO
  <2>9. buf' \in [0 .. 2 * Words - 1 -> Cell]
    BY <2>1, <2>4
  <2>10. /\ (4 * OnDisk') % Flush = 0 /\ 4 * OnDisk' <= pos' /\ pos' - 4 * OnDisk' <= Flush
    BY <2>1, <2>2, Sizes
  <2>11. LoopInv'
    BY <2>1, <2>2, <2>3, <2>6, <2>9, <2>10 DEF LoopInv, Loops
  <2> QED
    BY <2>8, <2>11
<1> QED
  BY <1>6, <1>7

-----------------------------------------------------------------------------
(* One round of a loop.                                                    *)

(* What a block is: the last dwords that were read into the buffer.        *)
LEMMA BlockTyped ==
  ASSUME NEW p \in Nat, p % 4 = 0, p >= Flush, p <= 8 * Words, pos = p,
         buf \in [0 .. 2 * Words - 1 -> Cell]
  PROVE  Block \in Seq(Cell) /\ Len(Block) = Flush \div 4
<1>1. PICK w \in Nat : p = 4 * w
  <2>1. p = 4 * (p \div 4) /\ p \div 4 \in Nat
    OBVIOUS
  <2> QED
    BY <2>1
<1>2. PICK g \in Nat : Flush = 4 * g /\ Flush \div 4 = g
  BY Sizes
<1>3. (p - Flush) \div 4 = w - g /\ w - g \in Nat /\ w <= 2 * Words
  BY <1>1, <1>2, Sizes
<1>4. ASSUME NEW i \in 1 .. g PROVE buf[w - g + i - 1] \in Cell
  <2>1. w - g + i - 1 \in 0 .. 2 * Words - 1
    BY <1>3, Sizes
  <2> QED
    BY <2>1
<1>5. Block = [i \in 1 .. g |-> buf[w - g + i - 1]]
  BY <1>2, <1>3 DEF Block
<1> QED
  BY <1>2, <1>4, <1>5

(* The loop has not run past its end, and has a dword left to read unless  *)
(* the last block is due.                                                  *)
LEMMA RoomLeft ==
  ASSUME TestInv, More, loop \in Loops, ~(FlushDue(pos) /\ pos = Size)
  PROVE  pos + 4 <= Size
<1>1. pos \in Nat /\ pos <= Size /\ pos % 4 = 0
  BY DEF TestInv
<1>2. Size \in Nat /\ Size > 0 /\ Size % 4 = 0 /\ Size % Flush = 0
  BY SizeOfLoop
<1>3. pos # Size
  BY <1>1, <1>2 DEF FlushDue
<1> QED
  BY <1>1, <1>2, <1>3

(* What a round does to the files.                                         *)
Round == IF FlushDue(pos) THEN Write(DumpFile[loop], Block) ELSE UNCHANGED <<disk, full>>

(* What is added to the file when a block is due: the block; where the     *)
(* disk is full, the beginning of it, and nothing once it was full before. *)
LEMMA Appended ==
  ASSUME TestInv, LoopInv, loop \in Loops, pc = "ready", FlushDue(pos), Round,
         NEW f, f = DumpFile[loop]
  PROVE  \E part \in Seq(Cell) :
           /\ disk' = [disk EXCEPT ![f] = disk[f] \o part]
           /\ 4 * (OnDisk + Len(part)) <= pos
           /\ full' \in BOOLEAN
           /\ ~full' => ~full /\ 4 * (OnDisk + Len(part)) = pos
           /\ Len(part) > 0 => pos = 4 * OnDisk + Flush
           /\ Len(part) <= Flush \div 4
           /\ \A i \in 1 .. Len(part) : part[i] = Block[i]
<1>1. f \in Files /\ disk[f] \in Seq(Cell) /\ OnDisk \in Nat
  BY FileNames DEF TestInv, OnDisk, Loops
<1>2. pos \in Nat /\ pos > 0 /\ pos % 4 = 0 /\ pos % Flush = 0 /\ 4 * OnDisk <= pos
  BY DEF TestInv, LoopInv, Loops, FlushDue
<1>3. ~full => pos = 4 * OnDisk + Flush
  <2> SUFFICES ASSUME ~full PROVE pos = 4 * OnDisk + Flush
    OBVIOUS
  <2>1. (4 * OnDisk) % Flush = 0 /\ pos - 4 * OnDisk <= Flush /\ 4 * OnDisk < pos
    BY <1>2 DEF LoopInv, Loops
  <2>2. 4 * OnDisk \in Nat /\ Flush \in Nat \ {0}
    BY <1>1, Sizes
  <2>3. pos - 4 * OnDisk = Flush
    BY <1>2, <2>1, <2>2, OneBlockApart
  <2> QED
    BY <1>1, <1>2, <2>2, <2>3
<1>4. Block \in Seq(Cell) /\ Len(Block) = Flush \div 4
  <2>1. pos >= Flush
    <3>1. PICK q \in Int : pos = Flush * q
      BY <1>2, Sizes, Multiple
    <3>2. q >= 1
      BY <1>2, <3>1, Sizes
    <3> QED
      BY <3>1, <3>2, Sizes
  <2>2. pos <= 8 * Words
    BY <1>2, SizeOfLoop, Sizes DEF TestInv
  <2>3. buf \in [0 .. 2 * Words - 1 -> Cell]
    BY DEF LoopInv, Loops
  <2> QED
    BY <1>2, <2>1, <2>2, <2>3, BlockTyped
<1>5. CASE ~full /\ disk' = [disk EXCEPT ![f] = @ \o Block] /\ full' = full
  <2>1. disk' = [disk EXCEPT ![f] = disk[f] \o Block]
    BY <1>5
  <2>2. 4 * (OnDisk + Len(Block)) = pos
    BY <1>1, <1>3, <1>4, <1>5, Sizes
  <2>3. full' \in BOOLEAN
    BY <1>5 DEF TestInv
  <2>4. 4 * (OnDisk + Len(Block)) <= pos
    BY <1>2, <2>2
  <2>5. PICK part \in Seq(Cell) : part = Block
    BY <1>4
  <2>6. Len(part) <= Flush \div 4
    BY <1>4, <2>5, Sizes
  <2>7. pos = 4 * OnDisk + Flush
    BY <1>3, <1>5
  <2> QED
    BY <1>5, <2>1, <2>2, <2>3, <2>4, <2>5, <2>6, <2>7
<1>6. CASE \E n \in 0 .. Len(Block) - 1 :
             /\ full => n = 0
             /\ disk' = [disk EXCEPT ![f] = @ \o SubSeq(Block, 1, n)]
             /\ full' = TRUE
  <2>1. PICK n \in 0 .. Len(Block) - 1 :
             /\ full => n = 0
             /\ disk' = [disk EXCEPT ![f] = @ \o SubSeq(Block, 1, n)]
             /\ full' = TRUE
    BY <1>6
  <2>2. PICK block \in Seq(Cell) : block = Block
    BY <1>4
  <2>3. PICK part : part = SubSeq(block, 1, n)
    OBVIOUS
  <2>4. /\ part \in Seq(Cell) /\ Len(part) = n
        /\ \A i \in 1 .. n : part[i] = block[i]
    BY <2>1, <2>2, <2>3
  <2>5. disk' = [disk EXCEPT ![f] = disk[f] \o part]
    BY <2>1, <2>2, <2>3
  <2>6. n \in Nat /\ n <= Flush \div 4
    BY <1>4, Sizes
  <2>7. n > 0 => pos = 4 * OnDisk + Flush
    BY <1>3, <2>1
  <2>8. 4 * (OnDisk + n) <= pos
    BY <1>1, <1>2, <2>6, <2>7, Sizes
  <2> QED
    BY <2>1, <2>2, <2>4, <2>5, <2>6, <2>7, <2>8
<1> QED
  BY <1>5, <1>6 DEF Round, Write

(* The file of the loop after a round.                                     *)
LEMMA Written ==
  ASSUME TestInv, LoopInv, loop \in Loops, pc = "ready", Round
  PROVE  /\ disk' \in [Files -> Seq(Cell)]
         /\ \A f \in Files \ {DumpFile[loop]} : disk'[f] = disk[f]
         /\ full' \in BOOLEAN /\ (~full' => ~full)
         /\ 4 * Len(disk'[DumpFile[loop]]) <= pos
         /\ FlushDue(pos) /\ ~full' => 4 * Len(disk'[DumpFile[loop]]) = pos
         /\ ~FlushDue(pos) => disk' = disk /\ full' = full
<1>1. PICK f : f = DumpFile[loop]
  OBVIOUS
<1>2. f \in Files /\ disk[f] \in Seq(Cell) /\ OnDisk = Len(disk[f]) /\ OnDisk \in Nat
      /\ disk \in [Files -> Seq(Cell)]
  BY <1>1, FileNames DEF TestInv, OnDisk, Loops
<1>3. CASE FlushDue(pos)
  <2>1. PICK part \in Seq(Cell) :
           /\ disk' = [disk EXCEPT ![f] = disk[f] \o part]
           /\ 4 * (OnDisk + Len(part)) <= pos
           /\ full' \in BOOLEAN
           /\ ~full' => ~full /\ 4 * (OnDisk + Len(part)) = pos
    BY <1>1, <1>3, Appended
  <2>2. PICK new \in Seq(Cell) : new = disk[f] \o part /\ Len(new) = OnDisk + Len(part)
    <3>1. disk[f] \o part \in Seq(Cell)
      BY <1>2, <2>1
    <3>2. Len(disk[f] \o part) = OnDisk + Len(part)
      BY <1>2, <2>1
    <3> QED
      BY <3>1, <3>2
  <2>3. disk' = [disk EXCEPT ![f] = new]
    BY <2>1, <2>2
  <2>4. disk' \in [Files -> Seq(Cell)] /\ disk'[f] = new
        /\ \A g \in Files \ {f} : disk'[g] = disk[g]
    BY <1>2, <2>3, Zenon
  <2>5. Len(disk'[f]) = OnDisk + Len(part)
    BY <2>2, <2>4
  <2> QED
    BY <1>1, <1>3, <2>1, <2>4, <2>5
<1>4. CASE ~FlushDue(pos)
  <2>1. disk' = disk /\ full' = full
    BY <1>4 DEF Round
  <2>2. 4 * OnDisk <= pos /\ full \in BOOLEAN
    BY DEF TestInv, LoopInv, Loops
  <2> QED
    BY <1>1, <1>2, <1>4, <2>1, <2>2
<1> QED
  BY <1>3, <1>4

(* Between two flushes the buffer takes up what is not on the disk yet.    *)
LEMMA NotYetDue ==
  ASSUME TestInv, LoopInv, loop \in Loops, pc = "ready", ~FlushDue(pos), ~full
  PROVE  pos + 4 - 4 * OnDisk <= Flush
<1>1. OnDisk \in Nat
  <2>1. disk[DumpFile[loop]] \in Seq(Cell)
    BY FileNames DEF TestInv, Loops
  <2> QED
    BY <2>1 DEF OnDisk
<1>2. /\ pos \in Nat /\ pos % 4 = 0 /\ (4 * OnDisk) % Flush = 0 /\ 4 * OnDisk <= pos
      /\ pos - 4 * OnDisk <= Flush
  BY DEF TestInv, LoopInv, Loops
<1>3. CASE pos = 0
  BY <1>1, <1>2, <1>3, Sizes
<1>4. CASE pos > 0
  <2>1. pos % Flush # 0
    BY <1>4 DEF FlushDue
  <2>2. pos # 4 * OnDisk + Flush
    <3>1. 4 * OnDisk \in Nat /\ Flush \in Nat \ {0}
      BY <1>1, Sizes
    <3>2. (4 * OnDisk + Flush) % Flush = 0
      BY <1>2, <3>1, NextMultiple
    <3> QED
      BY <2>1, <3>2
  <2>3. pos - 4 * OnDisk < Flush
    BY <1>1, <1>2, <2>2, Sizes
  <2> QED
    BY <1>1, <1>2, <2>3, Sizes
<1> QED
  BY <1>2, <1>3, <1>4

LEMMA EndingKeepsTypes ==
  ASSUME TestInv, LoopInv, loop \in Loops, pc' = pc, pc = "ready", LoopEnds,
         UNCHANGED <<test, there, index, beyond, ran>>, full' \in BOOLEAN,
         disk' \in [Files -> Seq(Cell)],
         \A f \in Files \ {DumpFile[loop]} : disk'[f] = disk[f],
         \A f \in Files : Len(disk'[f]) <= IF f = "nvbios.bin" THEN VBIOS_LENGTH ELSE 2 * Words
  PROVE  TestInv' /\ LoopInv'
<1>1. Size' \in Nat
  BY SizeOfNextLoop
<1>2. CASE loop = "bar0"
  <2>1. loop' = "bar1" /\ pos' = 0 /\ result' = result /\ buf' = buf
    BY <1>2 DEF LoopEnds
  <2>2. OnDisk' = 0
    <3>1. disk'["nvbar1.bin"] = disk["nvbar1.bin"]
      BY <1>2, FileNames
    <3> QED
      BY <1>2, <2>1, <3>1, FileNames DEF LoopInv, OnDisk
  <2>3. TestInv'
    BY <1>1, <2>1 DEF TestInv, Loops
  <2>4. /\ test = "NV_DumpMMIO" /\ result = "none"
        /\ buf \in [0 .. 2 * Words - 1 -> Cell]
    BY <1>2 DEF LoopInv
  <2>5. (4 * OnDisk') % Flush = 0 /\ 4 * OnDisk' <= pos' /\ pos' - 4 * OnDisk' <= Flush
    BY <2>1, <2>2, Sizes
  <2> QED
    BY <2>1, <2>3, <2>4, <2>5 DEF LoopInv
<1>3. CASE loop # "bar0"
  <2>1. loop' = "none" /\ pos' = 0 /\ buf' = <<>> /\ result' = "true"
    BY <1>3 DEF LoopEnds
  <2> QED
    BY <1>1, <2>1 DEF TestInv, LoopInv
<1> QED
  BY <1>2, <1>3

(* No file is longer than its BAR: what is on the disk was read before.    *)
LEMMA FilesFit ==
  ASSUME TestInv, LoopInv, loop \in Loops, pc = "ready", Round
  PROVE  \A f \in Files :
           Len(disk'[f]) <= IF f = "nvbios.bin" THEN VBIOS_LENGTH ELSE 2 * Words
<1>1. PICK f : f = DumpFile[loop]
  OBVIOUS
<1>2. f \in Files /\ f # "nvbios.bin"
  BY <1>1, FileNames DEF Loops
<1>3. disk' \in [Files -> Seq(Cell)] /\ 4 * Len(disk'[f]) <= pos
      /\ \A g \in Files \ {f} : disk'[g] = disk[g]
  BY <1>1, Written
<1>4. Len(disk'[f]) <= 2 * Words
  <2>1. pos \in Nat /\ pos <= 8 * Words
    BY SizeOfLoop, Sizes DEF TestInv
  <2>2. Len(disk'[f]) \in Nat
    BY <1>2, <1>3
  <2> QED
    BY <1>3, <2>1, <2>2, Sizes
<1> QED
  BY <1>2, <1>3, <1>4 DEF TestInv

LEMMA FetchKeepsTypes ==
  ASSUME TestInv, LoopInv, loop \in Loops, pc = "ready", pos + 4 <= Size, Fetch,
         Round,
         UNCHANGED <<boot_0, test, there, index, ran>>
  PROVE  TestInv' /\ LoopInv'
<1>1. loop' = loop /\ result' = result /\ pc' \in {"ready", "dead"}
      /\ beyond' \in {"no", "segment", "buffer"}
  BY DEF Fetch, Store, TestInv
<1>2. Size' = Size
  BY <1>1, SizeStays
<1>3. pos \in Nat /\ pos % 4 = 0 /\ OnDisk \in Nat
  <2>1. disk[DumpFile[loop]] \in Seq(Cell)
    BY FileNames DEF TestInv, Loops
  <2> QED
    BY <2>1 DEF TestInv, OnDisk
<1>4. \/ pos' = pos /\ buf' = buf /\ pc' = "dead"
      \/ \E cell \in Cell : pos' = pos + 4 /\ buf' = [buf EXCEPT ![pos \div 4] = cell]
  <2>1. NONE \in Cell /\ Shown(loop, pos) \in Cell
    BY <1>3 DEF NONE, Shown, Cell, Loops
  <2> QED
    BY <2>1 DEF Fetch, Store
<1>5. /\ pos' \in Nat /\ pos' % 4 = 0 /\ pos' <= Size
      /\ pos <= pos' /\ pos' <= pos + 4 /\ (pc' = "ready" => pos' = pos + 4)
  BY <1>1, <1>3, <1>4, SizeOfLoop
<1>6. buf' \in [0 .. 2 * Words - 1 -> Cell]
  BY <1>4 DEF LoopInv, Loops
<1>7. disk' \in [Files -> Seq(Cell)] /\ full' \in BOOLEAN /\ (~full' => ~full)
  BY Written
<1>8. TestInv'
  BY <1>1, <1>2, <1>5, <1>7, FilesFit DEF TestInv
<1>9. OnDisk' = Len(disk'[DumpFile[loop]]) /\ OnDisk' \in Nat
  <2>1. disk'[DumpFile[loop]] \in Seq(Cell)
    BY <1>7, FileNames DEF Loops
  <2> QED
    BY <1>1, <2>1 DEF OnDisk
<1>10. 4 * OnDisk' <= pos'
  <2>1. 4 * OnDisk' <= pos
    BY <1>9, Written
  <2> QED
    BY <1>3, <1>5, <1>9, <2>1, SizeOfLoop
<1>11. ASSUME ~full'
       PROVE  /\ (4 * OnDisk') % Flush = 0 /\ pos' - 4 * OnDisk' <= Flush
              /\ pc' = "ready" /\ pos' > 0 => 4 * OnDisk' < pos'
  <2>1. CASE FlushDue(pos)
    <3>1. 4 * OnDisk' = pos
      BY <1>9, <1>11, <2>1, Written
    <3>2. pos % Flush = 0
      BY <2>1 DEF FlushDue
    <3>3. (4 * OnDisk') % Flush = 0
      BY <3>1, <3>2
    <3>4. pos' - 4 * OnDisk' <= Flush
      BY <1>3, <1>5, <3>1, Sizes
    <3>5. pc' = "ready" => 4 * OnDisk' < pos'
      BY <1>3, <1>5, <3>1
    <3> QED
      BY <3>3, <3>4, <3>5
  <2>2. CASE ~FlushDue(pos)
    <3>1. ~full /\ OnDisk' = OnDisk /\ OnDisk \in Nat
      BY <1>3, <1>7, <1>9, <1>11, <2>2, Written DEF OnDisk
    <3>2. (4 * OnDisk) % Flush = 0 /\ 4 * OnDisk <= pos
      BY <3>1 DEF LoopInv, Loops
    <3>3. (4 * OnDisk') % Flush = 0
      BY <3>1, <3>2
    <3>4. pos + 4 - 4 * OnDisk <= Flush
      BY <2>2, <3>1, NotYetDue
    <3>5. pos' - 4 * OnDisk' <= Flush
      <4>1. ASSUME NEW p \in Nat, NEW q \in Nat, NEW d \in Nat, NEW F \in Nat,
                   q <= p + 4, p + 4 - 4 * d <= F
            PROVE  q - 4 * d <= F
        BY ONLY <4>1
      <4>2. OnDisk' = OnDisk /\ OnDisk \in Nat /\ Flush \in Nat
        BY <3>1, Sizes
      <4>3. pos \in Nat /\ pos' \in Nat /\ pos' <= pos + 4
        BY <1>3, <1>5
      <4> QED
        BY <3>4, <4>1, <4>2, <4>3
    <3>6. pc' = "ready" => 4 * OnDisk' < pos'
      BY <1>3, <1>5, <3>1, <3>2
    <3> QED
      BY <3>3, <3>5, <3>6
  <2> QED
    BY <2>1, <2>2
<1>12. loop = "bar0" => disk'["nvbar1.bin"] = <<>>
  BY Written, FileNames DEF LoopInv
<1> QED
  <2>1. loop' # "none" /\ test' = "NV_DumpMMIO" /\ result' = "none"
    BY <1>1 DEF LoopInv, Loops
  <2> QED
    BY <1>1, <1>6, <1>8, <1>10, <1>11, <1>12, <2>1 DEF LoopInv

LEMMA RoundKeepsTypes == ASSUME TestInv, LoopInv, Iterate PROVE TestInv' /\ LoopInv'
<1>1. /\ loop \in Loops /\ pc = "ready" /\ More
      /\ UNCHANGED <<boot_0, test, there, index, ran>>
      /\ Round
  BY DEF Iterate, Round, TestInv, kind
<1>2. CASE FlushDue(pos) /\ pos = Size
  <2>1. LoopEnds /\ pc' = pc /\ beyond' = beyond
    BY <1>2 DEF Iterate
  <2> QED
    BY <1>1, <2>1, Written, FilesFit, EndingKeepsTypes
<1>3. CASE ~(FlushDue(pos) /\ pos = Size)
  <2>1. Fetch
    BY <1>3 DEF Iterate
  <2>2. pos + 4 <= Size
    BY <1>1, <1>3, RoomLeft
  <2> QED
    BY <1>1, <2>1, <2>2, FetchKeepsTypes
<1> QED
  BY <1>2, <1>3

LEMMA EndKeepsTypes == ASSUME TestInv, LoopInv, RunsOut PROVE TestInv' /\ LoopInv'
<1>1. /\ loop \in Loops /\ pc = "ready" /\ pc' = pc /\ LoopEnds /\ disk' = disk
      /\ UNCHANGED <<test, there, index, beyond, ran>>
  BY DEF RunsOut, TestInv, bringup
<1>2. full' \in BOOLEAN
  BY DEF RunsOut, TestInv
<1> QED
  BY <1>1, <1>2, EndingKeepsTypes DEF TestInv

LEMMA StepKeepsDumpInv == DumpInv /\ [Next]_vars => DumpInv'
<1> SUFFICES ASSUME DumpInv, [Next]_vars PROVE DumpInv'
  OBVIOUS
<1>1. ClockInv /\ BringInv /\ TestInv /\ LoopInv
  BY DEF DumpInv
<1>2. ClockInv'
  BY <1>1, StepKeepsClocks
<1>3. CASE (Bring \/ Dies \/ (loop = "none" /\ ShutdownHal)) /\ UNCHANGED testVars
  BY <1>1, <1>2, <1>3, BringKeepsTypes, BringKeepsTests DEF DumpInv
<1>4. CASE Test
  <2>1. BringInv'
    BY <1>1, <1>4, TestKeepsBringInv
  <2>2. TestInv' /\ LoopInv'
    BY <1>1, <1>4, PrintingKeepsTypes, TextKeepsTypes, VBIOSKeepsTypes, MMIOKeepsTypes,
       RoundKeepsTypes, EndKeepsTypes DEF Test
  <2> QED
    BY <1>2, <2>1, <2>2 DEF DumpInv
<1>5. CASE UNCHANGED vars
  BY <1>1, <1>2, <1>5, StutterKeepsDumps DEF DumpInv
<1> QED
  BY <1>3, <1>4, <1>5 DEF Next

(* The variables have their types, with whatever cards in the machine.     *)
THEOREM DumpsTypeOK == Spec => []TypeOK
<1>1. DumpInv => TypeOK
  <2> SUFFICES ASSUME DumpInv PROVE TypeOK
    OBVIOUS
  <2>1. BringInv /\ TestInv /\ LoopInv
    BY DEF DumpInv
  <2>2. pos \in 0 .. Size
    BY <2>1, SizeOfLoop DEF TestInv
  <2>3. DOMAIN buf = IF loop = "none" THEN {} ELSE 0 .. 2 * Words - 1
    <3>1. CASE loop = "none"
      BY <2>1, <3>1 DEF LoopInv
    <3>2. CASE loop # "none"
      BY <2>1, <3>2 DEF LoopInv
    <3> QED
      BY <3>1, <3>2
  <2> QED
    BY <2>1, <2>2, <2>3, FileNames DEF TypeOK, BringInv, TestInv, LoopInv
<1> QED
  BY <1>1, DumpInvInit, StepKeepsDumpInv, PTL DEF Spec

(* Wherever a dump of a BAR of any size is cut short, one block at most of *)
(* what was read is not in the file, unless the disk has filled up: the    *)
(* flushes of NVGeneric_DumpMMIO.                                          *)
THEOREM DumpsCrashLosesOneBlock == Spec => []CrashLosesOneBlock
<1>1. DumpInv => CrashLosesOneBlock
  BY DEF DumpInv, LoopInv, OnDisk, CrashLosesOneBlock
<1> QED
  BY <1>1, DumpInvInit, StepKeepsDumpInv, PTL DEF Spec

-----------------------------------------------------------------------------
(* What is in a dump                                                       *)

(* What the functions of a family are used for, and what NV_PMC_BOOT_0     *)
(* says, is the same card, if a card was read.                             *)
Sure == OnCard => /\ GPU_IsNV3 <=> hal = "nv3"
                  /\ GPU_IsNV1 => hal = "nv1"

Known == {"save", "switch", "ready", "exited"} \cup Coefficients

FamilyInv ==
  /\ pc \in {"detect", "map", "identify"} => boot_0 = 0
  /\ pc \in {"map", "identify"} =>
       device \in machine /\ Fits(device, supported_devices[entry])
  /\ test # "none" => pc \in {"ready", "exited", "dead"}
  /\ test # "none" \/ pc \in Known => Sure

Holds(l) == \A i \in 1 .. Len(disk[DumpFile[l]]) :
              i <= Words => disk[DumpFile[l]][i] = Wanted(l, i)

Complete ==
  test = "NV_DumpMMIO" /\ result = "true" /\ ~full /\ ~GPU_IsNV1 =>
    /\ Len(disk["nvbar0.bin"]) = Words
    /\ Len(disk["nvbar1.bin"]) = vram_dump_size \div 4

(* The buffer holds what the loop has read, as far as it is the buffer.    *)
Buffered == \A w \in 0 .. Words - 1 : 4 * w < pos => buf[w] = Wanted(loop, w + 1)

BarInv ==
  /\ test = "none" => \A l \in Loops : disk[DumpFile[l]] = <<>>
  /\ loop # "none" => (loop = "nv1" <=> GPU_IsNV1)
  /\ loop = "bar1" /\ ~full => Len(disk["nvbar0.bin"]) = Words
  /\ OnCard => /\ \A l \in Loops : Holds(l)
               /\ loop # "none" => Buffered
               /\ Complete

ContentInv == DumpInv /\ FamilyInv /\ BarInv

(* A step that leaves the card, and what is known of it, alone.            *)
SameCard == UNCHANGED <<machine, entry, device, seg0, boot_0>>

LEMMA CardStays ==
  ASSUME SameCard
  PROVE  /\ hal' = hal /\ OnCard' = OnCard /\ vram_dump_size' = vram_dump_size
         /\ GPU_IsNV1' = GPU_IsNV1 /\ GPU_IsNV3' = GPU_IsNV3
         /\ Sure' = Sure
         /\ \A l, i : Wanted(l, i)' = Wanted(l, i)
<1>1. hal' = hal /\ OnCard' = OnCard
  BY HalStays DEF SameCard, OnCard
<1>2. /\ vram_dump_size' = vram_dump_size
      /\ GPU_IsNV1' = GPU_IsNV1 /\ GPU_IsNV3' = GPU_IsNV3
  BY DEF SameCard, vram_dump_size, GPU_IsNV1, GPU_IsNV3, GPU_IsNV5, GPU_IsNV10
<1>3. Sure' = Sure
  BY <1>1, <1>2 DEF Sure
<1>4. \A l, i : Wanted(l, i)' = Wanted(l, i)
  BY <1>1 DEF Wanted
<1> QED
  BY <1>1, <1>2, <1>3, <1>4

LEMMA ContentInit == DumpsInit => FamilyInv /\ BarInv
<1> SUFFICES ASSUME DumpsInit PROVE FamilyInv /\ BarInv
  OBVIOUS
<1>1. FamilyInv
  BY DEF DumpsInit, Init, FamilyInv, Known, Coefficients
<1>2. \A l \in Loops : disk[DumpFile[l]] = <<>>
  BY FileNames DEF DumpsInit, Loops
<1>3. BarInv
  BY <1>2 DEF DumpsInit, BarInv, Holds, Complete
<1> QED
  BY <1>1, <1>3

(* A card that was found and read is what the functions take it for.       *)
LEMMA IdentifyIsSure ==
  ASSUME BringInv, FamilyInv, Identify PROVE Sure'
<1>1. /\ pc = "identify" /\ boot_0 = 0 /\ device \in machine /\ machine \in Machines
      /\ entry \in 1 .. Len(supported_devices) /\ Fits(device, supported_devices[entry])
  BY DEF Identify, FamilyInv, BringInv, BringupTypeOK
<1>2. hal' = hal /\ OnCard' = OnCard
  BY HalStays DEF Identify, found, OnCard
<1>3. CASE hal \in {"virge", "alpine"}
  <2>1. boot_0' = 0
    BY <1>1, <1>3 DEF Identify, kind
  <2>2. ~GPU_IsNV3' /\ ~GPU_IsNV1'
    BY <2>1 DEF GPU_IsNV3, GPU_IsNV1, NV_PMC_BOOT_NV3, NV_PMC_BOOT_NV1
  <2> QED
    BY <1>2, <1>3, <2>2 DEF Sure
<1>4. CASE hal \notin {"virge", "alpine"}
  <2>1. OnCard => boot_0' = device.boot
    BY <1>4 DEF Identify, OnCard
  <2>2. /\ NV_PMC_BOOT_NV3(device.boot) <=> hal = "nv3"
        /\ device.boot \in NV_PMC_BOOT_NV1 => hal = "nv1"
    BY <1>1, <1>4, BootAssumption DEF hal
  <2> QED
    BY <1>2, <2>1, <2>2 DEF Sure, GPU_IsNV3, GPU_IsNV1
<1> QED
  BY <1>3, <1>4

LEMMA LaterSteps ==
  ASSUME SaveClocks \/ SwitchClocks \/ (\E c \in Coefficients : ProgramClock(c))
         \/ ShutdownHal \/ Dies
  PROVE  SameCard
  BY DEF SaveClocks, SwitchClocks, ProgramClock, ShutdownHal, Dies, SameCard,
         found, mapped, kind

LEMMA BringKeepsFamily ==
  ASSUME BringInv, FamilyInv, UNCHANGED testVars, Bring \/ Dies \/ ShutdownHal
  PROVE  FamilyInv'
<1>1. test' = test
  BY DEF testVars
<1>2. CASE GPU_Detect
  <2>1. pc = "detect" /\ boot_0' = boot_0 /\ machine' = machine /\ test = "none"
        /\ pc' \in {"detect", "map", "no card"}
    BY <1>2 DEF GPU_Detect, kind, FamilyInv
  <2>2. pc' = "map" => /\ device' \in machine /\ entry' = entry
                       /\ Fits(device', supported_devices[entry])
    BY <1>2 DEF GPU_Detect
  <2> QED
    BY <1>1, <2>1, <2>2 DEF FamilyInv, Known, Coefficients
<1>3. CASE Map
  <2>1. /\ pc = "map" /\ pc' = "identify" /\ boot_0' = boot_0 /\ test = "none"
        /\ machine' = machine /\ device' = device /\ entry' = entry
    BY <1>3 DEF Map, kind, found, FamilyInv
  <2> QED
    BY <1>1, <2>1 DEF FamilyInv, Known, Coefficients
<1>4. CASE Identify
  <2>1. pc = "identify" /\ test = "none" /\ pc' \in {"save", "ready"}
    BY <1>4 DEF Identify, FamilyInv
  <2> QED
    BY <1>1, <1>4, <2>1, IdentifyIsSure DEF FamilyInv
<1>5. CASE \/ SaveClocks \/ SwitchClocks \/ (\E c \in Coefficients : ProgramClock(c))
           \/ ShutdownHal
  <2>1. pc \in Known /\ pc' \in Known /\ (test # "none" => pc' = "exited")
    BY <1>5 DEF SaveClocks, SwitchClocks, ProgramClock, ShutdownHal, After, Known,
                Coefficients, FamilyInv
  <2>2. Sure'
    BY <1>5, <2>1, LaterSteps, CardStays DEF FamilyInv
  <2>3. pc' \notin {"detect", "map", "identify"}
    BY <2>1 DEF Known, Coefficients
  <2> QED
    BY <1>1, <2>1, <2>2, <2>3 DEF FamilyInv
<1>6. CASE Dies
  <2>1. pc' = "dead"
    BY <1>6 DEF Dies
  <2> QED
    BY <1>1, <1>6, <2>1, LaterSteps, CardStays DEF FamilyInv, Known, Coefficients
<1> QED
  BY <1>2, <1>3, <1>4, <1>5, <1>6 DEF Bring

LEMMA DyingIsSameCard == OnlyDies => SameCard
  BY DEF OnlyDies, SameCard, found, mapped, kind

LEMMA TestKeepsFamily == ASSUME LoopInv, FamilyInv, Test PROVE FamilyInv'
<1>1. OnlyDies
  BY TestOnlyDies
<1>2. pc = "ready" /\ test' # "none"
  BY DEF Test, PrintingTest, NVGeneric_DumpMMIO, Iterate, RunsOut, NVGeneric_DumpVBIOS,
         NVGeneric_DumpText, Starts, OtherTests, TextTests, LoopInv
<1>3. Sure'
  BY <1>1, <1>2, DyingIsSameCard, CardStays DEF FamilyInv, Known
<1>4. pc' \in {"ready", "dead"}
  BY <1>1, <1>2 DEF OnlyDies
<1> QED
  BY <1>2, <1>3, <1>4 DEF FamilyInv

-----------------------------------------------------------------------------
(* The steps that read nothing keep what is in the dumps.                  *)

LEMMA HoldsStays ==
  ASSUME SameCard, NEW l \in Loops, Holds(l),
         disk'[DumpFile[l]] = disk[DumpFile[l]] \/ disk'[DumpFile[l]] = <<>>
  PROVE  Holds(l)'
<1>1. \A i : Wanted(l, i)' = Wanted(l, i)
  BY CardStays
<1>2. CASE disk'[DumpFile[l]] = disk[DumpFile[l]]
  BY <1>1, <1>2 DEF Holds
<1>3. CASE disk'[DumpFile[l]] = <<>>
  BY <1>3 DEF Holds
<1> QED
  BY <1>2, <1>3

(* A test that is not the dump, or that gives up, and the end of one.      *)
LEMMA ShortKeepsContent ==
  ASSUME BarInv, SameCard, loop' = "none", test' # "none",
         test' = "NV_DumpMMIO" => result' # "true",
         \A l \in Loops : disk'[DumpFile[l]] \in {disk[DumpFile[l]], <<>>}
  PROVE  BarInv'
<1>1. OnCard' => \A l \in Loops : Holds(l)'
  BY HoldsStays, CardStays DEF BarInv
<1>2. Complete'
  BY DEF Complete
<1> QED
  BY <1>1, <1>2 DEF BarInv

LEMMA BringKeepsContent ==
  ASSUME BringInv, LoopInv, FamilyInv, BarInv, UNCHANGED testVars,
         Bring \/ Dies \/ ShutdownHal \/ UNCHANGED vars
  PROVE  BarInv'
<1>1. /\ test' = test /\ loop' = loop /\ pos' = pos /\ buf' = buf /\ disk' = disk
      /\ result' = result /\ full' = full
  BY DEF testVars
<1>2. CASE SameCard
  <2>1. OnCard' => \A l \in Loops : Holds(l)'
    BY <1>1, <1>2, HoldsStays, CardStays DEF BarInv
  <2>2. OnCard' /\ loop' # "none" => Buffered'
    BY <1>1, <1>2, CardStays DEF BarInv, Buffered
  <2>3. OnCard' => Complete'
    <3>1. /\ hal' = hal /\ GPU_IsNV1' = GPU_IsNV1 /\ vram_dump_size' = vram_dump_size
          /\ OnCard' = OnCard
      BY <1>2, CardStays
    <3>2. Complete' = Complete
      BY <1>1, <3>1, Zenon DEF Complete
    <3> QED
      BY <3>1, <3>2 DEF BarInv
  <2> QED
    BY <1>1, <1>2, <2>1, <2>2, <2>3, CardStays DEF BarInv
<1>3. CASE GPU_Detect \/ Map \/ Identify
  <2>1. test = "none" /\ loop = "none"
    BY <1>3 DEF GPU_Detect, Map, Identify, FamilyInv, LoopInv
  <2>2. \A l \in Loops : disk'[DumpFile[l]] = <<>>
    BY <1>1, <2>1 DEF BarInv
  <2>3. \A l \in Loops : Holds(l)'
    BY <2>2 DEF Holds
  <2>4. Complete'
    BY <1>1, <2>1 DEF Complete
  <2> QED
    BY <1>1, <2>1, <2>2, <2>3, <2>4 DEF BarInv
<1>4. UNCHANGED vars => SameCard
  BY DEF vars, bringup, found, mapped, kind, SameCard
<1> QED
  BY <1>2, <1>3, <1>4, LaterSteps DEF Bring

-----------------------------------------------------------------------------
(* The steps of the dump fill and complete the files.                      *)

LEMMA DumpStarts ==
  ASSUME LoopInv, BarInv, NVGeneric_DumpMMIO PROVE BarInv'
<1>1. OnlyDies /\ SameCard
  BY DyingIsSameCard DEF NVGeneric_DumpMMIO, bringup, OnlyDies
<1>2. test' = "NV_DumpMMIO" /\ loop = "none"
  BY DEF NVGeneric_DumpMMIO, Starts
<1>3. PICK opened : Opens(opened)
  BY DEF NVGeneric_DumpMMIO
<1>4. \A l \in Loops : disk'[DumpFile[l]] \in {disk[DumpFile[l]], <<>>}
  BY <1>3, FileNames DEF Opens, Loops
<1>5. CASE Returns("false")
  BY <1>1, <1>2, <1>4, <1>5, ShortKeepsContent DEF Returns
<1>6. CASE ~Returns("false")
  <2>1. loop' = (IF GPU_IsNV1 THEN "nv1" ELSE "bar0") /\ pos' = 0 /\ result' = "none"
    BY <1>6 DEF NVGeneric_DumpMMIO
  <2>2. OnCard' => \A l \in Loops : Holds(l)'
    BY <1>1, <1>4, HoldsStays, CardStays DEF BarInv
  <2>3. Buffered'
    BY <2>1 DEF Buffered
  <2>4. Complete'
    BY <2>1 DEF Complete
  <2>5. GPU_IsNV1' = GPU_IsNV1
    BY <1>1, CardStays
  <2> QED
    BY <1>2, <2>1, <2>2, <2>3, <2>4, <2>5 DEF BarInv
<1> QED
  BY <1>5, <1>6

(* The dwords of a block are those of its place in the BAR.                *)
LEMMA BlockHolds ==
  ASSUME NEW p \in Nat, NEW d \in Nat, p = 4 * d + Flush, pos = p, Buffered,
         NEW i \in 1 .. Flush \div 4, d + i <= Words
  PROVE  Block[i] = Wanted(loop, d + i)
<1>1. PICK g \in Nat : Flush = 4 * g /\ Flush \div 4 = g
  BY Sizes
<1>2. (p - Flush) \div 4 = d
  BY <1>1
<1>3. Block[i] = buf[d + i - 1]
  BY <1>2 DEF Block
<1>4. d + i - 1 \in 0 .. Words - 1 /\ 4 * (d + i - 1) < pos
  BY <1>1, Sizes
<1>5. buf[d + i - 1] = Wanted(loop, (d + i - 1) + 1)
  BY <1>4 DEF Buffered
<1>6. (d + i - 1) + 1 = d + i
  BY <1>1
<1> QED
  BY <1>3, <1>5, <1>6

(* What is appended to a file that holds the beginning of its BAR.         *)
LEMMA RoundHolds ==
  ASSUME TestInv, LoopInv, loop \in Loops, pc = "ready", SameCard,
         \A l \in Loops : Holds(l), Buffered,
         Round
  PROVE  \A l \in Loops : Holds(l)'
<1>1. CASE ~FlushDue(pos)
  BY <1>1, HoldsStays DEF Round
<1>2. CASE FlushDue(pos)
  <2>1. PICK f : f = DumpFile[loop]
    OBVIOUS
  <2>2. f \in Files /\ disk[f] \in Seq(Cell) /\ disk \in [Files -> Seq(Cell)]
        /\ \A l \in Loops : l # loop => DumpFile[l] # f
    BY <2>1, FileNames DEF TestInv, Loops
  <2>3. PICK d \in Nat : d = Len(disk[f])
    BY <2>2
  <2>4. d = OnDisk
    BY <2>1, <2>3 DEF OnDisk
  <2>5. PICK part \in Seq(Cell) :
           /\ disk' = [disk EXCEPT ![f] = disk[f] \o part]
           /\ Len(part) > 0 => pos = 4 * d + Flush
           /\ Len(part) <= Flush \div 4
           /\ \A i \in 1 .. Len(part) : part[i] = Block[i]
    BY <1>2, <2>1, <2>4, Appended
  <2>6. PICK new : new = disk[f] \o part
    OBVIOUS
  <2>7. disk'[f] = new /\ \A l \in Loops : l # loop => disk'[DumpFile[l]] = disk[DumpFile[l]]
    <3>1. disk' = [disk EXCEPT ![f] = new]
      BY <2>5, <2>6
    <3>2. disk'[f] = new /\ \A g \in Files \ {f} : disk'[g] = disk[g]
      BY <2>2, <3>1, Zenon
    <3>3. \A l \in Loops : l # loop => DumpFile[l] \in Files \ {f}
      BY <2>2, FileNames DEF Loops
    <3> QED
      BY <3>2, <3>3
  <2>8. /\ Len(new) = d + Len(part)
        /\ \A i \in 1 .. d : new[i] = disk[f][i]
        /\ \A i \in d + 1 .. d + Len(part) : new[i] = part[i - d]
    BY <2>2, <2>3, <2>6
  <2>9. ASSUME NEW i \in 1 .. Len(new), i <= Words PROVE new[i] = Wanted(loop, i)
    <3>1. CASE i <= d
      <4>1. disk[f][i] = Wanted(loop, i)
        BY <2>1, <2>3, <2>9, <3>1 DEF Holds
      <4> QED
        BY <2>8, <3>1, <4>1
    <3>2. CASE i > d
      <4>1. PICK j \in 1 .. Len(part) : j = i - d /\ d + j = i
        <5>1. Len(part) \in Nat /\ i <= d + Len(part) /\ i \in Nat
          BY <2>3, <2>8
        <5>2. i - d \in 1 .. Len(part) /\ d + (i - d) = i
          BY <2>3, <3>2, <5>1
        <5> QED
          BY <5>2
      <4>2. new[i] = part[j] /\ part[j] = Block[j]
        <5>1. i \in d + 1 .. d + Len(part)
          BY <2>3, <2>8, <3>2
        <5> QED
          BY <2>5, <2>8, <4>1, <5>1
      <4>3. j \in 1 .. Flush \div 4
        BY <2>5, <4>1, Sizes
      <4>4. pos \in Nat /\ pos = 4 * d + Flush
        BY <2>5, <4>1 DEF TestInv
      <4>5. Block[j] = Wanted(loop, d + j)
        BY <2>3, <2>9, <4>1, <4>3, <4>4, BlockHolds
      <4> QED
        BY <4>1, <4>2, <4>5
    <3> QED
      BY <2>3, <2>8, <3>1, <3>2
  <2>10. ASSUME NEW l, l = loop PROVE Holds(l)'
    <3>1. disk'[DumpFile[l]] = new
      BY <2>1, <2>7, <2>10
    <3>2. \A i \in 1 .. Len(new) : i <= Words => new[i] = Wanted(l, i)
      BY <2>9, <2>10
    <3>3. \A i : Wanted(l, i)' = Wanted(l, i)
      BY CardStays
    <3> QED
      BY <3>1, <3>2, <3>3 DEF Holds
  <2>11. ASSUME NEW l \in Loops, l # loop PROVE Holds(l)'
    BY <2>7, <2>11, HoldsStays
  <2> QED
    BY <2>10, <2>11
<1> QED
  BY <1>1, <1>2

(* What goes into the buffer is what should be in the dump: the areas that *)
(* are not read are those of an NV3.                                       *)
LEMMA FetchedIsWanted ==
  ASSUME OnCard, Sure, NEW w \in Nat, pos = 4 * w
  PROVE  Wanted(loop, w + 1) = IF Skips THEN NONE ELSE Shown(loop, pos)
<1>1. 4 * ((w + 1) - 1) = pos /\ pos \in Nat
  OBVIOUS
<1>2. NV3_MMIOAreaIsExcluded(pos) <=> \E area \in excluded_areas : pos \in area[1] .. area[2]
  <2>1. \A area \in excluded_areas : area[1] \in Nat /\ area[2] \in Nat
    BY DumpsAssumption
  <2> QED
    BY <1>1, <2>1 DEF NV3_MMIOAreaIsExcluded
<1>3. Skips <=> /\ loop = "bar0" /\ hal = "nv3"
                /\ \E area \in excluded_areas : pos \in area[1] .. area[2]
  BY <1>2 DEF Skips, Sure
<1> QED
  BY <1>1, <1>3 DEF Wanted

LEMMA FetchFills ==
  ASSUME TestInv, LoopInv, loop \in Loops, OnCard, Sure, SameCard, Buffered, Fetch
  PROVE  Buffered'
<1>1. PICK w \in Nat : pos = 4 * w /\ w = pos \div 4
  BY DEF TestInv
<1>2. PICK cell : cell = IF Skips THEN NONE ELSE Shown(loop, pos)
  OBVIOUS
<1>3. /\ loop' = loop
      /\ \/ pos' = pos /\ buf' = buf
         \/ pos' = pos + 4 /\ buf' = [buf EXCEPT ![w] = cell]
  BY <1>1, <1>2 DEF Fetch, Store
<1>4. cell = Wanted(loop, w + 1)
  BY <1>1, <1>2, FetchedIsWanted
<1>5. loop' = loop /\ hal' = hal
  BY <1>3, CardStays
<1>6. buf \in [0 .. 2 * Words - 1 -> Cell]
  BY DEF LoopInv, Loops
<1>7. ASSUME NEW v \in 0 .. Words - 1, 4 * v < pos'
      PROVE  buf'[v] = Wanted(loop, v + 1)
  <2>1. CASE pos' = pos /\ buf' = buf
    BY <1>7, <2>1 DEF Buffered
  <2>2. CASE pos' = pos + 4 /\ buf' = [buf EXCEPT ![w] = cell]
    <3>1. v \in 0 .. 2 * Words - 1 /\ v \in Nat
      BY Sizes
    <3>2. CASE v = w
      BY <1>4, <1>6, <2>2, <3>1, <3>2
    <3>3. CASE v # w
      <4>1. 4 * v < pos
        BY <1>1, <1>7, <2>2, <3>1, <3>3
      <4>2. buf'[v] = buf[v]
        BY <1>6, <2>2, <3>1, <3>3
      <4> QED
        BY <4>1, <4>2 DEF Buffered
    <3> QED
      BY <3>2, <3>3
  <2> QED
    BY <1>3, <2>1, <2>2
<1> QED
  BY <1>5, <1>7, Zenon DEF Buffered, Wanted

(* The file of a loop that ends, and the others: NV1's lacks its last      *)
(* block.                                                                  *)
Finished == loop # "nv1" /\ ~full' => 4 * Len(disk'[DumpFile[loop]]) = Size

LEMMA EndingCompletes ==
  ASSUME TestInv, LoopInv, BarInv, Sure, loop \in Loops, SameCard, LoopEnds, test' = test,
         OnCard => \A l \in Loops : Holds(l)',
         \A f \in Files \ {DumpFile[loop]} : disk'[f] = disk[f],
         disk' \in [Files -> Seq(Cell)], ~full' => ~full, Finished
  PROVE  BarInv'
<1>1. /\ OnCard' = OnCard /\ hal' = hal /\ GPU_IsNV1' = GPU_IsNV1
      /\ vram_dump_size' = vram_dump_size
  BY CardStays
<1>2. test = "NV_DumpMMIO" /\ result = "none" /\ (loop = "nv1" <=> GPU_IsNV1)
  BY DEF LoopInv, BarInv, Loops
<1>3. \A f \in Files : Len(disk'[f]) \in Nat
  BY DEF TestInv
<1>4. CASE loop = "bar0"
  <2>1. loop' = "bar1" /\ pos' = 0 /\ result' = "none"
    BY <1>2, <1>4 DEF LoopEnds
  <2>2. ASSUME ~full' PROVE Len(disk'["nvbar0.bin"]) = Words
    <3>1. 4 * Len(disk'["nvbar0.bin"]) = 4 * Words
      BY <1>4, <2>2, SizeOfLoop, Sizes, FileNames DEF Finished
    <3> QED
      BY <1>3, <3>1, Sizes, FileNames
  <2>3. Buffered'
    BY <2>1 DEF Buffered
  <2>4. Complete'
    BY <2>1 DEF Complete
  <2> QED
    BY <1>1, <1>2, <1>4, <2>1, <2>2, <2>3, <2>4 DEF BarInv
<1>5. CASE loop = "bar1"
  <2>1. loop' = "none" /\ ~GPU_IsNV1
    BY <1>2, <1>5 DEF LoopEnds
  <2>2. ~full' => Len(disk'["nvbar0.bin"]) = Words
    BY <1>5, FileNames DEF BarInv
  <2>3. ASSUME ~full' PROVE Len(disk'["nvbar1.bin"]) = vram_dump_size \div 4
    <3>1. 4 * Len(disk'["nvbar1.bin"]) = vram_dump_size
      BY <1>5, <2>3, FileNames DEF Finished, Size
    <3> QED
      BY <1>3, <3>1, FileNames
  <2>4. Complete'
    BY <1>1, <2>1, <2>2, <2>3 DEF Complete
  <2> QED
    BY <1>1, <1>2, <2>1, <2>4 DEF BarInv
<1>6. CASE loop = "nv1"
  <2>1. loop' = "none" /\ GPU_IsNV1
    BY <1>2, <1>6 DEF LoopEnds
  <2>2. Complete'
    BY <1>1, <2>1 DEF Complete
  <2> QED
    BY <1>1, <1>2, <2>1, <2>2 DEF BarInv
<1> QED
  BY <1>4, <1>5, <1>6 DEF Loops

LEMMA RoundKeepsContent ==
  ASSUME TestInv, LoopInv, FamilyInv, BarInv, Iterate PROVE BarInv'
<1>1. /\ loop \in Loops /\ pc = "ready" /\ More /\ test' = test
      /\ Round
  BY DEF Iterate, Round, TestInv
<1>2. SameCard
  <2>1. Test
    BY DEF Test
  <2> QED
    BY <2>1, TestOnlyDies, DyingIsSameCard
<1>3. Sure
  BY <1>1 DEF FamilyInv, Known
<1>4. OnCard => Buffered /\ \A l \in Loops : Holds(l)
  BY <1>1 DEF BarInv, Loops
<1>5. OnCard => \A l \in Loops : Holds(l)'
  BY <1>1, <1>2, <1>4, RoundHolds
<1>6. /\ disk' \in [Files -> Seq(Cell)]
      /\ \A f \in Files \ {DumpFile[loop]} : disk'[f] = disk[f]
      /\ FlushDue(pos) /\ ~full' => 4 * Len(disk'[DumpFile[loop]]) = pos
      /\ ~full' => ~full
  BY <1>1, Written
<1>7. CASE FlushDue(pos) /\ pos = Size
  <2>1. LoopEnds
    BY <1>7 DEF Iterate
  <2>2. loop # "nv1"
    BY <1>1, <1>7, SizeOfLoop, Sizes DEF More
  <2>3. Finished
    BY <1>6, <1>7, <2>2 DEF Finished
  <2> QED
    BY <1>1, <1>2, <1>3, <1>5, <1>6, <2>1, <2>3, EndingCompletes
<1>8. CASE ~(FlushDue(pos) /\ pos = Size)
  <2>1. Fetch
    BY <1>8 DEF Iterate
  <2>2. loop' = loop /\ result' = result
    BY <2>1 DEF Fetch, Store
  <2>3. test = "NV_DumpMMIO" /\ result = "none"
    BY <1>1 DEF LoopInv, Loops
  <2>4. OnCard => Buffered'
    BY <1>1, <1>2, <1>3, <1>4, <2>1, FetchFills
  <2>5. Complete'
    BY <2>2, <2>3 DEF Complete
  <2>6. loop = "bar1" => disk'["nvbar0.bin"] = disk["nvbar0.bin"]
    BY <1>6, FileNames
  <2>7. OnCard' = OnCard /\ GPU_IsNV1' = GPU_IsNV1
    BY <1>2, CardStays
  <2> QED
    BY <1>1, <1>5, <1>6, <2>2, <2>3, <2>4, <2>5, <2>6, <2>7 DEF BarInv
<1> QED
  BY <1>7, <1>8

(* Only the loop of NV1 runs out.                                          *)
LEMMA EndKeepsContent ==
  ASSUME TestInv, LoopInv, FamilyInv, BarInv, RunsOut PROVE BarInv'
<1>1. /\ loop \in Loops /\ pc = "ready" /\ ~More /\ test' = test /\ disk' = disk /\ LoopEnds
      /\ full' = full
  BY DEF RunsOut, TestInv
<1>2. SameCard
  <2>1. Test
    BY DEF Test
  <2> QED
    BY <2>1, TestOnlyDies, DyingIsSameCard
<1>3. Sure
  BY <1>1 DEF FamilyInv, Known
<1>4. OnCard => \A l \in Loops : Holds(l)'
  BY <1>1, <1>2, HoldsStays DEF BarInv
<1>5. loop = "nv1"
  <2>1. pos \in Nat /\ pos <= Size /\ Size \in Nat
    BY SizeOfLoop DEF TestInv
  <2> QED
    BY <1>1, <2>1, SizeOfLoop, Sizes DEF More
<1>6. disk' \in [Files -> Seq(Cell)] /\ \A f \in Files \ {DumpFile[loop]} : disk'[f] = disk[f]
  BY <1>1 DEF TestInv
<1>7. Finished
  BY <1>5 DEF Finished
<1> QED
  BY <1>1, <1>2, <1>3, <1>4, <1>6, <1>7, EndingCompletes

(* The other tests write at most the VBIOS, which no dump of a BAR is.     *)
LEMMA OthersKeepContent ==
  ASSUME TestInv, LoopInv, BarInv, Test, ~NVGeneric_DumpMMIO, ~Iterate, ~RunsOut
  PROVE  BarInv'
<1>1. SameCard
  BY TestOnlyDies, DyingIsSameCard
<1>2. \A l \in Loops : DumpFile[l] # "nvbios.bin" /\ DumpFile[l] \in Files
  BY FileNames DEF Loops
<1>3. CASE \E t \in OtherTests \cup {"NV_DumpPCI"} : PrintingTest(t)
  <2>1. loop' = "none" /\ test' \notin {"none", "NV_DumpMMIO"} /\ disk' = disk
    BY <1>3 DEF PrintingTest, Starts, Returns, OtherTests
  <2> QED
    BY <1>1, <2>1, ShortKeepsContent
<1>4. CASE \E t \in DOMAIN TextTests : NVGeneric_DumpText(t)
  <2>1. loop' = "none" /\ test' \notin {"none", "NV_DumpMMIO"} /\ disk' = disk
    BY <1>4 DEF NVGeneric_DumpText, Starts, Returns, TextTests
  <2> QED
    BY <1>1, <2>1, ShortKeepsContent
<1>5. CASE NVGeneric_DumpVBIOS
  <2>1. loop' = "none" /\ test' = "NV_DumpVBIOS"
    BY <1>5 DEF NVGeneric_DumpVBIOS, Starts, Returns
  <2>2. disk' = disk \/ \E image : disk' = [disk EXCEPT !["nvbios.bin"] = image]
    BY <1>5 DEF NVGeneric_DumpVBIOS
  <2>3. \A l \in Loops : disk'[DumpFile[l]] = disk[DumpFile[l]]
    <3>1. disk \in [Files -> Seq(Cell)]
      BY DEF TestInv
    <3> QED
      BY <1>2, <2>2, <3>1
  <2> QED
    BY <1>1, <2>1, <2>3, ShortKeepsContent
<1> QED
  BY <1>3, <1>4, <1>5 DEF Test

LEMMA StepKeepsContent == ContentInv /\ [Next]_vars => ContentInv'
<1> SUFFICES ASSUME ContentInv, [Next]_vars PROVE ContentInv'
  OBVIOUS
<1>1. BringInv /\ TestInv /\ LoopInv /\ FamilyInv /\ BarInv /\ DumpInv
  BY DEF ContentInv, DumpInv
<1>2. DumpInv'
  BY <1>1, StepKeepsDumpInv
<1>3. CASE (Bring \/ Dies \/ ShutdownHal) /\ UNCHANGED testVars
  BY <1>1, <1>2, <1>3, BringKeepsFamily, BringKeepsContent DEF ContentInv
<1>4. CASE Test
  <2>1. FamilyInv'
    BY <1>1, <1>4, TestKeepsFamily
  <2>2. BarInv'
    BY <1>1, <1>4, DumpStarts, RoundKeepsContent, EndKeepsContent, OthersKeepContent
  <2> QED
    BY <1>2, <2>1, <2>2 DEF ContentInv
<1>5. CASE UNCHANGED vars
  <2>1. UNCHANGED testVars /\ SameCard /\ pc' = pc
    BY <1>5 DEF vars, bringup, found, mapped, kind, SameCard
  <2>2. FamilyInv'
    BY <1>1, <2>1, CardStays DEF FamilyInv, SameCard, testVars
  <2> QED
    BY <1>1, <1>2, <1>5, <2>1, <2>2, BringKeepsContent DEF ContentInv
<1> QED
  BY <1>3, <1>4, <1>5 DEF Next

(* Whatever the card and the size of a block: a dump holds, in its place,  *)
(* every dword of the BAR but those that must not be read of an NV3, also  *)
(* where the disk has filled up; while it has room, the dump of an NV3 or  *)
(* later that says it succeeded is complete: NVGeneric_DumpMMIO and        *)
(* NV3_MMIOAreaIsExcluded.                                                 *)
THEOREM DumpsAreTheBar == Spec => []DumpIsTheBar
<1>1. ContentInv => DumpIsTheBar
  BY FileNames DEF ContentInv, BarInv, Holds, Complete, DumpIsTheBar
<1>2. DumpsInit => ContentInv
  BY DumpInvInit, ContentInit DEF ContentInv
<1> QED
  BY <1>1, <1>2, StepKeepsContent, PTL DEF Spec

=============================================================================
