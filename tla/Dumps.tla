-------------------------------- MODULE Dumps --------------------------------
(***************************************************************************)
(* The tests that command runtest can reach (core/tests/tests.c), on the   *)
(* card that Bringup has found: the dumps of nv_generic_tests.c and the    *)
(* NV3 functions under them (nv3_tests.c).  They read the card through its *)
(* two segments into buffers, and write these to files, block by block:    *)
(* "Flush every 64kb, because the real NV3 hardware may crash at some      *)
(* point".                                                                 *)
(***************************************************************************)
EXTENDS Bringup

CONSTANTS
  NV_MMIO_DUMP_FLUSH_FREQUENCY,
  excluded_areas,        (* what of an NV3 must not be read: <<start, end>> *)
  NV1_PROM, NV3_PROM_START, NV4_PRAMIN_START,
  VBIOS_LENGTH,          (* in dwords                                       *)
  MaxTests               (* bound: tests per behaviour                      *)

Flush == NV_MMIO_DUMP_FLUSH_FREQUENCY

ASSUME DumpsAssumption ==
  /\ MB % 4 = 0 /\ Flush \in Nat \ {0} /\ Flush % 4 = 0 /\ NV_MMIO_SIZE % Flush = 0
  /\ excluded_areas \subseteq Nat \X Nat
  /\ {NV1_PROM, NV3_PROM_START, NV4_PRAMIN_START, VBIOS_LENGTH, MaxTests} \subseteq Nat

(* What gpu.h says of the cards: one that the table gives to the functions *)
(* of NV3 has the id of an NV3 in NV_PMC_BOOT_0, any other has not, and    *)
(* only one that it gives to those of NV1 has the id of an NV1.            *)
ASSUME BootAssumption ==
  \A m \in Machines : \A c \in m : \A e \in 1 .. Len(supported_devices) :
    LET h == supported_devices[e].hal IN
    Fits(c, supported_devices[e]) /\ h \notin {"virge", "alpine"} =>
      /\ NV_PMC_BOOT_NV3(c.boot) <=> h = "nv3"
      /\ c.boot \in NV_PMC_BOOT_NV1 => h = "nv1"

VARIABLES
  test,     (* the test that runs, or ran last                              *)
  result,   (* what it has returned, or "none"                              *)
  loop,     (* the loop of NV_DumpMMIO that runs: "nv1", "bar0", "bar1"     *)
  pos,      (* its loop variable                                            *)
  buf,      (* mmio_dump_bar_buf, and as much memory again behind it        *)
  disk,     (* the files that the tests create                              *)
  full,     (* there has been no room on the disk for all of a dump         *)
  there,    (* the files that they expect to exist                          *)
  index,    (* the card: the cache's index register that was written last   *)
  beyond,   (* ghost: "segment" or "buffer", which of them was left         *)
  ran       (* tests so far                                                 *)

testVars == <<test, result, loop, pos, buf, disk, full, there, index, beyond, ran>>
vars == <<bringup, testVars>>

-----------------------------------------------------------------------------
(* The tests                                                               *)

GenericTests == {"NV_DumpPCI", "NV_DumpMMIO", "NV_DumpVBIOS", "NV_DumpFIFO",
                 "NV_DumpRAMHT", "NV_DumpRAMFC", "NV_DumpRAMRO", "NV_DumpCACHE"}

(* The configuration is read before the card is known: the tests for cards *)
(* of one family never get into the list that Test_Get goes through.       *)
OtherTests == {"NV3_SetOverclock"}

(* What a buffer or a file holds: the dword that a segment shows at an     *)
(* offset, the filler for excluded areas, zeros.                           *)
Shown(seg, o) == <<seg, o>>
NONE == <<"NONE", 0>>
Zero == <<"zero", 0>>

Words    == NV_MMIO_SIZE \div 4
DumpFile == [nv1 |-> "nv1bar0.bin", bar0 |-> "nvbar0.bin", bar1 |-> "nvbar1.bin"]
Files    == {DumpFile[l] : l \in DOMAIN DumpFile} \cup {"nvbios.bin"}
TextFiles == {"fifo", "ramht", "ramfc", "ramro", "cache"}

DumpsInit ==
  /\ Init
  /\ test = "none" /\ result = "none" /\ loop = "none" /\ pos = 0 /\ buf = <<>>
  /\ disk = [f \in Files |-> <<>>] /\ full = FALSE /\ there \in {{}, TextFiles}
  /\ index = "none" /\ beyond = "no" /\ ran = 0

(* Command_RunTest: the test at the prompt.                                *)
Starts(t) ==
  /\ pc = "ready" /\ loop = "none" /\ ran < MaxTests
  /\ test' = t /\ ran' = ran + 1
  /\ UNCHANGED there

Returns(r) == result' = r /\ UNCHANGED <<loop, pos, buf>>

(* A test that is not in the list, and NVGeneric_DumpPCISpace, which reads *)
(* configuration space and prints it.                                      *)
PrintingTest(t) ==
  /\ Starts(t)
  /\ t \in OtherTests \cup {"NV_DumpPCI"}
  /\ Returns(IF t = "NV_DumpPCI" THEN "true" ELSE "false")
  /\ UNCHANGED <<bringup, disk, full, index, beyond>>

-----------------------------------------------------------------------------
(* NV_DumpMMIO                                                             *)

Opens(files) == disk' = [f \in Files |-> IF f \in files THEN <<>> ELSE disk[f]]

(* Any of the files may fail to open, and calloc may fail.  The files that *)
(* were opened are empty, and stay open.                                   *)
NVGeneric_DumpMMIO ==
  LET files == IF GPU_IsNV1 THEN {"nv1bar0.bin"} ELSE {"nvbar0.bin", "nvbar1.bin"} IN
  /\ Starts("NV_DumpMMIO")
  /\ \/ /\ \E opened \in SUBSET files : Opens(opened)
        /\ Returns("false")
     \/ /\ Opens(files)
        /\ loop' = IF GPU_IsNV1 THEN "nv1" ELSE "bar0"
        /\ pos' = 0 /\ buf' = [w \in 0 .. 2 * Words - 1 |-> Zero]
        /\ result' = "none"
  /\ full' = FALSE
  /\ UNCHANGED <<bringup, index, beyond>>

(* "later devices have above 16mb of vram": the buffer has not.            *)
vram_dump_size == IF GPU_IsNV5 \/ GPU_IsNV10 THEN 2 * NV_MMIO_SIZE ELSE NV_MMIO_SIZE

Size  == IF loop = "bar1" THEN vram_dump_size ELSE NV_MMIO_SIZE
Limit == IF loop = "bar1" THEN seg1.limit ELSE seg0.limit

(* Mutant: the first dword of an area is taken for readable.               *)
NV3_MMIOAreaIsExcluded_After(addr) ==
  \E area \in excluded_areas : area[1] < addr /\ addr <= area[2]
NV3_MMIOAreaIsExcluded(addr) ==
  \E area \in excluded_areas : area[1] <= addr /\ addr <= area[2]

Skips == loop = "bar0" /\ GPU_IsNV3 /\ NV3_MMIOAreaIsExcluded(pos)

(* Mutant: every other block is left for later.                            *)
FlushDue_Late(p) == p > 0 /\ p % (2 * Flush) = 0
FlushDue(p) == p > 0 /\ p % Flush = 0

Block == [i \in 1 .. Flush \div 4 |-> buf[(pos - Flush) \div 4 + i - 1]]

(* NV1's loop has one byte less than the others, and so no last round in   *)
(* which the last block would be written.                                  *)
More == IF loop = "nv1" THEN pos <= NV_MMIO_SIZE - 1 ELSE pos <= Size

(* On to BAR1, or the buffer is freed and the test returns.                *)
(* Mutant: it is not freed.                                                *)
LoopEnds_Leaks ==
  IF loop = "bar0"
    THEN loop' = "bar1" /\ pos' = 0 /\ UNCHANGED <<result, buf>>
    ELSE loop' = "none" /\ pos' = 0 /\ result' = "true" /\ UNCHANGED buf
LoopEnds ==
  IF loop = "bar0"
    THEN loop' = "bar1" /\ pos' = 0 /\ UNCHANGED <<result, buf>>
    ELSE loop' = "none" /\ pos' = 0 /\ buf' = <<>> /\ result' = "true"

Store(cell) ==
  /\ buf' = [buf EXCEPT ![pos \div 4] = cell]
  /\ pos' = pos + 4
  /\ UNCHANGED <<loop, result>>

(* The dword at pos goes into the buffer.  Beyond the segment's limit the  *)
(* program faults; beyond the buffer it writes into the heap, and faults,  *)
(* or does not.                                                            *)
Fetch ==
  IF Skips THEN Store(NONE) /\ UNCHANGED <<pc, beyond>>
  ELSE IF pos + 3 > Limit
    THEN pc' = "dead" /\ beyond' = "segment" /\ UNCHANGED <<loop, pos, buf, result>>
    ELSE /\ Store(Shown(loop, pos))
         /\ IF pos \div 4 < Words THEN UNCHANGED <<pc, beyond>>
            ELSE beyond' = "buffer" /\ pc' \in {pc, "dead"}

(* fwrite and fflush of the block.  On a full disk a part of it is kept    *)
(* and, as nobody makes room while the dump goes on, nothing after that;   *)
(* neither result is looked at.                                            *)
Write(file, block) ==
  \/ /\ ~full
     /\ disk' = [disk EXCEPT ![file] = @ \o block]
     /\ UNCHANGED full
  \/ \E n \in 0 .. Len(block) - 1 :
       /\ full => n = 0
       /\ disk' = [disk EXCEPT ![file] = @ \o SubSeq(block, 1, n)]
       /\ full' = TRUE

Iterate ==
  /\ pc = "ready" /\ loop # "none" /\ More
  /\ IF FlushDue(pos) THEN Write(DumpFile[loop], Block) ELSE UNCHANGED <<disk, full>>
  /\ IF FlushDue(pos) /\ pos = Size
       THEN LoopEnds /\ UNCHANGED <<pc, beyond>> ELSE Fetch
  /\ UNCHANGED <<found, mapped, kind, clocks, test, there, index, ran>>

RunsOut ==
  /\ pc = "ready" /\ loop # "none" /\ ~More
  /\ LoopEnds
  /\ UNCHANGED <<bringup, test, disk, full, there, index, beyond, ran>>

-----------------------------------------------------------------------------
(* The other dumps                                                         *)

BaseLocation ==
  LET generation == GPU_NV_GetGeneration IN
  CASE generation = 1 -> NV1_PROM
    [] generation = 3 -> NV3_PROM_START
    [] generation \in 4 .. 16 -> NV4_PRAMIN_START
    [] OTHER -> 0

(* No result is looked at: fwrite to NULL is undefined, and on a full disk *)
(* the file is short.                                                      *)
NVGeneric_DumpVBIOS ==
  LET vbios_bin == [i \in 1 .. VBIOS_LENGTH |-> Shown("bar0", BaseLocation + 4 * (i - 1))] IN
  /\ Starts("NV_DumpVBIOS")
  /\ Returns("true")
  /\ \/ /\ \E n \in 0 .. VBIOS_LENGTH :
             disk' = [disk EXCEPT !["nvbios.bin"] = SubSeq(vbios_bin, 1, n)]
        /\ UNCHANGED pc
     \/ pc' \in {pc, "dead"} /\ UNCHANGED disk
  /\ UNCHANGED <<found, mapped, kind, clocks, full, index, beyond>>

TextTests == [NV_DumpFIFO |-> "fifo", NV_DumpRAMHT |-> "ramht", NV_DumpRAMFC |-> "ramfc",
              NV_DumpRAMRO |-> "ramro", NV_DumpCACHE |-> "cache"]

(* Which hals have a function for it: nv_generic_hal.c.                    *)
DumpFunctions(h) == CASE h = "nv3" -> TextFiles [] h = "nv4" -> {"cache"} [] OTHER -> {}

(* The arrays on the stack: dwords, and the sizes the card may be set to,  *)
(* in bytes.  The loops count bytes, and index the array with the count.   *)
ArrayOf == [fifo |-> 0, ramht |-> 8196, ramro |-> 2048, ramfc |-> 1024, cache |-> 1]
SizesOf == [fifo |-> {0}, ramht |-> {4096, 8192, 16384, 32768}, ramro |-> {512, 8192},
            ramfc |-> {4096}, cache |-> {4}]

Refused(t) == t = "NV_DumpCACHE" /\ (GPU_IsNV10 \/ GPU_IsNV1)

(* NV3_DumpPGRAPHCacheBank writes the index register it takes for the      *)
(* card's: GPU_IsNV4 is false for NV5, and true for an NV3T made by TSMC.  *)
NVGeneric_DumpText(t) ==
  LET what   == TextTests[t]
      opened == ~Refused(t) /\ what \in there
      runs   == opened /\ what \in DumpFunctions(hal)
  IN
  /\ Starts(t)
  /\ Returns(IF opened THEN "true" ELSE "false")
  /\ index' = IF runs /\ what = "cache" THEN (IF GPU_IsNV4 THEN "nv4" ELSE "nv3") ELSE index
  /\ \E size \in SizesOf[what] :
       IF runs /\ size > 0 /\ size - 4 >= ArrayOf[what]
         THEN beyond' = "buffer" /\ pc' \in {pc, "dead"}
         ELSE UNCHANGED <<pc, beyond>>
  /\ UNCHANGED <<found, mapped, kind, clocks, disk, full>>

Test ==
  \/ \E t \in OtherTests \cup {"NV_DumpPCI"} : PrintingTest(t)
  \/ NVGeneric_DumpMMIO \/ Iterate \/ RunsOut
  \/ NVGeneric_DumpVBIOS
  \/ \E t \in DOMAIN TextTests : NVGeneric_DumpText(t)

Next ==
  \/ (Bring \/ Dies) /\ UNCHANGED testVars
  \/ loop = "none" /\ ShutdownHal /\ UNCHANGED testVars
  \/ Test

Spec == DumpsInit /\ [][Next]_vars

-----------------------------------------------------------------------------
(* Properties                                                              *)

(* The variables have their types; no loop runs outside a test.            *)
TypeOK ==
  /\ BringupTypeOK
  /\ test \in GenericTests \cup OtherTests \cup {"none"}
  /\ result \in {"none", "true", "false"}
  /\ loop \in DOMAIN DumpFile \cup {"none"}
  /\ loop # "none" => test = "NV_DumpMMIO" /\ result = "none"
  /\ pos \in 0 .. Size /\ pos % 4 = 0
  /\ DOMAIN buf = IF loop = "none" THEN {} ELSE 0 .. 2 * Words - 1
  /\ DOMAIN disk = Files /\ full \in BOOLEAN /\ there \subseteq TextFiles
  /\ \A f \in Files : Len(disk[f]) <= IF f = "nvbios.bin" THEN VBIOS_LENGTH ELSE 2 * Words
  /\ index \in {"none", "nv3", "nv4"} /\ beyond \in {"no", "segment", "buffer"}
  /\ ran \in 0 .. MaxTests

(* What a dump of a BAR should hold in its i'th dword.                     *)
Wanted(l, i) ==
  IF /\ l = "bar0" /\ hal = "nv3"
     /\ \E area \in excluded_areas : 4 * (i - 1) \in area[1] .. area[2]
  THEN NONE ELSE Shown(l, 4 * (i - 1))

(* Every dword of a dump is the one that stands at this place in the BAR,  *)
(* but for the areas of an NV3 that must not be read, as far as the buffer *)
(* reaches: also when the disk has filled up, and the dump went on.  A     *)
(* dump of an NV3 or later that says it succeeded is complete unless the   *)
(* disk has filled up; of an NV1's, see NV1DumpIsComplete.                 *)
DumpIsTheBar ==
  OnCard =>
    /\ \A l \in DOMAIN DumpFile : \A i \in 1 .. Len(disk[DumpFile[l]]) :
         i <= Words => disk[DumpFile[l]][i] = Wanted(l, i)
    /\ test = "NV_DumpMMIO" /\ result = "true" /\ ~full /\ ~GPU_IsNV1 =>
         /\ Len(disk["nvbar0.bin"]) = Words
         /\ Len(disk["nvbar1.bin"]) = vram_dump_size \div 4

(* "Flush every 64kb, because the real NV3 hardware may crash": wherever a *)
(* dump is cut short, as long as the disk has had room no more than the    *)
(* last block that was read is not on it.                                  *)
CrashLosesOneBlock ==
  loop # "none" /\ ~full => pos - 4 * Len(disk[DumpFile[loop]]) <= Flush

-----------------------------------------------------------------------------
(* What the repository says, and the code does not do                      *)

(* nv_generic_tests.c:168 and :194: "don't try and read out of bounds".    *)
MMIODumpStaysInBounds ==
  test = "NV_DumpMMIO" /\ OnCard /\ hal \in HasBar1 => beyond = "no"

(* nv_generic_tests.c:95: "Dump all known memory regions".  The loop over  *)
(* NV1's BAR0 ends before the round that would write the last block.       *)
NV1DumpIsComplete ==
  OnCard /\ test = "NV_DumpMMIO" /\ result = "true" /\ GPU_IsNV1 /\ ~full =>
    Len(disk["nv1bar0.bin"]) = Words

(* What a test returns tells Command_RunTest's user whether there is a     *)
(* dump; with the results of fwrite and fflush ignored it does not.        *)
SuccessIsComplete ==
  OnCard /\ test = "NV_DumpMMIO" /\ result = "true" /\ ~GPU_IsNV1 =>
    Len(disk["nvbar0.bin"]) = Words

=============================================================================
