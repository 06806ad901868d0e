--------------------------------- MODULE Vga --------------------------------
(***************************************************************************)
(* The commands that read and write the card's VGA registers               *)
(* (core/script/script_commands.c) and the VGA_ functions under them       *)
(* (core/gpu/gpu_io.c).  A register is reached in several port accesses:   *)
(* its index goes to one port, its value through another.  The port        *)
(* commands iow8/16/32 and ior8/16/32 work on the same ports, and leave    *)
(* index latches and the attribute controller's flip-flop as they please.  *)
(*                                                                         *)
(* Register groups: "seq" sequencer, "gdc" graphics, "crtc", "attr".       *)
(***************************************************************************)
EXTENDS Integers, Sequences

CONSTANTS
  AddrMod,      (* 2^32: what the loop variables of ranges hold             *)
  RegMod,       (* 2^8: an index, and a value, is a uint8_t                 *)
  LastIndex,    (* [group |-> ..._INDEX_END, NV3_CRTC_REGISTER_NVIDIA_END]  *)
  Operands,     (* the numbers that users type, as uint32_t                 *)
  Ports,        (* the ports they name in port commands, as uint16_t        *)
  PortBytes,    (* the bytes they write there                               *)
  MaxCommands   (* bound: commands per behaviour                            *)

Groups == {"seq", "gdc", "crtc", "attr"}
Bytes  == 0 .. RegMod - 1

ASSUME VgaAssumption ==
  /\ RegMod \in Nat /\ AddrMod \in Nat /\ 0 < RegMod /\ RegMod <= AddrMod
  /\ LastIndex \in [Groups -> Bytes]
  /\ Operands \subseteq 0 .. AddrMod - 1 /\ Ports \subseteq Nat
  /\ PortBytes \subseteq Bytes /\ MaxCommands \in Nat

VARIABLES
  regs,       (* the card: its registers                                    *)
  latch,      (* the index register of each group                           *)
  flip,       (* what the attribute port expects: "index" or "data"         *)
  colour,     (* bit 0 of the miscellaneous output register: the CRTC is at *)
              (* 3D4, the input status at 3DA, and not at 3B4 and 3BA       *)
  status0,    (* bit 0 of a read of 3C2                                     *)
  cmd,        (* the command that is running, or ran last                   *)
  at,         (* the loop variable of its range                             *)
  step,       (* the access of the VGA_ function that comes next            *)
  status,     (* "idle", "running", "returned" true, "refused"              *)
  done,       (* ghost: the register operation that has just been completed *)
  before,     (* ghost: the registers when the command began                *)
  typed       (* commands so far                                            *)

cardVars == <<regs, latch, flip, colour, status0>>
vars == <<regs, latch, flip, colour, status0, cmd, at, step, status, done,
          before, typed>>

-----------------------------------------------------------------------------
(* Ports                                                                   *)

VGA_PORT_ATTRIBUTE_REGISTER   == 960    (* 3C0                              *)
VGA_PORT_ATTRIBUTE_DATA_WRITE == 961
VGA_PORT_MISCOUT              == 962
VGA_PORT_SEQUENCER_INDEX      == 964
VGA_PORT_SEQUENCER            == 965
VGA_PORT_GRAPHICS_INDEX       == 974    (* 3CE                              *)
VGA_PORT_GRAPHICS             == 975
VGA_PORT_MONO_CRTC_INDEX      == 948    (* 3B4                              *)
VGA_PORT_MONO_CRTC            == 949
VGA_PORT_COLOR_CRTC_INDEX     == 980    (* 3D4                              *)
VGA_PORT_COLOR_CRTC           == 981
VGA_PORT_INPUT0_MONO          == 954    (* 3BA                              *)
VGA_PORT_INPUT0_COLOR         == 986    (* 3DA                              *)

Out(p, b) == [dir |-> "out", port |-> p, byte |-> b]
In(p)     == [dir |-> "in", port |-> p, byte |-> 0]

(* The ports at which the card has its CRTC and its input status.          *)
CrtcIndex(c)   == IF c THEN VGA_PORT_COLOR_CRTC_INDEX ELSE VGA_PORT_MONO_CRTC_INDEX
CrtcData(c)    == IF c THEN VGA_PORT_COLOR_CRTC ELSE VGA_PORT_MONO_CRTC
InputStatus(c) == IF c THEN VGA_PORT_INPUT0_COLOR ELSE VGA_PORT_INPUT0_MONO

-----------------------------------------------------------------------------
(* The VGA_ functions, as the accesses they make.  m: bit 0 of what they   *)
(* read from VGA_PORT_MISCOUT, i: index, v: value.                         *)

VGA_ReadSequencer(i) ==
  <<Out(VGA_PORT_SEQUENCER_INDEX, i), In(VGA_PORT_SEQUENCER)>>

VGA_WriteSequencer(i, v) ==
  <<Out(VGA_PORT_SEQUENCER_INDEX, i), Out(VGA_PORT_SEQUENCER, v)>>

VGA_ReadGraphics(i) ==
  <<Out(VGA_PORT_GRAPHICS_INDEX, i), In(VGA_PORT_GRAPHICS)>>

(* The ports are the CRTC's.                                               *)
VGA_WriteGraphics(i, v) ==
  <<Out(VGA_PORT_COLOR_CRTC_INDEX, i), Out(VGA_PORT_COLOR_CRTC, v)>>

(* The answer is the index port's.                                         *)
VGA_ReadCRTC(m, i) == <<In(VGA_PORT_MISCOUT), In(CrtcIndex(m))>>

(* With colour, the value goes to both ports.                              *)
VGA_WriteCRTC(m, i, v) ==
  <<In(VGA_PORT_MISCOUT), Out(CrtcIndex(m), IF m THEN v ELSE i), Out(CrtcData(m), v)>>

VGA_ReadAttribute(m, i) ==
  <<In(VGA_PORT_MISCOUT), In(InputStatus(m)),
    Out(VGA_PORT_ATTRIBUTE_REGISTER, i), In(VGA_PORT_ATTRIBUTE_DATA_WRITE)>>

(* Mutant: the read that resets the flip-flop is left out.                 *)
VGA_WriteAttribute_NoReset(m, i, v) ==
  <<In(VGA_PORT_MISCOUT),
    Out(VGA_PORT_ATTRIBUTE_REGISTER, i), Out(VGA_PORT_ATTRIBUTE_REGISTER, v)>>
VGA_WriteAttribute(m, i, v) ==
  <<In(VGA_PORT_MISCOUT), In(InputStatus(m)),
    Out(VGA_PORT_ATTRIBUTE_REGISTER, i), Out(VGA_PORT_ATTRIBUTE_REGISTER, v)>>

(* A wide port access is that many byte accesses at consecutive ports.     *)
PortAccess(c) ==
  [j \in 1 .. c.width |->
     IF c.kind = "write" THEN Out(c.port + j - 1, c.bytes[j]) ELSE In(c.port + j - 1)]

(* Mutant: the parameters are as wide as the commands' variables.          *)
Cut_Not(n) == n
(* A uint32_t passed for a uint8_t.                                        *)
Cut(n) == n % RegMod

(* The accesses of a command, or of one turn of its loop at o.             *)
Accesses(c, m, o) ==
  LET i == Cut(o)  v == Cut(c.value) IN
  CASE c.group = "port"                      -> PortAccess(c)
    [] c.group = "seq"  /\ c.kind = "read"   -> VGA_ReadSequencer(i)
    [] c.group = "seq"  /\ c.kind = "write"  -> VGA_WriteSequencer(i, v)
    [] c.group = "gdc"  /\ c.kind = "read"   -> VGA_ReadGraphics(i)
    [] c.group = "gdc"  /\ c.kind = "write"  -> VGA_WriteGraphics(i, v)
    [] c.group = "crtc" /\ c.kind = "read"   -> VGA_ReadCRTC(m, i)
    [] c.group = "crtc" /\ c.kind = "write"  -> VGA_WriteCRTC(m, i, v)
    [] c.group = "attr" /\ c.kind = "read"   -> VGA_ReadAttribute(m, i)
    [] OTHER                                 -> VGA_WriteAttribute(m, i, v)

-----------------------------------------------------------------------------
(* The card: what one access does to it, and what it answers.              *)

IndexPortOf(g) ==
  CASE g = "seq" -> VGA_PORT_SEQUENCER_INDEX
    [] g = "gdc" -> VGA_PORT_GRAPHICS_INDEX
    [] g = "crtc" -> CrtcIndex(colour)
    [] OTHER -> VGA_PORT_ATTRIBUTE_REGISTER

DataPortOf(g) ==
  CASE g = "seq" -> VGA_PORT_SEQUENCER
    [] g = "gdc" -> VGA_PORT_GRAPHICS
    [] g = "crtc" -> CrtcData(colour)
    [] OTHER -> VGA_PORT_ATTRIBUTE_REGISTER

(* Writes to the attribute port are indexes and data in turn.              *)
Latches(a, g) ==
  /\ a.dir = "out" /\ a.port = IndexPortOf(g)
  /\ g = "attr" => flip = "index"

Stores(a, g) ==
  /\ a.dir = "out" /\ a.port = DataPortOf(g)
  /\ g = "attr" => flip = "data"

Respond(a) ==
  /\ latch' = [g \in Groups |-> IF Latches(a, g) THEN a.byte ELSE latch[g]]
  /\ regs' = [g \in Groups |->
                IF Stores(a, g) THEN [regs[g] EXCEPT ![latch[g]] = a.byte]
                                ELSE regs[g]]
  /\ flip' = IF a.dir = "out" /\ a.port = VGA_PORT_ATTRIBUTE_REGISTER
               THEN IF flip = "index" THEN "data" ELSE "index"
             ELSE IF a.dir = "in" /\ a.port = InputStatus(colour) THEN "index"
             ELSE flip
  /\ colour' = IF a.dir = "out" /\ a.port = VGA_PORT_MISCOUT
                 THEN a.byte % 2 = 1 ELSE colour
  /\ UNCHANGED status0

(* What a read answers; 0 stands for the answers of ports whose values the *)
(* functions that can be relied on do not use.                             *)
Answer(a) ==
  CASE a.port = VGA_PORT_SEQUENCER            -> regs["seq"][latch["seq"]]
    [] a.port = VGA_PORT_GRAPHICS             -> regs["gdc"][latch["gdc"]]
    [] a.port = CrtcData(colour)              -> regs["crtc"][latch["crtc"]]
    [] a.port = VGA_PORT_ATTRIBUTE_DATA_WRITE -> regs["attr"][latch["attr"]]
    [] OTHER                                  -> 0

-----------------------------------------------------------------------------
(* The commands                                                            *)

(* Nothing has been completed; something of which nothing is promised.     *)
Quiet  == [kind |-> "quiet"]
Direct == [kind |-> "direct"]

NoCommand == [group |-> "none", kind |-> "none", form |-> "none", start |-> 0,
              end |-> 0, value |-> 0, operand |-> 0, port |-> 0, width |-> 0, bytes |-> <<>>]

Init ==
  /\ regs = [g \in Groups |-> [i \in Bytes |-> 0]]
  /\ latch = [g \in Groups |-> 0] /\ flip \in {"index", "data"}
  /\ colour \in BOOLEAN /\ status0 \in BOOLEAN
  /\ cmd = NoCommand /\ at = 0 /\ step = 1 /\ status = "idle"
  /\ done = Quiet /\ before = regs /\ typed = 0

(* Mutant: the check lets the index after the last one through.            *)
Refuses_Late(g, form, start, end) ==
  start > LastIndex[g] + 1 \/ end > LastIndex[g] + 1
(* The index checks; Command_WriteSRRange's only warns.                    *)
Refuses(g, form, start, end) ==
  /\ start > LastIndex[g] \/ end > LastIndex[g]
  /\ ~(g = "seq" /\ form = "range")

(* Mutant: the loop stops one turn early.                                  *)
More_Early(c, o) == c.form = "range" /\ o + 1 < c.end
(* Mutant: the end is a part of the range.                                 *)
More_Inclusive(c, o) == c.form = "range" /\ o <= c.end
More(c, o) == c.form = "range" /\ o < c.end

Begin(c, first) ==
  /\ status # "running" /\ typed < MaxCommands /\ typed' = typed + 1
  /\ cmd' = c /\ at' = c.start /\ step' = 1 /\ done' = Quiet /\ before' = regs
  /\ status' = first
  /\ UNCHANGED cardVars

RegisterCommand(g, kind, n, v) ==
  Begin([NoCommand EXCEPT !.group = g, !.kind = kind, !.form = "single",
                          !.start = n, !.end = n, !.value = v],
        IF Refuses(g, "single", n, n) THEN "refused" ELSE "running")

(* What is written is Command_Argv(2), the operand that is the end as well;*)
(* the third operand is asked for and never looked at.                     *)
RangeValue(end, operand) == end

RangeCommand(g, start, end, operand) ==
  LET c == [NoCommand EXCEPT !.group = g, !.kind = "write", !.form = "range",
                             !.start = start, !.end = end, !.operand = operand,
                             !.value = RangeValue(end, operand)]
  IN Begin(c, IF Refuses(g, "range", start, end) THEN "refused"
              ELSE IF More(c, start) THEN "running" ELSE "returned")

(* Command_IOx86...8 keeps eight bits of the port's number as well.        *)
PortNumber(n, width) == IF width = 1 THEN n % 256 ELSE n

PortCommand(kind, n, width, bytes) ==
  Begin([NoCommand EXCEPT !.group = "port", !.kind = kind, !.form = "single",
           !.port = PortNumber(n, width), !.width = width, !.bytes = bytes],
        "running")

-----------------------------------------------------------------------------
(* One access of the running command.                                      *)

Turn == Accesses(cmd, status0, at)

(* The functions that find out where the CRTC is, and find out right.      *)
Told(g) == g \in {"crtc", "attr"} => status0 = colour

(* Where a function does what its name says.                               *)
Reliable(c) ==
  /\ c.group \in Groups /\ Told(c.group)
  /\ c.group = "gdc" => c.kind = "read"
  /\ c.group = "crtc" => c.kind = "write" /\ ~status0

Completed(answer) ==
  [kind |-> cmd.kind, group |-> cmd.group, index |-> Cut(at),
   value |-> IF cmd.kind = "read" THEN answer ELSE Cut(cmd.value)]

Access ==
  LET a == Turn[step] IN
  /\ status = "running"
  /\ Respond(a)
  /\ IF step + 1 \in DOMAIN Turn
       THEN /\ step' = step + 1
            /\ done' = IF Reliable(cmd) THEN Quiet ELSE Direct
            /\ UNCHANGED <<at, status>>
       ELSE /\ step' = 1 /\ at' = (at + 1) % AddrMod
            /\ done' = IF Reliable(cmd) THEN Completed(Answer(a)) ELSE Direct
            /\ status' = IF More(cmd, at') THEN "running" ELSE "returned"
  /\ UNCHANGED <<cmd, before, typed>>

Next ==
  \/ \E g \in Groups, n \in Operands : RegisterCommand(g, "read", n, 0)
  \/ \E g \in Groups, n \in Operands, v \in Operands : RegisterCommand(g, "write", n, v)
  \/ \E g \in Groups, a \in Operands, b \in Operands, v \in Operands :
       RangeCommand(g, a, b, v)
  \/ \E n \in Ports, w \in {1, 2, 4} : PortCommand("read", n, w, <<>>)
  \/ \E n \in Ports, w \in {1, 2, 4} : \E bytes \in [1 .. w -> PortBytes] :
       PortCommand("write", n, w, bytes)
  \/ Access

Spec     == Init /\ [][Next]_vars
(* A command that has begun goes on by itself.                             *)
FairSpec == Spec /\ WF_vars(Access)

-----------------------------------------------------------------------------
(* Properties                                                              *)

Results == [kind : {"write", "read"}, group : Groups, index : Bytes, value : Bytes]

(* The variables have their types; an index never leaves the eight bits    *)
(* that the ports take.                                                    *)
TypeOK ==
  /\ regs \in [Groups -> [Bytes -> Bytes]] /\ latch \in [Groups -> Bytes]
  /\ flip \in {"index", "data"} /\ colour \in BOOLEAN /\ status0 \in BOOLEAN
  /\ at \in 0 .. AddrMod - 1 /\ typed \in 0 .. MaxCommands
  /\ status \in {"idle", "running", "returned", "refused"}
  /\ status = "running" => step \in DOMAIN Turn
  /\ done \in {Quiet, Direct} \cup Results
  /\ before \in [Groups -> [Bytes -> Bytes]]

(* Whatever port commands have left in the index latches and the flip-flop,*)
(* the VGA_ functions that can be relied on (all but VGA_WriteGraphics,    *)
(* VGA_ReadCRTC, VGA_WriteCRTC with colour, and those that look for the    *)
(* CRTC's ports and are told wrong) are the reads and writes of a register *)
(* file: a write sets the register it names and none of any group besides, *)
(* a read answers with the register it names.                              *)
File  == INSTANCE RegisterFile WITH file <- regs, Indexes <- Bytes
Files == File!Spec

(* "Write a single value to all of the ... registers", says the help: a    *)
(* range command that has returned has left one value in every register of *)
(* its range, the end excluded, and all others of every group as they were,*)
(* even where several turns of the loop meet at one register because an    *)
(* index is cut to eight bits.  Which value is RangeWritesItsValue's part. *)
InRange(c, g, i) == g = c.group /\ \E o \in c.start .. c.end - 1 : i = Cut(o)
RangeFills ==
  (status = "returned" /\ cmd.form = "range" /\ Reliable(cmd)) =>
    \E b \in Bytes : \A g \in Groups, i \in Bytes :
      regs[g][i] = IF InRange(cmd, g, i) THEN b ELSE before[g][i]

(* The register commands keep away from the registers past the last index  *)
(* of their group; Command_WriteSRRange, which checks and goes on, and the *)
(* functions that use the wrong ports are the exceptions.                  *)
StaysInGroup ==
  [][\A g \in Groups, i \in Bytes :
       regs'[g][i] # regs[g][i] =>
         \/ i <= LastIndex[g]
         \/ cmd.group = "port"
         \/ ~Reliable(cmd)
         \/ cmd.group = "seq" /\ cmd.form = "range"]_vars

(* Every command comes to an end, even a sequencer range whose end is the  *)
(* largest uint32_t.                                                       *)
CommandsReturn == (status = "running") ~> (status # "running")

(* "Write a VGA graphics register." says gpu_io.c:225 of the function that *)
(* Command_WriteGR calls.                                                  *)
GraphicsWriteLands ==
  (status = "returned" /\ cmd.group = "gdc" /\ cmd.kind = "write" /\ cmd.form = "single")
    => regs["gdc"][cmd.start] = Cut(cmd.value)

(* The operands are "offset_start offset_end value", script_help.c:37, 40  *)
(* and 43 say: the value of a range is the third one.                      *)
RangeWritesItsValue ==
  (status = "returned" /\ cmd.form = "range" /\ Reliable(cmd)) =>
    \A o \in cmd.start .. cmd.end - 1 :
      regs[cmd.group][Cut(o)] = Cut(cmd.operand)

(* "Ignoring invalid indexes" says Command_WriteSRRange.                   *)
InvalidIsIgnored ==
  (cmd.group \in Groups /\ (cmd.start > LastIndex[cmd.group] \/ cmd.end > LastIndex[cmd.group]))
    => status = "refused"

=============================================================================
