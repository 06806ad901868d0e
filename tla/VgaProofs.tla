------------------------------ MODULE VgaProofs -----------------------------
(***************************************************************************)
(* Proofs about Vga: its types, and that the VGA_ functions that can be    *)
(* relied on are the reads and writes of a register file, for every number *)
(* of registers, every last index and every number of commands.            *)
(***************************************************************************)
EXTENDS Vga, TLAPS

USE VgaAssumption

-----------------------------------------------------------------------------
(* The inductive invariant                                                 *)

(* The command is one that Next can begin.                                 *)
CmdOK ==
  /\ cmd.group \in Groups =>
       /\ cmd.kind \in {"read", "write"} /\ cmd.form \in {"single", "range"}
       /\ cmd.form = "range" => cmd.kind = "write"
       /\ cmd.start \in 0 .. AddrMod - 1 /\ cmd.end \in 0 .. AddrMod - 1
       /\ cmd.value \in 0 .. AddrMod - 1
  /\ cmd.group = "port" =>
       /\ cmd.kind \in {"read", "write"} /\ cmd.form = "single"
       /\ cmd.port \in Nat /\ cmd.width \in {1, 2, 4}
       /\ cmd.kind = "write" => cmd.bytes \in [1 .. cmd.width -> Bytes]
  /\ cmd.group = "none" => cmd.form = "none"
  /\ cmd.group \in Groups \cup {"port", "none"}

(* The loop variable of a running command is in its range, and within the  *)
(* group where the command has checked it.                                 *)
AtOK ==
  status = "running" =>
    /\ cmd.group # "none"
    /\ cmd.form = "range"  => cmd.start <= at /\ at < cmd.end
    /\ cmd.form = "single" => at = cmd.start
    /\ (cmd.group \in Groups /\ ~(cmd.group = "seq" /\ cmd.form = "range"))
         => at <= LastIndex[cmd.group] /\ cmd.end <= LastIndex[cmd.group]

(* What the accesses made so far have prepared for the ones to come.       *)
Prepared ==
  (status = "running" /\ Reliable(cmd)) =>
    /\ cmd.group \in {"seq", "gdc"} /\ step = 2 => latch[cmd.group] = Cut(at)
    /\ cmd.group = "crtc" /\ step = 3 => latch["crtc"] = Cut(at)
    /\ cmd.group = "attr" /\ step = 3 => flip = "index"
    /\ cmd.group = "attr" /\ step = 4 =>
         latch["attr"] = Cut(at) /\ flip = "data"

IInv == TypeOK /\ CmdOK /\ AtOK /\ Prepared

-----------------------------------------------------------------------------
(* Accesses                                                                *)

AccessSet == [dir : {"out", "in"}, port : Nat, byte : Bytes]

LEMMA CutType == \A n \in Nat : Cut(n) \in Bytes
BY SMT DEF Cut, Bytes

LEMMA CutSmall == \A n \in Bytes : Cut(n) = n
BY SMT DEF Cut, Bytes

LEMMA ByteNat == 0 \in Bytes /\ Bytes \subseteq Nat
BY SMT DEF Bytes

(* The accesses of a command that can be relied on, one by one.            *)
LEMMA TurnSeq ==
  ASSUME cmd.group = "seq", cmd.kind \in {"read", "write"}
  PROVE  /\ DOMAIN Turn = 1 .. 2
         /\ Turn[1] = Out(VGA_PORT_SEQUENCER_INDEX, Cut(at))
         /\ Turn[2] = IF cmd.kind = "read" THEN In(VGA_PORT_SEQUENCER)
                      ELSE Out(VGA_PORT_SEQUENCER, Cut(cmd.value))
BY SMT DEF Turn, Accesses, VGA_ReadSequencer, VGA_WriteSequencer

LEMMA TurnGdc ==
  ASSUME cmd.group = "gdc", cmd.kind \in {"read", "write"}
  PROVE  /\ DOMAIN Turn = 1 .. 2
         /\ Turn[1] = IF cmd.kind = "read" THEN Out(VGA_PORT_GRAPHICS_INDEX, Cut(at))
                      ELSE Out(VGA_PORT_COLOR_CRTC_INDEX, Cut(at))
         /\ Turn[2] = IF cmd.kind = "read" THEN In(VGA_PORT_GRAPHICS)
                      ELSE Out(VGA_PORT_COLOR_CRTC, Cut(cmd.value))
BY SMT DEF Turn, Accesses, VGA_ReadGraphics, VGA_WriteGraphics

LEMMA TurnCrtc ==
  ASSUME cmd.group = "crtc", cmd.kind \in {"read", "write"}
  PROVE  /\ DOMAIN Turn = 1 .. (IF cmd.kind = "read" THEN 2 ELSE 3)
         /\ Turn[1] = In(VGA_PORT_MISCOUT)
         /\ Turn[2] = IF cmd.kind = "read" THEN In(CrtcIndex(status0))
                      ELSE Out(CrtcIndex(status0),
                               IF status0 THEN Cut(cmd.value) ELSE Cut(at))
         /\ cmd.kind = "write" => Turn[3] = Out(CrtcData(status0), Cut(cmd.value))
<1>1. CASE cmd.kind = "read"
  BY <1>1, SMT DEF Turn, Accesses, VGA_ReadCRTC
<1>2. CASE cmd.kind = "write"
  <2>1. Turn = VGA_WriteCRTC(status0, Cut(at), Cut(cmd.value))
    BY <1>2, SMT DEF Turn, Accesses
  <2>2. QED
    BY <1>2, <2>1, SMT DEF VGA_WriteCRTC
<1>3. QED
  BY <1>1, <1>2

LEMMA TurnAttr ==
  ASSUME cmd.group = "attr", cmd.kind \in {"read", "write"}
  PROVE  /\ DOMAIN Turn = 1 .. 4
         /\ Turn[1] = In(VGA_PORT_MISCOUT)
         /\ Turn[2] = In(InputStatus(status0))
         /\ Turn[3] = Out(VGA_PORT_ATTRIBUTE_REGISTER, Cut(at))
         /\ Turn[4] = IF cmd.kind = "read" THEN In(VGA_PORT_ATTRIBUTE_DATA_WRITE)
                      ELSE Out(VGA_PORT_ATTRIBUTE_REGISTER, Cut(cmd.value))
BY SMT DEF Turn, Accesses, VGA_ReadAttribute, VGA_WriteAttribute

LEMMA TurnPort ==
  ASSUME cmd.group = "port"
  PROVE  Turn = PortAccess(cmd)
BY SMT DEF Turn, Accesses

(* Every access is one, and there is at least one.                         *)
Accessible ==
  /\ DOMAIN Turn \subseteq Nat /\ 1 \in DOMAIN Turn
  /\ \A k \in DOMAIN Turn : Turn[k] \in AccessSet

LEMMA TurnType ==
  (at \in 0 .. AddrMod - 1 /\ CmdOK /\ cmd.group # "none") => Accessible
<1> SUFFICES ASSUME at \in 0 .. AddrMod - 1, CmdOK, cmd.group # "none"
             PROVE  Accessible
  OBVIOUS
<1> USE DEF Accessible
<1>1. CASE cmd.group = "port"
  <2>1. Turn = [j \in 1 .. cmd.width |->
                  IF cmd.kind = "write" THEN Out(cmd.port + j - 1, cmd.bytes[j])
                                        ELSE In(cmd.port + j - 1)]
    BY <1>1, TurnPort DEF PortAccess
  <2>2. cmd.width \in {1, 2, 4} /\ cmd.port \in Nat
    BY <1>1, SMT DEF CmdOK
  <2>3. DOMAIN Turn = 1 .. cmd.width
    BY <2>1
  <2>4. \A k \in 1 .. cmd.width : Turn[k] \in AccessSet
    <3>1. TAKE k \in 1 .. cmd.width
    <3>2. CASE cmd.kind = "write"
      <4>1. cmd.bytes[k] \in Bytes
        BY <1>1, <3>2, SMT DEF CmdOK
      <4>2. cmd.port + k - 1 \in Nat
        BY <2>2, SMT
      <4>3. QED
        BY <2>1, <3>2, <4>1, <4>2, SMT DEF Out, AccessSet
    <3>3. CASE cmd.kind # "write"
      <4>1. cmd.port + k - 1 \in Nat
        BY <2>2, SMT
      <4>2. QED
        BY <2>1, <3>3, <4>1, ByteNat, SMT DEF In, AccessSet
    <3>4. QED
      BY <3>2, <3>3
  <2>5. QED
    BY <2>2, <2>3, <2>4, SMT
<1>2. CASE cmd.group \in Groups
  <2>1. cmd.kind \in {"read", "write"} /\ Cut(at) \in Bytes /\ Cut(cmd.value) \in Bytes
    BY <1>2, CutType, SMT DEF CmdOK
  <2>2. \A p \in Nat, b \in Bytes : Out(p, b) \in AccessSet /\ In(p) \in AccessSet
    BY ByteNat, SMT DEF Out, In, AccessSet
  <2>3. /\ CrtcIndex(status0) \in Nat /\ CrtcData(status0) \in Nat
        /\ InputStatus(status0) \in Nat
    BY SMT DEF CrtcIndex, CrtcData, InputStatus, VGA_PORT_COLOR_CRTC_INDEX,
       VGA_PORT_MONO_CRTC_INDEX, VGA_PORT_COLOR_CRTC, VGA_PORT_MONO_CRTC,
       VGA_PORT_INPUT0_COLOR, VGA_PORT_INPUT0_MONO
  <2>4. CASE cmd.group = "seq"
    BY <2>1, <2>2, <2>4, TurnSeq, SMT DEF VGA_PORT_SEQUENCER_INDEX, VGA_PORT_SEQUENCER
  <2>5. CASE cmd.group = "gdc"
    BY <2>1, <2>2, <2>5, TurnGdc, SMT
    DEF VGA_PORT_GRAPHICS_INDEX, VGA_PORT_GRAPHICS, VGA_PORT_COLOR_CRTC_INDEX,
        VGA_PORT_COLOR_CRTC
  <2>6. CASE cmd.group = "crtc"
    BY <2>1, <2>2, <2>3, <2>6, TurnCrtc, SMT DEF VGA_PORT_MISCOUT
  <2>7. CASE cmd.group = "attr"
    BY <2>1, <2>2, <2>3, <2>7, TurnAttr, SMT
    DEF VGA_PORT_MISCOUT, VGA_PORT_ATTRIBUTE_REGISTER, VGA_PORT_ATTRIBUTE_DATA_WRITE
  <2>8. QED
    BY <1>2, <2>4, <2>5, <2>6, <2>7, SMT DEF Groups
<1>3. QED
  BY <1>1, <1>2, SMT DEF CmdOK

(* No register command writes the port that says where the CRTC is.        *)
LEMMA TurnOut ==
  ASSUME IInv, status = "running", cmd.group \in Groups, Turn[step].dir = "out"
  PROVE  Turn[step].port # VGA_PORT_MISCOUT
<1>1. cmd.kind \in {"read", "write"} /\ step \in DOMAIN Turn
  BY DEF IInv, CmdOK, TypeOK
<1>2. CASE cmd.group = "seq"
  BY <1>1, <1>2, TurnSeq, SMT DEF Out, In, VGA_PORT_MISCOUT, VGA_PORT_SEQUENCER_INDEX,
     VGA_PORT_SEQUENCER
<1>3. CASE cmd.group = "gdc"
  BY <1>1, <1>3, TurnGdc, SMT DEF Out, In, VGA_PORT_MISCOUT, VGA_PORT_GRAPHICS_INDEX,
     VGA_PORT_GRAPHICS, VGA_PORT_COLOR_CRTC_INDEX, VGA_PORT_COLOR_CRTC
<1>4. CASE cmd.group = "crtc"
  BY <1>1, <1>4, TurnCrtc, SMT DEF Out, In, CrtcIndex, CrtcData, VGA_PORT_MISCOUT,
     VGA_PORT_COLOR_CRTC_INDEX, VGA_PORT_MONO_CRTC_INDEX, VGA_PORT_COLOR_CRTC,
     VGA_PORT_MONO_CRTC
<1>5. CASE cmd.group = "attr"
  BY <1>1, <1>5, TurnAttr, SMT DEF Out, In, VGA_PORT_MISCOUT,
     VGA_PORT_ATTRIBUTE_REGISTER
<1>6. QED
  BY <1>2, <1>3, <1>4, <1>5 DEF Groups

(* The card keeps bytes in its registers and its latches.                  *)
LEMMA RespondType ==
  ASSUME TypeOK, NEW a \in AccessSet, Respond(a)
  PROVE  /\ regs' \in [Groups -> [Bytes -> Bytes]] /\ latch' \in [Groups -> Bytes]
         /\ flip' \in {"index", "data"} /\ colour' \in BOOLEAN
         /\ status0' = status0
<1>1. regs \in [Groups -> [Bytes -> Bytes]] /\ latch \in [Groups -> Bytes]
  BY DEF TypeOK
<1>2. a.byte \in Bytes
  BY DEF AccessSet
<1>3. latch' \in [Groups -> Bytes]
  BY <1>1, <1>2, SMT DEF Respond
<1>4. regs' \in [Groups -> [Bytes -> Bytes]]
  <2>1. \A g \in Groups : [regs[g] EXCEPT ![latch[g]] = a.byte] \in [Bytes -> Bytes]
    BY <1>1, <1>2, SMT
  <2>2. QED
    BY <1>1, <2>1, SMT DEF Respond
<1>5. flip' \in {"index", "data"}
  BY SMT DEF Respond, TypeOK
<1>6. colour' \in BOOLEAN
  <2>1. (a.byte % 2 = 1) \in BOOLEAN
    OBVIOUS
  <2>2. colour \in BOOLEAN
    BY DEF TypeOK
  <2>3. QED
    BY <2>2 DEF Respond
<1>7. QED
  BY <1>3, <1>4, <1>5, <1>6 DEF Respond

-----------------------------------------------------------------------------
(* What an access does to the registers                                    *)

(* No two groups have a data port in common.                               *)
LEMMA OneGroup ==
  ASSUME NEW a, NEW g \in Groups, NEW h \in Groups, Stores(a, g), Stores(a, h)
  PROVE  g = h
BY SMT DEF Stores, DataPortOf, Groups, CrtcData, VGA_PORT_SEQUENCER, VGA_PORT_GRAPHICS,
   VGA_PORT_COLOR_CRTC, VGA_PORT_MONO_CRTC, VGA_PORT_ATTRIBUTE_REGISTER

LEMMA NoStore ==
  ASSUME TypeOK, NEW a, Respond(a), \A g \in Groups : ~Stores(a, g)
  PROVE  regs' = regs
<1>1. regs' = [g \in Groups |-> regs[g]]
  BY SMT DEF Respond
<1>2. QED
  BY <1>1 DEF TypeOK

LEMMA OneStore ==
  ASSUME TypeOK, NEW a, Respond(a), NEW h \in Groups, Stores(a, h)
  PROVE  regs' = [regs EXCEPT ![h][latch[h]] = a.byte]
<1>1. \A g \in Groups : Stores(a, g) <=> g = h
  BY OneGroup
<1>2. regs' = [g \in Groups |->
                 IF g = h THEN [regs[g] EXCEPT ![latch[g]] = a.byte] ELSE regs[g]]
  BY <1>1, SMT DEF Respond
<1>3. regs \in [Groups -> [Bytes -> Bytes]]
  BY DEF TypeOK
<1> DEFINE r == [regs[h] EXCEPT ![latch[h]] = a.byte]
<1>4. regs' = [g \in Groups |-> IF g = h THEN r ELSE regs[g]]
  BY <1>2
<1>5. [regs EXCEPT ![h] = r] = [g \in Groups |-> IF g = h THEN r ELSE regs[g]]
  BY <1>3, Zenon
<1>6. QED
  BY <1>4, <1>5

(* The accesses before the last leave all registers alone and prepare the  *)
(* next one; the last is the operation that the command's name promises.   *)
Effect(t) ==
  /\ step + 1 \in DOMAIN t => regs' = regs
  /\ step + 1 \notin DOMAIN t =>
       IF cmd.kind = "read"
         THEN regs' = regs /\ Answer(t[step]) = regs[cmd.group][Cut(at)]
         ELSE regs' = [regs EXCEPT ![cmd.group][Cut(at)] = Cut(cmd.value)]

Prepares(k) ==
  /\ cmd.group \in {"seq", "gdc"} /\ k = 2 => latch'[cmd.group] = Cut(at)
  /\ cmd.group = "crtc" /\ k = 3 => latch'["crtc"] = Cut(at)
  /\ cmd.group = "attr" /\ k = 3 => flip' = "index"
  /\ cmd.group = "attr" /\ k = 4 => latch'["attr"] = Cut(at) /\ flip' = "data"

LEMMA EffectSeq ==
  ASSUME IInv, status = "running", Reliable(cmd), cmd.group = "seq",
         Respond(Turn[step])
  PROVE  Effect(Turn) /\ Prepares(step + 1)
<1>1. /\ cmd.kind \in {"read", "write"} /\ step \in DOMAIN Turn /\ "seq" \in Groups
      /\ Cut(at) \in Bytes
  BY CutType, SMT DEF IInv, CmdOK, TypeOK, Groups
<1>2. DOMAIN Turn = 1 .. 2
  BY <1>1, TurnSeq
<1>3. CASE step = 1
  <2>1. Turn[step] = Out(VGA_PORT_SEQUENCER_INDEX, Cut(at))
    BY <1>1, <1>3, TurnSeq
  <2>2. \A g \in Groups : ~Stores(Turn[step], g)
    BY <2>1, SMT DEF Stores, DataPortOf, CrtcData, Out, VGA_PORT_SEQUENCER_INDEX,
       VGA_PORT_SEQUENCER, VGA_PORT_GRAPHICS, VGA_PORT_COLOR_CRTC, VGA_PORT_MONO_CRTC,
       VGA_PORT_ATTRIBUTE_REGISTER
  <2>3. regs' = regs
    BY <2>2, NoStore DEF IInv
  <2>4. Latches(Turn[step], "seq") /\ Turn[step].byte = Cut(at)
    BY <2>1, SMT DEF Latches, IndexPortOf, Out
  <2>5. latch'["seq"] = Cut(at)
    BY <1>1, <2>4, SMT DEF Respond
  <2>6. QED
    BY <1>2, <1>3, <2>3, <2>5, SMT DEF Effect, Prepares
<1>4. CASE step = 2
  <2>1. latch["seq"] = Cut(at)
    BY <1>4, SMT DEF IInv, Prepared
  <2>2. CASE cmd.kind = "read"
    <3>1. Turn[step] = In(VGA_PORT_SEQUENCER)
      BY <2>2, <1>1, <1>4, TurnSeq
    <3>2. (\A g \in Groups : ~Stores(Turn[step], g)) /\ Turn[step].port = VGA_PORT_SEQUENCER
      BY <3>1, SMT DEF Stores, In
    <3>3. regs' = regs
      BY <3>2, NoStore DEF IInv
    <3>4. Answer(Turn[step]) = regs["seq"][Cut(at)]
      BY <3>2, <2>1, SMT DEF Answer, CrtcData, VGA_PORT_SEQUENCER, VGA_PORT_GRAPHICS,
         VGA_PORT_COLOR_CRTC, VGA_PORT_MONO_CRTC, VGA_PORT_ATTRIBUTE_DATA_WRITE
    <3>5. QED
      BY <1>2, <1>4, <2>2, <3>3, <3>4, SMT DEF Effect, Prepares
  <2>3. CASE cmd.kind = "write"
    <3>1. Turn[step] = Out(VGA_PORT_SEQUENCER, Cut(cmd.value))
      BY <2>3, <1>1, <1>4, TurnSeq
    <3>2. Stores(Turn[step], "seq") /\ Turn[step].byte = Cut(cmd.value)
      BY <3>1, SMT DEF Stores, DataPortOf, Out
    <3>3. regs' = [regs EXCEPT !["seq"][Cut(at)] = Cut(cmd.value)]
      BY <1>1, <3>2, <2>1, OneStore DEF IInv
    <3>4. QED
      BY <1>2, <1>4, <2>3, <3>3, SMT DEF Effect, Prepares
  <2>4. QED
    BY <1>1, <2>2, <2>3
<1>5. QED
  BY <1>1, <1>2, <1>3, <1>4, SMT

LEMMA EffectGdc ==
  ASSUME IInv, status = "running", Reliable(cmd), cmd.group = "gdc",
         Respond(Turn[step])
  PROVE  Effect(Turn) /\ Prepares(step + 1)
<1>1. /\ cmd.kind = "read" /\ step \in DOMAIN Turn /\ "gdc" \in Groups
  BY SMT DEF IInv, CmdOK, TypeOK, Groups, Reliable
<1>2. DOMAIN Turn = 1 .. 2
  BY <1>1, TurnGdc
<1>3. CASE step = 1
  <2>1. Turn[step] = Out(VGA_PORT_GRAPHICS_INDEX, Cut(at))
    BY <1>1, <1>3, TurnGdc
  <2>2. \A g \in Groups : ~Stores(Turn[step], g)
    BY <2>1, SMT DEF Stores, DataPortOf, CrtcData, Out, VGA_PORT_GRAPHICS_INDEX,
       VGA_PORT_SEQUENCER, VGA_PORT_GRAPHICS, VGA_PORT_COLOR_CRTC, VGA_PORT_MONO_CRTC,
       VGA_PORT_ATTRIBUTE_REGISTER
  <2>3. regs' = regs
    BY <2>2, NoStore DEF IInv
  <2>4. Latches(Turn[step], "gdc") /\ Turn[step].byte = Cut(at)
    BY <2>1, SMT DEF Latches, IndexPortOf, Out
  <2>5. latch'["gdc"] = Cut(at)
    BY <1>1, <2>4, SMT DEF Respond
  <2>6. QED
    BY <1>2, <1>3, <2>3, <2>5, SMT DEF Effect, Prepares
<1>4. CASE step = 2
  <2>1. latch["gdc"] = Cut(at)
    BY <1>4, SMT DEF IInv, Prepared
  <2>2. Turn[step] = In(VGA_PORT_GRAPHICS)
    BY <1>1, <1>4, TurnGdc
  <2>3. (\A g \in Groups : ~Stores(Turn[step], g)) /\ Turn[step].port = VGA_PORT_GRAPHICS
    BY <2>2, SMT DEF Stores, In
  <2>4. regs' = regs
    BY <2>3, NoStore DEF IInv
  <2>5. Answer(Turn[step]) = regs["gdc"][Cut(at)]
    BY <2>3, <2>1, SMT DEF Answer, CrtcData, VGA_PORT_SEQUENCER, VGA_PORT_GRAPHICS,
       VGA_PORT_COLOR_CRTC, VGA_PORT_MONO_CRTC, VGA_PORT_ATTRIBUTE_DATA_WRITE
  <2>6. QED
    BY <1>1, <1>2, <1>4, <2>4, <2>5, SMT DEF Effect, Prepares
<1>5. QED
  BY <1>1, <1>2, <1>3, <1>4, SMT

(* Only writes can be relied on, and only those of a monochrome CRTC.      *)
LEMMA EffectCrtc ==
  ASSUME IInv, status = "running", Reliable(cmd), cmd.group = "crtc",
         Respond(Turn[step])
  PROVE  Effect(Turn) /\ Prepares(step + 1)
<1>1. /\ cmd.kind = "write" /\ step \in DOMAIN Turn /\ "crtc" \in Groups
      /\ Cut(at) \in Bytes /\ ~status0 /\ ~colour
  BY CutType, SMT DEF IInv, CmdOK, TypeOK, Groups, Reliable, Told
<1>2. DOMAIN Turn = 1 .. 3
  BY <1>1, TurnCrtc, SMT
<1>3. /\ CrtcIndex(status0) = VGA_PORT_MONO_CRTC_INDEX
      /\ CrtcIndex(colour) = VGA_PORT_MONO_CRTC_INDEX
      /\ CrtcData(status0) = VGA_PORT_MONO_CRTC
      /\ CrtcData(colour) = VGA_PORT_MONO_CRTC
  BY <1>1 DEF CrtcIndex, CrtcData
<1>4. CASE step = 1
  <2>1. Turn[step] = In(VGA_PORT_MISCOUT)
    BY <1>1, <1>4, TurnCrtc
  <2>2. \A g \in Groups : ~Stores(Turn[step], g)
    BY <2>1, SMT DEF Stores, In
  <2>3. regs' = regs
    BY <2>2, NoStore DEF IInv
  <2>4. QED
    BY <1>2, <1>4, <2>3, SMT DEF Effect, Prepares
<1>5. CASE step = 2
  <2>1. Turn[step] = Out(VGA_PORT_MONO_CRTC_INDEX, Cut(at))
    BY <1>1, <1>3, <1>5, TurnCrtc
  <2>2. \A g \in Groups : ~Stores(Turn[step], g)
    BY <1>3, <2>1, SMT DEF Stores, DataPortOf, Out, VGA_PORT_MONO_CRTC_INDEX,
       VGA_PORT_SEQUENCER, VGA_PORT_GRAPHICS, VGA_PORT_MONO_CRTC,
       VGA_PORT_ATTRIBUTE_REGISTER
  <2>3. regs' = regs
    BY <2>2, NoStore DEF IInv
  <2>4. Latches(Turn[step], "crtc") /\ Turn[step].byte = Cut(at)
    BY <1>3, <2>1, SMT DEF Latches, IndexPortOf, Out
  <2>5. latch'["crtc"] = Cut(at)
    BY <1>1, <2>4, SMT DEF Respond
  <2>6. QED
    BY <1>2, <1>5, <2>3, <2>5, SMT DEF Effect, Prepares
<1>6. CASE step = 3
  <2>1. latch["crtc"] = Cut(at)
    BY <1>6, SMT DEF IInv, Prepared
  <2>2. Turn[step] = Out(VGA_PORT_MONO_CRTC, Cut(cmd.value))
    BY <1>1, <1>3, <1>6, TurnCrtc
  <2>3. Stores(Turn[step], "crtc") /\ Turn[step].byte = Cut(cmd.value)
    BY <1>3, <2>2, SMT DEF Stores, DataPortOf, Out
  <2>4. regs' = [regs EXCEPT !["crtc"][Cut(at)] = Cut(cmd.value)]
    BY <1>1, <2>3, <2>1, OneStore DEF IInv
  <2>5. QED
    BY <1>1, <1>2, <1>6, <2>4, SMT DEF Effect, Prepares
<1>7. QED
  BY <1>1, <1>2, <1>4, <1>5, <1>6, SMT

LEMMA EffectAttr ==
  ASSUME IInv, status = "running", Reliable(cmd), cmd.group = "attr",
         Respond(Turn[step])
  PROVE  Effect(Turn) /\ Prepares(step + 1)
<1>1. /\ cmd.kind \in {"read", "write"} /\ step \in DOMAIN Turn /\ "attr" \in Groups
      /\ Cut(at) \in Bytes /\ status0 = colour
  BY CutType, SMT DEF IInv, CmdOK, TypeOK, Groups, Reliable, Told
<1>2. DOMAIN Turn = 1 .. 4
  BY <1>1, TurnAttr
<1>3. CASE step = 1
  <2>1. Turn[step] = In(VGA_PORT_MISCOUT)
    BY <1>1, <1>3, TurnAttr
  <2>2. \A g \in Groups : ~Stores(Turn[step], g)
    BY <2>1, SMT DEF Stores, In
  <2>3. regs' = regs
    BY <2>2, NoStore DEF IInv
  <2>4. QED
    BY <1>2, <1>3, <2>3, SMT DEF Effect, Prepares
<1>4. CASE step = 2
  <2>1. Turn[step] = In(InputStatus(colour))
    BY <1>1, <1>4, TurnAttr
  <2>2. \A g \in Groups : ~Stores(Turn[step], g)
    BY <2>1, SMT DEF Stores, In
  <2>3. regs' = regs
    BY <2>2, NoStore DEF IInv
  <2>4. flip' = "index"
    BY <2>1, SMT DEF Respond, In
  <2>5. QED
    BY <1>2, <1>4, <2>3, <2>4, SMT DEF Effect, Prepares
<1>5. CASE step = 3
  <2>1. Turn[step] = Out(VGA_PORT_ATTRIBUTE_REGISTER, Cut(at)) /\ flip = "index"
    BY <1>1, <1>5, TurnAttr, SMT DEF IInv, Prepared
  <2>2. \A g \in Groups : ~Stores(Turn[step], g)
    BY <2>1, SMT DEF Stores, DataPortOf, CrtcData, Out, Groups,
       VGA_PORT_SEQUENCER, VGA_PORT_GRAPHICS, VGA_PORT_COLOR_CRTC, VGA_PORT_MONO_CRTC,
       VGA_PORT_ATTRIBUTE_REGISTER
  <2>3. regs' = regs
    BY <2>2, NoStore DEF IInv
  <2>4. Latches(Turn[step], "attr") /\ Turn[step].byte = Cut(at)
    BY <2>1, SMT DEF Latches, IndexPortOf, Out
  <2>5. latch'["attr"] = Cut(at)
    BY <1>1, <2>4, SMT DEF Respond
  <2>6. flip' = "data"
    BY <2>1, SMT DEF Respond, Out
  <2>7. QED
    BY <1>2, <1>5, <2>3, <2>5, <2>6, SMT DEF Effect, Prepares
<1>6. CASE step = 4
  <2>1. latch["attr"] = Cut(at) /\ flip = "data"
    BY <1>6, SMT DEF IInv, Prepared
  <2>2. CASE cmd.kind = "read"
    <3>1. Turn[step] = In(VGA_PORT_ATTRIBUTE_DATA_WRITE)
      BY <2>2, <1>1, <1>6, TurnAttr
    <3>2. /\ \A g \in Groups : ~Stores(Turn[step], g)
          /\ Turn[step].port = VGA_PORT_ATTRIBUTE_DATA_WRITE
      BY <3>1, SMT DEF Stores, In
    <3>3. regs' = regs
      BY <3>2, NoStore DEF IInv
    <3>4. Answer(Turn[step]) = regs["attr"][Cut(at)]
      BY <3>2, <2>1, SMT DEF Answer, CrtcData, VGA_PORT_SEQUENCER, VGA_PORT_GRAPHICS,
         VGA_PORT_COLOR_CRTC, VGA_PORT_MONO_CRTC, VGA_PORT_ATTRIBUTE_DATA_WRITE
    <3>5. QED
      BY <1>2, <1>6, <2>2, <3>3, <3>4, SMT DEF Effect, Prepares
  <2>3. CASE cmd.kind = "write"
    <3>1. Turn[step] = Out(VGA_PORT_ATTRIBUTE_REGISTER, Cut(cmd.value))
      BY <2>3, <1>1, <1>6, TurnAttr
    <3>2. Stores(Turn[step], "attr") /\ Turn[step].byte = Cut(cmd.value)
      BY <2>1, <3>1, SMT DEF Stores, DataPortOf, Out
    <3>3. regs' = [regs EXCEPT !["attr"][Cut(at)] = Cut(cmd.value)]
      BY <1>1, <3>2, <2>1, OneStore DEF IInv
    <3>4. QED
      BY <1>2, <1>6, <2>3, <3>3, SMT DEF Effect, Prepares
  <2>4. QED
    BY <1>1, <2>2, <2>3
<1>7. QED
  BY <1>1, <1>2, <1>3, <1>4, <1>5, <1>6, SMT

LEMMA EffectAll ==
  ASSUME IInv, status = "running", Reliable(cmd), Respond(Turn[step])
  PROVE  Effect(Turn) /\ Prepares(step + 1)
<1>1. cmd.group \in Groups
  BY DEF Reliable
<1>2. QED
  BY <1>1, EffectSeq, EffectGdc, EffectCrtc, EffectAttr DEF Groups

-----------------------------------------------------------------------------
(* The invariant holds                                                     *)

LEMMA InitInv == Init => IInv
<1> SUFFICES ASSUME Init PROVE IInv
  OBVIOUS
<1>1. TypeOK
  BY ByteNat, SMT DEF Init, TypeOK, Quiet
<1>2. CmdOK /\ AtOK /\ Prepared
  BY SMT DEF Init, CmdOK, AtOK, Prepared, NoCommand, Groups
<1>3. QED
  BY <1>1, <1>2 DEF IInv

(* A command that Next can begin keeps the invariant.                      *)
LEMMA BeginInv ==
  ASSUME IInv, NEW c, NEW first \in {"running", "returned", "refused"}, Begin(c, first),
         CmdOK', AtOK', c.start \in 0 .. AddrMod - 1, cmd'.group # "none"
  PROVE  IInv'
<1>1. /\ regs' = regs /\ latch' = latch /\ flip' = flip /\ colour' = colour
      /\ status0' = status0 /\ step' = 1 /\ done' = Quiet /\ status' = first
      /\ at' = c.start /\ before' = regs
  BY DEF Begin, cardVars
<1>2. typed' \in 0 .. MaxCommands
  BY SMT DEF IInv, TypeOK, Begin
<1>3. (status = "running" => step \in DOMAIN Turn)'
  <2>1. (at \in 0 .. AddrMod - 1 /\ CmdOK /\ cmd.group # "none")'
    BY <1>1
  <2>2. Accessible'
    BY <2>1, TurnType, PTL
  <2>3. QED
    BY <1>1, <2>2 DEF Accessible
<1>4. TypeOK'
  BY <1>1, <1>2, <1>3 DEF IInv, TypeOK
<1>5. Prepared'
  BY <1>1, SMT DEF Prepared
<1>6. QED
  BY <1>4, <1>5 DEF IInv

(* So does an access, where it is not the last of its command.             *)
LEMMA AccessInv ==
  ASSUME IInv, Access
  PROVE  IInv'
<1> DEFINE a == Turn[step]
<1>1. /\ status = "running" /\ Respond(a) /\ cmd' = cmd /\ typed' = typed
      /\ before' = before
      /\ cmd.group # "none" /\ at \in 0 .. AddrMod - 1 /\ at' \in 0 .. AddrMod - 1
  <2>1. at' \in 0 .. AddrMod - 1
    BY SMT DEF Access, IInv, TypeOK
  <2>2. QED
    BY <2>1 DEF Access, IInv, AtOK, TypeOK
<1>2. Accessible /\ step \in DOMAIN Turn /\ a \in AccessSet
  BY <1>1, TurnType DEF IInv, TypeOK, Accessible
<1>3. /\ regs' \in [Groups -> [Bytes -> Bytes]] /\ latch' \in [Groups -> Bytes]
      /\ flip' \in {"index", "data"} /\ colour' \in BOOLEAN /\ status0' = status0
  BY <1>1, <1>2, RespondType DEF IInv
<1>4. CmdOK'
  BY <1>1 DEF IInv, CmdOK
<1>5. done' \in {Quiet, Direct} \cup Results
  <2>1. CASE ~Reliable(cmd)
    BY <2>1 DEF Access
  <2>2. CASE Reliable(cmd) /\ step + 1 \in DOMAIN Turn
    BY <2>2 DEF Access
  <2>3. CASE Reliable(cmd) /\ step + 1 \notin DOMAIN Turn
    <3>1. done' = Completed(Answer(a)) /\ Effect(Turn)
      BY <1>1, <2>3, EffectAll DEF Access
    <3>2. /\ cmd.group \in Groups /\ cmd.kind \in {"read", "write"}
          /\ Cut(at) \in Bytes /\ Cut(cmd.value) \in Bytes
      BY <1>1, <2>3, CutType, SMT DEF Reliable, IInv, CmdOK
    <3>3. cmd.kind = "read" => Answer(a) \in Bytes
      BY <2>3, <3>1, <3>2, SMT DEF Effect, IInv, TypeOK
    <3>4. Completed(Answer(a)) \in Results
      BY <3>2, <3>3, SMT DEF Completed, Results
    <3>5. QED
      BY <3>1, <3>4
  <2>4. QED
    BY <2>1, <2>2, <2>3
<1>6. CASE step + 1 \in DOMAIN Turn
  <2>1. step' = step + 1 /\ at' = at /\ status' = status
    BY <1>6 DEF Access
  <2>2. Turn' = Turn
    BY <1>1, <1>3, <2>1 DEF Turn
  <2>3. TypeOK'
    BY <1>1, <1>3, <1>5, <1>6, <2>1, <2>2 DEF IInv, TypeOK
  <2>4. AtOK'
    BY <1>1, <2>1 DEF IInv, AtOK
  <2>5. Prepared'
    <3>1. SUFFICES ASSUME Reliable(cmd)' PROVE Prepared'
      BY DEF Prepared
    <3>2. cmd.group \in Groups /\ (cmd.group \in {"seq", "gdc", "crtc"} \/ cmd.group = "attr")
      BY <1>1, <3>1 DEF Reliable, Groups
    <3>3. colour' = colour
      <4>1. a.dir = "out" => a.port # VGA_PORT_MISCOUT
        BY <1>1, <1>2, <3>2, TurnOut DEF IInv
      <4>2. QED
        BY <1>1, <4>1 DEF Respond
    <3>4. Reliable(cmd)
      BY <1>1, <1>3, <3>1, <3>3 DEF Reliable, Told
    <3>5. Prepares(step + 1)
      BY <1>1, <3>4, EffectAll
    <3>6. QED
      BY <1>1, <2>1, <3>5 DEF Prepares, Prepared, Cut
  <2>6. QED
    BY <1>4, <2>3, <2>4, <2>5 DEF IInv
<1>7. CASE step + 1 \notin DOMAIN Turn
  <2>1. /\ step' = 1 /\ at' = (at + 1) % AddrMod
        /\ status' = IF More(cmd, at') THEN "running" ELSE "returned"
    BY <1>7 DEF Access
  <2>2. Accessible'
    <3>1. (at \in 0 .. AddrMod - 1 /\ CmdOK /\ cmd.group # "none")'
      BY <1>1, <1>4
    <3>2. QED
      BY <3>1, TurnType, PTL
  <2>3. TypeOK'
    BY <1>1, <1>3, <1>5, <2>1, <2>2 DEF IInv, TypeOK, Accessible
  <2>4. AtOK'
    <3>1. SUFFICES ASSUME More(cmd, at') PROVE AtOK'
      BY <1>1, <2>1 DEF AtOK
    <3>2. /\ cmd.form = "range" /\ at' < cmd.end /\ cmd.start <= at /\ at < cmd.end
          /\ cmd.group \in Groups
      BY <1>1, <3>1 DEF More, IInv, AtOK, CmdOK
    <3>3. cmd.end \in 0 .. AddrMod - 1 /\ cmd.start \in 0 .. AddrMod - 1
      BY <3>2 DEF IInv, CmdOK
    <3>4. at' = at + 1
      BY <1>1, <2>1, <3>2, <3>3, SMT
    <3>5. cmd.group # "seq" => cmd.end <= LastIndex[cmd.group]
      BY <1>1, <3>2 DEF IInv, AtOK
    <3>6. cmd.start <= at' /\ (cmd.group # "seq" =>
            at' <= LastIndex[cmd.group] /\ cmd.end <= LastIndex[cmd.group])
      <4>1. LastIndex[cmd.group] \in Nat
        BY <3>2, ByteNat
      <4>2. QED
        BY <1>1, <3>2, <3>3, <3>4, <3>5, <4>1, SMT
    <3>7. QED
      BY <1>1, <3>2, <3>6 DEF AtOK
  <2>5. Prepared'
    BY <2>1, SMT DEF Prepared
  <2>6. QED
    BY <1>4, <2>3, <2>4, <2>5 DEF IInv
<1>8. QED
  BY <1>6, <1>7

LEMMA GroupFacts ==
  /\ Operands \subseteq 0 .. AddrMod - 1
  /\ \A g \in Groups : LastIndex[g] \in Nat /\ g \notin {"port", "none"}
<1>1. \A g \in Groups : LastIndex[g] \in Nat
  BY ByteNat
<1>2. \A g \in Groups : g \notin {"port", "none"}
  BY DEF Groups
<1>3. QED
  BY <1>1, <1>2

LEMMA NextInv == IInv /\ [Next]_vars => IInv'
<1> SUFFICES ASSUME IInv, [Next]_vars PROVE IInv'
  OBVIOUS
<1>1. ASSUME NEW g \in Groups, NEW kind \in {"read", "write"}, NEW n \in Operands,
             NEW v \in 0 .. AddrMod - 1, RegisterCommand(g, kind, n, v)
      PROVE  IInv'
  <2> DEFINE c == [NoCommand EXCEPT !.group = g, !.kind = kind, !.form = "single",
                                    !.start = n, !.end = n, !.value = v]
             first == IF Refuses(g, "single", n, n) THEN "refused" ELSE "running"
  <2>1. Begin(c, first) /\ first \in {"running", "returned", "refused"}
    BY <1>1 DEF RegisterCommand
  <2>2. /\ c.group = g /\ c.kind = kind /\ c.form = "single" /\ c.start = n
        /\ c.end = n /\ c.value = v
    BY SMT DEF NoCommand
  <2>3. n \in 0 .. AddrMod - 1 /\ LastIndex[g] \in Nat /\ g \notin {"port", "none"}
    BY GroupFacts
  <2>4. cmd' = c /\ at' = n /\ status' = first
    BY <2>1, <2>2 DEF Begin
  <2>5. CmdOK'
    BY <2>2, <2>3, <2>4 DEF CmdOK
  <2>6. AtOK'
    <3>1. SUFFICES ASSUME first = "running" PROVE AtOK'
      BY <2>4 DEF AtOK
    <3>2. g \in Groups /\ (n <= LastIndex[g])
      BY <2>3, <3>1, SMT DEF Refuses
    <3>3. QED
      BY <2>2, <2>3, <2>4, <3>2 DEF AtOK
  <2>7. QED
    BY <2>1, <2>2, <2>3, <2>4, <2>5, <2>6, BeginInv
<1>2. ASSUME NEW g \in Groups, NEW start \in Operands, NEW end \in Operands,
             NEW v \in Operands, RangeCommand(g, start, end, v)
      PROVE  IInv'
  <2> DEFINE c == [NoCommand EXCEPT !.group = g, !.kind = "write", !.form = "range",
                                    !.start = start, !.end = end, !.operand = v,
                                    !.value = RangeValue(end, v)]
             first == IF Refuses(g, "range", start, end) THEN "refused"
                      ELSE IF More(c, start) THEN "running" ELSE "returned"
  <2>1. Begin(c, first) /\ first \in {"running", "returned", "refused"}
    BY <1>2 DEF RangeCommand
  <2>2. /\ c.group = g /\ c.kind = "write" /\ c.form = "range" /\ c.start = start
        /\ c.end = end /\ c.value = end
    BY SMT DEF NoCommand, RangeValue
  <2>3. /\ start \in 0 .. AddrMod - 1 /\ end \in 0 .. AddrMod - 1
        /\ LastIndex[g] \in Nat /\ g \notin {"port", "none"}
    BY GroupFacts
  <2>4. cmd' = c /\ at' = start /\ status' = first
    BY <2>1, <2>2 DEF Begin
  <2>5. CmdOK'
    BY <2>2, <2>3, <2>4 DEF CmdOK
  <2>6. AtOK'
    <3>1. SUFFICES ASSUME first = "running" PROVE AtOK'
      BY <2>4 DEF AtOK
    <3>2. start < end
      BY <2>2, <3>1 DEF More
    <3>3. g # "seq" => start <= LastIndex[g] /\ end <= LastIndex[g]
      BY <2>3, <3>1, SMT DEF Refuses
    <3>4. start <= start
      BY <2>3, SMT
    <3>5. QED
      BY <2>2, <2>3, <2>4, <3>2, <3>3, <3>4 DEF AtOK
  <2>7. QED
    BY <2>1, <2>2, <2>3, <2>4, <2>5, <2>6, BeginInv
<1>3. ASSUME NEW kind \in {"read", "write"}, NEW n \in Ports, NEW w \in {1, 2, 4}, NEW bytes,
             kind = "write" => bytes \in [1 .. w -> PortBytes],
             PortCommand(kind, n, w, bytes)
      PROVE  IInv'
  <2> DEFINE c == [NoCommand EXCEPT !.group = "port", !.kind = kind, !.form = "single",
                     !.port = PortNumber(n, w), !.width = w, !.bytes = bytes]
  <2>1. Begin(c, "running")
    BY <1>3 DEF PortCommand
  <2>2. /\ c.group = "port" /\ c.kind = kind /\ c.form = "single" /\ c.start = 0
        /\ c.port = PortNumber(n, w) /\ c.width = w /\ c.bytes = bytes
    BY SMT DEF NoCommand
  <2>3. PortNumber(n, w) \in Nat /\ 0 \in 0 .. AddrMod - 1 /\ "port" \notin Groups
    BY SMT DEF PortNumber, Groups
  <2>4. cmd' = c /\ at' = 0 /\ status' = "running"
    BY <2>1, <2>2 DEF Begin
  <2>5. kind = "write" => bytes \in [1 .. w -> Bytes]
    BY <1>3
  <2>6. CmdOK'
    BY <2>2, <2>3, <2>4, <2>5 DEF CmdOK
  <2>7. AtOK'
    BY <2>2, <2>3, <2>4 DEF AtOK
  <2>8. QED
    BY <2>1, <2>2, <2>3, <2>4, <2>6, <2>7, BeginInv
<1>4. CASE Access
  BY <1>4, AccessInv
<1>5. CASE UNCHANGED vars
  <2>1. /\ TypeOK' /\ CmdOK' /\ AtOK' /\ Prepared'
    BY <1>5, SMT DEF vars, IInv, TypeOK, CmdOK, AtOK, Prepared, Turn, Reliable, Told
  <2>2. QED
    BY <2>1 DEF IInv
<1>6. 0 \in 0 .. AddrMod - 1
  BY SMT
<1>7. QED
  BY <1>1, <1>2, <1>3, <1>4, <1>5, <1>6 DEF Next

(* Registers and latches hold bytes, the loop variable stays a uint32_t,   *)
(* and the accesses of the running command have not been used up: TypeOK.  *)
THEOREM VgaTypeOK == Spec => []TypeOK
<1>1. IInv => TypeOK
  BY DEF IInv
<1>2. QED
  BY InitInv, NextInv, <1>1, PTL DEF Spec

-----------------------------------------------------------------------------
(* Vga implements RegisterFile                                             *)

(* An access changes one register or none.                                 *)
LEMMA AtMostOne ==
  ASSUME TypeOK, NEW a \in AccessSet, Respond(a)
  PROVE  \E g \in Groups, i \in Bytes, b \in Bytes :
           regs' = [regs EXCEPT ![g][i] = b]
<1>1. CASE \E h \in Groups : Stores(a, h)
  <2>1. PICK h \in Groups : Stores(a, h)
    BY <1>1
  <2>2. regs' = [regs EXCEPT ![h][latch[h]] = a.byte]
    BY <2>1, OneStore
  <2>3. latch[h] \in Bytes /\ a.byte \in Bytes
    BY DEF TypeOK, AccessSet
  <2>4. QED
    BY <2>2, <2>3
<1>2. CASE \A h \in Groups : ~Stores(a, h)
  <2>1. regs' = regs
    BY <1>2, NoStore
  <2>2. "seq" \in Groups /\ 0 \in Bytes
    BY ByteNat DEF Groups
  <2>3. regs["seq"][0] \in Bytes /\ regs["seq"] \in [Bytes -> Bytes]
    BY <2>2 DEF TypeOK
  <2>4. [regs["seq"] EXCEPT ![0] = regs["seq"][0]] = regs["seq"]
    BY <2>2, <2>3, SMT
  <2>5. [regs EXCEPT !["seq"] = regs["seq"]] = regs
    BY <2>2, SMT DEF TypeOK
  <2>6. [regs EXCEPT !["seq"][0] = regs["seq"][0]] = regs
    BY <2>4, <2>5
  <2>7. QED
    BY <2>1, <2>2, <2>3, <2>6
<1>3. QED
  BY <1>1, <1>2

LEMMA FileInit == Init => File!Init
<1> SUFFICES ASSUME Init PROVE File!Init
  OBVIOUS
<1>1. regs \in [Groups -> [Bytes -> Bytes]]
  BY ByteNat, SMT DEF Init
<1>2. QED
  BY <1>1 DEF Init, File!Init, File!Quiet, Quiet

LEMMA FileStep ==
  IInv /\ [Next]_vars => [File!Next]_<<regs, done>>
<1> SUFFICES ASSUME IInv, [Next]_vars PROVE [File!Next]_<<regs, done>>
  OBVIOUS
<1>1. ASSUME NEW c, NEW first, Begin(c, first)
      PROVE  File!Rest
  BY <1>1 DEF Begin, cardVars, File!Rest, File!Quiet, Quiet
<1>2. CASE Access
  <2> DEFINE a == Turn[step]
  <2>1. status = "running" /\ Respond(a)
    BY <1>2 DEF Access
  <2>2. Accessible /\ step \in DOMAIN Turn
    BY <2>1, TurnType DEF IInv, TypeOK, AtOK
  <2>3. a \in AccessSet
    BY <2>2 DEF Accessible
  <2>4. CASE ~Reliable(cmd)
    <3>1. done' = Direct
      BY <1>2, <2>4 DEF Access
    <3>2. QED
      BY <2>1, <2>3, <3>1, AtMostOne
      DEF IInv, File!Next, File!DirectAccess, File!Direct, Direct
  <2>5. CASE Reliable(cmd) /\ step + 1 \in DOMAIN Turn
    <3>1. done' = Quiet
      BY <1>2, <2>5 DEF Access
    <3>2. regs' = regs
      BY <2>1, <2>5, EffectAll DEF Effect
    <3>3. QED
      BY <3>1, <3>2 DEF File!Next, File!Rest, File!Quiet, Quiet
  <2>6. CASE Reliable(cmd) /\ step + 1 \notin DOMAIN Turn
    <3> DEFINE o == Completed(Answer(a))
    <3>1. done' = o /\ Effect(Turn)
      BY <1>2, <2>1, <2>6, EffectAll DEF Access
    <3>2. /\ cmd.group \in Groups /\ cmd.kind \in {"read", "write"}
          /\ Cut(at) \in Bytes /\ Cut(cmd.value) \in Bytes
      BY <2>6, CutType, SMT DEF Reliable, IInv, CmdOK, TypeOK
    <3>3. /\ o.kind = cmd.kind /\ o.group = cmd.group /\ o.index = Cut(at)
          /\ o.value = IF cmd.kind = "read" THEN Answer(a) ELSE Cut(cmd.value)
      BY DEF Completed
    <3>4. o \in File!Operations
      <4>1. cmd.kind = "read" => Answer(a) \in Bytes
        BY <2>6, <3>1, <3>2, SMT DEF Effect, IInv, TypeOK
      <4>2. QED
        BY <3>2, <4>1, SMT DEF Completed, File!Operations
    <3>5. CASE cmd.kind = "read"
      <4>1. regs' = regs /\ o.value = regs[o.group][o.index]
        BY <2>6, <3>1, <3>3, <3>5 DEF Effect
      <4>2. File!Read(o)
        BY <3>1, <3>3, <3>5, <4>1 DEF File!Read
      <4>3. QED
        BY <3>4, <4>2 DEF File!Next
    <3>6. CASE cmd.kind = "write"
      <4>1. regs' = [regs EXCEPT ![cmd.group][Cut(at)] = Cut(cmd.value)]
        BY <2>6, <3>1, <3>6 DEF Effect
      <4>2. o.value = Cut(cmd.value)
        BY <3>3, <3>6
      <4>3. regs' = [regs EXCEPT ![o.group][o.index] = o.value]
        BY <3>3, <4>1, <4>2
      <4>4. File!Write(o)
        BY <3>1, <3>3, <3>6, <4>3 DEF File!Write
      <4>5. QED
        BY <3>4, <4>4 DEF File!Next
    <3>7. QED
      BY <3>2, <3>5, <3>6
  <2>7. QED
    BY <2>4, <2>5, <2>6
<1>3. CASE UNCHANGED vars
  BY <1>3 DEF vars
<1>4. QED
  BY <1>1, <1>2, <1>3
  DEF Next, RegisterCommand, RangeCommand, PortCommand, File!Next

(* The VGA_ functions that can be relied on are a register file, whatever  *)
(* port commands have done to latches and flip-flop: Files.                *)
THEOREM VgaImplementsRegisterFile == Spec => Files
BY InitInv, NextInv, FileInit, FileStep, PTL DEF Spec, Files, File!Spec

-----------------------------------------------------------------------------
(* Ranges                                                                  *)

(* A range command that can be relied on has written its value to the      *)
(* registers of the turns it has made, and to no other.                    *)
Turns(c, limit) == c.start .. limit - 1
Written(c, limit, g, i) ==
  IF g = c.group /\ \E o \in Turns(c, limit) : i = Cut(o)
  THEN Cut(c.value) ELSE before[g][i]
Filled ==
  (status \in {"running", "returned"} /\ cmd.form = "range" /\ Reliable(cmd)) =>
    \A g \in Groups, i \in Bytes :
      regs[g][i] = Written(cmd, IF status = "running" THEN at ELSE cmd.end, g, i)

LEMMA FilledStep == IInv /\ IInv' /\ Filled /\ [Next]_vars => Filled'
<1> SUFFICES ASSUME IInv, IInv', Filled, [Next]_vars PROVE Filled'
  OBVIOUS
<1>1. ASSUME NEW c, NEW first, Begin(c, first), cmd'.form = "range",
             first = "returned" => c.start >= c.end
      PROVE  Filled'
  <2>1. at' = c.start /\ cmd' = c /\ status' = first /\ regs' = regs /\ before' = regs
    BY <1>1 DEF Begin, cardVars
  <2> SUFFICES ASSUME Reliable(cmd)', NEW g \in Groups, NEW i \in Bytes,
                      first \in {"running", "returned"}
               PROVE  regs[g][i] = Written(c, IF first = "running" THEN c.start
                                              ELSE c.end, g, i)'
    BY <2>1 DEF Filled, Written, Turns, Cut
  <2>2. c.start \in Int /\ c.end \in Int
    BY <2>1, SMT DEF IInv, CmdOK, Reliable
  <2>3. Turns(c, IF first = "running" THEN c.start ELSE c.end) = {}
    BY <1>1, <2>2, SMT DEF Turns
  <2>4. QED
    BY <2>1, <2>3 DEF Written, Turns, Cut
<1>2. CASE Access
  <2> SUFFICES ASSUME Reliable(cmd)', cmd.form = "range", NEW g \in Groups, NEW i \in Bytes
               PROVE  regs'[g][i] = Written(cmd, IF status' = "running" THEN at'
                                                 ELSE cmd.end, g, i)
    BY <1>2 DEF Filled, Access, Cut, Written, Turns
  <2>1. /\ status = "running" /\ Respond(Turn[step]) /\ cmd' = cmd /\ status0' = status0
        /\ cmd.group \in Groups
    BY <1>2 DEF Access, Respond, Reliable
  <2>2. Reliable(cmd)
    <3>1. Turn[step].dir = "out" => Turn[step].port # VGA_PORT_MISCOUT
      BY <2>1, TurnOut
    <3>2. colour' = colour
      BY <2>1, <3>1 DEF Respond
    <3>3. QED
      BY <2>1, <3>2 DEF Reliable, Told
  <2>3. Effect(Turn)
    BY <2>1, <2>2, EffectAll
  <2>4. /\ cmd.start \in Int /\ cmd.end \in 0 .. AddrMod - 1 /\ at \in 0 .. AddrMod - 1
        /\ cmd.start <= at /\ at < cmd.end /\ cmd.kind = "write"
    BY <2>1, SMT DEF IInv, CmdOK, TypeOK, AtOK
  <2>5. regs[g][i] = Written(cmd, at, g, i)
    BY <2>1, <2>2 DEF Filled
  <2>6. CASE step + 1 \in DOMAIN Turn
    <3>1. regs' = regs /\ at' = at /\ status' = "running"
      BY <1>2, <2>1, <2>3, <2>6 DEF Access, Effect
    <3>2. QED
      BY <2>5, <3>1
  <2>7. CASE step + 1 \notin DOMAIN Turn
    <3>1. /\ regs' = [regs EXCEPT ![cmd.group][Cut(at)] = Cut(cmd.value)]
          /\ at' = (at + 1) % AddrMod
          /\ status' = IF More(cmd, at') THEN "running" ELSE "returned"
      BY <1>2, <2>3, <2>4, <2>7 DEF Access, Effect
    <3>2. at' = at + 1
      BY <2>4, <3>1, SMT
    <3>3. (IF status' = "running" THEN at' ELSE cmd.end) = at + 1
      BY <2>4, <3>1, <3>2, SMT DEF More
    <3>4. Turns(cmd, at + 1) = Turns(cmd, at) \cup {at}
      BY <2>4, SMT DEF Turns
    <3>5. Cut(at) \in Bytes /\ regs \in [Groups -> [Bytes -> Bytes]]
      BY <2>4, CutType, SMT DEF IInv, TypeOK
    <3>6. CASE g = cmd.group /\ i = Cut(at)
      <4>1. regs'[g][i] = Cut(cmd.value)
        BY <2>1, <3>1, <3>5, <3>6, SMT
      <4>2. Written(cmd, at + 1, g, i) = Cut(cmd.value)
        BY <3>4, <3>6 DEF Written
      <4>3. QED
        BY <3>3, <4>1, <4>2
    <3>7. CASE ~(g = cmd.group /\ i = Cut(at))
      <4>1. regs'[g][i] = regs[g][i]
        BY <2>1, <3>1, <3>5, <3>7, SMT
      <4>2. Written(cmd, at + 1, g, i) = Written(cmd, at, g, i)
        BY <3>4, <3>7 DEF Written
      <4>3. QED
        BY <2>5, <3>3, <4>1, <4>2
    <3>8. QED
      BY <3>6, <3>7
  <2>8. QED
    BY <2>6, <2>7
<1>3. CASE UNCHANGED vars
  BY <1>3, SMT DEF vars, Filled, Reliable, Told, Written, Turns, Cut
<1>4. ASSUME NEW g \in Groups, NEW kind, NEW n \in Operands, NEW v,
             RegisterCommand(g, kind, n, v)
      PROVE  Filled'
  <2>1. cmd'.form = "single"
    BY <1>4, SMT DEF RegisterCommand, Begin, NoCommand
  <2>2. QED
    BY <2>1 DEF Filled
<1>5. ASSUME NEW kind, NEW n, NEW w, NEW bytes, PortCommand(kind, n, w, bytes)
      PROVE  Filled'
  <2>1. cmd'.form = "single"
    BY <1>5, SMT DEF PortCommand, Begin, NoCommand
  <2>2. QED
    BY <2>1 DEF Filled
<1>6. ASSUME NEW g \in Groups, NEW start \in Operands, NEW end \in Operands,
             NEW v \in Operands, RangeCommand(g, start, end, v)
      PROVE  Filled'
  <2> DEFINE c == [NoCommand EXCEPT !.group = g, !.kind = "write", !.form = "range",
                                    !.start = start, !.end = end, !.operand = v,
                                    !.value = RangeValue(end, v)]
             first == IF Refuses(g, "range", start, end) THEN "refused"
                      ELSE IF More(c, start) THEN "running" ELSE "returned"
  <2>1. Begin(c, first)
    BY <1>6 DEF RangeCommand
  <2>2. c.form = "range" /\ c.start = start /\ c.end = end
    BY SMT DEF NoCommand
  <2>3. first = "returned" => c.start >= c.end
    <3>1. start \in Int /\ end \in Int
      BY GroupFacts, SMT
    <3>2. QED
      BY <2>2, <3>1, SMT DEF More
  <2>4. cmd'.form = "range"
    BY <2>1, <2>2 DEF Begin
  <2>5. QED
    BY <1>1, <2>1, <2>3, <2>4
<1>7. QED
  BY <1>2, <1>3, <1>4, <1>5, <1>6 DEF Next

(* A range command that has returned has filled its range: RangeFills.     *)
THEOREM VgaRangeFills == Spec => []RangeFills
<1>1. Init => Filled
  BY SMT DEF Init, Filled, NoCommand
<1>2. IInv /\ Filled => RangeFills
  <2> SUFFICES ASSUME IInv, Filled, status = "returned", cmd.form = "range", Reliable(cmd)
               PROVE  \E b \in Bytes : \A g \in Groups, i \in Bytes :
                        regs[g][i] = IF InRange(cmd, g, i) THEN b ELSE before[g][i]
    BY DEF RangeFills
  <2>1. cmd.group \in Groups /\ cmd.value \in Nat
    BY SMT DEF IInv, CmdOK, Reliable
  <2>2. Cut(cmd.value) \in Bytes
    BY <2>1, CutType
  <2>3. \A g \in Groups, i \in Bytes :
          regs[g][i] = IF InRange(cmd, g, i) THEN Cut(cmd.value) ELSE before[g][i]
    BY DEF Filled, Written, Turns, InRange
  <2>4. QED
    BY <2>2, <2>3
<1>3. QED
  BY InitInv, NextInv, FilledStep, <1>1, <1>2, PTL DEF Spec

(* Register commands stay within the last index of their group:            *)
(* StaysInGroup.                                                           *)
THEOREM VgaStaysInGroup == Spec => StaysInGroup
<1> DEFINE Beyond(g, i) ==
      regs'[g][i] # regs[g][i] =>
        \/ i <= LastIndex[g]
        \/ cmd.group = "port"
        \/ ~Reliable(cmd)
        \/ cmd.group = "seq" /\ cmd.form = "range"
<1>1. IInv /\ [Next]_vars => [\A g \in Groups, i \in Bytes : Beyond(g, i)]_vars
  <2> SUFFICES ASSUME IInv, [Next]_vars, NEW g \in Groups, NEW i \in Bytes,
                      regs'[g][i] # regs[g][i], Reliable(cmd),
                      ~(cmd.group = "seq" /\ cmd.form = "range")
               PROVE  i <= LastIndex[g]
    OBVIOUS
  <2>1. Access
    <3>1. regs' # regs
      OBVIOUS
    <3>2. \A c, first : ~Begin(c, first)
      BY <3>1 DEF Begin, cardVars
    <3>3. QED
      BY <3>1, <3>2, Zenon DEF Next, RegisterCommand, RangeCommand, PortCommand, vars
  <2>2. status = "running" /\ Respond(Turn[step])
    BY <2>1 DEF Access
  <2>3. Effect(Turn)
    BY <2>2, EffectAll
  <2>4. cmd.kind = "write" /\ regs' = [regs EXCEPT ![cmd.group][Cut(at)] = Cut(cmd.value)]
    BY <2>3, SMT DEF Effect, IInv, CmdOK, Reliable
  <2>5. at <= LastIndex[cmd.group] /\ cmd.group \in Groups
    BY <2>2 DEF IInv, AtOK, Reliable
  <2>6. Cut(at) = at
    <3>1. at \in Bytes
      <4>1. LastIndex[cmd.group] \in Bytes
        BY <2>5
      <4>2. at \in 0 .. AddrMod - 1
        BY DEF IInv, TypeOK
      <4>3. RegMod \in Nat /\ AddrMod \in Nat
        OBVIOUS
      <4>4. QED
        BY <2>5, <4>1, <4>2, <4>3, SMT DEF Bytes
    <3>2. QED
      BY <3>1, CutSmall
  <2>7. g = cmd.group /\ i = Cut(at)
    BY <2>4, <2>5, SMT DEF IInv, TypeOK
  <2>8. QED
    BY <2>5, <2>6, <2>7
<1>2. QED
  BY InitInv, NextInv, <1>1, PTL DEF Spec, StaysInGroup

=============================================================================
