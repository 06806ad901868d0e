--------------------------- MODULE CommandsProofs ---------------------------
(***************************************************************************)
(* Proofs about the commands that access the card, for every size of the   *)
(* address space and of the apertures, every amount of memory and every    *)
(* set of numbers that users type.                                         *)
(***************************************************************************)
EXTENDS Commands, TLAPS

(* What strtol returns is a uint32_t.                                      *)
LEMMA StrtolFits == ASSUME NEW n \in Int PROVE Strtol(n) \in Addresses
  BY CommandsAssumption DEF Strtol, Addresses

(* The loop variable wraps, and stays one.                                 *)
LEMMA AfterFits ==
  ASSUME NEW c \in GivenCommands, NEW o \in Addresses
  PROVE  After(c, o) \in Addresses
  BY CommandsAssumption DEF After, Addresses, GivenCommands

LEMMA OpIsCommand ==
  ASSUME NEW op \in Ops
  PROVE  /\ op.space \in {"mmio", "vram", "ramin", "pci"}
         /\ op.width \in {1, 2, 4}
         /\ op.form \in {"write", "read", "range"}
  BY DEF Ops, Spaces

(* Wherever an access goes on the card, it is a 32-bit address.            *)
LEMMA ReachedFits ==
  ASSUME NEW c \in Cards, NEW op, NEW o \in Addresses
  PROVE  Reached(c, op, o) \subseteq Addresses
<1>1. RaminStart(c) \in Nat
  BY CommandsAssumption DEF RaminStart
<1>2. (RaminStart(c) + o) % AddrMod \in Addresses
  BY <1>1, CommandsAssumption DEF Addresses
<1>3. o % PciMod \in Addresses
  BY CommandsAssumption DEF Addresses
<1>4. Address(c, op, o) \in Addresses
  BY <1>2, <1>3 DEF Address
<1> QED BY <1>4 DEF Reached

-----------------------------------------------------------------------------
(* Types                                                                   *)

LEMMA GivenIsCommand ==
  ASSUME NEW op \in Ops, NEW start \in Addresses, NEW end \in Addresses,
         Given(op, start, end)
  PROVE  cmd' \in GivenCommands
  BY OpIsCommand DEF Given, GivenCommands

LEMMA TypeInit == Init => TypeOK
<1>1. 0 \in Addresses
  BY CommandsAssumption DEF Addresses
<1> QED BY <1>1 DEF Init, TypeOK

LEMMA TypeStep == TypeOK /\ [Next]_vars => TypeOK'
<1> SUFFICES ASSUME TypeOK, [Next]_vars PROVE TypeOK'
  OBVIOUS
<1>0. Typed \subseteq Int
  BY CommandsAssumption
<1>1. ASSUME NEW op \in Ops, NEW n \in Typed, Single(op, n) PROVE TypeOK'
  <2>1. Strtol(n) \in Addresses
    BY <1>0, StrtolFits
  <2>2. cmd' \in GivenCommands
    BY <1>1, <2>1, GivenIsCommand DEF Single
  <2>3. touched' \subseteq Addresses
    <3>1. Reached(card, op, Strtol(n)) \subseteq Addresses
      BY <2>1, ReachedFits DEF TypeOK
    <3> QED BY <1>1, <3>1 DEF Single
  <2>4. status' \in {"dead", "refused", "returned"}
    BY <1>1 DEF Single
  <2> QED BY <1>1, <2>1, <2>2, <2>3, <2>4 DEF Single, TypeOK
<1>2. ASSUME NEW op \in Ops, NEW a \in Typed, NEW b \in Typed, Range(op, a, b)
      PROVE TypeOK'
  <2>1. Strtol(a) \in Addresses /\ Strtol(b) \in Addresses
    BY <1>0, StrtolFits
  <2>2. cmd' \in GivenCommands
    BY <1>2, <2>1, GivenIsCommand DEF Range
  <2> QED BY <1>2, <2>1, <2>2 DEF Range, TypeOK
<1>3. CASE Loop
  <2>1. cmd \in GivenCommands
    BY <1>3, CommandsAssumption DEF Loop, More, TypeOK, NoCommand, Addresses
  <2>2. After(cmd, offset) \in Addresses
    BY <2>1, AfterFits DEF TypeOK
  <2>3. Reached(card, cmd, offset) \subseteq Addresses
    BY ReachedFits DEF TypeOK
  <2> QED BY <1>3, <2>2, <2>3 DEF Loop, TypeOK
<1>4. CASE Done
  BY <1>4 DEF Done, TypeOK
<1>5. CASE UNCHANGED vars
  BY <1>5 DEF vars, TypeOK
<1> QED BY <1>1, <1>2, <1>3, <1>4, <1>5 DEF Next

(* The loop variable of a range, the addresses it stands for and the rest  *)
(* of the state keep their types: every sum is cut to 32 bits.             *)
THEOREM TypeCorrect == Spec => []TypeOK
<1>1. Init => TypeOK
  BY TypeInit
<1>2. TypeOK /\ [Next]_vars => TypeOK'
  BY TypeStep
<1> QED BY <1>1, <1>2, PTL DEF Spec

-----------------------------------------------------------------------------
(* The bounds check                                                        *)

(* What the loop of a checked range keeps: it began above the bound and    *)
(* has not wrapped.                                                        *)
AboveStart ==
  (cmd.form = "range" /\ Checked(cmd)) =>
    /\ status \in {"idle", "refused"} => touched = {}
    /\ status \notin {"idle", "refused"} =>
         /\ BoundsCheck(card, cmd.space, cmd.start)
         /\ cmd.start <= offset
    /\ \A a \in touched : cmd.start <= a

(* A segment ends well below 2^32, so an access that does not fault is far *)
(* from where the loop variable wraps.                                     *)
LEMMA NoWrap ==
  ASSUME NEW c \in Cards, NEW k \in GivenCommands, Checked(k),
         NEW o \in Addresses, ~Faults(c, k, o)
  PROVE  After(k, o) = o + k.width
<1>1. c.vram \in 1 .. 8 * Aperture
  BY CommandsAssumption DEF Cards
<1>2. Bar0Limit(c) \in Int /\ Bar0Limit(c) <= 2 * Aperture
  BY CommandsAssumption DEF Bar0Limit
<1>3. Bar1Limit(c) \in Int /\ Bar1Limit(c) <= 8 * Aperture
  BY <1>1, CommandsAssumption DEF Bar1Limit
<1>4. Limit(c, k) \in Int /\ Limit(c, k) <= 8 * Aperture
  BY <1>2, <1>3, CommandsAssumption DEF Limit
<1>5. k.space # "pci" /\ k.space # "ramin" /\ k.width \in {1, 2, 4}
  BY DEF Checked, GivenCommands
<1>6. Address(c, k, o) = o
  BY <1>5 DEF Address
<1>7. o + k.width - 1 <= Limit(c, k)
  BY <1>4, <1>5, <1>6 DEF Faults, Addresses
<1>8. o + k.width < AddrMod
  BY <1>4, <1>5, <1>7, CommandsAssumption DEF Addresses
<1> QED BY <1>5, <1>8, CommandsAssumption DEF After, Addresses

(* The bounds are numbers, and a check that lets an address pass lets the  *)
(* ones above it pass.                                                     *)
LEMMA ChecksAreMonotone ==
  ASSUME NEW c \in Cards, NEW space, NEW a \in Addresses, NEW b \in Addresses,
         BoundsCheck(c, space, a), a <= b
  PROVE  BoundsCheck(c, space, b)
<1>1. MmioMax(c) \in Int
  BY CommandsAssumption DEF MmioMax, NV1_PCI_BAR0_SIZE
<1>2. c.vram \in 1 .. 8 * Aperture
  BY CommandsAssumption DEF Cards
<1>3. c.vram \in Int
  BY <1>2
<1> QED BY <1>1, <1>3 DEF BoundsCheck, Addresses

LEMMA AboveStartStep ==
  TypeOK /\ TypeOK' /\ AboveStart /\ [Next]_vars => AboveStart'
<1> SUFFICES ASSUME TypeOK, TypeOK', AboveStart, [Next]_vars PROVE AboveStart'
  OBVIOUS
<1>1. ASSUME NEW op \in Ops, NEW n \in Typed, Single(op, n) PROVE AboveStart'
  <2>1. cmd'.form # "range"
    BY <1>1 DEF Single, Given
  <2> QED BY <2>1 DEF AboveStart
<1>2. ASSUME NEW op \in Ops, NEW a \in Typed, NEW b \in Typed, Range(op, a, b)
      PROVE AboveStart'
  <2>1. touched' = {} /\ offset' = cmd'.start /\ UNCHANGED card
    BY <1>2 DEF Range, Given
  <2>2. cmd'.space = op.space /\ cmd'.start = Strtol(a)
    BY <1>2 DEF Range, Given
  <2>3. offset' \in Int
    BY DEF TypeOK, Addresses
  <2>4. ASSUME Checked(cmd'), status' # "refused"
        PROVE  BoundsCheck(card, cmd'.space, cmd'.start)
    BY <1>2, <2>2, <2>4 DEF Range, Refuses, Checked
  <2> QED BY <2>1, <2>3, <2>4 DEF AboveStart, Checked, BoundsCheck, MmioMax
<1>3. CASE Loop
  <2> SUFFICES ASSUME cmd.form = "range", Checked(cmd) PROVE AboveStart'
    BY <1>3 DEF Loop, AboveStart, Checked
  <2>1. cmd \in GivenCommands
    BY DEF TypeOK, NoCommand
  <2>2. cmd.start <= offset /\ BoundsCheck(card, cmd.space, cmd.start)
    BY <1>3 DEF Loop, AboveStart
  <2>3. CASE Faults(card, cmd, offset)
    BY <1>3, <2>2, <2>3 DEF Loop, AboveStart, Checked, BoundsCheck, MmioMax
  <2>4. CASE ~Faults(card, cmd, offset)
    <3>1. offset' = offset + cmd.width
      BY <1>3, <2>1, <2>4, NoWrap DEF Loop, TypeOK
    <3>2. cmd.start <= offset'
      BY <2>1, <2>2, <3>1 DEF GivenCommands, TypeOK, Addresses
    <3>3. Reached(card, cmd, offset) \subseteq {offset}
      BY DEF Reached, Address, Checked
    <3>4. \A a \in touched' : cmd.start <= a
      BY <1>3, <2>2, <2>4, <3>3 DEF Loop, AboveStart
    <3> QED BY <1>3, <2>2, <2>4, <3>2, <3>4
            DEF Loop, AboveStart, Checked, BoundsCheck, MmioMax
  <2> QED BY <2>3, <2>4
<1>4. CASE Done
  BY <1>4 DEF Done, AboveStart, Checked, BoundsCheck, MmioMax
<1>5. CASE UNCHANGED vars
  BY <1>5 DEF vars, AboveStart, Checked, BoundsCheck, MmioMax
<1> QED BY <1>1, <1>2, <1>3, <1>4, <1>5 DEF Next

(* A range that passed the check at its ends accesses no address that the  *)
(* check would refuse, on any card: the loop cannot wrap below its start,  *)
(* it would be dead long before.                                           *)
THEOREM EndPointsAreEnough == Spec => []EndPointsSuffice
<1>1. Init => TypeOK /\ AboveStart
  BY TypeInit DEF Init, AboveStart, NoCommand
<1>2. TypeOK /\ AboveStart /\ [Next]_vars => (TypeOK /\ AboveStart)'
  BY TypeStep, AboveStartStep
<1>3. TypeOK /\ AboveStart => EndPointsSuffice
  <2> SUFFICES ASSUME TypeOK, AboveStart, cmd.form = "range", Checked(cmd),
                      NEW a \in touched
               PROVE  ~Refuses(card, cmd, a, a)
    BY DEF EndPointsSuffice
  <2>1. BoundsCheck(card, cmd.space, cmd.start) /\ cmd.start <= a
    BY DEF AboveStart
  <2>2. a \in Addresses /\ cmd.start \in Addresses
    BY DEF TypeOK, GivenCommands, NoCommand
  <2>3. BoundsCheck(card, cmd.space, a)
    BY <2>1, <2>2, ChecksAreMonotone DEF TypeOK
  <2> QED BY <2>3 DEF Refuses
<1> QED BY <1>1, <1>2, <1>3, PTL DEF Spec

-----------------------------------------------------------------------------
(* Alignment in configuration space                                        *)

(* Cutting an address to 16 bits leaves it as aligned as it was.           *)
LEMMA CutStaysAligned ==
  ASSUME NEW w \in {1, 2, 4}, NEW o \in Nat, o % w = 0
  PROVE  (o % PciMod) % w = 0
<1> DEFINE q == o \div PciMod
           r == o % PciMod
           m == PciMod \div 4
<1>1. o = PciMod * q + r /\ q \in Int /\ r \in Int
  BY CommandsAssumption
<1>2. PciMod = 4 * m /\ m \in Int
  BY CommandsAssumption
<1>3. PICK j \in Int : o = w * j
  BY SMT
<1> HIDE DEF q, r, m
<1>4. m * q \in Int
  BY <1>1, <1>2
<1>5. PciMod * q = 4 * (m * q)
  BY <1>1, <1>2
<1>6. r = w * j - 4 * (m * q)
  BY <1>1, <1>3, <1>4, <1>5
<1>7. r % w = 0
  BY <1>1, <1>3, <1>4, <1>6
<1> QED BY <1>7 DEF r

(* A word or dword of configuration space is accessed where a word or      *)
(* dword is, for every address typed and at every turn of a loop.          *)
THEOREM ConfigAccessesAligned == Spec => []ConfigAligned
<1>1. Init => ConfigAligned
  BY DEF Init, ConfigAligned, NoCommand
<1>2. ASSUME NEW op, NEW o \in Addresses, op.space = "pci", op.width \in {1, 2, 4}
      PROVE  \A a \in Reached(card, op, o) : a % op.width = 0
  BY <1>2, CutStaysAligned DEF Reached, Arrives, Address, Addresses
<1>3. TypeOK /\ TypeOK' /\ ConfigAligned /\ [Next]_vars => ConfigAligned'
  <2> SUFFICES ASSUME TypeOK, TypeOK', ConfigAligned, [Next]_vars
               PROVE  ConfigAligned'
    OBVIOUS
  <2>1. ASSUME NEW op \in Ops, NEW n \in Typed, Single(op, n) PROVE ConfigAligned'
    <3>1. Strtol(n) \in Addresses
      BY StrtolFits, CommandsAssumption
    <3>2. cmd'.space = op.space /\ cmd'.width = op.width
      BY <2>1 DEF Single, Given
    <3>3. touched' \subseteq Reached(card, op, Strtol(n))
      BY <2>1 DEF Single
    <3> QED BY <1>2, <3>1, <3>2, <3>3, OpIsCommand DEF ConfigAligned
  <2>2. ASSUME NEW op \in Ops, NEW a \in Typed, NEW b \in Typed, Range(op, a, b)
        PROVE ConfigAligned'
    BY <2>2 DEF Range, ConfigAligned
  <2>3. CASE Loop
    <3>1. cmd.width \in {1, 2, 4} /\ offset \in Addresses
      BY DEF TypeOK, GivenCommands, NoCommand
    <3> QED BY <1>2, <2>3, <3>1 DEF Loop, ConfigAligned
  <2>4. CASE Done
    BY <2>4 DEF Done, ConfigAligned
  <2>5. CASE UNCHANGED vars
    BY <2>5 DEF vars, ConfigAligned
  <2> QED BY <2>1, <2>2, <2>3, <2>4, <2>5 DEF Next
<1> QED BY <1>1, <1>3, TypeInit, TypeStep, PTL DEF Spec

-----------------------------------------------------------------------------
(* What a range accesses                                                   *)

(* Addresses that a step of w leads to from one another.                   *)
InStep(w, a, b) == (a - b) % w = 0

LEMMA Multiple ==
  ASSUME NEW w \in {1, 2, 4}, NEW d \in Int, d % w = 0
  PROVE  \E k \in Int : d = w * k
<1>1. w = 1 => d = w * d
  OBVIOUS
<1>2. w = 2 => d = w * (d \div 2) /\ d \div 2 \in Int
  OBVIOUS
<1>3. w = 4 => d = w * (d \div 4) /\ d \div 4 \in Int
  OBVIOUS
<1> QED BY <1>1, <1>2, <1>3

LEMMA StepUp ==
  ASSUME NEW w \in {1, 2, 4}, NEW s \in Addresses, NEW o \in Addresses, InStep(w, o, s)
  PROVE  /\ InStep(w, o + w, s)
         /\ InStep(w, (o + w) % AddrMod, s)
         /\ \A b \in Int : InStep(w, b, s) /\ b < o + w => b <= o
<1>1. s \in Int /\ o \in Int /\ o + w < 2 * AddrMod
  BY CommandsAssumption DEF Addresses
<1>2. (o + w) % AddrMod = IF o + w < AddrMod THEN o + w ELSE o + w - AddrMod
  BY <1>1, CommandsAssumption DEF Addresses
<1>3. PICK m \in Int : AddrMod = 8 * m
  <2>1. AddrMod = 8 * (AddrMod \div 8) /\ AddrMod \div 8 \in Int
    BY CommandsAssumption
  <2> QED BY <2>1
<1>4. PICK j \in Int : o - s = w * j
  <2>1. o - s \in Int /\ (o - s) % w = 0
    BY <1>1 DEF InStep
  <2> QED BY <2>1, Multiple
<1>5. w = 1 \/ w = 2 \/ w = 4
  OBVIOUS
<1>6. InStep(w, o + w, s)
  <2>1. w = 1 => (o + w - s) % w = 0
    BY <1>1
  <2>2. w = 2 => (o + w - s) % w = 0
    BY <1>1, <1>4
  <2>3. w = 4 => (o + w - s) % w = 0
    BY <1>1, <1>4
  <2> QED BY <1>1, <1>5, <2>1, <2>2, <2>3 DEF InStep
<1>7. InStep(w, o + w - AddrMod, s)
  <2>1. w = 1 => (o + w - AddrMod - s) % w = 0
    BY <1>1, <1>3
  <2>2. w = 2 => (o + w - AddrMod - s) % w = 0
    <3> SUFFICES ASSUME w = 2 PROVE (o + w - AddrMod - s) % w = 0
      OBVIOUS
    <3>1. o + w - AddrMod - s = 2 * (j + 1 - 4 * m)
      BY <1>1, <1>3, <1>4
    <3> QED BY <3>1
  <2>3. w = 4 => (o + w - AddrMod - s) % w = 0
    <3> SUFFICES ASSUME w = 4 PROVE (o + w - AddrMod - s) % w = 0
      OBVIOUS
    <3>1. o + w - AddrMod - s = 4 * (j + 1 - 2 * m)
      BY <1>1, <1>3, <1>4
    <3> QED BY <3>1
  <2> QED BY <1>1, <1>3, <1>5, <2>1, <2>2, <2>3 DEF InStep
<1>8. ASSUME NEW b \in Int, InStep(w, b, s), b < o + w PROVE b <= o
  <2>1. PICK k \in Int : b - s = w * k
    BY <1>1, <1>8, Multiple DEF InStep
  <2>2. w = 1 => b <= o
    BY <1>1, <1>8
  <2>3. w = 2 => b <= o
    BY <1>1, <1>4, <1>8, <2>1
  <2>4. w = 4 => b <= o
    BY <1>1, <1>4, <1>8, <2>1
  <2> QED BY <2>2, <2>3, <2>4
<1> QED BY <1>2, <1>6, <1>7, <1>8

(* The addresses of the running range below a limit.                       *)
Turns(limit) == {o \in cmd.start .. limit - 1 : InStep(cmd.width, o, cmd.start)}

TouchedBelow(limit) == touched = UNION {Reached(card, cmd, o) : o \in Turns(limit)}

(* Every turn of the loop is one more address of the range; a loop that    *)
(* wraps never comes to an end, because no address it gets to is one.      *)
Wrapped == \A o \in Addresses : InStep(cmd.width, o, cmd.start) => o < cmd.end

InRange ==
  /\ cmd.start <= offset /\ TouchedBelow(offset)
  /\ offset = cmd.start \/ offset - cmd.width < cmd.end

TouchedInv ==
  cmd.form = "range" =>
    /\ status = "running" =>
         /\ InStep(cmd.width, offset, cmd.start)
         /\ InRange \/ Wrapped
    /\ status = "returned" => TouchedBelow(cmd.end)

LEMMA RangeIsGiven ==
  ASSUME TypeOK, cmd.form = "range"
  PROVE  /\ cmd \in GivenCommands /\ cmd.width \in {1, 2, 4}
         /\ cmd.start \in Addresses /\ cmd.end \in Addresses
BY DEF TypeOK, NoCommand, GivenCommands

LEMMA LoopTouches ==
  ASSUME TypeOK, TouchedInv, cmd.form = "range", Loop, status' = "running"
  PROVE  TouchedInv'
<1>1. /\ cmd.width \in {1, 2, 4} /\ cmd.start \in Addresses /\ cmd.end \in Addresses
      /\ offset \in Addresses
  BY RangeIsGiven DEF TypeOK
<1>2. /\ status = "running" /\ UNCHANGED <<card, cmd>>
      /\ offset < cmd.end
      /\ offset' = (offset + cmd.width) % AddrMod
      /\ touched' = touched \cup Reached(card, cmd, offset)
  BY DEF Loop, More, After
<1>3. InStep(cmd.width, offset, cmd.start)
  BY <1>2 DEF TouchedInv
<1>4. /\ InStep(cmd.width, offset', cmd.start)
      /\ \A b \in Int : InStep(cmd.width, b, cmd.start) /\ b < offset + cmd.width
                          => b <= offset
  BY <1>1, <1>2, <1>3, StepUp
<1>5. CASE Wrapped
  <2>1. Wrapped'
    BY <1>2, <1>5 DEF Wrapped
  <2> QED
    BY <1>2, <1>4, <2>1 DEF TouchedInv
<1>6. CASE offset + cmd.width >= AddrMod
  <2>1. ASSUME NEW o \in Addresses, InStep(cmd.width, o, cmd.start) PROVE o < cmd.end
    <3>1. o \in Int /\ o < offset + cmd.width
      BY <1>1, <1>6, CommandsAssumption DEF Addresses
    <3>2. o <= offset
      BY <1>4, <2>1, <3>1
    <3> QED
      BY <1>1, <1>2, <3>1, <3>2 DEF Addresses
  <2>2. Wrapped'
    BY <1>2, <2>1 DEF Wrapped
  <2> QED
    BY <1>2, <1>4, <2>2 DEF TouchedInv
<1>7. CASE offset + cmd.width < AddrMod /\ ~Wrapped
  <2>1. InRange
    BY <1>2, <1>7 DEF TouchedInv
  <2>2. offset' = offset + cmd.width
    BY <1>1, <1>2, <1>7, CommandsAssumption DEF Addresses
  <2>3. Turns(offset') = Turns(offset) \cup {offset}
    <3>1. cmd.start <= offset
      BY <2>1 DEF InRange
    <3>2. ASSUME NEW o \in Turns(offset') PROVE o \in Turns(offset) \cup {offset}
      <4>1. /\ o \in Int /\ cmd.start <= o /\ o < offset + cmd.width
            /\ InStep(cmd.width, o, cmd.start)
        BY <1>1, <2>2, <3>2 DEF Turns, Addresses
      <4>2. o <= offset
        BY <1>4, <4>1
      <4> QED
        BY <1>1, <4>1, <4>2 DEF Turns, Addresses
    <3>3. Turns(offset) \cup {offset} \subseteq Turns(offset')
      BY <1>1, <1>3, <2>2, <3>1 DEF Turns, Addresses
    <3> QED
      BY <3>2, <3>3
  <2>4. touched' = UNION {Reached(card, cmd, o) : o \in Turns(offset')}
    BY <1>2, <2>1, <2>3 DEF InRange, TouchedBelow
  <2>5. TouchedBelow(offset)'
    BY <1>2, <2>4 DEF TouchedBelow, Turns, Reached, Arrives, HasRamin, Address, RaminStart
  <2>6. cmd'.start <= offset' /\ offset' - cmd'.width < cmd'.end
    BY <1>1, <1>2, <2>1, <2>2 DEF InRange, Addresses
  <2>7. InRange'
    BY <2>5, <2>6 DEF InRange
  <2> QED
    BY <1>2, <1>4, <2>7 DEF TouchedInv
<1> QED
  BY <1>1, <1>5, <1>6, <1>7, CommandsAssumption DEF Addresses

LEMMA DoneTouches ==
  ASSUME TypeOK, TouchedInv, cmd.form = "range", Done PROVE TouchedInv'
<1>1. /\ cmd.width \in {1, 2, 4} /\ cmd.start \in Addresses /\ cmd.end \in Addresses
      /\ offset \in Addresses
  BY RangeIsGiven DEF TypeOK
<1>2. /\ status = "running" /\ status' = "returned"
      /\ UNCHANGED <<card, cmd, offset, touched>> /\ ~(offset < cmd.end)
  BY DEF Done, More
<1>3. InStep(cmd.width, offset, cmd.start) /\ ~Wrapped
  BY <1>1, <1>2 DEF TouchedInv, Wrapped
<1>4. InRange
  BY <1>2, <1>3 DEF TouchedInv
<1>5. Turns(offset) = Turns(cmd.end)
  <2>1. CASE offset = cmd.start
    BY <1>1, <1>2, <2>1 DEF Turns, Addresses
  <2>2. CASE offset # cmd.start
    <3>1. offset - cmd.width < cmd.end /\ cmd.start <= offset
      BY <1>4, <2>2 DEF InRange
    <3>2. ASSUME NEW o \in cmd.start .. offset - 1, InStep(cmd.width, o, cmd.start)
          PROVE  o < cmd.end
      <4>1. o \in Int /\ o < offset /\ offset \in Int /\ cmd.start \in Int
        BY <1>1, <3>2 DEF Addresses
      <4>2. o <= offset - cmd.width
        <5>1. CASE cmd.width = 1
          BY <4>1, <5>1
        <5>2. CASE cmd.width = 2
          BY <1>3, <3>2, <4>1, <5>2 DEF InStep
        <5>3. CASE cmd.width = 4
          BY <1>3, <3>2, <4>1, <5>3 DEF InStep
        <5> QED
          BY <1>1, <5>1, <5>2, <5>3
      <4> QED
        BY <1>1, <3>1, <4>1, <4>2 DEF Addresses
    <3> QED
      BY <1>1, <1>2, <3>2 DEF Turns, Addresses
  <2> QED
    BY <2>1, <2>2
<1>6. TouchedBelow(cmd.end)
  BY <1>4, <1>5 DEF InRange, TouchedBelow
<1>7. TouchedBelow(cmd.end)'
  BY <1>2, <1>6 DEF TouchedBelow, Turns, Reached, Arrives, HasRamin, Address, RaminStart
<1> QED
  BY <1>2, <1>7 DEF TouchedInv

(* A range command that returns has accessed every address of its range    *)
(* and nothing else, whatever its width, its ends and the card.            *)
THEOREM RangesAreWhatWasAsked == Spec => []RangeIsWhatWasAsked
<1>1. Init => TouchedInv
  BY DEF Init, TouchedInv, NoCommand
<1>2. TypeOK /\ TypeOK' /\ TouchedInv /\ [Next]_vars => TouchedInv'
  <2> SUFFICES ASSUME TypeOK, TypeOK', TouchedInv, [Next]_vars PROVE TouchedInv'
    OBVIOUS
  <2>1. ASSUME NEW op \in Ops, NEW n \in Typed, Single(op, n) PROVE TouchedInv'
    BY <2>1 DEF Single, Given, TouchedInv
  <2>2. ASSUME NEW op \in Ops, NEW a \in Typed, NEW b \in Typed, Range(op, a, b)
        PROVE  TouchedInv'
    <3>1. /\ cmd'.start = offset' /\ cmd'.width \in {1, 2, 4} /\ touched' = {}
          /\ status' \in {"refused", "running"} /\ offset' \in Addresses
      BY <2>2, OpIsCommand DEF Range, Given, TypeOK
    <3>2. offset' \in Int
      BY <3>1, CommandsAssumption DEF Addresses
    <3>3. offset' - offset' = 0 /\ offset' <= offset'
      <4>1. \A x \in Int : x - x = 0 /\ x <= x
        OBVIOUS
      <4> QED
        BY <3>2, <4>1, Zenon
    <3>4. 0 % cmd'.width = 0
      BY <3>1
    <3>5. Turns(offset)' = {}
      BY <3>1 DEF Turns, Addresses
    <3>6. InRange' /\ InStep(cmd.width, offset, cmd.start)'
      BY <3>1, <3>3, <3>5, <3>4 DEF InRange, TouchedBelow, InStep
    <3> QED
      BY <3>1, <3>6 DEF TouchedInv
  <2>3. CASE Loop
    <3>1. CASE status' = "running" /\ cmd.form = "range"
      BY <2>3, <3>1, LoopTouches
    <3>2. CASE status' # "running" \/ cmd.form # "range"
      BY <2>3, <3>2 DEF Loop, TouchedInv
    <3> QED
      BY <3>1, <3>2
  <2>4. CASE Done
    <3>1. CASE cmd.form = "range"
      BY <2>4, <3>1, DoneTouches
    <3>2. CASE cmd.form # "range"
      BY <2>4, <3>2 DEF Done, TouchedInv
    <3> QED
      BY <3>1, <3>2
  <2>5. CASE UNCHANGED vars
    BY <2>5 DEF vars, TouchedInv, InRange, Wrapped, TouchedBelow, Turns, Reached,
                Arrives, HasRamin, Address, RaminStart
  <2> QED BY <2>1, <2>2, <2>3, <2>4, <2>5 DEF Next
<1>3. TouchedInv => RangeIsWhatWasAsked
  BY DEF TouchedInv, RangeIsWhatWasAsked, TouchedBelow, Turns, InStep
<1> QED BY <1>1, <1>2, <1>3, TypeInit, TypeStep, PTL DEF Spec

=============================================================================
