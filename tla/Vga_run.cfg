SPECIFICATION FairSpec
CONSTANTS
  AddrMod = 16
  RegMod = 4
  LastIndex <- SomeLastIndex
  Operands <- SomeOperands
  Ports <- SomePorts
  PortBytes = {1, 2}
  MaxCommands = 2
INVARIANTS
  TypeOK
  RangeFills
PROPERTIES
  Files
  StaysInGroup
  CommandsReturn
CHECK_DEADLOCK FALSE
