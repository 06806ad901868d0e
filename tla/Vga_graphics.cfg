SPECIFICATION Spec
CONSTANTS
  AddrMod = 16
  RegMod = 4
  LastIndex <- SomeLastIndex
  Operands <- SomeOperands
  Ports <- SomePorts
  PortBytes = {1, 2}
  MaxCommands = 2
INVARIANT GraphicsWriteLands
CHECK_DEADLOCK FALSE
