SPECIFICATION Spec
CONSTANTS
  AddrMod = 256
  PciMod = 32
  Aperture = 16
  ConfigSize = 8
  Vrams = {8, 32}
  Typed <- SomeTyped
INVARIANTS
  RefusedIsOutOfBounds

CHECK_DEADLOCK FALSE
