SPECIFICATION Spec
CONSTANTS
  MB = 4
  Machines <- SomeMachines
  Boots <- SomeBoots
  Rams <- SomeRams
  NV_MMIO_DUMP_FLUSH_FREQUENCY = 16
  excluded_areas <- SomeAreas
  NV1_PROM = 48
  NV3_PROM_START = 12
  NV4_PRAMIN_START = 56
  VBIOS_LENGTH = 2
  MaxTests = 2
INVARIANTS
  TypeOK
  ClocksKept
  DumpIsTheBar
  CrashLosesOneBlock
CHECK_DEADLOCK FALSE
