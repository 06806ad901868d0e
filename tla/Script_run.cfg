SPECIFICATION FairSpec
CONSTANTS
  Files = {"autoexec.nvs", "b.nvs"}
  AUTOEXEC_FILENAME = "autoexec.nvs"
  MaxHandles = 3
  MaxText = 3
INVARIANTS
  TypeOK
  DepthWithinHandles
PROPERTIES
  EveryLineRuns
  NoCommandTwice
  ScriptEnds
