SPECIFICATION Spec
CONSTANTS
  Files = {"autoexec.nvs", "b.nvs"}
  AUTOEXEC_FILENAME = "autoexec.nvs"
  MaxHandles = 2
  MaxText = 2
PROPERTY ScriptsCallScripts
