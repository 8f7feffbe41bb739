SPECIFICATION Spec
CONSTANTS
  Size = 3
  Files = {"f1", "f2", "gone"}
  Missing = {"gone"}
  Dummy = "null"
  CommandLines <- MCCommandLines
  MaxModuleOpens = 3
  Configs <- MCConfigs
  Keyboard <- MCKeyboard
  ModuleFns <- MCModuleFns
INVARIANTS BuffersFindTheirFile CommandsReachTheFileShown StopsHaveACause KeysRunTheirBindings
CHECK_DEADLOCK FALSE
