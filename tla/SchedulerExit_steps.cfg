SPECIFICATION ExitSpec
CONSTANTS
  MaxProcesses = 5
  NumPriorities = 1
  AgingThreshold = 1
  Quantum <- ShortQuantum
  Calls <- ExitCalls
  ChildStdin = {"STDIN"}
  ShellPriority = 0
  Watched = {}
  OtherPlaces = {}
  OtherFaults = {"double_free", "freed_process"}
INVARIANTS
  SlotsAccounted
  WakeLostOnlyByCut
CHECK_DEADLOCK FALSE
