SPECIFICATION ExitSpec
CONSTANTS
  MaxProcesses = 5
  NumPriorities = 2
  AgingThreshold = 1
  Quantum <- ShortQuantum
  Calls <- ExitCalls
  ChildStdin = {"STDIN"}
  ShellPriority = 1
  Watched = {}
  OtherPlaces = {}
  OtherFaults = {"double_free", "freed_process"}
INVARIANTS
  ExitWakesParent
CHECK_DEADLOCK FALSE
