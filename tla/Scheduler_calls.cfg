SPECIFICATION Spec
CONSTANTS
  MaxProcesses = 4
  NumPriorities = 2
  AgingThreshold = 2
  Quantum <- ShortQuantum
  Calls <- AllCalls
  ChildStdin = {"STDIN", "other"}
  ShellPriority = 1
  Watched = {}
  OtherPlaces = {}
  OtherFaults = {}
INVARIANTS
  TypeOK
  QueuesExact
  TableConsistent
  CpuOwner
PROPERTIES
  IdleOnlyWhenNothingReady
  ZombieKeptForParent
  DeadNeverResumed
CHECK_DEADLOCK FALSE
