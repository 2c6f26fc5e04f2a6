SPECIFICATION SemSpec
CONSTANTS
  MaxProcesses = 5
  NumPriorities = 1
  AgingThreshold = 1
  Quantum <- OneTick
  Calls = {"create", "kill", "ctrl_c"}
  ChildStdin = {"STDIN"}
  ShellPriority = 0
  Watched = {}
  OtherPlaces = {"sem_wait"}
  OtherFaults = {"freed_sem"}
  Sems = {s}
  MaxValue = 3
  InitialValues = {0, 1}
  SemCalls = {"init", "destroy_busy", "post", "wait"}
  MaxQueue = 4
  None = None
  Freed = Freed
INVARIANTS
  SleepersQueued
PROPERTIES
  CountsRight
CHECK_DEADLOCK FALSE
