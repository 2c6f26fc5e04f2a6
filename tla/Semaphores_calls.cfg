SPECIFICATION FairSemSpec
CONSTANTS
  MaxProcesses = 6
  NumPriorities = 1
  AgingThreshold = 1
  Quantum <- OneTick
  Calls = {"create", "yield"}
  ChildStdin = {"STDIN"}
  ShellPriority = 0
  Watched = {}
  OtherPlaces = {"sem_wait"}
  OtherFaults = {"freed_sem"}
  Sems = {s}
  MaxValue = 2
  InitialValues = {0, 1}
  SemCalls = {"init", "destroy", "post", "wait"}
  MaxQueue = 5
  None = None
  Freed = Freed
INVARIANTS
  SemTypeOK
  QueueIsSleepers
  NoPostForgotten
PROPERTIES
  PostsUsed
