SPECIFICATION FairSpec
CONSTANTS
  MaxProcesses = 5
  NumPriorities = 2
  AgingThreshold = 2
  Quantum <- OneTick
  Calls <- FamilyCalls
  ChildStdin = {"STDIN"}
  ShellPriority = 1
  Watched = {2}
  OtherPlaces = {}
  OtherFaults = {}
INVARIANTS
  NoLostWaitWakeup
  WaitpidAfterExit
PROPERTIES
  ReadyRunsOnceWakesStop
