SPECIFICATION FairSpec
CONSTANTS
  Procs = {2, 3, 4}
  Shell = 1
  NoProc = 0
  NULL = NULL
  Tty = 100
  MaxPipes = 2
  PipeSize = 2
  MaxLen = 2
  MaxBytes = 3
  MaxCuts = 1
  Deaths = {"exit_full"}
PROPERTIES
  ExitEndsPipeline
CHECK_DEADLOCK FALSE
