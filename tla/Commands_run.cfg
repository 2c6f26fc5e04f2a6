SPECIFICATION CommandSpec
CONSTANTS
  Programs = {"test_sync", "mvar"}
  Workers = {1, 2}
  Delta <- TwoPairs
  Times = 3
  SEM_ID = 67
  MaxSem = 3
  Awake = 0
  Writers = {w1, w2}
  Readers = {r1, r2}
  MVAR_MUTEX = 100
  MVAR_READ_SEM = 101
  MVAR_WRITE_SEM = 102
  MaxValue = 3
  Nothing = 0
INVARIANTS
  NoLostUpdate
  FinalZero
  ReadsMatchWrites
PROPERTIES
  SyncEnds
  MVarGoesOn
CHECK_DEADLOCK FALSE
