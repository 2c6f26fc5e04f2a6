SPECIFICATION DeviceSpec
CONSTANTS
  Drivers = {"keyboard", "console", "clock"}
  Readers = {r1, r2}
  Letters = {"k"}
  BUFFER_SIZE = 2
  CountValues = 4
  MaxPosts = 3
  NoReader = NoReader
  NoChar = NoChar
  EOF = EOF
  CONSOLE_BUFFER_SIZE = 64
  Width = 3
  Lines = 5
  TAB_SIZE = 2
  Writes <- SomeWrites
  MaxWrites = 6
  SecondsPerMinute = 3
  MinutesPerHour = 2
  HoursPerDay = 2
  Naps = {1, 7, 11}
  MaxWaited = 12
INVARIANTS
  KeysInOrder
  ScreenShowsText
  NeverEarly
PROPERTIES
  KeysGetRead
  SleepEnds
CHECK_DEADLOCK FALSE
