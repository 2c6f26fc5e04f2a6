------------------------------ MODULE Devices ------------------------------
(***************************************************************************)
(* The device drivers.  They share nothing, so an execution is about one.  *)
(***************************************************************************)
EXTENDS Keyboard, Console, SleepClock

CONSTANT Drivers        \* "keyboard", "console", "clock"

VARIABLE driver

deviceVars == << driver, keyboardVars, consoleVars, clockVars >>

DeviceInit == driver \in Drivers /\ KeyboardInit /\ ConsoleInit /\ ClockInit

Keys  == driver = "keyboard" /\ UNCHANGED << driver, consoleVars, clockVars >>
Shown == driver = "console" /\ UNCHANGED << driver, keyboardVars, clockVars >>
Timed == driver = "clock" /\ UNCHANGED << driver, keyboardVars, consoleVars >>

DeviceNext ==
  \/ Keys /\ KeyboardNext
  \/ Shown /\ ConsoleNext
  \/ Timed /\ ClockNext

(* A woken process runs on (Semaphores, PostsUsed), the user types, the    *)
(* handler polls, and the clock and who sleeps by it go on.                *)
DeviceSpec ==
  /\ DeviceInit /\ [][DeviceNext]_deviceVars
  /\ \A p \in Readers : WF_deviceVars(Keys /\ sys_read_woken(p))
  /\ \A key \in Letters : WF_deviceVars(Keys /\ Letter(key))
  /\ WF_deviceVars(Keys /\ HandlerTakesKey)
  /\ WF_deviceVars(Timed /\ Second)
  /\ WF_deviceVars(Timed /\ Naptime)
=============================================================================
