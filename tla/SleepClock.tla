----------------------------- MODULE SleepClock -----------------------------
(***************************************************************************)
(* sleep(): sys_sleep (Kernel/idt/syscalls.c) on the real time clock       *)
(* (Kernel/drivers/rtc.c), as the loop command calls it.  The time of day  *)
(* is read in three pieces, and the clock goes on between them.  A minute  *)
(* has SecondsPerMinute seconds, and so on, so that a day is small.        *)
(***************************************************************************)
EXTENDS Integers

CONSTANTS
  SecondsPerMinute, MinutesPerHour, HoursPerDay,    \* 60, 60, 24
  Naps,             \* bound of the model: the seconds loop is given, from 1
  MaxWaited         \* bound of the model: how far waited counts

ASSUME ClockAssumption ==
  /\ SecondsPerMinute \in Nat \ {0} /\ MinutesPerHour \in Nat \ {0}
  /\ HoursPerDay \in Nat \ {0} /\ MaxWaited \in Nat

SecondsPerHour == SecondsPerMinute * MinutesPerHour
Day            == SecondsPerHour * HoursPerDay

VARIABLES
  clock,        \* the second of the day
  nap,          \* the call of sleep
  looked,       \* history: has a poll begun since the sleep fell due?
  missed,       \* history: did its time pass without a poll?
  waited,       \* history: the seconds that the call of sleep took
  torn          \* history: has a minute ended between two pieces of a read?

clockVars == << clock, nap, looked, missed, waited, torn >>

(* nap.at: "awake", or the registers read so far: "none", "sec", "min".    *)
(* nap.why: the time read is the start, the loop's first test or, after    *)
(* midnight, its second.                                                   *)
NoNap == [at |-> "awake", why |-> "start", sec |-> 0, min |-> 0,
          seconds |-> 0, start |-> 0, target |-> 0]

ClockInit ==
  /\ clock = 0
  /\ nap = NoNap
  /\ looked = FALSE
  /\ missed = FALSE
  /\ waited = 0
  /\ torn = FALSE

-----------------------------------------------------------------------------
(* The chip counts in BCD. *)
BCD(n)           == (n \div 10) * 16 + (n % 10)
bcd_to_binary(b) == (b \div 16) * 10 + (b % 16)

RTC_SECONDS == BCD(clock % SecondsPerMinute)
RTC_MINUTES == BCD((clock \div SecondsPerMinute) % MinutesPerHour)
RTC_HOURS   == BCD(clock \div SecondsPerHour)

Wraps == nap.target <= nap.start

(* A test made at time t ends the sleep: from the target to the end of the *)
(* day, or to the start when the target is tomorrow.                       *)
Due(t) == nap.why # "start" /\ nap.target <= t /\ (Wraps => t < nap.start)

(* A second passes, whatever the sleeper has come to: other processes may  *)
(* keep the processor for many.  The time of the sleep is missed when it   *)
(* passes without a poll, or when midnight is between a poll's two tests.  *)
Second ==
  LET next == (clock + 1) % Day
  IN  /\ clock' = next
      /\ looked' = (looked /\ Due(next))
      /\ missed' =
           \/ missed
           \/ Due(clock) /\ ~ Due(next) /\ ~ looked
           \/ nap.at = "none" /\ nap.why = "second" /\ next = 0
      /\ waited' = IF nap.at # "awake" /\ waited < MaxWaited THEN waited + 1 ELSE waited
      /\ torn' = (torn \/ (nap.at \in {"sec", "min"} /\ (clock + 1) % SecondsPerMinute = 0))
      /\ UNCHANGED nap

Sleep(n) ==
  /\ nap.at = "awake"
  /\ nap' = [NoNap EXCEPT !.at = "none", !.seconds = n]
  /\ waited' = 0
  /\ looked' = FALSE /\ missed' = FALSE /\ torn' = FALSE
  /\ UNCHANGED clock

ReadSeconds ==
  /\ nap.at = "none"
  /\ nap' = [nap EXCEPT !.at = "sec", !.sec = bcd_to_binary(RTC_SECONDS)]
  /\ looked' = (looked \/ (nap.why = "poll" /\ Due(clock)))
  /\ UNCHANGED << clock, missed, waited, torn >>

ReadMinutes ==
  /\ nap.at = "sec"
  /\ nap' = [nap EXCEPT !.at = "min", !.min = bcd_to_binary(RTC_MINUTES)]
  /\ UNCHANGED << clock, looked, missed, waited, torn >>

(* rtc_get_seconds, when the hours have been read *)
Now == nap.sec + nap.min * SecondsPerMinute + bcd_to_binary(RTC_HOURS) * SecondsPerHour

Reads(why) ==
  /\ nap.at = "min"
  /\ nap.why = why
  /\ UNCHANGED << clock, looked, missed, waited, torn >>

Again(why) == nap' = [nap EXCEPT !.at = "none", !.why = why, !.sec = 0, !.min = 0]
WakeUp     == nap' = [NoNap EXCEPT !.seconds = nap.seconds]

(* Mutant: the target is not brought back into the day.                    *)
Begin_NoWrap ==
  /\ Reads("start")
  /\ nap' = [NoNap EXCEPT !.at = "none", !.why = "poll", !.seconds = nap.seconds,
                          !.start = Now, !.target = Now + nap.seconds]

Begin ==
  LET sum == Now + nap.seconds
  IN  /\ Reads("start")
      /\ nap' = [NoNap EXCEPT !.at = "none", !.why = "poll", !.seconds = nap.seconds,
                              !.start = Now,
                              !.target = IF sum >= Day THEN sum - Day ELSE sum]

PollToday ==
  /\ Reads("poll")
  /\ ~ Wraps
  /\ IF Now < nap.target THEN Again("poll") ELSE WakeUp

(* Mutant: past midnight only the first of the two tests is made.          *)
PollTomorrow_OneTest ==
  /\ Reads("poll")
  /\ Wraps
  /\ IF Now >= nap.start THEN Again("poll") ELSE WakeUp

(* rtc_get_seconds() >= start_seconds || rtc_get_seconds() < target_seconds*)
PollTomorrow ==
  /\ Reads("poll")
  /\ Wraps
  /\ IF Now >= nap.start THEN Again("poll") ELSE Again("second")

PollTarget ==
  /\ Reads("second")
  /\ IF Now < nap.target THEN Again("poll") ELSE WakeUp

Naptime ==
  ReadSeconds \/ ReadMinutes \/ Begin \/ PollToday \/ PollTomorrow \/ PollTarget

ClockNext == Second \/ (\E n \in Naps : Sleep(n)) \/ Naptime

ClockSpec == ClockInit /\ [][ClockNext]_clockVars

-----------------------------------------------------------------------------
(* sleep does not return before its time, across midnight either, unless a *)
(* minute ended in the middle of a read of the clock.                      *)
NeverEarly ==
  nap.at = "awake" /\ ~ torn /\ nap.seconds <= MaxWaited => waited >= nap.seconds

(* sleep returns, for every time of day and every length under a day, even *)
(* across midnight, as long as it is given one poll from its target on,    *)
(* before the day ends (or the start comes again).                         *)
SleepEnds == nap.at # "awake" ~> nap.at = "awake" \/ torn \/ missed
=============================================================================
