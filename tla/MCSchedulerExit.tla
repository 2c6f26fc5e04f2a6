--------------------------- MODULE MCSchedulerExit ---------------------------
(* Small instances of SchedulerExit for TLC. *)
EXTENDS SchedulerExit

ShortQuantum == [l \in Prio |-> 2]

ExitCalls == {"create", "waitpid", "ctrl_c"}
=============================================================================
