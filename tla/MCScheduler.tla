---------------------------- MODULE MCScheduler ----------------------------
(* Small instances of Scheduler for TLC.  The quantum of priority l is 2^l *)
(* ticks: the kernel's 4 * 2^l with a shorter tick.                        *)
EXTENDS Scheduler

ShortQuantum == [l \in Prio |-> 2 ^ l]

(* Every process loses the CPU at each tick. *)
OneTick == [l \in Prio |-> 1]

(* Everything about parents and children; who is blocked with block is not *)
(* unblocked again.                                                        *)
FamilyCalls == {"create", "kill", "waitpid", "yield", "block", "ctrl_c"}
=============================================================================
