---------------------------- MODULE MCSemaphores ----------------------------
(* Small instances of Semaphores for TLC. *)
EXTENDS Semaphores

OneTick == [l \in Prio |-> 1]
=============================================================================
