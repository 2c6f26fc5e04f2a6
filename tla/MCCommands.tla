----------------------------- MODULE MCCommands -----------------------------
(* A small instance of Commands for TLC. *)
EXTENDS Commands

(* Processes that decrement and as many that increment. *)
TwoPairs == [p \in Workers |-> IF p % 2 = 0 THEN 1 ELSE -1]
=============================================================================
