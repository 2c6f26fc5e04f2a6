------------------------------ MODULE MCDevices ------------------------------
(* Small instances of Devices for TLC. *)
EXTENDS Devices

(* Short writes that echo and erase, lines with a tab and empty lines, and *)
(* two of as many characters as the buffer drops when it is full, one with *)
(* newlines and one without.                                               *)
SomeWrites ==
  { << "a" >>, << "b", BACKSPACE, "a" >>,
    << TAB, "b", NEWLINE, NEWLINE >>,
    [i \in 1 .. CONSOLE_BUFFER_SIZE \div 4 |-> IF i % 7 = 0 THEN NEWLINE ELSE "a"],
    [i \in 1 .. CONSOLE_BUFFER_SIZE \div 4 |-> "b"] }
=============================================================================
