------------------------------ MODULE Channel ------------------------------
(***************************************************************************)
(* What a pipe promises: a bounded first-in first-out queue of bytes from  *)
(* one writer to one reader.  The reader takes the bytes once, in order,   *)
(* and meets the end only when the writer is gone and all are taken.       *)
(***************************************************************************)
EXTENDS Naturals, Sequences

CONSTANTS
  Bytes,            \* what may be written
  Capacity          \* how many bytes fit

VARIABLES
  there,            \* does the channel exist?
  queue,            \* the bytes written and not yet taken
  taken,            \* the bytes taken so far
  over              \* has the writer left?

vars == << there, queue, taken, over >>

Gone == there = FALSE /\ queue = << >> /\ taken = << >> /\ over = FALSE

Init == Gone

Open == ~ there /\ there' /\ UNCHANGED << queue, taken, over >>

(* Some bytes go in, as far as there is room, and only before the end. *)
Put ==
  /\ there /\ ~ over
  /\ \E n \in 1 .. Capacity - Len(queue) :
       \E s \in [1 .. n -> Bytes] : queue' = queue \o s
  /\ UNCHANGED << there, taken, over >>

Take ==
  /\ there
  /\ \E n \in 1 .. Len(queue) :
       /\ taken' = taken \o SubSeq(queue, 1, n)
       /\ queue' = SubSeq(queue, n + 1, Len(queue))
  /\ UNCHANGED << there, over >>

Leave == there /\ over' = TRUE /\ UNCHANGED << there, queue, taken >>

(* The reader leaves: nobody can want the bytes that are still inside. *)
Close == there /\ Gone'

Next == Open \/ Put \/ Take \/ Leave \/ Close

Spec == Init /\ [][Next]_vars
=============================================================================
