------------------------- MODULE CountingSemaphore -------------------------
(***************************************************************************)
(* What the kernel's semaphores promise: a value that every pass takes one *)
(* from and every post adds one to, and processes that wait while it is 0. *)
(* Who passes first is left open.                                          *)
(***************************************************************************)
EXTENDS Naturals

CONSTANTS
  Procs,            \* the processes
  Sems,             \* the semaphore identifiers
  InitialValues,    \* the values given to sem_init
  MaxValue,         \* the largest value
  Nothing           \* what a process waits for when it does not wait

VARIABLES
  open,             \* the semaphores that exist
  value,            \* value[i]
  waiting           \* waiting[p]: the semaphore p waits for

vars == << open, value, waiting >>

Init ==
  /\ open = {}
  /\ value = [i \in Sems |-> 0]
  /\ waiting = [p \in Procs |-> Nothing]

Create(i, v) ==
  /\ i \notin open
  /\ open' = open \cup {i}
  /\ value' = [value EXCEPT ![i] = v]
  /\ UNCHANGED waiting

(* Who waits for a destroyed semaphore never passes it. *)
Destroy(i) ==
  /\ i \in open
  /\ open' = open \ {i}
  /\ value' = [value EXCEPT ![i] = 0]
  /\ waiting' = [p \in Procs |-> IF waiting[p] = i THEN Nothing ELSE waiting[p]]

Post(i) ==
  /\ i \in open
  /\ value[i] < MaxValue
  /\ value' = [value EXCEPT ![i] = @ + 1]
  /\ UNCHANGED << open, waiting >>

(* The post that is refused at the largest value loses the value. *)
RefusedPost(i) ==
  /\ i \in open
  /\ value[i] = MaxValue
  /\ value' = [value EXCEPT ![i] = 0]
  /\ UNCHANGED << open, waiting >>

Pass(i, p) ==
  /\ i \in open
  /\ value[i] > 0
  /\ waiting[p] \in {Nothing, i}
  /\ value' = [value EXCEPT ![i] = @ - 1]
  /\ waiting' = [waiting EXCEPT ![p] = Nothing]
  /\ UNCHANGED open

Wait(i, p) ==
  /\ i \in open
  /\ value[i] = 0
  /\ waiting[p] = Nothing
  /\ waiting' = [waiting EXCEPT ![p] = i]
  /\ UNCHANGED << open, value >>

(* Processes that wait may be killed. *)
GiveUp(gone) ==
  /\ waiting' = [p \in Procs |-> IF p \in gone THEN Nothing ELSE waiting[p]]
  /\ UNCHANGED << open, value >>

Next ==
  \/ \E i \in Sems :
       \/ \E v \in InitialValues : Create(i, v)
       \/ Destroy(i)
       \/ Post(i)
       \/ RefusedPost(i)
       \/ \E p \in Procs : Pass(i, p) \/ Wait(i, p)
  \/ \E gone \in SUBSET Procs : GiveUp(gone)

Spec == Init /\ [][Next]_vars
=============================================================================
