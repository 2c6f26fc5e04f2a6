----------------------------- MODULE Semaphores -----------------------------
(***************************************************************************)
(* The kernel's semaphores (Kernel/semaphores/semaphores.c) on top of the  *)
(* scheduler.  The processes make the scheduler's calls and the semaphore  *)
(* calls; a process in down() has yielded and will look at the value again *)
(* when it is scheduled.                                                   *)
(*                                                                         *)
(* up and down run with interrupts off from acquire_mutex to release_mutex *)
(* and down releases before it yields, so no other code ever sees the      *)
(* mutex taken: acquire_mutex does not loop, mutexQueue stays empty, and   *)
(* both are left out.  So is sem_close, which changes nothing, and sem_open*)
(* is the guard of the other calls: they fail on an id that is not open.   *)
(***************************************************************************)
EXTENDS Scheduler

CONSTANTS
  Sems,             \* semaphore identifiers in use
  MaxValue,         \* 2^32 - 1, what a uint32_t value can hold
  InitialValues,    \* the values given to sem_init
  SemCalls,         \* the semaphore calls of the processes
  MaxQueue,         \* bound of the model: entries of a semaphore's queue
  None, Freed       \* waitOn of a process in no semaphore, in a freed one

(* "destroy_busy": sem_destroy while a process is inside sem_wait.         *)
AllSemCalls == {"init", "destroy", "destroy_busy", "post", "wait"}

ASSUME SemCallsAssumption      == SemCalls \subseteq AllSemCalls
ASSUME MaxValueAssumption      == MaxValue \in Nat \ {0}
ASSUME InitialValuesAssumption == InitialValues \subseteq 0 .. MaxValue
ASSUME MaxQueueAssumption      == MaxQueue \in Nat
ASSUME PlacesAssumption        == "sem_wait" \in OtherPlaces /\ "freed_sem" \in OtherFaults
ASSUME NoneAssumption          == None \notin Sems /\ Freed \notin Sems /\ None # Freed

VARIABLES
  sem,      \* sem[i]: the Semaphore semaphores[i] points to, closed when NULL
  waitOn    \* waitOn[p]: the semaphore p's down() has a pointer to

semVars == << vars, sem, waitOn >>

Closed == [open |-> FALSE, value |-> 0, queue |-> << >>]

SemInit ==
  /\ Init
  /\ sem = [i \in Sems |-> Closed]
  /\ waitOn = [p \in Pid |-> None]

-----------------------------------------------------------------------------
(* A process that died while in down() has no stack left to hold a pointer.*)
Holding(at2, w) == [p \in Pid |-> IF at2[p] = "sem_wait" THEN w[p] ELSE None]

SemWaiters(i) == {p \in Pid : at[p] = "sem_wait" /\ waitOn[p] = i}

(* resume_first_available_process: process_is_alive holds of every pid in  *)
(* a queue, so it takes one entry, whatever has become of that process.    *)
WakeFirst(s, q) == IF q = << >> THEN s ELSE set_status(s, Head(q), "READY")

(* Mutant: the woken process stays in the queue.                           *)
RestAfterWake_Keeps(q) == q

RestAfterWake(q) == IF q = << >> THEN q ELSE Tail(q)

(* up: the value counts the post, and the queue loses who is woken.        *)
up(s) ==
  [open |-> s.open, value |-> s.value + 1, queue |-> RestAfterWake(s.queue)]

(* The scheduler's own steps: ticks, Ctrl+C and the calls of Calls. *)
Kernel ==
  /\ Next
  /\ waitOn' = Holding(at', waitOn)
  /\ UNCHANGED sem

(* Mutant: an open semaphore is initialised again.                         *)
sem_init_Twice(i, v) ==
  /\ InUser
  /\ "init" \in SemCalls
  /\ sem' = [sem EXCEPT ![i] = [open |-> TRUE, value |-> v, queue |-> << >>]]
  /\ UNCHANGED << vars, waitOn >>

sem_init(i, v) ==
  /\ InUser
  /\ "init" \in SemCalls
  /\ ~ sem[i].open
  /\ sem' = [sem EXCEPT ![i] = [open |-> TRUE, value |-> v, queue |-> << >>]]
  /\ UNCHANGED << vars, waitOn >>

(* Mutant: a process in down() takes the id's next semaphore for its own.  *)
sem_destroy_KeepsPointers(i) ==
  /\ InUser
  /\ \/ "destroy_busy" \in SemCalls
     \/ "destroy" \in SemCalls /\ SemWaiters(i) = {}
  /\ sem[i].open
  /\ sem' = [sem EXCEPT ![i] = Closed]
  /\ UNCHANGED << vars, waitOn >>

(* free_semaphore frees the queues without waking who is in them. *)
sem_destroy(i) ==
  /\ InUser
  /\ \/ "destroy_busy" \in SemCalls
     \/ "destroy" \in SemCalls /\ SemWaiters(i) = {}
  /\ sem[i].open
  /\ sem' = [sem EXCEPT ![i] = Closed]
  /\ waitOn' = [p \in Pid |-> IF waitOn[p] = i THEN Freed ELSE waitOn[p]]
  /\ UNCHANGED vars

(* Mutant: only the post that finds the value 0 wakes somebody.            *)
sem_post_FromZero(i) ==
  /\ InUser
  /\ "post" \in SemCalls
  /\ sem[i].open
  /\ sem[i].value < MaxValue
  /\ IF sem[i].value = 0
       THEN /\ sem' = [sem EXCEPT ![i] = up(@)]
            /\ Step(WakeFirst(k, sem[i].queue))
       ELSE /\ sem' = [sem EXCEPT ![i].value = @ + 1]
            /\ UNCHANGED vars
  /\ UNCHANGED waitOn

(* up below the largest value: the first in the queue is woken to compete  *)
(* for the value.                                                          *)
sem_post(i) ==
  /\ InUser
  /\ "post" \in SemCalls
  /\ sem[i].open
  /\ sem[i].value < MaxValue
  /\ sem' = [sem EXCEPT ![i] = up(@)]
  /\ Step(WakeFirst(k, sem[i].queue))
  /\ UNCHANGED waitOn

(* up when the value wraps to 0: -1 is returned and nobody is woken. *)
sem_post_wraps(i) ==
  /\ InUser
  /\ "post" \in SemCalls
  /\ sem[i].open
  /\ sem[i].value = MaxValue
  /\ sem' = [sem EXCEPT ![i].value = 0]
  /\ UNCHANGED << vars, waitOn >>

(* down with a positive value. *)
Take(i) ==
  /\ sem[i].value > 0
  /\ sem' = [sem EXCEPT ![i].value = @ - 1]
  /\ at' = [at EXCEPT ![k.current] = "user"]
  /\ waitOn' = Holding(at', waitOn)
  /\ UNCHANGED << k, fault >>

(* down with value 0: into the queue, BLOCKED, and yield. *)
Sleep(i) ==
  /\ sem[i].value = 0
  /\ sem' = [sem EXCEPT ![i].queue = list_append(@, k.current)]
  /\ k' = yield(set_status(k, k.current, "BLOCKED"))
  /\ at' = AtAfter(k', [at EXCEPT ![k.current] = "sem_wait"])
  /\ waitOn' = Holding(at', [waitOn EXCEPT ![k.current] = i])
  /\ UNCHANGED fault

sem_wait(i) ==
  /\ InUser
  /\ "wait" \in SemCalls
  /\ sem[i].open
  /\ Len(sem[i].queue) < MaxQueue
  /\ Take(i) \/ Sleep(i)

InDown == Running /\ at[k.current] = "sem_wait"

(* Mutant: down tests the value with if, not with while.                   *)
down_again_If(i) ==
  /\ InDown
  /\ waitOn[k.current] = i
  /\ sem' = [sem EXCEPT ![i].value = @ - 1]
  /\ at' = [at EXCEPT ![k.current] = "user"]
  /\ waitOn' = Holding(at', waitOn)
  /\ UNCHANGED << k, fault >>

(* Mutant: a process that finds the value taken sleeps without queueing.   *)
down_again_NotQueued(i) ==
  /\ InDown
  /\ waitOn[k.current] = i
  /\ \/ Take(i)
     \/ /\ sem[i].value = 0
        /\ k' = yield(set_status(k, k.current, "BLOCKED"))
        /\ at' = AtAfter(k', at)
        /\ waitOn' = Holding(at', waitOn)
        /\ UNCHANGED << fault, sem >>

(* Back from down's yield: look at the value again. *)
down_again(i) ==
  /\ InDown
  /\ waitOn[k.current] = i
  /\ Take(i) \/ Sleep(i)

(* Back from down's yield, with a pointer to a semaphore that was freed.   *)
down_freed ==
  /\ InDown
  /\ waitOn[k.current] = Freed
  /\ Crash("freed_sem")
  /\ UNCHANGED << sem, waitOn >>

SemNext ==
  \/ Kernel
  \/ \E i \in Sems :
       \/ \E v \in InitialValues : sem_init(i, v)
       \/ sem_destroy(i)
       \/ sem_post(i)
       \/ sem_post_wraps(i)
       \/ sem_wait(i)
       \/ down_again(i)
  \/ down_freed

SemSpec == SemInit /\ [][SemNext]_semVars

(* A process inside the kernel runs on. *)
SemFairness ==
  /\ Fairness
  /\ WF_semVars(down_freed)
  /\ \A i \in Sems : WF_semVars(down_again(i))

FairSemSpec == SemSpec /\ SemFairness

-----------------------------------------------------------------------------
(* Type invariant. *)
SemTypeOK ==
  /\ TypeOK
  /\ sem \in [Sems -> [open : BOOLEAN, value : 0 .. MaxValue, queue : Seq(Pid)]]
  /\ waitOn \in [Pid -> Sems \cup {None, Freed}]

Asleep(i) == {p \in SemWaiters(i) : k.status[p] = "BLOCKED"}
Woken(i)  == SemWaiters(i) \ Asleep(i)

(* A process asleep in down() is in the queue of its semaphore, so a later *)
(* post will come to it, whatever was killed and which pids were reused.   *)
SleepersQueued ==
  \A i \in Sems : Asleep(i) \subseteq ListSet(sem[i].queue)

(* When nobody is killed in down() the queue is the processes asleep, each *)
(* once: a post wakes a process that waits, never another.                 *)
QueueIsSleepers ==
  \A i \in Sems : Exactly(sem[i].queue, Asleep(i))

(* While processes sleep, every unit of the value has a woken process that *)
(* will come for it: no post is forgotten, also when a process that never  *)
(* waited takes the value first.                                           *)
NoPostForgotten ==
  \A i \in Sems : Asleep(i) # {} => Cardinality(Woken(i)) >= sem[i].value

(* The semaphores implement counting semaphores: a pass never takes from a *)
(* value of 0, and every pass, post and wake-up counts once.               *)
Counting ==
  INSTANCE CountingSemaphore WITH
    Procs   <- Pid,
    Nothing <- None,
    open    <- {i \in Sems : sem[i].open},
    value   <- [i \in Sems |-> sem[i].value],
    waiting <- [p \in Pid |-> IF waitOn[p] = Freed THEN None ELSE waitOn[p]]

CountsRight == Counting!Spec

(* As long as a process waits, a positive value does not stay: some woken  *)
(* process, or another, gets the CPU and takes it.                         *)
PostsUsed ==
  \A i \in Sems :
    (sem[i].value > 0 /\ SemWaiters(i) # {})
      ~> (sem[i].value = 0 \/ SemWaiters(i) = {})
=============================================================================
