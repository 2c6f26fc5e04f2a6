------------------------------ MODULE Scheduler ------------------------------
(***************************************************************************)
(* The kernel's scheduler at run time: one CPU, the timer and keyboard     *)
(* interrupts, and processes that make scheduling system calls.            *)
(*                                                                         *)
(* Every IDT gate is an interrupt gate (idtLoader.c), so a system call or  *)
(* an interrupt handler runs with interrupts off: it is one atomic step up *)
(* to the yield() in it.  A process resumed inside a system call is in the *)
(* kernel with interrupts still off, and at[p] says where: no tick and no  *)
(* other call comes before it leaves.                                      *)
(*                                                                         *)
(* What a process does in user mode is any sequence of the calls in Calls. *)
(* Two of them are behaviours the kernel does not survive, kept apart so   *)
(* that a run says whether it allows them:                                 *)
(*   "create_last"  create_process when one slot is left                   *)
(*   "wake_waiter"  block or unblock of a process inside waitpid           *)
(* A process that returns from its main function is taken to exit in one   *)
(* step, as it does with kill(getpid()); SchedulerExit has the real one.   *)
(***************************************************************************)
EXTENDS SchedOps

CONSTANTS
  Calls,            \* what the processes and the user may do
  ChildStdin,       \* the descriptors 0 that create_process is given
  ShellPriority,    \* the priority main() gives the shell
  Watched,          \* the processes the liveness properties are about
  OtherPlaces,      \* places in the kernel and ends of it that the modules
  OtherFaults       \*   built on this one add

AllCalls == {"create", "create_last", "kill", "yield", "nice", "block", "unblock",
             "wake_waiter", "waitpid", "ctrl_c"}

ASSUME CallsAssumption         == Calls \subseteq AllCalls
ASSUME ChildStdinAssumption    == ChildStdin \subseteq Stdin
ASSUME WatchedAssumption       == Watched \subseteq Pid \ {IDLE}
ASSUME ShellPriorityAssumption == ShellPriority \in Prio

VARIABLES
  k,        \* the scheduler state (SchedOps)
  at,       \* at[p]: "user", or "waitpid" from waitpid's yield to its return
  fault     \* "none", or what ended the kernel (Fault)

vars == << k, at, fault >>

Where == {"user", "waitpid"} \cup OtherPlaces

(* "create_loop": create_process does not end; "bad_reap": waitpid frees a *)
(* process that is not a zombie.  OtherFaults are those of the modules that *)
(* extend this one.                                                        *)
Fault == {"none", "create_loop", "bad_reap"} \cup OtherFaults

-----------------------------------------------------------------------------
(* scheduler_init on zeroed memory, then the two processes main() creates. *)

scheduler_init ==
  [status |-> [p \in Pid |-> "FREE"], prio |-> [p \in Pid |-> 0],
   parent |-> [p \in Pid |-> 0], consumed |-> [p \in Pid |-> 0],
   waitFor |-> [p \in Pid |-> NoPid], stdin |-> [p \in Pid |-> "other"],
   ready |-> [l \in Prio |-> << >>], blocked |-> << >>,
   zombies |-> [p \in Pid |-> << >>],
   current |-> 0, nextUnused |-> 0, num |-> 0, remaining |-> 1, initial |-> 0,
   killFg |-> FALSE, fg |-> NoPid, level |-> NumPriorities - 1]

WithIdle == create_process(scheduler_init, 0, "STDIN")

Init ==
  /\ k = create_process(WithIdle, ShellPriority, "STDIN")
  /\ at = [p \in Pid |-> "user"]
  /\ fault = "none"

-----------------------------------------------------------------------------
Running       == fault = "none"
Interruptible == Running /\ at[k.current] = "user"
InUser        == Interruptible /\ k.current # IDLE

(* A dead process has no kernel context left. *)
AtAfter(k2, where) ==
  [p \in Pid |-> IF k2.status[p] \in {"FREE", "ZOMBIE"} THEN "user" ELSE where[p]]

Step(k2) ==
  /\ k' = k2
  /\ at' = AtAfter(k2, at)
  /\ UNCHANGED fault

Crash(f) == fault' = f /\ UNCHANGED << k, at >>

(* main(): sti, then yield, before any process has run. *)
Boot == Running /\ k.initial = 0 /\ Step(yield(k))

Tick == Interruptible /\ Step(schedule(k))

(* keyboard_handler on Ctrl+C: kill_foreground_process. *)
CtrlC ==
  /\ Interruptible
  /\ "ctrl_c" \in Calls
  /\ Step([k EXCEPT !.killFg = TRUE])

Create(prio, stdin) ==
  /\ InUser
  /\ "create" \in Calls
  /\ ~ CreateLoops(k)
  /\ Step(create_process(k, prio, stdin))

CreateLast ==
  /\ InUser
  /\ "create_last" \in Calls
  /\ CreateLoops(k)
  /\ Crash("create_loop")

Kill(p) ==
  /\ InUser
  /\ "kill" \in Calls
  /\ Killable(k, p)
  /\ Step(kill_process(k, p))

Yield ==
  /\ InUser
  /\ "yield" \in Calls
  /\ Step(yield(k))

Nice(p, prio) ==
  /\ InUser
  /\ "nice" \in Calls
  /\ Step(set_priority(k, p, prio))

Block(p) ==
  /\ InUser
  /\ "block" \in Calls
  /\ at[p] = "user" \/ "wake_waiter" \in Calls
  /\ Step(set_status(k, p, "BLOCKED"))

Unblock(p) ==
  /\ InUser
  /\ "unblock" \in Calls
  /\ at[p] = "user" \/ "wake_waiter" \in Calls
  /\ Step(set_status(k, p, "READY"))

(* waitpid of a child that is a zombie already returns at once. *)
WaitpidZombie(p) ==
  /\ InUser
  /\ "waitpid" \in Calls
  /\ OwnChild(k, p)
  /\ k.status[p] = "ZOMBIE"
  /\ Step(WaitFinish(WaitBegin(k, p)))

WaitpidBlock(p) ==
  /\ InUser
  /\ "waitpid" \in Calls
  /\ OwnChild(k, p)
  /\ k.status[p] # "ZOMBIE"
  /\ k' = WaitBlock(k, p)
  /\ at' = AtAfter(k', [at EXCEPT ![k.current] = "waitpid"])
  /\ UNCHANGED fault

(* Back from waitpid's yield.  The code does not look at the child's state *)
(* again: it frees whatever waiting_for_pid names.                         *)
WaitpidReturn ==
  /\ Running
  /\ at[k.current] = "waitpid"
  /\ IF k.status[k.waitFor[k.current]] = "ZOMBIE"
       THEN /\ k' = WaitFinish(k)
            /\ at' = [at EXCEPT ![k.current] = "user"]
            /\ UNCHANGED fault
       ELSE Crash("bad_reap")

Next ==
  \/ Boot
  \/ Tick
  \/ CtrlC
  \/ \E prio \in Prio, stdin \in ChildStdin : Create(prio, stdin)
  \/ CreateLast
  \/ \E p \in Pid : Kill(p)
  \/ Yield
  \/ \E p \in Pid, prio \in Prio : Nice(p, prio)
  \/ \E p \in Pid : Block(p)
  \/ \E p \in Pid : Unblock(p)
  \/ \E p \in Pid : WaitpidZombie(p)
  \/ \E p \in Pid : WaitpidBlock(p)
  \/ WaitpidReturn

Spec == Init /\ [][Next]_vars

(* The timer does not stop, and a process in the kernel runs on.           *)
(* TickEnabled is ENABLED <<Tick>>_vars written out (schedule is total),   *)
(* so that TLC need not search for the successor; TimerFair is WF(Tick).   *)
TickEnabled == Interruptible /\ schedule(k) # k
TimerFair   == []<>~TickEnabled \/ []<><<Tick>>_vars

Fairness == TimerFair /\ WF_vars(WaitpidReturn)

FairSpec == Spec /\ Fairness

-----------------------------------------------------------------------------
(* Type invariant: the fields of the scheduler state keep their ranges.    *)
SchedState ==
  [status : [Pid -> Status], prio : [Pid -> Prio], parent : [Pid -> Pid],
   consumed : [Pid -> 0 .. AgingThreshold], waitFor : [Pid -> Pid],
   stdin : [Pid -> Stdin], ready : [Prio -> Seq(Pid)], blocked : Seq(Pid),
   zombies : [Pid -> Seq(Pid)], current : Pid, nextUnused : Pid, num : Int,
   remaining : Int, initial : Nat, killFg : BOOLEAN, fg : Pid, level : Prio]

TypeOK == k \in SchedState /\ at \in [Pid -> Where] /\ fault \in Fault

(* The list q holds the elements of S, once each, and nothing else. *)
Exactly(q, S) ==
  /\ \A i, j \in 1 .. Len(q) : q[i] = q[j] => i = j
  /\ ListSet(q) = S

Runnable(s, l) ==
  {p \in Pid \ {IDLE} : s.status[p] \in {"READY", "RUNNING"} /\ s.prio[p] = l}

Blocked(s) == {p \in Pid : s.status[p] = "BLOCKED"}

ZombiesOf(s, q) == {p \in Pid : s.status[p] = "ZOMBIE" /\ s.parent[p] = q}

Alive(s, p) == s.status[p] \notin {"FREE", "ZOMBIE"}

(* Every runnable process but idle is in the ready queue of its priority,  *)
(* once, and nothing else is in a ready queue: what makes list_remove on   *)
(* ready_queues[process->priority] unlink the node it is given, in         *)
(* set_priority, set_status and kill_process.                              *)
ReadyQueuesExact(s) == \A l \in Prio : Exactly(s.ready[l], Runnable(s, l))

(* blocked_queue holds the blocked processes, once each. *)
BlockedQueueExact(s) == Exactly(s.blocked, Blocked(s))

(* A zombie is in the zombie list of its parent, once, until it is freed:  *)
(* no zombie is lost, and a freed process leaves no dangling entry.        *)
ZombieListsExact(s) ==
  \A q \in Pid :
    /\ Exactly(s.zombies[q], ZombiesOf(s, q))
    /\ s.zombies[q] # << >> => Alive(s, q)

(* The three kinds of list hold what the processes' fields say, whatever   *)
(* calls moved the nodes: set_priority, set_status, kill_process, waitpid. *)
QueuesExact == ReadyQueuesExact(k) /\ BlockedQueueExact(k) /\ ZombieListsExact(k)

(* num_processes counts the occupied slots, and next_unused_pid names an   *)
(* empty one: create_process never overwrites a live process.              *)
TableConsistent ==
  /\ k.num = Cardinality(Live(k))
  /\ k.status[k.nextUnused] = "FREE"

(* Between two steps the CPU belongs to a living process and to it alone:  *)
(* a kill of the current process never returns to it.                      *)
CpuOwner ==
  /\ k.status[k.current] \notin {"FREE", "ZOMBIE"}
  /\ \A p \in Pid : k.status[p] = "RUNNING" => p = k.current

(* A process blocked in waitpid waits for a child of its own that is still *)
(* alive: the child's death always wakes it, whoever kills whom meanwhile. *)
NoLostWaitWakeup ==
  \A p \in Pid :
    at[p] = "waitpid" =>
      LET c == k.waitFor[p]
      IN  /\ k.parent[c] = p
          /\ k.status[c] # "FREE"
          /\ k.status[p] = "BLOCKED" => k.status[c] # "ZOMBIE"

(* waitpid returns, and frees the child's slot, only after the child's     *)
(* exit: README.md "block" unblocks a process, and process.h's waitpid     *)
(* never tells that this is not for a parent in waitpid.                   *)
WaitpidAfterExit == fault # "bad_reap"

(* A process that was killed or freed never gets the CPU again: schedule   *)
(* returns no stack that mm_free may have given away.                      *)
DeadNeverResumed ==
  [][\A p \in Pid : k.status[p] \in {"FREE", "ZOMBIE"} => k'.status[p] # "RUNNING"]_vars

(* idle gets the CPU only when no process is ready.                        *)
IdleOnlyWhenNothingReady ==
  [][k'.current = IDLE /\ k.current # IDLE => \A l \in Prio : k'.ready[l] = << >>]_vars

(* A zombie stays, with its return value, until its parent reaps it in     *)
(* waitpid or until the parent itself is killed.                           *)
ZombieKeptForParent ==
  [][\A p \in Pid :
       k.status[p] = "ZOMBIE" /\ k'.status[p] # "ZOMBIE" =>
         /\ k'.status[p] = "FREE"
         /\ \/ k.parent[p] = k.current
            \/ k'.status[k.parent[p]] \in {"FREE", "ZOMBIE"}]_vars

(* A ready process gets the CPU, unless it is killed or blocked first:     *)
(* README.md:217 "Implementa Round Robin con 5 niveles de prioridad".      *)
ReadyRuns ==
  \A p \in Watched : k.status[p] = "READY" ~> k.status[p] # "READY"

NobodyWoken ==
  \A q \in Pid : k.status[q] = "BLOCKED" => k'.status[q] \notin {"READY", "RUNNING"}

(* What can starve a ready process is only that others, woken again and    *)
(* again, are put in front of it (set_status prepends): in an execution in *)
(* which wake-ups come to an end, aging, yielding, dying and new processes *)
(* and a level pointer that goes round give every ready process the CPU.   *)
ReadyRunsOnceWakesStop ==
  <>[][NobodyWoken]_vars => ReadyRuns

=============================================================================
