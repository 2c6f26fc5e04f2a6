------------------------------ MODULE SchedOps ------------------------------
(***************************************************************************)
(* The scheduler's data structures and the functions that change them      *)
(* (Kernel/processes/scheduler.c, Kernel/processes/process.c and the list  *)
(* operations of Kernel/lib/list.c they use), as operators from a          *)
(* scheduler state to the next one.  Every kernel module of the project    *)
(* that wakes, blocks or kills processes is composed from these operators, *)
(* as the C modules are from the C functions of the same names.            *)
(*                                                                         *)
(* A scheduler state is a record k:                                        *)
(*   status[p]    "FREE" when processes[p] is NULL, else Process.status    *)
(*   prio[p]      Process.priority                                         *)
(*   parent[p]    Process.parent_pid                                       *)
(*   consumed[p]  Process.quantum_consumed_count, saturated                *)
(*   waitFor[p]   Process.waiting_for_pid                                  *)
(*   stdin[p]     Process.file_descriptors[0], only compared with STDIN    *)
(*   ready[l]     ready_queues[l], pids from head to tail                  *)
(*   blocked      blocked_queue                                            *)
(*   zombies[p]   Process.zombie_children                                  *)
(*   current, nextUnused, num, remaining, initial, killFg, fg, level       *)
(*                the Scheduler fields of the same role                    *)
(* Fields of a free slot are normalised: the code never reads them again.  *)
(* Allocation failure only makes a call return -1 before any change, which *)
(* is a stuttering step; a list node freed just before cannot fail to be   *)
(* allocated again with interrupts off, so those error paths are dead.     *)
(***************************************************************************)
EXTENDS Integers, Sequences, FiniteSets

CONSTANTS
  MaxProcesses,     \* MAX_PROCESSES
  NumPriorities,    \* NUM_PRIORITIES
  AgingThreshold,   \* AGING_THRESHOLD
  Quantum           \* CALCULATE_QUANTUM, by priority

Pid   == 0 .. MaxProcesses - 1
Prio  == 0 .. NumPriorities - 1
Status == {"FREE", "READY", "RUNNING", "BLOCKED", "ZOMBIE"}
Stdin == {"STDIN", "other"}
IDLE  == 0
NoPid == 0          \* waiting_for_pid and foreground_pid when there is none

(* idle and shell are created at boot, and create_process needs one more   *)
(* slot that stays free.                                                   *)
ASSUME MaxProcessesAssumption   == MaxProcesses \in Nat /\ MaxProcesses >= 3
ASSUME NumPrioritiesAssumption  == NumPriorities \in Nat /\ NumPriorities >= 1
ASSUME AgingThresholdAssumption == AgingThreshold \in Nat /\ AgingThreshold >= 1
ASSUME QuantumAssumption        == Quantum \in [Prio -> Nat \ {0}]

Live(k) == {p \in Pid : k.status[p] # "FREE"}
Free(k) == Pid \ Live(k)

-----------------------------------------------------------------------------
(* list.c on sequences of pids: a pid has at most one node in a list.      *)

list_append(q, p)  == Append(q, p)
list_prepend(q, p) == <<p>> \o q

list_remove(q, p) ==
  IF \E i \in 1 .. Len(q) : q[i] = p
    THEN LET at == CHOOSE i \in 1 .. Len(q) : q[i] = p
         IN  [j \in 1 .. Len(q) - 1 |-> IF j < at THEN q[j] ELSE q[j + 1]]
    ELSE q

ListSet(q) == {q[i] : i \in 1 .. Len(q)}

-----------------------------------------------------------------------------
(* set_priority and set_status.                                            *)

set_priority(k, p, np) ==
  IF k.status[p] = "FREE" \/ p = IDLE THEN k
  ELSE IF k.status[p] \in {"READY", "RUNNING"}
    THEN LET unlinked == list_remove(k.ready[k.prio[p]], p)
             ready1   == [k.ready EXCEPT ![k.prio[p]] = unlinked]
         IN  [k EXCEPT !.ready = [ready1 EXCEPT ![np] = list_append(ready1[np], p)],
                       !.prio[p] = np]
    ELSE [k EXCEPT !.prio[p] = np]

(* Mutant: unlinks from the queue of the lowered priority.                 *)
BlockProcess_LoweredQueue(k, p) ==
  LET low == IF k.prio[p] > 0 THEN k.prio[p] - 1 ELSE 0
  IN  [k EXCEPT !.status[p]   = "BLOCKED",
                !.prio[p]     = low,
                !.consumed[p] = 0,
                !.ready[low]  = list_remove(k.ready[low], p),
                !.blocked     = list_append(@, p)]

BlockProcess(k, p) ==
  [k EXCEPT !.status[p]   = "BLOCKED",
            !.prio[p]     = IF @ > 0 THEN @ - 1 ELSE @,
            !.consumed[p] = 0,
            !.ready[k.prio[p]] = list_remove(k.ready[k.prio[p]], p),
            !.blocked     = list_append(@, p)]

WakeProcess(k, p) ==
  LET top == NumPriorities - 1
  IN  [k EXCEPT !.status[p]  = "READY",
                !.prio[p]    = top,
                !.blocked    = list_remove(k.blocked, p),
                !.ready[top] = list_prepend(k.ready[top], p),
                !.remaining  = 0]

(* RUNNING -> READY changes the field and no list: a running process is    *)
(* already linked in its ready queue.                                      *)
set_status(k, p, new) ==
  IF \/ k.status[p] \in {"FREE", "ZOMBIE", new}
     \/ p = IDLE
     \/ new \notin {"READY", "BLOCKED"}
    THEN k
  ELSE IF new = "BLOCKED" THEN BlockProcess(k, p)
  ELSE IF k.status[p] = "BLOCKED" THEN WakeProcess(k, p)
  ELSE [k EXCEPT !.status[p] = "READY"]

-----------------------------------------------------------------------------
(* schedule: the dispatch that follows the kill_fg_flag test.              *)

(* Mutant: the level does not wrap round.                                  *)
LevelBelow_NoWrap(l) == l - 1

LevelBelow(l) == IF l = 0 THEN NumPriorities - 1 ELSE l - 1

(* How many steps get_next_pid takes from level `from` down to level l.    *)
StepsDown(from, l) == IF l <= from THEN from - l ELSE from - l + NumPriorities

(* Mutant: the search stops one level short.                               *)
NextLevels_OneShort(k) ==
  LET nonEmpty == {l \in Prio : k.ready[l] # << >> /\ StepsDown(k.level, l) < NumPriorities - 1}
  IN  {l \in nonEmpty :
         \A m \in nonEmpty : StepsDown(k.level, l) <= StepsDown(k.level, m)}

NextLevels(k) ==
  LET nonEmpty == {l \in Prio : k.ready[l] # << >>}
  IN  {l \in nonEmpty :
         \A m \in nonEmpty : StepsDown(k.level, l) <= StepsDown(k.level, m)}

Saturate(count) == IF count < AgingThreshold THEN count + 1 ELSE count

(* Mutant: a process that does not age stays at the head of its queue.     *)
RotateCurrent_KeepsHead(k) ==
  LET p     == k.current
      count == Saturate(k.consumed[p])
  IN  IF count >= AgingThreshold /\ k.prio[p] < NumPriorities - 1
        THEN set_priority([k EXCEPT !.status[p] = "READY", !.consumed[p] = 0], p, k.prio[p] + 1)
        ELSE [k EXCEPT !.status[p] = "READY", !.consumed[p] = count]

(* The running process goes to the tail of its queue, one level up when it *)
(* has used AGING_THRESHOLD whole quanta.                                  *)
RotateCurrent(k) ==
  LET p      == k.current
      ticked == k.remaining = 0 /\ k.initial > 0
      count  == IF ticked THEN Saturate(k.consumed[p]) ELSE k.consumed[p]
      ages   == /\ ticked
                /\ count >= AgingThreshold
                /\ k.prio[p] < NumPriorities - 1
      k1     == [k EXCEPT !.status[p]   = "READY",
                          !.consumed[p] = IF ages THEN 0 ELSE count]
  IN  set_priority(k1, p, IF ages THEN k.prio[p] + 1 ELSE k.prio[p])

get_next_pid(k) ==
  IF NextLevels(k) = {} THEN [pid |-> IDLE, level |-> k.level]
  ELSE LET l == CHOOSE m \in NextLevels(k) : TRUE
       IN  [pid |-> k.ready[l][1], level |-> LevelBelow(l)]

SwitchTo(k, next) ==
  [k EXCEPT !.current = next.pid,
            !.level   = next.level,
            !.initial   = Quantum[k.prio[next.pid]],
            !.remaining = Quantum[k.prio[next.pid]],
            !.status[next.pid] = "RUNNING"]

PickNext(k) == SwitchTo(k, get_next_pid(k))

Dispatch(k) ==
  LET k1 == [k EXCEPT !.remaining = @ - 1]
  IN  IF k1.num = 0 \/ k1.remaining > 0 THEN k1
      ELSE IF k1.status[k1.current] = "RUNNING" THEN PickNext(RotateCurrent(k1))
      ELSE PickNext(k1)

-----------------------------------------------------------------------------
(* kill_process, in the order of the code, up to its final yield.          *)

FreeSlots(k, S) ==
  [k EXCEPT !.status   = [p \in Pid |-> IF p \in S THEN "FREE"  ELSE k.status[p]],
            !.prio     = [p \in Pid |-> IF p \in S THEN 0       ELSE k.prio[p]],
            !.parent   = [p \in Pid |-> IF p \in S THEN 0       ELSE k.parent[p]],
            !.consumed = [p \in Pid |-> IF p \in S THEN 0       ELSE k.consumed[p]],
            !.waitFor  = [p \in Pid |-> IF p \in S THEN NoPid   ELSE k.waitFor[p]],
            !.stdin    = [p \in Pid |-> IF p \in S THEN "other" ELSE k.stdin[p]]]

(* Mutant: a process that dies ready keeps its node in the ready queue.    *)
Unlink_KeepsReady(k, p) ==
  IF k.status[p] = "BLOCKED"
    THEN [k EXCEPT !.blocked = list_remove(k.blocked, p)]
    ELSE k

Unlink(k, p) ==
  IF k.status[p] = "BLOCKED"
    THEN [k EXCEPT !.blocked = list_remove(k.blocked, p)]
    ELSE [k EXCEPT !.ready[k.prio[p]] = list_remove(k.ready[k.prio[p]], p)]

(* Mutant: num_processes still counts the reaped children.                 *)
ReapZombieChildren_KeepsCount(k, p) ==
  [FreeSlots(k, ListSet(k.zombies[p])) EXCEPT !.zombies[p] = << >>]

ReapZombieChildren(k, p) ==
  [FreeSlots(k, ListSet(k.zombies[p]))
     EXCEPT !.num = @ - Len(k.zombies[p]),
            !.zombies[p] = << >>]

(* Mutant: the waiting parent is not woken.                                *)
LinkOrFree_NoWake(k, p) ==
  IF k.status[k.parent[p]] \in {"FREE", "ZOMBIE"}
    THEN [FreeSlots(k, {p}) EXCEPT !.num = @ - 1]
    ELSE [k EXCEPT !.zombies[k.parent[p]] = list_append(@, p)]

(* Mutant: a blocked parent is woken by the death of any of its children.  *)
LinkOrFree_AnyChild(k, p) ==
  LET q      == k.parent[p]
      linked == [k EXCEPT !.zombies[q] = list_append(@, p)]
  IN  IF k.status[q] \in {"FREE", "ZOMBIE"}
        THEN [FreeSlots(k, {p}) EXCEPT !.num = @ - 1]
        ELSE IF k.status[q] = "BLOCKED" THEN set_status(linked, q, "READY") ELSE linked

(* Mutant: num_processes still counts a process freed without a parent.    *)
LinkOrFree_KeepsCount(k, p) ==
  LET q      == k.parent[p]
      linked == [k EXCEPT !.zombies[q] = list_append(@, p)]
  IN  IF k.status[q] \in {"FREE", "ZOMBIE"} THEN FreeSlots(k, {p})
      ELSE IF k.waitFor[q] = p THEN set_status(linked, q, "READY") ELSE linked

(* The tail of kill_process: hand the zombie to its parent and wake the    *)
(* parent that waits for it, or free the process when nobody can reap it.  *)
LinkOrFree(k, p) ==
  LET q == k.parent[p]
      linked == [k EXCEPT !.zombies[q] = list_append(@, p)]
  IN  IF k.status[q] \in {"FREE", "ZOMBIE"}
        THEN [FreeSlots(k, {p}) EXCEPT !.num = @ - 1]
      ELSE IF k.waitFor[q] = p /\ k.status[q] = "BLOCKED"
        THEN set_status(linked, q, "READY")
      ELSE linked

MarkZombie(k, p) ==
  [k EXCEPT !.status[p] = "ZOMBIE",
            !.fg = IF @ = p THEN NoPid ELSE @]

Killable(k, p) == k.status[p] \notin {"FREE", "ZOMBIE"} /\ p # IDLE

KillBody(k, p) ==
  IF Killable(k, p)
    THEN LinkOrFree(MarkZombie(ReapZombieChildren(Unlink(k, p), p), p), p)
    ELSE k

(* yield, up to the int $0x20 it ends with.                                *)
DropQuantum(k) ==
  LET p  == k.current
      k1 == IF k.prio[p] > 0 THEN set_priority(k, p, k.prio[p] - 1) ELSE k
      k2 == IF k.status[p] # "FREE" /\ k.initial > 0
              THEN [k1 EXCEPT !.consumed[p] = 0]
              ELSE k
  IN  [k2 EXCEPT !.remaining = 0]

-----------------------------------------------------------------------------
(* schedule, yield and kill_process call each other: schedule kills the    *)
(* current process when Ctrl+C raised kill_fg_flag, which yields, which    *)
(* enters schedule again, now with the flag cleared.                       *)

KillCurrentInSchedule(k) ==
  IF Killable(k, k.current)
    THEN Dispatch(DropQuantum(KillBody(k, k.current)))
    ELSE Dispatch(k)

schedule(k) ==
  LET cleared == [k EXCEPT !.killFg = FALSE]
  IN  IF k.killFg /\ k.stdin[k.current] = "STDIN"
        THEN KillCurrentInSchedule(cleared)
        ELSE Dispatch(cleared)

yield(k) == schedule(DropQuantum(k))

(* Mutant: a process that kills itself does not yield.                     *)
kill_process_NoYield(k, p) == KillBody(k, p)

kill_process(k, p) ==
  IF Killable(k, p) /\ p = k.current THEN yield(KillBody(k, p)) ELSE KillBody(k, p)

-----------------------------------------------------------------------------
(* create_process: the slot is next_unused_pid; the search for the next    *)
(* one goes round the table and does not end when there is none.           *)

StepsUp(from, p) == IF p >= from THEN p - from ELSE p - from + MaxProcesses

NextUnused(k) ==
  {p \in Free(k) : \A q \in Free(k) : StepsUp(k.nextUnused, p) <= StepsUp(k.nextUnused, q)}

AddProcess(k, prio, stdin) ==
  LET p == k.nextUnused
  IN  [k EXCEPT !.status[p]   = "READY",
                !.prio[p]     = prio,
                !.parent[p]   = k.current,
                !.consumed[p] = 0,
                !.waitFor[p]  = NoPid,
                !.stdin[p]    = stdin,
                !.zombies[p]  = << >>,
                !.ready[prio] = IF p = IDLE THEN @ ELSE list_append(@, p)]

(* The call never returns: with the new process in the table the search    *)
(* finds no empty slot.                                                    *)
CreateLoops(k) == NextUnused([k EXCEPT !.status[k.nextUnused] = "READY"]) = {}

create_process(k, prio, stdin) ==
  IF k.num >= MaxProcesses THEN k
  ELSE LET k1 == AddProcess(k, prio, stdin)
       IN  [k1 EXCEPT !.nextUnused = CHOOSE p \in NextUnused(k1) : TRUE,
                      !.num = @ + 1]

-----------------------------------------------------------------------------
(* waitpid before its yield and after it (or with no yield at all).        *)

(* Mutant: waitpid accepts any process.                                    *)
OwnChild_Any(k, p) == k.status[p] # "FREE"

OwnChild(k, p) == k.status[p] # "FREE" /\ k.parent[p] = k.current

WaitBegin(k, p) == [k EXCEPT !.waitFor[k.current] = p, !.fg = p]

WaitBlock(k, p) == yield(set_status(WaitBegin(k, p), k.current, "BLOCKED"))

WaitFinish(k) ==
  LET q == k.current
      p == k.waitFor[q]
  IN  [FreeSlots(k, {p}) EXCEPT !.zombies[q] = list_remove(k.zombies[q], p),
                                !.num        = @ - 1,
                                !.waitFor[q] = NoPid,
                                !.fg         = NoPid]
=============================================================================
