---------------------------- MODULE SchedulerExit ----------------------------
(***************************************************************************)
(* A process that returns from its main function.  process_wrapper         *)
(* (process.c) calls kill_current_process as a plain function, not through *)
(* int 0x80, so kill_process runs with interrupts on and the timer may     *)
(* preempt it between its steps:                                           *)
(*                                                                         *)
(*   ExitUnlink     off its ready queue, the node is freed                 *)
(*   ExitDropChild  a zombie child z off the list, processes[z] = NULL ... *)
(*   ExitCountChild ... and num_processes--, for one child after the other *)
(*   ExitMark       status = ZOMBIE                                        *)
(*   ExitLink       into its parent's zombie list                          *)
(*   ExitTell       the parent that waits for it is woken                  *)
(*   ExitRelease    with no parent to reap it, processes[pid] = NULL ...   *)
(*   ExitCount      ... and num_processes--                                *)
(*   ExitYield      yield, never to return                                 *)
(*                                                                         *)
(* exit[p] is the last of them that p has done.  A tick that takes the CPU *)
(* cuts the exit there.  Before status = ZOMBIE schedule takes the process *)
(* for a running one and links it again, so that it comes back and goes on *)
(* with its exit, now with a node in a ready queue; after it, it comes     *)
(* back only if it had been linked again.  A list operation and an mm_free *)
(* are one step; the pipes are in Shell.                                   *)
(***************************************************************************)
EXTENDS Scheduler

VARIABLES
  exit,     \* exit[p]: the exit step p has done last, or "none"
  lost      \* history: decrements of num_processes that were cut off

exitVars == << k, at, fault, exit, lost >>

ExitStages ==
  {"none", "unlinked", "dropped", "zombie", "linked", "released", "told"}

(* A slot is empty that num_processes still counts. *)
Uncounted == {p \in Pid : exit[p] \in {"dropped", "released"}}

Dying == Running /\ exit[k.current] # "none"

ExitInit == Init /\ exit = [p \in Pid |-> "none"] /\ lost = 0

(* The next process of a slot begins with no exit behind it. *)
Forget(k2, e) ==
  [p \in Pid |-> IF k2.status[p] = "FREE" /\ p # k2.current THEN "none" ELSE e[p]]

ExitStep(from, k2, to) ==
  /\ Dying
  /\ exit[k.current] = from
  /\ k' = k2
  /\ exit' = Forget(k2, [exit EXCEPT ![k.current] = to])
  /\ UNCHANGED << at, fault, lost >>

ExitUnlink ==
  /\ InUser
  /\ exit[k.current] = "none"
  /\ k' = Unlink(k, k.current)
  /\ exit' = [exit EXCEPT ![k.current] = "unlinked"]
  /\ UNCHANGED << at, fault, lost >>

(* Mutant: num_processes goes down before the slot is empty.               *)
EmptySlot_CountFirst(s, p, half) ==
  IF half = "second" THEN FreeSlots(s, {p}) ELSE [s EXCEPT !.num = @ - 1]

(* processes[p] = NULL, then num_processes--. *)
EmptySlot(s, p, half) ==
  IF half = "first" THEN FreeSlots(s, {p}) ELSE [s EXCEPT !.num = @ - 1]

ExitDropChild ==
  LET c == k.current
      z == Head(k.zombies[c])
  IN  /\ k.zombies[c] # << >>
      /\ ExitStep("unlinked",
                  EmptySlot([k EXCEPT !.zombies[c] = Tail(@)], z, "first"),
                  "dropped")

(* The pid of the child plays no part in the second half. *)
ExitCountChild == ExitStep("dropped", EmptySlot(k, k.current, "second"), "unlinked")

ExitMark ==
  /\ k.zombies[k.current] = << >>
  /\ ExitStep("unlinked", MarkZombie(k, k.current), "zombie")

HasParent == Alive(k, k.parent[k.current])

ExitLink ==
  /\ HasParent
  /\ ExitStep("zombie",
              [k EXCEPT !.zombies[k.parent[k.current]] = list_append(@, k.current)],
              "linked")

(* Mutant: the waiting parent is not woken.                                *)
ExitTell_NoWake == ExitStep("linked", k, "told")

ExitTell ==
  LET q     == k.parent[k.current]
      waits == k.waitFor[q] = k.current /\ k.status[q] = "BLOCKED"
  IN  ExitStep("linked", IF waits THEN set_status(k, q, "READY") ELSE k, "told")

ExitRelease ==
  /\ ~ HasParent
  /\ ExitStep("zombie", EmptySlot(k, k.current, "first"), "released")

ExitCount == ExitStep("released", EmptySlot(k, k.current, "second"), "told")

-----------------------------------------------------------------------------
(* The process that schedule dispatches.  A process that was linked again  *)
(* and died has a node left in a ready queue: get_next_pid may return it,  *)
(* also when its memory is free.                                           *)

KilledInSchedule ==
  k.killFg /\ Killable(k, k.current) /\ k.stdin[k.current] = "STDIN"

(* schedule has chosen a slot that is empty, or that it has just emptied   *)
(* with its parent's death: what is read there is junk.                    *)
PicksFreed(k2) ==
  /\ k2.status[k2.current] = "RUNNING"
  /\ \/ k.status[k2.current] = "FREE"
     \/ KilledInSchedule /\ k2.current \in ListSet(k.zombies[k.current])

(* schedule unlinks the current process: for Ctrl+C, or to rotate it. *)
Unlinks ==
  \/ KilledInSchedule
  \/ k.remaining <= 1 /\ k.status[k.current] = "RUNNING"

(* processes[pid] is a node of the parent's list: a list_remove from a     *)
(* ready queue destroys both lists.                                        *)
NodeIsZombies == exit[k.current] \in {"linked", "told"}

(* processes[pid] is the node that ExitUnlink freed. *)
NodeIsFreed == k.current \notin ListSet(k.ready[k.prio[k.current]])

(* The dying process leaves in the middle, or the tick counts and no more. *)
Preempted(k2) ==
  LET c     == k.current
      over  == KilledInSchedule \/ (k2.status[c] = "FREE" /\ k2.current # c)
  IN  /\ k' = k2
      /\ at' = AtAfter(k2, at)
      /\ exit' = IF over THEN [exit EXCEPT ![c] = "none"] ELSE exit
      /\ lost' = IF over /\ c \in Uncounted THEN lost + 1 ELSE lost
      /\ UNCHANGED fault

(* A tick inside the exit.  When it unlinks the node that ExitUnlink freed *)
(* it may go on as though the node were there (ExitTickDoubleFree is the   *)
(* other outcome).                                                         *)
ExitTick ==
  /\ Dying
  /\ Unlinks => ~ NodeIsZombies
  /\ ~ PicksFreed(schedule(k))
  /\ Preempted(schedule(k))

ExitTickDoubleFree ==
  /\ Dying
  /\ Unlinks
  /\ NodeIsFreed \/ NodeIsZombies
  /\ Crash("double_free")
  /\ UNCHANGED << exit, lost >>

ExitYield ==
  /\ Dying
  /\ exit[k.current] = "told"
  /\ k.status[k.current] # "RUNNING"
  /\ ~ PicksFreed(yield(k))
  /\ Preempted(yield(k))

(* A dead process that came back is RUNNING: yield unlinks it.             *)
ExitYieldRunning ==
  /\ Dying
  /\ exit[k.current] = "told"
  /\ k.status[k.current] = "RUNNING"
  /\ Crash("double_free")
  /\ UNCHANGED << exit, lost >>

ExitCtrlC == Dying /\ CtrlC /\ UNCHANGED << exit, lost >>

(* The new process would share its slot with a node that is still queued.  *)
SlotQueued == \E l \in Prio : k.nextUnused \in ListSet(k.ready[l])

FreedProcessUsed ==
  /\ Interruptible
  /\ \/ PicksFreed(schedule(k))
     \/ \E p \in Pid : OwnChild(k, p) /\ PicksFreed(WaitBlock(k, p))
     \/ k.num < MaxProcesses /\ SlotQueued
  /\ Crash("freed_process")
  /\ UNCHANGED << exit, lost >>

(* The other processes, and those that do not exit yet. *)
Undisturbed ==
  /\ exit[k.current] = "none"
  /\ Next
  /\ ~ PicksFreed(k')
  /\ k'.num > k.num => ~ SlotQueued
  /\ exit' = Forget(k', exit)
  /\ UNCHANGED lost

ExitNext ==
  \/ Undisturbed
  \/ ExitUnlink
  \/ ExitDropChild
  \/ ExitCountChild
  \/ ExitMark
  \/ ExitLink
  \/ ExitTell
  \/ ExitRelease
  \/ ExitCount
  \/ ExitYield
  \/ ExitYieldRunning
  \/ ExitTick
  \/ ExitTickDoubleFree
  \/ ExitCtrlC
  \/ FreedProcessUsed

ExitSpec == ExitInit /\ [][ExitNext]_exitVars

-----------------------------------------------------------------------------
(* kill_process empties a slot before it lowers num_processes, so an exit  *)
(* that is cut between the two, or Ctrl+C there, makes the count too large *)
(* for good, by one for each such cut, and nothing else makes it wrong:    *)
(* it is never too small, and create_process, which trusts it, never finds *)
(* next_unused_pid taken.                                                  *)
SlotsAccounted ==
  /\ k.num = Cardinality(Live(k)) + Cardinality(Uncounted) + lost
  /\ k.status[k.nextUnused] = "FREE"

(* A parent stays in waitpid for a dead child only when the child's exit   *)
(* has not come, or was cut before it came, to the set_status that wakes   *)
(* the parent: ticks, Ctrl+C and the deaths of others lose no wake-up, and *)
(* one that was given is not taken back.                                   *)
WakeLostOnlyByCut ==
  \A p \in Pid :
    at[p] = "waitpid" /\ k.status[p] = "BLOCKED" =>
      LET c == k.waitFor[p]
      IN  k.status[c] = "ZOMBIE" => exit[c] \in {"zombie", "linked"}

(* test_sync.c:122-131 waits for every child it created: once a child has  *)
(* exited and left the CPU, its parent is not blocked in waitpid for it.   *)
ExitWakesParent ==
  \A p \in Pid :
    at[p] = "waitpid" /\ k.status[p] = "BLOCKED" =>
      LET c == k.waitFor[p]
      IN  k.status[c] = "ZOMBIE" => c = k.current /\ exit[c] # "none"
=============================================================================
