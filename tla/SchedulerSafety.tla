--------------------------- MODULE SchedulerSafety ---------------------------
(***************************************************************************)
(* The safety of the scheduler, proved for every size of the process       *)
(* table, every number of priorities and every set of calls.               *)
(*                                                                         *)
(* The operators of SchedOps are composed as the C functions call each     *)
(* other, so the proof follows the calls: Core is what each of them        *)
(* preserves, also in the middle of a system call (the current process may *)
(* already be dead there), Kept is what none of them does to the processes *)
(* it is not about.  Sane is what holds when the CPU is back in user mode, *)
(* and SystemInv adds what a process inside waitpid relies on.             *)
(*                                                                         *)
(*   0  types                              4  kill_process                 *)
(*   1  lists that hold a set exactly      5  create_process, waitpid      *)
(*   2  set_priority, set_status           6  the system and its theorems  *)
(*   3  the dispatch, yield                                                *)
(***************************************************************************)
EXTENDS Scheduler, TLAPS, SequenceTheorems, FiniteSetTheorems

-----------------------------------------------------------------------------
(* Types.  One lemma per operator of SchedOps says that it maps a          *)
(* scheduler state to a scheduler state; the step lemma takes the actions  *)
(* one by one.  That Init is typed is not immediate: create_process must   *)
(* find the next unused slot twice (BootFindsSlots).                       *)

LEMMA RemoveType ==
  ASSUME NEW S, NEW q \in Seq(S), NEW p
  PROVE  list_remove(q, p) \in Seq(S)
<1>1. CASE \E i \in 1 .. Len(q) : q[i] = p
  <2> DEFINE pos == CHOOSE i \in 1 .. Len(q) : q[i] = p
             r == [j \in 1 .. Len(q) - 1 |-> IF j < pos THEN q[j] ELSE q[j + 1]]
  <2>1. list_remove(q, p) = r
    BY <1>1 DEF list_remove
  <2>2. Len(q) - 1 \in Nat
    BY <1>1
  <2>3. \A j \in 1 .. Len(q) - 1 : r[j] \in S
    OBVIOUS
  <2> HIDE DEF r
  <2>4. QED
    BY <2>1, <2>2, <2>3, IsASeq DEF r
<1>2. CASE ~ \E i \in 1 .. Len(q) : q[i] = p
  BY <1>2 DEF list_remove
<1>3. QED
  BY <1>1, <1>2

LEMMA SetPriorityType ==
  ASSUME NEW s \in SchedState, NEW p \in Pid, NEW np \in Prio
  PROVE  set_priority(s, p, np) \in SchedState
<1> DEFINE unlinked == list_remove(s.ready[s.prio[p]], p)
           ready1   == [s.ready EXCEPT ![s.prio[p]] = unlinked]
           ready2   == [ready1 EXCEPT ![np] = list_append(ready1[np], p)]
<1>1. unlinked \in Seq(Pid)
  BY RemoveType DEF SchedState
<1>2. ready1 \in [Prio -> Seq(Pid)]
  BY <1>1 DEF SchedState
<1>3. ready2 \in [Prio -> Seq(Pid)]
  BY <1>2 DEF list_append
<1>4. [s EXCEPT !.prio[p] = np] \in SchedState
  BY DEF SchedState
<1> HIDE DEF ready1, ready2
<1>5. [s EXCEPT !.ready = ready2, !.prio[p] = np] \in SchedState
  BY <1>3 DEF SchedState
<1>6. QED
  BY <1>4, <1>5 DEF set_priority, ready1, ready2

LEMMA BlockType ==
  ASSUME NEW s \in SchedState, NEW p \in Pid
  PROVE  BlockProcess(s, p) \in SchedState
<1> DEFINE st == [s.status EXCEPT ![p] = "BLOCKED"]
           pr == [s.prio EXCEPT ![p] = IF @ > 0 THEN @ - 1 ELSE @]
           co == [s.consumed EXCEPT ![p] = 0]
           re == [s.ready EXCEPT ![s.prio[p]] = list_remove(s.ready[s.prio[p]], p)]
           bl == list_append(s.blocked, p)
<1>1. st \in [Pid -> Status]
  BY DEF SchedState, Status
<1>2. pr \in [Pid -> Prio]
  <2>1. s.prio \in [Pid -> Prio] /\ s.prio[p] \in Prio
    BY DEF SchedState
  <2>2. (IF s.prio[p] > 0 THEN s.prio[p] - 1 ELSE s.prio[p]) \in Prio
    BY <2>1, NumPrioritiesAssumption DEF Prio
  <2>3. QED
    BY <2>1, <2>2
<1>3. co \in [Pid -> 0 .. AgingThreshold]
  BY AgingThresholdAssumption DEF SchedState
<1>4. re \in [Prio -> Seq(Pid)]
  BY RemoveType DEF SchedState
<1>5. bl \in Seq(Pid)
  BY DEF SchedState, list_append
<1> HIDE DEF st, pr, co, re, bl
<1>6. [s EXCEPT !.status = st, !.prio = pr, !.consumed = co, !.ready = re, !.blocked = bl]
        \in SchedState
  BY <1>1, <1>2, <1>3, <1>4, <1>5 DEF SchedState
<1>7. QED
  BY <1>6 DEF BlockProcess, st, pr, co, re, bl

LEMMA WakeType ==
  ASSUME NEW s \in SchedState, NEW p \in Pid
  PROVE  WakeProcess(s, p) \in SchedState
<1> DEFINE top == NumPriorities - 1
           st == [s.status EXCEPT ![p] = "READY"]
           pr == [s.prio EXCEPT ![p] = top]
           bl == list_remove(s.blocked, p)
           re == [s.ready EXCEPT ![top] = list_prepend(s.ready[top], p)]
           rq == 0
<1>1. top \in Prio
  BY NumPrioritiesAssumption DEF Prio
<1>2. st \in [Pid -> Status]
  BY DEF SchedState, Status
<1>3. pr \in [Pid -> Prio]
  BY <1>1 DEF SchedState
<1>4. bl \in Seq(Pid)
  BY RemoveType DEF SchedState
<1>5. re \in [Prio -> Seq(Pid)]
  BY <1>1 DEF SchedState, list_prepend
<1>6. rq \in Int
  OBVIOUS
<1> HIDE DEF st, pr, bl, re, rq
<1>7. [s EXCEPT !.status = st, !.prio = pr, !.blocked = bl, !.ready = re, !.remaining = rq]
        \in SchedState
  BY <1>2, <1>3, <1>4, <1>5, <1>6 DEF SchedState
<1>8. QED
  BY <1>7 DEF WakeProcess, st, pr, bl, re, rq

LEMMA SetStatusType ==
  ASSUME NEW s \in SchedState, NEW p \in Pid, NEW new
  PROVE  set_status(s, p, new) \in SchedState
<1>1. [s EXCEPT !.status[p] = "READY"] \in SchedState
  BY DEF SchedState, Status
<1>2. QED
  BY <1>1, BlockType, WakeType DEF set_status

LEMMA RotateType ==
  ASSUME NEW s \in SchedState
  PROVE  RotateCurrent(s) \in SchedState
<1> DEFINE p      == s.current
           ticked == s.remaining = 0 /\ s.initial > 0
           count  == IF ticked THEN Saturate(s.consumed[p]) ELSE s.consumed[p]
           ages   == ticked /\ count >= AgingThreshold /\ s.prio[p] < NumPriorities - 1
           st     == [s.status EXCEPT ![p] = "READY"]
           co     == [s.consumed EXCEPT ![p] = IF ages THEN 0 ELSE count]
           np     == IF ages THEN s.prio[p] + 1 ELSE s.prio[p]
<1>1. p \in Pid /\ s.prio[p] \in Prio /\ s.consumed[p] \in 0 .. AgingThreshold
  BY DEF SchedState
<1>2. count \in 0 .. AgingThreshold
  BY <1>1, AgingThresholdAssumption DEF Saturate
<1>3. st \in [Pid -> Status]
  BY DEF SchedState, Status
<1>4. co \in [Pid -> 0 .. AgingThreshold]
  BY <1>1, <1>2, AgingThresholdAssumption DEF SchedState
<1>5. np \in Prio
  BY <1>1, NumPrioritiesAssumption DEF Prio
<1> HIDE DEF st, co, np
<1>6. [s EXCEPT !.status = st, !.consumed = co] \in SchedState
  BY <1>3, <1>4 DEF SchedState
<1>7. set_priority([s EXCEPT !.status = st, !.consumed = co], p, np) \in SchedState
  BY <1>1, <1>5, <1>6, SetPriorityType
<1>8. QED
  BY <1>7 DEF RotateCurrent, st, co, np

LEMMA NextPidType ==
  ASSUME NEW s \in SchedState
  PROVE  /\ get_next_pid(s).pid \in Pid
         /\ get_next_pid(s).level \in Prio
<1>1. CASE NextLevels(s) = {}
  BY <1>1, MaxProcessesAssumption DEF get_next_pid, SchedState, Pid, IDLE
<1>2. CASE NextLevels(s) # {}
  <2> DEFINE l == CHOOSE m \in NextLevels(s) : TRUE
  <2>1. l \in Prio /\ s.ready[l] # << >>
    BY <1>2 DEF NextLevels
  <2>2. s.ready[l] \in Seq(Pid)
    BY <2>1 DEF SchedState
  <2>3. s.ready[l][1] \in Pid
    BY <2>1, <2>2, EmptySeq
  <2>4. LevelBelow(l) \in Prio
    BY <2>1, NumPrioritiesAssumption DEF LevelBelow, Prio
  <2>5. QED
    BY <1>2, <2>3, <2>4 DEF get_next_pid
<1>3. QED
  BY <1>1, <1>2

LEMMA SwitchType ==
  ASSUME NEW s \in SchedState, NEW p \in Pid, NEW l \in Prio
  PROVE  SwitchTo(s, [pid |-> p, level |-> l]) \in SchedState
<1> DEFINE q  == Quantum[s.prio[p]]
           st == [s.status EXCEPT ![p] = "RUNNING"]
<1>1. q \in Nat /\ q \in Int
  BY QuantumAssumption DEF SchedState
<1>2. st \in [Pid -> Status]
  BY DEF SchedState, Status
<1> HIDE DEF q, st
<1>3. [s EXCEPT !.current = p, !.level = l, !.initial = q, !.remaining = q, !.status = st]
        \in SchedState
  BY <1>1, <1>2 DEF SchedState
<1>4. QED
  BY <1>3 DEF SwitchTo, q, st

LEMMA PickNextType ==
  ASSUME NEW s \in SchedState
  PROVE  PickNext(s) \in SchedState
<1> DEFINE n == get_next_pid(s)
<1>1. n = [pid |-> n.pid, level |-> n.level]
  BY DEF get_next_pid
<1>2. n.pid \in Pid /\ n.level \in Prio
  BY NextPidType
<1> HIDE DEF n
<1>3. SwitchTo(s, n) \in SchedState
  BY <1>1, <1>2, SwitchType
<1>4. QED
  BY <1>3 DEF PickNext, n

LEMMA DispatchType ==
  ASSUME NEW s \in SchedState
  PROVE  Dispatch(s) \in SchedState
<1> DEFINE rq == s.remaining - 1
<1>1. rq \in Int
  BY DEF SchedState
<1> HIDE DEF rq
<1>2. [s EXCEPT !.remaining = rq] \in SchedState
  BY <1>1 DEF SchedState
<1>3. QED
  BY <1>2, RotateType, PickNextType DEF Dispatch, rq

LEMMA FreeSlotsType ==
  ASSUME NEW s \in SchedState, NEW S
  PROVE  FreeSlots(s, S) \in SchedState
<1> DEFINE st == [p \in Pid |-> IF p \in S THEN "FREE"  ELSE s.status[p]]
           pr == [p \in Pid |-> IF p \in S THEN 0       ELSE s.prio[p]]
           pa == [p \in Pid |-> IF p \in S THEN 0       ELSE s.parent[p]]
           co == [p \in Pid |-> IF p \in S THEN 0       ELSE s.consumed[p]]
           wf == [p \in Pid |-> IF p \in S THEN NoPid   ELSE s.waitFor[p]]
           si == [p \in Pid |-> IF p \in S THEN "other" ELSE s.stdin[p]]
<1>1. 0 \in Prio /\ 0 \in Pid /\ 0 \in 0 .. AgingThreshold
  BY NumPrioritiesAssumption, MaxProcessesAssumption, AgingThresholdAssumption DEF Prio, Pid
<1>2. st \in [Pid -> Status] /\ si \in [Pid -> Stdin]
  BY DEF SchedState, Status, Stdin
<1>3. pr \in [Pid -> Prio] /\ co \in [Pid -> 0 .. AgingThreshold]
  BY <1>1 DEF SchedState
<1>4. pa \in [Pid -> Pid] /\ wf \in [Pid -> Pid]
  BY <1>1 DEF SchedState, NoPid
<1> HIDE DEF st, pr, pa, co, wf, si
<1>5. [s EXCEPT !.status = st, !.prio = pr, !.parent = pa, !.consumed = co,
                !.waitFor = wf, !.stdin = si] \in SchedState
  BY <1>2, <1>3, <1>4 DEF SchedState
<1>6. QED
  BY <1>5 DEF FreeSlots, st, pr, pa, co, wf, si

LEMMA UnlinkType ==
  ASSUME NEW s \in SchedState, NEW p \in Pid
  PROVE  Unlink(s, p) \in SchedState
<1> DEFINE bl == list_remove(s.blocked, p)
           re == [s.ready EXCEPT ![s.prio[p]] = list_remove(s.ready[s.prio[p]], p)]
<1>1. bl \in Seq(Pid) /\ re \in [Prio -> Seq(Pid)]
  BY RemoveType DEF SchedState
<1> HIDE DEF bl, re
<1>2. [s EXCEPT !.blocked = bl] \in SchedState /\ [s EXCEPT !.ready = re] \in SchedState
  BY <1>1 DEF SchedState
<1>3. QED
  BY <1>2 DEF Unlink, bl, re

LEMMA ReapType ==
  ASSUME NEW s \in SchedState, NEW p \in Pid
  PROVE  ReapZombieChildren(s, p) \in SchedState
<1> DEFINE f  == FreeSlots(s, ListSet(s.zombies[p]))
           nu == f.num - Len(s.zombies[p])
           zo == [f.zombies EXCEPT ![p] = << >>]
<1>1. f \in SchedState
  BY FreeSlotsType
<1> HIDE DEF f
<1>2. nu \in Int
  BY <1>1 DEF SchedState
<1>3. zo \in [Pid -> Seq(Pid)]
  BY <1>1 DEF SchedState
<1> HIDE DEF nu, zo
<1>4. [f EXCEPT !.num = nu, !.zombies = zo] \in SchedState
  BY <1>1, <1>2, <1>3 DEF SchedState
<1>5. QED
  BY <1>4 DEF ReapZombieChildren, f, nu, zo

LEMMA MarkType ==
  ASSUME NEW s \in SchedState, NEW p \in Pid
  PROVE  MarkZombie(s, p) \in SchedState
<1> DEFINE st == [s.status EXCEPT ![p] = "ZOMBIE"]
           fg == IF s.fg = p THEN NoPid ELSE s.fg
<1>1. st \in [Pid -> Status]
  BY DEF SchedState, Status
<1>2. fg \in Pid
  <2>1. s.fg \in Pid
    BY DEF SchedState
  <2>2. NoPid \in Pid
    BY MaxProcessesAssumption DEF NoPid, Pid
  <2>3. QED
    BY <2>1, <2>2
<1> HIDE DEF st, fg
<1>3. [s EXCEPT !.status = st, !.fg = fg] \in SchedState
  BY <1>1, <1>2 DEF SchedState
<1>4. QED
  BY <1>3 DEF MarkZombie, st, fg

LEMMA LinkOrFreeType ==
  ASSUME NEW s \in SchedState, NEW p \in Pid
  PROVE  LinkOrFree(s, p) \in SchedState
<1> DEFINE q  == s.parent[p]
           f  == FreeSlots(s, {p})
           nu == f.num - 1
           zo == [s.zombies EXCEPT ![q] = list_append(s.zombies[q], p)]
<1>1. q \in Pid
  BY DEF SchedState
<1>2. f \in SchedState
  BY FreeSlotsType
<1> HIDE DEF f
<1>3. nu \in Int
  BY <1>2 DEF SchedState
<1>4. zo \in [Pid -> Seq(Pid)]
  <2>1. s.zombies \in [Pid -> Seq(Pid)] /\ s.zombies[q] \in Seq(Pid)
    BY <1>1 DEF SchedState
  <2>2. list_append(s.zombies[q], p) \in Seq(Pid)
    BY <2>1 DEF list_append
  <2>3. QED
    BY <1>1, <2>1, <2>2
<1> HIDE DEF nu, zo
<1>5. [f EXCEPT !.num = nu] \in SchedState
  BY <1>2, <1>3 DEF SchedState
<1>6. [s EXCEPT !.zombies = zo] \in SchedState
  BY <1>4 DEF SchedState
<1>7. set_status([s EXCEPT !.zombies = zo], q, "READY") \in SchedState
  BY <1>1, <1>6, SetStatusType
<1>8. QED
  BY <1>5, <1>6, <1>7 DEF LinkOrFree, f, nu, zo

LEMMA KillBodyType ==
  ASSUME NEW s \in SchedState, NEW p \in Pid
  PROVE  KillBody(s, p) \in SchedState
BY UnlinkType, ReapType, MarkType, LinkOrFreeType DEF KillBody

LEMMA DropQuantumType ==
  ASSUME NEW s \in SchedState
  PROVE  DropQuantum(s) \in SchedState
<1> DEFINE p  == s.current
           k1 == IF s.prio[p] > 0 THEN set_priority(s, p, s.prio[p] - 1) ELSE s
           co == [k1.consumed EXCEPT ![p] = 0]
           c1 == [k1 EXCEPT !.consumed = co]
           k2 == IF s.status[p] # "FREE" /\ s.initial > 0 THEN c1 ELSE s
           rq == 0
<1>1. p \in Pid /\ s.prio[p] \in Prio
  BY DEF SchedState
<1>2. s.prio[p] > 0 => s.prio[p] - 1 \in Prio
  BY <1>1, NumPrioritiesAssumption DEF Prio
<1>3. k1 \in SchedState
  BY <1>1, <1>2, SetPriorityType
<1> HIDE DEF k1
<1>4. co \in [Pid -> 0 .. AgingThreshold]
  BY <1>3, AgingThresholdAssumption DEF SchedState
<1> HIDE DEF co
<1>5. c1 \in SchedState
  BY <1>3, <1>4 DEF SchedState
<1>6. k2 \in SchedState
  BY <1>5
<1>7. rq \in Int
  OBVIOUS
<1> HIDE DEF k2, rq
<1>8. [k2 EXCEPT !.remaining = rq] \in SchedState
  BY <1>6, <1>7 DEF SchedState
<1>9. QED
  BY <1>8 DEF DropQuantum, k2, co, k1, rq

LEMMA ScheduleType ==
  ASSUME NEW s \in SchedState
  PROVE  schedule(s) \in SchedState
<1> DEFINE c == [s EXCEPT !.killFg = FALSE]
<1>1. c \in SchedState
  BY DEF SchedState
<1>2. c.current \in Pid
  BY <1>1 DEF SchedState
<1> HIDE DEF c
<1>3. KillCurrentInSchedule(c) \in SchedState
  BY <1>1, <1>2, KillBodyType, DropQuantumType, DispatchType DEF KillCurrentInSchedule
<1>4. Dispatch(c) \in SchedState
  BY <1>1, DispatchType
<1>5. QED
  BY <1>3, <1>4 DEF schedule, c

LEMMA YieldType ==
  ASSUME NEW s \in SchedState
  PROVE  yield(s) \in SchedState
BY DropQuantumType, ScheduleType DEF yield

LEMMA KillType ==
  ASSUME NEW s \in SchedState, NEW p \in Pid
  PROVE  kill_process(s, p) \in SchedState
BY KillBodyType, YieldType DEF kill_process

LEMMA WaitBeginType ==
  ASSUME NEW s \in SchedState, NEW p \in Pid
  PROVE  WaitBegin(s, p) \in SchedState
BY DEF WaitBegin, SchedState

LEMMA WaitBlockType ==
  ASSUME NEW s \in SchedState, NEW p \in Pid
  PROVE  WaitBlock(s, p) \in SchedState
<1>1. s.current \in Pid
  BY DEF SchedState
<1>2. QED
  BY <1>1, WaitBeginType, SetStatusType, YieldType DEF WaitBlock

LEMMA WaitFinishType ==
  ASSUME NEW s \in SchedState
  PROVE  WaitFinish(s) \in SchedState
<1> DEFINE q  == s.current
           p  == s.waitFor[q]
           f  == FreeSlots(s, {p})
           zo == [f.zombies EXCEPT ![q] = list_remove(s.zombies[q], p)]
           nu == f.num - 1
           wf == [f.waitFor EXCEPT ![q] = NoPid]
<1>1. q \in Pid /\ NoPid \in Pid
  BY MaxProcessesAssumption DEF SchedState, NoPid, Pid
<1>2. f \in SchedState
  BY FreeSlotsType
<1>3. list_remove(s.zombies[q], p) \in Seq(Pid)
  BY <1>1, RemoveType DEF SchedState
<1> HIDE DEF f
<1>4. zo \in [Pid -> Seq(Pid)]
  BY <1>2, <1>3 DEF SchedState
<1>5. nu \in Int
  BY <1>2 DEF SchedState
<1>6. wf \in [Pid -> Pid]
  BY <1>1, <1>2 DEF SchedState
<1> HIDE DEF zo, nu, wf
<1>7. [f EXCEPT !.zombies = zo, !.num = nu, !.waitFor = wf, !.fg = NoPid] \in SchedState
  BY <1>1, <1>2, <1>4, <1>5, <1>6 DEF SchedState
<1>8. QED
  BY <1>7 DEF WaitFinish, f, zo, nu, wf

LEMMA AddType ==
  ASSUME NEW s \in SchedState, NEW pr \in Prio, NEW si \in Stdin
  PROVE  AddProcess(s, pr, si) \in SchedState
<1> DEFINE p  == s.nextUnused
           st == [s.status EXCEPT ![p] = "READY"]
           po == [s.prio EXCEPT ![p] = pr]
           pa == [s.parent EXCEPT ![p] = s.current]
           co == [s.consumed EXCEPT ![p] = 0]
           wf == [s.waitFor EXCEPT ![p] = NoPid]
           sn == [s.stdin EXCEPT ![p] = si]
           zo == [s.zombies EXCEPT ![p] = << >>]
           re == [s.ready EXCEPT ![pr] = IF p = IDLE THEN @ ELSE list_append(@, p)]
<1>1. p \in Pid /\ NoPid \in Pid /\ 0 \in 0 .. AgingThreshold
  BY MaxProcessesAssumption, AgingThresholdAssumption DEF SchedState, NoPid, Pid
<1>2. st \in [Pid -> Status]
  BY DEF SchedState, Status
<1>3. po \in [Pid -> Prio] /\ pa \in [Pid -> Pid]
  BY DEF SchedState
<1>4. co \in [Pid -> 0 .. AgingThreshold] /\ wf \in [Pid -> Pid]
  BY <1>1 DEF SchedState
<1>5. sn \in [Pid -> Stdin] /\ zo \in [Pid -> Seq(Pid)]
  BY DEF SchedState
<1>6. re \in [Prio -> Seq(Pid)]
  BY <1>1 DEF SchedState, list_append
<1> HIDE DEF st, po, pa, co, wf, sn, zo, re
<1>7. [s EXCEPT !.status = st, !.prio = po, !.parent = pa, !.consumed = co,
                !.waitFor = wf, !.stdin = sn, !.zombies = zo, !.ready = re] \in SchedState
  BY <1>2, <1>3, <1>4, <1>5, <1>6 DEF SchedState
<1>8. QED
  BY <1>7 DEF AddProcess, st, po, pa, co, wf, sn, zo, re

LEMMA AddNextUnused ==
  ASSUME NEW s \in SchedState, NEW pr \in Prio, NEW si \in Stdin
  PROVE  NextUnused(AddProcess(s, pr, si))
           = NextUnused([s EXCEPT !.status[s.nextUnused] = "READY"])
<1> DEFINE a == AddProcess(s, pr, si)
           b == [s EXCEPT !.status[s.nextUnused] = "READY"]
<1>1. a.status = b.status /\ a.nextUnused = b.nextUnused
  BY DEF AddProcess, SchedState
<1> HIDE DEF a, b
<1>2. NextUnused(a) = NextUnused(b)
  BY <1>1 DEF NextUnused, Free, Live
<1>3. QED
  BY <1>2 DEF a, b

LEMMA CreateType ==
  ASSUME NEW s \in SchedState, NEW pr \in Prio, NEW si \in Stdin,
         ~ CreateLoops(s)
  PROVE  create_process(s, pr, si) \in SchedState
<1> DEFINE a  == AddProcess(s, pr, si)
           nx == CHOOSE p \in NextUnused(a) : TRUE
           nu == a.num + 1
<1>1. a \in SchedState
  BY AddType
<1>2. NextUnused(a) # {}
  BY AddNextUnused DEF CreateLoops
<1> HIDE DEF a
<1>3. nx \in Pid
  BY <1>2 DEF NextUnused, Free
<1>4. nu \in Int
  BY <1>1 DEF SchedState
<1> HIDE DEF nx, nu
<1>5. [a EXCEPT !.nextUnused = nx, !.num = nu] \in SchedState
  BY <1>1, <1>3, <1>4 DEF SchedState
<1>6. QED
  BY <1>5 DEF create_process, a, nx, nu

LEMMA InitType == scheduler_init \in SchedState
<1>1. 0 \in Pid /\ 0 \in Prio /\ 0 \in 0 .. AgingThreshold /\ NumPriorities - 1 \in Prio
  BY MaxProcessesAssumption, NumPrioritiesAssumption, AgingThresholdAssumption DEF Pid, Prio
<1>2. QED
  BY <1>1 DEF scheduler_init, SchedState, Status, Stdin, NoPid

(* The two processes of main() find an empty slot after their own. *)
LEMMA BootFindsSlots ==
  /\ ~ CreateLoops(scheduler_init)
  /\ ~ CreateLoops(WithIdle)
<1> DEFINE s0 == [scheduler_init EXCEPT !.status[scheduler_init.nextUnused] = "READY"]
           s1 == [WithIdle EXCEPT !.status[WithIdle.nextUnused] = "READY"]
           a0 == AddProcess(scheduler_init, 0, "STDIN")
<1>1. 0 \in Pid /\ 1 \in Pid /\ 2 \in Pid /\ 0 \in Prio /\ "STDIN" \in Stdin
  BY MaxProcessesAssumption, NumPrioritiesAssumption DEF Pid, Prio, Stdin
<1>2. s0.status = [p \in Pid |-> IF p = 0 THEN "READY" ELSE "FREE"] /\ s0.nextUnused = 0
  BY DEF scheduler_init
<1>3. NextUnused(s0) = {1}
  <2> HIDE DEF s0
  <2>1. Free(s0) = Pid \ {0}
    BY <1>2 DEF Free, Live
  <2>2. \A q \in Pid \ {0} : StepsUp(0, q) = q
    BY DEF StepsUp, Pid
  <2>3. \A q \in Pid \ {0} : 1 <= q
    BY DEF Pid
  <2>4. QED
    BY <1>1, <1>2, <2>1, <2>2, <2>3 DEF NextUnused, Pid
<1>4. NextUnused(a0) = {1}
  BY <1>1, <1>3, InitType, AddNextUnused
<1>5. /\ WithIdle.nextUnused = 1
      /\ WithIdle.status = [p \in Pid |-> IF p = 0 THEN "READY" ELSE "FREE"]
  <2>1. a0 \in SchedState /\ a0.status = s0.status
    <3>1. a0 \in SchedState
      BY <1>1, InitType, AddType
    <3>2. \A s \in SchedState :
            AddProcess(s, 0, "STDIN").status = [s.status EXCEPT ![s.nextUnused] = "READY"]
      BY DEF AddProcess, SchedState
    <3>3. s0.status = [scheduler_init.status EXCEPT ![scheduler_init.nextUnused] = "READY"]
      BY InitType DEF SchedState
    <3>4. QED
      BY <3>1, <3>2, <3>3, InitType
  <2>2. scheduler_init.num = 0
    BY DEF scheduler_init
  <2>3. WithIdle = [a0 EXCEPT !.nextUnused = CHOOSE p \in NextUnused(a0) : TRUE, !.num = a0.num + 1]
    BY <2>2, MaxProcessesAssumption DEF WithIdle, create_process
  <2> HIDE DEF a0, s0
  <2>4. (CHOOSE p \in NextUnused(a0) : TRUE) = 1
    BY <1>4
  <2>5. WithIdle.nextUnused = 1 /\ WithIdle.status = a0.status
    BY <2>1, <2>3, <2>4 DEF SchedState
  <2>6. QED
    BY <2>1, <2>5, <1>2
<1>6. WithIdle \in SchedState
  BY <1>1, <1>3, InitType, CreateType DEF WithIdle, CreateLoops
<1>7. s1.status = [p \in Pid |-> IF p \in {0, 1} THEN "READY" ELSE "FREE"] /\ s1.nextUnused = 1
  <2>1. WithIdle.status \in [Pid -> Status]
    BY <1>6 DEF SchedState
  <2>2. \A w \in SchedState : w.nextUnused = 1 =>
          LET t == [w EXCEPT !.status[w.nextUnused] = "READY"]
          IN  t.nextUnused = 1 /\ t.status = [w.status EXCEPT ![1] = "READY"]
    BY DEF SchedState
  <2>3. s1.nextUnused = 1 /\ s1.status = [WithIdle.status EXCEPT ![1] = "READY"]
    BY <1>5, <1>6, <2>2
  <2> HIDE DEF s1
  <2>4. QED
    BY <1>1, <1>5, <2>1, <2>3
<1>8. 2 \in NextUnused(s1)
  <2> HIDE DEF s1
  <2>1. Free(s1) = Pid \ {0, 1}
    BY <1>7 DEF Free, Live
  <2>2. \A q \in Pid \ {0, 1} : StepsUp(1, q) = q - 1
    BY DEF StepsUp, Pid
  <2>3. \A q \in Pid \ {0, 1} : 2 <= q
    BY DEF Pid
  <2>4. QED
    BY <1>1, <1>7, <2>1, <2>2, <2>3 DEF NextUnused, Pid
<1>9. QED
  BY <1>3, <1>8 DEF CreateLoops

LEMMA InitTypeOK == Init => TypeOK
<1>1. 0 \in Prio /\ "STDIN" \in Stdin
  BY NumPrioritiesAssumption DEF Prio, Stdin
<1>2. WithIdle \in SchedState
  BY <1>1, InitType, BootFindsSlots, CreateType DEF WithIdle
<1>3. create_process(WithIdle, ShellPriority, "STDIN") \in SchedState
  BY <1>1, <1>2, BootFindsSlots, CreateType, ShellPriorityAssumption
<1>4. QED
  BY <1>3 DEF Init, TypeOK, Where, Fault

LEMMA StepType ==
  ASSUME TypeOK, NEW s \in SchedState, Step(s)
  PROVE  TypeOK'
BY DEF TypeOK, Step, AtAfter, Where

LEMMA CrashType ==
  ASSUME TypeOK, NEW f \in Fault, Crash(f)
  PROVE  TypeOK'
BY DEF TypeOK, Crash

LEMMA NextTypeOK == TypeOK /\ [Next]_vars => TypeOK'
<1> SUFFICES ASSUME TypeOK, [Next]_vars PROVE TypeOK'
  OBVIOUS
<1>0. k \in SchedState /\ k.current \in Pid
  BY DEF TypeOK, SchedState
<1>1. CASE Boot
  BY <1>0, <1>1, YieldType, StepType DEF Boot
<1>2. CASE Tick
  BY <1>0, <1>2, ScheduleType, StepType DEF Tick
<1>3. CASE CtrlC
  <2>1. [k EXCEPT !.killFg = TRUE] \in SchedState
    BY <1>0 DEF SchedState
  <2>2. QED
    BY <1>3, <2>1, StepType DEF CtrlC
<1>4. ASSUME NEW pr \in Prio, NEW si \in ChildStdin, Create(pr, si) PROVE TypeOK'
  <2>1. si \in Stdin
    BY ChildStdinAssumption
  <2>2. QED
    BY <1>0, <1>4, <2>1, CreateType, StepType DEF Create
<1>5. CASE CreateLast
  BY <1>5, CrashType DEF CreateLast, Fault
<1>6. ASSUME NEW p \in Pid, Kill(p) PROVE TypeOK'
  BY <1>0, <1>6, KillType, StepType DEF Kill
<1>7. CASE Yield
  BY <1>0, <1>7, YieldType, StepType DEF Yield
<1>8. ASSUME NEW p \in Pid, NEW pr \in Prio, Nice(p, pr) PROVE TypeOK'
  BY <1>0, <1>8, SetPriorityType, StepType DEF Nice
<1>9. ASSUME NEW p \in Pid, Block(p) PROVE TypeOK'
  BY <1>0, <1>9, SetStatusType, StepType DEF Block
<1>10. ASSUME NEW p \in Pid, Unblock(p) PROVE TypeOK'
  BY <1>0, <1>10, SetStatusType, StepType DEF Unblock
<1>11. ASSUME NEW p \in Pid, WaitpidZombie(p) PROVE TypeOK'
  <2>1. WaitFinish(WaitBegin(k, p)) \in SchedState
    BY <1>0, WaitBeginType, WaitFinishType
  <2>2. QED
    BY <1>11, <2>1, StepType DEF WaitpidZombie
<1>12. ASSUME NEW p \in Pid, WaitpidBlock(p) PROVE TypeOK'
  <2>1. k' \in SchedState
    BY <1>0, <1>12, WaitBlockType DEF WaitpidBlock
  <2>2. at' \in [Pid -> Where]
    BY <1>12 DEF WaitpidBlock, AtAfter, TypeOK, Where
  <2>3. QED
    BY <1>12, <2>1, <2>2 DEF WaitpidBlock, TypeOK
<1>13. CASE WaitpidReturn
  <2>1. CASE k.status[k.waitFor[k.current]] = "ZOMBIE"
    <3>1. k' \in SchedState
      BY <1>0, <1>13, <2>1, WaitFinishType DEF WaitpidReturn
    <3>2. at' \in [Pid -> Where] /\ UNCHANGED fault
      BY <1>13, <2>1 DEF WaitpidReturn, TypeOK, Where
    <3>3. QED
      BY <3>1, <3>2 DEF TypeOK
  <2>2. CASE k.status[k.waitFor[k.current]] # "ZOMBIE"
    BY <1>13, <2>2, CrashType DEF WaitpidReturn, Fault
  <2>3. QED
    BY <2>1, <2>2
<1>14. CASE UNCHANGED vars
  BY <1>14 DEF vars, TypeOK
<1>15. QED
  BY <1>1, <1>2, <1>3, <1>4, <1>5, <1>6, <1>7, <1>8, <1>9, <1>10, <1>11, <1>12, <1>13, <1>14
     DEF Next

(* Every field of the scheduler keeps its range: no call makes a priority  *)
(* leave 0 .. NUM_PRIORITIES - 1, a pid leave the table or a queue hold    *)
(* anything but pids, whatever the calls of scheduler.c and their order.   *)
THEOREM TypeCorrect == Spec => []TypeOK
BY InitTypeOK, NextTypeOK, PTL DEF Spec

-----------------------------------------------------------------------------
(* Lists that hold a set exactly.                                          *)

LEMMA ExactEmpty ==
  ASSUME NEW S, NEW q \in Seq(Pid), Exactly(q, S)
  PROVE  q = << >> <=> S = {}
BY DEF Exactly, ListSet

LEMMA ExactHead ==
  ASSUME NEW S, NEW q \in Seq(Pid), Exactly(q, S), q # << >>
  PROVE  q[1] \in S
BY DEF Exactly, ListSet

LEMMA ExactAppend ==
  ASSUME NEW S, NEW q \in Seq(Pid), Exactly(q, S), NEW p \in Pid, p \notin S
  PROVE  Exactly(list_append(q, p), S \cup {p})
<1> DEFINE r == Append(q, p)
<1>1. /\ Len(r) = Len(q) + 1
      /\ \A i \in 1 .. Len(q) : r[i] = q[i]
      /\ r[Len(q) + 1] = p
  OBVIOUS
<1> HIDE DEF r
<1>2. \A i \in 1 .. Len(q) : q[i] \in S
  BY DEF Exactly, ListSet
<1>3. \A i, j \in 1 .. Len(r) : r[i] = r[j] => i = j
  BY <1>1, <1>2 DEF Exactly
<1>4. ListSet(r) \subseteq S \cup {p}
  BY <1>1, <1>2 DEF ListSet
<1>5. S \cup {p} \subseteq ListSet(r)
  BY <1>1 DEF ListSet, Exactly
<1>6. QED
  BY <1>3, <1>4, <1>5 DEF Exactly, list_append, r

LEMMA ExactPrepend ==
  ASSUME NEW S, NEW q \in Seq(Pid), Exactly(q, S), NEW p \in Pid, p \notin S
  PROVE  Exactly(list_prepend(q, p), S \cup {p})
<1> DEFINE r == << p >> \o q
<1>1. /\ Len(r) = Len(q) + 1
      /\ r[1] = p
      /\ \A i \in 1 .. Len(q) : r[i + 1] = q[i]
  OBVIOUS
<1> HIDE DEF r
<1>2. \A i \in 2 .. Len(r) : i - 1 \in 1 .. Len(q) /\ r[i] = q[i - 1]
  BY <1>1
<1>3. \A i \in 1 .. Len(q) : q[i] \in S
  BY DEF Exactly, ListSet
<1>4. \A i, j \in 1 .. Len(r) : r[i] = r[j] => i = j
  <2> SUFFICES ASSUME NEW i \in 1 .. Len(r), NEW j \in 1 .. Len(r), r[i] = r[j]
               PROVE  i = j
    OBVIOUS
  <2>1. CASE i = 1
    BY <2>1, <1>1, <1>2, <1>3
  <2>2. CASE j = 1
    BY <2>2, <1>1, <1>2, <1>3
  <2>3. CASE i # 1 /\ j # 1
    <3>1. i - 1 \in 1 .. Len(q) /\ j - 1 \in 1 .. Len(q) /\ q[i - 1] = q[j - 1]
      BY <2>3, <1>1, <1>2
    <3>2. i - 1 = j - 1
      BY <3>1 DEF Exactly
    <3>3. QED
      BY <3>2
  <2>4. QED
    BY <2>1, <2>2, <2>3
<1>5. ListSet(r) \subseteq S \cup {p}
  BY <1>1, <1>2, <1>3 DEF ListSet
<1>6. S \cup {p} \subseteq ListSet(r)
  <2>1. p \in ListSet(r)
    BY <1>1 DEF ListSet
  <2>2. ASSUME NEW x \in S  PROVE x \in ListSet(r)
    <3>1. PICK i \in 1 .. Len(q) : q[i] = x
      BY <2>2 DEF Exactly, ListSet
    <3>2. i + 1 \in 1 .. Len(r) /\ r[i + 1] = x
      BY <3>1, <1>1
    <3>3. QED
      BY <3>2 DEF ListSet
  <2>3. QED
    BY <2>1, <2>2
<1>7. QED
  BY <1>4, <1>5, <1>6 DEF Exactly, list_prepend, r

LEMMA ExactRemove ==
  ASSUME NEW S, NEW q \in Seq(Pid), Exactly(q, S), NEW p
  PROVE  Exactly(list_remove(q, p), S \ {p})
<1>1. CASE ~ \E i \in 1 .. Len(q) : q[i] = p
  BY <1>1 DEF list_remove, Exactly, ListSet
<1>2. CASE \E i \in 1 .. Len(q) : q[i] = p
  <2> DEFINE pos == CHOOSE i \in 1 .. Len(q) : q[i] = p
             r == [j \in 1 .. Len(q) - 1 |-> IF j < pos THEN q[j] ELSE q[j + 1]]
  <2>1. list_remove(q, p) = r
    BY <1>2 DEF list_remove
  <2>2. pos \in 1 .. Len(q) /\ q[pos] = p
    BY <1>2
  <2>3. r \in Seq(Pid)
    BY <2>1, RemoveType
  <2>4. Len(r) = Len(q) - 1
    BY <2>2, <2>3
  <2>5. \A j \in 1 .. Len(q) - 1 : r[j] = IF j < pos THEN q[j] ELSE q[j + 1]
    OBVIOUS
  <2> HIDE DEF pos, r
  <2>6. \A i, j \in 1 .. Len(r) : r[i] = r[j] => i = j
    <3> SUFFICES ASSUME NEW i \in 1 .. Len(r), NEW j \in 1 .. Len(r), r[i] = r[j]
                 PROVE  i = j
      OBVIOUS
    <3> DEFINE a == IF i < pos THEN i ELSE i + 1
               b == IF j < pos THEN j ELSE j + 1
    <3>1. a \in 1 .. Len(q) /\ b \in 1 .. Len(q) /\ q[a] = q[b]
      BY <2>2, <2>4, <2>5
    <3>2. a = b
      BY <3>1 DEF Exactly
    <3>3. QED
      BY <3>2, <2>2
  <2>7. ListSet(r) \subseteq S \ {p}
    <3> SUFFICES ASSUME NEW j \in 1 .. Len(r)
                 PROVE  r[j] \in S \ {p}
      BY DEF ListSet
    <3> DEFINE a == IF j < pos THEN j ELSE j + 1
    <3>1. a \in 1 .. Len(q) /\ a # pos /\ r[j] = q[a]
      BY <2>2, <2>4, <2>5
    <3>2. q[a] # p
      BY <3>1, <2>2 DEF Exactly
    <3>3. QED
      BY <3>1, <3>2 DEF Exactly, ListSet
  <2>8. S \ {p} \subseteq ListSet(r)
    <3> SUFFICES ASSUME NEW x \in S, x # p
                 PROVE  x \in ListSet(r)
      OBVIOUS
    <3>1. PICK i \in 1 .. Len(q) : q[i] = x
      BY DEF Exactly, ListSet
    <3>2. i # pos
      BY <3>1, <2>2
    <3> DEFINE a == IF i < pos THEN i ELSE i - 1
    <3>3. a \in 1 .. Len(r) /\ r[a] = x
      BY <3>1, <3>2, <2>2, <2>4, <2>5
    <3>4. QED
      BY <3>3 DEF ListSet
  <2>9. QED
    BY <2>1, <2>6, <2>7, <2>8 DEF Exactly
<1>3. QED
  BY <1>1, <1>2

(* A list that holds S exactly is as long as S is large.                   *)
LEMMA ExactLength ==
  ASSUME NEW S, NEW q \in Seq(Pid), Exactly(q, S)
  PROVE  IsFiniteSet(S) /\ Cardinality(S) = Len(q)
<1> DEFINE n == Len(q)
<1>0. n \in Nat
  OBVIOUS
<1> HIDE DEF n
<1>1. IsFiniteSet(1 .. n) /\ Cardinality(1 .. n) = n
  <2>1. /\ IsFiniteSet(1 .. n)
        /\ Cardinality(1 .. n) = IF 1 > n THEN 0 ELSE n - 1 + 1
    BY <1>0, FS_Interval
  <2>2. QED
    BY <2>1, <1>0
<1>2. q \in Bijection(1 .. n, S)
  BY DEF Exactly, ListSet, Bijection, Injection, Surjection, IsInjective, n
<1>3. QED
  BY <1>1, <1>2, FS_Bijection DEF ExistsBijection, n

-----------------------------------------------------------------------------
(* The invariant of the scheduler state that every operator preserves, also*)
(* in the middle of a step.                                                *)

IdleAlive(s)    == s.status[IDLE] \in {"READY", "RUNNING"}
OneRunning(s)   == \A p \in Pid : s.status[p] = "RUNNING" => p = s.current
SlotsCounted(s) == s.num = Cardinality(Live(s)) /\ s.status[s.nextUnused] = "FREE"

Core(s) ==
  /\ s \in SchedState
  /\ ReadyQueuesExact(s)
  /\ BlockedQueueExact(s)
  /\ ZombieListsExact(s)
  /\ IdleAlive(s)
  /\ OneRunning(s)
  /\ SlotsCounted(s)

(* What no operator between the start and the end of a system call does:   *)
(* raise the dead, forget a child of a living parent, or change what a     *)
(* parent waits for; and a parent that ends blocked on a zombie was so.    *)
Kept(s, t) ==
  /\ \A p \in Pid : ~ Alive(s, p) => ~ Alive(t, p)
  /\ \A c \in Pid : s.status[c] # "FREE" /\ Alive(t, s.parent[c]) => t.status[c] # "FREE"
  /\ \A c \in Pid : t.status[c] # "FREE" => s.status[c] # "FREE" /\ t.parent[c] = s.parent[c]
  /\ \A p \in Pid : Alive(t, p) => t.waitFor[p] = s.waitFor[p]
  /\ \A c \in Pid :
       LET q == t.parent[c]
       IN  t.status[c] = "ZOMBIE" /\ t.status[q] = "BLOCKED" /\ t.waitFor[q] = c
             => s.status[c] = "ZOMBIE" /\ s.status[q] = "BLOCKED"

LEMMA KeptTransitive ==
  ASSUME NEW s \in SchedState, NEW t \in SchedState, NEW u \in SchedState,
         Kept(s, t), Kept(t, u)
  PROVE  Kept(s, u)
<1>1. \A p \in Pid : s.parent[p] \in Pid /\ t.parent[p] \in Pid /\ u.parent[p] \in Pid
  BY DEF SchedState
<1>2. \A p \in Pid : Alive(u, p) => Alive(t, p)
  BY DEF Kept
<1>3. \A c \in Pid : s.status[c] # "FREE" /\ Alive(u, s.parent[c]) => u.status[c] # "FREE"
  BY <1>1, <1>2 DEF Kept
<1>4. \A c \in Pid : u.status[c] # "FREE" => s.status[c] # "FREE" /\ u.parent[c] = s.parent[c]
  BY DEF Kept
<1>5. \A c \in Pid :
        LET q == u.parent[c]
        IN  u.status[c] = "ZOMBIE" /\ u.status[q] = "BLOCKED" /\ u.waitFor[q] = c
              => s.status[c] = "ZOMBIE" /\ s.status[q] = "BLOCKED"
  <2> SUFFICES ASSUME NEW c \in Pid, u.status[c] = "ZOMBIE",
                      u.status[u.parent[c]] = "BLOCKED", u.waitFor[u.parent[c]] = c
               PROVE  s.status[c] = "ZOMBIE" /\ s.status[u.parent[c]] = "BLOCKED"
    OBVIOUS
  <2> DEFINE q == u.parent[c]
  <2>1. q \in Pid /\ Alive(u, q) /\ Alive(t, q)
    BY <1>1, <1>2 DEF Alive
  <2>2. t.status[c] = "ZOMBIE" /\ t.status[q] = "BLOCKED"
    BY DEF Kept
  <2>3. t.parent[c] = q /\ t.waitFor[q] = c
    BY <2>1 DEF Kept
  <2>4. QED
    BY <2>2, <2>3 DEF Kept
<1>6. \A p \in Pid : ~ Alive(s, p) => ~ Alive(u, p)
  BY DEF Kept
<1>7. \A p \in Pid : Alive(u, p) => u.waitFor[p] = s.waitFor[p]
  BY <1>2 DEF Kept
<1>8. QED
  BY <1>3, <1>4, <1>5, <1>6, <1>7 DEF Kept

(* A change of priorities, ready queues, quanta and counts.                *)
LEMMA CoreRequeue ==
  ASSUME NEW s, Core(s), NEW t \in SchedState, ReadyQueuesExact(t),
         t.status = s.status, t.parent = s.parent, t.waitFor = s.waitFor,
         t.blocked = s.blocked, t.zombies = s.zombies, t.current = s.current,
         t.nextUnused = s.nextUnused, t.num = s.num
  PROVE  Core(t) /\ Kept(s, t)
<1>1. Core(t)
  <2>1. BlockedQueueExact(t)
    <3>1. Blocked(t) = Blocked(s)
      BY DEF Blocked
    <3>2. QED
      BY <3>1 DEF Core, BlockedQueueExact
  <2>2. ZombieListsExact(t)
    <3>1. \A q \in Pid : ZombiesOf(t, q) = ZombiesOf(s, q) /\ (Alive(t, q) <=> Alive(s, q))
      BY DEF ZombiesOf, Alive
    <3>2. QED
      BY <3>1 DEF Core, ZombieListsExact
  <2>3. IdleAlive(t) /\ OneRunning(t)
    BY DEF Core, IdleAlive, OneRunning
  <2>4. Live(t) = Live(s)
    BY DEF Live
  <2>5. SlotsCounted(t)
    BY <2>4 DEF Core, SlotsCounted
  <2>6. QED
    BY <2>1, <2>2, <2>3, <2>5 DEF Core
<1>2. Kept(s, t)
  BY DEF Kept, Alive
<1>3. QED
  BY <1>1, <1>2

(* A process starts or stops running, at most one runs.                    *)
LEMMA CoreRun ==
  ASSUME NEW s, Core(s), NEW t \in SchedState, OneRunning(t),
         \A p \in Pid : \/ t.status[p] = s.status[p]
                        \/ {s.status[p], t.status[p]} = {"READY", "RUNNING"},
         t.prio = s.prio, t.parent = s.parent, t.waitFor = s.waitFor, t.ready = s.ready,
         t.blocked = s.blocked, t.zombies = s.zombies,
         t.nextUnused = s.nextUnused, t.num = s.num
  PROVE  Core(t) /\ Kept(s, t)
<1>1. \A p \in Pid : /\ t.status[p] \in {"READY", "RUNNING"} <=> s.status[p] \in {"READY", "RUNNING"}
                     /\ t.status[p] = "BLOCKED" <=> s.status[p] = "BLOCKED"
                     /\ t.status[p] = "ZOMBIE" <=> s.status[p] = "ZOMBIE"
                     /\ t.status[p] = "FREE" <=> s.status[p] = "FREE"
  OBVIOUS
<1>2. \A l \in Prio : Runnable(t, l) = Runnable(s, l)
  BY <1>1 DEF Runnable
<1>3. ReadyQueuesExact(t)
  BY <1>2 DEF Core, ReadyQueuesExact
<1>4. BlockedQueueExact(t)
  <2>1. Blocked(t) = Blocked(s)
    BY <1>1 DEF Blocked
  <2>2. QED
    BY <2>1 DEF Core, BlockedQueueExact
<1>5. ZombieListsExact(t)
  <2>1. \A q \in Pid : ZombiesOf(t, q) = ZombiesOf(s, q) /\ (Alive(t, q) <=> Alive(s, q))
    BY <1>1 DEF ZombiesOf, Alive
  <2>2. QED
    BY <2>1 DEF Core, ZombieListsExact
<1>6. Live(t) = Live(s)
  BY <1>1 DEF Live
<1>7. IdleAlive(t)
  BY <1>1, MaxProcessesAssumption DEF Core, IdleAlive, IDLE, Pid
<1>8. SlotsCounted(t)
  BY <1>1, <1>6 DEF Core, SlotsCounted, SchedState
<1>9. Kept(s, t)
  BY <1>1 DEF Kept, Alive, Core, SchedState
<1>10. QED
  BY <1>3, <1>4, <1>5, <1>7, <1>8, <1>9 DEF Core

-----------------------------------------------------------------------------
(* set_priority and set_status.                                            *)

LEMMA CoreParts ==
  ASSUME NEW s, Core(s)
  PROVE  /\ s \in SchedState
         /\ IDLE \in Pid
         /\ s.status[IDLE] \in {"READY", "RUNNING"}
         /\ \A p \in Pid : s.status[p] \in Status /\ s.prio[p] \in Prio /\ s.parent[p] \in Pid
         /\ \A l \in Prio : s.ready[l] \in Seq(Pid) /\ Exactly(s.ready[l], Runnable(s, l))
         /\ s.blocked \in Seq(Pid) /\ Exactly(s.blocked, Blocked(s))
         /\ \A q \in Pid : s.zombies[q] \in Seq(Pid) /\ Exactly(s.zombies[q], ZombiesOf(s, q))
         /\ s.current \in Pid /\ s.nextUnused \in Pid
<1>1. IDLE \in Pid
  BY MaxProcessesAssumption DEF IDLE, Pid
<1>2. s \in SchedState
  BY DEF Core
<1>3. QED
  BY <1>1, <1>2 DEF Core, SchedState, ReadyQueuesExact, BlockedQueueExact, ZombieListsExact,
     IdleAlive

LEMMA SetPriorityFrame ==
  ASSUME NEW s \in SchedState, NEW p \in Pid, NEW np \in Prio
  PROVE  LET t == set_priority(s, p, np)
         IN  /\ t.status = s.status /\ t.parent = s.parent /\ t.waitFor = s.waitFor
             /\ t.blocked = s.blocked /\ t.zombies = s.zombies /\ t.current = s.current
             /\ t.nextUnused = s.nextUnused /\ t.num = s.num
             /\ t.remaining = s.remaining /\ t.initial = s.initial
BY DEF set_priority, SchedState

LEMMA SetPriorityCore ==
  ASSUME NEW s, Core(s), NEW p \in Pid, NEW np \in Prio
  PROVE  Core(set_priority(s, p, np)) /\ Kept(s, set_priority(s, p, np))
<1> DEFINE t == set_priority(s, p, np)
           old == s.prio[p]
           unlinked == list_remove(s.ready[old], p)
           ready1   == [s.ready EXCEPT ![old] = unlinked]
           ready2   == [ready1 EXCEPT ![np] = list_append(ready1[np], p)]
<1>1. s \in SchedState /\ old \in Prio
  BY CoreParts
<1>2. t \in SchedState
  BY <1>1, SetPriorityType
<1>3. ReadyQueuesExact(t)
  <2>1. CASE s.status[p] = "FREE" \/ p = IDLE
    BY <2>1 DEF set_priority, Core
  <2>2. CASE s.status[p] \notin {"FREE", "READY", "RUNNING"} /\ p # IDLE
    <3>1. t.ready = s.ready /\ t.status = s.status /\ t.prio = [s.prio EXCEPT ![p] = np]
      BY <2>2, <1>1 DEF set_priority, SchedState
    <3> HIDE DEF t
    <3>2. \A l \in Prio : Runnable(t, l) = Runnable(s, l)
      BY <3>1, <2>2, <1>1 DEF Runnable, SchedState
    <3>3. QED
      BY <3>1, <3>2 DEF Core, ReadyQueuesExact
  <2>3. CASE s.status[p] \in {"READY", "RUNNING"} /\ p # IDLE
    <3>1. t.ready = ready2 /\ t.status = s.status /\ t.prio = [s.prio EXCEPT ![p] = np]
      BY <2>3, <1>1 DEF set_priority, SchedState
    <3>0. s.prio \in [Pid -> Prio]
      BY <1>1 DEF SchedState
    <3> HIDE DEF t, ready2
    <3>2. \A l \in Prio : Runnable(t, l) = IF l = np THEN Runnable(s, l) \cup {p}
                                           ELSE Runnable(s, l) \ {p}
      BY <3>0, <3>1, <2>3 DEF Runnable
    <3>3. \A l \in Prio : l # old => p \notin Runnable(s, l)
      BY DEF Runnable
    <3>4. /\ s.ready \in [Prio -> Seq(Pid)]
          /\ unlinked \in Seq(Pid)
          /\ Exactly(unlinked, Runnable(s, old) \ {p})
      <4>1. s.ready[old] \in Seq(Pid) /\ Exactly(s.ready[old], Runnable(s, old))
        BY <1>1, CoreParts
      <4>2. QED
        BY <1>1, <4>1, RemoveType, ExactRemove DEF SchedState
    <3> HIDE DEF old, unlinked
    <3>5. \A l \in Prio : /\ ready1[l] \in Seq(Pid)
                          /\ Exactly(ready1[l], Runnable(s, l) \ {p})
      <4> SUFFICES ASSUME NEW l \in Prio
                   PROVE  ready1[l] \in Seq(Pid) /\ Exactly(ready1[l], Runnable(s, l) \ {p})
        OBVIOUS
      <4>1. CASE l = old
        BY <4>1, <3>4, <1>1
      <4>2. CASE l # old
        <5>1. ready1[l] = s.ready[l] /\ Runnable(s, l) \ {p} = Runnable(s, l)
          BY <4>2, <3>4, <3>3
        <5>2. QED
          BY <5>1, CoreParts
      <4>3. QED
        BY <4>1, <4>2
    <3>6. Exactly(list_append(ready1[np], p), Runnable(s, np) \cup {p})
      <4>1. Exactly(list_append(ready1[np], p), (Runnable(s, np) \ {p}) \cup {p})
        BY <3>5, ExactAppend
      <4>2. (Runnable(s, np) \ {p}) \cup {p} = Runnable(s, np) \cup {p}
        OBVIOUS
      <4>3. QED
        BY <4>1, <4>2
    <3>7. ready1 \in [Prio -> Seq(Pid)]
      BY <3>4
    <3> HIDE DEF ready1
    <3>8. \A l \in Prio : Exactly(ready2[l], Runnable(t, l))
      <4> SUFFICES ASSUME NEW l \in Prio
                   PROVE  Exactly(ready2[l], Runnable(t, l))
        OBVIOUS
      <4>1. CASE l = np
        BY <4>1, <3>6, <3>2, <3>7 DEF ready2
      <4>2. CASE l # np
        BY <4>2, <3>5, <3>2, <3>7 DEF ready2
      <4>3. QED
        BY <4>1, <4>2
    <3>9. QED
      BY <3>1, <3>8 DEF ReadyQueuesExact
  <2>4. QED
    BY <2>1, <2>2, <2>3
<1>4. /\ t.status = s.status /\ t.parent = s.parent /\ t.waitFor = s.waitFor
      /\ t.blocked = s.blocked /\ t.zombies = s.zombies /\ t.current = s.current
      /\ t.nextUnused = s.nextUnused /\ t.num = s.num
  BY <1>1, SetPriorityFrame
<1> HIDE DEF t
<1>5. Core(t) /\ Kept(s, t)
  BY <1>2, <1>3, <1>4, CoreRequeue
<1>6. QED
  BY <1>5 DEF t

(* A process moves between the ready and the blocked queues.               *)
LEMMA CoreLive ==
  ASSUME NEW s, Core(s), NEW t \in SchedState,
         ReadyQueuesExact(t), BlockedQueueExact(t), IdleAlive(t), OneRunning(t),
         \A p \in Pid : \/ t.status[p] = s.status[p]
                        \/ {s.status[p], t.status[p]} \subseteq {"READY", "RUNNING", "BLOCKED"},
         t.parent = s.parent, t.zombies = s.zombies,
         t.nextUnused = s.nextUnused, t.num = s.num
  PROVE  Core(t)
<1>1. \A p \in Pid : /\ t.status[p] = "ZOMBIE" <=> s.status[p] = "ZOMBIE"
                     /\ t.status[p] = "FREE" <=> s.status[p] = "FREE"
  OBVIOUS
<1>2. ZombieListsExact(t)
  <2>1. \A q \in Pid : ZombiesOf(t, q) = ZombiesOf(s, q) /\ (Alive(t, q) <=> Alive(s, q))
    BY <1>1 DEF ZombiesOf, Alive
  <2>2. QED
    BY <2>1 DEF Core, ZombieListsExact
<1>3. Live(t) = Live(s)
  BY <1>1 DEF Live
<1>4. SlotsCounted(t)
  BY <1>1, <1>3 DEF Core, SlotsCounted, SchedState
<1>5. QED
  BY <1>2, <1>4 DEF Core

LEMMA BlockCore ==
  ASSUME NEW s, Core(s), NEW p \in Pid, p # IDLE, s.status[p] \in {"READY", "RUNNING"}
  PROVE  Core(BlockProcess(s, p))
<1> DEFINE t == BlockProcess(s, p)
           old == s.prio[p]
           re == [s.ready EXCEPT ![old] = list_remove(s.ready[old], p)]
           bl == list_append(s.blocked, p)
<1>1. s \in SchedState /\ old \in Prio /\ s.status \in [Pid -> Status]
      /\ s.ready \in [Prio -> Seq(Pid)] /\ s.prio \in [Pid -> Prio]
  BY CoreParts DEF SchedState
<1>2. t \in SchedState
  BY <1>1, BlockType
<1>3. /\ t.status = [s.status EXCEPT ![p] = "BLOCKED"]
      /\ \A c \in Pid : c # p => t.prio[c] = s.prio[c]
      /\ t.ready = re /\ t.blocked = bl
      /\ t.parent = s.parent /\ t.zombies = s.zombies /\ t.current = s.current
      /\ t.nextUnused = s.nextUnused /\ t.num = s.num
  BY <1>1 DEF BlockProcess, SchedState
<1> HIDE DEF t, re, bl
<1>4. ReadyQueuesExact(t)
  <2> SUFFICES ASSUME NEW l \in Prio
               PROVE  Exactly(t.ready[l], Runnable(t, l))
    BY DEF ReadyQueuesExact
  <2>1. Runnable(t, l) = Runnable(s, l) \ {p}
    BY <1>1, <1>3 DEF Runnable
  <2>2. Exactly(s.ready[l], Runnable(s, l)) /\ s.ready[l] \in Seq(Pid)
    BY CoreParts
  <2>3. CASE l = old
    <3>1. t.ready[l] = list_remove(s.ready[l], p)
      BY <2>3, <1>1, <1>3 DEF re
    <3>2. QED
      BY <3>1, <2>1, <2>2, ExactRemove
  <2>4. CASE l # old
    <3>1. t.ready[l] = s.ready[l] /\ Runnable(s, l) \ {p} = Runnable(s, l)
      BY <2>4, <1>1, <1>3 DEF re, Runnable
    <3>2. QED
      BY <3>1, <2>1, <2>2
  <2>5. QED
    BY <2>3, <2>4
<1>5. BlockedQueueExact(t)
  <2>1. Blocked(t) = Blocked(s) \cup {p} /\ p \notin Blocked(s)
    BY <1>1, <1>3 DEF Blocked
  <2>2. Exactly(s.blocked, Blocked(s)) /\ s.blocked \in Seq(Pid)
    BY CoreParts
  <2>3. Exactly(bl, Blocked(s) \cup {p})
    BY <2>1, <2>2, ExactAppend DEF bl
  <2>4. QED
    BY <2>1, <2>3, <1>3 DEF BlockedQueueExact
<1>6. IdleAlive(t) /\ OneRunning(t)
  BY <1>1, <1>3, CoreParts DEF Core, IdleAlive, OneRunning
<1>7. Core(t)
  <2>1. \A c \in Pid : \/ t.status[c] = s.status[c]
                       \/ {s.status[c], t.status[c]} \subseteq {"READY", "RUNNING", "BLOCKED"}
    BY <1>1, <1>3
  <2>2. QED
    BY <2>1, <1>2, <1>3, <1>4, <1>5, <1>6, CoreLive
<1>8. QED
  BY <1>7 DEF t

LEMMA WakeCore ==
  ASSUME NEW s, Core(s), NEW p \in Pid, s.status[p] = "BLOCKED"
  PROVE  Core(WakeProcess(s, p)) /\ Kept(s, WakeProcess(s, p))
<1> DEFINE t == WakeProcess(s, p)
           top == NumPriorities - 1
           re == [s.ready EXCEPT ![top] = list_prepend(s.ready[top], p)]
           bl == list_remove(s.blocked, p)
<1>1. s \in SchedState /\ s.status \in [Pid -> Status]
      /\ s.ready \in [Prio -> Seq(Pid)] /\ s.prio \in [Pid -> Prio]
  BY CoreParts DEF SchedState
<1>2. t \in SchedState /\ top \in Prio
  BY <1>1, WakeType, NumPrioritiesAssumption DEF Prio
<1>3. /\ t.status = [s.status EXCEPT ![p] = "READY"]
      /\ t.prio = [s.prio EXCEPT ![p] = top]
      /\ t.ready = re /\ t.blocked = bl
      /\ t.parent = s.parent /\ t.zombies = s.zombies /\ t.current = s.current
      /\ t.nextUnused = s.nextUnused /\ t.num = s.num /\ t.waitFor = s.waitFor
  BY <1>1 DEF WakeProcess, SchedState
<1> HIDE DEF t, re, bl, top
<1>0. p # IDLE
  BY CoreParts
<1>4. ReadyQueuesExact(t)
  <2> SUFFICES ASSUME NEW l \in Prio
               PROVE  Exactly(t.ready[l], Runnable(t, l))
    BY DEF ReadyQueuesExact
  <2>1. Runnable(t, l) = IF l = top THEN Runnable(s, l) \cup {p} ELSE Runnable(s, l)
    BY <1>0, <1>1, <1>2, <1>3 DEF Runnable
  <2>2. Exactly(s.ready[l], Runnable(s, l)) /\ s.ready[l] \in Seq(Pid) /\ p \notin Runnable(s, l)
    BY CoreParts DEF Runnable
  <2>3. CASE l = top
    <3>1. t.ready[l] = list_prepend(s.ready[l], p)
      BY <2>3, <1>1, <1>2, <1>3 DEF re
    <3>2. QED
      BY <3>1, <2>1, <2>2, <2>3, ExactPrepend
  <2>4. CASE l # top
    <3>1. t.ready[l] = s.ready[l]
      BY <2>4, <1>1, <1>2, <1>3 DEF re
    <3>2. QED
      BY <3>1, <2>1, <2>2, <2>4
  <2>5. QED
    BY <2>3, <2>4
<1>5. BlockedQueueExact(t)
  <2>1. Blocked(t) = Blocked(s) \ {p}
    BY <1>1, <1>3 DEF Blocked
  <2>2. Exactly(s.blocked, Blocked(s)) /\ s.blocked \in Seq(Pid)
    BY CoreParts
  <2>3. Exactly(bl, Blocked(s) \ {p})
    BY <2>2, ExactRemove DEF bl
  <2>4. QED
    BY <2>1, <2>3, <1>3 DEF BlockedQueueExact
<1>6. IdleAlive(t) /\ OneRunning(t)
  BY <1>0, <1>1, <1>3, CoreParts DEF Core, IdleAlive, OneRunning
<1>7. Core(t)
  <2>1. \A c \in Pid : \/ t.status[c] = s.status[c]
                       \/ {s.status[c], t.status[c]} \subseteq {"READY", "RUNNING", "BLOCKED"}
    BY <1>1, <1>3
  <2>2. QED
    BY <2>1, <1>2, <1>3, <1>4, <1>5, <1>6, CoreLive
<1>8. Kept(s, t)
  BY <1>1, <1>3 DEF Kept, Alive, SchedState
<1>9. QED
  BY <1>7, <1>8 DEF t

(* Waking, or trying to wake, any process keeps everything.                *)
LEMMA MakeReadyCore ==
  ASSUME NEW s, Core(s), NEW p \in Pid
  PROVE  Core(set_status(s, p, "READY")) /\ Kept(s, set_status(s, p, "READY"))
<1> DEFINE t == set_status(s, p, "READY")
           u == [s EXCEPT !.status[p] = "READY"]
<1>1. s \in SchedState /\ s.status[p] \in Status
  BY CoreParts
<1>2. Kept(s, s)
  BY <1>1 DEF Kept, SchedState
<1> HIDE DEF t
<1>3. CASE t = s
  BY <1>2, <1>3 DEF t
<1>4. CASE s.status[p] = "BLOCKED" /\ t = WakeProcess(s, p)
  <2>1. Core(t) /\ Kept(s, t)
    BY <1>4, WakeCore
  <2>2. QED
    BY <2>1 DEF t
<1>5. CASE s.status[p] = "RUNNING" /\ t = u
  <2>1. t \in SchedState
    BY <1>1, SetStatusType DEF t
  <2>2. /\ t.status = [s.status EXCEPT ![p] = "READY"]
        /\ t.prio = s.prio /\ t.parent = s.parent /\ t.waitFor = s.waitFor /\ t.ready = s.ready
        /\ t.blocked = s.blocked /\ t.zombies = s.zombies /\ t.current = s.current
        /\ t.nextUnused = s.nextUnused /\ t.num = s.num
    BY <1>1, <1>5 DEF SchedState
  <2>3. s.status \in [Pid -> Status]
    BY <1>1 DEF SchedState
  <2> HIDE DEF u
  <2>4. OneRunning(t)
    BY <2>2, <2>3 DEF Core, OneRunning
  <2>5. \A c \in Pid : \/ t.status[c] = s.status[c]
                       \/ {s.status[c], t.status[c]} = {"READY", "RUNNING"}
    BY <1>5, <2>2, <2>3
  <2>6. Core(t) /\ Kept(s, t)
    BY <2>1, <2>2, <2>4, <2>5, CoreRun
  <2>7. QED
    BY <2>6 DEF t
<1>6. t = s \/ (s.status[p] = "BLOCKED" /\ t = WakeProcess(s, p)) \/ (s.status[p] = "RUNNING" /\ t = u)
  BY <1>1 DEF set_status, Status, t
<1>7. QED
  BY <1>3, <1>4, <1>5, <1>6

LEMMA MakeBlockedCore ==
  ASSUME NEW s, Core(s), NEW p \in Pid
  PROVE  Core(set_status(s, p, "BLOCKED"))
<1>1. s.status[p] \in Status
  BY CoreParts
<1>2. \/ set_status(s, p, "BLOCKED") = s
      \/ /\ p # IDLE /\ s.status[p] \in {"READY", "RUNNING"}
         /\ set_status(s, p, "BLOCKED") = BlockProcess(s, p)
  BY <1>1 DEF set_status, Status
<1>3. QED
  BY <1>2, BlockCore

-----------------------------------------------------------------------------
(* schedule's dispatch and yield's quantum.                                *)

NoneRuns(s) == \A p \in Pid : s.status[p] # "RUNNING"

LEMMA KeptReflexive ==
  ASSUME NEW s \in SchedState
  PROVE  Kept(s, s)
BY DEF Kept, SchedState

LEMMA RotateCore ==
  ASSUME NEW s, Core(s), s.status[s.current] = "RUNNING"
  PROVE  /\ Core(RotateCurrent(s)) /\ Kept(s, RotateCurrent(s))
         /\ NoneRuns(RotateCurrent(s))
<1> DEFINE p      == s.current
           ticked == s.remaining = 0 /\ s.initial > 0
           count  == IF ticked THEN Saturate(s.consumed[p]) ELSE s.consumed[p]
           ages   == ticked /\ count >= AgingThreshold /\ s.prio[p] < NumPriorities - 1
           co     == IF ages THEN 0 ELSE count
           np     == IF ages THEN s.prio[p] + 1 ELSE s.prio[p]
           k1     == [s EXCEPT !.status[p] = "READY", !.consumed[p] = co]
<1>1. s \in SchedState /\ p \in Pid /\ s.prio[p] \in Prio /\ s.status \in [Pid -> Status]
  BY CoreParts DEF SchedState
<1>2. co \in 0 .. AgingThreshold
  BY <1>1, AgingThresholdAssumption DEF SchedState, Saturate
<1>3. np \in Prio
  BY <1>1, NumPrioritiesAssumption DEF Prio
<1> HIDE DEF co, np
<1>4. k1 \in SchedState
  BY <1>1, <1>2 DEF SchedState, Status
<1>5. /\ k1.status = [s.status EXCEPT ![p] = "READY"]
      /\ k1.prio = s.prio /\ k1.parent = s.parent /\ k1.waitFor = s.waitFor
      /\ k1.ready = s.ready /\ k1.blocked = s.blocked /\ k1.zombies = s.zombies
      /\ k1.current = s.current /\ k1.nextUnused = s.nextUnused /\ k1.num = s.num
  BY <1>1 DEF SchedState
<1>6. RotateCurrent(s) = set_priority(k1, p, np)
  BY DEF RotateCurrent, co, np
<1> HIDE DEF k1
<1>7. NoneRuns(k1)
  BY <1>1, <1>5 DEF Core, OneRunning, NoneRuns
<1>8. \A c \in Pid : \/ k1.status[c] = s.status[c]
                     \/ {s.status[c], k1.status[c]} = {"READY", "RUNNING"}
  BY <1>1, <1>5
<1>9. Core(k1) /\ Kept(s, k1)
  <2>1. OneRunning(k1)
    BY <1>7 DEF OneRunning, NoneRuns
  <2>2. QED
    BY <2>1, <1>4, <1>5, <1>8, CoreRun
<1> DEFINE t == set_priority(k1, p, np)
<1>10. Core(t) /\ Kept(k1, t)
  BY <1>1, <1>3, <1>9, SetPriorityCore
<1>11. t \in SchedState
  BY <1>10, CoreParts
<1>12. t.status = k1.status
  BY <1>1, <1>3, <1>4, SetPriorityFrame
<1> HIDE DEF t
<1>13. NoneRuns(t)
  BY <1>7, <1>12 DEF NoneRuns
<1>14. Kept(s, t)
  BY <1>1, <1>4, <1>9, <1>10, <1>11, KeptTransitive
<1>15. QED
  BY <1>6, <1>10, <1>13, <1>14 DEF t

(* The process that is chosen is runnable, or idle.                        *)
LEMMA NextPidCore ==
  ASSUME NEW s, Core(s)
  PROVE  s.status[get_next_pid(s).pid] \in {"READY", "RUNNING"}
<1>1. CASE NextLevels(s) = {}
  BY <1>1, CoreParts DEF get_next_pid
<1>2. CASE NextLevels(s) # {}
  <2> DEFINE l == CHOOSE m \in NextLevels(s) : TRUE
  <2>1. l \in NextLevels(s) /\ get_next_pid(s).pid = s.ready[l][1]
    BY <1>2 DEF get_next_pid
  <2>2. l \in Prio /\ s.ready[l] # << >>
    BY <2>1 DEF NextLevels
  <2> HIDE DEF l
  <2>3. s.ready[l][1] \in Runnable(s, l)
    BY <2>2, CoreParts, ExactHead
  <2>4. QED
    BY <2>1, <2>3 DEF Runnable
<1>3. QED
  BY <1>1, <1>2

LEMMA PickNextCore ==
  ASSUME NEW s, Core(s), NoneRuns(s)
  PROVE  /\ Core(PickNext(s)) /\ Kept(s, PickNext(s))
         /\ PickNext(s).status[PickNext(s).current] = "RUNNING"
<1> DEFINE n == get_next_pid(s)
           t == PickNext(s)
<1>1. s \in SchedState /\ s.status \in [Pid -> Status]
  BY CoreParts DEF SchedState
<1>2. n.pid \in Pid /\ n.level \in Prio
  BY <1>1, NextPidType
<1>3. s.status[n.pid] = "READY"
  BY <1>2, NextPidCore DEF NoneRuns
<1>4. t \in SchedState
  BY <1>1, PickNextType
<1> HIDE DEF n
<1>5. /\ t.status = [s.status EXCEPT ![n.pid] = "RUNNING"] /\ t.current = n.pid
      /\ t.prio = s.prio /\ t.parent = s.parent /\ t.waitFor = s.waitFor
      /\ t.ready = s.ready /\ t.blocked = s.blocked /\ t.zombies = s.zombies
      /\ t.nextUnused = s.nextUnused /\ t.num = s.num
  BY <1>1 DEF SchedState, PickNext, SwitchTo, n
<1> HIDE DEF t
<1>6. OneRunning(t)
  BY <1>1, <1>2, <1>5 DEF NoneRuns, OneRunning
<1>7. \A c \in Pid : \/ t.status[c] = s.status[c]
                     \/ {s.status[c], t.status[c]} = {"READY", "RUNNING"}
  BY <1>1, <1>2, <1>3, <1>5
<1>8. Core(t) /\ Kept(s, t)
  BY <1>4, <1>5, <1>6, <1>7, CoreRun
<1>9. t.status[t.current] = "RUNNING"
  BY <1>1, <1>2, <1>5
<1>10. QED
  BY <1>8, <1>9 DEF t

LEMMA LiveFinite ==
  ASSUME NEW s
  PROVE  IsFiniteSet(Live(s))
<1>1. IsFiniteSet(Pid)
  BY FS_Interval, MaxProcessesAssumption DEF Pid
<1>2. QED
  BY <1>1, FS_Subset DEF Live

LEMMA CountPositive ==
  ASSUME NEW s, Core(s)
  PROVE  s.num # 0
<1>1. IDLE \in Live(s)
  BY CoreParts DEF Live
<1>2. Cardinality(Live(s)) # 0
  BY <1>1, LiveFinite, FS_EmptySet
<1>3. QED
  BY <1>2 DEF Core, SlotsCounted

(* A dispatch leaves the CPU with a living process: with the one that has  *)
(* it, or with the one chosen when the quantum is over.                    *)
LEMMA DispatchCore ==
  ASSUME NEW s, Core(s), Alive(s, s.current) \/ s.remaining <= 1
  PROVE  LET t == Dispatch(s)
         IN  Core(t) /\ Kept(s, t) /\ Alive(t, t.current)
<1> DEFINE rm == s.remaining - 1
           k1 == [s EXCEPT !.remaining = rm]
           t  == Dispatch(s)
<1>1. s \in SchedState /\ rm \in Int
  <2>1. s \in SchedState
    BY CoreParts
  <2>2. QED
    BY <2>1 DEF SchedState
<1>2. k1 \in SchedState
  BY <1>1 DEF SchedState
<1>3. /\ k1.status = s.status /\ k1.current = s.current /\ k1.remaining = rm
      /\ k1.prio = s.prio /\ k1.parent = s.parent /\ k1.waitFor = s.waitFor
      /\ k1.ready = s.ready /\ k1.blocked = s.blocked /\ k1.zombies = s.zombies
      /\ k1.nextUnused = s.nextUnused /\ k1.num = s.num
  BY <1>1 DEF SchedState
<1>4. t = IF k1.num = 0 \/ k1.remaining > 0 THEN k1
          ELSE IF k1.status[k1.current] = "RUNNING" THEN PickNext(RotateCurrent(k1))
          ELSE PickNext(k1)
  BY DEF Dispatch
<1> HIDE DEF k1, t
<1>5. Core(k1) /\ Kept(s, k1)
  <2>1. OneRunning(k1)
    BY <1>3 DEF Core, OneRunning
  <2>2. QED
    BY <2>1, <1>2, <1>3, CoreRun
<1>6. k1.num # 0
  BY <1>5, CountPositive
<1>7. CASE k1.remaining > 0
  <2>1. Alive(s, s.current)
    BY <1>7, <1>3, <1>1 DEF SchedState
  <2>2. t = k1 /\ Alive(k1, k1.current)
    BY <2>1, <1>7, <1>4, <1>3 DEF Alive
  <2>3. QED
    BY <2>2, <1>5 DEF t
<1>8. CASE ~ (k1.remaining > 0) /\ k1.status[k1.current] = "RUNNING"
  <2> DEFINE r == RotateCurrent(k1)
  <2>1. Core(r) /\ Kept(k1, r) /\ NoneRuns(r)
    BY <1>5, <1>8, RotateCore
  <2> HIDE DEF r
  <2>2. Core(PickNext(r)) /\ Kept(r, PickNext(r))
        /\ PickNext(r).status[PickNext(r).current] = "RUNNING"
    BY <2>1, PickNextCore
  <2>3. t = PickNext(r)
    BY <1>4, <1>6, <1>8 DEF r
  <2>4. r \in SchedState /\ t \in SchedState
    BY <2>1, <2>2, <2>3, CoreParts
  <2>5. Kept(k1, t)
    BY <1>2, <2>1, <2>2, <2>3, <2>4, KeptTransitive
  <2>6. Kept(s, t)
    BY <1>1, <1>2, <1>5, <2>4, <2>5, KeptTransitive
  <2>7. QED
    BY <2>2, <2>3, <2>6 DEF Alive, t
<1>9. CASE ~ (k1.remaining > 0) /\ k1.status[k1.current] # "RUNNING"
  <2>1. NoneRuns(k1)
    BY <1>5, <1>9 DEF Core, OneRunning, NoneRuns
  <2>2. Core(PickNext(k1)) /\ Kept(k1, PickNext(k1))
        /\ PickNext(k1).status[PickNext(k1).current] = "RUNNING"
    BY <2>1, <1>5, PickNextCore
  <2>3. t = PickNext(k1)
    BY <1>4, <1>6, <1>9
  <2>4. t \in SchedState
    BY <2>2, <2>3, CoreParts
  <2>5. Kept(s, t)
    BY <1>1, <1>2, <1>5, <2>2, <2>3, <2>4, KeptTransitive
  <2>6. QED
    BY <2>2, <2>3, <2>5 DEF Alive, t
<1>10. QED
  BY <1>7, <1>8, <1>9

LEMMA DropQuantumCore ==
  ASSUME NEW s, Core(s)
  PROVE  LET t == DropQuantum(s)
         IN  Core(t) /\ Kept(s, t) /\ t.current = s.current /\ t.remaining = 0
<1> DEFINE p  == s.current
           k1 == IF s.prio[p] > 0 THEN set_priority(s, p, s.prio[p] - 1) ELSE s
           co == [k1.consumed EXCEPT ![p] = 0]
           c1 == [k1 EXCEPT !.consumed = co]
           k2 == IF s.status[p] # "FREE" /\ s.initial > 0 THEN c1 ELSE s
           rq == 0
           t  == [k2 EXCEPT !.remaining = rq]
<1>1. s \in SchedState /\ p \in Pid /\ s.prio[p] \in Prio
  BY CoreParts
<1>2. s.prio[p] > 0 => s.prio[p] - 1 \in Prio
  BY <1>1, NumPrioritiesAssumption DEF Prio
<1>3. Core(k1) /\ Kept(s, k1)
  BY <1>1, <1>2, SetPriorityCore, KeptReflexive
<1>4. k1.current = p
  BY <1>1, <1>2, SetPriorityFrame
<1>5. k1 \in SchedState
  BY <1>3, CoreParts
<1>6. DropQuantum(s) = t
  BY DEF DropQuantum
<1>7. t \in SchedState
  BY <1>1, <1>6, DropQuantumType
<1>8. t.remaining = 0
  <2>1. k2 \in SchedState
    <3> HIDE DEF k1
    <3>1. co \in [Pid -> 0 .. AgingThreshold]
      BY <1>5, <1>1, AgingThresholdAssumption DEF SchedState
    <3> HIDE DEF co
    <3>2. QED
      BY <3>1, <1>1, <1>5 DEF SchedState
  <2> HIDE DEF k2
  <2>2. QED
    BY <2>1 DEF SchedState
<1> DEFINE Like(u) ==
      /\ t.status = u.status /\ t.current = u.current
      /\ t.prio = u.prio /\ t.parent = u.parent /\ t.waitFor = u.waitFor
      /\ t.ready = u.ready /\ t.blocked = u.blocked /\ t.zombies = u.zombies
      /\ t.nextUnused = u.nextUnused /\ t.num = u.num
<1> HIDE DEF k1, co, rq
<1>9. Like(k1) \/ Like(s)
  BY <1>1, <1>5 DEF SchedState
<1> HIDE DEF t
<1>10. ASSUME NEW u, Core(u), Kept(s, u), u.current = p, Like(u)
       PROVE  Core(t) /\ Kept(s, t) /\ t.current = p
  <2>1. OneRunning(t)
    BY <1>10 DEF Core, OneRunning
  <2>2. Core(t) /\ Kept(u, t)
    BY <1>7, <1>10, <2>1, CoreRun
  <2>3. u \in SchedState
    BY <1>10, CoreParts
  <2>4. QED
    BY <1>1, <1>7, <1>10, <2>2, <2>3, KeptTransitive
<1>11. QED
  BY <1>1, <1>3, <1>4, <1>6, <1>8, <1>9, <1>10, KeptReflexive

-----------------------------------------------------------------------------
(* kill_process up to its yield: first the state in which the process is   *)
(* a zombie in no list, then the end, where it is linked or freed.         *)

KillMarked(s, p) == MarkZombie(ReapZombieChildren(Unlink(s, p), p), p)

MarkedFields(s, p, m) ==
  LET Z == ZombiesOf(s, p)
  IN  /\ m \in SchedState
      /\ m.status = [c \in Pid |-> IF c = p THEN "ZOMBIE"
                                  ELSE IF c \in Z THEN "FREE" ELSE s.status[c]]
      /\ m.prio = [c \in Pid |-> IF c \in Z THEN 0 ELSE s.prio[c]]
      /\ m.parent = [c \in Pid |-> IF c \in Z THEN 0 ELSE s.parent[c]]
      /\ m.waitFor = [c \in Pid |-> IF c \in Z THEN NoPid ELSE s.waitFor[c]]
      /\ m.ready = IF s.status[p] = "BLOCKED" THEN s.ready
                   ELSE [s.ready EXCEPT ![s.prio[p]] = list_remove(s.ready[s.prio[p]], p)]
      /\ m.blocked = IF s.status[p] = "BLOCKED" THEN list_remove(s.blocked, p) ELSE s.blocked
      /\ m.zombies = [s.zombies EXCEPT ![p] = << >>]
      /\ m.num = s.num - Len(s.zombies[p])
      /\ m.current = s.current /\ m.nextUnused = s.nextUnused

LEMMA KillFields ==
  ASSUME NEW s, Core(s), NEW p \in Pid, Killable(s, p)
  PROVE  MarkedFields(s, p, KillMarked(s, p))
<1> DEFINE u == Unlink(s, p)
           f == FreeSlots(u, ListSet(u.zombies[p]))
           r == ReapZombieChildren(u, p)
           m == KillMarked(s, p)
           Z == ZombiesOf(s, p)
<1>1. s \in SchedState /\ s.status[p] \in Status
  BY CoreParts
<1>2. u \in SchedState
  BY <1>1, UnlinkType
<1>3. r \in SchedState
  BY <1>2, ReapType
<1>4. m \in SchedState
  BY <1>3, MarkType DEF KillMarked
<1>5. ListSet(s.zombies[p]) = Z
  BY CoreParts DEF Exactly
<1>6. /\ u.status = s.status /\ u.prio = s.prio /\ u.parent = s.parent /\ u.waitFor = s.waitFor
      /\ u.zombies = s.zombies /\ u.num = s.num
      /\ u.current = s.current /\ u.nextUnused = s.nextUnused
      /\ u.ready = IF s.status[p] = "BLOCKED" THEN s.ready
                   ELSE [s.ready EXCEPT ![s.prio[p]] = list_remove(s.ready[s.prio[p]], p)]
      /\ u.blocked = IF s.status[p] = "BLOCKED" THEN list_remove(s.blocked, p) ELSE s.blocked
  BY <1>1 DEF Unlink, SchedState
<1> HIDE DEF u
<1>7. f \in SchedState
  BY <1>2, FreeSlotsType
<1>8. /\ f.status = [c \in Pid |-> IF c \in Z THEN "FREE" ELSE s.status[c]]
      /\ f.prio = [c \in Pid |-> IF c \in Z THEN 0 ELSE s.prio[c]]
      /\ f.parent = [c \in Pid |-> IF c \in Z THEN 0 ELSE s.parent[c]]
      /\ f.waitFor = [c \in Pid |-> IF c \in Z THEN NoPid ELSE s.waitFor[c]]
      /\ f.zombies = s.zombies /\ f.num = s.num
      /\ f.current = s.current /\ f.nextUnused = s.nextUnused
      /\ f.ready = u.ready /\ f.blocked = u.blocked
  BY <1>2, <1>5, <1>6 DEF FreeSlots, SchedState
<1>9. r = [f EXCEPT !.num = @ - Len(s.zombies[p]), !.zombies[p] = << >>]
  BY <1>6 DEF ReapZombieChildren
<1> HIDE DEF f, r
<1>10. /\ r.status = f.status /\ r.prio = f.prio /\ r.parent = f.parent /\ r.waitFor = f.waitFor
       /\ r.zombies = [f.zombies EXCEPT ![p] = << >>] /\ r.num = f.num - Len(s.zombies[p])
       /\ r.current = f.current /\ r.nextUnused = f.nextUnused
       /\ r.ready = f.ready /\ r.blocked = f.blocked
  BY <1>7, <1>9 DEF SchedState
<1>11. m = MarkZombie(r, p)
  BY DEF KillMarked, r, u
<1> HIDE DEF m
<1>12. /\ m.status = [r.status EXCEPT ![p] = "ZOMBIE"] /\ m.prio = r.prio /\ m.parent = r.parent
       /\ m.waitFor = r.waitFor /\ m.zombies = r.zombies /\ m.num = r.num
       /\ m.current = r.current /\ m.nextUnused = r.nextUnused
       /\ m.ready = r.ready /\ m.blocked = r.blocked
  BY <1>3, <1>11 DEF MarkZombie, SchedState
<1>13. m.status = [c \in Pid |-> IF c = p THEN "ZOMBIE" ELSE IF c \in Z THEN "FREE" ELSE s.status[c]]
  BY <1>8, <1>10, <1>12
<1>14. QED
  BY <1>4, <1>6, <1>8, <1>10, <1>12, <1>13 DEF m, MarkedFields

ZombieListsBut(m, p) ==
  \A q \in Pid : /\ Exactly(m.zombies[q], ZombiesOf(m, q) \ {p})
                 /\ m.zombies[q] # << >> => Alive(m, q)

Marked(m, p) ==
  /\ m \in SchedState /\ m.status[p] = "ZOMBIE"
  /\ ReadyQueuesExact(m) /\ BlockedQueueExact(m) /\ ZombieListsBut(m, p)
  /\ IdleAlive(m) /\ OneRunning(m) /\ SlotsCounted(m)

LEMMA KillMarkedCore ==
  ASSUME NEW s, Core(s), NEW p \in Pid, Killable(s, p)
  PROVE  Marked(KillMarked(s, p), p)
<1> DEFINE m == KillMarked(s, p)
           Z == ZombiesOf(s, p)
<1>0. MarkedFields(s, p, m)
  BY KillFields
<1> HIDE DEF m, Z
<1>1. s \in SchedState /\ p # IDLE /\ s.status[p] \in {"READY", "RUNNING", "BLOCKED"}
  <2>1. s \in SchedState /\ s.status[p] \in Status
    BY CoreParts
  <2>2. QED
    BY <2>1 DEF Killable, Status
<1>2. m \in SchedState
  BY <1>0 DEF MarkedFields, Z
<1>3. \A c \in Pid : m.status[c] = IF c = p THEN "ZOMBIE" ELSE IF c \in Z THEN "FREE" ELSE s.status[c]
  BY <1>0 DEF MarkedFields, Z
<1>4. \A c \in Pid : c \notin Z => m.prio[c] = s.prio[c] /\ m.parent[c] = s.parent[c]
  BY <1>0 DEF MarkedFields, Z
<1>5. m.ready = IF s.status[p] = "BLOCKED" THEN s.ready
                ELSE [s.ready EXCEPT ![s.prio[p]] = list_remove(s.ready[s.prio[p]], p)]
  BY <1>0 DEF MarkedFields, Z
<1>6. m.blocked = IF s.status[p] = "BLOCKED" THEN list_remove(s.blocked, p) ELSE s.blocked
  BY <1>0 DEF MarkedFields, Z
<1>7. m.zombies = [s.zombies EXCEPT ![p] = << >>]
  BY <1>0 DEF MarkedFields, Z
<1>8. m.num = s.num - Len(s.zombies[p]) /\ m.current = s.current /\ m.nextUnused = s.nextUnused
  BY <1>0 DEF MarkedFields, Z
<1>9. \A c \in Pid : c \in Z <=> s.status[c] = "ZOMBIE" /\ s.parent[c] = p
  BY DEF ZombiesOf, Z
<1>10. ReadyQueuesExact(m)
  <2> SUFFICES ASSUME NEW l \in Prio
               PROVE  Exactly(m.ready[l], Runnable(m, l))
    BY DEF ReadyQueuesExact
  <2>1. Runnable(m, l) = Runnable(s, l) \ {p}
    BY <1>3, <1>4, <1>9 DEF Runnable
  <2>2. Exactly(s.ready[l], Runnable(s, l)) /\ s.ready[l] \in Seq(Pid)
    BY CoreParts
  <2>3. s.ready \in [Prio -> Seq(Pid)] /\ s.prio[p] \in Prio
    BY <1>1 DEF SchedState
  <2>4. CASE s.status[p] # "BLOCKED" /\ l = s.prio[p]
    <3>1. m.ready[l] = list_remove(s.ready[l], p)
      BY <2>3, <2>4, <1>5
    <3>2. QED
      BY <3>1, <2>1, <2>2, ExactRemove
  <2>5. CASE s.status[p] = "BLOCKED" \/ l # s.prio[p]
    <3>1. m.ready[l] = s.ready[l]
      BY <2>3, <2>5, <1>5
    <3>2. p \notin Runnable(s, l)
      BY <2>5 DEF Runnable
    <3>3. Runnable(m, l) = Runnable(s, l)
      BY <3>2, <2>1
    <3>4. QED
      BY <3>1, <3>3, <2>2
  <2>6. QED
    BY <2>4, <2>5
<1>11. BlockedQueueExact(m)
  <2>1. Blocked(m) = Blocked(s) \ {p}
    BY <1>3, <1>9 DEF Blocked
  <2>2. Exactly(s.blocked, Blocked(s)) /\ s.blocked \in Seq(Pid)
    BY CoreParts
  <2>3. CASE s.status[p] = "BLOCKED"
    BY <2>1, <2>2, <2>3, <1>6, ExactRemove DEF BlockedQueueExact
  <2>4. CASE s.status[p] # "BLOCKED"
    <3>1. Blocked(m) = Blocked(s)
      BY <2>1, <2>4 DEF Blocked
    <3>2. QED
      BY <3>1, <2>2, <2>4, <1>6 DEF BlockedQueueExact
  <2>5. QED
    BY <2>3, <2>4
<1>12. ZombieListsBut(m, p)
  <2> SUFFICES ASSUME NEW q \in Pid
               PROVE  /\ Exactly(m.zombies[q], ZombiesOf(m, q) \ {p})
                      /\ m.zombies[q] # << >> => Alive(m, q)
    BY DEF ZombieListsBut
  <2>1. s.zombies \in [Pid -> Seq(Pid)]
    BY <1>1 DEF SchedState
  <2>2. CASE q = p
    <3>1. m.zombies[q] = << >>
      BY <2>1, <2>2, <1>7
    <3>2. ZombiesOf(m, q) \ {p} = {}
      BY <2>2, <1>3, <1>4, <1>9 DEF ZombiesOf
    <3>3. QED
      BY <3>1, <3>2 DEF Exactly, ListSet
  <2>3. CASE q # p
    <3>1. m.zombies[q] = s.zombies[q]
      BY <2>1, <2>3, <1>7
    <3>2. ZombiesOf(m, q) \ {p} = ZombiesOf(s, q)
      BY <2>3, <1>1, <1>3, <1>4, <1>9 DEF ZombiesOf
    <3>3. Alive(s, q) => Alive(m, q)
      BY <2>3, <1>3, <1>9 DEF Alive
    <3>4. QED
      BY <3>1, <3>2, <3>3 DEF Core, ZombieListsExact
  <2>4. QED
    BY <2>2, <2>3
<1>13. IdleAlive(m) /\ OneRunning(m)
  BY <1>1, <1>3, <1>8, <1>9, CoreParts DEF Core, IdleAlive, OneRunning
<1>14. SlotsCounted(m)
  <2>1. Live(m) = Live(s) \ Z /\ Z \subseteq Live(s)
    <3>1. Z \subseteq Pid
      BY DEF Z, ZombiesOf
    <3>2. QED
      BY <3>1, <1>1, <1>3, <1>9 DEF Live
  <2>2. IsFiniteSet(Z) /\ Cardinality(Z) = Len(s.zombies[p])
    BY CoreParts, ExactLength DEF Z
  <2>3. IsFiniteSet(Live(s))
    BY LiveFinite
  <2>4. Live(s) \cap Z = Z
    BY <2>1
  <2>5. Cardinality(Live(m)) = Cardinality(Live(s)) - Cardinality(Z)
    BY <2>1, <2>3, <2>4, FS_Difference
  <2>6. s.nextUnused \in Pid /\ s.status[s.nextUnused] = "FREE" /\ s.num = Cardinality(Live(s))
    BY CoreParts DEF Core, SlotsCounted
  <2>7. m.status[m.nextUnused] = "FREE"
    BY <2>6, <1>1, <1>3, <1>8
  <2>8. QED
    BY <2>2, <2>5, <2>6, <2>7, <1>8 DEF SlotsCounted
<1>15. QED
  BY <1>2, <1>3, <1>10, <1>11, <1>12, <1>13, <1>14 DEF m, Marked

(* Freeing a zombie that is in no list.                                    *)
LEMMA FreeMarkedCore ==
  ASSUME NEW m, NEW p \in Pid, Marked(m, p), NEW t \in SchedState,
         t.status[p] = "FREE",
         \A c \in Pid \ {p} : /\ t.status[c] = m.status[c] /\ t.prio[c] = m.prio[c]
                              /\ t.parent[c] = m.parent[c],
         t.ready = m.ready, t.blocked = m.blocked, t.zombies = m.zombies,
         t.current = m.current, t.nextUnused = m.nextUnused, t.num = m.num - 1
  PROVE  Core(t)
<1>1. \A l \in Prio : Runnable(t, l) = Runnable(m, l)
  BY DEF Runnable, Marked
<1>2. ReadyQueuesExact(t)
  BY <1>1 DEF Marked, ReadyQueuesExact
<1>3. Blocked(t) = Blocked(m)
  BY DEF Blocked, Marked
<1>4. BlockedQueueExact(t)
  BY <1>3 DEF Marked, BlockedQueueExact
<1>5. \A q \in Pid : ZombiesOf(t, q) = ZombiesOf(m, q) \ {p}
  BY DEF ZombiesOf, Marked
<1>6. \A q \in Pid : Alive(m, q) => Alive(t, q)
  BY DEF Alive, Marked
<1>7. ZombieListsExact(t)
  <2> SUFFICES ASSUME NEW q \in Pid
               PROVE  /\ Exactly(t.zombies[q], ZombiesOf(t, q))
                      /\ t.zombies[q] # << >> => Alive(t, q)
    BY DEF ZombieListsExact
  <2>1. ZombieListsBut(m, p)
    BY DEF Marked
  <2>2. /\ Exactly(m.zombies[q], ZombiesOf(m, q) \ {p})
        /\ m.zombies[q] # << >> => Alive(m, q)
    BY <2>1, Zenon DEF ZombieListsBut
  <2>3. QED
    BY <2>2, <1>5, <1>6
<1>8. IdleAlive(t) /\ OneRunning(t)
  <2>1. IDLE \in Pid
    BY MaxProcessesAssumption DEF IDLE, Pid
  <2>2. QED
    BY <2>1 DEF Marked, IdleAlive, OneRunning
<1>9. SlotsCounted(t)
  <2>1. Live(t) = Live(m) \ {p} /\ p \in Live(m)
    BY DEF Live, Marked
  <2>2. Cardinality(Live(t)) = Cardinality(Live(m)) - 1
    BY <2>1, LiveFinite, FS_RemoveElement
  <2>3. m.nextUnused \in Pid
    BY DEF Marked, SchedState
  <2>4. QED
    BY <2>2, <2>3 DEF Marked, SlotsCounted
<1>10. QED
  BY <1>2, <1>4, <1>7, <1>8, <1>9 DEF Core

(* Linking it to its living parent.                                        *)
LEMMA LinkMarkedCore ==
  ASSUME NEW m, NEW p \in Pid, Marked(m, p), Alive(m, m.parent[p]), NEW t \in SchedState,
         t.status = m.status, t.prio = m.prio, t.parent = m.parent,
         t.zombies = [m.zombies EXCEPT ![m.parent[p]] = list_append(@, p)],
         t.ready = m.ready, t.blocked = m.blocked,
         t.current = m.current, t.nextUnused = m.nextUnused, t.num = m.num
  PROVE  Core(t)
<1> DEFINE q == m.parent[p]
<1>1. m \in SchedState /\ m.zombies \in [Pid -> Seq(Pid)] /\ q \in Pid
  BY DEF Marked, SchedState
<1> HIDE DEF q
<1>2. \A l \in Prio : Runnable(t, l) = Runnable(m, l)
  BY DEF Runnable
<1>3. ReadyQueuesExact(t)
  BY <1>2 DEF Marked, ReadyQueuesExact
<1>4. BlockedQueueExact(t)
  BY DEF Marked, BlockedQueueExact, Blocked
<1>5. ZombieListsExact(t)
  <2> SUFFICES ASSUME NEW r \in Pid
               PROVE  /\ Exactly(t.zombies[r], ZombiesOf(t, r))
                      /\ t.zombies[r] # << >> => Alive(t, r)
    BY DEF ZombieListsExact
  <2>1. /\ Exactly(m.zombies[r], ZombiesOf(m, r) \ {p})
        /\ m.zombies[r] # << >> => Alive(m, r)
    <3>1. ZombieListsBut(m, p)
      BY DEF Marked
    <3>2. QED
      BY <3>1, Zenon DEF ZombieListsBut
  <2>2. ZombiesOf(t, r) = ZombiesOf(m, r) /\ (Alive(t, r) <=> Alive(m, r))
    BY DEF ZombiesOf, Alive
  <2>3. CASE r = q
    <3>1. t.zombies[r] = list_append(m.zombies[r], p)
      BY <1>1, <2>3 DEF q
    <3> DEFINE S == ZombiesOf(m, r) \ {p}
    <3>0. p \notin S /\ Exactly(m.zombies[r], S) /\ m.zombies[r] \in Seq(Pid)
      BY <1>1, <2>1
    <3> HIDE DEF S
    <3>2. Exactly(t.zombies[r], S \cup {p})
      BY <3>0, <3>1, ExactAppend
    <3>3. S \cup {p} = ZombiesOf(m, r)
      BY <2>3 DEF ZombiesOf, Marked, q, S
    <3>4. QED
      BY <3>2, <3>3, <2>2, <2>3 DEF q
  <2>4. CASE r # q
    <3>1. t.zombies[r] = m.zombies[r]
      BY <1>1, <2>4 DEF q
    <3>2. ZombiesOf(m, r) \ {p} = ZombiesOf(m, r)
      BY <2>4 DEF ZombiesOf, q
    <3>3. QED
      BY <3>1, <3>2, <2>1, <2>2
  <2>5. QED
    BY <2>3, <2>4
<1>6. IdleAlive(t) /\ OneRunning(t)
  BY DEF Marked, IdleAlive, OneRunning
<1>7. Live(t) = Live(m)
  BY DEF Live
<1>8. SlotsCounted(t)
  BY <1>7 DEF Marked, SlotsCounted
<1>9. QED
  BY <1>3, <1>4, <1>5, <1>6, <1>8 DEF Core

LEMMA MakeReadyFrame ==
  ASSUME NEW s \in SchedState, NEW p \in Pid
  PROVE  LET t == set_status(s, p, "READY")
         IN  /\ \A c \in Pid \ {p} : t.status[c] = s.status[c]
             /\ t.status[p] = s.status[p] \/ (s.status[p] \in {"BLOCKED", "RUNNING"} /\ t.status[p] = "READY")
             /\ p # IDLE => t.status[p] # "BLOCKED"
             /\ t.parent = s.parent /\ t.waitFor = s.waitFor /\ t.current = s.current
<1>1. CASE set_status(s, p, "READY") = s /\ (p # IDLE => s.status[p] # "BLOCKED")
  BY <1>1
<1>2. CASE s.status[p] = "BLOCKED" /\ set_status(s, p, "READY") = WakeProcess(s, p)
  <2> DEFINE t == WakeProcess(s, p)
  <2>1. /\ t.status = [s.status EXCEPT ![p] = "READY"]
        /\ t.parent = s.parent /\ t.waitFor = s.waitFor /\ t.current = s.current
    BY DEF WakeProcess, SchedState
  <2>2. s.status \in [Pid -> Status]
    BY DEF SchedState
  <2> HIDE DEF t
  <2>3. QED
    BY <1>2, <2>1, <2>2 DEF t
<1>3. CASE s.status[p] = "RUNNING" /\ set_status(s, p, "READY") = [s EXCEPT !.status[p] = "READY"]
  BY <1>3 DEF SchedState
<1>4. s.status[p] \in Status
  BY DEF SchedState
<1>5. QED
  BY <1>1, <1>2, <1>3, <1>4 DEF set_status, Status

(* What kill_process leaves of the statuses: p is dead, its zombies are    *)
(* gone, and no other process changed but a parent that was woken.         *)
KillResult(s, p, t) ==
  LET Z == ZombiesOf(s, p)
  IN  /\ ~ Alive(t, p)
      /\ \A c \in Z : t.status[c] = "FREE"
      /\ \A c \in Pid \ (Z \cup {p}) :
           /\ \/ t.status[c] = s.status[c]
              \/ s.status[c] \in {"BLOCKED", "RUNNING"} /\ t.status[c] = "READY"
           /\ t.parent[c] = s.parent[c] /\ t.waitFor[c] = s.waitFor[c]
      /\ t.status[p] = "FREE" => ~ Alive(t, s.parent[p])
      /\ t.status[p] # "FREE" => t.parent[p] = s.parent[p]
      /\ t.status[p] = "ZOMBIE" /\ t.status[s.parent[p]] = "BLOCKED" => t.waitFor[s.parent[p]] # p
      /\ t.current = s.current

LEMMA KillResultKept ==
  ASSUME NEW s, Core(s), NEW p \in Pid, Killable(s, p), NEW t \in SchedState, KillResult(s, p, t)
  PROVE  Kept(s, t)
<1> DEFINE Z == ZombiesOf(s, p)
<1>1. \A c \in Pid : c \in Z <=> s.status[c] = "ZOMBIE" /\ s.parent[c] = p
  BY DEF ZombiesOf
<1>2. \A c \in Pid : s.status[c] \in Status /\ s.parent[c] \in Pid
  BY CoreParts
<1>3. s.status[p] \notin {"FREE", "ZOMBIE"}
  BY DEF Killable
<1>4. /\ ~ Alive(t, p)
      /\ \A c \in Z : t.status[c] = "FREE"
      /\ \A c \in Pid \ (Z \cup {p}) :
           /\ \/ t.status[c] = s.status[c]
              \/ s.status[c] \in {"BLOCKED", "RUNNING"} /\ t.status[c] = "READY"
           /\ t.parent[c] = s.parent[c] /\ t.waitFor[c] = s.waitFor[c]
      /\ t.status[p] = "FREE" => ~ Alive(t, s.parent[p])
      /\ t.status[p] # "FREE" => t.parent[p] = s.parent[p]
      /\ t.status[p] = "ZOMBIE" /\ t.status[s.parent[p]] = "BLOCKED" => t.waitFor[s.parent[p]] # p
  BY DEF KillResult
<1> HIDE DEF Z
<1>5. \A c \in Pid : ~ Alive(s, c) => ~ Alive(t, c)
  BY <1>1, <1>3, <1>4 DEF Alive
<1>6. \A c \in Pid : s.status[c] # "FREE" /\ Alive(t, s.parent[c]) => t.status[c] # "FREE"
  BY <1>1, <1>2, <1>3, <1>4 DEF Alive
<1>7. \A c \in Pid : t.status[c] # "FREE" => s.status[c] # "FREE" /\ t.parent[c] = s.parent[c]
  BY <1>1, <1>3, <1>4
<1>8. \A c \in Pid : Alive(t, c) => t.waitFor[c] = s.waitFor[c]
  BY <1>4 DEF Alive
<1>9. \A c \in Pid :
        LET q == t.parent[c]
        IN  t.status[c] = "ZOMBIE" /\ t.status[q] = "BLOCKED" /\ t.waitFor[q] = c
              => s.status[c] = "ZOMBIE" /\ s.status[q] = "BLOCKED"
  <2> SUFFICES ASSUME NEW c \in Pid, t.status[c] = "ZOMBIE",
                      t.status[t.parent[c]] = "BLOCKED", t.waitFor[t.parent[c]] = c
               PROVE  s.status[c] = "ZOMBIE" /\ s.status[t.parent[c]] = "BLOCKED"
    OBVIOUS
  <2>1. t.parent[c] = s.parent[c] /\ s.parent[c] \in Pid
    BY <1>2, <1>7
  <2>2. c # p /\ c \notin Z
    BY <1>4, <2>1
  <2>3. s.parent[c] # p /\ s.parent[c] \notin Z
    BY <1>4, <2>1 DEF Alive
  <2>4. QED
    BY <1>4, <2>1, <2>2, <2>3
<1>10. QED
  BY <1>5, <1>6, <1>7, <1>8, <1>9 DEF Kept

LEMMA KillableCore ==
  ASSUME NEW s, Core(s), NEW p \in Pid, Killable(s, p)
  PROVE  Core(KillBody(s, p)) /\ KillResult(s, p, KillBody(s, p))
<1> DEFINE m == KillMarked(s, p)
           t == KillBody(s, p)
           q == m.parent[p]
           f == FreeSlots(m, {p})
           nu == f.num - 1
           freed == [f EXCEPT !.num = nu]
           zo == [m.zombies EXCEPT ![q] = list_append(m.zombies[q], p)]
           linked == [m EXCEPT !.zombies = zo]
           woken == set_status(linked, q, "READY")
           Z == ZombiesOf(s, p)
<1>0. s \in SchedState /\ \A c \in Pid : s.status[c] \in Status /\ s.parent[c] \in Pid
  BY CoreParts
<1>1. MarkedFields(s, p, m) /\ Marked(m, p)
  BY KillFields, KillMarkedCore
<1> HIDE DEF m
<1>2. m \in SchedState /\ m.status[p] = "ZOMBIE" /\ m.zombies \in [Pid -> Seq(Pid)] /\ q \in Pid
  BY <1>1 DEF Marked, SchedState
<1>3. /\ \A c \in Pid \ {p} : m.status[c] = IF c \in Z THEN "FREE" ELSE s.status[c]
      /\ \A c \in Pid \ Z : m.parent[c] = s.parent[c] /\ m.waitFor[c] = s.waitFor[c]
      /\ m.current = s.current
  BY <1>1 DEF MarkedFields
<1>4. \A c \in Z : c \in Pid /\ c # p /\ s.status[c] = "ZOMBIE"
  BY DEF ZombiesOf, Killable
<1>5. q = s.parent[p] /\ p \notin Z
  BY <1>3, <1>4
<1>6. t = IF m.status[q] \in {"FREE", "ZOMBIE"} THEN freed
          ELSE IF m.waitFor[q] = p /\ m.status[q] = "BLOCKED" THEN woken ELSE linked
  BY DEF KillBody, LinkOrFree, KillMarked, m
<1>7. CASE m.status[q] \in {"FREE", "ZOMBIE"}
  <2>1. f \in SchedState
    BY <1>2, FreeSlotsType
  <2>2. /\ f.status = [c \in Pid |-> IF c \in {p} THEN "FREE" ELSE m.status[c]]
        /\ f.prio = [c \in Pid |-> IF c \in {p} THEN 0 ELSE m.prio[c]]
        /\ f.parent = [c \in Pid |-> IF c \in {p} THEN 0 ELSE m.parent[c]]
        /\ f.waitFor = [c \in Pid |-> IF c \in {p} THEN NoPid ELSE m.waitFor[c]]
        /\ f.ready = m.ready /\ f.blocked = m.blocked /\ f.zombies = m.zombies
        /\ f.current = m.current /\ f.nextUnused = m.nextUnused /\ f.num = m.num
    BY <1>2 DEF FreeSlots, SchedState
  <2> HIDE DEF f
  <2>3. freed \in SchedState
    <3>1. nu \in Int
      BY <2>1 DEF SchedState
    <3> HIDE DEF nu
    <3>2. QED
      BY <2>1, <3>1 DEF SchedState
  <2>4. /\ freed.status = f.status /\ freed.prio = f.prio /\ freed.parent = f.parent
        /\ freed.waitFor = f.waitFor /\ freed.ready = f.ready /\ freed.blocked = f.blocked
        /\ freed.zombies = f.zombies /\ freed.current = f.current
        /\ freed.nextUnused = f.nextUnused /\ freed.num = f.num - 1
    BY <2>1 DEF SchedState
  <2>5. t = freed
    BY <1>6, <1>7
  <2> HIDE DEF freed, t
  <2>6. \A c \in Pid \ {p} : /\ t.status[c] = m.status[c] /\ t.prio[c] = m.prio[c]
                             /\ t.parent[c] = m.parent[c] /\ t.waitFor[c] = m.waitFor[c]
    BY <2>2, <2>4, <2>5
  <2>7. t.status[p] = "FREE"
    BY <2>2, <2>4, <2>5
  <2>8. Core(t)
    BY <1>1, <2>2, <2>3, <2>4, <2>5, <2>6, <2>7, FreeMarkedCore
  <2>9. KillResult(s, p, t)
    BY <1>0, <1>2, <1>3, <1>4, <1>5, <1>7, <2>2, <2>4, <2>5, <2>6, <2>7 DEF KillResult, Alive
  <2>10. QED
    BY <2>8, <2>9 DEF t
<1>8. CASE m.status[q] \notin {"FREE", "ZOMBIE"}
  <2>1. zo \in [Pid -> Seq(Pid)]
    <3>1. m.zombies[q] \in Seq(Pid)
      BY <1>2
    <3>2. list_append(m.zombies[q], p) \in Seq(Pid)
      BY <3>1 DEF list_append
    <3>3. QED
      BY <1>2, <3>2
  <2> HIDE DEF zo
  <2>2. linked \in SchedState
    BY <1>2, <2>1 DEF SchedState
  <2>3. /\ linked.status = m.status /\ linked.prio = m.prio /\ linked.parent = m.parent
        /\ linked.waitFor = m.waitFor /\ linked.ready = m.ready /\ linked.blocked = m.blocked
        /\ linked.zombies = zo /\ linked.current = m.current
        /\ linked.nextUnused = m.nextUnused /\ linked.num = m.num
    BY <1>2 DEF SchedState
  <2> HIDE DEF linked
  <2>4. Core(linked)
    BY <1>1, <1>8, <2>2, <2>3, LinkMarkedCore DEF zo, Alive
  <2>5. CASE m.waitFor[q] = p /\ m.status[q] = "BLOCKED"
    <3>1. Core(woken)
      BY <2>4, <1>2, MakeReadyCore
    <3>2. /\ \A c \in Pid \ {q} : woken.status[c] = linked.status[c]
          /\ woken.status[q] = linked.status[q]
               \/ (linked.status[q] \in {"BLOCKED", "RUNNING"} /\ woken.status[q] = "READY")
          /\ q # IDLE => woken.status[q] # "BLOCKED"
          /\ woken.parent = linked.parent /\ woken.waitFor = linked.waitFor
          /\ woken.current = linked.current
      BY <1>2, <2>2, MakeReadyFrame
    <3>3. q # IDLE
      BY <2>5, <2>3, <2>4, CoreParts
    <3>4. t = woken
      BY <1>6, <1>8, <2>5
    <3> HIDE DEF t, woken, q
    <3>5. KillResult(s, p, t)
      BY <1>0, <1>2, <1>3, <1>4, <1>5, <1>8, <2>3, <2>5, <3>2, <3>3, <3>4 DEF KillResult, Alive
    <3>6. QED
      BY <3>1, <3>4, <3>5 DEF t
  <2>6. CASE ~ (m.waitFor[q] = p /\ m.status[q] = "BLOCKED")
    <3>1. t = linked
      BY <1>6, <1>8, <2>6
    <3> HIDE DEF t, q
    <3>2. KillResult(s, p, t)
      BY <1>0, <1>2, <1>3, <1>4, <1>5, <1>8, <2>3, <2>6, <3>1 DEF KillResult, Alive
    <3>3. QED
      BY <2>4, <3>1, <3>2 DEF t
  <2>7. QED
    BY <2>5, <2>6
<1>9. QED
  BY <1>7, <1>8

LEMMA KillBodyCore ==
  ASSUME NEW s, Core(s), NEW p \in Pid
  PROVE  LET t == KillBody(s, p)
         IN  /\ Core(t) /\ Kept(s, t) /\ t.current = s.current
             /\ p # s.current /\ Alive(s, s.current) => Alive(t, t.current)
<1>1. s \in SchedState /\ s.current \in Pid
  BY CoreParts
<1>2. CASE ~ Killable(s, p)
  BY <1>1, <1>2, KeptReflexive DEF KillBody
<1>3. CASE Killable(s, p)
  <2> DEFINE t == KillBody(s, p)
  <2>1. Core(t) /\ KillResult(s, p, t)
    BY <1>3, KillableCore
  <2> HIDE DEF t
  <2>2. Kept(s, t)
    BY <1>3, <2>1, CoreParts, KillResultKept
  <2>3. t.current = s.current
    BY <2>1 DEF KillResult
  <2>4. p # s.current /\ Alive(s, s.current) => Alive(t, t.current)
    BY <1>1, <2>1, <2>3 DEF KillResult, Alive, ZombiesOf
  <2>5. QED
    BY <2>1, <2>2, <2>3, <2>4 DEF t
<1>4. QED
  BY <1>2, <1>3

-----------------------------------------------------------------------------
(* schedule, yield, kill_process, create_process and waitpid.  Each leaves *)
(* the CPU with a living process.                                          *)

Sane(s) == Core(s) /\ Alive(s, s.current)

(* yield of a process that may be dead: the quantum is over, so the        *)
(* dispatch gives the CPU away.                                            *)
LEMMA DropThenDispatch ==
  ASSUME NEW s, Core(s)
  PROVE  LET t == Dispatch(DropQuantum(s))
         IN  Sane(t) /\ Kept(s, t)
<1> DEFINE d == DropQuantum(s)
           t == Dispatch(d)
<1>1. Core(d) /\ Kept(s, d) /\ d.remaining = 0
  BY DropQuantumCore
<1> HIDE DEF d
<1>2. Core(t) /\ Kept(d, t) /\ Alive(t, t.current)
  BY <1>1, DispatchCore
<1> HIDE DEF t
<1>3. s \in SchedState /\ d \in SchedState /\ t \in SchedState
  BY <1>1, <1>2, CoreParts
<1>4. Kept(s, t)
  BY <1>1, <1>2, <1>3, KeptTransitive
<1>5. QED
  BY <1>2, <1>4 DEF Sane, t, d

LEMMA ScheduleCore ==
  ASSUME NEW s, Core(s), Alive(s, s.current) \/ s.remaining <= 1
  PROVE  LET t == schedule(s)
         IN  Sane(t) /\ Kept(s, t)
<1> DEFINE c == [s EXCEPT !.killFg = FALSE]
           b == KillBody(c, c.current)
           t == schedule(s)
<1>1. s \in SchedState
  BY CoreParts
<1>2. /\ c \in SchedState
      /\ c.status = s.status /\ c.current = s.current /\ c.remaining = s.remaining
      /\ c.prio = s.prio /\ c.parent = s.parent /\ c.waitFor = s.waitFor
      /\ c.ready = s.ready /\ c.blocked = s.blocked /\ c.zombies = s.zombies
      /\ c.nextUnused = s.nextUnused /\ c.num = s.num
  BY <1>1 DEF SchedState
<1>3. t = IF (s.killFg /\ s.stdin[s.current] = "STDIN") /\ Killable(c, c.current)
            THEN Dispatch(DropQuantum(b)) ELSE Dispatch(c)
  BY DEF schedule, KillCurrentInSchedule
<1> HIDE DEF c, t
<1>4. Core(c) /\ Kept(s, c)
  <2>1. OneRunning(c)
    BY <1>2 DEF Core, OneRunning
  <2>2. QED
    BY <2>1, <1>2, CoreRun
<1>5. CASE t = Dispatch(c)
  <2>1. Alive(c, c.current) \/ c.remaining <= 1
    BY <1>2 DEF Alive
  <2>2. Core(t) /\ Kept(c, t) /\ Alive(t, t.current)
    BY <1>4, <1>5, <2>1, DispatchCore
  <2>3. t \in SchedState
    BY <2>2, CoreParts
  <2>4. QED
    BY <1>1, <1>2, <1>4, <2>2, <2>3, KeptTransitive DEF Sane, t
<1>6. CASE t = Dispatch(DropQuantum(b))
  <2>1. c.current \in Pid
    BY <1>4, CoreParts
  <2>2. Core(b) /\ Kept(c, b)
    BY <1>4, <2>1, KillBodyCore
  <2> HIDE DEF b
  <2>3. Sane(t) /\ Kept(b, t)
    BY <1>6, <2>2, DropThenDispatch
  <2>4. b \in SchedState /\ t \in SchedState
    BY <2>2, <2>3, CoreParts DEF Sane
  <2>5. Kept(c, t)
    BY <1>2, <2>2, <2>3, <2>4, KeptTransitive
  <2>6. Kept(s, t)
    BY <1>1, <1>2, <1>4, <2>4, <2>5, KeptTransitive
  <2>7. QED
    BY <2>3, <2>6 DEF t
<1>7. QED
  BY <1>3, <1>5, <1>6

LEMMA YieldCore ==
  ASSUME NEW s, Core(s)
  PROVE  LET t == yield(s)
         IN  Sane(t) /\ Kept(s, t)
<1> DEFINE d == DropQuantum(s)
           t == yield(s)
<1>1. Core(d) /\ Kept(s, d) /\ d.remaining <= 1
  BY DropQuantumCore
<1>2. t = schedule(d)
  BY DEF yield
<1> HIDE DEF d, t
<1>3. Sane(t) /\ Kept(d, t)
  BY <1>1, <1>2, ScheduleCore
<1>4. s \in SchedState /\ d \in SchedState /\ t \in SchedState
  BY <1>1, <1>3, CoreParts DEF Sane
<1>5. Kept(s, t)
  BY <1>1, <1>3, <1>4, KeptTransitive
<1>6. QED
  BY <1>3, <1>5 DEF t

LEMMA KillProcessCore ==
  ASSUME NEW s, Sane(s), NEW p \in Pid
  PROVE  LET t == kill_process(s, p)
         IN  Sane(t) /\ Kept(s, t)
<1> DEFINE b == KillBody(s, p)
           t == kill_process(s, p)
<1>1. Core(s) /\ Alive(s, s.current) /\ s \in SchedState /\ s.current \in Pid
  BY CoreParts DEF Sane
<1>2. Core(b) /\ Kept(s, b) /\ (p # s.current => Alive(b, b.current))
  BY <1>1, KillBodyCore
<1>3. t = IF Killable(s, p) /\ p = s.current THEN yield(b) ELSE b
  BY DEF kill_process
<1>4. ~ Killable(s, p) => b = s
  BY DEF KillBody
<1> HIDE DEF b, t
<1>5. CASE t = yield(b)
  <2>1. Sane(t) /\ Kept(b, t)
    BY <1>2, <1>5, YieldCore
  <2>2. b \in SchedState /\ t \in SchedState
    BY <1>2, <2>1, CoreParts DEF Sane
  <2>3. QED
    BY <1>1, <1>2, <2>1, <2>2, KeptTransitive DEF t
<1>6. CASE t = b /\ ~ (Killable(s, p) /\ p = s.current)
  BY <1>1, <1>2, <1>4, <1>6 DEF Sane, t
<1>7. QED
  BY <1>3, <1>5, <1>6

(* The part of the invariant that holds before idle is created too.        *)
Table(s) ==
  /\ s \in SchedState
  /\ ReadyQueuesExact(s) /\ BlockedQueueExact(s) /\ ZombieListsExact(s)
  /\ OneRunning(s) /\ SlotsCounted(s)

(* What create_process leaves: the new process, and no other changed.      *)
CreateResult(s, t) ==
  \/ t = s
  \/ /\ s.status[s.nextUnused] = "FREE"
     /\ t.status = [s.status EXCEPT ![s.nextUnused] = "READY"]
     /\ \A c \in Pid \ {s.nextUnused} : t.parent[c] = s.parent[c] /\ t.waitFor[c] = s.waitFor[c]
     /\ t.current = s.current

LEMMA CreateTable ==
  ASSUME NEW s, Table(s), NEW pr \in Prio, NEW si \in Stdin, ~ CreateLoops(s)
  PROVE  LET t == create_process(s, pr, si)
         IN  /\ Table(t) /\ CreateResult(s, t)
             /\ s.nextUnused = IDLE /\ s.num < MaxProcesses => IdleAlive(t)
             /\ IdleAlive(s) => IdleAlive(t)
<1> DEFINE p  == s.nextUnused
           a  == AddProcess(s, pr, si)
           nx == CHOOSE c \in NextUnused(a) : TRUE
           nu == a.num + 1
           t  == create_process(s, pr, si)
           re == [s.ready EXCEPT ![pr] = IF p = IDLE THEN @ ELSE list_append(@, p)]
<1>1. s \in SchedState /\ s.status[p] = "FREE" /\ s.num = Cardinality(Live(s))
  BY DEF Table, SlotsCounted
<1>2. /\ p \in Pid /\ s.status \in [Pid -> Status] /\ s.ready \in [Prio -> Seq(Pid)]
      /\ s.parent \in [Pid -> Pid] /\ s.waitFor \in [Pid -> Pid]
      /\ s.zombies \in [Pid -> Seq(Pid)] /\ s.prio \in [Pid -> Prio] /\ IDLE \in Pid
  <2>1. IDLE \in Pid
    BY MaxProcessesAssumption DEF IDLE, Pid
  <2>2. QED
    BY <1>1, <2>1 DEF SchedState
<1>3. a \in SchedState
  BY <1>1, AddType
<1>4. /\ a.status = [s.status EXCEPT ![p] = "READY"] /\ a.prio = [s.prio EXCEPT ![p] = pr]
      /\ a.parent = [s.parent EXCEPT ![p] = s.current]
      /\ a.waitFor = [s.waitFor EXCEPT ![p] = NoPid]
      /\ a.zombies = [s.zombies EXCEPT ![p] = << >>]
      /\ a.ready = re /\ a.blocked = s.blocked /\ a.current = s.current
      /\ a.nextUnused = p /\ a.num = s.num
  BY <1>1 DEF AddProcess, SchedState
<1>5. nx \in Free(a)
  <2>1. NextUnused(a) # {}
    BY <1>1, AddNextUnused DEF CreateLoops
  <2>2. QED
    BY <2>1 DEF NextUnused
<1>6. t \in SchedState
  BY <1>1, CreateType
<1>7. t = IF s.num >= MaxProcesses THEN s ELSE [a EXCEPT !.nextUnused = nx, !.num = nu]
  BY DEF create_process
<1>8. CASE s.num >= MaxProcesses
  <2>1. s.num \in Int
    BY <1>1 DEF SchedState
  <2>2. t = s
    BY <1>7, <1>8
  <2>3. QED
    BY <2>1, <2>2, <1>8, MaxProcessesAssumption DEF CreateResult
<1>9. CASE ~ (s.num >= MaxProcesses)
  <2> HIDE DEF a, t, re, nx
  <2>1. /\ t.status = a.status /\ t.prio = a.prio /\ t.parent = a.parent /\ t.waitFor = a.waitFor
        /\ t.zombies = a.zombies /\ t.ready = a.ready /\ t.blocked = a.blocked
        /\ t.current = a.current /\ t.nextUnused = nx /\ t.num = a.num + 1
    BY <1>3, <1>7, <1>9 DEF SchedState
  <2>2. ReadyQueuesExact(t)
    <3> SUFFICES ASSUME NEW l \in Prio
                 PROVE  Exactly(t.ready[l], Runnable(t, l))
      BY DEF ReadyQueuesExact
    <3>1. Exactly(s.ready[l], Runnable(s, l)) /\ s.ready[l] \in Seq(Pid)
      BY <1>2 DEF Table, ReadyQueuesExact
    <3>2. p \notin Runnable(s, l)
      BY <1>1 DEF Runnable
    <3>3. CASE l = pr /\ p # IDLE
      <4>1. t.ready[l] = list_append(s.ready[l], p)
        BY <2>1, <1>2, <1>4, <3>3 DEF re
      <4>2. Runnable(t, l) = Runnable(s, l) \cup {p}
        BY <2>1, <1>2, <1>4, <3>3 DEF Runnable
      <4>3. Exactly(list_append(s.ready[l], p), Runnable(s, l) \cup {p})
        <5> HIDE DEF p
        <5>1. QED
          BY <3>1, <3>2, <1>2, ExactAppend
      <4>4. QED
        BY <4>1, <4>2, <4>3
    <3>4. CASE ~ (l = pr /\ p # IDLE)
      <4>1. t.ready[l] = s.ready[l]
        BY <2>1, <1>2, <1>4, <3>4 DEF re
      <4>2. Runnable(t, l) = Runnable(s, l)
        BY <2>1, <1>1, <1>2, <1>4, <3>4 DEF Runnable
      <4>3. QED
        BY <4>1, <4>2, <3>1
    <3>5. QED
      BY <3>3, <3>4
  <2>3. BlockedQueueExact(t)
    <3>1. Blocked(t) = Blocked(s)
      BY <2>1, <1>1, <1>2, <1>4 DEF Blocked
    <3>2. QED
      BY <3>1, <2>1, <1>4 DEF Table, BlockedQueueExact
  <2>4. ZombieListsExact(t)
    <3> SUFFICES ASSUME NEW q \in Pid
                 PROVE  /\ Exactly(t.zombies[q], ZombiesOf(t, q))
                        /\ t.zombies[q] # << >> => Alive(t, q)
      BY DEF ZombieListsExact
    <3>1. /\ Exactly(s.zombies[q], ZombiesOf(s, q))
          /\ s.zombies[q] # << >> => Alive(s, q)
      BY DEF Table, ZombieListsExact
    <3>2. ZombiesOf(t, q) = ZombiesOf(s, q)
      BY <2>1, <1>1, <1>2, <1>4 DEF ZombiesOf
    <3>3. Alive(s, q) => Alive(t, q)
      BY <2>1, <1>2, <1>4 DEF Alive
    <3>4. t.zombies[q] = s.zombies[q]
      BY <2>1, <1>1, <1>2, <1>4, <3>1 DEF Alive
    <3>5. QED
      BY <3>1, <3>2, <3>3, <3>4
  <2>5. OneRunning(t)
    BY <2>1, <1>2, <1>4 DEF Table, OneRunning
  <2>6. SlotsCounted(t)
    <3>1. Live(t) = Live(s) \cup {p} /\ p \notin Live(s)
      BY <2>1, <1>1, <1>2, <1>4 DEF Live
    <3>2. Cardinality(Live(t)) = Cardinality(Live(s)) + 1
      BY <3>1, LiveFinite, FS_AddElement
    <3>3. t.status[t.nextUnused] = "FREE"
      BY <2>1, <1>5 DEF Free, Live
    <3>4. QED
      BY <3>2, <3>3, <2>1, <1>1, <1>4 DEF SlotsCounted
  <2>7. Table(t)
    BY <1>6, <2>2, <2>3, <2>4, <2>5, <2>6 DEF Table
  <2>8. CreateResult(s, t)
    BY <2>1, <1>1, <1>2, <1>4 DEF CreateResult
  <2>9. /\ s.nextUnused = IDLE => IdleAlive(t)
        /\ IdleAlive(s) => IdleAlive(t)
    BY <2>1, <1>2, <1>4 DEF IdleAlive
  <2>10. QED
    BY <2>7, <2>8, <2>9 DEF t
<1>10. QED
  BY <1>8, <1>9

LEMMA CoreIsTable ==
  ASSUME NEW s
  PROVE  Core(s) <=> Table(s) /\ IdleAlive(s)
BY DEF Core, Table

(* The state that waitpid leaves when the child it frees is a zombie of    *)
(* the caller.                                                             *)
LEMMA WaitFinishCore ==
  ASSUME NEW s, Sane(s), s.status[s.waitFor[s.current]] = "ZOMBIE",
         s.parent[s.waitFor[s.current]] = s.current
  PROVE  LET t == WaitFinish(s)
             c == s.waitFor[s.current]
         IN  /\ Sane(t) /\ t.current = s.current
             /\ t.status = [s.status EXCEPT ![c] = "FREE"]
             /\ \A r \in Pid \ {c} : t.parent[r] = s.parent[r]
             /\ \A r \in Pid \ {c, s.current} : t.waitFor[r] = s.waitFor[r]
<1> DEFINE q  == s.current
           c  == s.waitFor[q]
           f  == FreeSlots(s, {c})
           zo == [s.zombies EXCEPT ![q] = list_remove(s.zombies[q], c)]
           m  == [s EXCEPT !.zombies = zo]
           t  == WaitFinish(s)
<1>1. Core(s) /\ s \in SchedState /\ q \in Pid
  BY CoreParts DEF Sane
<1>2. c \in Pid /\ s.zombies \in [Pid -> Seq(Pid)] /\ s.status \in [Pid -> Status]
  BY <1>1 DEF SchedState
<1>3. t \in SchedState
  BY <1>1, WaitFinishType
<1>4. zo \in [Pid -> Seq(Pid)]
  BY <1>1, <1>2, RemoveType
<1>5. f \in SchedState
  BY <1>1, <1>2, FreeSlotsType
<1>6. /\ f.status = [r \in Pid |-> IF r \in {c} THEN "FREE" ELSE s.status[r]]
      /\ f.prio = [r \in Pid |-> IF r \in {c} THEN 0 ELSE s.prio[r]]
      /\ f.parent = [r \in Pid |-> IF r \in {c} THEN 0 ELSE s.parent[r]]
      /\ f.waitFor = [r \in Pid |-> IF r \in {c} THEN NoPid ELSE s.waitFor[r]]
      /\ f.ready = s.ready /\ f.blocked = s.blocked /\ f.zombies = s.zombies
      /\ f.current = s.current /\ f.nextUnused = s.nextUnused /\ f.num = s.num
  BY <1>1 DEF FreeSlots, SchedState
<1>7. t = [f EXCEPT !.zombies[q] = list_remove(s.zombies[q], c), !.num = @ - 1,
                    !.waitFor[q] = NoPid, !.fg = NoPid]
  BY DEF WaitFinish
<1> HIDE DEF f
<1>8. /\ t.status = f.status /\ t.prio = f.prio /\ t.parent = f.parent
      /\ t.waitFor = [f.waitFor EXCEPT ![q] = NoPid]
      /\ t.ready = f.ready /\ t.blocked = f.blocked /\ t.current = f.current
      /\ t.nextUnused = f.nextUnused /\ t.num = f.num - 1 /\ t.zombies = zo
  <2> HIDE DEF t
  <2>1. QED
    BY <1>5, <1>6, <1>7 DEF SchedState
<1> HIDE DEF zo
<1>9. /\ m \in SchedState
      /\ m.status = s.status /\ m.prio = s.prio /\ m.parent = s.parent
      /\ m.zombies = zo /\ m.ready = s.ready /\ m.blocked = s.blocked
      /\ m.current = s.current /\ m.nextUnused = s.nextUnused /\ m.num = s.num
  BY <1>1, <1>4 DEF SchedState
<1> HIDE DEF m, t, c
<1>10. Marked(m, c)
  <2>1. ReadyQueuesExact(m)
    <3>1. \A l \in Prio : Runnable(m, l) = Runnable(s, l)
      BY <1>9 DEF Runnable
    <3>2. QED
      BY <3>1, <1>1, <1>9 DEF Core, ReadyQueuesExact
  <2>2. BlockedQueueExact(m)
    <3>1. Blocked(m) = Blocked(s)
      BY <1>9 DEF Blocked
    <3>2. QED
      BY <3>1, <1>1, <1>9 DEF Core, BlockedQueueExact
  <2>3. ZombieListsBut(m, c)
    <3> SUFFICES ASSUME NEW r \in Pid
                 PROVE  /\ Exactly(m.zombies[r], ZombiesOf(m, r) \ {c})
                        /\ m.zombies[r] # << >> => Alive(m, r)
      BY DEF ZombieListsBut
    <3>1. /\ Exactly(s.zombies[r], ZombiesOf(s, r))
          /\ s.zombies[r] # << >> => Alive(s, r)
      BY <1>1 DEF Core, ZombieListsExact
    <3>2. ZombiesOf(m, r) = ZombiesOf(s, r) /\ (Alive(m, r) <=> Alive(s, r))
      BY <1>9 DEF ZombiesOf, Alive
    <3>3. CASE r = q
      <4>1. m.zombies[r] = list_remove(s.zombies[r], c)
        BY <1>2, <1>9, <3>3 DEF zo, c
      <4>2. s.zombies[r] \in Seq(Pid)
        BY <1>2
      <4>3. Exactly(m.zombies[r], ZombiesOf(s, r) \ {c})
        BY <4>1, <4>2, <3>1, ExactRemove
      <4>4. Alive(s, r)
        BY <3>3 DEF Sane
      <4>5. QED
        BY <4>3, <4>4, <3>2
    <3>4. CASE r # q
      <4>1. m.zombies[r] = s.zombies[r]
        BY <1>2, <1>9, <3>4 DEF zo
      <4>2. c \notin ZombiesOf(s, r)
        BY <3>4 DEF ZombiesOf, c
      <4>3. ZombiesOf(m, r) \ {c} = ZombiesOf(s, r)
        BY <3>2, <4>2
      <4>4. QED
        BY <4>1, <4>3, <3>1, <3>2
    <3>5. QED
      BY <3>3, <3>4
  <2>4. IdleAlive(m) /\ OneRunning(m)
    BY <1>1, <1>9 DEF Core, IdleAlive, OneRunning
  <2>5. SlotsCounted(m)
    <3>1. Live(m) = Live(s)
      BY <1>9 DEF Live
    <3>2. QED
      BY <3>1, <1>1, <1>9 DEF Core, SlotsCounted
  <2>6. m.status[c] = "ZOMBIE"
    BY <1>9 DEF c
  <2>7. QED
    BY <1>9, <2>1, <2>2, <2>3, <2>4, <2>5, <2>6 DEF Marked
<1>11. \A r \in Pid \ {c} : /\ t.status[r] = m.status[r] /\ t.prio[r] = m.prio[r]
                            /\ t.parent[r] = m.parent[r]
  BY <1>6, <1>8, <1>9
<1>12. t.status[c] = "FREE" /\ t.status = [s.status EXCEPT ![c] = "FREE"]
  <2>1. c \in Pid
    BY <1>2 DEF c
  <2>2. QED
    BY <2>1, <1>2, <1>6, <1>8
<1>13. Core(t)
  <2>1. /\ t.ready = m.ready /\ t.blocked = m.blocked /\ t.zombies = m.zombies
        /\ t.current = m.current /\ t.nextUnused = m.nextUnused /\ t.num = m.num - 1
    BY <1>6, <1>8, <1>9
  <2>2. c \in Pid
    BY <1>2 DEF c
  <2>3. t.status[c] = "FREE"
    BY <1>12
  <2>4. \A x \in Pid \ {c} : /\ t.status[x] = m.status[x] /\ t.prio[x] = m.prio[x]
                             /\ t.parent[x] = m.parent[x]
    BY <1>11
  <2>5. \A u \in SchedState :
          /\ u.status[c] = "FREE"
          /\ \A x \in Pid \ {c} : /\ u.status[x] = m.status[x] /\ u.prio[x] = m.prio[x]
                                  /\ u.parent[x] = m.parent[x]
          /\ u.ready = m.ready /\ u.blocked = m.blocked /\ u.zombies = m.zombies
          /\ u.current = m.current /\ u.nextUnused = m.nextUnused /\ u.num = m.num - 1
          => Core(u)
    BY <1>10, <2>2, FreeMarkedCore
  <2>6. QED
    BY <1>3, <2>1, <2>3, <2>4, <2>5
<1>14. t.current = q /\ q # c
  BY <1>6, <1>8 DEF Sane, Alive, c
<1>15. Sane(t)
  BY <1>1, <1>2, <1>12, <1>13, <1>14 DEF Sane, Alive
<1>16. \A r \in Pid \ {c, q} : t.waitFor[r] = s.waitFor[r]
  BY <1>6, <1>8
<1>17. QED
  BY <1>9, <1>11, <1>12, <1>14, <1>15, <1>16 DEF t, c

-----------------------------------------------------------------------------
(* The invariant of the system: between two steps the scheduler state is   *)
(* sane, and a process inside waitpid waits for a child of its own.        *)

WaitsForChild(s, p) ==
  LET c == s.waitFor[p]
  IN  /\ Alive(s, p)
      /\ s.status[c] # "FREE"
      /\ s.parent[c] = p
      /\ "wake_waiter" \notin Calls /\ s.status[p] = "BLOCKED" => s.status[c] # "ZOMBIE"

WaitOK(s, w) == \A p \in Pid : w[p] = "waitpid" => WaitsForChild(s, p)

SystemInv == TypeOK /\ Sane(k) /\ WaitOK(k, at)

(* What a step does to a process that is dead before it. *)
NoneRisen(s, t) == \A p \in Pid : ~ Alive(s, p) => t.status[p] # "RUNNING"

LEMMA WaitKept ==
  ASSUME NEW s \in SchedState, NEW t \in SchedState, Kept(s, t),
         NEW w \in [Pid -> Where], WaitOK(s, w)
  PROVE  WaitOK(t, AtAfter(t, w)) /\ NoneRisen(s, t)
<1>1. ASSUME NEW p \in Pid, AtAfter(t, w)[p] = "waitpid" PROVE WaitsForChild(t, p)
  <2> DEFINE c == s.waitFor[p]
  <2>1. w[p] = "waitpid" /\ Alive(t, p)
    BY <1>1 DEF AtAfter, Alive
  <2>2. s.status[c] # "FREE" /\ s.parent[c] = p /\ WaitsForChild(s, p)
    BY <2>1 DEF WaitOK, WaitsForChild
  <2>3. c \in Pid
    BY DEF SchedState
  <2>4. t.waitFor[p] = c
    BY <2>1 DEF Kept
  <2>5. t.status[c] # "FREE"
    BY <2>1, <2>2, <2>3 DEF Kept
  <2>6. t.parent[c] = p
    BY <2>2, <2>3, <2>5 DEF Kept
  <2>7. ASSUME t.status[p] = "BLOCKED", t.status[c] = "ZOMBIE"
        PROVE  s.status[c] = "ZOMBIE" /\ s.status[p] = "BLOCKED"
    BY <2>3, <2>4, <2>6, <2>7 DEF Kept
  <2>8. QED
    BY <2>1, <2>2, <2>4, <2>5, <2>6, <2>7 DEF WaitsForChild
<1>2. NoneRisen(s, t)
  BY DEF NoneRisen, Kept, Alive
<1>3. QED
  BY <1>1, <1>2 DEF WaitOK

(* A step whose effect on the processes is within Kept keeps the invariant.*)
LEMMA KeptStep ==
  ASSUME SystemInv, NEW t, Sane(t), Kept(k, t), Step(t)
  PROVE  Sane(k') /\ WaitOK(k', at') /\ NoneRisen(k, k')
<1>1. t \in SchedState /\ k \in SchedState /\ at \in [Pid -> Where]
  BY CoreParts DEF Sane, SystemInv, TypeOK
<1>2. WaitOK(t, AtAfter(t, at)) /\ NoneRisen(k, t)
  BY <1>1, WaitKept DEF SystemInv
<1>3. k' = t /\ at' = AtAfter(t, at)
  BY DEF Step
<1>4. QED
  BY <1>2, <1>3

LEMMA MakeBlockedFrame ==
  ASSUME NEW s \in SchedState, NEW p \in Pid
  PROVE  LET t == set_status(s, p, "BLOCKED")
         IN  /\ t.parent = s.parent /\ t.waitFor = s.waitFor /\ t.current = s.current
             /\ \A c \in Pid \ {p} : t.status[c] = s.status[c]
             /\ \/ t.status[p] = s.status[p]
                \/ Alive(s, p) /\ t.status[p] = "BLOCKED"
<1>1. CASE set_status(s, p, "BLOCKED") = s
  BY <1>1
<1>2. CASE /\ set_status(s, p, "BLOCKED") = BlockProcess(s, p)
           /\ s.status[p] \notin {"FREE", "ZOMBIE"}
  <2> DEFINE t == BlockProcess(s, p)
  <2>1. /\ t.status = [s.status EXCEPT ![p] = "BLOCKED"]
        /\ t.parent = s.parent /\ t.waitFor = s.waitFor /\ t.current = s.current
    BY DEF BlockProcess, SchedState
  <2>2. s.status \in [Pid -> Status]
    BY DEF SchedState
  <2> HIDE DEF t
  <2>3. QED
    BY <1>2, <2>1, <2>2 DEF t, Alive
<1>3. QED
  BY <1>1, <1>2 DEF set_status

(* Any call may block any process that is not inside waitpid.              *)
LEMMA BlockStep ==
  ASSUME SystemInv, NEW p \in Pid, Block(p)
  PROVE  Sane(k') /\ WaitOK(k', at') /\ NoneRisen(k, k')
<1> DEFINE t == set_status(k, p, "BLOCKED")
<1>1. k \in SchedState /\ at \in [Pid -> Where] /\ Core(k) /\ Alive(k, k.current) /\ k.current \in Pid
  BY DEF SystemInv, TypeOK, Sane, SchedState
<1>2. k' = t /\ at' = AtAfter(t, at)
  BY DEF Block, Step
<1>3. Core(t)
  BY <1>1, MakeBlockedCore
<1>4. /\ t.parent = k.parent /\ t.waitFor = k.waitFor /\ t.current = k.current
      /\ \A c \in Pid \ {p} : t.status[c] = k.status[c]
      /\ \/ t.status[p] = k.status[p]
         \/ Alive(k, p) /\ t.status[p] = "BLOCKED"
  BY <1>1, MakeBlockedFrame
<1> HIDE DEF t
<1>5. \A c \in Pid : /\ Alive(t, c) <=> Alive(k, c)
                     /\ t.status[c] = "FREE" <=> k.status[c] = "FREE"
                     /\ t.status[c] = "ZOMBIE" <=> k.status[c] = "ZOMBIE"
  BY <1>4 DEF Alive
<1>6. Sane(t)
  BY <1>1, <1>3, <1>4, <1>5 DEF Sane
<1>7. ASSUME NEW q \in Pid, AtAfter(t, at)[q] = "waitpid" PROVE WaitsForChild(t, q)
  <2>1. at[q] = "waitpid"
    BY <1>7 DEF AtAfter
  <2>2. WaitsForChild(k, q) /\ k.waitFor[q] \in Pid
    BY <1>1, <2>1 DEF SystemInv, WaitOK, SchedState
  <2>3. "wake_waiter" \in Calls \/ q # p
    BY <2>1 DEF Block
  <2>4. QED
    BY <1>4, <1>5, <2>2, <2>3 DEF WaitsForChild
<1>8. NoneRisen(k, t)
  BY <1>5 DEF NoneRisen, Alive
<1>9. QED
  BY <1>2, <1>6, <1>7, <1>8 DEF WaitOK

LEMMA CreateStep ==
  ASSUME SystemInv, NEW pr \in Prio, NEW si \in ChildStdin, Create(pr, si)
  PROVE  Sane(k') /\ WaitOK(k', at') /\ NoneRisen(k, k')
<1> DEFINE t == create_process(k, pr, si)
<1>1. k \in SchedState /\ at \in [Pid -> Where] /\ Core(k) /\ Alive(k, k.current) /\ k.current \in Pid
  BY DEF SystemInv, TypeOK, Sane, SchedState
<1>2. k' = t /\ at' = AtAfter(t, at) /\ ~ CreateLoops(k) /\ si \in Stdin
  BY ChildStdinAssumption DEF Create, Step
<1>3. Table(t) /\ CreateResult(k, t) /\ IdleAlive(t)
  BY <1>1, <1>2, CoreIsTable, CreateTable
<1> HIDE DEF t
<1>4. Core(t)
  BY <1>3, CoreIsTable
<1>5. CASE t = k
  BY <1>1, <1>2, <1>5 DEF SystemInv, WaitOK, AtAfter, NoneRisen, Alive
<1>6. CASE /\ k.status[k.nextUnused] = "FREE"
           /\ t.status = [k.status EXCEPT ![k.nextUnused] = "READY"]
           /\ \A c \in Pid \ {k.nextUnused} : /\ t.parent[c] = k.parent[c]
                                              /\ t.waitFor[c] = k.waitFor[c]
           /\ t.current = k.current
  <2> DEFINE n == k.nextUnused
  <2>1. n \in Pid /\ k.status \in [Pid -> Status]
    BY <1>1 DEF SchedState
  <2>2. /\ t.status[n] = "READY"
        /\ \A c \in Pid \ {n} : t.status[c] = k.status[c]
    BY <1>6, <2>1
  <2>3. Sane(t)
    BY <1>1, <1>4, <1>6, <2>2 DEF Sane, Alive
  <2>4. ASSUME NEW q \in Pid, AtAfter(t, at)[q] = "waitpid" PROVE WaitsForChild(t, q)
    <3>1. at[q] = "waitpid"
      BY <2>4 DEF AtAfter
    <3>2. WaitsForChild(k, q) /\ k.waitFor[q] \in Pid
      BY <1>1, <3>1 DEF SystemInv, WaitOK, SchedState
    <3>3. q # n /\ k.waitFor[q] # n
      BY <1>6, <3>2 DEF WaitsForChild, Alive
    <3>4. QED
      BY <1>6, <2>2, <3>2, <3>3 DEF WaitsForChild, Alive
  <2>5. NoneRisen(k, t)
    BY <2>2 DEF NoneRisen, Alive
  <2>6. QED
    BY <1>2, <2>3, <2>4, <2>5 DEF WaitOK
<1>7. QED
  BY <1>3, <1>5, <1>6 DEF CreateResult

LEMMA WaitBeginCore ==
  ASSUME NEW s, Core(s), NEW p \in Pid
  PROVE  LET t == WaitBegin(s, p)
         IN  /\ Core(t)
             /\ t.status = s.status /\ t.parent = s.parent /\ t.current = s.current
             /\ t.waitFor = [s.waitFor EXCEPT ![s.current] = p]
<1> DEFINE t == WaitBegin(s, p)
<1>1. s \in SchedState
  BY CoreParts
<1>2. t \in SchedState
  BY <1>1, WaitBeginType
<1>3. /\ t.status = s.status /\ t.parent = s.parent /\ t.current = s.current
      /\ t.waitFor = [s.waitFor EXCEPT ![s.current] = p]
      /\ t.prio = s.prio /\ t.ready = s.ready /\ t.blocked = s.blocked /\ t.zombies = s.zombies
      /\ t.num = s.num /\ t.nextUnused = s.nextUnused
  BY <1>1 DEF WaitBegin, SchedState
<1> HIDE DEF t
<1>4. /\ \A l \in Prio : Runnable(t, l) = Runnable(s, l)
      /\ Blocked(t) = Blocked(s) /\ Live(t) = Live(s)
      /\ \A q \in Pid : ZombiesOf(t, q) = ZombiesOf(s, q) /\ (Alive(t, q) <=> Alive(s, q))
  BY <1>3 DEF Runnable, Blocked, Live, ZombiesOf, Alive
<1>5. ReadyQueuesExact(t) /\ BlockedQueueExact(t)
  BY <1>3, <1>4 DEF Core, ReadyQueuesExact, BlockedQueueExact
<1>6. ZombieListsExact(t)
  BY <1>3, <1>4 DEF Core, ZombieListsExact
<1>7. IdleAlive(t) /\ OneRunning(t) /\ SlotsCounted(t)
  BY <1>3, <1>4 DEF Core, IdleAlive, OneRunning, SlotsCounted
<1>8. QED
  BY <1>2, <1>3, <1>5, <1>6, <1>7 DEF Core, t

(* waitpid frees a zombie of the caller: no other process waits for it.    *)
LEMMA FinishStep ==
  ASSUME SystemInv, NEW p \in Pid,
         k.status[p] = "ZOMBIE", k.parent[p] = k.current,
         NEW s, Sane(s), s.status = k.status, s.parent = k.parent, s.current = k.current,
         s.waitFor[k.current] = p,
         \A r \in Pid \ {k.current} : s.waitFor[r] = k.waitFor[r],
         k' = WaitFinish(s),
         at'[k.current] = "user",
         \A r \in Pid \ {k.current} : at'[r] = "waitpid" => at[r] = "waitpid"
  PROVE  Sane(k') /\ WaitOK(k', at') /\ NoneRisen(k, k')
<1> DEFINE t == WaitFinish(s)
           q == k.current
<1>1. k.status \in [Pid -> Status] /\ q \in Pid /\ k.waitFor \in [Pid -> Pid]
  BY DEF SystemInv, TypeOK, SchedState
<1>2. /\ Sane(t) /\ t.current = q
      /\ t.status = [k.status EXCEPT ![p] = "FREE"]
      /\ \A r \in Pid \ {p} : t.parent[r] = k.parent[r]
      /\ \A r \in Pid \ {p, q} : t.waitFor[r] = k.waitFor[r]
  <2>1. s.status[s.waitFor[s.current]] = "ZOMBIE" /\ s.parent[s.waitFor[s.current]] = s.current
        /\ s.waitFor[s.current] = p
    OBVIOUS
  <2> HIDE DEF t
  <2>2. /\ Sane(t) /\ t.current = s.current
        /\ t.status = [s.status EXCEPT ![p] = "FREE"]
        /\ \A r \in Pid \ {p} : t.parent[r] = s.parent[r]
        /\ \A r \in Pid \ {p, s.current} : t.waitFor[r] = s.waitFor[r]
    BY <2>1, WaitFinishCore DEF t
  <2>3. QED
    BY <2>2
<1> HIDE DEF t
<1>3. ASSUME NEW r \in Pid, at'[r] = "waitpid" PROVE WaitsForChild(t, r)
  <2>1. r # q /\ at[r] = "waitpid"
    BY <1>3
  <2>2. WaitsForChild(k, r) /\ k.waitFor[r] \in Pid
    BY <1>1, <2>1 DEF SystemInv, WaitOK
  <2>3. r # p /\ k.waitFor[r] # p
    BY <2>1, <2>2 DEF WaitsForChild, Alive
  <2>4. t.waitFor[r] = k.waitFor[r] /\ t.status[r] = k.status[r]
    BY <1>1, <1>2, <2>1, <2>3
  <2>5. t.status[k.waitFor[r]] = k.status[k.waitFor[r]] /\ t.parent[k.waitFor[r]] = k.parent[k.waitFor[r]]
    BY <1>1, <1>2, <2>2, <2>3
  <2>6. QED
    BY <2>2, <2>4, <2>5 DEF WaitsForChild, Alive
<1>4. NoneRisen(k, t)
  BY <1>1, <1>2 DEF NoneRisen, Alive
<1>5. k' = t
  BY DEF t
<1>6. QED
  BY <1>2, <1>3, <1>4, <1>5 DEF WaitOK

LEMMA WaitpidBlockStep ==
  ASSUME SystemInv, NEW p \in Pid, WaitpidBlock(p)
  PROVE  Sane(k') /\ WaitOK(k', at') /\ NoneRisen(k, k')
<1> DEFINE q == k.current
           a == WaitBegin(k, p)
           b == set_status(a, q, "BLOCKED")
           w == [at EXCEPT ![q] = "waitpid"]
<1>1. k \in SchedState /\ at \in [Pid -> Where] /\ Core(k) /\ Alive(k, q) /\ q \in Pid
  BY DEF SystemInv, TypeOK, Sane, SchedState
<1>2. /\ k' = yield(b) /\ at' = AtAfter(k', w)
      /\ k.status[p] \notin {"FREE", "ZOMBIE"} /\ k.parent[p] = q
  BY DEF WaitpidBlock, WaitBlock, OwnChild
<1>3. /\ Core(a) /\ a.status = k.status /\ a.parent = k.parent /\ a.current = q
      /\ a.waitFor = [k.waitFor EXCEPT ![q] = p]
  BY <1>1, WaitBeginCore
<1> HIDE DEF a
<1>4. Core(b)
  BY <1>1, <1>3, MakeBlockedCore
<1>5. /\ b.parent = k.parent /\ b.waitFor = [k.waitFor EXCEPT ![q] = p]
      /\ \A c \in Pid \ {q} : b.status[c] = k.status[c]
      /\ \/ b.status[q] = k.status[q]
         \/ Alive(k, q) /\ b.status[q] = "BLOCKED"
  <2>1. a \in SchedState
    BY <1>3, CoreParts
  <2>2. /\ b.parent = a.parent /\ b.waitFor = a.waitFor
        /\ \A c \in Pid \ {q} : b.status[c] = a.status[c]
        /\ \/ b.status[q] = a.status[q]
           \/ Alive(a, q) /\ b.status[q] = "BLOCKED"
    BY <1>1, <2>1, MakeBlockedFrame
  <2> HIDE DEF b
  <2>3. QED
    BY <1>3, <2>2 DEF Alive
<1> HIDE DEF b
<1>6. \A c \in Pid : /\ Alive(b, c) <=> Alive(k, c)
                     /\ b.status[c] = "FREE" <=> k.status[c] = "FREE"
                     /\ b.status[c] = "ZOMBIE" <=> k.status[c] = "ZOMBIE"
                     /\ c # q => b.status[c] = k.status[c]
  BY <1>5 DEF Alive
<1>7. w \in [Pid -> Where]
  BY <1>1 DEF Where
<1>8. WaitOK(b, w)
  <2> SUFFICES ASSUME NEW r \in Pid, w[r] = "waitpid"
               PROVE  WaitsForChild(b, r)
    BY DEF WaitOK
  <2>1. k.waitFor \in [Pid -> Pid]
    BY <1>1 DEF SchedState
  <2>2. CASE r = q
    <3>1. b.waitFor[r] = p
      BY <1>1, <1>5, <2>1, <2>2
    <3>2. QED
      BY <1>1, <1>2, <1>5, <1>6, <2>2, <3>1 DEF WaitsForChild
  <2>3. CASE r # q
    <3>1. at[r] = "waitpid"
      BY <1>1, <2>3
    <3>2. WaitsForChild(k, r) /\ k.waitFor[r] \in Pid
      BY <2>1, <3>1 DEF SystemInv, WaitOK
    <3>3. b.waitFor[r] = k.waitFor[r]
      BY <1>5, <2>1, <2>3
    <3>4. QED
      BY <1>5, <1>6, <2>3, <3>2, <3>3 DEF WaitsForChild
  <2>4. QED
    BY <2>2, <2>3
<1> HIDE DEF w
<1>9. Sane(k') /\ Kept(b, k')
  BY <1>2, <1>4, YieldCore
<1>10. b \in SchedState /\ k' \in SchedState
  BY <1>4, <1>9, CoreParts DEF Sane
<1>11. WaitOK(k', AtAfter(k', w)) /\ NoneRisen(b, k')
  BY <1>7, <1>8, <1>9, <1>10, WaitKept
<1>12. NoneRisen(k, k')
  BY <1>6, <1>11 DEF NoneRisen
<1>13. QED
  BY <1>2, <1>9, <1>11, <1>12

LEMMA CtrlCStep ==
  ASSUME SystemInv, CtrlC
  PROVE  Sane(k') /\ WaitOK(k', at') /\ NoneRisen(k, k')
<1> DEFINE t == [k EXCEPT !.killFg = TRUE]
<1>1. Core(k) /\ Alive(k, k.current) /\ k \in SchedState
  BY DEF SystemInv, TypeOK, Sane
<1>2. Core(t) /\ Kept(k, t) /\ t.current = k.current /\ t.status = k.status
  <2>1. t \in SchedState
    BY <1>1 DEF SchedState
  <2>2. /\ t.status = k.status /\ t.prio = k.prio /\ t.parent = k.parent /\ t.waitFor = k.waitFor
        /\ t.ready = k.ready /\ t.blocked = k.blocked /\ t.zombies = k.zombies
        /\ t.current = k.current /\ t.nextUnused = k.nextUnused /\ t.num = k.num
    BY <1>1 DEF SchedState
  <2> HIDE DEF t
  <2>3. OneRunning(t)
    BY <1>1, <2>2 DEF Core, OneRunning
  <2>4. Core(t) /\ Kept(k, t)
    BY <1>1, <2>1, <2>2, <2>3, CoreRun
  <2>5. QED
    BY <2>2, <2>4
<1>3. Sane(t)
  BY <1>1, <1>2 DEF Sane, Alive
<1>4. QED
  BY <1>2, <1>3, KeptStep DEF CtrlC

LEMMA WaitpidReturnStep ==
  ASSUME SystemInv, WaitpidReturn
  PROVE  Sane(k') /\ WaitOK(k', at') /\ NoneRisen(k, k')
<1> DEFINE q == k.current
           c == k.waitFor[q]
<1>1. /\ k \in SchedState /\ at \in [Pid -> Where] /\ Core(k) /\ Alive(k, q) /\ Sane(k)
      /\ q \in Pid /\ c \in Pid
  BY DEF SystemInv, TypeOK, Sane, SchedState
<1>2. CASE k.status[c] = "ZOMBIE"
  <2>1. k' = WaitFinish(k) /\ at' = [at EXCEPT ![q] = "user"]
    BY <1>2 DEF WaitpidReturn
  <2>2. at'[q] = "user" /\ \A r \in Pid \ {q} : at'[r] = "waitpid" => at[r] = "waitpid"
    BY <1>1, <2>1
  <2>3. k.parent[c] = q
    BY <1>1 DEF SystemInv, WaitOK, WaitsForChild, WaitpidReturn
  <2>4. QED
    BY <1>1, <1>2, <2>1, <2>2, <2>3, FinishStep
<1>3. CASE k.status[c] # "ZOMBIE"
  <2>1. k' = k /\ at' = at
    BY <1>3 DEF WaitpidReturn, Crash
  <2>2. QED
    BY <2>1 DEF SystemInv, NoneRisen, Alive
<1>4. QED
  BY <1>2, <1>3

LEMMA WaitpidZombieStep ==
  ASSUME SystemInv, NEW p \in Pid, WaitpidZombie(p)
  PROVE  Sane(k') /\ WaitOK(k', at') /\ NoneRisen(k, k')
<1> DEFINE q == k.current
           a == WaitBegin(k, p)
<1>1. /\ k \in SchedState /\ at \in [Pid -> Where] /\ Core(k) /\ Alive(k, q)
      /\ q \in Pid /\ k.waitFor \in [Pid -> Pid]
  BY DEF SystemInv, TypeOK, Sane, SchedState
<1>2. /\ k' = WaitFinish(a) /\ at' = AtAfter(k', at) /\ at[q] = "user"
      /\ k.status[p] = "ZOMBIE" /\ k.parent[p] = q
  BY DEF WaitpidZombie, Step, OwnChild, InUser, Interruptible
<1>3. /\ Core(a) /\ a.status = k.status /\ a.parent = k.parent /\ a.current = q
      /\ a.waitFor = [k.waitFor EXCEPT ![q] = p]
  BY <1>1, WaitBeginCore
<1> HIDE DEF a
<1>4. Sane(a)
  BY <1>1, <1>3 DEF Sane, Alive
<1>5. a.waitFor[q] = p /\ \A r \in Pid \ {q} : a.waitFor[r] = k.waitFor[r]
  BY <1>1, <1>3
<1>6. at'[q] = "user" /\ \A r \in Pid \ {q} : at'[r] = "waitpid" => at[r] = "waitpid"
  BY <1>1, <1>2 DEF AtAfter
<1>7. QED
  BY <1>2, <1>3, <1>4, <1>5, <1>6, FinishStep

LEMMA NextSystemInv ==
  ASSUME SystemInv, [Next]_vars
  PROVE  SystemInv' /\ NoneRisen(k, k')
<1>1. /\ k \in SchedState /\ Core(k) /\ Sane(k) /\ Alive(k, k.current) /\ k.current \in Pid
  BY DEF SystemInv, TypeOK, Sane, SchedState
<1>2. TypeOK'
  BY NextTypeOK DEF SystemInv
<1> SUFFICES Sane(k') /\ WaitOK(k', at') /\ NoneRisen(k, k')
  BY <1>2 DEF SystemInv
<1>3. CASE Boot
  <2>1. Sane(yield(k)) /\ Kept(k, yield(k))
    BY <1>1, YieldCore
  <2>2. QED
    BY <1>3, <2>1, KeptStep DEF Boot
<1>4. CASE Tick
  <2>1. Sane(schedule(k)) /\ Kept(k, schedule(k))
    BY <1>1, ScheduleCore
  <2>2. QED
    BY <1>4, <2>1, KeptStep DEF Tick
<1>5. CASE CtrlC
  BY <1>5, CtrlCStep
<1>6. ASSUME NEW pr \in Prio, NEW si \in ChildStdin, Create(pr, si)
      PROVE  Sane(k') /\ WaitOK(k', at') /\ NoneRisen(k, k')
  BY <1>6, CreateStep
<1>7. CASE CreateLast
  <2>1. k' = k /\ at' = at
    BY <1>7 DEF CreateLast, Crash
  <2>2. QED
    BY <2>1 DEF SystemInv, NoneRisen, Alive
<1>8. ASSUME NEW p \in Pid, Kill(p)
      PROVE  Sane(k') /\ WaitOK(k', at') /\ NoneRisen(k, k')
  <2>1. Sane(kill_process(k, p)) /\ Kept(k, kill_process(k, p))
    BY <1>1, KillProcessCore
  <2>2. QED
    BY <1>8, <2>1, KeptStep DEF Kill
<1>9. CASE Yield
  <2>1. Sane(yield(k)) /\ Kept(k, yield(k))
    BY <1>1, YieldCore
  <2>2. QED
    BY <1>9, <2>1, KeptStep DEF Yield
<1>10. ASSUME NEW p \in Pid, NEW pr \in Prio, Nice(p, pr)
       PROVE  Sane(k') /\ WaitOK(k', at') /\ NoneRisen(k, k')
  <2>1. Core(set_priority(k, p, pr)) /\ Kept(k, set_priority(k, p, pr))
    BY <1>1, SetPriorityCore
  <2>2. Sane(set_priority(k, p, pr))
    BY <1>1, <2>1, SetPriorityFrame DEF Sane, Alive
  <2>3. QED
    BY <1>10, <2>1, <2>2, KeptStep DEF Nice
<1>11. ASSUME NEW p \in Pid, Block(p)
       PROVE  Sane(k') /\ WaitOK(k', at') /\ NoneRisen(k, k')
  BY <1>11, BlockStep
<1>12. ASSUME NEW p \in Pid, Unblock(p)
       PROVE  Sane(k') /\ WaitOK(k', at') /\ NoneRisen(k, k')
  <2> DEFINE t == set_status(k, p, "READY")
  <2>1. Core(t) /\ Kept(k, t)
    BY <1>1, MakeReadyCore
  <2>2. /\ \A c \in Pid \ {p} : t.status[c] = k.status[c]
        /\ \/ t.status[p] = k.status[p]
           \/ t.status[p] = "READY"
        /\ t.current = k.current
    BY <1>1, MakeReadyFrame
  <2> HIDE DEF t
  <2>3. Sane(t)
    BY <1>1, <2>1, <2>2 DEF Sane, Alive
  <2>4. Step(t)
    BY <1>12 DEF Unblock, t
  <2>5. QED
    BY <2>1, <2>3, <2>4, KeptStep
<1>13. ASSUME NEW p \in Pid, WaitpidZombie(p)
       PROVE  Sane(k') /\ WaitOK(k', at') /\ NoneRisen(k, k')
  BY <1>13, WaitpidZombieStep
<1>14. ASSUME NEW p \in Pid, WaitpidBlock(p)
       PROVE  Sane(k') /\ WaitOK(k', at') /\ NoneRisen(k, k')
  BY <1>14, WaitpidBlockStep
<1>15. CASE WaitpidReturn
  BY <1>15, WaitpidReturnStep
<1>16. CASE UNCHANGED vars
  BY <1>16 DEF vars, SystemInv, NoneRisen, Alive
<1>17. QED
  BY <1>3, <1>4, <1>5, <1>6, <1>7, <1>8, <1>9, <1>10, <1>11, <1>12, <1>13, <1>14, <1>15, <1>16
     DEF Next

LEMMA InitTable == Table(scheduler_init)
<1> DEFINE s == scheduler_init
<1>0. Exactly(<< >>, {})
  BY DEF Exactly, ListSet
<1>1. /\ s.status = [p \in Pid |-> "FREE"] /\ s.ready = [l \in Prio |-> << >>]
      /\ s.blocked = << >> /\ s.zombies = [p \in Pid |-> << >>]
      /\ s.nextUnused = 0 /\ s.num = 0 /\ 0 \in Pid
  BY MaxProcessesAssumption DEF scheduler_init, Pid
<1>2. s \in SchedState
  BY InitType
<1> HIDE DEF s
<1>3. ReadyQueuesExact(s)
  <2>1. \A l \in Prio : Runnable(s, l) = {} /\ s.ready[l] = << >>
    BY <1>1 DEF Runnable
  <2>2. \A l \in Prio : Exactly(s.ready[l], Runnable(s, l))
    BY <2>1, <1>0, Zenon
  <2>3. QED
    BY <2>2 DEF ReadyQueuesExact
<1>4. BlockedQueueExact(s)
  <2>1. Blocked(s) = {}
    BY <1>1 DEF Blocked
  <2>2. QED
    BY <1>0, <1>1, <2>1 DEF BlockedQueueExact
<1>5. ZombieListsExact(s)
  <2>1. \A q \in Pid : ZombiesOf(s, q) = {} /\ s.zombies[q] = << >>
    BY <1>1 DEF ZombiesOf
  <2>2. \A q \in Pid : Exactly(s.zombies[q], ZombiesOf(s, q))
    BY <2>1, <1>0, Zenon
  <2>3. QED
    BY <2>1, <2>2 DEF ZombieListsExact
<1>6. OneRunning(s)
  BY <1>1 DEF OneRunning
<1>7. SlotsCounted(s)
  <2>1. Live(s) = {}
    BY <1>1 DEF Live
  <2>2. QED
    BY <1>1, <2>1, FS_EmptySet DEF SlotsCounted
<1>8. QED
  BY <1>2, <1>3, <1>4, <1>5, <1>6, <1>7 DEF Table, s

LEMMA InitSystemInv == Init => SystemInv
<1> SUFFICES ASSUME Init PROVE SystemInv
  OBVIOUS
<1>1. 0 \in Prio /\ "STDIN" \in Stdin /\ ShellPriority \in Prio
  BY NumPrioritiesAssumption, ShellPriorityAssumption DEF Prio, Stdin
<1>2. scheduler_init.nextUnused = IDLE /\ scheduler_init.num < MaxProcesses
      /\ scheduler_init.current = IDLE
  BY MaxProcessesAssumption DEF scheduler_init, IDLE
<1>3. Table(WithIdle) /\ IdleAlive(WithIdle) /\ CreateResult(scheduler_init, WithIdle)
  BY <1>1, <1>2, InitTable, BootFindsSlots, CreateTable DEF WithIdle
<1>4. Table(k) /\ IdleAlive(k) /\ CreateResult(WithIdle, k)
  BY <1>1, <1>3, BootFindsSlots, CreateTable DEF Init
<1>5. k.current = IDLE
  BY <1>2, <1>3, <1>4 DEF CreateResult
<1>6. Sane(k)
  BY <1>4, <1>5, CoreIsTable DEF Sane, Alive, IdleAlive
<1>7. WaitOK(k, at)
  BY DEF Init, WaitOK
<1>8. QED
  BY <1>6, <1>7, InitTypeOK DEF SystemInv

(* The inductive invariant: what the theorems below are projections of. It *)
(* holds after scheduler_init and main()'s two create_process calls, and   *)
(* every call of scheduler.c and process.c and every tick preserves it.    *)
THEOREM SystemCorrect == Spec => []SystemInv
BY InitSystemInv, NextSystemInv, PTL DEF Spec

(* Whatever the calls and their order, the ready queues, the blocked queue *)
(* and the zombie lists hold what status, priority and parent say, once:   *)
(* every list_remove of scheduler.c and process.c finds its node.          *)
THEOREM QueuesStayExact == Spec => []QueuesExact
<1>1. SystemInv => QueuesExact
  BY DEF SystemInv, Sane, Core, QueuesExact
<1>2. QED
  BY <1>1, SystemCorrect, PTL

(* num_processes is the number of occupied slots and next_unused_pid an    *)
(* empty one, after any sequence of create_process, kill_process, waitpid. *)
THEOREM TableStaysConsistent == Spec => []TableConsistent
<1>1. SystemInv => TableConsistent
  BY DEF SystemInv, Sane, Core, SlotsCounted, TableConsistent
<1>2. QED
  BY <1>1, SystemCorrect, PTL

(* schedule leaves the CPU to a living process, the only one that runs,    *)
(* also when the process that entered it was killed in it.                 *)
THEOREM CpuHasOneOwner == Spec => []CpuOwner
<1>1. SystemInv => CpuOwner
  BY DEF SystemInv, Sane, Core, Alive, OneRunning, CpuOwner
<1>2. QED
  BY <1>1, SystemCorrect, PTL

(* No step gives the CPU to a process that was a zombie or freed before    *)
(* it: schedule never returns the stack of a dead process.                 *)
THEOREM DeadStayDead == Spec => DeadNeverResumed
<1>1. SystemInv /\ [Next]_vars
        => [\A p \in Pid : k.status[p] \in {"FREE", "ZOMBIE"} => k'.status[p] # "RUNNING"]_vars
  BY NextSystemInv DEF NoneRisen, Alive
<1>2. QED
  BY <1>1, SystemCorrect, PTL DEF Spec, DeadNeverResumed

(* As long as nobody calls block or unblock on a process inside waitpid, a *)
(* process blocked there waits for a child that is its own and alive, so   *)
(* the kill_process that ends the child wakes it.                          *)
THEOREM WaitWakeupNotLost ==
  ASSUME "wake_waiter" \notin Calls
  PROVE  Spec => []NoLostWaitWakeup
<1>1. SystemInv => NoLostWaitWakeup
  BY DEF SystemInv, WaitOK, WaitsForChild, NoLostWaitWakeup
<1>2. QED
  BY <1>1, SystemCorrect, PTL
=============================================================================
