-------------------------- MODULE SemaphoresProofs --------------------------
(***************************************************************************)
(* The semaphores, proved for every number of processes, semaphores and    *)
(* values: the scheduler's invariant holds with semaphores in the system,  *)
(* a process asleep in down() is in its semaphore's queue, and the whole   *)
(* implements a counting semaphore; and, when nobody is killed, the queues *)
(* hold nobody else and no post is forgotten.                              *)
(***************************************************************************)
EXTENDS Semaphores, SchedulerSteps

-----------------------------------------------------------------------------
(* What the scheduler's operators do to the statuses: a process stays as   *)
(* it is, or is alive and becomes runnable, or is dead after; and nobody   *)
(* outside X dies.  In particular nobody becomes BLOCKED.                  *)
Moves(s, t, X) ==
  \A c \in Pid :
    \/ t.status[c] = s.status[c]
    \/ Alive(s, c) /\ t.status[c] \in {"READY", "RUNNING"}
    \/ ~ Alive(t, c) /\ (c \in X \/ ~ Alive(s, c))

LEMMA MovesTransitive ==
  ASSUME NEW s, NEW t, NEW u, NEW X, Moves(s, t, X), Moves(t, u, X)
  PROVE  Moves(s, u, X)
BY DEF Moves, Alive

LEMMA MovesSame ==
  ASSUME NEW s, NEW t, NEW X, t.status = s.status
  PROVE  Moves(s, t, X)
BY DEF Moves

LEMMA ReadyMoves ==
  ASSUME NEW s \in SchedState, NEW p \in Pid, NEW X
  PROVE  Moves(s, set_status(s, p, "READY"), X)
<1> DEFINE t == set_status(s, p, "READY")
<1>1. /\ \A c \in Pid \ {p} : t.status[c] = s.status[c]
      /\ \/ t.status[p] = s.status[p]
         \/ s.status[p] \in {"BLOCKED", "RUNNING"} /\ t.status[p] = "READY"
  BY MakeReadyFrame
<1> HIDE DEF t
<1>2. Moves(s, t, X)
  BY <1>1 DEF Moves, Alive
<1>3. QED
  BY <1>2 DEF t

LEMMA PickNextMoves ==
  ASSUME NEW s, Core(s), NEW X
  PROVE  Moves(s, PickNext(s), X)
<1> DEFINE n == get_next_pid(s)
           t == PickNext(s)
<1>1. s \in SchedState /\ s.status \in [Pid -> Status]
  BY CoreParts DEF SchedState
<1>2. n.pid \in Pid /\ s.status[n.pid] \in {"READY", "RUNNING"}
  BY <1>1, NextPidType, NextPidCore
<1> HIDE DEF n
<1>3. t.status = [s.status EXCEPT ![n.pid] = "RUNNING"]
  BY <1>1 DEF SchedState, PickNext, SwitchTo, n
<1> HIDE DEF t
<1>4. Moves(s, t, X)
  BY <1>1, <1>2, <1>3 DEF Moves, Alive
<1>5. QED
  BY <1>4 DEF t

LEMMA RotateMoves ==
  ASSUME NEW s, Core(s), s.status[s.current] = "RUNNING", NEW X
  PROVE  Moves(s, RotateCurrent(s), X)
<1> DEFINE p      == s.current
           ticked == s.remaining = 0 /\ s.initial > 0
           count  == IF ticked THEN Saturate(s.consumed[p]) ELSE s.consumed[p]
           ages   == ticked /\ count >= AgingThreshold /\ s.prio[p] < NumPriorities - 1
           co     == IF ages THEN 0 ELSE count
           np     == IF ages THEN s.prio[p] + 1 ELSE s.prio[p]
           k1     == [s EXCEPT !.status[p] = "READY", !.consumed[p] = co]
           t      == set_priority(k1, p, np)
<1>1. s \in SchedState /\ p \in Pid /\ s.prio[p] \in Prio /\ s.status \in [Pid -> Status]
  BY CoreParts DEF SchedState
<1>2. co \in 0 .. AgingThreshold
  BY <1>1, AgingThresholdAssumption DEF SchedState, Saturate
<1>3. np \in Prio
  BY <1>1, NumPrioritiesAssumption DEF Prio
<1>4. RotateCurrent(s) = t
  BY DEF RotateCurrent
<1> HIDE DEF co, np
<1>5. k1 \in SchedState /\ k1.status = [s.status EXCEPT ![p] = "READY"]
  BY <1>1, <1>2 DEF SchedState, Status
<1> HIDE DEF k1
<1>6. t.status = k1.status
  BY <1>1, <1>3, <1>5, SetPriorityFrame
<1> HIDE DEF t
<1>7. Moves(s, t, X)
  BY <1>1, <1>5, <1>6 DEF Moves, Alive
<1>8. QED
  BY <1>4, <1>7

LEMMA DispatchMoves ==
  ASSUME NEW s, Core(s), NEW X
  PROVE  Moves(s, Dispatch(s), X)
<1> DEFINE rm == s.remaining - 1
           a == [s EXCEPT !.remaining = rm]
           t == Dispatch(s)
<1>1. s \in SchedState /\ rm \in Int
  <2>1. s \in SchedState
    BY CoreParts
  <2>2. QED
    BY <2>1 DEF SchedState
<1>2. /\ a \in SchedState /\ a.status = s.status /\ a.current = s.current
      /\ a.prio = s.prio /\ a.parent = s.parent /\ a.waitFor = s.waitFor
      /\ a.ready = s.ready /\ a.blocked = s.blocked /\ a.zombies = s.zombies
      /\ a.nextUnused = s.nextUnused /\ a.num = s.num
  BY <1>1 DEF SchedState
<1>3. \/ t = a
      \/ t = PickNext(a)
      \/ t = PickNext(RotateCurrent(a)) /\ a.status[a.current] = "RUNNING"
  BY DEF Dispatch
<1> HIDE DEF a, t
<1>4. Core(a)
  <2>1. OneRunning(a)
    BY <1>2 DEF Core, OneRunning
  <2>2. QED
    BY <2>1, <1>2, CoreRun
<1>5. Moves(s, a, X)
  BY <1>2, MovesSame
<1>6. CASE t = PickNext(a)
  BY <1>4, <1>5, <1>6, PickNextMoves, MovesTransitive DEF t
<1>7. CASE t = PickNext(RotateCurrent(a)) /\ a.status[a.current] = "RUNNING"
  <2>1. Core(RotateCurrent(a)) /\ Moves(a, RotateCurrent(a), X)
    BY <1>4, <1>7, RotateCore, RotateMoves
  <2>2. Moves(RotateCurrent(a), t, X)
    BY <1>7, <2>1, PickNextMoves
  <2>3. Moves(a, t, X)
    BY <2>1, <2>2, MovesTransitive
  <2>4. QED
    BY <1>5, <2>3, MovesTransitive DEF t
<1>8. QED
  BY <1>3, <1>5, <1>6, <1>7 DEF t

LEMMA DropQuantumFrame ==
  ASSUME NEW s, Core(s)
  PROVE  DropQuantum(s).status = s.status
<1> DEFINE p  == s.current
           k1 == IF s.prio[p] > 0 THEN set_priority(s, p, s.prio[p] - 1) ELSE s
           co == [k1.consumed EXCEPT ![p] = 0]
           c1 == [k1 EXCEPT !.consumed = co]
           k2 == IF s.status[p] # "FREE" /\ s.initial > 0 THEN c1 ELSE s
           rq == 0
           t  == [k2 EXCEPT !.remaining = rq]
<1>1. s \in SchedState /\ p \in Pid /\ s.prio[p] \in Prio
  BY CoreParts
<1>2. s.prio[p] > 0 => s.prio[p] - 1 \in Prio
  BY <1>1, NumPrioritiesAssumption DEF Prio
<1>3. k1 \in SchedState /\ k1.status = s.status
  BY <1>1, <1>2, SetPriorityType, SetPriorityFrame
<1>4. DropQuantum(s) = t
  BY DEF DropQuantum
<1> HIDE DEF k1, co, rq
<1>5. t.status = k1.status \/ t.status = s.status
  BY <1>1, <1>3 DEF SchedState
<1> HIDE DEF t
<1>6. QED
  BY <1>3, <1>4, <1>5

LEMMA KillBodyMoves ==
  ASSUME NEW s, Core(s), NEW p \in Pid, NEW X, p \in X
  PROVE  Moves(s, KillBody(s, p), X)
<1> DEFINE t == KillBody(s, p)
<1>1. CASE ~ Killable(s, p)
  <2>1. t = s
    BY <1>1 DEF KillBody
  <2>2. QED
    BY <2>1, MovesSame
<1>2. CASE Killable(s, p)
  <2>1. KillResult(s, p, t)
    BY <1>2, KillableCore
  <2> HIDE DEF t
  <2>2. Moves(s, t, X)
    BY <2>1 DEF KillResult, Moves, Alive, ZombiesOf
  <2>3. QED
    BY <2>2 DEF t
<1>3. QED
  BY <1>1, <1>2

LEMMA ScheduleMoves ==
  ASSUME NEW s, Core(s), NEW X, s.current \in X
  PROVE  Moves(s, schedule(s), X)
<1> DEFINE c == [s EXCEPT !.killFg = FALSE]
           b == KillBody(c, c.current)
           t == schedule(s)
<1>1. s \in SchedState
  BY CoreParts
<1>2. /\ c \in SchedState
      /\ c.status = s.status /\ c.current = s.current
      /\ c.prio = s.prio /\ c.parent = s.parent /\ c.waitFor = s.waitFor
      /\ c.ready = s.ready /\ c.blocked = s.blocked /\ c.zombies = s.zombies
      /\ c.nextUnused = s.nextUnused /\ c.num = s.num
  BY <1>1 DEF SchedState
<1>3. t = Dispatch(DropQuantum(b)) \/ t = Dispatch(c)
  BY DEF schedule, KillCurrentInSchedule
<1> HIDE DEF c, t
<1>4. Core(c)
  <2>1. OneRunning(c)
    BY <1>2 DEF Core, OneRunning
  <2>2. QED
    BY <2>1, <1>2, CoreRun
<1>5. Moves(s, c, X)
  BY <1>2, MovesSame
<1>6. CASE t = Dispatch(c)
  <2>1. Moves(c, t, X)
    BY <1>4, <1>6, DispatchMoves
  <2>2. QED
    BY <1>5, <2>1, MovesTransitive DEF t
<1>7. CASE t = Dispatch(DropQuantum(b))
  <2>1. c.current \in Pid /\ c.current \in X
    BY <1>2, <1>4, CoreParts
  <2>2. Core(b) /\ Moves(c, b, X)
    BY <1>4, <2>1, KillBodyCore, KillBodyMoves
  <2> HIDE DEF b
  <2>3. Core(DropQuantum(b)) /\ Moves(b, DropQuantum(b), X)
    BY <2>2, DropQuantumCore, DropQuantumFrame, MovesSame
  <2>4. Moves(DropQuantum(b), t, X)
    BY <1>7, <2>3, DispatchMoves
  <2>5. Moves(c, t, X)
    BY <2>2, <2>3, <2>4, MovesTransitive
  <2>6. QED
    BY <1>5, <2>5, MovesTransitive DEF t
<1>8. QED
  BY <1>3, <1>6, <1>7

LEMMA YieldMoves ==
  ASSUME NEW s, Core(s), NEW X, s.current \in X
  PROVE  Moves(s, yield(s), X)
<1>1. /\ Core(DropQuantum(s)) /\ DropQuantum(s).current = s.current
      /\ Moves(s, DropQuantum(s), X)
  BY DropQuantumCore, DropQuantumFrame, MovesSame
<1>2. Moves(DropQuantum(s), yield(s), X)
  BY <1>1, ScheduleMoves DEF yield
<1>3. QED
  BY <1>1, <1>2, MovesTransitive

LEMMA KillProcessMoves ==
  ASSUME NEW s, Core(s), NEW p \in Pid
  PROVE  Moves(s, kill_process(s, p), Pid)
<1>1. Core(KillBody(s, p)) /\ Moves(s, KillBody(s, p), Pid)
  BY KillBodyCore, KillBodyMoves
<1>2. KillBody(s, p).current \in Pid
  BY <1>1, CoreParts
<1>3. Moves(KillBody(s, p), yield(KillBody(s, p)), Pid)
  BY <1>1, <1>2, YieldMoves
<1>4. QED
  BY <1>1, <1>3, MovesTransitive DEF kill_process

-----------------------------------------------------------------------------
(* The invariant of scheduler and semaphores together.                     *)

SemTypes == /\ sem \in [Sems -> [open : BOOLEAN, value : 0 .. MaxValue, queue : Seq(Pid)]]
            /\ waitOn \in [Pid -> Sems \cup {None, Freed}]

(* A process holds a pointer to a semaphore only in down(), where it is    *)
(* alive, and the semaphore it points to is open, or it knows it as Freed. *)
HoldOK(s, w, on) ==
  \A p \in Pid : IF w[p] = "sem_wait" THEN Alive(s, p) ELSE on[p] = None

PointsOpen(on, se) == \A p \in Pid : on[p] \in Sems => se[on[p]].open

SemInv == SystemInv /\ SemTypes /\ HoldOK(k, at, waitOn) /\ PointsOpen(waitOn, sem)

(* What a step of the scheduler does to the processes in down(): none      *)
(* enters, and unless somebody blocks it none falls asleep.                *)
DownKept ==
  \A p \in Pid :
    at'[p] = "sem_wait" =>
      /\ at[p] = "sem_wait"
      /\ Alive(k', p)
      /\ "wake_waiter" \notin Calls /\ k'.status[p] = "BLOCKED" => k.status[p] = "BLOCKED"

LEMMA StepDownKept ==
  ASSUME NEW t, Step(t), NEW X, Moves(k, t, X)
  PROVE  DownKept
BY DEF Step, AtAfter, Moves, Alive, DownKept

LEMMA KernelDownKept ==
  ASSUME SystemInv, HoldOK(k, at, waitOn), Next
  PROVE  DownKept
<1>1. /\ k \in SchedState /\ Core(k) /\ Alive(k, k.current) /\ k.current \in Pid
      /\ at \in [Pid -> Where] /\ k.status \in [Pid -> Status]
  BY DEF SystemInv, TypeOK, Sane, SchedState
<1>2. CASE Boot
  BY <1>1, <1>2, YieldMoves, StepDownKept DEF Boot
<1>3. CASE Tick
  BY <1>1, <1>3, ScheduleMoves, StepDownKept DEF Tick
<1>4. CASE CtrlC
  <2> DEFINE t == [k EXCEPT !.killFg = TRUE]
  <2>1. t.status = k.status
    BY <1>1 DEF SchedState
  <2>2. Step(t)
    BY <1>4 DEF CtrlC
  <2> HIDE DEF t
  <2>3. QED
    BY <2>1, <2>2, MovesSame, StepDownKept
<1>5. ASSUME NEW pr \in Prio, NEW si \in ChildStdin, Create(pr, si) PROVE DownKept
  <2> DEFINE t == create_process(k, pr, si)
  <2>1. si \in Stdin /\ ~ CreateLoops(k) /\ Step(t)
    BY <1>5, ChildStdinAssumption DEF Create
  <2>2. CreateResult(k, t)
    BY <1>1, <2>1, CoreIsTable, CreateTable
  <2> HIDE DEF t
  <2>3. k.nextUnused \in Pid
    BY <1>1 DEF SchedState
  <2>4. t = k \/ /\ k.status[k.nextUnused] = "FREE"
                 /\ \A c \in Pid \ {k.nextUnused} : t.status[c] = k.status[c]
    BY <1>1, <2>2 DEF CreateResult
  <2>5. QED
    BY <2>1, <2>3, <2>4 DEF Step, AtAfter, DownKept, HoldOK, Alive
<1>6. CASE CreateLast
  BY <1>6 DEF CreateLast, Crash, DownKept, HoldOK
<1>7. ASSUME NEW p \in Pid, Kill(p) PROVE DownKept
  BY <1>1, <1>7, KillProcessMoves, StepDownKept DEF Kill
<1>8. CASE Yield
  BY <1>1, <1>8, YieldMoves, StepDownKept DEF Yield
<1>9. ASSUME NEW p \in Pid, NEW pr \in Prio, Nice(p, pr) PROVE DownKept
  <2>1. set_priority(k, p, pr).status = k.status
    BY <1>1, SetPriorityFrame
  <2>2. QED
    BY <1>9, <2>1, MovesSame, StepDownKept DEF Nice
<1>10. ASSUME NEW p \in Pid, Block(p) PROVE DownKept
  <2> DEFINE t == set_status(k, p, "BLOCKED")
  <2>1. /\ \A c \in Pid \ {p} : t.status[c] = k.status[c]
        /\ \/ t.status[p] = k.status[p]
           \/ Alive(k, p) /\ t.status[p] = "BLOCKED"
    BY <1>1, MakeBlockedFrame
  <2>2. Step(t) /\ (at[p] = "user" \/ "wake_waiter" \in Calls)
    BY <1>10 DEF Block
  <2> HIDE DEF t
  <2>3. QED
    BY <2>1, <2>2 DEF Step, AtAfter, DownKept, HoldOK, Alive
<1>11. ASSUME NEW p \in Pid, Unblock(p) PROVE DownKept
  BY <1>1, <1>11, ReadyMoves, StepDownKept DEF Unblock
<1>12. ASSUME NEW p \in Pid, WaitpidZombie(p) PROVE DownKept
  <2> DEFINE a == WaitBegin(k, p)
             t == WaitFinish(a)
  <2>1. /\ Step(t) /\ k.status[p] = "ZOMBIE" /\ k.parent[p] = k.current
    BY <1>12 DEF WaitpidZombie, OwnChild
  <2>2. /\ Core(a) /\ a.status = k.status /\ a.parent = k.parent /\ a.current = k.current
        /\ a.waitFor = [k.waitFor EXCEPT ![k.current] = p]
    BY <1>1, WaitBeginCore
  <2>3. k.waitFor \in [Pid -> Pid]
    BY <1>1 DEF SchedState
  <2>4. Sane(a) /\ a.waitFor[a.current] = p
    BY <1>1, <2>2, <2>3 DEF Sane, Alive
  <2> HIDE DEF a
  <2>5. t.status = [a.status EXCEPT ![p] = "FREE"]
    BY <2>1, <2>2, <2>4, WaitFinishCore
  <2> HIDE DEF t
  <2>6. Moves(k, t, {})
    BY <1>1, <2>1, <2>2, <2>5 DEF Moves, Alive
  <2>7. QED
    BY <2>1, <2>6, StepDownKept
<1>13. ASSUME NEW p \in Pid, WaitpidBlock(p) PROVE DownKept
  <2> DEFINE q == k.current
             a == WaitBegin(k, p)
             b == set_status(a, q, "BLOCKED")
  <2>1. /\ k' = yield(b) /\ at' = AtAfter(k', [at EXCEPT ![q] = "waitpid"])
        /\ at[q] = "user"
    BY <1>13 DEF WaitpidBlock, WaitBlock, InUser, Interruptible
  <2>2. Core(a) /\ a.status = k.status /\ a \in SchedState
    BY <1>1, WaitBeginCore, CoreParts
  <2> HIDE DEF a
  <2>3. Core(b) /\ \A c \in Pid \ {q} : b.status[c] = k.status[c]
    BY <1>1, <2>2, MakeBlockedCore, MakeBlockedFrame
  <2> HIDE DEF b
  <2>4. Moves(b, k', Pid)
    <3>1. b.current \in Pid
      BY <2>3, CoreParts
    <3>2. QED
      BY <2>1, <2>3, <3>1, YieldMoves
  <2>5. QED
    BY <1>1, <2>1, <2>3, <2>4 DEF AtAfter, Moves, Alive, DownKept
<1>14. CASE WaitpidReturn
  <2> DEFINE q == k.current
             c == k.waitFor[q]
  <2>1. at[q] = "waitpid" /\ q \in Pid /\ c \in Pid
    BY <1>1, <1>14 DEF WaitpidReturn, SchedState
  <2>2. CASE k.status[c] = "ZOMBIE"
    <3>1. k' = WaitFinish(k) /\ at' = [at EXCEPT ![q] = "user"]
      BY <1>14, <2>2 DEF WaitpidReturn
    <3>2. k.parent[c] = q /\ Sane(k)
      BY <2>1 DEF SystemInv, WaitOK, WaitsForChild
    <3>3. k'.status = [k.status EXCEPT ![c] = "FREE"]
      BY <2>2, <3>1, <3>2, WaitFinishCore
    <3> HIDE DEF c
    <3>4. QED
      BY <1>1, <2>1, <2>2, <3>1, <3>3 DEF DownKept, HoldOK, Alive
  <2>3. CASE k.status[c] # "ZOMBIE"
    BY <1>14, <2>3 DEF WaitpidReturn, Crash, DownKept, HoldOK
  <2>4. QED
    BY <2>2, <2>3
<1>15. QED
  BY <1>2, <1>3, <1>4, <1>5, <1>6, <1>7, <1>8, <1>9, <1>10, <1>11, <1>12, <1>13, <1>14 DEF Next

LEMMA KernelSem ==
  ASSUME SemInv, Kernel
  PROVE  SemInv'
<1>1. SystemInv' /\ DownKept
  BY NextSystemInv, KernelDownKept DEF SemInv, Kernel
<1>2. SemTypes'
  BY DEF SemInv, SemTypes, Kernel, Holding
<1>3. HoldOK(k', at', waitOn')
  BY <1>1 DEF HoldOK, DownKept, Kernel, Holding
<1>4. PointsOpen(waitOn', sem')
  <2>1. \A p \in Pid : waitOn'[p] = waitOn[p] \/ waitOn'[p] = None
    BY DEF Kernel, Holding
  <2>2. sem' = sem /\ None \notin Sems
    BY NoneAssumption DEF Kernel
  <2>3. QED
    BY <2>1, <2>2 DEF SemInv, PointsOpen
<1>5. QED
  BY <1>1, <1>2, <1>3, <1>4 DEF SemInv

(* up leaves the scheduler sane: its only call is set_status to READY.     *)
LEMMA PostSem ==
  ASSUME SemInv, NEW i \in Sems, sem_post(i)
  PROVE  SemInv'
<1> DEFINE q == sem[i].queue
           t == WakeFirst(k, q)
<1>1. /\ k \in SchedState /\ Core(k) /\ Alive(k, k.current) /\ at \in [Pid -> Where]
      /\ fault \in Fault /\ sem \in [Sems -> [open : BOOLEAN, value : 0 .. MaxValue, queue : Seq(Pid)]]
      /\ waitOn \in [Pid -> Sems \cup {None, Freed}]
  BY DEF SemInv, SystemInv, TypeOK, Sane, SemTypes
<1>2. q \in Seq(Pid) /\ sem[i].value \in 0 .. MaxValue /\ sem[i].open \in BOOLEAN
  BY <1>1
<1>3. /\ Step(t) /\ waitOn' = waitOn
      /\ sem' = [sem EXCEPT ![i] = up(sem[i])]
      /\ sem[i].value < MaxValue
  BY DEF sem_post
<1>4. Sane(t) /\ Kept(k, t) /\ Moves(k, t, {})
  <2>1. CASE q = << >>
    <3>1. t = k
      BY <2>1 DEF WakeFirst
    <3>2. QED
      BY <1>1, <3>1, KeptReflexive, MovesSame DEF Sane
  <2>2. CASE q # << >>
    <3>1. Head(q) \in Pid
      BY <1>2, <2>2
    <3>2. t = set_status(k, Head(q), "READY")
      BY <2>2 DEF WakeFirst
    <3> HIDE DEF q
    <3>3. Core(t) /\ Kept(k, t) /\ Moves(k, t, {}) /\ t.current = k.current
      BY <1>1, <3>1, <3>2, MakeReadyCore, ReadyMoves, MakeReadyFrame
    <3> HIDE DEF t
    <3>4. Alive(t, t.current)
      BY <1>1, <3>3, CoreParts DEF Moves, Alive
    <3>5. QED
      BY <3>3, <3>4 DEF Sane, t
  <2>3. QED
    BY <2>1, <2>2
<1> HIDE DEF t
<1>5. Sane(k') /\ WaitOK(k', at')
  BY <1>3, <1>4, KeptStep DEF SemInv
<1>6. DownKept
  BY <1>3, <1>4, StepDownKept
<1>7. at' \in [Pid -> Where] /\ fault' = fault /\ k' = t
  BY <1>1, <1>3 DEF Step, AtAfter, Where
<1>8. TypeOK'
  BY <1>1, <1>4, <1>7, CoreParts DEF TypeOK, Sane
<1>9. RestAfterWake(q) \in Seq(Pid)
  BY <1>2 DEF RestAfterWake
<1>10. /\ sem' \in [Sems -> [open : BOOLEAN, value : 0 .. MaxValue, queue : Seq(Pid)]]
       /\ \A j \in Sems : sem'[j].open = sem[j].open
  <2>1. sem[i].value + 1 \in 0 .. MaxValue
    BY <1>2, <1>3, MaxValueAssumption
  <2>2. up(sem[i]) = [open |-> sem[i].open, value |-> sem[i].value + 1,
                      queue |-> RestAfterWake(q)]
    BY DEF up
  <2> HIDE DEF q
  <2>3. up(sem[i]) \in [open : BOOLEAN, value : 0 .. MaxValue, queue : Seq(Pid)]
        /\ up(sem[i]).open = sem[i].open
    BY <1>2, <1>9, <2>1, <2>2
  <2>4. QED
    BY <1>1, <1>3, <2>3
<1>11. SemTypes'
  BY <1>1, <1>3, <1>10 DEF SemTypes
<1>12. \A p \in Pid : at[p] = "sem_wait" => Alive(t, p)
  <2>1. \A p \in Pid : Alive(k, p) => Alive(t, p)
    BY <1>4 DEF Moves, Alive
  <2>2. QED
    BY <2>1 DEF SemInv, HoldOK
<1>13. HoldOK(k', at', waitOn')
  BY <1>3, <1>6, <1>12, <1>7 DEF SemInv, HoldOK, DownKept, Step, AtAfter, Alive
<1>14. PointsOpen(waitOn', sem')
  BY <1>1, <1>3, <1>10 DEF SemInv, PointsOpen
<1>15. QED
  BY <1>5, <1>8, <1>11, <1>13, <1>14 DEF SemInv, SystemInv

(* down with value 0: the process is blocked and the CPU given away.  Only *)
(* the process itself can die in it, by the Ctrl+C its yield delivers.     *)
LEMMA SleepEffect ==
  ASSUME SemInv, NEW i \in Sems, Sleep(i)
  PROVE  /\ Sane(k') /\ WaitOK(k', at') /\ TypeOK'
         /\ \A p \in Pid : at'[p] = "sem_wait" => Alive(k', p)
         /\ \A p \in Pid \ {k.current} :
              /\ at'[p] = "sem_wait" <=> at[p] = "sem_wait"
              /\ waitOn'[p] = waitOn[p]
              /\ k'.status[p] = "BLOCKED" => k.status[p] = "BLOCKED"
         /\ waitOn'[k.current] = IF at'[k.current] = "sem_wait" THEN i ELSE None
<1> DEFINE q == k.current
           b == set_status(k, q, "BLOCKED")
           w == [at EXCEPT ![q] = "sem_wait"]
<1>1. /\ k \in SchedState /\ at \in [Pid -> Where] /\ Core(k) /\ Alive(k, q) /\ q \in Pid
      /\ fault \in Fault /\ waitOn \in [Pid -> Sems \cup {None, Freed}]
  BY DEF SemInv, SystemInv, TypeOK, Sane, SchedState, SemTypes
<1>2. /\ k' = yield(b) /\ at' = AtAfter(k', w) /\ fault' = fault
      /\ waitOn' = Holding(at', [waitOn EXCEPT ![q] = i])
  BY DEF Sleep
<1>3. Core(b)
  BY <1>1, MakeBlockedCore
<1>4. /\ b.parent = k.parent /\ b.waitFor = k.waitFor /\ b.current = q
      /\ \A c \in Pid \ {q} : b.status[c] = k.status[c]
      /\ \/ b.status[q] = k.status[q]
         \/ Alive(k, q) /\ b.status[q] = "BLOCKED"
  BY <1>1, MakeBlockedFrame
<1> HIDE DEF b
<1>5. \A c \in Pid : /\ Alive(b, c) <=> Alive(k, c)
                     /\ b.status[c] = "FREE" <=> k.status[c] = "FREE"
                     /\ b.status[c] = "ZOMBIE" <=> k.status[c] = "ZOMBIE"
  BY <1>4 DEF Alive
<1>6. w \in [Pid -> Where] /\ w[q] = "sem_wait" /\ \A p \in Pid \ {q} : w[p] = at[p]
  BY <1>1, PlacesAssumption DEF Where
<1> HIDE DEF w
<1>7. WaitOK(b, w)
  <2> SUFFICES ASSUME NEW r \in Pid, w[r] = "waitpid"
               PROVE  WaitsForChild(b, r)
    BY DEF WaitOK
  <2>1. r # q /\ at[r] = "waitpid"
    BY <1>6
  <2>2. WaitsForChild(k, r) /\ k.waitFor[r] \in Pid
    BY <1>1, <2>1 DEF SemInv, SystemInv, WaitOK, SchedState
  <2>3. QED
    BY <1>4, <1>5, <2>1, <2>2 DEF WaitsForChild
<1>8. Sane(k') /\ Kept(b, k')
  BY <1>2, <1>3, YieldCore
<1>9. b \in SchedState /\ k' \in SchedState
  BY <1>3, <1>8, CoreParts DEF Sane
<1>10. WaitOK(k', at')
  BY <1>2, <1>6, <1>7, <1>8, <1>9, WaitKept
<1>11. Moves(b, k', {q})
  BY <1>2, <1>3, <1>4, YieldMoves
<1>12. at' \in [Pid -> Where]
  BY <1>2, <1>6 DEF AtAfter, Where
<1>13. TypeOK'
  BY <1>1, <1>2, <1>9, <1>12 DEF TypeOK
<1>14. \A p \in Pid : at'[p] = "sem_wait" => Alive(k', p)
  BY <1>2 DEF AtAfter, Alive
<1>15. ASSUME NEW p \in Pid \ {q}
       PROVE  /\ at'[p] = "sem_wait" <=> at[p] = "sem_wait"
              /\ waitOn'[p] = waitOn[p]
              /\ k'.status[p] = "BLOCKED" => k.status[p] = "BLOCKED"
  <2>1. at[p] = "sem_wait" => Alive(k, p)
    BY DEF SemInv, HoldOK
  <2>2. Alive(k, p) => Alive(k', p)
    BY <1>5, <1>11 DEF Moves, Alive
  <2>3. at'[p] = "sem_wait" <=> at[p] = "sem_wait"
    BY <1>2, <1>6, <2>1, <2>2 DEF AtAfter, Alive
  <2>4. waitOn'[p] = waitOn[p]
    BY <1>1, <1>2, <2>3 DEF SemInv, HoldOK, Holding
  <2>5. k'.status[p] = "BLOCKED" => k.status[p] = "BLOCKED"
    BY <1>4, <1>11 DEF Moves, Alive
  <2>6. QED
    BY <2>3, <2>4, <2>5
<1>16. waitOn'[q] = IF at'[q] = "sem_wait" THEN i ELSE None
  BY <1>1, <1>2 DEF Holding
<1>17. QED
  BY <1>8, <1>10, <1>13, <1>14, <1>15, <1>16

LEMMA SleepSem ==
  ASSUME SemInv, NEW i \in Sems, sem[i].open, Sleep(i)
  PROVE  SemInv'
<1> DEFINE q == k.current
<1>1. /\ sem \in [Sems -> [open : BOOLEAN, value : 0 .. MaxValue, queue : Seq(Pid)]]
      /\ waitOn \in [Pid -> Sems \cup {None, Freed}] /\ q \in Pid
  BY DEF SemInv, SystemInv, TypeOK, SemTypes, SchedState
<1>2. /\ Sane(k') /\ WaitOK(k', at') /\ TypeOK'
      /\ \A p \in Pid : at'[p] = "sem_wait" => Alive(k', p)
      /\ \A p \in Pid \ {q} : /\ at'[p] = "sem_wait" <=> at[p] = "sem_wait"
                              /\ waitOn'[p] = waitOn[p]
      /\ waitOn'[q] = IF at'[q] = "sem_wait" THEN i ELSE None
  BY SleepEffect
<1>3. /\ sem' \in [Sems -> [open : BOOLEAN, value : 0 .. MaxValue, queue : Seq(Pid)]]
      /\ \A j \in Sems : sem'[j].open = sem[j].open
  <2>1. sem' = [sem EXCEPT ![i].queue = Append(@, q)]
    BY DEF Sleep, list_append
  <2>2. Append(sem[i].queue, q) \in Seq(Pid)
    BY <1>1
  <2>3. QED
    BY <1>1, <2>1, <2>2
<1>4. waitOn' = Holding(at', [waitOn EXCEPT ![q] = i])
  BY DEF Sleep
<1>5. SemTypes'
  BY <1>1, <1>3, <1>4 DEF SemTypes, Holding
<1>6. HoldOK(k', at', waitOn')
  BY <1>2 DEF SemInv, HoldOK
<1>7. PointsOpen(waitOn', sem')
  BY <1>2, <1>3, NoneAssumption DEF SemInv, PointsOpen
<1>8. QED
  BY <1>2, <1>5, <1>6, <1>7 DEF SemInv, SystemInv

LEMMA TakeSem ==
  ASSUME SemInv, NEW i \in Sems, Take(i)
  PROVE  SemInv'
<1> DEFINE q == k.current
<1>1. /\ sem \in [Sems -> [open : BOOLEAN, value : 0 .. MaxValue, queue : Seq(Pid)]]
      /\ waitOn \in [Pid -> Sems \cup {None, Freed}] /\ q \in Pid
      /\ at \in [Pid -> Where]
  BY DEF SemInv, SystemInv, TypeOK, SemTypes, SchedState
<1>2. /\ k' = k /\ fault' = fault /\ sem[i].value > 0
      /\ sem' = [sem EXCEPT ![i].value = @ - 1]
      /\ at' = [at EXCEPT ![q] = "user"]
      /\ waitOn' = Holding(at', waitOn)
  BY DEF Take
<1>3. at' \in [Pid -> Where] /\ \A p \in Pid : at'[p] = "user" \/ at'[p] = at[p]
  BY <1>1, <1>2 DEF Where
<1>4. SystemInv'
  BY <1>2, <1>3 DEF SemInv, SystemInv, TypeOK, WaitOK
<1>5. /\ sem' \in [Sems -> [open : BOOLEAN, value : 0 .. MaxValue, queue : Seq(Pid)]]
      /\ \A j \in Sems : sem'[j].open = sem[j].open
  <2>1. sem[i].value - 1 \in 0 .. MaxValue
    BY <1>1, <1>2, MaxValueAssumption
  <2>2. QED
    BY <1>1, <1>2, <2>1
<1>6. \A p \in Pid : waitOn'[p] = IF at'[p] = "sem_wait" THEN waitOn[p] ELSE None
  BY <1>2 DEF Holding
<1>7. SemTypes'
  BY <1>1, <1>2, <1>5 DEF SemTypes, Holding
<1>8. HoldOK(k', at', waitOn')
  BY <1>2, <1>3, <1>6 DEF SemInv, HoldOK
<1>9. PointsOpen(waitOn', sem')
  BY <1>1, <1>5, <1>6, NoneAssumption DEF SemInv, PointsOpen
<1>10. QED
  BY <1>4, <1>7, <1>8, <1>9 DEF SemInv

LEMMA InitSem ==
  ASSUME SemInv, NEW i \in Sems, NEW v \in InitialValues, sem_init(i, v)
  PROVE  SemInv'
<1>1. /\ sem \in [Sems -> [open : BOOLEAN, value : 0 .. MaxValue, queue : Seq(Pid)]]
      /\ v \in 0 .. MaxValue
  BY InitialValuesAssumption DEF SemInv, SemTypes
<1>2. /\ sem' = [sem EXCEPT ![i] = [open |-> TRUE, value |-> v, queue |-> << >>]]
      /\ k' = k /\ at' = at /\ fault' = fault /\ waitOn' = waitOn
  BY DEF sem_init, vars
<1>3. /\ sem' \in [Sems -> [open : BOOLEAN, value : 0 .. MaxValue, queue : Seq(Pid)]]
      /\ \A j \in Sems : sem[j].open => sem'[j].open
  <2>1. << >> \in Seq(Pid)
    OBVIOUS
  <2>2. QED
    BY <1>1, <1>2, <2>1
<1>4. QED
  BY <1>2, <1>3 DEF SemInv, SystemInv, TypeOK, SemTypes, PointsOpen

LEMMA DestroySem ==
  ASSUME SemInv, NEW i \in Sems, sem_destroy(i)
  PROVE  SemInv'
<1>1. /\ sem \in [Sems -> [open : BOOLEAN, value : 0 .. MaxValue, queue : Seq(Pid)]]
      /\ waitOn \in [Pid -> Sems \cup {None, Freed}]
  BY DEF SemInv, SemTypes
<1>2. /\ sem' = [sem EXCEPT ![i] = Closed]
      /\ waitOn' = [p \in Pid |-> IF waitOn[p] = i THEN Freed ELSE waitOn[p]]
      /\ k' = k /\ at' = at /\ fault' = fault
  BY DEF sem_destroy, vars
<1>3. Closed \in [open : BOOLEAN, value : 0 .. MaxValue, queue : Seq(Pid)]
  <2>1. << >> \in Seq(Pid) /\ 0 \in 0 .. MaxValue
    BY MaxValueAssumption
  <2>2. QED
    BY <2>1 DEF Closed
<1>4. SemTypes'
  BY <1>1, <1>2, <1>3 DEF SemTypes
<1>5. HoldOK(k', at', waitOn')
  BY <1>2, NoneAssumption DEF SemInv, HoldOK
<1>6. PointsOpen(waitOn', sem')
  BY <1>1, <1>2, NoneAssumption DEF SemInv, PointsOpen
<1>7. QED
  BY <1>2, <1>4, <1>5, <1>6 DEF SemInv, SystemInv, TypeOK

LEMMA WrapSem ==
  ASSUME SemInv, NEW i \in Sems, sem_post_wraps(i)
  PROVE  SemInv'
<1>1. sem \in [Sems -> [open : BOOLEAN, value : 0 .. MaxValue, queue : Seq(Pid)]]
  BY DEF SemInv, SemTypes
<1>2. /\ sem' = [sem EXCEPT ![i].value = 0]
      /\ k' = k /\ at' = at /\ fault' = fault /\ waitOn' = waitOn
  BY DEF sem_post_wraps, vars
<1>3. /\ sem' \in [Sems -> [open : BOOLEAN, value : 0 .. MaxValue, queue : Seq(Pid)]]
      /\ \A j \in Sems : sem'[j].open = sem[j].open
  BY <1>1, <1>2, MaxValueAssumption
<1>4. QED
  BY <1>2, <1>3 DEF SemInv, SystemInv, TypeOK, SemTypes, PointsOpen

LEMMA NextSem == SemInv /\ [SemNext]_semVars => SemInv'
<1> SUFFICES ASSUME SemInv, [SemNext]_semVars PROVE SemInv'
  OBVIOUS
<1>1. CASE Kernel
  BY <1>1, KernelSem
<1>2. ASSUME NEW i \in Sems, NEW v \in InitialValues, sem_init(i, v) PROVE SemInv'
  BY <1>2, InitSem
<1>3. ASSUME NEW i \in Sems, sem_destroy(i) PROVE SemInv'
  BY <1>3, DestroySem
<1>4. ASSUME NEW i \in Sems, sem_post(i) PROVE SemInv'
  BY <1>4, PostSem
<1>5. ASSUME NEW i \in Sems, sem_post_wraps(i) PROVE SemInv'
  BY <1>5, WrapSem
<1>6. ASSUME NEW i \in Sems, sem_wait(i) PROVE SemInv'
  BY <1>6, TakeSem, SleepSem DEF sem_wait
<1>7. ASSUME NEW i \in Sems, down_again(i) PROVE SemInv'
  <2>1. k.current \in Pid
    BY DEF SemInv, SystemInv, TypeOK, SchedState
  <2>2. sem[i].open
    BY <1>7, <2>1 DEF down_again, SemInv, PointsOpen
  <2>3. QED
    BY <1>7, <2>2, TakeSem, SleepSem DEF down_again
<1>8. CASE down_freed
  BY <1>8, PlacesAssumption
     DEF down_freed, Crash, SemInv, SystemInv, TypeOK, SemTypes, HoldOK, PointsOpen, Fault
<1>9. CASE UNCHANGED semVars
  BY <1>9 DEF semVars, vars, SemInv, SystemInv, TypeOK, SemTypes, HoldOK, PointsOpen
<1>10. QED
  BY <1>1, <1>2, <1>3, <1>4, <1>5, <1>6, <1>7, <1>8, <1>9 DEF SemNext

LEMMA InitSemInv == SemInit => SemInv
<1> SUFFICES ASSUME SemInit PROVE SemInv
  OBVIOUS
<1>1. SystemInv
  BY InitSystemInv DEF SemInit
<1>2. /\ sem = [i \in Sems |-> Closed] /\ waitOn = [p \in Pid |-> None]
      /\ at = [p \in Pid |-> "user"]
  BY DEF SemInit, Init
<1>3. Closed \in [open : BOOLEAN, value : 0 .. MaxValue, queue : Seq(Pid)]
  <2>1. << >> \in Seq(Pid) /\ 0 \in 0 .. MaxValue
    BY MaxValueAssumption
  <2>2. QED
    BY <2>1 DEF Closed
<1>4. QED
  BY <1>1, <1>2, <1>3, NoneAssumption DEF SemInv, SemTypes, HoldOK, PointsOpen

(* The scheduler stays correct with semaphores in the system, no process   *)
(* that was killed in down() keeps a pointer to a semaphore, and a pointer *)
(* to a destroyed semaphore is known as such.                              *)
THEOREM SemaphoresCorrect == SemSpec => []SemInv
BY InitSemInv, NextSem, PTL DEF SemSpec

(* The value and the queue of every semaphore keep their types: a pass     *)
(* never takes the value below 0 and a post never past the largest value,  *)
(* and what enters a queue is a process.                                   *)
THEOREM SemTypeCorrect == SemSpec => []SemTypeOK
<1>1. SemInv => SemTypeOK
  BY DEF SemInv, SystemInv, SemTypes, SemTypeOK
<1>2. QED
  BY <1>1, SemaphoresCorrect, PTL

-----------------------------------------------------------------------------
(* A process asleep in down() stays in its semaphore's queue.              *)

LEMMA ListSetAppend ==
  ASSUME NEW q \in Seq(Pid), NEW p \in Pid
  PROVE  p \in ListSet(Append(q, p)) /\ ListSet(q) \subseteq ListSet(Append(q, p))
<1>1. Len(Append(q, p)) = Len(q) + 1 /\ Append(q, p)[Len(q) + 1] = p
  OBVIOUS
<1>2. \A j \in 1 .. Len(q) : j \in 1 .. Len(q) + 1 /\ Append(q, p)[j] = q[j]
  OBVIOUS
<1>3. Len(q) + 1 \in 1 .. Len(q) + 1
  OBVIOUS
<1>4. QED
  BY <1>1, <1>2, <1>3 DEF ListSet

LEMMA ListSetTail ==
  ASSUME NEW q \in Seq(Pid), q # << >>, NEW p \in ListSet(q), p # Head(q)
  PROVE  p \in ListSet(Tail(q))
<1>1. PICK j \in 1 .. Len(q) : q[j] = p
  BY DEF ListSet
<1>2. j # 1
  BY <1>1
<1>3. j - 1 \in 1 .. Len(Tail(q)) /\ Tail(q)[j - 1] = p
  BY <1>1, <1>2
<1>4. QED
  BY <1>3 DEF ListSet

LEMMA KernelQueued ==
  ASSUME SemInv, "wake_waiter" \notin Calls, SleepersQueued, Kernel
  PROVE  SleepersQueued'
<1>1. DownKept
  BY KernelDownKept DEF SemInv, Kernel
<1>2. SUFFICES ASSUME NEW i \in Sems, NEW p \in Pid,
                      at'[p] = "sem_wait", waitOn'[p] = i, k'.status[p] = "BLOCKED"
               PROVE  p \in ListSet(sem'[i].queue)
  BY DEF SleepersQueued, Asleep, SemWaiters
<1>3. at[p] = "sem_wait" /\ k.status[p] = "BLOCKED"
  BY <1>1, <1>2 DEF DownKept
<1>4. sem' = sem /\ waitOn[p] = i
  BY <1>2 DEF Kernel, Holding
<1>5. QED
  BY <1>3, <1>4 DEF SleepersQueued, Asleep, SemWaiters

LEMMA PostQueued ==
  ASSUME SemInv, SleepersQueued, NEW i \in Sems, sem_post(i)
  PROVE  SleepersQueued'
<1> DEFINE q == sem[i].queue
           t == WakeFirst(k, q)
<1>1. /\ k \in SchedState /\ Core(k)
      /\ sem \in [Sems -> [open : BOOLEAN, value : 0 .. MaxValue, queue : Seq(Pid)]]
  BY DEF SemInv, SystemInv, TypeOK, Sane, SemTypes
<1>2. /\ k' = t /\ at' = AtAfter(t, at) /\ waitOn' = waitOn
      /\ sem' = [sem EXCEPT ![i] = up(sem[i])]
  BY DEF sem_post, Step
<1>3. up(sem[i]).queue = RestAfterWake(q)
  BY DEF up
<1>4. q \in Seq(Pid)
  BY <1>1
<1> SUFFICES ASSUME NEW j \in Sems, NEW p \in Pid,
                    at'[p] = "sem_wait", waitOn'[p] = j, k'.status[p] = "BLOCKED"
             PROVE  p \in ListSet(sem'[j].queue)
  BY DEF SleepersQueued, Asleep, SemWaiters
<1>5. at[p] = "sem_wait" /\ waitOn[p] = j
  BY <1>2 DEF AtAfter
<1>6. /\ k.status[p] = "BLOCKED"
      /\ q # << >> => p # Head(q)
  <2>1. CASE q = << >>
    BY <1>2, <2>1 DEF WakeFirst
  <2>2. CASE q # << >>
    <3>1. Head(q) \in Pid /\ t = set_status(k, Head(q), "READY")
      BY <1>4, <2>2 DEF WakeFirst
    <3> HIDE DEF q
    <3>2. /\ \A c \in Pid \ {Head(q)} : t.status[c] = k.status[c]
          /\ \/ t.status[Head(q)] = k.status[Head(q)]
             \/ t.status[Head(q)] = "READY"
          /\ Head(q) # IDLE => t.status[Head(q)] # "BLOCKED"
      BY <1>1, <3>1, MakeReadyFrame
    <3>3. k.status[IDLE] # "BLOCKED"
      BY <1>1, CoreParts
    <3> HIDE DEF t
    <3>4. p # Head(q)
      BY <1>2, <3>2, <3>3
    <3>5. QED
      BY <1>2, <3>2, <3>4
  <2>3. QED
    BY <2>1, <2>2
<1>7. p \in ListSet(sem[j].queue)
  BY <1>5, <1>6 DEF SleepersQueued, Asleep, SemWaiters
<1>8. CASE j # i
  BY <1>1, <1>2, <1>7, <1>8
<1>9. CASE j = i
  <2>1. sem'[j].queue = RestAfterWake(q)
    BY <1>1, <1>2, <1>3, <1>9
  <2>2. p \in ListSet(q)
    BY <1>7, <1>9
  <2> HIDE DEF q
  <2>3. CASE q = << >>
    BY <2>1, <2>2, <2>3 DEF RestAfterWake
  <2>4. CASE q # << >>
    BY <1>4, <1>6, <2>1, <2>2, <2>4, ListSetTail DEF RestAfterWake
  <2>5. QED
    BY <2>3, <2>4
<1>10. QED
  BY <1>8, <1>9

LEMMA SleepQueued ==
  ASSUME SemInv, SleepersQueued, NEW i \in Sems, Sleep(i)
  PROVE  SleepersQueued'
<1> DEFINE q == k.current
<1>1. /\ q \in Pid
      /\ sem \in [Sems -> [open : BOOLEAN, value : 0 .. MaxValue, queue : Seq(Pid)]]
  BY DEF SemInv, SystemInv, TypeOK, SchedState, SemTypes
<1>2. /\ \A p \in Pid \ {q} : /\ at'[p] = "sem_wait" <=> at[p] = "sem_wait"
                              /\ waitOn'[p] = waitOn[p]
                              /\ k'.status[p] = "BLOCKED" => k.status[p] = "BLOCKED"
      /\ waitOn'[q] = IF at'[q] = "sem_wait" THEN i ELSE None
  BY SleepEffect
<1>3. sem' = [sem EXCEPT ![i].queue = Append(@, q)]
  BY DEF Sleep, list_append
<1>4. \A j \in Sems : \/ j # i /\ sem'[j].queue = sem[j].queue
                      \/ j = i /\ sem'[j].queue = Append(sem[j].queue, q)
  BY <1>1, <1>3
<1>5. sem[i].queue \in Seq(Pid)
  BY <1>1
<1>6. /\ q \in ListSet(sem'[i].queue)
      /\ \A j \in Sems : ListSet(sem[j].queue) \subseteq ListSet(sem'[j].queue)
  BY <1>1, <1>4, <1>5, ListSetAppend
<1> SUFFICES ASSUME NEW j \in Sems, NEW p \in Pid,
                    at'[p] = "sem_wait", waitOn'[p] = j, k'.status[p] = "BLOCKED"
             PROVE  p \in ListSet(sem'[j].queue)
  BY DEF SleepersQueued, Asleep, SemWaiters
<1>7. CASE p = q
  BY <1>2, <1>6, <1>7
<1>8. CASE p # q
  BY <1>2, <1>6, <1>8 DEF SleepersQueued, Asleep, SemWaiters
<1>9. QED
  BY <1>7, <1>8

LEMMA TakeQueued ==
  ASSUME SemInv, SleepersQueued, NEW i \in Sems, Take(i)
  PROVE  SleepersQueued'
<1>1. /\ sem \in [Sems -> [open : BOOLEAN, value : 0 .. MaxValue, queue : Seq(Pid)]]
      /\ at \in [Pid -> Where]
  BY DEF SemInv, SystemInv, TypeOK, SemTypes
<1>2. /\ k' = k /\ sem' = [sem EXCEPT ![i].value = @ - 1]
      /\ at' = [at EXCEPT ![k.current] = "user"] /\ waitOn' = Holding(at', waitOn)
  BY DEF Take
<1>3. \A j \in Sems : sem'[j].queue = sem[j].queue
  BY <1>1, <1>2
<1>4. \A p \in Pid : at'[p] = "sem_wait" => at[p] = "sem_wait" /\ waitOn'[p] = waitOn[p]
  BY <1>1, <1>2 DEF Holding
<1>5. QED
  BY <1>2, <1>3, <1>4 DEF SleepersQueued, Asleep, SemWaiters

LEMMA NextQueued ==
  ASSUME "wake_waiter" \notin Calls
  PROVE  SemInv /\ SleepersQueued /\ [SemNext]_semVars => SleepersQueued'
<1> SUFFICES ASSUME SemInv, SleepersQueued, [SemNext]_semVars PROVE SleepersQueued'
  OBVIOUS
<1>0. /\ sem \in [Sems -> [open : BOOLEAN, value : 0 .. MaxValue, queue : Seq(Pid)]]
      /\ waitOn \in [Pid -> Sems \cup {None, Freed}]
  BY DEF SemInv, SemTypes
<1>1. CASE Kernel
  BY <1>1, KernelQueued
<1>2. ASSUME NEW i \in Sems, NEW v \in InitialValues, sem_init(i, v) PROVE SleepersQueued'
  <2>1. \A p \in Pid : waitOn[p] # i
    BY <1>2 DEF sem_init, SemInv, PointsOpen
  <2>2. \A j \in Sems \ {i} : sem'[j] = sem[j]
    BY <1>0, <1>2 DEF sem_init
  <2>3. UNCHANGED << vars, waitOn >>
    BY <1>2 DEF sem_init
  <2>4. QED
    BY <2>1, <2>2, <2>3 DEF vars, SleepersQueued, Asleep, SemWaiters
<1>3. ASSUME NEW i \in Sems, sem_destroy(i) PROVE SleepersQueued'
  <2>1. \A p \in Pid : waitOn'[p] \in Sems => waitOn'[p] # i /\ waitOn'[p] = waitOn[p]
    BY <1>0, <1>3, NoneAssumption DEF sem_destroy
  <2>2. \A j \in Sems \ {i} : sem'[j] = sem[j]
    BY <1>0, <1>3 DEF sem_destroy
  <2>3. UNCHANGED vars
    BY <1>3 DEF sem_destroy
  <2>4. QED
    BY <2>1, <2>2, <2>3 DEF vars, SleepersQueued, Asleep, SemWaiters
<1>4. ASSUME NEW i \in Sems, sem_post(i) PROVE SleepersQueued'
  BY <1>4, PostQueued
<1>5. ASSUME NEW i \in Sems, sem_post_wraps(i) PROVE SleepersQueued'
  <2>1. \A j \in Sems : sem'[j].queue = sem[j].queue
    BY <1>0, <1>5 DEF sem_post_wraps
  <2>2. QED
    BY <1>5, <2>1 DEF sem_post_wraps, vars, SleepersQueued, Asleep, SemWaiters
<1>6. ASSUME NEW i \in Sems, sem_wait(i) PROVE SleepersQueued'
  BY <1>6, TakeQueued, SleepQueued DEF sem_wait
<1>7. ASSUME NEW i \in Sems, down_again(i) PROVE SleepersQueued'
  BY <1>7, TakeQueued, SleepQueued DEF down_again
<1>8. CASE down_freed
  BY <1>8 DEF down_freed, Crash, SleepersQueued, Asleep, SemWaiters
<1>9. CASE UNCHANGED semVars
  BY <1>9 DEF semVars, vars, SleepersQueued, Asleep, SemWaiters
<1>10. QED
  BY <1>1, <1>2, <1>3, <1>4, <1>5, <1>6, <1>7, <1>8, <1>9 DEF SemNext

(* Whatever is killed, destroyed or started under a reused pid, as long as *)
(* nobody calls block or unblock on a process inside the kernel, a process *)
(* asleep in down() is in the queue that up() takes from, so the posts to  *)
(* come reach it in their turn.                                            *)
THEOREM SleepersStayQueued ==
  ASSUME "wake_waiter" \notin Calls
  PROVE  SemSpec => []SleepersQueued
<1>1. SemInit => SleepersQueued
  BY DEF SemInit, Init, SleepersQueued, Asleep, SemWaiters
<1>2. QED
  BY <1>1, NextQueued, SemaphoresCorrect, PTL DEF SemSpec

-----------------------------------------------------------------------------
(* The semaphores implement CountingSemaphore.                             *)

waiting == [p \in Pid |-> IF waitOn[p] = Freed THEN None ELSE waitOn[p]]
opened  == {i \in Sems : sem[i].open}
values  == [i \in Sems |-> sem[i].value]

LEMMA TakeCounts ==
  ASSUME SemInv, NEW i \in Sems, sem[i].open, Take(i),
         NEW q \in Pid, q = k.current, waiting[q] \in {None, i}
  PROVE  Counting!Pass(i, q)
<1>1. /\ sem \in [Sems -> [open : BOOLEAN, value : 0 .. MaxValue, queue : Seq(Pid)]]
      /\ waitOn \in [Pid -> Sems \cup {None, Freed}]
      /\ at \in [Pid -> Where]
  BY DEF SemInv, SystemInv, TypeOK, SemTypes
<1>2. /\ sem[i].value > 0
      /\ sem' = [sem EXCEPT ![i].value = @ - 1]
      /\ at' = [at EXCEPT ![q] = "user"]
      /\ waitOn' = Holding(at', waitOn)
  BY DEF Take
<1>3. opened' = opened /\ values' = [values EXCEPT ![i] = @ - 1]
  <2>1. \A j \in Sems : sem'[j].open = sem[j].open
    BY <1>1, <1>2
  <2>2. \A j \in Sems : sem'[j].value = IF j = i THEN sem[j].value - 1 ELSE sem[j].value
    BY <1>1, <1>2
  <2>3. QED
    BY <2>1, <2>2 DEF opened, values
<1>4. \A p \in Pid : waitOn'[p] = IF p = q THEN None ELSE waitOn[p]
  BY <1>1, <1>2 DEF SemInv, HoldOK, Holding
<1>5. waiting' = [waiting EXCEPT ![q] = None]
  BY <1>1, <1>4, NoneAssumption DEF waiting
<1>6. i \in opened /\ values[i] > 0
  BY <1>2 DEF opened, values
<1>7. QED
  BY <1>3, <1>5, <1>6 DEF Counting!Pass, opened, values, waiting

LEMMA SleepKeeps ==
  ASSUME SemInv, NEW i \in Sems, Sleep(i)
  PROVE  /\ sem[i].value = 0 /\ opened' = opened /\ values' = values
         /\ waiting' \in {[waiting EXCEPT ![k.current] = i],
                          [waiting EXCEPT ![k.current] = None]}
<1> DEFINE q == k.current
<1>1. /\ sem \in [Sems -> [open : BOOLEAN, value : 0 .. MaxValue, queue : Seq(Pid)]]
      /\ q \in Pid
  BY DEF SemInv, SystemInv, TypeOK, SemTypes, SchedState
<1>2. /\ sem[i].value = 0
      /\ sem' = [sem EXCEPT ![i].queue = Append(@, q)]
  BY DEF Sleep, list_append
<1>3. \A j \in Sems : sem'[j].open = sem[j].open /\ sem'[j].value = sem[j].value
  BY <1>1, <1>2
<1>4. /\ \A p \in Pid \ {q} : waitOn'[p] = waitOn[p]
      /\ waitOn'[q] = i \/ waitOn'[q] = None
  BY SleepEffect
<1>5. CASE waitOn'[q] = i
  <2>1. waiting' = [waiting EXCEPT ![q] = i]
    BY <1>1, <1>4, <1>5, NoneAssumption DEF waiting
  <2>2. QED
    BY <1>2, <1>3, <2>1 DEF opened, values
<1>6. CASE waitOn'[q] = None
  <2>1. waiting' = [waiting EXCEPT ![q] = None]
    BY <1>1, <1>4, <1>6, NoneAssumption DEF waiting
  <2>2. QED
    BY <1>2, <1>3, <2>1 DEF opened, values
<1>7. QED
  BY <1>4, <1>5, <1>6

LEMMA GivesUp ==
  ASSUME opened' = opened, values' = values, NEW gone \in SUBSET Pid,
         \A p \in Pid : waiting'[p] = IF p \in gone THEN None ELSE waiting[p]
  PROVE  Counting!Next
<1>1. waiting' = [p \in Pid |-> IF p \in gone THEN None ELSE waiting[p]]
  BY DEF waiting
<1>2. Counting!GiveUp(gone)
  BY <1>1 DEF Counting!GiveUp, opened, values, waiting
<1>3. QED
  BY <1>2 DEF Counting!Next

LEMMA PassOrWait ==
  ASSUME NEW i \in Sems, NEW p \in Pid, Counting!Pass(i, p) \/ Counting!Wait(i, p)
  PROVE  Counting!Next
<1>1. \E j \in Sems : \E c \in Pid : Counting!Pass(j, c) \/ Counting!Wait(j, c)
  OBVIOUS
<1>2. QED
  BY <1>1, Zenon DEF Counting!Next

LEMMA StepCounts ==
  SemInv /\ [SemNext]_semVars => [Counting!Next]_(Counting!vars)
<1> SUFFICES ASSUME SemInv, [SemNext]_semVars
             PROVE  Counting!Next \/ UNCHANGED << opened, values, waiting >>
  BY DEF Counting!vars, opened, values, waiting
<1>1. /\ sem \in [Sems -> [open : BOOLEAN, value : 0 .. MaxValue, queue : Seq(Pid)]]
      /\ waitOn \in [Pid -> Sems \cup {None, Freed}] /\ k.current \in Pid
  BY DEF SemInv, SystemInv, TypeOK, SemTypes, SchedState
<1> PICK q \in Pid : q = k.current
  BY <1>1
<1>2. CASE Kernel
  <2> DEFINE gone == {p \in Pid : at'[p] # "sem_wait"}
  <2>1. sem' = sem /\ waitOn' = Holding(at', waitOn)
    BY <1>2 DEF Kernel
  <2>2. opened' = opened /\ values' = values
    BY <2>1 DEF opened, values
  <2>3. \A p \in Pid : waiting'[p] = IF p \in gone THEN None ELSE waiting[p]
    BY <2>1, NoneAssumption DEF waiting, Holding
  <2>4. QED
    BY <2>2, <2>3, GivesUp
<1>3. ASSUME NEW i \in Sems, NEW v \in InitialValues, sem_init(i, v) PROVE Counting!Next
  <2>1. /\ ~ sem[i].open
        /\ sem' = [sem EXCEPT ![i] = [open |-> TRUE, value |-> v, queue |-> << >>]]
        /\ waitOn' = waitOn
    BY <1>3 DEF sem_init
  <2>2. i \notin opened /\ opened' = opened \cup {i} /\ values' = [values EXCEPT ![i] = v]
        /\ waiting' = waiting
    BY <1>1, <2>1 DEF opened, values, waiting
  <2>3. Counting!Create(i, v)
    BY <2>2 DEF Counting!Create, opened, values, waiting
  <2>4. QED
    BY <2>3 DEF Counting!Next
<1>4. ASSUME NEW i \in Sems, sem_destroy(i) PROVE Counting!Next
  <2>1. /\ sem[i].open
        /\ sem' = [sem EXCEPT ![i] = Closed]
        /\ waitOn' = [p \in Pid |-> IF waitOn[p] = i THEN Freed ELSE waitOn[p]]
    BY <1>4 DEF sem_destroy
  <2>2. i \in opened /\ opened' = opened \ {i} /\ values' = [values EXCEPT ![i] = 0]
    BY <1>1, <2>1 DEF opened, values, Closed
  <2>3. waiting' = [p \in Pid |-> IF waiting[p] = i THEN None ELSE waiting[p]]
    BY <1>1, <2>1, NoneAssumption DEF waiting
  <2>4. Counting!Destroy(i)
    BY <2>2, <2>3 DEF Counting!Destroy, opened, values, waiting
  <2>5. QED
    BY <2>4 DEF Counting!Next
<1>5. ASSUME NEW i \in Sems, sem_post(i) PROVE Counting!Next
  <2>1. /\ sem[i].open /\ sem[i].value < MaxValue
        /\ sem' = [sem EXCEPT ![i] = up(sem[i])]
        /\ waitOn' = waitOn
    BY <1>5 DEF sem_post
  <2>2. up(sem[i]).open = sem[i].open /\ up(sem[i]).value = sem[i].value + 1
    BY DEF up
  <2>3. i \in opened /\ opened' = opened /\ values' = [values EXCEPT ![i] = @ + 1]
        /\ values[i] < MaxValue /\ waiting' = waiting
    BY <1>1, <2>1, <2>2 DEF opened, values, waiting
  <2>4. Counting!Post(i)
    BY <2>3 DEF Counting!Post, opened, values, waiting
  <2>5. QED
    BY <2>4 DEF Counting!Next
<1>6. ASSUME NEW i \in Sems, sem_post_wraps(i) PROVE Counting!Next
  <2>1. /\ sem[i].open /\ sem[i].value = MaxValue
        /\ sem' = [sem EXCEPT ![i].value = 0]
        /\ waitOn' = waitOn
    BY <1>6 DEF sem_post_wraps
  <2>2. i \in opened /\ opened' = opened /\ values' = [values EXCEPT ![i] = 0]
        /\ values[i] = MaxValue /\ waiting' = waiting
    BY <1>1, <2>1 DEF opened, values, waiting
  <2>3. Counting!RefusedPost(i)
    BY <2>2 DEF Counting!RefusedPost, opened, values, waiting
  <2>4. QED
    BY <2>3 DEF Counting!Next
<1>7. ASSUME NEW i \in Sems, sem_wait(i) PROVE Counting!Next
  <2>1. sem[i].open /\ waiting[q] = None
    BY <1>1, <1>7, NoneAssumption
       DEF sem_wait, InUser, Interruptible, SemInv, HoldOK, waiting
  <2>2. CASE Take(i)
    <3>1. Counting!Pass(i, q)
      BY <2>1, <2>2, TakeCounts
    <3>2. QED
      BY <1>1, <3>1, PassOrWait
  <2>3. CASE Sleep(i)
    <3>1. /\ sem[i].value = 0 /\ opened' = opened /\ values' = values
          /\ waiting' \in {[waiting EXCEPT ![q] = i],
                           [waiting EXCEPT ![q] = None]}
      BY <2>3, SleepKeeps
    <3>2. CASE waiting' = [waiting EXCEPT ![q] = i]
      <4>1. Counting!Wait(i, q)
        BY <2>1, <3>1, <3>2 DEF Counting!Wait, opened, values, waiting
      <4>2. QED
        BY <1>1, <4>1, PassOrWait
    <3>3. CASE waiting' = [waiting EXCEPT ![q] = None]
      <4>1. \A p \in Pid : waiting'[p] = IF p \in {q} THEN None ELSE waiting[p]
        BY <1>1, <3>3 DEF waiting
      <4>2. QED
        BY <1>1, <3>1, <4>1, GivesUp
    <3>4. QED
      BY <3>1, <3>2, <3>3
  <2>4. QED
    BY <1>7, <2>2, <2>3 DEF sem_wait
<1>8. ASSUME NEW i \in Sems, down_again(i)
      PROVE  Counting!Next \/ UNCHANGED << opened, values, waiting >>
  <2>1. sem[i].open /\ waiting[q] = i /\ waiting \in [Pid -> Sems \cup {None}]
    BY <1>1, <1>8, NoneAssumption DEF down_again, SemInv, PointsOpen, waiting
  <2>2. CASE Take(i)
    <3>1. Counting!Pass(i, q)
      BY <2>1, <2>2, TakeCounts
    <3>2. QED
      BY <1>1, <3>1, PassOrWait
  <2>3. CASE Sleep(i)
    <3>1. /\ opened' = opened /\ values' = values
          /\ waiting' \in {[waiting EXCEPT ![q] = i],
                           [waiting EXCEPT ![q] = None]}
      BY <2>3, SleepKeeps
    <3>2. CASE waiting' = [waiting EXCEPT ![q] = i]
      <4>1. waiting' = waiting
        BY <1>1, <2>1, <3>2
      <4>2. QED
        BY <3>1, <4>1
    <3>3. CASE waiting' = [waiting EXCEPT ![q] = None]
      <4>1. \A p \in Pid : waiting'[p] = IF p \in {q} THEN None ELSE waiting[p]
        BY <1>1, <3>3 DEF waiting
      <4>2. QED
        BY <1>1, <3>1, <4>1, GivesUp
    <3>4. QED
      BY <3>1, <3>2, <3>3
  <2>4. QED
    BY <1>8, <2>2, <2>3 DEF down_again
<1>9. CASE down_freed
  BY <1>9 DEF down_freed, opened, values, waiting
<1>10. CASE UNCHANGED semVars
  BY <1>10 DEF semVars, opened, values, waiting
<1>11. QED
  BY <1>2, <1>3, <1>4, <1>5, <1>6, <1>7, <1>8, <1>9, <1>10 DEF SemNext

(* Whatever the processes do and whoever is killed, the semaphores are     *)
(* counting semaphores: a pass takes one from a positive value of an open  *)
(* semaphore, each post adds one, and a process that sleeps, wakes or dies *)
(* changes no value.                                                       *)
THEOREM SemaphoresCount == SemSpec => CountsRight
<1>1. SemInit => Counting!Init
  BY NoneAssumption DEF SemInit, Closed, Counting!Init
<1>2. QED
  BY <1>1, StepCounts, SemaphoresCorrect, PTL DEF SemSpec, CountsRight, Counting!Spec
-----------------------------------------------------------------------------
(* Nobody is killed in down(): the queues are the processes asleep, and no *)
(* post is forgotten.                                                      *)

(* What Semaphores_calls leaves out: a process of a semaphore that is      *)
(* killed, and one that is woken or blocked by another from outside.       *)
Calm == Calls \cap {"kill", "ctrl_c", "wake_waiter"} = {}

(* No kill is pending, nobody dies and nobody is woken.                    *)
Stays(s, t) ==
  /\ ~ t.killFg
  /\ \A c \in Pid : /\ Alive(s, c) => Alive(t, c)
                    /\ s.status[c] = "BLOCKED" => t.status[c] = "BLOCKED"

LEMMA StaysTransitive ==
  ASSUME NEW s, NEW t, NEW u, Stays(s, t), Stays(t, u)
  PROVE  Stays(s, u)
BY DEF Stays

LEMMA StaysSame ==
  ASSUME NEW s, NEW t, ~ t.killFg, t.status = s.status
  PROVE  Stays(s, t)
BY DEF Stays, Alive

LEMMA SetPriorityFlag ==
  ASSUME NEW s \in SchedState, NEW p \in Pid, NEW np \in Prio
  PROVE  set_priority(s, p, np).killFg = s.killFg
BY DEF set_priority, SchedState

LEMMA SetStatusFlag ==
  ASSUME NEW s \in SchedState, NEW p \in Pid, NEW new
  PROVE  set_status(s, p, new).killFg = s.killFg
<1>1. /\ BlockProcess(s, p).killFg = s.killFg
      /\ WakeProcess(s, p).killFg = s.killFg
      /\ [s EXCEPT !.status[p] = "READY"].killFg = s.killFg
  BY DEF BlockProcess, WakeProcess, SchedState
<1>2. QED
  BY <1>1 DEF set_status

LEMMA PickNextFlag ==
  ASSUME NEW s \in SchedState
  PROVE  PickNext(s).killFg = s.killFg
<1> DEFINE n == get_next_pid(s)
<1> HIDE DEF n
<1>1. SwitchTo(s, n).killFg = s.killFg
  BY DEF SwitchTo, SchedState
<1>2. QED
  BY <1>1 DEF PickNext, n

LEMMA RotateFlag ==
  ASSUME NEW s \in SchedState
  PROVE  RotateCurrent(s).killFg = s.killFg
<1> DEFINE p      == s.current
           ticked == s.remaining = 0 /\ s.initial > 0
           count  == IF ticked THEN Saturate(s.consumed[p]) ELSE s.consumed[p]
           ages   == ticked /\ count >= AgingThreshold /\ s.prio[p] < NumPriorities - 1
           co     == IF ages THEN 0 ELSE count
           np     == IF ages THEN s.prio[p] + 1 ELSE s.prio[p]
           k1     == [s EXCEPT !.status[p] = "READY", !.consumed[p] = co]
           t      == set_priority(k1, p, np)
<1>1. p \in Pid /\ s.prio[p] \in Prio
  BY DEF SchedState
<1>2. co \in 0 .. AgingThreshold
  BY <1>1, AgingThresholdAssumption DEF SchedState, Saturate
<1>3. np \in Prio
  BY <1>1, NumPrioritiesAssumption DEF Prio
<1>4. RotateCurrent(s) = t
  BY DEF RotateCurrent
<1> HIDE DEF co, np
<1>5. k1 \in SchedState /\ k1.killFg = s.killFg
  BY <1>1, <1>2 DEF SchedState, Status
<1> HIDE DEF k1
<1>6. t.killFg = s.killFg
  BY <1>1, <1>3, <1>5, SetPriorityFlag
<1>7. QED
  BY <1>4, <1>6

LEMMA DispatchFlag ==
  ASSUME NEW s \in SchedState
  PROVE  Dispatch(s).killFg = s.killFg
<1> DEFINE rm == s.remaining - 1
           a == [s EXCEPT !.remaining = rm]
           t == Dispatch(s)
<1>1. rm \in Int
  BY DEF SchedState
<1>2. a \in SchedState /\ a.killFg = s.killFg
  BY <1>1 DEF SchedState
<1>3. t = a \/ t = PickNext(a) \/ t = PickNext(RotateCurrent(a))
  BY DEF Dispatch
<1> HIDE DEF a, t
<1>4. RotateCurrent(a) \in SchedState
  BY <1>2, RotateType
<1>5. t.killFg = s.killFg
  BY <1>2, <1>3, <1>4, PickNextFlag, RotateFlag
<1>6. QED
  BY <1>5 DEF t

LEMMA DropQuantumFlag ==
  ASSUME NEW s \in SchedState
  PROVE  DropQuantum(s).killFg = s.killFg
<1> DEFINE p  == s.current
           k1 == IF s.prio[p] > 0 THEN set_priority(s, p, s.prio[p] - 1) ELSE s
           co == [k1.consumed EXCEPT ![p] = 0]
           c1 == [k1 EXCEPT !.consumed = co]
           k2 == IF s.status[p] # "FREE" /\ s.initial > 0 THEN c1 ELSE s
           rq == 0
           t  == [k2 EXCEPT !.remaining = rq]
<1>1. p \in Pid /\ s.prio[p] \in Prio
  BY DEF SchedState
<1>2. s.prio[p] > 0 => s.prio[p] - 1 \in Prio
  BY <1>1, NumPrioritiesAssumption DEF Prio
<1>3. k1 \in SchedState /\ k1.killFg = s.killFg
  BY <1>1, <1>2, SetPriorityType, SetPriorityFlag
<1>4. DropQuantum(s) = t
  BY DEF DropQuantum
<1> HIDE DEF k1, co, rq
<1>5. t.killFg = s.killFg
  BY <1>1, <1>3 DEF SchedState
<1>6. QED
  BY <1>4, <1>5

(* Two states with the same list of the blocked and with the scheduler's   *)
(* invariant block the same processes.                                     *)
LEMMA SameBlockedSet ==
  ASSUME NEW s, Core(s), NEW t, Core(t), t.blocked = s.blocked
  PROVE  \A c \in Pid : s.status[c] = "BLOCKED" <=> t.status[c] = "BLOCKED"
BY DEF Core, BlockedQueueExact, Exactly, Blocked

LEMMA DispatchStays ==
  ASSUME NEW s, Core(s), ~ s.killFg, Alive(s, s.current) \/ s.remaining <= 1
  PROVE  Stays(s, Dispatch(s))
<1> DEFINE t == Dispatch(s)
<1>1. Core(t) /\ t.blocked = s.blocked /\ t.killFg = s.killFg
  BY DispatchCore, DispatchDone, DispatchFlag, CoreParts DEF Dispatched
<1>2. Moves(s, t, {})
  BY DispatchMoves
<1> HIDE DEF t
<1>3. \A c \in Pid : s.status[c] = "BLOCKED" <=> t.status[c] = "BLOCKED"
  BY <1>1, SameBlockedSet
<1>4. \A c \in Pid : Alive(s, c) => Alive(t, c)
  BY <1>2 DEF Moves, Alive
<1>5. Stays(s, t)
  BY <1>1, <1>3, <1>4 DEF Stays
<1>6. QED
  BY <1>5 DEF t

LEMMA ScheduleStays ==
  ASSUME NEW s, Core(s), ~ s.killFg, Alive(s, s.current) \/ s.remaining <= 1
  PROVE  Stays(s, schedule(s))
<1> DEFINE c == [s EXCEPT !.killFg = FALSE]
<1>1. s \in SchedState
  BY CoreParts
<1>2. /\ c \in SchedState /\ ~ c.killFg
      /\ c.status = s.status /\ c.current = s.current /\ c.remaining = s.remaining
      /\ c.prio = s.prio /\ c.parent = s.parent /\ c.waitFor = s.waitFor
      /\ c.ready = s.ready /\ c.blocked = s.blocked /\ c.zombies = s.zombies
      /\ c.nextUnused = s.nextUnused /\ c.num = s.num
  BY <1>1 DEF SchedState
<1>3. schedule(s) = Dispatch(c)
  BY DEF schedule
<1> HIDE DEF c
<1>4. Core(c)
  <2>1. OneRunning(c)
    BY <1>2 DEF Core, OneRunning
  <2>2. QED
    BY <2>1, <1>2, CoreRun
<1>5. Stays(s, c)
  BY <1>2, StaysSame
<1>6. Stays(c, Dispatch(c))
  BY <1>2, <1>4, DispatchStays DEF Alive
<1>7. QED
  BY <1>3, <1>5, <1>6, StaysTransitive

LEMMA YieldStays ==
  ASSUME NEW s, Core(s), ~ s.killFg
  PROVE  Stays(s, yield(s))
<1> DEFINE d == DropQuantum(s)
<1>1. Core(d) /\ d.remaining = 0 /\ d.killFg = s.killFg /\ d.status = s.status
  BY DropQuantumCore, DropQuantumFlag, DropQuantumFrame, CoreParts
<1>2. yield(s) = schedule(d)
  BY DEF yield
<1> HIDE DEF d
<1>3. Stays(s, d)
  BY <1>1, StaysSame
<1>4. Stays(d, schedule(d))
  BY <1>1, ScheduleStays
<1>5. QED
  BY <1>2, <1>3, <1>4, StaysTransitive

(* What a step of the scheduler does to the processes in down(): none      *)
(* leaves and none is woken, and who gets the CPU is not asleep.           *)
InDownStay ==
  /\ ~ k'.killFg
  /\ \A p \in Pid :
       at[p] = "sem_wait" =>
         /\ at'[p] = "sem_wait"
         /\ k.status[p] = "BLOCKED" => k'.status[p] = "BLOCKED"
  /\ \/ k'.status[k'.current] = "RUNNING"
     \/ k'.current = k.current /\ at'[k.current] # "sem_wait"
     \/ UNCHANGED << k, at >>

CpuAwake(s, w) == w[s.current] = "sem_wait" => s.status[s.current] # "BLOCKED"

LEMMA StaysStep ==
  ASSUME SystemInv, HoldOK(k, at, waitOn), NEW t, Step(t), Stays(k, t),
         \/ t.status[t.current] = "RUNNING"
         \/ t.current = k.current /\ at[k.current] = "user"
  PROVE  InDownStay
<1>1. k' = t /\ at' = AtAfter(t, at) /\ k.current \in Pid
  BY DEF Step, SystemInv, TypeOK, SchedState
<1>2. \A p \in Pid : at[p] = "sem_wait" => Alive(t, p)
  BY DEF HoldOK, Stays
<1>3. \A p \in Pid : at[p] = "sem_wait" => at'[p] = "sem_wait"
  BY <1>1, <1>2 DEF AtAfter, Alive
<1>4. at[k.current] = "user" => at'[k.current] # "sem_wait"
  BY <1>1 DEF AtAfter
<1>5. QED
  BY <1>1, <1>3, <1>4 DEF Stays, InDownStay

LEMMA WaitBeginFlag ==
  ASSUME NEW s \in SchedState, NEW p \in Pid
  PROVE  WaitBegin(s, p).killFg = s.killFg
<1> DEFINE w == [s.waitFor EXCEPT ![s.current] = p]
<1>1. WaitBegin(s, p) = [s EXCEPT !.waitFor = w, !.fg = p]
  BY DEF WaitBegin
<1> HIDE DEF w
<1>2. [s EXCEPT !.waitFor = w, !.fg = p].killFg = s.killFg
  BY DEF SchedState
<1>3. QED
  BY <1>1, <1>2

LEMMA CreateFlag ==
  ASSUME NEW s \in SchedState, NEW pr \in Prio, NEW si \in Stdin
  PROVE  create_process(s, pr, si).killFg = s.killFg
<1>1. AddProcess(s, pr, si).killFg = s.killFg
  BY DEF AddProcess, SchedState
<1>2. QED
  BY <1>1 DEF create_process

LEMMA KernelInDownStay ==
  ASSUME Calm, SystemInv, HoldOK(k, at, waitOn), ~ k.killFg, Next
  PROVE  InDownStay
<1>1. /\ k \in SchedState /\ Core(k) /\ Alive(k, k.current) /\ k.current \in Pid
      /\ at \in [Pid -> Where] /\ k.status \in [Pid -> Status]
      /\ "kill" \notin Calls /\ "ctrl_c" \notin Calls /\ "wake_waiter" \notin Calls
  BY DEF SystemInv, TypeOK, Sane, SchedState, Calm
<1>2. Interruptible => at[k.current] = "user"
  BY DEF Interruptible
<1>3. Step(yield(k)) => InDownStay
  BY <1>1, YieldStays, YieldEffect, StaysStep
<1>4. CASE Boot
  BY <1>3, <1>4 DEF Boot
<1>5. CASE Tick
  <2>1. Stays(k, schedule(k)) /\ GivesCpu(k, schedule(k))
    BY <1>1, ScheduleStays, ScheduleEffect DEF Effect
  <2>2. QED
    BY <1>2, <1>5, <2>1, StaysStep DEF Tick, GivesCpu
<1>6. CASE Yield
  BY <1>3, <1>6 DEF Yield
<1>7. ASSUME NEW pr \in Prio, NEW si \in ChildStdin, Create(pr, si) PROVE InDownStay
  <2> DEFINE t == create_process(k, pr, si)
  <2>1. si \in Stdin /\ ~ CreateLoops(k) /\ Step(t) /\ at[k.current] = "user"
    BY <1>2, <1>7, ChildStdinAssumption DEF Create, InUser
  <2>2. CreateResult(k, t) /\ t.killFg = k.killFg
    BY <1>1, <2>1, CoreIsTable, CreateTable, CreateFlag
  <2> HIDE DEF t
  <2>3. k.nextUnused \in Pid
    BY <1>1 DEF SchedState
  <2>4. t.current = k.current
        /\ \A c \in Pid : t.status[c] = k.status[c] \/ k.status[c] = "FREE"
    BY <1>1, <2>2, <2>3 DEF CreateResult
  <2>5. Stays(k, t)
    BY <2>2, <2>4 DEF Stays, Alive
  <2>6. QED
    BY <2>1, <2>4, <2>5, StaysStep
<1>8. CASE CreateLast
  BY <1>8 DEF CreateLast, Crash, InDownStay
<1>9. ASSUME NEW p \in Pid, NEW pr \in Prio, Nice(p, pr) PROVE InDownStay
  <2> DEFINE t == set_priority(k, p, pr)
  <2>1. t.status = k.status /\ t.killFg = k.killFg /\ t.current = k.current
    BY <1>1, SetPriorityFrame, SetPriorityFlag
  <2>2. Step(t) /\ at[k.current] = "user"
    BY <1>2, <1>9 DEF Nice, InUser
  <2> HIDE DEF t
  <2>3. QED
    BY <2>1, <2>2, StaysSame, StaysStep
<1>10. ASSUME NEW p \in Pid, NEW t, Step(t), at[p] = "user", Interruptible, ~ t.killFg,
              t.current = k.current,
              \A c \in Pid \ {p} : t.status[c] = k.status[c],
              Alive(k, p) => Alive(t, p)
       PROVE  InDownStay
  <2>1. k' = t /\ at' = AtAfter(t, at) /\ at[k.current] = "user"
    BY <1>2, <1>10 DEF Step
  <2>2. \A c \in Pid : at[c] = "sem_wait" => t.status[c] = k.status[c] /\ Alive(t, c)
    BY <1>10 DEF HoldOK, Alive
  <2>3. QED
    BY <1>1, <1>10, <2>1, <2>2 DEF InDownStay, AtAfter, Alive
<1>11. ASSUME NEW p \in Pid, Block(p) PROVE InDownStay
  <2> DEFINE t == set_status(k, p, "BLOCKED")
  <2>1. /\ t.current = k.current /\ t.killFg = k.killFg
        /\ \A c \in Pid \ {p} : t.status[c] = k.status[c]
        /\ \/ t.status[p] = k.status[p]
           \/ Alive(k, p) /\ t.status[p] = "BLOCKED"
    BY <1>1, MakeBlockedFrame, SetStatusFlag
  <2>2. Step(t) /\ at[p] = "user" /\ Interruptible
    BY <1>1, <1>11 DEF Block, InUser
  <2> HIDE DEF t
  <2>3. QED
    BY <1>10, <2>1, <2>2 DEF Alive
<1>12. ASSUME NEW p \in Pid, Unblock(p) PROVE InDownStay
  <2> DEFINE t == set_status(k, p, "READY")
  <2>1. /\ t.current = k.current /\ t.killFg = k.killFg
        /\ \A c \in Pid \ {p} : t.status[c] = k.status[c]
        /\ t.status[p] = k.status[p] \/ t.status[p] = "READY"
    BY <1>1, MakeReadyFrame, SetStatusFlag
  <2>2. Step(t) /\ at[p] = "user" /\ Interruptible
    BY <1>1, <1>12 DEF Unblock, InUser
  <2> HIDE DEF t
  <2>3. QED
    BY <1>10, <2>1, <2>2 DEF Alive
<1>13. ASSUME NEW p \in Pid, WaitpidZombie(p) PROVE InDownStay
  <2> DEFINE a == WaitBegin(k, p)
             t == WaitFinish(a)
  <2>1. /\ Step(t) /\ k.status[p] = "ZOMBIE" /\ k.parent[p] = k.current /\ at[k.current] = "user"
    BY <1>2, <1>13 DEF WaitpidZombie, OwnChild, InUser
  <2>2. /\ Core(a) /\ a.status = k.status /\ a.parent = k.parent /\ a.current = k.current
        /\ a.waitFor = [k.waitFor EXCEPT ![k.current] = p]
    BY <1>1, WaitBeginCore
  <2>3. k.waitFor \in [Pid -> Pid] /\ a.killFg = k.killFg /\ a \in SchedState
    BY <1>1, WaitBeginType, WaitBeginFlag DEF SchedState
  <2>4. Sane(a) /\ a.waitFor[a.current] = p
    BY <1>1, <2>2, <2>3 DEF Sane, Alive
  <2> HIDE DEF a
  <2>5. t.status = [a.status EXCEPT ![p] = "FREE"] /\ t.current = a.current
    BY <2>1, <2>2, <2>4, WaitFinishCore
  <2>6. t.killFg = a.killFg
    BY <2>3 DEF WaitFinish, FreeSlots, SchedState
  <2> HIDE DEF t
  <2>7. Stays(k, t)
    BY <1>1, <2>1, <2>2, <2>3, <2>5, <2>6 DEF Stays, Alive
  <2>8. QED
    BY <2>1, <2>2, <2>5, <2>7, StaysStep
<1>14. ASSUME NEW p \in Pid, WaitpidBlock(p) PROVE InDownStay
  <2> DEFINE q == k.current
             a == WaitBegin(k, p)
             b == set_status(a, q, "BLOCKED")
  <2>1. /\ k' = yield(b) /\ at' = AtAfter(k', [at EXCEPT ![q] = "waitpid"])
        /\ at[q] = "user"
    BY <1>2, <1>14 DEF WaitpidBlock, WaitBlock, InUser
  <2>2. Core(a) /\ a.status = k.status /\ a \in SchedState /\ a.killFg = k.killFg
    BY <1>1, WaitBeginCore, CoreParts, WaitBeginFlag
  <2> HIDE DEF a
  <2>3. Core(b) /\ b.killFg = a.killFg /\ \A c \in Pid \ {q} : b.status[c] = k.status[c]
    BY <1>1, <2>2, MakeBlockedCore, MakeBlockedFrame, SetStatusFlag
  <2> HIDE DEF b
  <2>4. Stays(b, k') /\ k'.status[k'.current] = "RUNNING"
    BY <2>1, <2>2, <2>3, YieldStays, YieldEffect
  <2>5. \A c \in Pid : at[c] = "sem_wait" => c # q /\ Alive(k', c)
    BY <2>1, <2>3, <2>4 DEF Stays, HoldOK, Alive
  <2>6. \A c \in Pid : at[c] = "sem_wait" => at'[c] = "sem_wait"
    BY <1>1, <2>1, <2>5 DEF AtAfter, Alive
  <2>7. QED
    BY <2>3, <2>4, <2>5, <2>6 DEF Stays, InDownStay
<1>15. CASE WaitpidReturn
  <2> DEFINE q == k.current
             c == k.waitFor[q]
  <2>1. at[q] = "waitpid" /\ q \in Pid /\ c \in Pid
    BY <1>1, <1>15 DEF WaitpidReturn, SchedState
  <2>2. CASE k.status[c] = "ZOMBIE"
    <3>1. k' = WaitFinish(k) /\ at' = [at EXCEPT ![q] = "user"]
      BY <1>15, <2>2 DEF WaitpidReturn
    <3>2. k.parent[c] = q /\ Sane(k)
      BY <2>1 DEF SystemInv, WaitOK, WaitsForChild
    <3>3. k'.status = [k.status EXCEPT ![c] = "FREE"] /\ k'.current = q
      BY <2>2, <3>1, <3>2, WaitFinishCore
    <3>4. k'.killFg = k.killFg
      BY <1>1, <3>1 DEF WaitFinish, FreeSlots, SchedState
    <3> HIDE DEF c
    <3>5. QED
      BY <1>1, <2>1, <2>2, <3>1, <3>3, <3>4 DEF InDownStay, HoldOK, Alive
  <2>3. CASE k.status[c] # "ZOMBIE"
    BY <1>15, <2>3 DEF WaitpidReturn, Crash, InDownStay
  <2>4. QED
    BY <2>2, <2>3
<1>16. ~ CtrlC /\ \A p \in Pid : ~ Kill(p)
  BY <1>1 DEF CtrlC, Kill
<1>17. QED
  BY <1>4, <1>5, <1>6, <1>7, <1>8, <1>9, <1>11, <1>12, <1>13, <1>14, <1>15, <1>16 DEF Next

(* The inductive invariant.  The awake of a semaphore can only be counted  *)
(* against its value when the process that looks at the value again is one *)
(* of them, hence CpuAwake.                                                *)
SemOK(i) ==
  /\ Exactly(sem[i].queue, Asleep(i))
  /\ Asleep(i) # {} => Cardinality(Woken(i)) >= sem[i].value

CalmInv ==
  /\ ~ k.killFg
  /\ at[IDLE] # "sem_wait"
  /\ CpuAwake(k, at)
  /\ \A i \in Sems : SemOK(i)

LEMMA ExactTail ==
  ASSUME NEW S, NEW q \in Seq(Pid), q # << >>, Exactly(q, S)
  PROVE  Head(q) \in S /\ Exactly(Tail(q), S \ {Head(q)})
<1>1. /\ Tail(q) \in Seq(Pid) /\ Len(Tail(q)) = Len(q) - 1 /\ Len(q) \in Nat \ {0}
      /\ \A j \in 1 .. Len(q) - 1 : Tail(q)[j] = q[j + 1]
      /\ Head(q) = q[1]
  OBVIOUS
<1>2. /\ \A i, j \in 1 .. Len(q) : q[i] = q[j] => i = j
      /\ S = {q[i] : i \in 1 .. Len(q)}
  BY DEF Exactly, ListSet
<1>3. \A i, j \in 1 .. Len(Tail(q)) : Tail(q)[i] = Tail(q)[j] => i = j
  BY <1>1, <1>2
<1>4. {Tail(q)[j] : j \in 1 .. Len(Tail(q))} = S \ {Head(q)}
  <2>1. ASSUME NEW x \in S, x # q[1]
        PROVE  \E j \in 1 .. Len(q) - 1 : Tail(q)[j] = x
    <3>1. PICK i \in 1 .. Len(q) : q[i] = x
      BY <1>2, <2>1
    <3>2. i # 1
      BY <2>1, <3>1
    <3>3. i - 1 \in 1 .. Len(q) - 1
      BY <1>1, <3>1, <3>2
    <3>4. Tail(q)[i - 1] = q[(i - 1) + 1] /\ (i - 1) + 1 = i
      BY <1>1, <3>3
    <3>5. QED
      BY <3>1, <3>3, <3>4
  <2>2. ASSUME NEW j \in 1 .. Len(q) - 1
        PROVE  Tail(q)[j] \in S /\ Tail(q)[j] # q[1]
    <3>1. j + 1 \in 1 .. Len(q) /\ j + 1 # 1 /\ 1 \in 1 .. Len(q)
      BY <1>1
    <3>2. QED
      BY <1>1, <1>2, <3>1
  <2>3. QED
    BY <1>1, <2>1, <2>2
<1>5. Head(q) \in S
  BY <1>1, <1>2
<1>6. QED
  BY <1>3, <1>4, <1>5 DEF Exactly, ListSet

LEMMA WaitersFinite ==
  ASSUME NEW i \in Sems
  PROVE  IsFiniteSet(Woken(i)) /\ Cardinality(Woken(i)) \in Nat
<1>1. IsFiniteSet(Pid)
  BY FS_Interval, MaxProcessesAssumption DEF Pid
<1>2. Woken(i) \in SUBSET Pid
  BY DEF Woken, SemWaiters
<1>3. QED
  BY <1>1, <1>2, FS_Subset, FS_CardinalityType

(* A semaphore whose waiters sleep and wake as before.                     *)
LEMMA SameSem ==
  ASSUME NEW i \in Sems, SemOK(i), sem'[i] = sem[i],
         \A p \in Pid : /\ at'[p] = "sem_wait" /\ waitOn'[p] = i
                             <=> at[p] = "sem_wait" /\ waitOn[p] = i
                        /\ at[p] = "sem_wait" /\ waitOn[p] = i =>
                             (k'.status[p] = "BLOCKED" <=> k.status[p] = "BLOCKED")
  PROVE  SemOK(i)'
<1>1. Asleep(i)' = Asleep(i) /\ Woken(i)' = Woken(i)
  BY DEF Asleep, Woken, SemWaiters
<1>2. QED
  BY <1>1 DEF SemOK

LEMMA KernelCalm ==
  ASSUME Calm, SemInv, CalmInv, Kernel
  PROVE  CalmInv'
<1>1. InDownStay /\ DownKept /\ "wake_waiter" \notin Calls
  BY KernelInDownStay, KernelDownKept DEF SemInv, CalmInv, Kernel, Calm
<1>2. sem' = sem /\ IDLE \in Pid
      /\ \A p \in Pid : waitOn'[p] = IF at'[p] = "sem_wait" THEN waitOn[p] ELSE None
  BY CoreParts DEF Kernel, Holding, SemInv, SystemInv, Sane
<1>3. ~ k'.killFg /\ at'[IDLE] # "sem_wait" /\ CpuAwake(k', at')
  BY <1>1, <1>2 DEF InDownStay, DownKept, CpuAwake, CalmInv
<1>4. ASSUME NEW i \in Sems PROVE SemOK(i)'
  BY <1>1, <1>2, SameSem DEF InDownStay, DownKept, CalmInv
<1>5. QED
  BY <1>3, <1>4 DEF CalmInv

LEMMA PostCalm ==
  ASSUME SemInv, CalmInv, NEW i \in Sems, sem_post(i)
  PROVE  CalmInv'
<1> DEFINE q == sem[i].queue
           h == Head(q)
           t == WakeFirst(k, q)
<1>1. /\ k \in SchedState /\ Core(k) /\ k.current \in Pid
      /\ sem \in [Sems -> [open : BOOLEAN, value : 0 .. MaxValue, queue : Seq(Pid)]]
  BY DEF SemInv, SystemInv, TypeOK, Sane, SemTypes, SchedState
<1>2. /\ k' = t /\ at' = AtAfter(t, at) /\ waitOn' = waitOn
      /\ sem' = [sem EXCEPT ![i] = up(sem[i])]
      /\ at[k.current] = "user"
  BY DEF sem_post, Step, InUser, Interruptible
<1>3. /\ sem'[i].value = sem[i].value + 1 /\ sem'[i].queue = RestAfterWake(q)
      /\ \A j \in Sems \ {i} : sem'[j] = sem[j]
  BY <1>1, <1>2 DEF up
<1>4. q \in Seq(Pid) /\ SemOK(i)
  BY <1>1 DEF CalmInv
<1> HIDE DEF q
<1>5. CASE q = << >>
  <2>1. k' = k
    BY <1>2, <1>5 DEF WakeFirst
  <2>2. \A p \in Pid : at'[p] = "sem_wait" <=> at[p] = "sem_wait"
    BY <1>2, <2>1 DEF AtAfter, SemInv, HoldOK, Alive
  <2>3. Asleep(i) = {} /\ Asleep(i)' = {}
    <3>1. Asleep(i) = {}
      BY <1>4, <1>5 DEF SemOK, Exactly, ListSet, q
    <3>2. QED
      BY <1>2, <2>1, <2>2, <3>1 DEF Asleep, SemWaiters
  <2>4. SemOK(i)'
    BY <1>3, <1>4, <1>5, <2>3 DEF SemOK, RestAfterWake, q
  <2>5. ASSUME NEW j \in Sems \ {i} PROVE SemOK(j)'
    BY <1>2, <1>3, <2>1, <2>2, SameSem DEF CalmInv
  <2>6. ~ k'.killFg /\ at'[IDLE] # "sem_wait" /\ CpuAwake(k', at')
    BY <1>1, <1>2, <2>1, <2>2, CoreParts DEF CalmInv, CpuAwake
  <2>7. QED
    BY <2>4, <2>5, <2>6 DEF CalmInv
<1>6. CASE q # << >>
  <2>1. h \in Asleep(i) /\ Exactly(Tail(q), Asleep(i) \ {h})
    BY <1>4, <1>6, ExactTail DEF SemOK, q
  <2>2. h \in Pid /\ at[h] = "sem_wait" /\ waitOn[h] = i /\ k.status[h] = "BLOCKED"
    BY <2>1 DEF Asleep, SemWaiters
  <2>3. h # IDLE
    BY <2>2 DEF CalmInv
  <2>4. t = set_status(k, h, "READY")
    BY <1>6 DEF WakeFirst
  <2> HIDE DEF h, t
  <2>5. /\ \A c \in Pid \ {h} : t.status[c] = k.status[c]
        /\ t.status[h] = "READY" /\ t.current = k.current /\ t.killFg = k.killFg
    BY <1>1, <2>2, <2>3, <2>4, MakeReadyFrame, SetStatusFlag
  <2>6. \A p \in Pid : at'[p] = "sem_wait" <=> at[p] = "sem_wait"
    BY <1>2, <2>2, <2>5 DEF AtAfter, SemInv, HoldOK, Alive
  <2>7. Asleep(i)' = Asleep(i) \ {h} /\ Woken(i)' = Woken(i) \cup {h} /\ h \notin Woken(i)
    BY <1>2, <2>1, <2>2, <2>5, <2>6 DEF Asleep, Woken, SemWaiters
  <2>8. SemOK(i)'
    <3>1. Exactly(sem'[i].queue, Asleep(i)')
      BY <1>3, <1>6, <2>1, <2>7 DEF RestAfterWake
    <3>2. Cardinality(Woken(i)) >= sem[i].value
      BY <1>4, <2>1 DEF SemOK
    <3>3. Cardinality(Woken(i)') = Cardinality(Woken(i)) + 1
      BY <2>7, WaitersFinite, FS_AddElement
    <3>4. Cardinality(Woken(i)') >= sem'[i].value
      BY <1>1, <1>3, <3>2, <3>3, WaitersFinite
    <3>5. QED
      BY <3>1, <3>4 DEF SemOK
  <2>9. ASSUME NEW j \in Sems \ {i} PROVE SemOK(j)'
    BY <1>2, <1>3, <2>2, <2>5, <2>6, SameSem DEF CalmInv
  <2>10. ~ k'.killFg /\ at'[IDLE] # "sem_wait" /\ CpuAwake(k', at')
    BY <1>1, <1>2, <2>5, <2>6, CoreParts DEF CalmInv, CpuAwake
  <2>11. QED
    BY <2>8, <2>9, <2>10 DEF CalmInv
<1>7. QED
  BY <1>5, <1>6

LEMMA SleepStays ==
  ASSUME SemInv, CalmInv, NEW i \in Sems, Sleep(i), k.current # IDLE
  PROVE  /\ ~ k'.killFg /\ k'.status[k'.current] = "RUNNING"
         /\ at'[k.current] = "sem_wait" /\ k'.status[k.current] = "BLOCKED"
         /\ \A p \in Pid \ {k.current} :
              k.status[p] = "BLOCKED" => k'.status[p] = "BLOCKED"
<1> DEFINE q == k.current
           b == set_status(k, q, "BLOCKED")
           w == [at EXCEPT ![q] = "sem_wait"]
<1>1. /\ k \in SchedState /\ at \in [Pid -> Where] /\ Core(k) /\ Alive(k, q) /\ q \in Pid
      /\ ~ k.killFg /\ k.status \in [Pid -> Status]
  BY DEF SemInv, SystemInv, TypeOK, Sane, SchedState, CalmInv
<1>2. k' = yield(b) /\ at' = AtAfter(k', w)
  BY DEF Sleep
<1>3. Core(b) /\ ~ b.killFg /\ \A c \in Pid \ {q} : b.status[c] = k.status[c]
  BY <1>1, MakeBlockedCore, MakeBlockedFrame, SetStatusFlag
<1>4. b.status[q] = "BLOCKED"
  <2>1. BlockProcess(k, q).status = [k.status EXCEPT ![q] = "BLOCKED"]
    BY <1>1 DEF BlockProcess, SchedState
  <2>2. b = IF k.status[q] = "BLOCKED" THEN k ELSE BlockProcess(k, q)
    BY <1>1 DEF set_status, Alive
  <2>3. QED
    BY <1>1, <2>1, <2>2
<1> HIDE DEF b
<1>5. Stays(b, k') /\ k'.status[k'.current] = "RUNNING"
  BY <1>2, <1>3, YieldStays, YieldEffect
<1>6. k'.status[q] = "BLOCKED"
  BY <1>1, <1>4, <1>5 DEF Stays
<1>7. at'[q] = "sem_wait"
  BY <1>1, <1>2, <1>6 DEF AtAfter
<1>8. QED
  BY <1>3, <1>5, <1>6, <1>7 DEF Stays

LEMMA SleepCalm ==
  ASSUME SemInv, CalmInv, NEW i \in Sems, Sleep(i), k.current # IDLE,
         k.current \notin Asleep(i),
         at[k.current] = "sem_wait" => waitOn[k.current] = i
  PROVE  CalmInv'
<1> DEFINE q == k.current
<1>1. /\ q \in Pid /\ IDLE \in Pid
      /\ sem \in [Sems -> [open : BOOLEAN, value : 0 .. MaxValue, queue : Seq(Pid)]]
  BY CoreParts DEF SemInv, SystemInv, TypeOK, Sane, SchedState, SemTypes
<1>2. /\ ~ k'.killFg /\ k'.status[k'.current] = "RUNNING"
      /\ at'[q] = "sem_wait" /\ k'.status[q] = "BLOCKED" /\ waitOn'[q] = i
      /\ \A p \in Pid \ {q} : /\ at'[p] = "sem_wait" <=> at[p] = "sem_wait"
                              /\ waitOn'[p] = waitOn[p]
                              /\ k'.status[p] = "BLOCKED" <=> k.status[p] = "BLOCKED"
  BY SleepStays, SleepEffect
<1>3. sem' = [sem EXCEPT ![i].queue = Append(@, q)] /\ sem[i].value = 0
  BY DEF Sleep, list_append
<1>4. /\ sem'[i].value = 0 /\ sem'[i].queue = Append(sem[i].queue, q)
      /\ \A j \in Sems \ {i} : sem'[j] = sem[j]
  BY <1>1, <1>3
<1>5. sem[i].queue \in Seq(Pid) /\ SemOK(i)
  BY <1>1 DEF CalmInv
<1>6. SemOK(i)'
  <2>1. Asleep(i)' = Asleep(i) \cup {q}
    BY <1>1, <1>2 DEF Asleep, SemWaiters
  <2>2. Exactly(sem'[i].queue, Asleep(i)')
    BY <1>1, <1>4, <1>5, <2>1, ExactAppend DEF SemOK, list_append
  <2>3. (Cardinality(Woken(i)) \in Nat)'
    <3>1. IsFiniteSet(Pid)
      BY FS_Interval, MaxProcessesAssumption DEF Pid
    <3>2. Woken(i)' \in SUBSET Pid
      BY DEF Woken, SemWaiters
    <3>3. QED
      BY <3>1, <3>2, FS_Subset, FS_CardinalityType
  <2>4. QED
    BY <1>4, <2>2, <2>3 DEF SemOK
<1>7. ASSUME NEW j \in Sems \ {i} PROVE SemOK(j)'
  BY <1>1, <1>2, <1>4, SameSem DEF CalmInv
<1>8. at'[IDLE] # "sem_wait" /\ CpuAwake(k', at')
  BY <1>1, <1>2 DEF CalmInv, CpuAwake
<1>9. QED
  BY <1>2, <1>6, <1>7, <1>8 DEF CalmInv

(* A process that passes leaves the semaphore it waits in, if any, and is  *)
(* then one of the awake.                                                  *)
LEMMA TakeCalm ==
  ASSUME SemInv, CalmInv, NEW i \in Sems, Take(i),
         at[k.current] = "sem_wait" => waitOn[k.current] = i
  PROVE  CalmInv'
<1> DEFINE q == k.current
<1>1. /\ sem \in [Sems -> [open : BOOLEAN, value : 0 .. MaxValue, queue : Seq(Pid)]]
      /\ at \in [Pid -> Where] /\ q \in Pid
  BY DEF SemInv, SystemInv, TypeOK, SemTypes, SchedState
<1>2. /\ k' = k /\ sem' = [sem EXCEPT ![i].value = @ - 1] /\ sem[i].value > 0
      /\ at' = [at EXCEPT ![q] = "user"] /\ waitOn' = Holding(at', waitOn)
  BY DEF Take
<1>3. /\ sem'[i].value = sem[i].value - 1 /\ sem'[i].queue = sem[i].queue
      /\ \A j \in Sems \ {i} : sem'[j] = sem[j]
  BY <1>1, <1>2
<1>4. /\ at'[q] = "user"
      /\ \A p \in Pid \ {q} : at'[p] = at[p] /\ (at[p] = "sem_wait" => waitOn'[p] = waitOn[p])
  BY <1>1, <1>2 DEF Holding
<1>5. at[q] = "sem_wait" => k.status[q] # "BLOCKED"
  BY DEF CalmInv, CpuAwake
<1>6. Asleep(i)' = Asleep(i) /\ Woken(i)' = Woken(i) \ {q}
  <2>1. SemWaiters(i)' = SemWaiters(i) \ {q}
    <3>1. ASSUME NEW p \in Pid \ {q}
          PROVE  at'[p] = "sem_wait" /\ waitOn'[p] = i <=> at[p] = "sem_wait" /\ waitOn[p] = i
      BY <1>4
    <3>2. at'[q] # "sem_wait"
      BY <1>4
    <3>3. QED
      BY <1>1, <3>1, <3>2 DEF SemWaiters
  <2>2. q \notin Asleep(i)
    BY <1>5 DEF Asleep, SemWaiters
  <2>3. QED
    BY <1>2, <2>1, <2>2 DEF Asleep, Woken
<1>7. SemOK(i)'
  <2> DEFINE W == Woken(i)
  <2>0. IsFiniteSet(W) /\ Cardinality(W) \in Nat /\ Woken(i)' = W \ {q}
    BY <1>6, WaitersFinite
  <2> HIDE DEF W
  <2>1. Cardinality(W \ {q}) >= Cardinality(W) - 1
    <3>1. Cardinality(W \ {q}) = IF q \in W THEN Cardinality(W) - 1 ELSE Cardinality(W)
      BY <2>0, FS_RemoveElement
    <3>2. CASE q \in W
      BY <2>0, <3>1, <3>2
    <3>3. CASE q \notin W
      BY <2>0, <3>1, <3>3
    <3>4. QED
      BY <3>2, <3>3
  <2>2. Cardinality(W \ {q}) \in Nat
    BY <2>0, FS_RemoveElement, FS_CardinalityType
  <2>3. SemOK(i) /\ sem[i].value \in Nat
    BY <1>1, MaxValueAssumption DEF CalmInv
  <2>4. Asleep(i) # {} => Cardinality(Woken(i)') >= sem'[i].value
    BY <1>3, <2>0, <2>1, <2>2, <2>3 DEF SemOK, W
  <2>5. QED
    BY <1>3, <1>6, <2>3, <2>4 DEF SemOK
<1>8. ASSUME NEW j \in Sems \ {i} PROVE SemOK(j)'
  BY <1>1, <1>2, <1>3, <1>4, SameSem DEF CalmInv
<1>9. ~ k'.killFg /\ at'[IDLE] # "sem_wait" /\ CpuAwake(k', at')
  BY <1>1, <1>2, <1>4 DEF CalmInv, CpuAwake, SemInv, SystemInv, TypeOK
<1>10. QED
  BY <1>7, <1>8, <1>9 DEF CalmInv

(* A new semaphore, or one that was freed, has nobody in it.               *)
LEMMA EmptySem ==
  ASSUME NEW i \in Sems, sem'[i].queue = << >>, SemWaiters(i)' = {}
  PROVE  SemOK(i)'
<1>1. Asleep(i)' = {}
  BY DEF Asleep
<1>2. Exactly(<< >>, {})
  BY DEF Exactly, ListSet
<1>3. QED
  BY <1>1, <1>2 DEF SemOK

LEMMA NextCalm ==
  ASSUME Calm
  PROVE  SemInv /\ CalmInv /\ [SemNext]_semVars => CalmInv'
<1> SUFFICES ASSUME SemInv, CalmInv, [SemNext]_semVars PROVE CalmInv'
  OBVIOUS
<1>0. /\ sem \in [Sems -> [open : BOOLEAN, value : 0 .. MaxValue, queue : Seq(Pid)]]
      /\ waitOn \in [Pid -> Sems \cup {None, Freed}] /\ k.current \in Pid
  BY DEF SemInv, SystemInv, TypeOK, SchedState, SemTypes
<1>1. CASE Kernel
  BY <1>1, KernelCalm
<1>2. ASSUME NEW i \in Sems, NEW v \in InitialValues, sem_init(i, v) PROVE CalmInv'
  <2>1. UNCHANGED << vars, waitOn >> /\ ~ sem[i].open
    BY <1>2 DEF sem_init
  <2>2. \A p \in Pid : waitOn[p] # i
    BY <2>1 DEF SemInv, PointsOpen
  <2>3. sem'[i].queue = << >> /\ \A j \in Sems \ {i} : sem'[j] = sem[j]
    BY <1>0, <1>2 DEF sem_init
  <2>4. SemOK(i)'
    <3>1. SemWaiters(i)' = {}
      BY <2>1, <2>2 DEF vars, SemWaiters
    <3>2. QED
      BY <2>3, <3>1, EmptySem
  <2>5. ASSUME NEW j \in Sems \ {i} PROVE SemOK(j)'
    BY <2>1, <2>3, SameSem DEF vars, CalmInv
  <2>6. QED
    BY <2>1, <2>4, <2>5 DEF vars, CalmInv
<1>3. ASSUME NEW i \in Sems, sem_destroy(i) PROVE CalmInv'
  <2>1. UNCHANGED vars
    BY <1>3 DEF sem_destroy
  <2>2. \A p \in Pid : waitOn'[p] # i /\ \A j \in Sems \ {i} : waitOn'[p] = j <=> waitOn[p] = j
    BY <1>0, <1>3, NoneAssumption DEF sem_destroy
  <2>3. sem'[i].queue = << >> /\ \A j \in Sems \ {i} : sem'[j] = sem[j]
    BY <1>0, <1>3 DEF sem_destroy, Closed
  <2>4. SemOK(i)'
    <3>1. SemWaiters(i)' = {}
      BY <2>2 DEF SemWaiters
    <3>2. QED
      BY <2>3, <3>1, EmptySem
  <2>5. ASSUME NEW j \in Sems \ {i} PROVE SemOK(j)'
    BY <2>1, <2>2, <2>3, SameSem DEF vars, CalmInv
  <2>6. QED
    BY <2>1, <2>4, <2>5 DEF vars, CalmInv
<1>4. ASSUME NEW i \in Sems, sem_post(i) PROVE CalmInv'
  BY <1>4, PostCalm
<1>5. ASSUME NEW i \in Sems, sem_post_wraps(i) PROVE CalmInv'
  <2>1. UNCHANGED << vars, waitOn >> /\ sem' = [sem EXCEPT ![i].value = 0]
    BY <1>5 DEF sem_post_wraps
  <2>2. /\ sem'[i].queue = sem[i].queue /\ sem'[i].value = 0
        /\ \A j \in Sems \ {i} : sem'[j] = sem[j]
    BY <1>0, <2>1
  <2>3. SemOK(i)'
    <3>1. Asleep(i)' = Asleep(i) /\ Woken(i)' = Woken(i)
      BY <2>1 DEF vars, Asleep, Woken, SemWaiters
    <3>2. QED
      BY <2>2, <3>1, WaitersFinite DEF SemOK, CalmInv
  <2>4. ASSUME NEW j \in Sems \ {i} PROVE SemOK(j)'
    BY <2>1, <2>2, SameSem DEF vars, CalmInv
  <2>5. QED
    BY <2>1, <2>3, <2>4 DEF vars, CalmInv
<1>6. ASSUME NEW i \in Sems, sem_wait(i) PROVE CalmInv'
  <2>1. /\ Take(i) \/ Sleep(i)
        /\ at[k.current] = "user" /\ k.current # IDLE
    BY <1>6 DEF sem_wait, InUser, Interruptible
  <2>2. k.current \notin Asleep(i)
    BY <2>1 DEF Asleep, SemWaiters
  <2>3. QED
    BY <2>1, <2>2, TakeCalm, SleepCalm
<1>7. ASSUME NEW i \in Sems, down_again(i) PROVE CalmInv'
  <2>1. /\ Take(i) \/ Sleep(i)
        /\ at[k.current] = "sem_wait" /\ waitOn[k.current] = i
    BY <1>7 DEF down_again, InDown
  <2>2. k.current \notin Asleep(i) /\ k.current # IDLE
    BY <2>1 DEF Asleep, SemWaiters, CalmInv, CpuAwake
  <2>3. QED
    BY <2>1, <2>2, TakeCalm, SleepCalm
<1>8. ASSUME UNCHANGED << k, at, sem, waitOn >> PROVE CalmInv'
  BY <1>8, SameSem DEF CalmInv
<1>9. CASE down_freed
  BY <1>8, <1>9 DEF down_freed, Crash
<1>10. CASE UNCHANGED semVars
  BY <1>8, <1>10 DEF semVars, vars
<1>11. QED
  BY <1>1, <1>2, <1>3, <1>4, <1>5, <1>6, <1>7, <1>9, <1>10 DEF SemNext

LEMMA InitCalm == SemInit => CalmInv
<1> SUFFICES ASSUME SemInit PROVE CalmInv
  OBVIOUS
<1>1. /\ at = [p \in Pid |-> "user"] /\ sem = [i \in Sems |-> Closed]
      /\ k = create_process(WithIdle, ShellPriority, "STDIN")
  BY DEF SemInit, Init
<1>2. SemInv
  BY InitSemInv
<1>3. IDLE \in Pid /\ k.current \in Pid
  BY <1>2, CoreParts DEF SemInv, SystemInv, Sane
<1>4. at[IDLE] # "sem_wait" /\ CpuAwake(k, at)
  BY <1>1, <1>3 DEF CpuAwake
<1>5. ~ k.killFg
  <2>1. ~ scheduler_init.killFg /\ scheduler_init \in SchedState
    BY InitType DEF scheduler_init
  <2>2. WithIdle \in SchedState /\ ~ WithIdle.killFg
    <3>1. 0 \in Prio
      BY NumPrioritiesAssumption DEF Prio
    <3>2. "STDIN" \in Stdin
      BY DEF Stdin
    <3>3. WithIdle \in SchedState
      BY <2>1, <3>1, <3>2, CreateType, BootFindsSlots DEF WithIdle
    <3>4. QED
      BY <2>1, <3>1, <3>2, <3>3, CreateFlag DEF WithIdle
  <2>3. QED
    BY <1>1, <2>2, CreateFlag, ShellPriorityAssumption DEF Stdin
<1>6. ASSUME NEW i \in Sems PROVE SemOK(i)
  <2>1. Asleep(i) = {} /\ sem[i].queue = << >>
    BY <1>1 DEF Asleep, SemWaiters, Closed
  <2>2. QED
    BY <2>1 DEF SemOK, Exactly, ListSet
<1>7. QED
  BY <1>4, <1>5, <1>6 DEF CalmInv

LEMMA AlwaysCalm ==
  ASSUME Calm
  PROVE  SemSpec => []CalmInv
<1>1. SemInv /\ CalmInv /\ [SemNext]_semVars => CalmInv'
  BY NextCalm
<1>2. QED
  BY <1>1, InitCalm, SemaphoresCorrect, PTL DEF SemSpec

(* Where nobody is killed in down() or woken from outside, a semaphore's   *)
(* queue is the processes asleep in it, each once: every post that takes   *)
(* an entry wakes a process that waits for it.                             *)
THEOREM QueuesAreSleepers ==
  ASSUME Calm
  PROVE  SemSpec => []QueueIsSleepers
<1>1. CalmInv => QueueIsSleepers
  BY DEF CalmInv, SemOK, QueueIsSleepers
<1>2. QED
  BY <1>1, AlwaysCalm, PTL

(* There, while processes sleep in a semaphore, every unit of its value    *)
(* has a woken process that is still to look at it: no post is forgotten,  *)
(* also when one that never waited takes the value before the woken one.   *)
THEOREM PostsRemembered ==
  ASSUME Calm
  PROVE  SemSpec => []NoPostForgotten
<1>1. CalmInv => NoPostForgotten
  BY DEF CalmInv, SemOK, NoPostForgotten
<1>2. QED
  BY <1>1, AlwaysCalm, PTL
=============================================================================
