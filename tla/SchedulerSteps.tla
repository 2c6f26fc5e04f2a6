--------------------------- MODULE SchedulerSteps ---------------------------
(***************************************************************************)
(* What no step of the scheduler does, for every size of the table and set *)
(* of calls: idle is not preferred to a ready process, a zombie is not     *)
(* lost to its parent, and waitpid frees no child before its exit.         *)
(***************************************************************************)
EXTENDS SchedulerSafety, WellFoundedInduction

-----------------------------------------------------------------------------
(* get_next_pid misses no level: a set of levels has one that is nearest   *)
(* below the current level.                                                *)

LEMMA NatHasLeast ==
  ASSUME NEW T, T \subseteq Nat, T # {}
  PROVE  \E x \in T : \A y \in T : x <= y
<1> DEFINE R == OpToRel(<, Nat)
<1>1. IsWellFoundedOn(R, Nat)
  BY NatLessThanWellFounded
<1>2. \A x, y \in Nat : << y, x >> \in R <=> y < x
  BY DEF OpToRel
<1> HIDE DEF R
<1>3. \E x \in T : \A y \in T : ~ (<< y, x >> \in R)
  <2>1. T \subseteq Nat /\ T # {}
    OBVIOUS
  <2>2. QED
    BY <1>1, <2>1, WFMin, Zenon
<1>4. PICK x \in T : \A y \in T : ~ (<< y, x >> \in R)
  BY <1>3
<1>5. ASSUME NEW y \in T PROVE x <= y
  <2>1. x \in Nat /\ y \in Nat
    OBVIOUS
  <2>2. ~ (y < x)
    BY <1>2, <1>4, <2>1
  <2>3. QED
    BY <2>1, <2>2
<1>6. QED
  BY <1>5

LEMMA NoLevelMissed ==
  ASSUME NEW s \in SchedState, NextLevels(s) = {}
  PROVE  \A l \in Prio : s.ready[l] = << >>
<1> SUFFICES ASSUME NEW l \in Prio, s.ready[l] # << >> PROVE FALSE
  OBVIOUS
<1> DEFINE nonEmpty == {m \in Prio : s.ready[m] # << >>}
           T == {StepsDown(s.level, m) : m \in nonEmpty}
<1>1. s.level \in Prio
  BY DEF SchedState
<1>2. \A m \in Prio : StepsDown(s.level, m) \in Nat
  BY <1>1, NumPrioritiesAssumption DEF StepsDown, Prio
<1>3. T \subseteq Nat /\ T # {}
  BY <1>2
<1>4. PICK x \in T : \A y \in T : x <= y
  BY <1>3, NatHasLeast
<1>5. PICK m \in nonEmpty : x = StepsDown(s.level, m)
  BY <1>4
<1>6. \A n \in nonEmpty : StepsDown(s.level, m) <= StepsDown(s.level, n)
  BY <1>4, <1>5
<1>7. m \in NextLevels(s)
  BY <1>5, <1>6 DEF NextLevels
<1>8. QED
  BY <1>7

-----------------------------------------------------------------------------
(* The dispatch changes nobody's blocking, and gives the CPU to idle only  *)
(* when nobody is ready; it keeps it only while the quantum lasts.         *)
Dispatched(s, t) ==
  /\ t.blocked = s.blocked
  /\ \/ t.current = s.current /\ s.remaining > 1
     \/ /\ t.status[t.current] = "RUNNING"
        /\ t.current = IDLE => \A l \in Prio : t.ready[l] = << >>

LEMMA PickNextIdle ==
  ASSUME NEW s, Core(s), NoneRuns(s)
  PROVE  /\ PickNext(s).blocked = s.blocked
         /\ PickNext(s).status[PickNext(s).current] = "RUNNING"
         /\ PickNext(s).current = IDLE => \A l \in Prio : PickNext(s).ready[l] = << >>
<1> DEFINE n == get_next_pid(s)
           t == PickNext(s)
<1>1. s \in SchedState
  BY CoreParts
<1>2. n.pid = IDLE => \A l \in Prio : s.ready[l] = << >>
  <2>1. CASE NextLevels(s) = {}
    BY <1>1, <2>1, NoLevelMissed
  <2>2. CASE NextLevels(s) # {}
    <3> DEFINE l == CHOOSE m \in NextLevels(s) : TRUE
    <3>1. l \in NextLevels(s) /\ n.pid = s.ready[l][1]
      BY <2>2 DEF get_next_pid
    <3>2. l \in Prio /\ s.ready[l] # << >>
      BY <3>1 DEF NextLevels
    <3> HIDE DEF l
    <3>3. s.ready[l][1] \in Runnable(s, l)
      BY <3>2, CoreParts, ExactHead
    <3>4. QED
      BY <3>1, <3>3 DEF Runnable
  <2>3. QED
    BY <2>1, <2>2
<1> HIDE DEF n
<1>3. t.ready = s.ready /\ t.blocked = s.blocked /\ t.current = n.pid
  BY <1>1 DEF SchedState, PickNext, SwitchTo, n
<1>4. t.status[t.current] = "RUNNING"
  BY PickNextCore
<1> HIDE DEF t
<1>5. QED
  BY <1>2, <1>3, <1>4 DEF t

LEMMA RotateFrame ==
  ASSUME NEW s \in SchedState
  PROVE  RotateCurrent(s).blocked = s.blocked
<1> DEFINE p      == s.current
           ticked == s.remaining = 0 /\ s.initial > 0
           count  == IF ticked THEN Saturate(s.consumed[p]) ELSE s.consumed[p]
           ages   == ticked /\ count >= AgingThreshold /\ s.prio[p] < NumPriorities - 1
           co     == IF ages THEN 0 ELSE count
           np     == IF ages THEN s.prio[p] + 1 ELSE s.prio[p]
           k1     == [s EXCEPT !.status[p] = "READY", !.consumed[p] = co]
<1>1. p \in Pid /\ s.prio[p] \in Prio
  BY DEF SchedState
<1>2. co \in 0 .. AgingThreshold
  BY <1>1, AgingThresholdAssumption DEF SchedState, Saturate
<1>3. np \in Prio
  BY <1>1, NumPrioritiesAssumption DEF Prio
<1>4. RotateCurrent(s) = set_priority(k1, p, np)
  BY DEF RotateCurrent
<1> HIDE DEF co, np
<1>5. k1 \in SchedState /\ k1.blocked = s.blocked
  BY <1>1, <1>2 DEF SchedState, Status
<1> HIDE DEF k1
<1>6. QED
  BY <1>1, <1>3, <1>4, <1>5, SetPriorityFrame

LEMMA DispatchDone ==
  ASSUME NEW s, Core(s)
  PROVE  Dispatched(s, Dispatch(s))
<1> DEFINE rm == s.remaining - 1
           a == [s EXCEPT !.remaining = rm]
           t == Dispatch(s)
<1>1. s \in SchedState /\ s.remaining \in Int
  <2>1. s \in SchedState
    BY CoreParts
  <2>2. QED
    BY <2>1 DEF SchedState
<1>2. /\ a \in SchedState /\ a.status = s.status /\ a.current = s.current
      /\ a.prio = s.prio /\ a.parent = s.parent /\ a.waitFor = s.waitFor
      /\ a.ready = s.ready /\ a.blocked = s.blocked /\ a.zombies = s.zombies
      /\ a.nextUnused = s.nextUnused /\ a.num = s.num /\ a.remaining = rm
  <2>1. rm \in Int
    BY <1>1
  <2> HIDE DEF rm
  <2>2. QED
    BY <1>1, <2>1 DEF SchedState
<1>3. t = IF a.num = 0 \/ a.remaining > 0 THEN a
          ELSE IF a.status[a.current] = "RUNNING" THEN PickNext(RotateCurrent(a))
          ELSE PickNext(a)
  BY DEF Dispatch
<1> HIDE DEF a, t
<1>4. Core(a)
  <2>1. OneRunning(a)
    BY <1>2 DEF Core, OneRunning
  <2>2. QED
    BY <2>1, <1>2, CoreRun
<1>5. a.num # 0
  BY <1>4, CountPositive
<1>6. CASE a.remaining > 0
  BY <1>1, <1>2, <1>3, <1>6 DEF Dispatched, t
<1>7. CASE ~ (a.remaining > 0) /\ a.status[a.current] = "RUNNING"
  <2> DEFINE r == RotateCurrent(a)
  <2>1. Core(r) /\ NoneRuns(r) /\ r.blocked = a.blocked
    BY <1>2, <1>4, <1>7, RotateCore, RotateFrame
  <2> HIDE DEF r
  <2>2. t = PickNext(r)
    BY <1>3, <1>5, <1>7 DEF r
  <2>3. QED
    BY <1>2, <2>1, <2>2, PickNextIdle DEF Dispatched, t
<1>8. CASE ~ (a.remaining > 0) /\ a.status[a.current] # "RUNNING"
  <2>1. NoneRuns(a)
    BY <1>4, <1>8 DEF Core, OneRunning, NoneRuns
  <2>2. t = PickNext(a)
    BY <1>3, <1>5, <1>8
  <2>3. QED
    BY <1>2, <1>4, <2>1, <2>2, PickNextIdle DEF Dispatched, t
<1>9. QED
  BY <1>6, <1>7, <1>8

LEMMA DropQuantumBlocked ==
  ASSUME NEW s, Core(s)
  PROVE  DropQuantum(s).blocked = s.blocked
<1> DEFINE p  == s.current
           k1 == IF s.prio[p] > 0 THEN set_priority(s, p, s.prio[p] - 1) ELSE s
           co == [k1.consumed EXCEPT ![p] = 0]
           c1 == [k1 EXCEPT !.consumed = co]
           k2 == IF s.status[p] # "FREE" /\ s.initial > 0 THEN c1 ELSE s
           rq == 0
           t  == [k2 EXCEPT !.remaining = rq]
<1>1. s \in SchedState /\ p \in Pid /\ s.prio[p] \in Prio
  BY CoreParts
<1>2. s.prio[p] > 0 => s.prio[p] - 1 \in Prio
  BY <1>1, NumPrioritiesAssumption DEF Prio
<1>3. k1 \in SchedState /\ k1.blocked = s.blocked
  BY <1>1, <1>2, SetPriorityType, SetPriorityFrame
<1>4. DropQuantum(s) = t
  BY DEF DropQuantum
<1> HIDE DEF k1, co, rq
<1>5. t.blocked = k1.blocked \/ t.blocked = s.blocked
  BY <1>1, <1>3 DEF SchedState
<1> HIDE DEF t
<1>6. QED
  BY <1>3, <1>4, <1>5

-----------------------------------------------------------------------------
(* What a call does as a whole.  A step that gives the CPU away gives it   *)
(* to idle only when nobody is ready (IdleRule); a process that the step   *)
(* wakes, while it waits for a child of its own, is woken by the child's   *)
(* exit (WokenByExit).                                                     *)
IdleRule(s, t) ==
  t.current = IDLE /\ s.current # IDLE => \A l \in Prio : t.ready[l] = << >>

HasChild(s, p) == s.status[s.waitFor[p]] # "FREE" /\ s.parent[s.waitFor[p]] = p

WokenByExit(s, t) ==
  \A p \in Pid :
    /\ s.status[p] = "BLOCKED" /\ HasChild(s, p)
    /\ Alive(t, p) /\ t.status[p] # "BLOCKED"
    => t.status[s.waitFor[p]] = "ZOMBIE"

GivesCpu(s, t) == t.status[t.current] = "RUNNING" \/ t.current = s.current

Effect(s, t) == IdleRule(s, t) /\ WokenByExit(s, t) /\ GivesCpu(s, t)

LEMMA SameBlocked ==
  ASSUME NEW s, Core(s), NEW t, Core(t), t.blocked = s.blocked
  PROVE  WokenByExit(s, t)
<1>1. Blocked(t) = Blocked(s)
  BY CoreParts DEF Exactly
<1>2. QED
  BY <1>1 DEF WokenByExit, Blocked

LEMMA WokenTransitive ==
  ASSUME NEW s \in SchedState, NEW t \in SchedState, NEW u \in SchedState,
         Kept(s, t), Kept(t, u), WokenByExit(s, t), WokenByExit(t, u)
  PROVE  WokenByExit(s, u)
<1> SUFFICES ASSUME NEW p \in Pid, s.status[p] = "BLOCKED", HasChild(s, p),
                    Alive(u, p), u.status[p] # "BLOCKED"
             PROVE  u.status[s.waitFor[p]] = "ZOMBIE"
  BY DEF WokenByExit
<1> DEFINE c == s.waitFor[p]
<1>1. c \in Pid /\ s.parent[c] = p /\ s.status[c] # "FREE"
  BY DEF SchedState, HasChild
<1>2. Alive(t, p) /\ t.waitFor[p] = c
  BY DEF Kept
<1>3. t.status[c] # "FREE" /\ t.parent[c] = p
  BY <1>1, <1>2 DEF Kept
<1>4. u.status[c] # "FREE"
  BY <1>1, <1>3 DEF Kept
<1>5. CASE t.status[p] = "BLOCKED"
  BY <1>2, <1>3, <1>5 DEF WokenByExit, HasChild
<1>6. CASE t.status[p] # "BLOCKED"
  <2>1. t.status[c] = "ZOMBIE"
    BY <1>2, <1>6 DEF WokenByExit
  <2>2. ~ Alive(u, c)
    BY <1>1, <2>1 DEF Kept, Alive
  <2>3. QED
    BY <1>4, <2>2 DEF Alive
<1>7. QED
  BY <1>5, <1>6

(* kill_process wakes nobody but a parent that waits for the process that  *)
(* dies, and then that process is a zombie.                                *)
LEMMA KillBodyWakes ==
  ASSUME NEW s, Core(s), NEW p \in Pid
  PROVE  WokenByExit(s, KillBody(s, p))
<1> DEFINE m == KillMarked(s, p)
           t == KillBody(s, p)
           q == m.parent[p]
           f == FreeSlots(m, {p})
           nu == f.num - 1
           freed == [f EXCEPT !.num = nu]
           zo == [m.zombies EXCEPT ![q] = list_append(m.zombies[q], p)]
           linked == [m EXCEPT !.zombies = zo]
           woken == set_status(linked, q, "READY")
           Z == ZombiesOf(s, p)
<1>1. CASE ~ Killable(s, p)
  BY <1>1 DEF KillBody, WokenByExit
<1>2. CASE Killable(s, p)
  <2>1. MarkedFields(s, p, m) /\ Marked(m, p)
    BY <1>2, KillFields, KillMarkedCore
  <2>2. t = IF m.status[q] \in {"FREE", "ZOMBIE"} THEN freed
            ELSE IF m.waitFor[q] = p /\ m.status[q] = "BLOCKED" THEN woken ELSE linked
    BY <1>2 DEF KillBody, LinkOrFree, KillMarked
  <2>3. \A c \in Pid : c \in Z => s.status[c] = "ZOMBIE"
    BY DEF ZombiesOf
  <2> HIDE DEF m, t
  <2>4. m \in SchedState /\ q \in Pid /\ m.status[p] = "ZOMBIE"
    BY <2>1 DEF Marked, SchedState
  <2>5. \A c \in Pid \ {p} : s.status[c] = "BLOCKED" =>
          m.status[c] = "BLOCKED" /\ m.waitFor[c] = s.waitFor[c]
    BY <2>1, <2>3 DEF MarkedFields
  <2>6. \/ \A c \in Pid \ {p} : t.status[c] = m.status[c]
        \/ /\ \A c \in Pid \ {p, q} : t.status[c] = m.status[c]
           /\ m.waitFor[q] = p /\ t.status[p] = "ZOMBIE"
    <3>1. CASE t = freed
      <4>1. f \in SchedState /\ f.status = [c \in Pid |-> IF c \in {p} THEN "FREE" ELSE m.status[c]]
        <5>1. f \in SchedState
          BY <2>4, FreeSlotsType
        <5>2. f.status = [c \in Pid |-> IF c \in {p} THEN "FREE" ELSE m.status[c]]
          BY <2>4 DEF FreeSlots, SchedState
        <5>3. QED
          BY <5>1, <5>2
      <4> HIDE DEF f
      <4>2. freed.status = f.status
        BY <4>1 DEF SchedState
      <4> HIDE DEF freed
      <4>3. QED
        BY <3>1, <4>1, <4>2
    <3>2. linked \in SchedState /\ linked.status = m.status
      <4>1. zo \in [Pid -> Seq(Pid)]
        <5>1. m.zombies \in [Pid -> Seq(Pid)] /\ m.zombies[q] \in Seq(Pid)
          BY <2>4 DEF SchedState
        <5>2. list_append(m.zombies[q], p) \in Seq(Pid)
          BY <5>1 DEF list_append
        <5>3. QED
          BY <2>4, <5>1, <5>2
      <4> HIDE DEF zo
      <4>2. QED
        BY <2>4, <4>1 DEF SchedState
    <3> HIDE DEF linked
    <3>3. CASE t = linked
      BY <3>2, <3>3
    <3>4. CASE t = woken /\ m.waitFor[q] = p /\ m.status[q] = "BLOCKED"
      <4>1. \A c \in Pid \ {q} : woken.status[c] = linked.status[c]
        BY <2>4, <3>2, MakeReadyFrame
      <4> HIDE DEF woken
      <4>2. p # q
        BY <2>4, <3>4
      <4>3. QED
        BY <2>4, <3>2, <3>4, <4>1, <4>2
    <3>5. QED
      BY <2>2, <3>1, <3>3, <3>4
  <2> HIDE DEF q
  <2>7. ~ Alive(t, p)
    BY <1>2, KillableCore DEF KillResult, t
  <2>8. WokenByExit(s, t)
    BY <2>5, <2>6, <2>7 DEF WokenByExit, Alive
  <2>9. QED
    BY <2>8 DEF t
<1>3. QED
  BY <1>1, <1>2

(* What comes before the dispatch leaves the current process as it was.    *)
LEMMA EffectFrom ==
  ASSUME NEW s \in SchedState, NEW d \in SchedState, NEW t \in SchedState,
         d.current = s.current, Kept(s, d), Kept(d, t), WokenByExit(s, d), Effect(d, t)
  PROVE  Effect(s, t)
<1>1. WokenByExit(s, t)
  BY WokenTransitive DEF Effect
<1>2. QED
  BY <1>1 DEF Effect, IdleRule, GivesCpu

LEMMA DispatchEffect ==
  ASSUME NEW s, Core(s), Alive(s, s.current) \/ s.remaining <= 1
  PROVE  LET t == Dispatch(s)
         IN  /\ Effect(s, t)
             /\ s.remaining <= 1 => t.status[t.current] = "RUNNING"
<1> DEFINE t == Dispatch(s)
<1>1. Core(t) /\ Dispatched(s, t)
  BY DispatchCore, DispatchDone
<1> HIDE DEF t
<1>2. WokenByExit(s, t)
  BY <1>1, SameBlocked DEF Dispatched
<1>3. s.remaining \in Int
  BY CoreParts DEF SchedState
<1>4. s.remaining <= 1 => ~ (s.remaining > 1)
  BY <1>3
<1>5. Effect(s, t) /\ (s.remaining <= 1 => t.status[t.current] = "RUNNING")
  BY <1>1, <1>2, <1>4 DEF Dispatched, Effect, IdleRule, GivesCpu
<1>6. QED
  BY <1>5 DEF t

LEMMA DropThenDispatchEffect ==
  ASSUME NEW s, Core(s)
  PROVE  LET t == Dispatch(DropQuantum(s))
         IN  Effect(s, t) /\ t.status[t.current] = "RUNNING"
<1> DEFINE d == DropQuantum(s)
           t == Dispatch(d)
<1>1. /\ Core(d) /\ Kept(s, d) /\ d.current = s.current /\ d.remaining = 0
      /\ d.blocked = s.blocked
  BY DropQuantumCore, DropQuantumBlocked
<1> HIDE DEF d
<1>2. /\ Core(t) /\ Kept(d, t) /\ Effect(d, t)
      /\ t.status[t.current] = "RUNNING"
  BY <1>1, DispatchCore, DispatchEffect
<1> HIDE DEF t
<1>3. s \in SchedState /\ d \in SchedState /\ t \in SchedState
  BY <1>1, <1>2, CoreParts
<1>4. WokenByExit(s, d)
  BY <1>1, SameBlocked
<1>5. Effect(s, t)
  BY <1>1, <1>2, <1>3, <1>4, EffectFrom
<1>6. QED
  BY <1>2, <1>5 DEF t, d

LEMMA ScheduleEffect ==
  ASSUME NEW s, Core(s), Alive(s, s.current) \/ s.remaining <= 1
  PROVE  LET t == schedule(s)
         IN  /\ Effect(s, t)
             /\ s.remaining <= 1 => t.status[t.current] = "RUNNING"
<1> DEFINE c == [s EXCEPT !.killFg = FALSE]
           b == KillBody(c, c.current)
           t == schedule(s)
<1>1. s \in SchedState /\ s.current \in Pid
  BY CoreParts
<1>2. /\ c \in SchedState
      /\ c.status = s.status /\ c.current = s.current /\ c.remaining = s.remaining
      /\ c.prio = s.prio /\ c.parent = s.parent /\ c.waitFor = s.waitFor
      /\ c.ready = s.ready /\ c.blocked = s.blocked /\ c.zombies = s.zombies
      /\ c.nextUnused = s.nextUnused /\ c.num = s.num
  BY <1>1 DEF SchedState
<1>3. t = IF (s.killFg /\ s.stdin[s.current] = "STDIN") /\ Killable(c, c.current)
            THEN Dispatch(DropQuantum(b)) ELSE Dispatch(c)
  BY DEF schedule, KillCurrentInSchedule
<1> HIDE DEF c, t
<1>4. Core(c) /\ Kept(s, c)
  <2>1. OneRunning(c)
    BY <1>2 DEF Core, OneRunning
  <2>2. QED
    BY <2>1, <1>2, CoreRun
<1>5. WokenByExit(s, c)
  BY <1>2, <1>4, SameBlocked
<1>6. CASE t = Dispatch(c)
  <2>1. Alive(c, c.current) \/ c.remaining <= 1
    BY <1>2 DEF Alive
  <2>2. Core(t) /\ Kept(c, t)
    BY <1>4, <1>6, <2>1, DispatchCore
  <2>3. Effect(c, t) /\ (c.remaining <= 1 => t.status[t.current] = "RUNNING")
    BY <1>4, <1>6, <2>1, DispatchEffect
  <2>4. t \in SchedState
    BY <2>2, CoreParts
  <2>5. Effect(s, t)
    BY <1>1, <1>2, <1>4, <1>5, <2>2, <2>3, <2>4, EffectFrom
  <2>6. QED
    BY <1>2, <2>3, <2>5 DEF t
<1>7. CASE t = Dispatch(DropQuantum(b))
  <2>1. /\ Core(b) /\ Kept(c, b) /\ b.current = c.current
        /\ WokenByExit(c, b)
    BY <1>1, <1>2, <1>4, KillBodyCore, KillBodyWakes
  <2> HIDE DEF b
  <2>2. Sane(t) /\ Kept(b, t) /\ Effect(b, t) /\ t.status[t.current] = "RUNNING"
    BY <1>7, <2>1, DropThenDispatch, DropThenDispatchEffect
  <2>3. b \in SchedState /\ t \in SchedState
    BY <2>1, <2>2, CoreParts DEF Sane
  <2>4. Kept(c, t) /\ Effect(c, t)
    BY <1>2, <2>1, <2>2, <2>3, EffectFrom, KeptTransitive
  <2>5. Effect(s, t)
    BY <1>1, <1>2, <1>4, <1>5, <2>3, <2>4, EffectFrom
  <2>6. QED
    BY <2>2, <2>5 DEF t
<1>8. QED
  BY <1>3, <1>6, <1>7

LEMMA YieldEffect ==
  ASSUME NEW s, Core(s)
  PROVE  LET t == yield(s)
         IN  Effect(s, t) /\ t.status[t.current] = "RUNNING"
<1> DEFINE d == DropQuantum(s)
           t == yield(s)
<1>1. /\ Core(d) /\ Kept(s, d) /\ d.current = s.current /\ d.remaining <= 1
      /\ d.blocked = s.blocked
  BY DropQuantumCore, DropQuantumBlocked
<1>2. t = schedule(d)
  BY DEF yield
<1> HIDE DEF d, t
<1>3. Sane(t) /\ Kept(d, t) /\ Effect(d, t) /\ t.status[t.current] = "RUNNING"
  BY <1>1, <1>2, ScheduleCore, ScheduleEffect
<1>4. s \in SchedState /\ d \in SchedState /\ t \in SchedState
  BY <1>1, <1>3, CoreParts DEF Sane
<1>5. WokenByExit(s, d)
  BY <1>1, SameBlocked
<1>6. Effect(s, t)
  BY <1>1, <1>3, <1>4, <1>5, EffectFrom
<1>7. QED
  BY <1>3, <1>6 DEF t

LEMMA KillProcessEffect ==
  ASSUME NEW s, Sane(s), NEW p \in Pid
  PROVE  Effect(s, kill_process(s, p))
<1> DEFINE b == KillBody(s, p)
           t == kill_process(s, p)
<1>1. Core(s) /\ s \in SchedState
  BY CoreParts DEF Sane
<1>2. Core(b) /\ Kept(s, b) /\ b.current = s.current /\ WokenByExit(s, b)
  BY <1>1, KillBodyCore, KillBodyWakes
<1>3. t = yield(b) \/ t = b
  BY DEF kill_process
<1> HIDE DEF b, t
<1>4. CASE t = yield(b)
  <2>1. Sane(t) /\ Kept(b, t) /\ Effect(b, t)
    BY <1>2, <1>4, YieldCore, YieldEffect
  <2>2. b \in SchedState /\ t \in SchedState
    BY <1>2, <2>1, CoreParts DEF Sane
  <2>3. QED
    BY <1>1, <1>2, <2>1, <2>2, EffectFrom DEF t
<1>5. CASE t = b
  BY <1>2, <1>5 DEF Effect, IdleRule, GivesCpu, t
<1>6. QED
  BY <1>3, <1>4, <1>5

-----------------------------------------------------------------------------
(* What each step of the system does.                                      *)

ZombiesKept(s, t) ==
  \A c \in Pid :
    s.status[c] = "ZOMBIE" /\ t.status[c] # "ZOMBIE" =>
      /\ t.status[c] = "FREE"
      /\ s.parent[c] = s.current \/ ~ Alive(t, s.parent[c])

Orderly == IdleRule(k, k') /\ ZombiesKept(k, k')

(* A parent inside waitpid that is not blocked has a zombie to reap, and   *)
(* it is not blocked when it has the CPU: what waitpid relies on when it   *)
(* comes back from its yield.                                              *)
WaitDone(s, w) ==
  \A p \in Pid :
    w[p] = "waitpid" /\ s.status[p] # "BLOCKED" => s.status[s.waitFor[p]] = "ZOMBIE"

CpuNotAsleep(s, w) == w[s.current] = "waitpid" => s.status[s.current] # "BLOCKED"

WaitsDone == WaitDone(k, at) /\ CpuNotAsleep(k, at)

NobodyWakesWaiters == "wake_waiter" \notin Calls

LEMMA KeptKeepsZombies ==
  ASSUME NEW s \in SchedState, NEW t \in SchedState, Kept(s, t)
  PROVE  ZombiesKept(s, t)
<1> SUFFICES ASSUME NEW c \in Pid, s.status[c] = "ZOMBIE", t.status[c] # "ZOMBIE"
             PROVE  t.status[c] = "FREE" /\ ~ Alive(t, s.parent[c])
  BY DEF ZombiesKept
<1>1. ~ Alive(t, c)
  BY DEF Kept, Alive
<1>2. QED
  BY <1>1 DEF Kept, Alive

LEMMA KeptDone ==
  ASSUME NEW s \in SchedState, NEW t \in SchedState, Kept(s, t), WokenByExit(s, t),
         NEW w \in [Pid -> Where], WaitOK(s, w), WaitDone(s, w)
  PROVE  WaitDone(t, AtAfter(t, w))
<1> SUFFICES ASSUME NEW p \in Pid, AtAfter(t, w)[p] = "waitpid", t.status[p] # "BLOCKED"
             PROVE  t.status[t.waitFor[p]] = "ZOMBIE"
  BY DEF WaitDone
<1> DEFINE c == s.waitFor[p]
<1>1. w[p] = "waitpid" /\ Alive(t, p) /\ c \in Pid
  BY DEF AtAfter, Alive, SchedState
<1>2. s.status[c] # "FREE" /\ s.parent[c] = p /\ t.waitFor[p] = c
  BY <1>1 DEF WaitOK, WaitsForChild, Kept
<1>3. CASE s.status[p] = "BLOCKED"
  BY <1>1, <1>2, <1>3 DEF WokenByExit, HasChild
<1>4. CASE s.status[p] # "BLOCKED"
  <2>1. s.status[c] = "ZOMBIE"
    BY <1>1, <1>4 DEF WaitDone
  <2>2. ~ Alive(t, c) /\ t.status[c] # "FREE"
    BY <1>1, <1>2, <2>1 DEF Kept, Alive
  <2>3. QED
    BY <1>2, <2>2 DEF Alive
<1>5. QED
  BY <1>3, <1>4

(* A step whose effect on the processes is within Kept and Effect.         *)
LEMMA EffectStep ==
  ASSUME SystemInv, NEW t, Sane(t), Kept(k, t), Effect(k, t), Step(t),
         Interruptible \/ t.status[t.current] = "RUNNING"
  PROVE  Orderly /\ (WaitsDone => WaitsDone')
<1>1. k \in SchedState /\ t \in SchedState /\ at \in [Pid -> Where] /\ t.current \in Pid
  BY CoreParts DEF Sane, SystemInv, TypeOK
<1>2. k' = t /\ at' = AtAfter(t, at)
  BY DEF Step
<1>3. Orderly
  BY <1>1, <1>2, KeptKeepsZombies DEF Orderly, Effect
<1>4. WaitDone(k, at) => WaitDone(t, AtAfter(t, at))
  BY <1>1, KeptDone DEF SystemInv, Effect
<1>5. CpuNotAsleep(t, AtAfter(t, at))
  <2>1. CASE t.status[t.current] = "RUNNING"
    BY <2>1 DEF CpuNotAsleep
  <2>2. CASE t.current = k.current /\ at[k.current] = "user"
    BY <1>1, <2>2 DEF CpuNotAsleep, AtAfter
  <2>3. QED
    BY <2>1, <2>2 DEF Effect, GivesCpu, Interruptible
<1>6. QED
  BY <1>2, <1>3, <1>4, <1>5 DEF WaitsDone

(* A step of a process in user code that changes the status of p only.     *)
LEMMA StatusStep ==
  ASSUME SystemInv, NEW t, Core(t), NEW p \in Pid, Interruptible, Step(t),
         t.current = k.current, t.waitFor = k.waitFor,
         \A c \in Pid \ {p} : t.status[c] = k.status[c],
         Alive(k, p) <=> Alive(t, p),
         k.status[p] = "ZOMBIE" <=> t.status[p] = "ZOMBIE",
         at[p] # "waitpid" \/ ~ NobodyWakesWaiters
  PROVE  Orderly /\ (NobodyWakesWaiters /\ WaitsDone => WaitsDone')
<1>1. k \in SchedState /\ t \in SchedState /\ at \in [Pid -> Where] /\ t.current \in Pid
  BY CoreParts DEF SystemInv, TypeOK
<1>2. k' = t /\ at' = AtAfter(t, at)
  BY DEF Step
<1>3. Orderly
  BY <1>2 DEF Orderly, IdleRule, ZombiesKept
<1>4. ASSUME NobodyWakesWaiters, WaitDone(k, at)
      PROVE  WaitDone(t, AtAfter(t, at))
  <2> SUFFICES ASSUME NEW q \in Pid, AtAfter(t, at)[q] = "waitpid", t.status[q] # "BLOCKED"
               PROVE  t.status[t.waitFor[q]] = "ZOMBIE"
    BY DEF WaitDone
  <2>1. at[q] = "waitpid"
    BY DEF AtAfter
  <2>2. q # p /\ k.status[q] # "BLOCKED" /\ k.waitFor[q] \in Pid
    BY <1>1, <1>4, <2>1 DEF SchedState
  <2>3. k.status[k.waitFor[q]] = "ZOMBIE"
    BY <1>4, <2>1, <2>2 DEF WaitDone
  <2>4. QED
    BY <2>2, <2>3
<1>5. CpuNotAsleep(t, AtAfter(t, at))
  BY <1>1 DEF CpuNotAsleep, AtAfter, Interruptible
<1>6. QED
  BY <1>2, <1>3, <1>4, <1>5 DEF WaitsDone

LEMMA CreateOrderly ==
  ASSUME SystemInv, NEW pr \in Prio, NEW si \in ChildStdin, Create(pr, si)
  PROVE  Orderly /\ (WaitsDone => WaitsDone')
<1> DEFINE t == create_process(k, pr, si)
           n == k.nextUnused
<1>1. k \in SchedState /\ at \in [Pid -> Where] /\ Core(k) /\ k.current \in Pid /\ n \in Pid
  BY DEF SystemInv, TypeOK, Sane, SchedState
<1>2. /\ k' = t /\ at' = AtAfter(t, at) /\ ~ CreateLoops(k) /\ si \in Stdin
      /\ at[k.current] = "user"
  BY ChildStdinAssumption DEF Create, Step, InUser, Interruptible
<1>3. CreateResult(k, t)
  BY <1>1, <1>2, CoreIsTable, CreateTable
<1> HIDE DEF t
<1>4. CASE t = k
  BY <1>1, <1>2, <1>4
     DEF Orderly, IdleRule, ZombiesKept, WaitsDone, WaitDone, CpuNotAsleep, AtAfter
<1>5. CASE t # k
  <2>1. /\ k.status[n] = "FREE" /\ t.current = k.current
        /\ \A c \in Pid \ {n} : t.status[c] = k.status[c] /\ t.waitFor[c] = k.waitFor[c]
    BY <1>1, <1>3, <1>5 DEF CreateResult, SchedState
  <2>2. Orderly
    BY <1>1, <1>2, <2>1 DEF Orderly, IdleRule, ZombiesKept
  <2>3. CpuNotAsleep(t, AtAfter(t, at))
    BY <1>1, <1>2, <2>1 DEF CpuNotAsleep, AtAfter
  <2>4. ASSUME WaitDone(k, at) PROVE WaitDone(t, AtAfter(t, at))
    <3> SUFFICES ASSUME NEW q \in Pid, AtAfter(t, at)[q] = "waitpid", t.status[q] # "BLOCKED"
                 PROVE  t.status[t.waitFor[q]] = "ZOMBIE"
      BY DEF WaitDone
    <3>1. at[q] = "waitpid" /\ k.waitFor[q] \in Pid
      BY <1>1 DEF AtAfter, SchedState
    <3>2. WaitsForChild(k, q)
      BY <3>1 DEF SystemInv, WaitOK
    <3>3. q # n /\ k.waitFor[q] # n
      BY <2>1, <3>2 DEF WaitsForChild, Alive
    <3>4. k.status[k.waitFor[q]] = "ZOMBIE"
      BY <2>1, <2>4, <3>1, <3>3 DEF WaitDone
    <3>5. QED
      BY <2>1, <3>1, <3>3, <3>4
  <2>5. QED
    BY <1>2, <2>2, <2>3, <2>4 DEF WaitsDone
<1>6. QED
  BY <1>4, <1>5

(* waitpid frees a zombie of the caller.                                   *)
LEMMA FinishOrderly ==
  ASSUME SystemInv, NEW p \in Pid,
         k.status[p] = "ZOMBIE", k.parent[p] = k.current,
         NEW s, Sane(s), s.status = k.status, s.parent = k.parent, s.current = k.current,
         s.waitFor[k.current] = p,
         \A r \in Pid \ {k.current} : s.waitFor[r] = k.waitFor[r],
         k' = WaitFinish(s),
         at'[k.current] = "user",
         \A r \in Pid \ {k.current} : at'[r] = "waitpid" => at[r] = "waitpid"
  PROVE  Orderly /\ (WaitsDone => WaitsDone')
<1> DEFINE t == WaitFinish(s)
           q == k.current
<1>1. k.status \in [Pid -> Status] /\ q \in Pid /\ k.waitFor \in [Pid -> Pid]
  BY DEF SystemInv, TypeOK, SchedState
<1>2. /\ t.current = q
      /\ t.status = [k.status EXCEPT ![p] = "FREE"]
      /\ \A r \in Pid \ {p, q} : t.waitFor[r] = k.waitFor[r]
  <2>1. s.status[s.waitFor[s.current]] = "ZOMBIE" /\ s.parent[s.waitFor[s.current]] = s.current
        /\ s.waitFor[s.current] = p
    OBVIOUS
  <2> HIDE DEF t
  <2>2. /\ t.current = s.current
        /\ t.status = [s.status EXCEPT ![p] = "FREE"]
        /\ \A r \in Pid \ {p, s.current} : t.waitFor[r] = s.waitFor[r]
    BY <2>1, WaitFinishCore DEF t
  <2>3. QED
    BY <2>2
<1>3. k' = t
  OBVIOUS
<1> HIDE DEF t
<1>4. Orderly
  BY <1>1, <1>2, <1>3 DEF Orderly, IdleRule, ZombiesKept
<1>5. CpuNotAsleep(t, at')
  BY <1>2 DEF CpuNotAsleep
<1>6. ASSUME WaitDone(k, at) PROVE WaitDone(t, at')
  <2> SUFFICES ASSUME NEW r \in Pid, at'[r] = "waitpid", t.status[r] # "BLOCKED"
               PROVE  t.status[t.waitFor[r]] = "ZOMBIE"
    BY DEF WaitDone
  <2>1. r # q /\ at[r] = "waitpid" /\ k.waitFor[r] \in Pid
    BY <1>1
  <2>2. WaitsForChild(k, r)
    BY <2>1 DEF SystemInv, WaitOK
  <2>3. r # p /\ k.waitFor[r] # p
    BY <2>1, <2>2 DEF WaitsForChild, Alive
  <2>4. k.status[k.waitFor[r]] = "ZOMBIE"
    BY <1>1, <1>2, <1>6, <2>1, <2>3 DEF WaitDone
  <2>5. QED
    BY <1>1, <1>2, <2>1, <2>3, <2>4
<1>7. QED
  BY <1>3, <1>4, <1>5, <1>6 DEF WaitsDone

LEMMA WaitpidZombieOrderly ==
  ASSUME SystemInv, NEW p \in Pid, WaitpidZombie(p)
  PROVE  Orderly /\ (WaitsDone => WaitsDone')
<1> DEFINE q == k.current
           a == WaitBegin(k, p)
<1>1. /\ k \in SchedState /\ at \in [Pid -> Where] /\ Core(k) /\ Alive(k, q)
      /\ q \in Pid /\ k.waitFor \in [Pid -> Pid]
  BY DEF SystemInv, TypeOK, Sane, SchedState
<1>2. /\ k' = WaitFinish(a) /\ at' = AtAfter(k', at) /\ at[q] = "user"
      /\ k.status[p] = "ZOMBIE" /\ k.parent[p] = q
  BY DEF WaitpidZombie, Step, OwnChild, InUser, Interruptible
<1>3. /\ Core(a) /\ a.status = k.status /\ a.parent = k.parent /\ a.current = q
      /\ a.waitFor = [k.waitFor EXCEPT ![q] = p]
  BY <1>1, WaitBeginCore
<1> HIDE DEF a
<1>4. Sane(a)
  BY <1>1, <1>3 DEF Sane, Alive
<1>5. a.waitFor[q] = p /\ \A r \in Pid \ {q} : a.waitFor[r] = k.waitFor[r]
  BY <1>1, <1>3
<1>6. at'[q] = "user" /\ \A r \in Pid \ {q} : at'[r] = "waitpid" => at[r] = "waitpid"
  BY <1>1, <1>2 DEF AtAfter
<1>7. QED
  BY <1>2, <1>3, <1>4, <1>5, <1>6, FinishOrderly

LEMMA WaitpidReturnOrderly ==
  ASSUME SystemInv, WaitpidReturn
  PROVE  Orderly /\ (WaitsDone => WaitsDone')
<1> DEFINE q == k.current
           c == k.waitFor[q]
<1>1. at \in [Pid -> Where] /\ Sane(k) /\ q \in Pid /\ c \in Pid
  BY DEF SystemInv, TypeOK, Sane, SchedState
<1>2. CASE k.status[c] = "ZOMBIE"
  <2>1. k' = WaitFinish(k) /\ at' = [at EXCEPT ![q] = "user"]
    BY <1>2 DEF WaitpidReturn
  <2>2. at'[q] = "user" /\ \A r \in Pid \ {q} : at'[r] = "waitpid" => at[r] = "waitpid"
    BY <1>1, <2>1
  <2>3. k.parent[c] = q
    BY <1>1 DEF SystemInv, WaitOK, WaitsForChild, WaitpidReturn
  <2>4. QED
    BY <1>1, <1>2, <2>1, <2>2, <2>3, FinishOrderly
<1>3. CASE k.status[c] # "ZOMBIE"
  <2>1. k' = k /\ at' = at
    BY <1>3 DEF WaitpidReturn, Crash
  <2>2. QED
    BY <2>1 DEF Orderly, IdleRule, ZombiesKept, WaitsDone, WaitDone, CpuNotAsleep
<1>4. QED
  BY <1>2, <1>3

(* A process falls asleep in waitpid: the child it waits for is not yet a  *)
(* zombie, and the process is blocked before the yield.                    *)
LEMMA WaitpidBlockOrderly ==
  ASSUME SystemInv, NEW p \in Pid, WaitpidBlock(p)
  PROVE  Orderly /\ (WaitsDone => WaitsDone')
<1> DEFINE q == k.current
           a == WaitBegin(k, p)
           b == set_status(a, q, "BLOCKED")
           w == [at EXCEPT ![q] = "waitpid"]
<1>1. k \in SchedState /\ at \in [Pid -> Where] /\ Core(k) /\ Alive(k, q) /\ q \in Pid
  BY DEF SystemInv, TypeOK, Sane, SchedState
<1>2. /\ k' = yield(b) /\ at' = AtAfter(k', w) /\ q # IDLE
      /\ k.status[p] \notin {"FREE", "ZOMBIE"} /\ k.parent[p] = q
  BY DEF WaitpidBlock, WaitBlock, OwnChild, InUser
<1>3. /\ Core(a) /\ a.status = k.status /\ a.parent = k.parent /\ a.current = q
      /\ a.waitFor = [k.waitFor EXCEPT ![q] = p] /\ a \in SchedState
  BY <1>1, WaitBeginCore, CoreParts
<1> HIDE DEF a
<1>4. Core(b)
  BY <1>1, <1>3, MakeBlockedCore
<1>5. /\ b.parent = k.parent /\ b.waitFor = [k.waitFor EXCEPT ![q] = p] /\ b.current = q
      /\ \A c \in Pid \ {q} : b.status[c] = k.status[c]
  <2>1. /\ b.parent = a.parent /\ b.waitFor = a.waitFor /\ b.current = a.current
        /\ \A c \in Pid \ {q} : b.status[c] = a.status[c]
    BY <1>1, <1>3, MakeBlockedFrame
  <2> HIDE DEF b
  <2>2. QED
    BY <1>3, <2>1
<1>6. b.status[q] = "BLOCKED"
  <2>1. a.status \in [Pid -> Status] /\ a.status[q] \notin {"FREE", "ZOMBIE"}
    BY <1>1, <1>3 DEF SchedState, Alive
  <2>2. CASE a.status[q] = "BLOCKED"
    BY <2>2 DEF set_status
  <2>3. CASE a.status[q] # "BLOCKED"
    <3>1. b = BlockProcess(a, q)
      BY <1>2, <2>1, <2>3 DEF set_status
    <3>2. BlockProcess(a, q).status = [a.status EXCEPT ![q] = "BLOCKED"]
      BY <1>3 DEF BlockProcess, SchedState
    <3> HIDE DEF b
    <3>3. QED
      BY <1>1, <2>1, <3>1, <3>2
  <2>4. QED
    BY <2>2, <2>3
<1> HIDE DEF b
<1>7. w \in [Pid -> Where] /\ k.waitFor \in [Pid -> Pid]
  BY <1>1 DEF Where, SchedState
<1>8. ASSUME NEW r \in Pid \ {q}, w[r] = "waitpid"
      PROVE  /\ at[r] = "waitpid" /\ WaitsForChild(k, r) /\ k.waitFor[r] \in Pid
             /\ b.waitFor[r] = k.waitFor[r]
  <2>1. at[r] = "waitpid" /\ b.waitFor[r] = k.waitFor[r] /\ k.waitFor[r] \in Pid
    BY <1>1, <1>5, <1>7, <1>8
  <2>2. WaitsForChild(k, r)
    BY <2>1 DEF SystemInv, WaitOK
  <2>3. QED
    BY <2>1, <2>2
<1>9. \A c \in Pid : /\ Alive(b, c) <=> Alive(k, c)
                     /\ b.status[c] = "FREE" <=> k.status[c] = "FREE"
                     /\ b.status[c] = "ZOMBIE" <=> k.status[c] = "ZOMBIE"
                     /\ c # q => b.status[c] = k.status[c]
  BY <1>1, <1>5, <1>6 DEF Alive
<1>10. WaitOK(b, w)
  <2> SUFFICES ASSUME NEW r \in Pid, w[r] = "waitpid"
               PROVE  WaitsForChild(b, r)
    BY DEF WaitOK
  <2>1. CASE r = q
    <3>1. b.waitFor[r] = p
      BY <1>1, <1>5, <1>7, <2>1
    <3>2. QED
      BY <1>1, <1>2, <1>5, <1>9, <2>1, <3>1 DEF WaitsForChild
  <2>2. CASE r # q
    BY <1>5, <1>8, <1>9, <2>2 DEF WaitsForChild
  <2>3. QED
    BY <2>1, <2>2
<1>11. WaitDone(k, at) => WaitDone(b, w)
  <2> SUFFICES ASSUME WaitDone(k, at), NEW r \in Pid, w[r] = "waitpid", b.status[r] # "BLOCKED"
               PROVE  b.status[b.waitFor[r]] = "ZOMBIE"
    BY DEF WaitDone
  <2>1. r # q
    BY <1>6
  <2>2. k.status[k.waitFor[r]] = "ZOMBIE"
    BY <1>8, <1>9, <2>1 DEF WaitDone
  <2>3. QED
    BY <1>8, <1>9, <2>1, <2>2
<1> HIDE DEF w
<1>12. Sane(k') /\ Kept(b, k') /\ Effect(b, k') /\ k'.status[k'.current] = "RUNNING"
  BY <1>2, <1>4, YieldCore, YieldEffect
<1>13. b \in SchedState /\ k' \in SchedState
  BY <1>4, <1>12, CoreParts DEF Sane
<1>14. Orderly
  <2>1. IdleRule(k, k')
    BY <1>5, <1>12 DEF Effect, IdleRule
  <2>2. ZombiesKept(b, k')
    BY <1>12, <1>13, KeptKeepsZombies
  <2>3. ZombiesKept(k, k')
    BY <1>5, <1>9, <2>2 DEF ZombiesKept
  <2>4. QED
    BY <2>1, <2>3 DEF Orderly
<1>15. WaitDone(k, at) => WaitDone(k', AtAfter(k', w))
  BY <1>7, <1>10, <1>11, <1>12, <1>13, KeptDone DEF Effect
<1>16. CpuNotAsleep(k', AtAfter(k', w))
  BY <1>12 DEF CpuNotAsleep
<1>17. QED
  BY <1>2, <1>14, <1>15, <1>16 DEF WaitsDone

LEMMA NextOrderly ==
  ASSUME SystemInv, [Next]_vars
  PROVE  Orderly /\ (NobodyWakesWaiters /\ WaitsDone => WaitsDone')
<1>1. /\ k \in SchedState /\ Core(k) /\ Sane(k) /\ Alive(k, k.current) /\ k.current \in Pid
  BY DEF SystemInv, TypeOK, Sane, SchedState
<1> DEFINE Goal == Orderly /\ (NobodyWakesWaiters /\ WaitsDone => WaitsDone')
<1>2. CASE Boot \/ Yield
  <2> DEFINE t == yield(k)
  <2>1. Sane(t) /\ Kept(k, t) /\ Effect(k, t) /\ t.status[t.current] = "RUNNING"
    BY <1>1, YieldCore, YieldEffect
  <2>2. Step(t)
    BY <1>2 DEF Boot, Yield
  <2> HIDE DEF t
  <2>3. QED
    BY <2>1, <2>2, EffectStep
<1>3. CASE Tick
  <2> DEFINE t == schedule(k)
  <2>1. Sane(t) /\ Kept(k, t) /\ Effect(k, t)
    BY <1>1, ScheduleCore, ScheduleEffect
  <2>2. Step(t) /\ Interruptible
    BY <1>3 DEF Tick
  <2> HIDE DEF t
  <2>3. QED
    BY <2>1, <2>2, EffectStep
<1>4. CASE CtrlC
  <2> DEFINE t == [k EXCEPT !.killFg = TRUE]
  <2>1. /\ t.status = k.status /\ t.prio = k.prio /\ t.parent = k.parent /\ t.waitFor = k.waitFor
        /\ t.ready = k.ready /\ t.blocked = k.blocked /\ t.zombies = k.zombies
        /\ t.current = k.current /\ t.nextUnused = k.nextUnused /\ t.num = k.num
        /\ t \in SchedState
    BY <1>1 DEF SchedState
  <2>2. Step(t) /\ Interruptible
    BY <1>4 DEF CtrlC
  <2> HIDE DEF t
  <2>3. OneRunning(t)
    BY <1>1, <2>1 DEF Core, OneRunning
  <2>4. Core(t) /\ Kept(k, t)
    BY <1>1, <2>1, <2>3, CoreRun
  <2>5. Sane(t) /\ Effect(k, t)
    BY <1>1, <2>1, <2>4, SameBlocked DEF Sane, Alive, Effect, IdleRule, GivesCpu
  <2>6. QED
    BY <2>2, <2>4, <2>5, EffectStep
<1>5. ASSUME NEW pr \in Prio, NEW si \in ChildStdin, Create(pr, si) PROVE Goal
  BY <1>5, CreateOrderly
<1>6. CASE CreateLast \/ UNCHANGED vars
  <2>1. k' = k /\ at' = at
    BY <1>6 DEF CreateLast, Crash, vars
  <2>2. QED
    BY <2>1 DEF Orderly, IdleRule, ZombiesKept, WaitsDone, WaitDone, CpuNotAsleep
<1>7. ASSUME NEW p \in Pid, Kill(p) PROVE Goal
  <2> DEFINE t == kill_process(k, p)
  <2>1. Sane(t) /\ Kept(k, t) /\ Effect(k, t)
    BY <1>1, KillProcessCore, KillProcessEffect
  <2>2. Step(t) /\ Interruptible
    BY <1>7 DEF Kill, InUser
  <2> HIDE DEF t
  <2>3. QED
    BY <2>1, <2>2, EffectStep
<1>8. ASSUME NEW p \in Pid, NEW pr \in Prio, Nice(p, pr) PROVE Goal
  <2> DEFINE t == set_priority(k, p, pr)
  <2>1. Core(t) /\ Kept(k, t)
    BY <1>1, SetPriorityCore
  <2>2. t.status = k.status /\ t.current = k.current /\ t.blocked = k.blocked
    BY <1>1, SetPriorityFrame
  <2>3. Step(t) /\ Interruptible
    BY <1>8 DEF Nice, InUser
  <2> HIDE DEF t
  <2>4. Sane(t) /\ Effect(k, t)
    BY <1>1, <2>1, <2>2, SameBlocked DEF Sane, Alive, Effect, IdleRule, GivesCpu
  <2>5. QED
    BY <2>1, <2>3, <2>4, EffectStep
<1>9. ASSUME NEW p \in Pid, Block(p) PROVE Goal
  <2> DEFINE t == set_status(k, p, "BLOCKED")
  <2>1. Core(t)
    BY <1>1, MakeBlockedCore
  <2>2. /\ t.waitFor = k.waitFor /\ t.current = k.current
        /\ \A c \in Pid \ {p} : t.status[c] = k.status[c]
        /\ \/ t.status[p] = k.status[p]
           \/ Alive(k, p) /\ t.status[p] = "BLOCKED"
    BY <1>1, MakeBlockedFrame
  <2>3. Step(t) /\ Interruptible /\ (at[p] = "user" \/ "wake_waiter" \in Calls)
    BY <1>9 DEF Block, InUser
  <2> HIDE DEF t
  <2>4. /\ Alive(k, p) <=> Alive(t, p)
        /\ k.status[p] = "ZOMBIE" <=> t.status[p] = "ZOMBIE"
    BY <2>2 DEF Alive
  <2>5. QED
    BY <2>1, <2>2, <2>3, <2>4, StatusStep DEF NobodyWakesWaiters
<1>10. ASSUME NEW p \in Pid, Unblock(p) PROVE Goal
  <2> DEFINE t == set_status(k, p, "READY")
  <2>1. Core(t)
    BY <1>1, MakeReadyCore
  <2>2. /\ t.waitFor = k.waitFor /\ t.current = k.current
        /\ \A c \in Pid \ {p} : t.status[c] = k.status[c]
        /\ \/ t.status[p] = k.status[p]
           \/ k.status[p] \in {"BLOCKED", "RUNNING"} /\ t.status[p] = "READY"
    BY <1>1, MakeReadyFrame
  <2>3. Step(t) /\ Interruptible /\ (at[p] = "user" \/ "wake_waiter" \in Calls)
    BY <1>10 DEF Unblock, InUser
  <2> HIDE DEF t
  <2>4. /\ Alive(k, p) <=> Alive(t, p)
        /\ k.status[p] = "ZOMBIE" <=> t.status[p] = "ZOMBIE"
    BY <2>2 DEF Alive
  <2>5. QED
    BY <2>1, <2>2, <2>3, <2>4, StatusStep DEF NobodyWakesWaiters
<1>11. ASSUME NEW p \in Pid, WaitpidZombie(p) PROVE Goal
  BY <1>11, WaitpidZombieOrderly
<1>12. ASSUME NEW p \in Pid, WaitpidBlock(p) PROVE Goal
  BY <1>12, WaitpidBlockOrderly
<1>13. CASE WaitpidReturn
  BY <1>13, WaitpidReturnOrderly
<1>14. QED
  BY <1>2, <1>3, <1>4, <1>5, <1>6, <1>7, <1>8, <1>9, <1>10, <1>11, <1>12, <1>13 DEF Next

-----------------------------------------------------------------------------
(* The CPU goes to idle only when no process is ready: get_next_pid goes   *)
(* round all the levels, whatever level it begins with.                    *)
THEOREM IdleIsLast == Spec => IdleOnlyWhenNothingReady
<1>1. SystemInv /\ [Next]_vars
        => [k'.current = IDLE /\ k.current # IDLE => \A l \in Prio : k'.ready[l] = << >>]_vars
  BY NextOrderly DEF Orderly, IdleRule
<1>2. QED
  BY <1>1, SystemCorrect, PTL DEF Spec, IdleOnlyWhenNothingReady

(* No step takes a zombie from a living parent but that parent's own       *)
(* waitpid, whoever is killed and whatever slots are used again meanwhile. *)
THEOREM ZombiesStay == Spec => ZombieKeptForParent
<1>1. SystemInv /\ [Next]_vars
        => [\A p \in Pid :
              k.status[p] = "ZOMBIE" /\ k'.status[p] # "ZOMBIE" =>
                /\ k'.status[p] = "FREE"
                /\ \/ k.parent[p] = k.current
                   \/ k'.status[k.parent[p]] \in {"FREE", "ZOMBIE"}]_vars
  BY NextOrderly DEF Orderly, ZombiesKept, Alive
<1>2. QED
  BY <1>1, SystemCorrect, PTL DEF Spec, ZombieKeptForParent

(* As long as nobody calls block or unblock on a process inside waitpid,   *)
(* waitpid frees no child before its exit, though it does not look at the  *)
(* child again after its yield.                                            *)
THEOREM ReapsAfterExit ==
  ASSUME "wake_waiter" \notin Calls
  PROVE  Spec => []WaitpidAfterExit
<1> DEFINE Inv == WaitsDone /\ WaitpidAfterExit
<1>1. Init => Inv
  <2> SUFFICES ASSUME Init PROVE Inv
    OBVIOUS
  <2>1. k.current \in Pid
    BY InitSystemInv DEF SystemInv, TypeOK, SchedState
  <2>2. (\A p \in Pid : at[p] = "user") /\ fault = "none"
    BY DEF Init
  <2>3. QED
    BY <2>1, <2>2 DEF WaitsDone, WaitDone, CpuNotAsleep, WaitpidAfterExit
<1>2. SystemInv /\ [Next]_vars /\ Inv => Inv'
  <2> SUFFICES ASSUME SystemInv, [Next]_vars, Inv PROVE Inv'
    OBVIOUS
  <2>1. WaitsDone'
    BY NextOrderly DEF NobodyWakesWaiters
  <2>2. k.current \in Pid
    BY DEF SystemInv, TypeOK, SchedState
  <2>3. CASE WaitpidReturn
    <3>1. k.status[k.waitFor[k.current]] = "ZOMBIE"
      BY <2>2, <2>3 DEF WaitpidReturn, WaitsDone, WaitDone, CpuNotAsleep
    <3>2. UNCHANGED fault
      BY <2>3, <3>1 DEF WaitpidReturn
    <3>3. QED
      BY <2>1, <3>2 DEF WaitpidAfterExit
  <2>4. CASE ~ WaitpidReturn
    <3>1. fault' = fault \/ fault' = "create_loop"
      BY <2>4 DEF Next, Boot, Tick, CtrlC, Create, CreateLast, Crash, Kill, Yield, Nice, Block,
                  Unblock, WaitpidZombie, WaitpidBlock, Step, vars
    <3>2. QED
      BY <2>1, <3>1 DEF WaitpidAfterExit
  <2>5. QED
    BY <2>3, <2>4
<1>3. QED
  BY <1>1, <1>2, SystemCorrect, PTL DEF Spec
=============================================================================
