--------------------------- MODULE CommandsProofs ---------------------------
(***************************************************************************)
(* The programs on semaphores, for any number of workers, writers and      *)
(* readers: no update is lost, pairs of workers end in zero, every letter  *)
(* is read once.                                                           *)
(***************************************************************************)
EXTENDS Commands, TLAPS, FiniteSetTheorems

(* test_sync: the semaphore is 1 while nobody is in slowInc, and 0 while   *)
(* somebody is; a worker killed inside leaves it at 0.                     *)
SyncTypeOK ==
  /\ semValue \in [{SEM_ID} -> Nat]
  /\ place \in [Workers -> {"none", "loop", "enter", "yield", "leave", "exited", "untold"}]
  /\ aux \in [Workers -> Int]
  /\ turn \in [Workers -> Nat]

OneInside ==
  /\ semValue[SEM_ID] <= 1
  /\ \A p \in Workers : InSection(p) => semValue[SEM_ID] = 0
  /\ \A p, q \in Workers : InSection(p) /\ InSection(q) => p = q
  /\ \A p \in Workers : place[p] = "yield" => aux[p] = global

SyncInv ==
  /\ SyncTypeOK
  /\ global \in Int /\ sum \in Int
  /\ main = "start" => \A p \in Workers : place[p] = "none"
  /\ useSem => OneInside /\ global = sum

(* The start, and what test_sync itself does.                              *)
LEMMA SyncStart == SyncInit => SyncInv
BY DEF SyncInit, SyncInv, SyncTypeOK, OneInside, InSection, Sem!Init

LEMMA MainKeeps ==
  ASSUME SyncInv,
         \/ LeftOpen \/ Start \/ StartFails \/ StartWithout \/ AllTried \/ PrintResult
         \/ KillMain
  PROVE  SyncInv'
<1> USE DEF SyncInv, SyncTypeOK, OneInside, InSection, workVars, semVars
<1>1. CASE LeftOpen
  BY <1>1 DEF LeftOpen, Sem!Create
<1>2. CASE Start
  BY <1>2 DEF Start, Sem!Create
<1>3. CASE StartFails
  BY <1>3 DEF StartFails
<1>4. CASE StartWithout
  BY <1>4 DEF StartWithout
<1>5. CASE AllTried
  BY <1>5 DEF AllTried
<1>6. CASE PrintResult
  BY <1>6 DEF PrintResult, Sem!Destroy
<1>7. CASE KillMain
  BY <1>7 DEF KillMain
<1> QED BY <1>1, <1>2, <1>3, <1>4, <1>5, <1>6, <1>7

(* What happens to a worker outside of slowInc, and its death anywhere.    *)
LEMMA OutsideKeeps ==
  ASSUME SyncInv, NEW p \in Workers,
         \/ CreateWorker(p) \/ CreateUnseen(p) \/ EnterFree(p) \/ WaitSem(p)
         \/ ExitWorker(p) \/ ExitCut(p) \/ KillWorker(p)
  PROVE  SyncInv'
<1> USE DEF SyncInv, SyncTypeOK, OneInside, InSection, workVars, semVars, Moves,
            KeepMain, MoreTurns
<1>1. CASE CreateWorker(p)
  BY <1>1 DEF CreateWorker
<1>2. CASE CreateUnseen(p)
  BY <1>2 DEF CreateUnseen
<1>3. CASE EnterFree(p)
  BY <1>3 DEF EnterFree
<1>4. CASE WaitSem(p)
  BY <1>4 DEF WaitSem, Sem!Wait
<1>5. CASE ExitWorker(p)
  BY <1>5 DEF ExitWorker
<1>6. CASE KillWorker(p)
  BY <1>6 DEF KillWorker, Sem!GiveUp
<1>7. CASE ExitCut(p)
  BY <1>7 DEF ExitCut
<1> QED BY <1>1, <1>2, <1>3, <1>4, <1>5, <1>6, <1>7

(* A worker in slowInc: it enters an empty section, and its copy of global *)
(* stays good while it is there.                                           *)
LEMMA InsideKeeps ==
  ASSUME SyncInv, NEW p \in Workers,
         Enter(p) \/ ReadGlobal(p) \/ WriteGlobal(p) \/ Leave(p)
  PROVE  SyncInv'
<1> USE DEF SyncInv, SyncTypeOK, OneInside, InSection, workVars, semVars, Moves,
            KeepMain, MoreTurns
<1>1. CASE Enter(p)
  BY <1>1 DEF Enter, Sem!Pass
<1>2. CASE ReadGlobal(p)
  BY <1>2 DEF ReadGlobal
<1>3. CASE WriteGlobal(p)
  BY <1>3, DeltaAssumption DEF WriteGlobal
<1>4. CASE Leave(p)
  BY <1>4 DEF Leave, Sem!Post
<1> QED BY <1>1, <1>2, <1>3, <1>4

LEMMA SyncKeeps == SyncInv /\ [SyncNext]_syncVars => SyncInv'
<1> SUFFICES ASSUME SyncInv, [SyncNext]_syncVars PROVE SyncInv'
  OBVIOUS
<1>1. CASE UNCHANGED syncVars
  BY <1>1 DEF syncVars, SyncInv, SyncTypeOK, OneInside, InSection
<1> QED BY <1>1, MainKeeps, OutsideKeeps, InsideKeeps DEF SyncNext, Works, Strikes

(* test_synchro loses no increment, with any number of workers and turns,  *)
(* whoever is killed wherever (test_sync.c).                               *)
THEOREM NoUpdateLost == SyncSpec => []NoLostUpdate
<1>1. SyncInv => NoLostUpdate
  BY DEF SyncInv, OneInside, NoLostUpdate
<1> QED BY SyncStart, SyncKeeps, <1>1, PTL DEF SyncSpec

-----------------------------------------------------------------------------
(* test_sync: while nobody is killed, every worker does its turns, and the *)
(* increments written are those of the turns that were done.               *)
Written(p) == IF place[p] = "leave" THEN turn[p] + 1 ELSE turn[p]

Done(w, d) == {x \in Workers \X Nat : Delta[x[1]] = d /\ x[2] < w[x[1]]}

Turns == [p \in Workers |-> Written(p)]

AllTurns ==
  /\ \A p \in Workers :
       /\ turn[p] <= Times
       /\ place[p] = "none" => turn[p] = 0
       /\ InSection(p) => turn[p] < Times
       /\ place[p] = "exited" => turn[p] = Times
       /\ place[p] = "none" <=> p \notin tried
  /\ main \in {"wait", "printed"} => tried = Workers
  /\ main = "printed" => \A p \in Workers : place[p] = "exited"

Summed ==
  /\ IsFiniteSet(Done(Turns, 1)) /\ IsFiniteSet(Done(Turns, -1))
  /\ sum = Cardinality(Done(Turns, 1)) - Cardinality(Done(Turns, -1))

CountInv ==
  /\ main \in {"start", "create", "wait", "printed", "failed", "killed"}
  /\ tried \subseteq Workers
  /\ ~ struck => AllTurns /\ Summed

(* As many processes decrement as increment.                               *)
Paired ==
  /\ Delta \in [Workers -> {1, -1}]
  /\ ExistsBijection({p \in Workers : Delta[p] = 1}, {p \in Workers : Delta[p] = -1})

LEMMA CountStart == SyncInit => CountInv
<1> SUFFICES ASSUME SyncInit PROVE CountInv
  OBVIOUS
<1>1. Done(Turns, 1) = {} /\ Done(Turns, -1) = {}
  <2>1. \A p \in Workers : Turns[p] = 0
    BY DEF SyncInit, Turns, Written
  <2> QED BY <2>1 DEF Done
<1>2. Summed
  BY <1>1, FS_EmptySet DEF Summed, SyncInit
<1>3. AllTurns
  BY TimesAssumption DEF SyncInit, AllTurns, InSection
<1> QED BY <1>2, <1>3 DEF SyncInit, CountInv

(* One turn more of p is one element more of one of the two sets.          *)
LEMMA OneMore ==
  ASSUME NEW w \in [Workers -> Nat], NEW p \in Workers, NEW d \in Int,
         IsFiniteSet(Done(w, d)), NEW v, v = [w EXCEPT ![p] = @ + 1]
  PROVE  /\ IsFiniteSet(Done(v, d))
         /\ Cardinality(Done(w, d)) \in Nat
         /\ Cardinality(Done(v, d)) =
              IF Delta[p] = d THEN Cardinality(Done(w, d)) + 1 ELSE Cardinality(Done(w, d))
<1> DEFINE D == Done(w, d)
<1>1. Cardinality(D) \in Nat
  BY FS_CardinalityType
<1>2. CASE Delta[p] = d
  <2>1. Done(v, d) = D \cup {<< p, w[p] >>}
    BY <1>2 DEF Done
  <2>2. << p, w[p] >> \notin D /\ IsFiniteSet(D)
    BY DEF Done
  <2> HIDE DEF D
  <2>3. /\ IsFiniteSet(D \cup {<< p, w[p] >>})
        /\ Cardinality(D \cup {<< p, w[p] >>}) = Cardinality(D) + 1
    BY <2>2, FS_AddElement
  <2> QED BY <1>1, <1>2, <2>1, <2>3 DEF D
<1>3. CASE Delta[p] # d
  <2>1. Done(v, d) = D
    BY <1>3 DEF Done
  <2> QED BY <1>1, <1>3, <2>1
<1> QED BY <1>2, <1>3

(* Steps in which no increment is written.                                 *)
LEMMA SummedStays ==
  ASSUME Summed, \A p \in Workers : Written(p)' = Written(p), sum' = sum
  PROVE  Summed'
<1>1. Turns' = Turns
  BY DEF Turns
<1>2. Done(Turns, 1)' = Done(Turns, 1) /\ Done(Turns, -1)' = Done(Turns, -1)
  BY <1>1 DEF Done
<1> QED BY <1>2 DEF Summed

LEMMA CountMain ==
  ASSUME SyncInv, CountInv,
         \/ LeftOpen \/ Start \/ StartFails \/ StartWithout \/ AllTried \/ PrintResult
         \/ KillMain
  PROVE  CountInv'
<1>1. UNCHANGED << tried, workVars >> /\ (struck' = struck \/ struck')
  BY DEF LeftOpen, Start, StartFails, StartWithout, AllTried, PrintResult, KillMain
<1>2. main' \in {"start", "create", "wait", "printed", "failed", "killed"}
  BY DEF LeftOpen, Start, StartFails, StartWithout, AllTried, PrintResult, KillMain, CountInv
<1>3. ASSUME ~ struck' PROVE AllTurns' /\ Summed'
  <2>1. AllTurns /\ Summed
    BY <1>1, <1>3 DEF CountInv
  <2>2. Summed'
    BY <1>1, <2>1, SummedStays DEF workVars, Written
  <2>3. main' \in {"wait", "printed"} => tried' = Workers
    BY <1>1, <2>1
       DEF LeftOpen, Start, StartFails, StartWithout, AllTried, PrintResult, KillMain, AllTurns
  <2>4. main' = "printed" => \A p \in Workers : place'[p] = "exited"
    <3>1. CASE PrintResult
      <4>1. tried = Workers
        BY <2>1, <3>1 DEF PrintResult, AllTurns
      <4> QED BY <1>1, <2>1, <3>1, <4>1 DEF PrintResult, AllTurns, workVars
    <3>2. CASE ~ PrintResult
      BY <1>1, <2>1, <3>2
         DEF LeftOpen, Start, StartFails, StartWithout, AllTried, KillMain, AllTurns, workVars
    <3> QED BY <3>1, <3>2
  <2> QED BY <1>1, <2>1, <2>2, <2>3, <2>4 DEF AllTurns, workVars, InSection
<1> QED BY <1>1, <1>2, <1>3 DEF CountInv

LEMMA CountWork ==
  ASSUME SyncInv, CountInv, Paired, NEW p \in Workers,
         \/ CreateWorker(p) \/ CreateUnseen(p) \/ EnterFree(p) \/ WaitSem(p) \/ Enter(p)
         \/ ReadGlobal(p) \/ WriteGlobal(p) \/ Leave(p) \/ ExitWorker(p) \/ ExitCut(p)
         \/ KillWorker(p)
  PROVE  CountInv'
<1> USE DEF KeepMain, Moves, MoreTurns, workVars, InSection
<1>1. CASE CreateUnseen(p) \/ KillWorker(p)
  BY <1>1 DEF CreateUnseen, KillWorker, CountInv
<1>2. CASE ~ (CreateUnseen(p) \/ KillWorker(p))
  <2>1. struck' = struck /\ main' = main /\ tried' \subseteq Workers
    BY <1>2 DEF CreateWorker, EnterFree, WaitSem, Enter, ReadGlobal, WriteGlobal, Leave,
                ExitWorker, ExitCut, CountInv
  <2> SUFFICES ASSUME ~ struck PROVE AllTurns' /\ Summed'
    BY <2>1 DEF CountInv
  <2>2. AllTurns /\ Summed
    BY DEF CountInv
  <2>3. /\ place \in [Workers -> {"none", "loop", "enter", "yield", "leave", "exited", "untold"}]
        /\ turn \in [Workers -> Nat] /\ sum \in Int /\ Times \in Nat
    BY TimesAssumption DEF SyncInv, SyncTypeOK
  <2>4. AllTurns'
    <3>1. CASE CreateWorker(p)
      BY <2>2, <2>3, <3>1 DEF CreateWorker, AllTurns
    <3>2. CASE EnterFree(p) \/ Enter(p)
      BY <2>2, <2>3, <3>2 DEF EnterFree, Enter, AllTurns
    <3>3. CASE WaitSem(p)
      BY <2>2, <2>3, <3>3 DEF WaitSem, AllTurns
    <3>4. CASE ReadGlobal(p) \/ WriteGlobal(p)
      BY <2>2, <2>3, <3>4 DEF ReadGlobal, WriteGlobal, AllTurns
    <3>5. CASE Leave(p)
      BY <2>2, <2>3, <3>5 DEF Leave, AllTurns
    <3>6. CASE ExitWorker(p)
      BY <2>2, <2>3, <3>6 DEF ExitWorker, AllTurns
    <3>7. CASE ExitCut(p)
      BY <2>2, <2>3, <3>7 DEF ExitCut, AllTurns
    <3> QED BY <1>2, <3>1, <3>2, <3>3, <3>4, <3>5, <3>6, <3>7
  <2>5. CASE ~ WriteGlobal(p)
    <3>1. sum' = sum /\ \A q \in Workers : Written(q)' = Written(q)
      BY <1>2, <2>2, <2>3, <2>5
         DEF CreateWorker, EnterFree, WaitSem, Enter, ReadGlobal, Leave, ExitWorker, ExitCut,
             AllTurns, Written
    <3> QED BY <2>2, <2>4, <3>1, SummedStays
  <2>6. CASE WriteGlobal(p)
    <3> DEFINE w == Turns
               v == [w EXCEPT ![p] = @ + 1]
    <3>1. w \in [Workers -> Nat]
      BY <2>3 DEF Turns, Written
    <3>2. Turns' = v
      <4>1. \A q \in Workers : Written(q)' = IF q = p THEN Written(q) + 1 ELSE Written(q)
        BY <2>3, <2>6 DEF WriteGlobal, Written
      <4> QED BY <4>1 DEF Turns
    <3>3. sum' = sum + Delta[p] /\ Delta[p] \in {1, -1}
      BY <2>6 DEF WriteGlobal, Paired
    <3>4. Done(Turns, 1)' = Done(v, 1) /\ Done(Turns, -1)' = Done(v, -1)
      BY <3>2 DEF Done
    <3>5. ASSUME NEW d \in {1, -1}
          PROVE  /\ IsFiniteSet(Done(v, d)) /\ Cardinality(Done(w, d)) \in Nat
                 /\ Cardinality(Done(v, d)) =
                      IF Delta[p] = d THEN Cardinality(Done(w, d)) + 1
                                      ELSE Cardinality(Done(w, d))
      <4>1. IsFiniteSet(Done(w, d)) /\ d \in Int
        BY <2>2 DEF Summed
      <4>2. v = [w EXCEPT ![p] = @ + 1]
        OBVIOUS
      <4> HIDE DEF w, v
      <4> QED BY <3>1, <4>1, <4>2, OneMore, Zenon
    <3>6. /\ IsFiniteSet(Done(v, 1)) /\ Cardinality(Done(w, 1)) \in Nat
          /\ IsFiniteSet(Done(v, -1)) /\ Cardinality(Done(w, -1)) \in Nat
          /\ Cardinality(Done(v, 1)) - Cardinality(Done(v, -1)) =
               Cardinality(Done(w, 1)) - Cardinality(Done(w, -1)) + Delta[p]
      <4> HIDE DEF w, v
      <4> QED BY <3>3, <3>5
    <3>7. Summed'
      <4> HIDE DEF v
      <4> QED BY <2>2, <3>3, <3>4, <3>6 DEF Summed
    <3> QED BY <2>4, <3>7
  <2> QED BY <2>5, <2>6
<1> QED BY <1>1, <1>2

(* All turns done, the two sets pair off.                                  *)
LEMMA AllDone ==
  ASSUME Paired, Summed, \A p \in Workers : Written(p) = Times
  PROVE  sum = 0
<1> DEFINE A == {p \in Workers : Delta[p] = 1}
           B == {p \in Workers : Delta[p] = -1}
           U == Done(Turns, 1)
           D == Done(Turns, -1)
<1>1. PICK f \in Bijection(A, B) : TRUE
  BY DEF Paired, ExistsBijection
<1>2. U = A \X {n \in Nat : n < Times} /\ D = B \X {n \in Nat : n < Times}
  BY DEF Done, Turns
<1> DEFINE g == [x \in U |-> << f[x[1]], x[2] >>]
<1>3. /\ f \in [A -> B]
      /\ \A a, b \in A : f[a] = f[b] => a = b
      /\ \A b \in B : \E a \in A : f[a] = b
  BY <1>1 DEF Bijection, Injection, Surjection, IsInjective
<1> HIDE DEF A, B, U, D
<1>4. g \in [U -> D]
  BY <1>2, <1>3
<1>5. \A x, y \in U : g[x] = g[y] => x = y
  BY <1>2, <1>3
<1>6. \A y \in D : \E x \in U : g[x] = y
  <2> SUFFICES ASSUME NEW y \in D PROVE \E x \in U : g[x] = y
    OBVIOUS
  <2>1. PICK a \in A : f[a] = y[1]
    BY <1>2, <1>3
  <2>2. << a, y[2] >> \in U /\ g[<< a, y[2] >>] = y
    BY <1>2, <2>1
  <2> QED BY <2>2
<1>7. ExistsBijection(U, D)
  <2> HIDE DEF g
  <2> QED BY <1>4, <1>5, <1>6 DEF ExistsBijection, Bijection, Injection, Surjection, IsInjective
<1>8. IsFiniteSet(U) /\ IsFiniteSet(D) /\ sum = Cardinality(U) - Cardinality(D)
  BY DEF Summed, U, D
<1>9. Cardinality(U) = Cardinality(D) /\ Cardinality(U) \in Nat
  BY <1>7, <1>8, FS_Bijection, FS_CardinalityType
<1> QED BY <1>8, <1>9

(* With a semaphore, as many +1 as -1 end in 0, for any number of pairs of *)
(* workers and any number of turns, if every worker was created and nobody *)
(* was killed: that is what test_sync prints (test_sync.c, README.md:178). *)
THEOREM PairsEndInZero == ASSUME Paired PROVE SyncSpec => []FinalZero
<1>1. SyncInv /\ CountInv => FinalZero
  <2> SUFFICES ASSUME SyncInv, CountInv, main = "printed", useSem, ~ struck PROVE global = 0
    BY DEF FinalZero
  <2>1. \A p \in Workers : Written(p) = Times
    <3>1. \A p \in Workers : place[p] = "exited" /\ turn[p] = Times
      BY DEF CountInv, AllTurns
    <3> QED BY <3>1, TimesAssumption DEF Written
  <2> QED BY <2>1, AllDone DEF CountInv, SyncInv
<1>2. SyncInv /\ CountInv /\ [SyncNext]_syncVars => CountInv'
  <2> SUFFICES ASSUME SyncInv, CountInv, [SyncNext]_syncVars PROVE CountInv'
    OBVIOUS
  <2>1. CASE UNCHANGED syncVars
    <3>1. \A p \in Workers : Written(p)' = Written(p)
      BY <2>1 DEF syncVars, Written
    <3> QED BY <2>1, <3>1, SummedStays DEF syncVars, CountInv, AllTurns, InSection
  <2> QED BY <2>1, CountMain, CountWork DEF SyncNext, Works, Strikes
<1> QED BY <1>1, <1>2, SyncStart, SyncKeeps, CountStart, PTL DEF SyncSpec

-----------------------------------------------------------------------------
(* mvar: there is one token, in a semaphore or held by a process, or it is *)
(* lost; where it is tells whether there is an unread letter.  A process   *)
(* that the freed memory lets through has no token, but the mutex has gone *)
(* before its semaphore, so it gets no further.                            *)
MVarTypeOK ==
  /\ value \in [MVarSems -> Nat]
  /\ waiting \in [Users -> MVarSems \cup {Nothing}]
  /\ at \in [Users -> {"none", "wait", "token", "locked", "done", "unlocked",
                       "exited", "freed_turn", "freed_mutex"}]
  /\ unread \in BOOLEAN

Keeps(p) ==
  \/ at[p] \in {"freed_mutex", "locked", "done", "unlocked"}
  \/ at[p] = "token" /\ MVAR_MUTEX \in open

OneToken ==
  /\ \A p \in Users : Keeps(p) => value[MVAR_READ_SEM] = 0 /\ value[MVAR_WRITE_SEM] = 0
  /\ \A p, q \in Users : Keeps(p) /\ Keeps(q) => p = q
  /\ value[MVAR_READ_SEM] + value[MVAR_WRITE_SEM] <= 1

TokenTells ==
  /\ value[MVAR_READ_SEM] = 1 => unread
  /\ value[MVAR_WRITE_SEM] = 1 => ~ unread
  /\ \A p \in Users :
       /\ Keeps(p) /\ at[p] \in {"token", "freed_mutex", "locked"} => (unread <=> p \in Readers)
       /\ at[p] \in {"done", "unlocked"} => (unread <=> p \in Writers)

NotYetMade ==
  /\ \A p \in Users : at[p] = "none"
  /\ value[MVAR_READ_SEM] = 0 /\ value[MVAR_WRITE_SEM] = 0
  /\ ~ unread

(* Where a process sleeps, and when the mutex has gone.                    *)
Asleep ==
  /\ \A p \in Users :
       /\ waiting[p] = MVAR_MUTEX => at[p] = "token"
       /\ waiting[p] \in {MVAR_READ_SEM, MVAR_WRITE_SEM} => at[p] = "wait" /\ waiting[p] = Turn(p)
       /\ waiting[p] # Nothing => waiting[p] \in open
       /\ at[p] = "freed_turn" => MVAR_MUTEX \notin open
  /\ maker \in {"undo_read", "undo_write", "failed"} => MVAR_MUTEX \notin open

MVarInv ==
  /\ MVarTypeOK
  /\ Asleep
  /\ OneToken
  /\ TokenTells
  /\ maker \in {"mutex", "read", "write"} => NotYetMade

LEMMA MVarStart == MVarInit => MVarInv
<1> SUFFICES ASSUME MVarInit PROVE MVarInv
  OBVIOUS
<1>1. /\ value = [i \in MVarSems |-> 0] /\ at = [p \in Users |-> "none"]
      /\ waiting = [p \in Users |-> Nothing] /\ maker = "mutex"
      /\ unread \in BOOLEAN /\ ~ unread
  BY DEF MVarInit, S!Init
<1>2. value[MVAR_READ_SEM] = 0 /\ value[MVAR_WRITE_SEM] = 0
  BY <1>1 DEF MVarSems
<1>3. MVarTypeOK
  BY <1>1 DEF MVarTypeOK
<1>4. OneToken /\ TokenTells /\ NotYetMade
  BY <1>1, <1>2 DEF OneToken, TokenTells, NotYetMade, Keeps
<1>5. Asleep
  BY <1>1, SemsAssumption DEF Asleep, MVarSems
<1> QED BY <1>3, <1>4, <1>5 DEF MVarInv

(* A semaphore is taken away from the processes that sleep in it: who      *)
(* sleeps in the mutex has the token, who sleeps for its token has none.   *)
LEMMA DestroyKeeps ==
  ASSUME MVarInv, DestroySems
  PROVE  MVarInv'
<1> USE DEF MVarInv, MVarTypeOK, Asleep, OneToken, TokenTells, Keeps, MVarSems, semaphores
<1>1. PICK i \in MVarSems, then \in {"undo_read", "undo_write", "failed"} :
        /\ DestroySem(maker, i, then)
        /\ i # MVAR_MUTEX => MVAR_MUTEX \notin open
        /\ maker \in {"undo_mutex", "undo_read", "undo_write"}
  BY DEF DestroySems, DestroySem
<1>2. /\ at' = [p \in Users |-> IF waiting[p] # i THEN at[p]
                                ELSE IF i = MVAR_MUTEX THEN "freed_mutex" ELSE "freed_turn"]
      /\ maker' = then /\ unread' = unread
  BY <1>1 DEF DestroySem
<1>3. /\ open' = open \ {i}
      /\ value' \in [MVarSems -> Nat]
      /\ \A j \in MVarSems : value'[j] = value[j] \/ value'[j] = 0
      /\ waiting' = [p \in Users |-> IF waiting[p] = i THEN Nothing ELSE waiting[p]]
  <2>1. CASE i \in open
    BY <1>1, <2>1 DEF DestroySem, S!Destroy
  <2>2. CASE i \notin open
    <3>1. UNCHANGED << open, value, waiting >> /\ \A p \in Users : waiting[p] # i
      BY <1>1, <2>2, SemsAssumption DEF DestroySem
    <3>2. waiting = [p \in Users |-> waiting[p]]
      OBVIOUS
    <3> QED BY <2>2, <3>1, <3>2
  <2> QED BY <2>1, <2>2
<1>4. MVAR_MUTEX \notin open'
  BY <1>1, <1>3
<1>5. ASSUME NEW p \in Users, Keeps(p)' PROVE Keeps(p)
  BY <1>1, <1>2, <1>3, <1>4, <1>5, SemsAssumption
<1>6. MVarTypeOK'
  BY <1>2, <1>3
<1>7. Asleep'
  BY <1>1, <1>2, <1>3, <1>4, SemsAssumption
<1>8. OneToken'
  <2>1. /\ value'[MVAR_READ_SEM] = value[MVAR_READ_SEM] \/ value'[MVAR_READ_SEM] = 0
        /\ value'[MVAR_WRITE_SEM] = value[MVAR_WRITE_SEM] \/ value'[MVAR_WRITE_SEM] = 0
    BY <1>3
  <2>2. value[MVAR_READ_SEM] \in Nat /\ value[MVAR_WRITE_SEM] \in Nat
    OBVIOUS
  <2>3. value'[MVAR_READ_SEM] + value'[MVAR_WRITE_SEM] <= 1
    BY <2>1, <2>2
  <2>4. \A p \in Users : Keeps(p)' => value'[MVAR_READ_SEM] = 0 /\ value'[MVAR_WRITE_SEM] = 0
    BY <1>5, <2>1
  <2>5. \A p, q \in Users : Keeps(p)' /\ Keeps(q)' => p = q
    BY <1>5
  <2> QED BY <2>3, <2>4, <2>5
<1>9. TokenTells'
  <2>1. ASSUME NEW p \in Users
        PROVE  /\ Keeps(p)' /\ at'[p] \in {"token", "freed_mutex", "locked"} =>
                    (unread' <=> p \in Readers)
               /\ at'[p] \in {"done", "unlocked"} => (unread' <=> p \in Writers)
    BY <1>1, <1>2, <1>3, <1>4, <1>5, SemsAssumption
  <2> QED BY <1>2, <1>3, <2>1
<1> QED BY <1>1, <1>2, <1>6, <1>7, <1>8, <1>9

(* What else mvar_func does: it puts the token into the writers' semaphore.*)
LEMMA MakerKeeps ==
  ASSUME MVarInv,
         InitSems \/ InitFails \/ CreateFails \/ MakerReturns \/ \E p \in Users : CreateUser(p)
  PROVE  MVarInv'
<1> USE DEF MVarInv, MVarTypeOK, Asleep, OneToken, TokenTells, NotYetMade, Keeps, MVarSems,
            semaphores
<1>1. CASE InitSem("mutex", MVAR_MUTEX, 1, "read")
  BY <1>1, SemsAssumption DEF InitSem, S!Create
<1>2. CASE InitSem("read", MVAR_READ_SEM, 0, "write")
  BY <1>2, SemsAssumption DEF InitSem, S!Create
<1>3. CASE InitSem("write", MVAR_WRITE_SEM, 1, "create")
  BY <1>3, SemsAssumption DEF InitSem, S!Create
<1>4. CASE InitFails \/ CreateFails
  BY <1>4 DEF InitFails, CreateFails
<1>5. CASE MakerReturns
  BY <1>5 DEF MakerReturns
<1>6. CASE \E p \in Users : CreateUser(p)
  BY <1>6, SemsAssumption DEF CreateUser
<1> QED BY <1>1, <1>2, <1>3, <1>4, <1>5, <1>6 DEF InitSems

(* A process that does not sleep is where it says, and stays there while   *)
(* it sleeps; the mutex does not come back.                                *)
LEMMA AsleepKeeps ==
  ASSUME MVarInv, NEW p \in Users, Uses(p) \/ PassFreed(p) \/ Kill(p)
  PROVE  /\ Asleep' /\ waiting' \in [Users -> MVarSems \cup {Nothing}]
         /\ open' = open /\ maker' = maker
         /\ \A q \in Users \ {p} : at'[q] = at[q]
<1> USE DEF MVarInv, semaphores, Goes
<1>1. /\ waiting \in [Users -> MVarSems \cup {Nothing}] /\ Asleep
      /\ at \in [Users -> {"none", "wait", "token", "locked", "done", "unlocked",
                           "exited", "freed_turn", "freed_mutex"}]
      /\ Nothing \notin MVarSems
      /\ Turn(p) \in {MVAR_READ_SEM, MVAR_WRITE_SEM} /\ MVAR_MUTEX \in MVarSems
  BY SemsAssumption DEF MVarTypeOK, Turn, MVarSems
<1>2. CASE TakeToken(p) \/ Lock(p) \/ Kill(p)
  <2>1. /\ open' = open /\ maker' = maker /\ at'[p] \in {"token", "locked", "exited"}
        /\ \A q \in Users \ {p} : at'[q] = at[q]
        /\ waiting' \in [Users -> MVarSems \cup {Nothing}]
        /\ waiting'[p] = Nothing /\ \A q \in Users \ {p} : waiting'[q] = waiting[q]
    BY <1>1, <1>2 DEF TakeToken, Lock, Kill, S!Pass, S!GiveUp
  <2> QED BY <1>1, <2>1 DEF Asleep, MVarSems
<1>3. CASE Sleeps(p)
  <2>1. PICK i \in open :
          /\ UNCHANGED << open, maker, at >> /\ waiting' = [waiting EXCEPT ![p] = i]
          /\ \/ at[p] = "wait" /\ i = Turn(p)
             \/ at[p] = "token" /\ i = MVAR_MUTEX
    <3>1. CASE SleepIn(p, "wait", Turn(p))
      BY <3>1 DEF SleepIn, S!Wait
    <3>2. CASE SleepIn(p, "token", MVAR_MUTEX)
      BY <3>2 DEF SleepIn, S!Wait
    <3> QED BY <1>3, <3>1, <3>2 DEF Sleeps
  <2>2. i \in MVarSems
    BY <1>1, <2>1 DEF MVarSems
  <2> QED BY <1>1, <2>1, <2>2, SemsAssumption DEF Asleep
<1>4. CASE Access(p) \/ Unlock(p) \/ PassOn(p) \/ Refused(p) \/ PassFreed(p)
  <2>1. /\ UNCHANGED << open, maker, waiting >>
        /\ at'[p] \in {"done", "unlocked", "wait", "exited", "token", "locked"}
        /\ \A q \in Users \ {p} : at'[q] = at[q]
    BY <1>1, <1>4 DEF Access, Unlock, PassOn, Refused, PassFreed, S!Post
  <2>2. waiting[p] = Nothing
    <3>1. CASE Refused(p)
      BY <1>1, <3>1 DEF Refused, Asleep, MVarSems
    <3>2. CASE ~ Refused(p)
      <4>1. at[p] \in {"locked", "done", "unlocked", "freed_turn", "freed_mutex"}
        BY <1>4, <3>2 DEF Access, Unlock, PassOn, PassFreed
      <4> QED BY <1>1, <4>1 DEF Asleep, MVarSems
    <3> QED BY <3>1, <3>2
  <2> QED BY <1>1, <2>1, <2>2, SemsAssumption DEF Asleep, MVarSems
<1> QED BY <1>2, <1>3, <1>4 DEF Uses

(* The token goes round.                                                   *)
LEMMA UserKeeps ==
  ASSUME MVarInv, NEW p \in Users, Uses(p) \/ PassFreed(p) \/ Kill(p)
  PROVE  MVarInv'
<1> USE AsleepKeeps
<1> USE DEF MVarInv, MVarTypeOK, OneToken, TokenTells, NotYetMade, Keeps, MVarSems,
            semaphores, Goes
<1>1. CASE TakeToken(p)
  <2>1. /\ Turn(p) \in {MVAR_READ_SEM, MVAR_WRITE_SEM}
        /\ Turn(p) = MVAR_READ_SEM <=> p \in Readers
        /\ p \in Readers <=> p \notin Writers
    BY SemsAssumption, UsersAssumption DEF Turn, Users
  <2>2. /\ value[Turn(p)] > 0 /\ value' = [value EXCEPT ![Turn(p)] = @ - 1]
        /\ at[p] = "wait" /\ at' = [at EXCEPT ![p] = "token"]
        /\ UNCHANGED << maker, unread >>
    BY <1>1 DEF TakeToken, S!Pass
  <2>3. /\ value[Turn(p)] = 1
        /\ value'[MVAR_READ_SEM] = 0 /\ value'[MVAR_WRITE_SEM] = 0
    BY <2>1, <2>2, SemsAssumption
  <2>4. unread <=> p \in Readers
    BY <2>1, <2>3
  <2>5. \A q \in Users : ~ Keeps(q)
    BY <2>1, <2>3
  <2>6. MVarTypeOK'
    BY <2>1, <2>2
  <2>7. OneToken'
    BY <2>2, <2>3, <2>5
  <2>8. TokenTells'
    BY <2>2, <2>3, <2>4, <2>5
  <2>9. ~ (maker \in {"mutex", "read", "write"})'
    BY <2>2
  <2> QED BY <2>6, <2>7, <2>8, <2>9
<1>2. CASE Lock(p)
  BY <1>2, SemsAssumption DEF Lock, S!Pass
<1>3. CASE Sleeps(p)
  BY <1>3 DEF Sleeps, SleepIn, S!Wait
<1>4. CASE Access(p)
  <2>1. /\ at[p] = "locked" /\ at' = [at EXCEPT ![p] = "done"]
        /\ UNCHANGED << value, maker >>
    BY <1>4 DEF Access
  <2>5. unread' = (p \in Writers)
    BY <1>4, Zenon DEF Access
  <2>6. unread' \in BOOLEAN /\ (unread' <=> p \in Writers)
    <3>1. CASE p \in Writers
      <4>1. unread' = TRUE
        BY <2>5, <3>1
      <4> QED BY <3>1, <4>1
    <3>2. CASE p \notin Writers
      <4>1. unread' = FALSE
        <5>1. (p \in Writers) = FALSE
          BY <3>2
        <5> QED BY <2>5, <5>1, Zenon
      <4> QED BY <3>2, <4>1
    <3> QED BY <3>1, <3>2
  <2>2. \A q \in Users : Keeps(q) => q = p
    BY <2>1
  <2>3. MVarTypeOK' /\ OneToken'
    BY <2>1, <2>6
  <2>4. TokenTells'
    BY <2>1, <2>2, <2>6
  <2> QED BY <2>1, <2>3, <2>4
<1>5. CASE Unlock(p)
  BY <1>5, SemsAssumption DEF Unlock, S!Post
<1>6. CASE PassOn(p)
  BY <1>6, SemsAssumption, UsersAssumption DEF PassOn, S!Post, Opposite, Users
<1>7. CASE Refused(p)
  BY <1>7 DEF Refused
<1>8. CASE Kill(p)
  BY <1>8 DEF Kill, S!GiveUp
<1>9. CASE PassFreed(p)
  BY <1>9, SemsAssumption DEF PassFreed, Asleep
<1> QED BY <1>1, <1>2, <1>3, <1>4, <1>5, <1>6, <1>7, <1>8, <1>9 DEF Uses

(* Every letter of the MVar is read once before the next is written, with  *)
(* any number of writers and readers, whoever is killed and whatever fails *)
(* to be created (mvar.c).                                                 *)
THEOREM ReadsAreWrites == MVarSpec => []ReadsMatchWrites
<1>1. MVarInv /\ [MVarNext]_mvarVars => MVarInv'
  <2> SUFFICES ASSUME MVarInv, [MVarNext]_mvarVars PROVE MVarInv'
    OBVIOUS
  <2>1. CASE UNCHANGED mvarVars
    BY <2>1 DEF mvarVars, MVarInv, MVarTypeOK, Asleep, OneToken, TokenTells, NotYetMade, Keeps
  <2> QED BY <2>1, MakerKeeps, DestroyKeeps, UserKeeps DEF MVarNext, Makes
<1>2. MVarInv => ReadsMatchWrites
  BY DEF MVarInv, MVarTypeOK, TokenTells, Keeps, ReadsMatchWrites
<1> QED BY MVarStart, <1>1, <1>2, PTL DEF MVarSpec
=============================================================================
