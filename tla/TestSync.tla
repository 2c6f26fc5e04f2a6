------------------------------ MODULE TestSync ------------------------------
(***************************************************************************)
(* The commands test_synchro and test_no_synchro (Userland/tests/src/      *)
(* test_sync.c): processes that add +1 and -1 to a shared counter, with a  *)
(* yield between the read and the write, inside a semaphore or not.  The   *)
(* semaphore is the one that Semaphores is shown to implement.             *)
(***************************************************************************)
EXTENDS Integers

CONSTANTS
  Workers,      \* the processes my_process_inc
  Delta,        \* Delta[p]: what p adds, +1 or -1
  Times,        \* how often it does
  SEM_ID,
  MaxSem,       \* 2^32 - 1, the largest value of a semaphore
  Awake         \* what a process waits for when it does not wait

ASSUME DeltaAssumption == Delta \in [Workers -> Int]
ASSUME TimesAssumption == Times \in Nat
ASSUME SemAssumption   == MaxSem \in Nat \ {0} /\ SEM_ID # Awake

VARIABLES
  semOpen, semValue, semWaiting,    \* the semaphore (CountingSemaphore)
  useSem,       \* the argument of test_sync
  main,         \* where test_sync is
  tried,        \* the workers it has called sys_create_process for
  place,        \* place[p]: where worker p is
  aux,          \* aux[p]: its local copy of global
  turn,         \* turn[p]: its loop variable i
  global,
  sum,          \* history: the increments that were written
  struck        \* history: was a process killed, or not created?

syncVars == << semOpen, semValue, semWaiting, useSem, main, tried, place, aux, turn,
               global, sum, struck >>

semVars == << semOpen, semValue, semWaiting >>

Sem == INSTANCE CountingSemaphore WITH
  Procs <- Workers, Sems <- {SEM_ID}, InitialValues <- {1}, MaxValue <- MaxSem,
  Nothing <- Awake, open <- semOpen, value <- semValue, waiting <- semWaiting

(* place[p]: "none", "loop" at the head of the loop, "enter" with the      *)
(* semaphore, "yield" in slowInc's yield, "leave" after it, "exited", or   *)
(* "untold" when test_sync sleeps in p's waitpid and is not told of that.  *)
(* main: "start", "create", "wait", "printed", "failed", "killed".         *)
SyncInit ==
  /\ Sem!Init
  /\ useSem = TRUE
  /\ main = "start"
  /\ tried = {}
  /\ place = [p \in Workers |-> "none"]
  /\ aux = [p \in Workers |-> 0]
  /\ turn = [p \in Workers |-> 0]
  /\ global = 0
  /\ sum = 0
  /\ struck = FALSE

workVars == << place, aux, turn, global, sum >>

-----------------------------------------------------------------------------
(* A test_synchro that was killed before has left the semaphore behind. *)
LeftOpen ==
  /\ main = "start"
  /\ Sem!Create(SEM_ID, 1)
  /\ UNCHANGED << useSem, main, tried, workVars, struck >>

Start ==
  /\ main = "start"
  /\ Sem!Create(SEM_ID, 1)
  /\ main' = "create"
  /\ UNCHANGED << useSem, tried, workVars, struck >>

(* sys_sem_init refuses an identifier that is in use. *)
StartFails ==
  /\ main = "start"
  /\ SEM_ID \in semOpen
  /\ main' = "failed"
  /\ UNCHANGED << semVars, useSem, tried, workVars, struck >>

StartWithout ==
  /\ main = "start"
  /\ useSem' = FALSE
  /\ main' = "create"
  /\ UNCHANGED << semVars, tried, workVars, struck >>

CreateWorker(p) ==
  /\ main = "create"
  /\ p \notin tried
  /\ tried' = tried \cup {p}
  /\ place' = [place EXCEPT ![p] = "loop"]
  /\ UNCHANGED << semVars, useSem, main, aux, turn, global, sum, struck >>

(* pids[i] is unsigned: `pids[i] < 0` does not see that it is -1.          *)
CreateUnseen(p) ==
  /\ main = "create"
  /\ p \notin tried
  /\ tried' = tried \cup {p}
  /\ struck' = TRUE
  /\ UNCHANGED << semVars, useSem, main, workVars >>

AllTried ==
  /\ main = "create"
  /\ tried = Workers
  /\ main' = "wait"
  /\ UNCHANGED << semVars, useSem, tried, workVars, struck >>

(* Mutant: the results are printed without waiting for the workers.        *)
PrintResult_NoWait ==
  /\ main = "wait"
  /\ main' = "printed"
  /\ IF useSem THEN Sem!Destroy(SEM_ID) ELSE UNCHANGED semVars
  /\ UNCHANGED << useSem, tried, workVars, struck >>

(* The waitpid of every worker has returned (at once for one that was not  *)
(* created, never for one that is untold): the semaphore is destroyed and  *)
(* global printed.                                                         *)
PrintResult ==
  /\ main = "wait"
  /\ \A p \in Workers : place[p] \in {"none", "exited"}
  /\ main' = "printed"
  /\ IF useSem THEN Sem!Destroy(SEM_ID) ELSE UNCHANGED semVars
  /\ UNCHANGED << useSem, tried, workVars, struck >>

(* Ctrl+C *)
KillMain ==
  /\ main \in {"create", "wait"}
  /\ main' = "killed"
  /\ struck' = TRUE
  /\ UNCHANGED << semVars, useSem, tried, workVars >>

-----------------------------------------------------------------------------
(* my_process_inc *)
MoreTurns(p) == place[p] = "loop" /\ turn[p] < Times

Moves(p, to) == place' = [place EXCEPT ![p] = to]

KeepMain == UNCHANGED << useSem, main, tried, struck >>

EnterFree(p) ==
  /\ MoreTurns(p)
  /\ ~ useSem
  /\ Moves(p, "enter")
  /\ UNCHANGED << semVars, aux, turn, global, sum >> /\ KeepMain

(* Mutant: the worker goes on though the semaphore is taken.               *)
Enter_Anyway(p) ==
  /\ MoreTurns(p)
  /\ useSem
  /\ Moves(p, "enter")
  /\ UNCHANGED << semVars, aux, turn, global, sum >> /\ KeepMain

Enter(p) ==
  /\ MoreTurns(p)
  /\ useSem
  /\ Sem!Pass(SEM_ID, p)
  /\ Moves(p, "enter")
  /\ UNCHANGED << aux, turn, global, sum >> /\ KeepMain

WaitSem(p) ==
  /\ MoreTurns(p)
  /\ useSem
  /\ Sem!Wait(SEM_ID, p)
  /\ UNCHANGED workVars /\ KeepMain

(* slowInc, up to its yield *)
ReadGlobal(p) ==
  /\ place[p] = "enter"
  /\ aux' = [aux EXCEPT ![p] = global]
  /\ Moves(p, "yield")
  /\ UNCHANGED << semVars, turn, global, sum >> /\ KeepMain

WriteGlobal(p) ==
  /\ place[p] = "yield"
  /\ global' = aux[p] + Delta[p]
  /\ sum' = sum + Delta[p]
  /\ Moves(p, "leave")
  /\ UNCHANGED << semVars, aux, turn >> /\ KeepMain

(* Mutant: the semaphore is not posted.                                    *)
Leave_NoPost(p) ==
  /\ place[p] = "leave"
  /\ UNCHANGED semVars
  /\ turn' = [turn EXCEPT ![p] = @ + 1]
  /\ Moves(p, "loop")
  /\ UNCHANGED << aux, global, sum >> /\ KeepMain

Leave(p) ==
  /\ place[p] = "leave"
  /\ IF useSem THEN Sem!Post(SEM_ID) ELSE UNCHANGED semVars
  /\ turn' = [turn EXCEPT ![p] = @ + 1]
  /\ Moves(p, "loop")
  /\ UNCHANGED << aux, global, sum >> /\ KeepMain

(* The worker returns and exits; its parent finds it dead, or is woken.    *)
ExitWorker(p) ==
  /\ place[p] = "loop"
  /\ turn[p] >= Times
  /\ Moves(p, "exited")
  /\ UNCHANGED << semVars, aux, turn, global, sum >> /\ KeepMain

(* A tick cuts that exit, the worker being dead and its parent asleep in   *)
(* waitpid for it: nobody wakes the parent (SchedulerExit, ExitTell).      *)
ExitCut(p) ==
  /\ main = "wait"
  /\ place[p] = "loop"
  /\ turn[p] >= Times
  /\ \A q \in Workers : place[q] # "untold"
  /\ Moves(p, "untold")
  /\ UNCHANGED << semVars, aux, turn, global, sum >> /\ KeepMain

KillWorker(p) ==
  /\ place[p] \notin {"none", "exited", "untold"}
  /\ Moves(p, "exited")
  /\ Sem!GiveUp({p})
  /\ struck' = TRUE
  /\ UNCHANGED << useSem, main, tried, aux, turn, global, sum >>

Works ==
  \/ Start
  \/ StartFails
  \/ StartWithout
  \/ \E p \in Workers : CreateWorker(p)
  \/ AllTried
  \/ PrintResult
  \/ \E p \in Workers :
       \/ EnterFree(p)
       \/ Enter(p)
       \/ WaitSem(p)
       \/ ReadGlobal(p)
       \/ WriteGlobal(p)
       \/ Leave(p)
       \/ ExitWorker(p)

Strikes == KillMain \/ \E p \in Workers : KillWorker(p) \/ CreateUnseen(p)

SyncNext == LeftOpen \/ Works \/ Strikes \/ \E p \in Workers : ExitCut(p)

SyncSpec == SyncInit /\ [][SyncNext]_syncVars

-----------------------------------------------------------------------------
InSection(p) == place[p] \in {"enter", "yield", "leave"}

(* With the semaphore no increment is lost, though every process yields    *)
(* between its read and its write of global and any of them may be killed  *)
(* there: one process at a time is in slowInc, its copy is up to date, and *)
(* global is the sum of the increments that were written.                  *)
NoLostUpdate ==
  useSem =>
    /\ \A p, q \in Workers : InSection(p) /\ InSection(q) => p = q
    /\ \A p \in Workers : place[p] = "yield" => aux[p] = global
    /\ global = sum

(* README.md:178 test_synchro: as many +1 as -1 end in 0, when every worker*)
(* was created and none was killed.                                        *)
FinalZero == main = "printed" /\ useSem /\ ~ struck => global = 0

(* test_sync prints its result: with the semaphore no worker waits for     *)
(* ever, unless one that held it was killed; test_sync itself does only if *)
(* a tick cut the exit of the worker it waits for.                         *)
SyncEnds ==
  main = "create" ~>
    main = "printed" \/ struck \/ \E p \in Workers : place[p] = "untold"
=============================================================================
