-------------------------------- MODULE MVar --------------------------------
(***************************************************************************)
(* The command mvar (Userland/shell/commands/mvar.c): a cell that writers  *)
(* fill and readers empty, with a semaphore for either and a mutex.  The   *)
(* command makes the semaphores and the processes and returns; these run   *)
(* until they are killed, and nobody destroys the semaphores.              *)
(***************************************************************************)
EXTENDS Naturals

CONSTANTS
  Writers, Readers,
  MVAR_MUTEX, MVAR_READ_SEM, MVAR_WRITE_SEM,
  MaxValue,         \* 2^32 - 1, the largest value of a semaphore
  Nothing           \* what a process waits for when it does not wait

MVarSems == {MVAR_MUTEX, MVAR_READ_SEM, MVAR_WRITE_SEM}
Users    == Writers \cup Readers

ASSUME UsersAssumption == Writers \cap Readers = {}
ASSUME SemsAssumption  ==
  /\ MVAR_MUTEX # MVAR_READ_SEM /\ MVAR_MUTEX # MVAR_WRITE_SEM
  /\ MVAR_READ_SEM # MVAR_WRITE_SEM
  /\ Nothing \notin MVarSems

VARIABLES
  open, value, waiting,     \* the semaphores (CountingSemaphore)
  maker,        \* where mvar_func is
  at,           \* at[p]: where the reader or writer p is
  unread,       \* history: does shared_mvar hold a letter not yet read?
  lost          \* history: was a process killed in the way of the others?

mvarVars == << open, value, waiting, maker, at, unread, lost >>

S == INSTANCE CountingSemaphore WITH
  Procs <- Users, Sems <- MVarSems, InitialValues <- {0, 1}

(* at[p]: "none", "wait" for its token, "token" with it, "locked" with the *)
(* mutex too, "done" with shared_mvar, "unlocked", "exited", and in sem_wait*)
(* of a destroyed semaphore, its token's ("freed_turn") or "freed_mutex".  *)
(* maker: the semaphore it makes next, "create", "ready", the semaphore it *)
(* destroys next ("undo_mutex" and so on), "failed".                       *)
MVarInit ==
  /\ S!Init
  /\ maker = "mutex"
  /\ at = [p \in Users |-> "none"]
  /\ unread = FALSE
  /\ lost = FALSE

semaphores == << open, value, waiting >>

-----------------------------------------------------------------------------
(* mvar_func *)
InitSem(now, i, v, then) ==
  /\ maker = now
  /\ S!Create(i, v)
  /\ maker' = then
  /\ UNCHANGED << at, unread, lost >>

InitSems ==
  \/ InitSem("mutex", MVAR_MUTEX, 1, "read")
  \/ InitSem("read", MVAR_READ_SEM, 0, "write")
  \/ InitSem("write", MVAR_WRITE_SEM, 1, "create")

(* When a call fails, the semaphores that were made are destroyed, one at  *)
(* a time, while the others run.                                           *)
InitFails ==
  /\ maker \in {"mutex", "read", "write"}
  /\ maker' = "undo_mutex"
  /\ UNCHANGED << semaphores, at, unread, lost >>

DestroySem(now, i, then) ==
  /\ maker = now
  /\ IF i \in open THEN S!Destroy(i) ELSE UNCHANGED semaphores
  /\ at' = [p \in Users |-> IF waiting[p] # i THEN at[p]
                            ELSE IF i = MVAR_MUTEX THEN "freed_mutex" ELSE "freed_turn"]
  /\ maker' = then
  /\ UNCHANGED << unread, lost >>

(* Mutant: the mutex is destroyed last.                                    *)
DestroySems_MutexLast ==
  \/ DestroySem("undo_mutex", MVAR_READ_SEM, "undo_read")
  \/ DestroySem("undo_read", MVAR_WRITE_SEM, "undo_write")
  \/ DestroySem("undo_write", MVAR_MUTEX, "failed")

DestroySems ==
  \/ DestroySem("undo_mutex", MVAR_MUTEX, "undo_read")
  \/ DestroySem("undo_read", MVAR_READ_SEM, "undo_write")
  \/ DestroySem("undo_write", MVAR_WRITE_SEM, "failed")

CreateUser(p) ==
  /\ maker = "create"
  /\ at[p] = "none"
  /\ p \in Readers => \A q \in Writers : at[q] # "none"
  /\ at' = [at EXCEPT ![p] = "wait"]
  /\ UNCHANGED << semaphores, maker, unread, lost >>

CreateFails ==
  /\ maker = "create"
  /\ \E p \in Users : at[p] = "none"
  /\ maker' = "undo_mutex"
  /\ UNCHANGED << semaphores, at, unread, lost >>

MakerReturns ==
  /\ maker = "create"
  /\ \A p \in Users : at[p] # "none"
  /\ maker' = "ready"
  /\ UNCHANGED << semaphores, at, unread, lost >>

-----------------------------------------------------------------------------
(* writer_process and reader_process *)
Turn(p)     == IF p \in Writers THEN MVAR_WRITE_SEM ELSE MVAR_READ_SEM
Opposite(p) == IF p \in Writers THEN MVAR_READ_SEM ELSE MVAR_WRITE_SEM

Goes(p, from, to) == at[p] = from /\ at' = [at EXCEPT ![p] = to]

TakeToken(p) ==
  /\ Goes(p, "wait", "token")
  /\ S!Pass(Turn(p), p)
  /\ UNCHANGED << maker, unread, lost >>

Lock(p) ==
  /\ Goes(p, "token", "locked")
  /\ S!Pass(MVAR_MUTEX, p)
  /\ UNCHANGED << maker, unread, lost >>

SleepIn(p, from, i) ==
  /\ at[p] = from
  /\ S!Wait(i, p)
  /\ UNCHANGED << maker, at, unread, lost >>

Sleeps(p) == SleepIn(p, "wait", Turn(p)) \/ SleepIn(p, "token", MVAR_MUTEX)

(* shared_mvar is written or read. *)
Access(p) ==
  /\ Goes(p, "locked", "done")
  /\ unread' = (p \in Writers)
  /\ UNCHANGED << semaphores, maker, lost >>

(* Mutant: the mutex is not posted.                                        *)
Unlock_NoPost(p) ==
  /\ Goes(p, "done", "unlocked")
  /\ UNCHANGED << semaphores, maker, unread, lost >>

Unlock(p) ==
  /\ Goes(p, "done", "unlocked")
  /\ S!Post(MVAR_MUTEX)
  /\ UNCHANGED << maker, unread, lost >>

PassOn(p) ==
  /\ Goes(p, "unlocked", "wait")
  /\ S!Post(Opposite(p))
  /\ UNCHANGED << maker, unread, lost >>

(* sem_wait or sem_post of a semaphore that does not exist. *)
Refused(p) ==
  /\ \/ at[p] = "wait" /\ Turn(p) \notin open
     \/ at[p] \in {"token", "done"} /\ MVAR_MUTEX \notin open
     \/ at[p] = "unlocked" /\ Opposite(p) \notin open
  /\ at' = [at EXCEPT ![p] = "exited"]
  /\ UNCHANGED << semaphores, maker, unread, lost >>

(* Who sleeps in a semaphore that is destroyed is never woken; who had been*)
(* woken goes on in down with the freed memory, which may let it pass.     *)
PassFreed(p) ==
  /\ \/ Goes(p, "freed_turn", "token")
     \/ Goes(p, "freed_mutex", "locked")
  /\ UNCHANGED << semaphores, maker, unread, lost >>

(* With its token goes whatever it holds; and its entry in a semaphore's   *)
(* queue takes a wake-up from another (semaphores.c:232).                  *)
Kill(p) ==
  /\ at[p] \notin {"none", "exited"}
  /\ at' = [at EXCEPT ![p] = "exited"]
  /\ S!GiveUp({p})
  /\ lost' = (lost \/ at[p] # "wait" \/ waiting[p] # Nothing)
  /\ UNCHANGED << maker, unread >>

Makes == InitSems \/ MakerReturns \/ DestroySems \/ \E p \in Users : CreateUser(p)

Uses(p) ==
  TakeToken(p) \/ Lock(p) \/ Sleeps(p) \/ Access(p) \/ Unlock(p) \/ PassOn(p) \/ Refused(p)

MVarNext ==
  \/ Makes
  \/ InitFails
  \/ CreateFails
  \/ \E p \in Users : Uses(p) \/ PassFreed(p) \/ Kill(p)

MVarSpec == MVarInit /\ [][MVarNext]_mvarVars

-----------------------------------------------------------------------------
(* A letter is read once, and before the next is written, whatever process *)
(* is killed wherever and while the semaphores are destroyed under the     *)
(* processes: a reader that has the mutex finds an unread letter, a writer *)
(* finds none.                                                             *)
ReadsMatchWrites ==
  \A p \in Users : at[p] = "locked" => unread = (p \in Readers)

Holding(p) == at[p] \in {"token", "locked", "done", "unlocked"}

Stopped ==
  \/ maker # "ready" \/ lost
  \/ \A p \in Writers : at[p] = "exited"
  \/ \A p \in Readers : at[p] = "exited"

(* Letters are written and read for ever, while a writer and a reader live *)
(* and no process was killed with the token that goes round, or asleep.    *)
MVarGoesOn == []<>Stopped \/ ([]<>unread /\ []<>~ unread)
=============================================================================
