------------------------------- MODULE Shell -------------------------------
(***************************************************************************)
(* The shell (Userland/shell/shell.c) on the kernel's pipes: one command   *)
(* or a pipeline of two, in the foreground or with &.  Parsing the line is *)
(* left out; each system call is a step.  The shell is not killed.         *)
(*                                                                         *)
(* Userland's DEV_NULL is 3 and the kernel's is -1: to the kernel the      *)
(* standard input of a background command is the pipe in slot 0.           *)
(***************************************************************************)
EXTENDS Pipe

VARIABLE sh   \* [at, bg, slot, one, two]: where the shell is, the line's &,
              \* pipe_id, pid1 and pid2 (a single command's pid is two)

VARIABLES
  inBack,     \* history: the processes started with &, until they are reaped
  failed      \* history: did a create_process fail between pipe_get and waitpid,
              \* or was an exit cut?

shellVars == << m, fault, sh, inBack, failed, cut >>

AtPrompt == [at |-> "prompt", bg |-> FALSE, slot |-> Tty, one |-> NoProc, two |-> NoProc]

ShellInit == Init /\ sh = AtPrompt /\ inBack = {} /\ failed = FALSE /\ cut = {}

DEV_NULL == 0

Stdin(bg) == IF bg THEN DEV_NULL ELSE Tty

(* pipe_get: the first free slot from lastFreePipe on. *)
FreeFrom(s) ==
  LET Dist(i) == (i - s.cursor) % MaxPipes
  IN  CHOOSE i \in Slots : /\ s.pipes[i] = NULL
                           /\ \A j \in Slots : s.pipes[j] = NULL => Dist(i) <= Dist(j)

pipe_get(s) ==
  LET i == FreeFrom(s)
  IN  [s EXCEPT !.pipes[i] = create_pipe, !.taken[i] = << >>, !.cursor = (i + 1) % MaxPipes]

(* The pids are alike to the pipes: take the smallest free one. *)
NextFree(p) ==
  m.status[p] = "free" /\ \A q \in Procs : m.status[q] = "free" => p <= q

InShell(at) == InUser(Shell) /\ sh.at = at

-----------------------------------------------------------------------------
(* execute_single_command *)
Single(p, bg) ==
  /\ InShell("prompt")
  /\ NextFree(p)
  /\ Step(init_process(m, p, Stdin(bg), Tty))
  /\ sh' = IF bg THEN AtPrompt ELSE [AtPrompt EXCEPT !.at = "wait_two", !.two = p]
  /\ inBack' = IF bg THEN inBack \cup {p} ELSE inBack
  /\ UNCHANGED failed

(* execute_piped_commands; without a free pipe it runs two single commands.*)
GetPipe(bg) ==
  /\ InShell("prompt")
  /\ \E i \in Slots : m.pipes[i] = NULL
  /\ Step(pipe_get(m))
  /\ sh' = [AtPrompt EXCEPT !.at = "first", !.bg = bg, !.slot = FreeFrom(m)]
  /\ UNCHANGED << inBack, failed >>

CreateFirst(p) ==
  /\ InShell("first")
  /\ NextFree(p)
  /\ Step(init_process(m, p, Stdin(sh.bg), sh.slot))
  /\ sh' = [sh EXCEPT !.at = "second", !.one = p]
  /\ inBack' = IF sh.bg THEN inBack \cup {p} ELSE inBack
  /\ UNCHANGED failed

(* No memory for it: the pipe stays. *)
FirstFails ==
  /\ InShell("first")
  /\ sh' = AtPrompt
  /\ failed' = TRUE
  /\ UNCHANGED << m, fault, inBack >>

(* Mutant: the shell waits for the second command only.                    *)
CreateSecond_WaitsForLast(p) ==
  /\ InShell("second")
  /\ NextFree(p)
  /\ Step(init_process(m, p, sh.slot, Tty))
  /\ sh' = IF sh.bg THEN AtPrompt ELSE [sh EXCEPT !.at = "wait_two", !.two = p]
  /\ inBack' = IF sh.bg THEN inBack \cup {p} ELSE inBack
  /\ UNCHANGED failed

CreateSecond(p) ==
  /\ InShell("second")
  /\ NextFree(p)
  /\ Step(init_process(m, p, sh.slot, Tty))
  /\ sh' = IF sh.bg THEN AtPrompt ELSE [sh EXCEPT !.at = "wait_one", !.two = p]
  /\ inBack' = IF sh.bg THEN inBack \cup {p} ELSE inBack
  /\ UNCHANGED failed

(* The first command is killed, if it has not died, and is not waited for. *)
SecondFails ==
  /\ InShell("second")
  /\ \/ m.status[sh.one] = "zombie"
     \/ KillWaits(m, sh.one) => "kill_full" \in Deaths
  /\ Step(IF m.status[sh.one] = "zombie" THEN m ELSE kill_process(m, Shell, sh.one))
  /\ sh' = AtPrompt
  /\ failed' = TRUE
  /\ UNCHANGED inBack

-----------------------------------------------------------------------------
(* waitpid(pid1), then waitpid(pid2). *)
Awaited == IF sh.at = "wait_one" THEN sh.one ELSE sh.two

Reaped ==
  /\ Step(free_process([Return(m, Shell) EXCEPT !.waits = NoProc], Awaited))
  /\ sh' = IF sh.at = "wait_one" THEN [sh EXCEPT !.at = "wait_two"] ELSE AtPrompt
  /\ UNCHANGED << inBack, failed >>

InWait == InUser(Shell) /\ sh.at \in {"wait_one", "wait_two"}

WaitZombie ==
  /\ InWait
  /\ m.status[Awaited] = "zombie" /\ Awaited \in m.linked
  /\ Reaped

(* Nobody goes on with the exit of the zombie v. *)
Abandoned(v) ==
  v \in cut /\ \A q \in All : m.call[q].op = "close" => m.call[q].victim # v

(* The child is a zombie that its killer has not done with: waitpid frees  *)
(* the process whose descriptors are being closed.                         *)
WaitHalfDead ==
  /\ InWait
  /\ m.status[Awaited] = "zombie" /\ Awaited \notin m.linked
  /\ ~ Abandoned(Awaited)
  /\ Crash("half_dead")
  /\ UNCHANGED << sh, inBack, failed >>

(* The child is a zombie whose exit was cut: free_process closes what is   *)
(* still open, and the child's place is free.  When a close waits for room *)
(* the place is freed after it instead of before (WaitZombie).             *)
WaitCut ==
  /\ InWait
  /\ m.status[Awaited] = "zombie" /\ Awaited \notin m.linked
  /\ Abandoned(Awaited)
  /\ IF KillWaits(m, Awaited)
       THEN /\ "kill_full" \in Deaths
            /\ Step(CloseIn(m, Shell, Awaited))
            /\ UNCHANGED sh
       ELSE /\ Step(free_process(CloseIn(m, Shell, Awaited), Awaited))
            /\ sh' = IF sh.at = "wait_one" THEN [sh EXCEPT !.at = "wait_two"] ELSE AtPrompt
  /\ UNCHANGED << inBack, failed >>

WaitBlock ==
  /\ InWait
  /\ m.status[Awaited] # "zombie"
  /\ Step([Block(m, Shell) EXCEPT !.waits = Awaited,
                                  !.call[Shell] = [op |-> "waitpid", slot |-> Tty]])
  /\ UNCHANGED << sh, inBack, failed >>

WaitReturn == Runs(Shell) /\ m.call[Shell].op = "waitpid" /\ Reaped

(* The shell as the killer of a first command that had filled its pipe. *)
ShellResumes ==
  /\ ResumeCloseFull(Shell) \/ ResumeClose(Shell) \/ ResumeCloseFreed(Shell)
  /\ UNCHANGED << sh, inBack, failed >>

ShellNext ==
  \/ \E p \in Procs, bg \in BOOLEAN : Single(p, bg)
  \/ \E bg \in BOOLEAN : GetPipe(bg)
  \/ \E p \in Procs : CreateFirst(p)
  \/ FirstFails
  \/ \E p \in Procs : CreateSecond(p)
  \/ SecondFails
  \/ WaitZombie
  \/ WaitHalfDead
  \/ WaitCut
  \/ WaitBlock
  \/ WaitReturn
  \/ ShellResumes

(* The steps that no tick cuts. *)
Whole ==
  /\ ShellNext \/ (ProcNext /\ UNCHANGED << sh, inBack, failed >>)
  /\ UNCHANGED cut

CutShort(p) == ExitCut(p) /\ failed' = TRUE /\ UNCHANGED << sh, inBack >>

Next == Whole \/ \E p \in Procs : CutShort(p)

Spec == ShellInit /\ [][Next]_shellVars

-----------------------------------------------------------------------------
(* What the shell's programs do: cat, wc and filter read until getchar     *)
(* returns EOF and then return from main.  When the first command ends is  *)
(* left open, and so is what the user types.                               *)
ShellGoesOn == sh.at # "prompt" /\ ShellNext /\ UNCHANGED cut

Resumes(p) ==
  /\ ResumeWrite(p) \/ ResumeReadFirst(p) \/ ResumeRead(p)
  /\ UNCHANGED << sh, inBack, failed, cut >>

Reads(p) ==
  /\ ~ m.ended[p] /\ \E len \in 1 .. MaxLen : Read(p, len)
  /\ UNCHANGED << sh, inBack, failed, cut >>

ExitsAtEnd(p) ==
  /\ m.ended[p] /\ InUser(p) /\ Exit(p)
  /\ UNCHANGED << sh, inBack, failed, cut >>

(* At any time at most one of the three is enabled. *)
GoesOn(p) == Resumes(p) \/ Reads(p) \/ ExitsAtEnd(p)

SecondGoesOn == sh.two # NoProc /\ GoesOn(sh.two)

Fairness == WF_shellVars(ShellGoesOn) /\ WF_shellVars(SecondGoesOn)

FairSpec == Spec /\ Fairness

(* The same with ENABLED written out, which TLC evaluates much faster.  A  *)
(* read of a pipe that is not there, or not the reader's, changes nothing. *)
CanGoOn(p) ==
  /\ Runs(p)
  /\ \/ m.call[p].op \in {"write", "read_first", "read"}
     \/ /\ m.call[p] = NoCall /\ ~ m.ended[p] /\ m.fds[p].in # Tty
        /\ m.pipes[m.fds[p].in] # NULL /\ m.pipes[m.fds[p].in].out = p
     \/ /\ m.call[p] = NoCall /\ m.ended[p]
        /\ KillWaits(m, p) => "exit_full" \in Deaths

SecondCanGoOn == sh.two # NoProc /\ CanGoOn(sh.two)

(* The shell waits for room in a victim's pipe, and nothing has changed. *)
ShellSpins ==
  LET c == m.call[Shell]
  IN  /\ c.op = "close" /\ c.live
      /\ CloseWaits(m, c.victim, c.slot)
      /\ WakeOther(m, c.slot, m.pipes[c.slot].out).status = m.status

ShellCanGoOn ==
  /\ Runs(Shell) /\ sh.at # "prompt" /\ ~ ShellSpins
  /\ InShell("second") =>
       \/ \E p \in Procs : m.status[p] = "free"
       \/ m.status[sh.one] = "zombie"
       \/ KillWaits(m, sh.one) => "kill_full" \in Deaths
  /\ InWait /\ m.status[Awaited] = "zombie" /\ Awaited \notin m.linked =>
       (Abandoned(Awaited) /\ KillWaits(m, Awaited) => "kill_full" \in Deaths)

QuickFairness ==
  /\ ([]<>~ShellCanGoOn) \/ []<><<ShellGoesOn>>_shellVars
  /\ ([]<>~SecondCanGoOn) \/ []<><<SecondGoesOn>>_shellVars

QuickFairSpec == Spec /\ QuickFairness

-----------------------------------------------------------------------------
Channel(i) ==
  INSTANCE Channel WITH
    Bytes    <- 1 .. MaxBytes,
    Capacity <- PipeSize,
    there    <- m.pipes[i] # NULL,
    queue    <- IF m.pipes[i] = NULL THEN << >> ELSE Content(m.pipes[i]),
    taken    <- m.taken[i],
    over     <- m.pipes[i] # NULL /\ Ended(m.pipes[i])

(* Every slot of the pipe table behaves, from one creation to the next, as *)
(* a channel of PIPE_SIZE bytes: nothing is written after the end of file, *)
(* a new pipe in a used slot starts empty and without one.                 *)
PipesAreChannels ==
  /\ \A i \in Slots : Channel(i)!Init
  /\ [][\A i \in Slots : UNCHANGED Channel(i)!vars \/ Channel(i)!Next]_shellVars

HalfDead(p) == m.status[p] = "zombie" /\ p \notin m.linked

(* Back at the prompt the shell has waited for every foreground process,   *)
(* so only background ones keep a place in the table; and a pipe that is   *)
(* still there has a reader that will free it: none is leaked by a reader  *)
(* that ends before its writer, or by a writer that ends before the second *)
(* command exists.  Not so where a create_process of the pipeline failed,  *)
(* or a tick cut an exit: both leave a process or a pipe behind.           *)
PromptLeavesNothing ==
  sh.at = "prompt" /\ m.call[Shell] = NoCall /\ ~ failed /\ cut = {} =>
    /\ \A p \in Procs : m.status[p] # "free" => p \in inBack
    /\ \A i \in Slots :
         m.pipes[i] # NULL =>
           \E p \in Procs : /\ m.pipes[i].out = p
                            /\ m.status[p] \in {"ready", "blocked"} \/ HalfDead(p)

SomeoneStuck ==
  \/ fault # "none"
  \/ \E q \in All : m.call[q].op = "close" \/ HalfDead(q)
  \/ \E q \in cut : m.status[q] = "zombie"

FirstHasEnded == sh.one # NoProc /\ ~ sh.bg /\ m.status[sh.one] \in {"zombie", "free"}

(* Once the first command of a foreground pipeline has ended, the second   *)
(* one meets the end of file, ends, and the prompt comes back; unless a    *)
(* death waits in pipe_close meanwhile, or a tick cut an exit and left a   *)
(* zombie that nobody was told of.                                         *)
PipelineEnds == FirstHasEnded ~> sh.at = "prompt" \/ SomeoneStuck

(* README.md:99 `cat | wc`, which counts the lines that were typed: when  *)
(* the first command of a pipeline exits, wc ends and the prompt is back.  *)
ExitEndsPipeline == FirstHasEnded ~> sh.at = "prompt"
=============================================================================
