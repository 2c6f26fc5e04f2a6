-------------------------------- MODULE Pipe --------------------------------
(***************************************************************************)
(* The kernel's pipes (Kernel/pipes/pipe.c), with the processes that read, *)
(* write and die around them.  A system call runs with interrupts off, so  *)
(* it is one atomic step up to a yield in it; call[p] says where p is when *)
(* it has yielded inside the kernel.                                       *)
(*                                                                         *)
(* The scheduler is what SchedulerSafety proves of it: a process that is   *)
(* ready may be the next to run, one that is blocked or dead is not.       *)
(*                                                                         *)
(* The n-th byte that a process writes is the number n, so that a byte     *)
(* lost, doubled or out of order shows.  kill_process closes the           *)
(* descriptors of its victim after the victim's status is ZOMBIE; closing  *)
(* the write end writes the end of file, which waits while the pipe is     *)
(* full.  Deaths says whether a run allows deaths that wait there:         *)
(*   "exit_full"   a process kills itself (or returns from main)           *)
(*   "kill_full"   a process is killed by another one                      *)
(* and "exit_cut", whether a tick may cut the exit of a process that       *)
(* returns from main (ExitCut), which runs with interrupts on.             *)
(***************************************************************************)
EXTENDS Integers, Sequences, FiniteSets

CONSTANTS
  Procs,            \* the pids of the commands
  Shell,            \* the process that creates them
  NoProc,           \* -1 as a pid
  NULL,             \* the null pointer
  Tty,              \* a descriptor below BUILT_IN_DESCRIPTORS
  MaxPipes,         \* MAX_PIPES
  PipeSize,         \* PIPE_SIZE
  MaxLen,           \* bound of the model: bytes of one read or write call
  MaxBytes,         \* bound of the model: bytes a process writes
  MaxCuts,          \* bound of the model: exits cut by a tick
  Deaths

ASSUME ProcsAssumption == Shell \notin Procs /\ NoProc \notin Procs \cup {Shell}
ASSUME SizeAssumption  == /\ PipeSize \in Nat \ {0} /\ MaxPipes \in Nat \ {0}
                          /\ MaxLen \in Nat /\ MaxBytes \in Nat /\ MaxCuts \in Nat

VARIABLES
  m,        \* the state below
  fault,    \* "none", or what ended the kernel
  cut       \* history: the processes whose exit a tick cut

(* m.pipes[i]    pipeManager->pipes[i], NULL or a Pipe                     *)
(* m.cursor      lastFreePipe                                              *)
(* m.status[p]   "free", "ready" (READY or RUNNING), "blocked", "zombie"   *)
(* m.fds[p]      file_descriptors[0] and [1]                               *)
(* m.waits       the child the shell waits for, or NoProc                  *)
(* m.linked      the zombies their parent knows of                         *)
(* m.call[p]     the kernel call that p has yielded in                     *)
(* m.sent[p]     how many bytes p has handed to write                      *)
(* m.ended[p]    has p read an end of file?                                *)
(* m.taken[i]    the bytes read from the pipe i since it was created       *)
Slots == 0 .. MaxPipes - 1
All   == Procs \cup {Shell}
EOF   == -1

Pipes ==
  [buffer : [0 .. PipeSize - 1 -> Int], start : 0 .. PipeSize - 1, size : 0 .. PipeSize,
   in : Procs \cup {NoProc}, out : Procs \cup {NoProc}, blocking : BOOLEAN]

ASSUME PointerAssumption == NULL \notin Pipes /\ Tty \notin Slots

NoCall == [op |-> "none", slot |-> Tty]

Lesser(a, b) == IF a < b THEN a ELSE b

-----------------------------------------------------------------------------
(* The circular buffer.                                                    *)

create_pipe ==
  [buffer |-> [x \in 0 .. PipeSize - 1 |-> 0], start |-> 0, size |-> 0,
   in |-> NoProc, out |-> NoProc, blocking |-> FALSE]

(* The n-th place after the first byte; n = size is bufferPosition(pipe).  *)
Place(pipe, n) == (pipe.start + n) % PipeSize

Ended(pipe) == pipe.buffer[Place(pipe, pipe.size)] = EOF

Content(pipe) == [n \in 1 .. pipe.size |-> pipe.buffer[Place(pipe, n - 1)]]

(* Mutant: the new bytes go after the first one, not after the last.       *)
Filled_AtStart(pipe, data) ==
  [pipe EXCEPT
     !.buffer = [x \in DOMAIN @ |->
                   IF \E j \in 1 .. Len(data) : x = Place(pipe, j)
                     THEN data[CHOOSE j \in 1 .. Len(data) : x = Place(pipe, j)]
                     ELSE @[x]],
     !.size = @ + Len(data)]

Filled(pipe, data) ==
  [pipe EXCEPT
     !.buffer = [x \in DOMAIN @ |->
                   IF \E j \in 1 .. Len(data) : x = Place(pipe, pipe.size + j - 1)
                     THEN data[CHOOSE j \in 1 .. Len(data) :
                                 x = Place(pipe, pipe.size + j - 1)]
                     ELSE @[x]],
     !.size = @ + Len(data)]

Drained(pipe, n) == [pipe EXCEPT !.start = Place(pipe, n), !.size = @ - n]

(* Mutant: the end of file is put before the bytes, not after them.        *)
WithEOF_First(pipe) == [pipe EXCEPT !.buffer[pipe.start] = EOF]

WithEOF(pipe) == [pipe EXCEPT !.buffer[Place(pipe, pipe.size)] = EOF]

-----------------------------------------------------------------------------
(* What the pipes do to the scheduler: set_status and yield.               *)

Wake(s, p) ==
  IF p # NoProc /\ s.status[p] = "blocked" THEN [s EXCEPT !.status[p] = "ready"] ELSE s

Block(s, p) == IF s.status[p] = "ready" THEN [s EXCEPT !.status[p] = "blocked"] ELSE s

Return(s, p) == [s EXCEPT !.call[p] = NoCall]

(* isBlocking = 1, BLOCKED, yield. *)
Sleep(s, p, i, call) ==
  [Block([s EXCEPT !.pipes[i].blocking = TRUE], p) EXCEPT !.call[p] = call]

(* The end that waits, if one does, is made ready. *)
WakeOther(s, i, p) ==
  IF s.pipes[i].blocking THEN Wake([s EXCEPT !.pipes[i].blocking = FALSE], p) ELSE s

-----------------------------------------------------------------------------
(* pipe_write, from its inner loop to its return or its next yield.        *)

Writing(i, data) == [op |-> "write", slot |-> i, data |-> data, live |-> TRUE]

WriteOn(s, p, i, data) ==
  LET n  == Lesser(PipeSize - s.pipes[i].size, Len(data))
      s1 == [s EXCEPT !.pipes[i] = Filled(@, SubSeq(data, 1, n))]
      s2 == WakeOther(s1, i, s.pipes[i].out)
      rest == SubSeq(data, n + 1, Len(data))
  IN  IF rest = << >> THEN Return(s2, p) ELSE Sleep(s2, p, i, Writing(i, rest))

pipe_write(s, p, i, data) ==
  IF s.pipes[i] = NULL THEN s
  ELSE IF s.pipes[i].in # p \/ Ended(s.pipes[i]) THEN s
  ELSE IF s.pipes[i].size = PipeSize THEN Sleep(s, p, i, Writing(i, data))
  ELSE WriteOn(s, p, i, data)

-----------------------------------------------------------------------------
(* pipe_read, from its inner loop to its return or its next yield.  The    *)
(* end of file is one of the bytes it returns and stays in the buffer.     *)

Reading(op, i, left) == [op |-> op, slot |-> i, left |-> left, live |-> TRUE]

NothingToRead(pipe) == pipe.size = 0 /\ ~ Ended(pipe)

(* Mutant: the writer is not woken when the reader has made room.          *)
ReadOn_NoWake(s, p, i, left) ==
  LET pipe == s.pipes[i]
      n    == Lesser(pipe.size, left)
      s1   == [s EXCEPT !.pipes[i] = Drained(@, n),
                        !.taken[i] = @ \o SubSeq(Content(pipe), 1, n),
                        !.ended[p] = n < left /\ Ended(pipe)]
  IN  IF n = left \/ s1.ended[p] THEN Return(s1, p)
      ELSE Sleep(s1, p, i, Reading("read", i, left - n))

ReadOn(s, p, i, left) ==
  LET pipe == s.pipes[i]
      n    == Lesser(pipe.size, left)
      s1   == [s EXCEPT !.pipes[i] = Drained(@, n),
                        !.taken[i] = @ \o SubSeq(Content(pipe), 1, n),
                        !.ended[p] = n < left /\ Ended(pipe)]
      s2   == WakeOther(s1, i, pipe.in)
  IN  IF n = left \/ s1.ended[p] THEN Return(s2, p)
      ELSE Sleep(s2, p, i, Reading("read", i, left - n))

(* The loop for a first writer, then the test before the inner loop. *)
ReadFirst(s, p, i, left) ==
  LET pipe == s.pipes[i]
  IN  IF NothingToRead(pipe)
        THEN Sleep(s, p, i, Reading(IF pipe.in = NoProc THEN "read_first" ELSE "read", i, left))
        ELSE ReadOn(s, p, i, left)

pipe_read(s, p, i, len) ==
  IF s.pipes[i] = NULL THEN s
  ELSE IF s.pipes[i].out # p THEN s
  ELSE ReadFirst(s, p, i, len)

-----------------------------------------------------------------------------
(* pipe_open and pipe_close.                                               *)

(* The pipe is created by the first that opens it. *)
Existing(s, i) ==
  IF s.pipes[i] = NULL THEN [s EXCEPT !.pipes[i] = create_pipe, !.taken[i] = << >>] ELSE s

open_write(s, p, i) ==
  LET s1 == Existing(s, i)
      s2 == [s1 EXCEPT !.pipes[i].in = p]
  IN  IF s1.pipes[i].in \notin {NoProc, p} THEN s1 ELSE WakeOther(s2, i, s1.pipes[i].out)

open_read(s, p, i) ==
  LET s1 == Existing(s, i)
      s2 == [s1 EXCEPT !.pipes[i].out = p]
  IN  IF s1.pipes[i].out \notin {NoProc, p} THEN s1
      ELSE IF s1.pipes[i].in = NoProc THEN s2
      ELSE WakeOther(s2, i, s1.pipes[i].in)

(* The reader leaves: the pipe is freed, and who has yielded inside it has *)
(* a pointer that is not in the table any more.                            *)
close_read(s, i) ==
  LET s1 == WakeOther(s, i, s.pipes[i].in)
  IN  [s1 EXCEPT !.pipes[i] = NULL,
                 !.taken[i] = << >>,
                 !.call = [p \in All |-> IF s.call[p].slot = i
                                           THEN [s.call[p] EXCEPT !.live = FALSE]
                                           ELSE s.call[p]]]

(* Mutant: the end of file is written, and the sleeping reader not woken.  *)
close_write_NoWake(s, i) ==
  LET s1 == IF Ended(s.pipes[i]) THEN s ELSE [s EXCEPT !.pipes[i] = WithEOF(@)]
  IN  [s1 EXCEPT !.pipes[i].in = NoProc]

(* The writer leaves a pipe that is not full. *)
close_write(s, i) ==
  LET s1 == IF Ended(s.pipes[i]) THEN s ELSE [s EXCEPT !.pipes[i] = WithEOF(@)]
  IN  WakeOther([s1 EXCEPT !.pipes[i].in = NoProc], i, s.pipes[i].out)

(* pipe_close would write the end of file into a full pipe. *)
CloseWaits(s, v, i) ==
  /\ i # Tty
  /\ s.pipes[i] # NULL
  /\ s.pipes[i].in = v
  /\ s.pipes[i].size = PipeSize

pipe_close(s, v, i) ==
  IF i = Tty THEN s
  ELSE IF s.pipes[i] = NULL THEN s
  ELSE IF s.pipes[i].in = v THEN close_write(s, i)
  ELSE IF s.pipes[i].out = v THEN close_read(s, i)
  ELSE s

-----------------------------------------------------------------------------
(* A process is made: init_process opens the descriptors that are pipes,   *)
(* and does not look whether pipe_open succeeded.                          *)
init_process(s, p, in, out) ==
  LET s1 == [s EXCEPT !.status[p] = "ready", !.fds[p] = [in |-> in, out |-> out]]
      s2 == IF in = Tty THEN s1 ELSE open_read(s1, p, in)
  IN  IF out = Tty THEN s2 ELSE open_write(s2, p, out)

(* Its slot is freed by the parent's waitpid. *)
free_process(s, p) ==
  [s EXCEPT !.status[p] = "free", !.fds[p] = [in |-> Tty, out |-> Tty],
            !.linked = @ \ {p}, !.sent[p] = 0, !.ended[p] = FALSE]

-----------------------------------------------------------------------------
(* kill_process of v by q, from the point where v is a ZOMBIE: close       *)
(* descriptor 0, close descriptor 1, link v to its parent and wake it.     *)
(* Either close may yield; q goes on if it is not v itself.                *)

CloseCall(v, fd, i) == [op |-> "close", slot |-> i, victim |-> v, fd |-> fd, live |-> TRUE]

WaitForRoom(s, q, v, fd, i) ==
  [s EXCEPT !.pipes[i].blocking = TRUE, !.call[q] = CloseCall(v, fd, i)]

LinkToParent(s, q, v) ==
  LET s1 == [Return(s, q) EXCEPT !.linked = @ \cup {v}]
  IN  IF s.waits = v THEN Wake(s1, Shell) ELSE s1

CloseOut(s, q, v) ==
  IF CloseWaits(s, v, s.fds[v].out) THEN WaitForRoom(s, q, v, "out", s.fds[v].out)
  ELSE LinkToParent([pipe_close(s, v, s.fds[v].out) EXCEPT !.fds[v].out = Tty], q, v)

CloseIn(s, q, v) ==
  IF CloseWaits(s, v, s.fds[v].in) THEN WaitForRoom(s, q, v, "in", s.fds[v].in)
  ELSE CloseOut([pipe_close(s, v, s.fds[v].in) EXCEPT !.fds[v].in = Tty], q, v)

(* The descriptor fd of v is done with. *)
CloseRest(s, q, v, fd) ==
  IF fd = "in" THEN CloseOut([s EXCEPT !.fds[v].in = Tty], q, v)
               ELSE LinkToParent([s EXCEPT !.fds[v].out = Tty], q, v)

kill_process(s, q, v) ==
  CloseIn([s EXCEPT !.status[v] = "zombie", !.call[v] = NoCall], q, v)

KillWaits(s, v) == CloseWaits(s, v, s.fds[v].in) \/ CloseWaits(s, v, s.fds[v].out)

-----------------------------------------------------------------------------
(* Steps of the processes.                                                 *)

Init ==
  /\ m = [pipes  |-> [i \in Slots |-> NULL],
          cursor |-> 0,
          status |-> [p \in All |-> IF p = Shell THEN "ready" ELSE "free"],
          fds    |-> [p \in All |-> [in |-> Tty, out |-> Tty]],
          waits  |-> NoProc,
          linked |-> {},
          call   |-> [p \in All |-> NoCall],
          sent   |-> [p \in All |-> 0],
          ended  |-> [p \in All |-> FALSE],
          taken  |-> [i \in Slots |-> << >>]]
  /\ fault = "none"

Runs(p)   == fault = "none" /\ m.status[p] = "ready"
InUser(p) == Runs(p) /\ m.call[p] = NoCall

Step(s)  == m' = s /\ UNCHANGED fault
Crash(f) == fault' = f /\ UNCHANGED m

(* sys_read of a descriptor that is a pipe. *)
Read(p, len) ==
  /\ InUser(p)
  /\ m.fds[p].in # Tty
  /\ Step(pipe_read(m, p, m.fds[p].in, len))

(* sys_write of n bytes to a descriptor that is a pipe. *)
Write(p, n) ==
  /\ InUser(p)
  /\ m.fds[p].out # Tty
  /\ m.sent[p] + n <= MaxBytes
  /\ Step(pipe_write([m EXCEPT !.sent[p] = @ + n], p, m.fds[p].out,
                     [x \in 1 .. n |-> m.sent[p] + x]))

(* Back from the yield in pipe_write: is the pipe still the same one?      *)
ResumeWrite(p) ==
  /\ Runs(p)
  /\ m.call[p].op = "write"
  /\ Step(IF m.call[p].live THEN WriteOn(m, p, m.call[p].slot, m.call[p].data)
                            ELSE Return(m, p))

(* The table has a new pipe in the place of the one that p slept in, and   *)
(* its memory may be that of the old one: then the pointers are equal, and *)
(* p writes into a pipe that is not its own.  The model ends there.  (A    *)
(* reader's pipe is not freed while it reads: only it can free it.)        *)
ResumeWriteReused(p) ==
  /\ Runs(p)
  /\ m.call[p].op = "write"
  /\ ~ m.call[p].live
  /\ m.pipes[m.call[p].slot] # NULL
  /\ Crash("reused_pipe")

(* Back from the yield in the loop that waits for a first writer. *)
ResumeReadFirst(p) ==
  /\ Runs(p)
  /\ m.call[p].op = "read_first"
  /\ Step(IF m.call[p].live THEN ReadFirst(m, p, m.call[p].slot, m.call[p].left)
                            ELSE Return(m, p))

(* Back from the yield for data.  Nothing is tested again: what the inner  *)
(* loop does not find it waits for once more.                              *)
ResumeRead(p) ==
  /\ Runs(p)
  /\ m.call[p].op = "read"
  /\ Step(ReadOn(m, p, m.call[p].slot, m.call[p].left))

(* Back in kill_process, in the middle of closing the victim's pipe.       *)
ResumeCloseFull(q) ==
  LET c == m.call[q]
  IN  /\ Runs(q)
      /\ c.op = "close" /\ c.live
      /\ CloseWaits(m, c.victim, c.slot)
      /\ Step(WaitForRoom(WakeOther(m, c.slot, m.pipes[c.slot].out),
                          q, c.victim, c.fd, c.slot))

ResumeClose(q) ==
  LET c == m.call[q]
  IN  /\ Runs(q)
      /\ c.op = "close" /\ c.live
      /\ ~ CloseWaits(m, c.victim, c.slot)
      /\ Step(CloseRest(close_write(m, c.slot), q, c.victim, c.fd))

(* The reader has freed the pipe meanwhile: pipe_close writes and reads    *)
(* through the pointer it holds, with or without harm.                     *)
ResumeCloseFreed(q) ==
  LET c == m.call[q]
  IN  /\ Runs(q)
      /\ c.op = "close" /\ ~ c.live
      /\ Step(CloseRest(m, q, c.victim, c.fd)) \/ Crash("freed_pipe")

(* Return from main, kill(getpid()), or Ctrl+C (schedule kills the current *)
(* process): q never comes back from the yield of a pipe_close that waits. *)
Exit(p) ==
  /\ fault = "none"
  /\ p \in Procs /\ m.status[p] = "ready"
  /\ KillWaits(m, p) => "exit_full" \in Deaths
  /\ Step(kill_process(m, p, p))

(* process_wrapper exits with interrupts on.  A ZOMBIE that loses the CPU  *)
(* does not get it back, as it is in no ready queue, so an exit that is    *)
(* cut by a tick is a beginning of the whole one.  (SchedulerExit has the  *)
(* case left out here: a tick before status = ZOMBIE used the freed node   *)
(* and linked the process again.)  The other end, when it is asleep, is    *)
(* made READY before isBlocking is cleared.  The dead process's history    *)
(* is of no use any more.                                                  *)
WakeSet(s, i, p) == IF s.pipes[i].blocking THEN Wake(s, p) ELSE s

CloseWriteParts(s, i) ==
  LET ended == [s EXCEPT !.pipes[i] = WithEOF(@)]
      out   == s.pipes[i].out
  IN  {ended, WakeSet(ended, i, out), WakeOther(ended, i, out), close_write(s, i)}

CloseReadParts(s, i) ==
  LET left == [s EXCEPT !.pipes[i].out = NoProc]
      in   == s.pipes[i].in
  IN  {left, WakeSet(left, i, in), WakeOther(left, i, in), close_read(s, i)}

(* s and what pipe_close by p does to it, step by step. *)
CloseParts(s, p, i) ==
  {s} \cup
    (IF i = Tty THEN {}
     ELSE IF s.pipes[i] = NULL \/ CloseWaits(s, p, i) THEN {}
     ELSE IF s.pipes[i].in = p THEN CloseWriteParts(s, i)
     ELSE IF s.pipes[i].out = p THEN CloseReadParts(s, i)
     ELSE {})

ExitParts(p) ==
  LET dead    == [m EXCEPT !.status[p] = "zombie", !.sent[p] = 0, !.ended[p] = FALSE]
      inDone  == [pipe_close(dead, p, m.fds[p].in) EXCEPT !.fds[p].in = Tty]
      outDone == [pipe_close(inDone, p, m.fds[p].out) EXCEPT !.fds[p].out = Tty]
      first   == CloseParts(dead, p, m.fds[p].in)
      second  == CloseParts(inDone, p, m.fds[p].out)
      rest    == {outDone, [outDone EXCEPT !.linked = @ \cup {p}]}
  IN  IF CloseWaits(dead, p, m.fds[p].in) THEN first
      ELSE IF CloseWaits(inDone, p, m.fds[p].out) THEN first \cup second
      ELSE first \cup second \cup rest

(* Between free_pipe and pipes[index] = NULL the table has a freed pipe.   *)
ExitCut(p) ==
  /\ InUser(p)
  /\ "exit_cut" \in Deaths
  /\ Cardinality(cut) < MaxCuts
  /\ cut' = cut \cup {p}
  /\ \/ \E s \in ExitParts(p) : Step(s)
     \/ /\ \E i \in Slots : m.pipes[i] # NULL /\ m.pipes[i].out = p
        /\ Crash("freed_pipe")

(* kill_process of another process. *)
Kill(q, v) ==
  /\ InUser(q)
  /\ q # v
  /\ m.status[v] \in {"ready", "blocked"}
  /\ KillWaits(m, v) => "kill_full" \in Deaths
  /\ Step(kill_process(m, q, v))

(* The block command toggles: a process asleep in a pipe is made ready.    *)
Unblock(p) ==
  /\ fault = "none"
  /\ m.status[p] = "blocked"
  /\ Step(Wake(m, p))

ProcNext ==
  \E p \in Procs :
    \/ \E len \in 1 .. MaxLen : Read(p, len)
    \/ \E n \in 1 .. MaxLen : Write(p, n)
    \/ ResumeWrite(p)
    \/ ResumeWriteReused(p)
    \/ ResumeReadFirst(p)
    \/ ResumeRead(p)
    \/ ResumeCloseFull(p)
    \/ ResumeClose(p)
    \/ ResumeCloseFreed(p)
    \/ Exit(p)
    \/ \E v \in Procs : Kill(p, v)
    \/ Unblock(p)

-----------------------------------------------------------------------------
(* The writer is dead and a tick cut its exit before it closed its end. *)
EndLeftOpen(pipe) == pipe.in \in cut /\ m.status[pipe.in] = "zombie"

(* Who sleeps in a pipe has something to wait for, and whoever provides it *)
(* will see isBlocking: a reader sleeps only while nothing can be read, a  *)
(* writer only while nothing fits.  isBlocking is one flag for both ends,  *)
(* set before the yield and tested after the transfer (pipe.c:197-222,     *)
(* 241-269), cleared by opens and closes as well.  The one exception is a  *)
(* reader whose writer died without closing its end: the writer's exit,    *)
(* cut by a tick after the end of file was put, wakes nobody.              *)
NoLostPipeWakeup ==
  \A p \in Procs :
    m.status[p] = "blocked" =>
      LET i == m.call[p].slot
      IN  /\ m.pipes[i] # NULL
          /\ m.pipes[i].blocking
          /\ IF m.call[p].op = "write"
               THEN m.pipes[i].in = p /\ m.pipes[i].size = PipeSize
               ELSE /\ m.pipes[i].out = p
                    /\ NothingToRead(m.pipes[i]) \/ EndLeftOpen(m.pipes[i])

Pending(p) == IF m.call[p].op = "write" THEN m.call[p].data ELSE << >>

(* No byte is lost, doubled or overtaken: what the reader has taken, what  *)
(* is in the pipe and what its writer still holds in pipe_write are the    *)
(* bytes that the writer handed to write, in order; and the end of file    *)
(* comes after the last of them.                                           *)
BytesInOrder ==
  \A i \in Slots :
    m.pipes[i] # NULL =>
      LET p    == m.pipes[i].in
          held == m.taken[i] \o Content(m.pipes[i])
          all  == IF p = NoProc THEN held ELSE held \o Pending(p)
      IN  /\ \A n \in DOMAIN all : all[n] = n
          /\ p # NoProc /\ m.status[p] # "zombie" => Len(all) = m.sent[p]
          /\ Ended(m.pipes[i]) => p = NoProc \/ m.status[p] = "zombie"
=============================================================================
