# TLA+ models of the kernel

The program is a small x86-64 teaching kernel (`src/Kernel`) with its user land
(`src/Userland`): one CPU, a preemptive priority scheduler, processes,
semaphores, pipes, two interchangeable heaps, a keyboard and a text console, a
shell and a few concurrent commands and tests. All code runs in ring 0 in one
address space. This directory holds TLA+ models of it, the TLC configurations
that check them, and TLAPS proofs about them. `PROJECT.json` is the index:
which definition models which lines, which run checks which property, and the
hazards the properties are aimed at.

## 1. The system

### How the parts interact

Every part is called by function call, on the stack of the current process or
of an interrupt. The rules that decide what can interleave:

* Every IDT gate is an interrupt gate (`idtLoader.c:9`, `0x8E`), and the `sti`
  in `intHandlerMaster` is commented out. A system call, an IRQ handler and an
  exception handler run with interrupts off: each is **atomic up to a `yield()`
  inside it**.
* `yield()` (`scheduler.c:384`) ends with `int $0x20`, the timer's own vector: it
  runs `schedule` and continues on another stack. A process resumed there is
  inside its system call, interrupts still off, and runs on to its next yield or
  its return to user mode before any other event.
* Two exceptions. `sys_sleep` halts with `sti; hlt`. And `process_wrapper`
  (`process.c:145`) calls `kill_current_process` directly when `main` returns,
  not through `int 0x80`: a normal exit runs with interrupts **on**.
* The timer IRQ calls `schedule`; the keyboard IRQ never does, it only fills its
  buffer, posts a semaphore and raises `kill_fg_flag`.

### Components

| component (source) | state | operations | what is hard | what must hold |
|---|---|---|---|---|
| scheduler (`processes/scheduler.c`) | process table, ready queue per priority, blocked queue, current pid, quantum, level pointer, Ctrl+C flag, foreground pid | create, kill, yield, set priority, set status, schedule, waitpid | node moves between lists in seven functions; `schedule`, `kill_process` and `yield` call each other; wake-up against death; pid reuse; aging | each process in exactly the list its status and priority say; no dead process runs; no lost wake-up of a waiting parent; zombies kept for their parent; ready processes get the CPU |
| process records (`processes/process.c`) | one `Process` per slot | init, free, wrapper, info | exit is preemptible; allocation failure half way | what a preempted exit may cost, and no more |
| lists (`lib/list.c`) | head, tail, size, iterator | append, prepend, remove, iterate | removal trusts its node | the list is the sequence it stands for |
| semaphores (`semaphores/semaphores.c`) | value, mutex, two pid queues per semaphore | init, open, close, destroy, wait, post | stale and dead pids in queues; barging; destroy with waiters; wrap of the value | value never below 0; as many passes as posts; a post wakes a live waiter |
| pipes (`pipes/pipe.c`) | circular buffer, two end pids, blocking flag, EOF | open, close, read, write | end of file while full; stale pointers; kill of a blocked end | bytes arrive once, in order; EOF after the last byte; nobody blocked for ever |
| keyboard (`drivers/keyboardDriver.c`) | 1024-byte ring, shift/caps/ctrl, semaphore | IRQ handler, blocking and polling reads | IRQ against reader; polling reads bypass the semaphore | ring count equals semaphore value |
| heaps (`memory/firstFitMemory.c`, `memory/buddyMemory.c`) | free list; page flags and orders | alloc, free, stats | splitting, coalescing, roving pointer | blocks disjoint, inside the heap, fully coalesced, counters exact |
| system calls (`idt/syscalls.c`, `intDispatcher.c`) | none | dispatch, checks, sleep | midnight in `sys_sleep` | sleep lasts what was asked |
| timer, boot, interrupt stubs | tick count | tick, Init | first switch | see scheduler |
| console, video (`drivers/consoleDriver.c`, `videoDriver.c`) | text buffer, cursor, screen | write, backspace, clear, font size | drop of the first quarter; partial redraws | the screen shows the end of the text |
| exceptions (`idt/exceptions.c`) | none | print, poll the keyboard | polling with interrupts off | see keyboard |
| shell (`Userland/shell/shell.c`) | none across commands | parse, pipeline, background, wait | partial failure of a pipeline; descriptor 3 is pipe 3 | every foreground process waited for |
| mvar, test_sync (`Userland`) | shared cell, semaphores | put, take; increment | interleavings, kill of a holder | each value taken once; final sum 0 |

Vendored or build-time code (`Bootloader`, `Toolchain`) and the user library's
wrappers and formatting are not modelled.

## 2. How the project is built

Order of work: what other parts stand on comes first. The scheduler decides who
runs; semaphores and pipes block and wake through it; the keyboard posts a
semaphore; the programs use all of them.

| modules | part | stands on |
|---|---|---|
| `SchedOps`, `Scheduler`, `SchedulerExit` | scheduler, process records, `waitpid`, exit | |
| `SchedulerSafety`, `SchedulerSteps` | proofs about the scheduler | |
| `Semaphores`, abstract `CountingSemaphore`, `SemaphoresProofs` | semaphores | extends `Scheduler` |
| `Pipe`, `Shell`, abstract `Channel` | pipes, with the shell that makes pipelines | what is proved of the scheduler |
| `FirstFit`, `Buddy`, abstract `Allocator`, `Heaps` | the two heaps | |
| `Keyboard`, `Console`, `SleepClock`, `Devices` | drivers, exceptions, `sys_sleep` | the semaphore |
| `TestSync`, `MVar`, `Commands` | concurrent programs | `CountingSemaphore` |
| `HeapProofs`, `CommandsProofs`, `DeviceProofs`, `PipeProofs` | proofs about both heaps, the programs, the drivers and the pipes | |

`MC*` modules and the `.cfg` files are instances for TLC. `Heaps`, `Devices` and
`Commands` put parts that share no state in one run: the initial state chooses
one of them and the rest stays as it began. Modules are written to be proved
about: sizes are CONSTANTS with named assumptions, each C function is one
operator or action, and no module uses RECURSIVE.

## 3. The scheduler

`SchedOps` has the scheduler's data as a record `k` and one operator per C
function: `set_priority`, `set_status`, `schedule`, `yield`, `kill_process`,
`create_process` and the pieces of `waitpid`. They are composed as the C
functions call each other; in particular `schedule` may kill the current
process for Ctrl+C, which yields, which enters `schedule` again with the flag
cleared, so the mutual recursion is one level deep and needs no recursion in
TLA+. `Semaphores` is built from the same operators.

`Scheduler` is the state machine: the variable `k`, `at[p]` (is `p` in user
mode, or inside `waitpid` past its yield) and `fault` (what ended the kernel).
Each action is a whole system call by the current process, a tick, or the
keyboard's Ctrl+C; each is enabled only when the current context has interrupts
on. `WaitpidReturn` is the rest of `waitpid` after its yield: nothing else is
enabled while the current process is there. `OtherPlaces` and `OtherFaults` are
the further values of `at` and `fault` that a module built on `Scheduler` brings.

`SchedulerExit` is the exit of a process that returns from `main`, which the code
runs with interrupts on. Where `Scheduler` kills in one step, here each step of
`kill_process` is an action of its own: off the ready queue, each zombie child's slot
emptied and then `num_processes--`, status ZOMBIE, into the parent's zombie list, the
wake-up, or the slot emptied and `num_processes--`, and the last `yield`. A tick or
Ctrl+C may come between any two (`ExitTick`, `ExitCtrlC`), and the exit goes on only
if the process gets the CPU again. What then happens is the code's:

* Before the status is ZOMBIE `schedule` rotates the process as a running one. Its
  node has been freed by then, so `list_remove` works on freed memory: either as
  though it were still there, which links the process again, or with a double
  free, where the model ends (`ExitTickDoubleFree`).
* From ZOMBIE on it is not rotated. It never runs again, unless it had been linked
  again before: then it is dispatched as a dead process, with the status RUNNING, and
  goes on with its exit. A slot picked after it was emptied is the fault
  "freed_process" (`FreedProcessUsed`).

A list operation and a `mm_free` are one step each; the code has smaller windows inside
them. Closing pipes is left to `Pipe`, which cuts exits as well.

### Abstractions

* Stack pointers, return values, names and arguments are left out. Descriptor 0
  is only "STDIN" or not; pipe descriptors, whose close may wake or block, are
  `Pipe`'s.
* Fields of a free slot are reset. The code frees that memory.
* Allocation failures only return -1 before any change. The node a list function
  allocates right after it freed one of the same size, with interrupts off, is
  always available: those error branches are dead code.
* `consumed` saturates at AGING_THRESHOLD. The code's 16-bit counter only differs
  after 65536 whole quanta at the top priority.

### Runs

| run | instance | shows |
|---|---|---|
| `sched_calls` | 4 slots, 2 priorities, aging after 2 quanta of 1 and 2 ticks, all calls | `TypeOK`; `QueuesExact`: the lists are exactly what status, priority and parent say; `TableConsistent`: `num_processes` and `next_unused_pid`; `CpuOwner`; `IdleOnlyWhenNothingReady`; `ZombieKeptForParent`; `DeadNeverResumed` |
| `sched_family` | 5 slots, one-tick quanta, no nice, fair timer | `NoLostWaitWakeup`, `WaitpidAfterExit`: parents, orphans, reuse of pids, kill and Ctrl+C around `waitpid`; `ReadyRunsOnceWakesStop`: aging and the level pointer reach everybody |
| `exit_steps` | 5 slots, one priority, quantum of 2 ticks, exits step by step, create, `waitpid`, Ctrl+C | `SlotsAccounted`: `num_processes` is too large by the decrements that were cut and by nothing else, it is never too small, and the next unused slot is unused; `WakeLostOnlyByCut`: a parent stays in `waitpid` for a dead child only if the child's exit did not come to the wake-up |
| `exit_lost_wake` (violated) | the same, 2 priorities | `ExitWakesParent` fails: the parent stays in `waitpid` |

Bounds. Four slots are idle, the shell, one process, and the slot that
`create_process` needs free: enough for blocking, death, reaping and reuse of a
pid. Five give a parent that is not the shell, orphans whose parent's pid was
reused, and two children of one parent. Two priorities let processes age, drop
and be overtaken; the level pointer wraps. Quanta of 1 and 2 ticks reach both
"expired" and "not yet". `Calls` is the set of calls a run allows. The calls
`"create_last"` and `"wake_waiter"` are the two the kernel does not survive; runs
with them set `CHECK_DEADLOCK FALSE` because the machine does stop there. A parent
that somebody unblocks inside `waitpid` frees a running child: `sched_calls`
allows it, `sched_family` does not, and `WaitpidAfterExit` holds there. `exit_steps`
has quanta of two ticks, so that a tick in an exit may end the quantum or not, and
five slots: idle, the shell, a command, its child or an orphan, and the free slot.

What no property of these runs says: that a process adopted by an unrelated owner of
its parent's pid comes to the right one (`parent_pid` is all that the code has), and
that a dead process never gets the CPU back when its exit is preempted (it may).
`DeadNeverResumed` and `TableConsistent` are about deaths in a system call, by kill
or Ctrl+C, where interrupts are off.

Fairness. `TimerFair` is weak fairness of `Tick`: the timer interrupt is
periodic, and comes whenever interrupts are on (`TickEnabled` is `ENABLED` of
the tick written out, which TLC evaluates much faster). `WF(WaitpidReturn)`: a
process in the kernel runs on. Nothing is assumed about what processes call.

Mutants. Next to a definition, `<definition>_<bug>` is the same definition with
a plausible bug, used to see that the property aimed at it does fail.

## 4. The semaphores

`Semaphores` extends `Scheduler` with `sem[i]` (open, value, queue of pids) and
`waitOn[p]`, the semaphore that `p`'s `down()` holds a pointer to. Its actions:

* `sem_init`, `sem_destroy`, `sem_post` (`up`), `sem_post_wraps` (`up` when the
  value wraps to 0: -1, nobody woken), `sem_wait` (`down` to its end, or to its
  `yield`), `down_again` (from the yield round the loop), `down_freed` (the same
  on a semaphore destroyed meanwhile, where the machine stops);
* `Kernel`: every step of `Scheduler`. A process killed in `down()` loses its
  stack, so it drops its pointer; its queue entry stays, as in the code.

Left out: the internal mutex. `up` and `down` run with interrupts off from
`acquire_mutex` to `release_mutex`, and `down` releases before it yields, so the
exchange always finds it free and `mutexQueue` stays empty. Also left out:
`sem_open` and `sem_close`, which change nothing, and failing allocations, which
return -1 before any change. Node allocation in `down` may fail in the code; the
call then returns -1 without blocking.

`CountingSemaphore` is the promise: open semaphores, values, who waits for what.
Who passes first is left open, since the code lets a process that never waited
take the value before the one that was woken. `waitOn = Freed` maps to no wait.

| run | instance | shows |
|---|---|---|
| `sem_calls` | 6 slots, 1 semaphore, values to 2, no kills, fair timer | `SemTypeOK`; `QueueIsSleepers`: a post wakes who waits and nobody else; `NoPostForgotten`: while somebody sleeps, each unit of the value has a woken process that comes for it; `PostsUsed`: a positive value with waiters is taken, or they go |
| `sem_kill` | 5 slots, 1 semaphore, values to 3, kill, Ctrl+C, destroy with waiters, pids reused | `SleepersQueued` and `CountsRight` (refinement of `CountingSemaphore`) hold for those who survive; who waits for a destroyed semaphore passes none that later gets its id |

Bounds. Three processes besides idle are a killed sleeper, a live one behind it
and a poster; four are a poster and three sleepers, which queue in any order and
are overtaken. Values to 2 let two posts come before the first woken process runs
and let the value wrap; `MaxQueue` bounds the entries that killed processes
leave. One semaphore: `CountsRight` and `SleepersQueued` are proved for any
number. `sem_kill` sets `CHECK_DEADLOCK FALSE` because the machine does stop on a
freed semaphore, or on a process freed too early.

Fairness. As for the scheduler, and weak fairness of `down_again` and
`down_freed`: a process in the kernel runs on. `PostsUsed` is about one
semaphore: with two, processes that wake each other through one of them keep
being put at the head of the ready queue, and the process woken by the other
never runs. That is the starvation that `ReadyRunsOnceWakesStop` excludes in its
assumption: `set_status` puts a woken process before those already ready.

## 5. Pipes and the shell

`Pipe` keeps in one record `m` the pipe table, the status of the processes, their
descriptors 0 and 1, the shell's `waitpid`, and `call[p]`: where `p` has yielded
inside the kernel and with what loop variables. Operators translate
`pipe_write`, `pipe_read`, `pipe_open`, `pipe_close` and `kill_process` from a
yield to the next; a step is a system call, or `Resume...`, what follows a yield.
`live` in a call is false once the pipe it points to was freed. The code compares its
pointer with the slot of the table: with an empty slot that test is exact; with a
new pipe, which the heap may have put at the same address, it may take the new one for
the old, and the model ends (`ResumeWriteReused`, fault "reused_pipe"). Where the code
makes no test it uses freed memory (`ResumeCloseFreed`, fault "freed_pipe").

A process that returns from `main` closes its pipes with interrupts on (`Exit`). A
tick there ends it, because a zombie is in no ready queue (`SchedulerExit` has the one
exception, a process linked again before it was a zombie, which comes back; it is left
out here); so what a tick leaves is a beginning of the whole exit, and `ExitCut` goes to any of them (`ExitParts`): after
the ZOMBIE status; after the end of file; after the reader was made ready but
`isBlocking` not cleared; with one end closed; linked to the parent, which was not
told. `cut` is who ended so. `waitpid` on such a zombie closes what is left
(`WaitCut`). A death inside a system call cannot be cut.

`Shell` adds what `shell.c` does with them: one command or a pipeline of two, in
the foreground or with `&`, each system call a step; a `create_process` may fail
half way. The shell waits for the first command and then for the second.

The scheduler is what `SchedulerSafety` proves of it: a ready process may be the
next to run, others may not. Priorities and ticks are not represented.

The n-th byte a process writes is the number n, so that a byte lost, doubled or
out of order shows. `Channel` is the abstract pipe: a bounded FIFO that ends only
after the last byte. `taken` and `ended` are history.

Left out: allocation failures in `pipe_get`; descriptors above 1, which no program
uses; return values, so that a read or write that fails changes nothing but `sent`.

| run | instance | shows |
|---|---|---|
| `pipeline` | 3 commands, 2 pipes of 2 bytes, calls of 1 or 2 bytes, 3 bytes per process, kill, block, Ctrl+C, one exit cut by a tick | `NoLostPipeWakeup`: who sleeps in a pipe has something to wait for and will be woken, but for a reader whose writer's exit was cut before it closed its end (`EndLeftOpen`); `BytesInOrder`; `PipesAreChannels` (refinement), both also across a cut; `PromptLeavesNothing`: back at the prompt no zombie and no orphan pipe, if no exit was cut and no `create_process` failed; `PipelineEnds`: the prompt comes back once the first command has ended, unless a death waits in `pipe_close` or an exit was cut |
| `pipe_exit_full` (violated) | as above, exits only | `ExitEndsPipeline` fails: see the known limits |

Bounds. Three commands are a pipeline and a background process, or an old
reader and the two new ends of a slot that is used again. Two bytes fill a pipe
in one call or two and make every read and write wrap; three bytes per writer
are one more than fit, so that a writer sleeps with data in hand. Two slots let
`lastFreePipe` go round. One cut (`MaxCuts`) meets every place of an exit, on either
side of a pipe and in the background, and everything others do after it.

Fairness. Weak fairness of the shell inside a command line, and of the line's second
command: it goes on after a yield, reads on until the end of file and then returns,
which is what `cat`, `wc` and `filter` do and what the scheduler gives a ready
process. When the first command stops is left open, and background commands need not
go on at all. `QuickFairSpec` is `FairSpec` with `ENABLED` written out for TLC
(`CanGoOn`, `ShellCanGoOn`). `CHECK_DEADLOCK FALSE`: the model ends with a fault.

## 6. Heaps

`FirstFit` is the default heap: a circular free list that starts at a sentinel,
with the pointer `freeList` where the next search begins. Only block headers are
represented, as functions from addresses; an access to a block that is not one
would be an evaluation error. `Buddy` is the other one: page flags, orders, free
lists and counts. In both the loops are cut into steps, so that "this loop
ends" is a property. A free of a pointer that is not held is outside both
modules: the kernel has no such call.

`Allocator` is the promise of both: a granted block lies in the heap, overlaps
none that is held and has room for the request; a request is refused only when no
place is free that the manager could give. `Length` and `Starts` say what that is:
for first-fit as many units as the request needs, anywhere; for buddy a block of
the least order with room, where that order aligns it.

| run | instance | shows |
|---|---|---|
| `heaps` | first-fit: 11 units, 4 request sizes, one beyond the heap's half; buddy: 9 pages from frame 5, orders to 2, 5 sizes, one too large | `BlocksApart`, `FreeListExact`: sorted, coalesced, complete, counted; `PagesExact`; `HeapAllocates` (refinement, both heaps); `CallsReturn` |

Bounds. Eleven units hold up to five blocks of the least size, so that blocks
are freed below, above and between the free ones, join on either side or both,
and the search starts anywhere. Nine pages from an odd frame give blocks of
every order, buddies outside the heap on both ends and a first block that has no
buddy. Every sequence of calls is explored. No request of the instance wraps in
the buddy heap's 32-bit sum (`NoPageWrap`, assumed in `MCHeaps`); see section 10.
Fairness: a loop in a system call runs on, since nothing interrupts it.

## 7. Devices

Each module is one driver; `Devices` runs one of them at a time.

* `Keyboard`: the ring buffer, the semaphore, shift, caps lock and ctrl, readers
  in `sys_read`, and the exception handler, which polls `getChar` and so takes a
  character that the semaphore still counts. `due` is what was typed and not yet
  given to anyone. Scan codes are abstracted to letters and modifiers; EOF is
  what Ctrl+D inserts.
* `Console`: the text buffer and the screen as a grid of characters.
  `console_write` draws the new text only, or moves the screen up and draws the
  rest, or draws everything; the property is that the screen shows the end
  of the text, whichever way was taken. It excepts one case, in which the code
  fails (`stale`, see the known limits). Pixels, fonts and colours
  are left out; the scroll by pixel rows is one by lines. The code's two
  colours do not move characters.
* `SleepClock`: `sys_sleep` reads seconds, minutes and hours one after the other
  and compares seconds of the day. The clock goes on meanwhile and waits for nobody:
  a quantum has up to 64 ticks, 3.5 seconds, and the sleeper may be off the CPU for
  longer. `NeverEarly` holds however seldom it polls. `SleepEnds` says that the sleep
  ends if it polled while its time had come (`Due`) and before it went by again; a
  target in the last second of the day that nobody looked at is `missed`, and the
  code then does sleep for another day. A reading that a minute's end falls into is
  `torn`; both properties exclude a sleep with one, which may wake at a wrong time.

| run | instance | shows |
|---|---|---|
| `devices` | 2 readers, a ring of 2; a 3 x 5 screen, a text buffer of 64, 6 writes; a day of 2 hours of 2 minutes of 3 seconds | `KeysInOrder`: ring, semaphore and what was typed agree, each key is read once, in order; `KeysGetRead`; `ScreenShowsText`; `NeverEarly` and `SleepEnds`: sleeps across midnight, with polls at any distance |
| `any_key` (violated) | keyboard only | `ExceptionEnds` fails: see the known limits |

Bounds. Two readers overtake each other in `sem_wait` and are killed there; a
ring of two wraps, fills and empties. Writes of one to sixteen characters with
tabs, newlines and backspaces make the screen scroll by each of the ways; the long
ones fill the buffer, which then drops its first quarter, also when the write has as
many characters as are dropped and the screen becomes `stale`. The quarter
exceeds a screen, as it does in the code (15000 characters). The
naps of 1, 7 and 11 seconds in a day of 12 end in the same minute, in the next hour
and on the next day, and minutes and hours turn over inside each. That two BCD digits
are converted right is proved (`NeverTooShort`, `BCDInverse`), for minutes of any
length; in the run one digit is enough. `MaxWaited` is a day, after which `waited`
stays as it is.

Fairness. The user types letters; a woken reader runs (`PostsUsed`); the
clock goes on and the sleeper polls again and again, at no particular rate. Nothing is assumed of Ctrl+C, Ctrl+D or exceptions.

## 8. Programs

`TestSync` and `MVar` are the commands that test the semaphores, on
`CountingSemaphore`, which `Semaphores` is proved to implement (`SemaphoresCount`).
Their steps are what happens between two yields or system calls. In `test_sync` a
failed `create_process` is not noticed (`CreateUnseen`), and a run that was killed
leaves the semaphore behind. A worker's exit may be cut by a tick before it tells its
parent (`ExitCut`, the worker is "untold"): `test_sync` then waits for ever, as
`exit_lost_wake` shows, and `SyncEnds` says that it ends in all other cases. In `mvar`
a failure half way destroys the semaphores one after the other, with the others
running in between (`DestroySems`). Who sleeps in one sleeps for ever; who was
already woken comes back on freed memory and passes or sleeps again (`PassFreed`).

| run | instance | shows |
|---|---|---|
| `commands` | 2 workers, 3 turns; 2 writers, 2 readers; any of them killed anywhere | `NoLostUpdate`: mutual exclusion, fresh copies, global is the sum of what was written; `FinalZero`; `SyncEnds`: the test ends, unless a worker's exit was cut; `ReadsMatchWrites`: every letter is read once before the next is written, also while the semaphores go; `MVarGoesOn` |

Bounds. Two of each kind compete for a token and for the mutex at once. Fairness:
a process that can go on does, which is `ReadyRunsOnceWakesStop`; for a semaphore,
`PostsUsed` while nobody is killed. `struck` and `lost` take the runs with kills
out of the liveness properties, since a killed sleeper's queue entry may take the
wake-up of another there.

## 9. What is proved

Of the scheduler and the semaphores, everything here holds for every
`MaxProcesses >= 3`, every number of priorities, every quantum table with positive
quanta, every aging threshold and every set of calls.

`SchedulerSafety`, first part: `TypeCorrect`, `Spec => []TypeOK`. One lemma per operator of
`SchedOps` says that it maps scheduler states to scheduler states; the only
operator that needs more is `create_process`, whose search must end
(`~CreateLoops`), which is the guard of `Create` and is proved for the two
processes of `main` (`BootFindsSlots`).

`SchedulerSafety`, the rest: the properties of `sched_calls` and `sched_family` that matter
most, all from one inductive invariant, `SystemInv` (theorem `SystemCorrect`):

* `QueuesStayExact` (`QueuesExact`), `TableStaysConsistent` (`TableConsistent`),
  `CpuHasOneOwner` (`CpuOwner`), `DeadStayDead` (`DeadNeverResumed`);
* `WaitWakeupNotLost` (`NoLostWaitWakeup`), under the assumption that `Calls`
  does not allow block and unblock of a process inside `waitpid`, without which
  it is false.

Why an invariant per operator is needed. `kill_process`, `yield` and `schedule`
call each other, so the facts must be true *inside* a system call, where the
current process may already be a zombie or freed and its stack still in use.

* `Core(s)` is what every operator preserves there: the three kinds of list are
  exact, idle is not dead, at most the current process is RUNNING, the slots
  are counted. It does not say that the current process is alive.
* `Marked(s, p)` is the one state where `Core` does not hold: between
  `process->status = ZOMBIE` and the end of `kill_process`, `p` is a zombie that
  is in no list. Both ends of `LinkOrFree` lead back to `Core`
  (`LinkMarkedCore`, `FreeMarkedCore`), and so does `waitpid` (`WaitFinishCore`).
* `Kept(s, t)` is the frame: what an operator does not do to other processes
  (raise the dead, forget a child of a living parent, change what a parent waits
  for). It is transitive, so it is proved operator by operator and composed. It
  gives `DeadStayDead` and carries what a waiting parent relies on (`WaitOK`)
  over any steps of others.
* `Sane(s)`, `Core(s)` and a living current process, holds again after every
  dispatch (`DispatchCore`): either the current process may continue, or its
  quantum was dropped and another one is picked. `KillBodyCore` followed by
  `DropThenDispatch` is the kill of the current process.

`SchedulerSteps`: what a whole call leaves behind, on top of `SystemInv`:

* `IdleIsLast` (`IdleOnlyWhenNothingReady`). Every call that changes the current
  process ends in a dispatch, and the dispatch goes once round all the levels
  from the current one: it finds none with a process only if there is none
  (`NoLevelMissed`, by the least-number principle; `Dispatched`).
* `ZombiesStay` (`ZombieKeptForParent`), from the frame `Kept` of each operator.
* `ReapsAfterExit` (`WaitpidAfterExit`), under the assumption that `Calls` does
  not allow a process inside `waitpid` to be unblocked, without which it is false.
  The property alone is not inductive; `WaitsDone` is: a parent inside `waitpid`
  that is not blocked has the zombie it waits for, and a blocked one does not have
  the CPU. It holds because who unblocks a parent is the kill of the child, after it is
  in the zombie list (`KillBodyWakes`). `Effect` collects what an operator promises
  and is composed like `Kept` (`EffectFrom`).

`SemaphoresProofs`, for every number of semaphores and every largest value:

* `SemaphoresCorrect`, the invariant `SemInv`: `SystemInv` still holds, since the
  semaphores touch the scheduler only through `set_status` and `yield`; who is in
  `down()` is alive (`HoldOK`); and the semaphore it points to is open or known
  to be freed (`PointsOpen`). `SemTypeCorrect` (`SemTypeOK`) follows.
* `SleepersStayQueued` (`SleepersQueued`), if nobody blocks or unblocks a process
  inside the kernel. The argument needs that no scheduler operator ever puts a
  process to sleep by the way: `Moves(s, t, X)` says what each one may do to the
  statuses, and is composed like `Kept`.
* `SemaphoresCount` (`CountsRight`): the refinement, step by step (`StepCounts`).
* `QueuesAreSleepers` (`QueueIsSleepers`) and `PostsRemembered` (`NoPostForgotten`), if
  nobody is killed and nobody woken from outside (`Calm`, which is what the run
  `sem_calls` allows; with kills both are false). The invariant is `CalmInv`: a queue
  holds exactly the processes asleep, and while there are any, at least as many are
  already woken as the value says. A process that looks at the value again may only
  be counted off because it is one of them: who has the CPU is never asleep
  (`CpuAwake`), which `Stays` carries over the scheduler's operators.

`HeapProofs`, for every size of the heaps (first-fit: at least one block; buddy: at
least one page, from any frame, with any largest order), every size of a header or a
page and every set of requests (`UnitsAssumption`, `BlockAssumption`,
`SizesAssumption`, `PagesAssumption`, `PageRequestsAssumption`). The first-fit heap:

* `HeapCorrect`, the invariant `HeapInv`. `BlocksApart` alone is not inductive:
  what a freed block may be joined with is decided by where the walk stopped in the
  free list, so the list must be sorted. `Sorted` says that without a recursive
  definition: every free block's successor is the next free address, and the
  sentinel follows the last. `Sized` and `Parts` say what is a block and who has it,
  `Cursor` that `prev` and `cur` of a search stay neighbours in the list and that
  a walk never leaves it.
* What the steps do to a list is proved once, for any list: taking a block out
  (`Unlinked`), putting one in (`Inserted`), joining two neighbours (`Merged`) and
  cutting one in two (`Cut`). `LinkKeeps` combines `Inserted` with up to two
  `Merged`, one for each neighbour that touches the freed block.
* `BlocksStayApart` (`BlocksApart`) follows. It does not depend on where a search
  starts, hence not on next-fit or first-fit.
* `NothingLost` (`FreeListExact`): no unit of the heap gets lost and no two free
  neighbours stay apart.
* `HeapExact`, the invariant `ExactInv` on top of `HeapInv`: every unit is in some
  block, free or held; two free blocks never touch; every block is free or held by
  someone; and `freeMemory` counts the units of the free blocks, with those of the
  block that is just being freed.
* Joining is where it could go wrong: `Link` joins the freed block with the
  neighbour below, above, both or none. `LinkShape` says for the four cases at once
  which blocks are left and which units they cover.
* `UnitsImplement`: it implements `Allocator`. Only a refusal needs more than
  `HeapInv`: the search must have gone round. `AskedInv` says that every free block
  between `freeList` and the place of the search, in the order of the list, was too
  small (`NoneFits`); by `ExactInv` a vacant place would lie inside one free block.

The buddy heap:

* `PagesOf` is a recursive function (`1UL << order`). That it defines what it says,
  1 and then twice as much with each order, is proved by the least number at which
  it would not (`PagesDouble`), since the library's induction rules cannot be used.
* From it follows what buddies are: of two aligned blocks that share a page the
  smaller lies in the larger (`Nested`); a block and its buddy do not overlap and
  together are an aligned block of the next order (`Buddies`, `BuddyUnion`,
  `Halves`).
* `PagesInvariant`, the invariant `PagesInv`, which also holds inside the calls.
  `FreeOK`: a page is marked free with order o exactly when a block of the list of
  order o covers it, so that flag and order of one page, which is all
  `buddy_free_pages` looks at, name a whole block in a list (`BuddyListed`).
  `HeldOK` and `MovingOK`: held blocks, and the one on its way between a client and
  a list, are aligned and apart; their pages are not free. `NoneLost`: every page
  that `buddy_add_memory` has passed is in one of these. `Coalesced`: no listed
  block has a listed buddy of its order; `SplitBlock` keeps it because the buddy of
  what it puts into a list is the half it goes on with.
* `PagesAreExact` (`PagesExact`) is what this says between two calls; the
  cardinalities come from lists without repetition (`ListCounts`) and from each
  page being in one block only.
* `HeapsAllocate` (`HeapAllocates`): both heaps implement `Allocator`. A grant has
  room because the order is the least with enough pages, if the sum does not wrap
  (`NoPageWrap`, a hypothesis of the theorem, since the code's sum does: section 10).
  A refusal needs `VacantListed`: were an aligned place of the order vacant while
  all listed blocks are of lower orders, take the smallest listed block in it. Its
  buddy lies in the place too and is free; if it is a block of the same order the
  two would have been joined, and a larger one would overlap the first.

`CommandsProofs`, for any number of workers, turns, writers and readers, with kills
and failing creations:

* `NoUpdateLost` (`NoLostUpdate`), from `SyncInv`: the semaphore is 1 only when
  nobody is between its wait and its post, at most one process is there, and what
  it read of the shared counter still holds.
* `PairsEndInZero` (`FinalZero`), if as many workers decrement as increment (`Paired`,
  what the loop of `test_sync` creates). `Summed` counts without a sum over data: the
  counter is the number of turns written by those that increment less that of the
  others, as cardinalities of sets of turns.
* `ReadsAreWrites` (`ReadsMatchWrites`), from `MVarInv`: there is at most one token, in
  one of the two semaphores or with the process that took it (`OneToken`), and
  where it is tells whether the cell has an unread letter (`TokenTells`). A kill
  may only lose it.

`DeviceProofs`:

* `KeysStayInOrder` (`KeysInOrder`), for every size of the ring that its count can
  hold (`BufferAssumption`), any readers and any letters. In `KeyInv` the count, the
  semaphore's value, the distance of the two ends and the keys still due agree
  (`Agrees`); it ends where an exception takes a key.
* `NeverTooShort` (`NeverEarly`), for every length of a minute, an hour and a day
  (`ClockAssumption`) and sleeps of 1 second to a day. `SleepInv` says, while no
  minute has ended inside a read: what has been read is the time of the seconds
  register (`Reading`, with `BCDInverse` for the chip's digits and `WholeMinutes` for
  the sum of the pieces), and, until enough seconds were waited, the clock went on
  since the start by at most those, and the second of two tests is only made
  when midnight has passed (`Course`).
* `ScreenIsRight` (`ScreenShowsText`), for every size of the screen, the buffer (more
  than 4 characters) and the tabs, and every set of data written (`ConsoleAssumption`).
  What is on the screen is said by the character that covers a cell (`Covers`), of
  which there is at most one (`OneCovers`) and, before the end of the text, one
  (`SomeCovers`): `Drawn` says that the cells of the first characters show them,
  `Clear` that the cells behind the end are blank, and together they are the property
  (`ShowsAll`). Drawing one more character keeps both (`DrawsNext`), so drawing from
  any position does, up to the end (`RenderDraws`). The three ways to draw differ in what
  they begin with: a blank screen; one moved up, whose bottom line is blank, which is
  enough because the visible text then ends in the last line (`VisibleText`,
  `ScrollDraws`); or the screen as it was, when the text only grew (`MoreText`) - what
  fails while `stale`. Three definitions of `Console` are recursive functions; that
  they compute what they say is proved once, for any chain of steps (`LeadsExist`).

`PipeProofs`, for every number and size of the pipes (`SizeAssumption`), NULL that
points to no pipe and descriptors that are either a pipe or the terminal
(`PointerAssumption`), a shell that is none of its commands (`ProcsAssumption`):

* All of it until a tick cuts an exit (`cut = {}`): what a cut leaves behind breaks
  these invariants, as it should, and TLC checks what still holds after one.
* `PipesCorrect`, the invariant `PipeInv`, and `SleepersWoken` (`NoLostPipeWakeup`),
  which follows from it. The property alone is not inductive: a sleeping writer is
  woken by a reader that may itself be in the middle of a call, and a dead writer's
  pipe may still be written to by its killer. `CallOK` says for each place in the
  kernel where a process may have yielded what it relies on: `WriteOK`, `ReadOK`,
  `CloseOK` (the victim stays a zombie that nobody may reap until its pipes are
  closed) and `WaitOK`.
* `Good(s, q)` is `CallOK` for all but `q`, the process in the middle of a call, and
  `Closing(s, q, v)` is `Good` while `q` closes the pipes of the dead `v`. `Kept(s, t, r)` is
  what a step of another process leaves as `r` needs it (`KeptOK`); it is proved for
  wake-ups, transfers, opens and closes, and each call is a chain of these.
* `pipe_get` finds a free slot when there is one (`FreeSlot`), by the least-number
  principle over the distance from the cursor.
* `BytesStayInOrder` (`BytesInOrder`), from `ByteInv`, which on top of `PipeInv` names
  every byte by its number: what was taken, what is in the circular buffer and what
  the writer still holds inside `pipe_write` follow one another (`SlotOK`, `WriterOK`),
  after an end of file there is no writer, and a pipe that the shell has just made
  is empty until its command is created (`FirstOK`). A killer that comes back to close
  a pipe may find it freed and the slot used again; the victim no longer writes to
  any (`StrayOK`). The buffer wraps, so a transfer is first shown to move the right
  places (`FilledBytes`, `PlacesApart`).
* `PipesImplementChannels` (`PipesAreChannels`): every step is, for every slot, one of
  the steps of `Channel` or none (`ChanStep`, `Stepped`). Kills and exits close several
  pipes and write their ends in one step, so what they do to the channels is
  composed: a closing only ends or frees channels (`Lower`), an opening only makes them
  (`Grown`).
* `PromptIsClean` (`PromptLeavesNothing`), from `LeftInv` on top of `PipeInv` and
  `ByteInv`. `ReaderOK`: the reader of an open pipe is in the table, not yet linked
  to its parent, and one of its descriptors leads to the pipe, so its death frees it.
  That is descriptor 0, or descriptor 1 once it has left the pipe as its writer: for a
  background command whose standard input is the kernel's pipe 0 (DEV_NULL) both
  may lead to the same one. `ReadersOK` adds that a killer who waits while it closes
  the pipes of the dead waits at the only pipe the dead still reads. `HasReader`: a
  pipe without a reader is the one the shell is making. `PlaceOK`: who is in the table
  runs in the background or is one the shell has yet to wait for. The theorem ends
  where a `create_process` failed (`failed`) or an exit was cut, as the property does.

Only model-checked: liveness and everything about fairness, which the prover
cannot do, hence `ReadyRunsOnceWakesStop`, `PostsUsed`, `PipelineEnds`, `CallsReturn`,
`SyncEnds`, `MVarGoesOn`, `KeysGetRead` and `SleepEnds`; the preempted exit, that is
`SlotsAccounted` and `WakeLostOnlyByCut`; and what `NoLostPipeWakeup`, `BytesInOrder`
and `PipesAreChannels` say after an exit was cut.

## 10. Known limits of the code

What the runs marked "violated" show (`findings` in `PROJECT.json`):

* `exit_lost_wake`: a process that returns from `main` runs `kill_process` with
  interrupts on. A tick between its ZOMBIE status and the wake-up of its parent
  ends it there, and its parent stays in `waitpid`. So may the shell, and
  `test_sync` with it.
* `pipe_exit_full`: `pipe_close` writes the end of file and waits for room when the
  pipe is full. The caller is already a zombie, never runs again, its parent is not
  woken and the reader meets no end of file.
* `any_key`: the exception handler waits for a key with interrupts off, so no key
  can arrive. It goes on only when one is already in the buffer.

What the properties step around, each at the line named in `hazards`:

* The same preempted exit costs a place in the process table for each
  `num_processes--` it does not come to, leaves open the pipes it did not close,
  with a reader asleep before an end of file that is there, and can bring a dead
  process back to the CPU when the tick came before the ZOMBIE status.
* A writer that wakes up in a slot with a new pipe at the address of the old one
  writes into that.
* An orphan is adopted by whoever gets the pid of its dead parent.
* A sleep whose target is in the last second of the day lasts a day longer when the
  sleeper does not get the CPU in that second; quanta are of up to 64 ticks.
* The last free slot: `create_process` then searches the next unused pid for ever,
  with interrupts off. `CreateLoops` is that case, the fault "create_loops".
* Ctrl+C kills whatever process is current at the next schedule and is dropped when
  that is idle; a blocked foreground process survives it.
* `up()` takes a dead waiter for a live one, since `process_is_alive` is true for
  every pid: the wake-up is lost, or goes to the next owner of the pid, who may be
  in `waitpid` and then frees a child that runs. The post is gone, and the waiter behind
  stays blocked.
* `waitpid` may find a zombie whose killer still closes its pipes
  (`WaitHalfDead`).
* Background commands get descriptor 3 as standard input: `DEV_NULL` is 3 in
  `unistd.h:6` and -1 in `globals.h:9`, so they read pipe 3 when it exists. Nobody
  waits for them.
* A request within a page of 2^32 wraps in the buddy heap's `mm_alloc` (the sum is of
  32 bits) and is granted one page; in `bytesToUnits` of the other heap the same sum is
  of 64 bits. The comment calls that heap's search first-fit; it starts where the
  last call ended (next-fit).
* After an exception took a key, the semaphore counts one more than the ring holds:
  a reader then extracts from an empty ring and `count` underflows. `KeysInOrder`
  and `KeysGetRead` hold until then.
* When one `console_write` makes the buffer drop text and the visible start comes out
  at the same position as before (`consoleDriver.c:450`), the code takes the text on
  the screen for unchanged and draws at most what lies behind the old cursor: the
  screen shows old text until it scrolls or is cleared. With the buffer of 60000
  that takes a write of about the 15000 characters dropped, or one of as many lines as
  make up for them. `ScreenShowsText` does not hold while `stale`.
* Cells that a tab skips may keep what they showed; what follows a backspace in one
  `console_write` is not written.
* `sleep(0)`, or of a whole day, never returns.
* Nobody destroys the semaphores of `mvar`, so a second `mvar` fails; `test_sync`
  compares an unsigned pid with 0.
* `filter` prints the vowels, though `README.md:165` of the repository shows the
  consonants.

## 11. Not modelled

* Kernel library (`lib.c`), user library (`printf`, `scanf`,
  string functions): formatting and conversions of one process, without state that
  others see. `libc`'s one-character reads are what `Keyboard` and `Pipe` take.
* The shell's parser, and the commands that only print or call one system call
  (`ps`, `mem`, `help`, `clear`, `kill`, `nice`, `block`): their system calls are
  actions of `Scheduler`, `Pipe` and `Console`; the strings are not represented.
* `filter`, `wc` and `cat` beyond reading to the end of file and exiting.
* The user tests other than `test_sync` (`test_mm`, `test_processes` and
  `test_util`): loops of calls whose every order `heaps` and `sched_calls` explore.
* Registers, stacks and their layout, page tables, pixels and fonts: no property
  here tells their values apart.
* Boot loader, disk image tools, build files: vendored, and they run before or
  outside the system.
