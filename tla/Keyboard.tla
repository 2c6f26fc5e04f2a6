------------------------------ MODULE Keyboard ------------------------------
(***************************************************************************)
(* The keyboard driver (Kernel/drivers/keyboardDriver.c), the processes    *)
(* that read STDIN, and the exception handler (Kernel/idt/exceptions.c),   *)
(* which takes a key from the driver without its semaphore.  libc asks     *)
(* sys_read for one character at a time.                                   *)
(*                                                                         *)
(* System calls, keyboard_handler and the exception handler run with       *)
(* interrupts off: each is a step, up to the yield in sem_wait.            *)
(***************************************************************************)
EXTENDS Naturals, Sequences

CONSTANTS
  Readers,          \* the processes that may read STDIN
  Letters,          \* the printable keys
  BUFFER_SIZE,      \* 1024
  CountValues,      \* 2^64: what count is reduced by
  MaxPosts,         \* bound of the model: the value of the semaphore
  NoReader, NoChar,
  EOF               \* -1

ASSUME BufferAssumption ==
  BUFFER_SIZE \in Nat \ {0} /\ CountValues \in Nat /\ CountValues > BUFFER_SIZE

VARIABLES
  kbd,          \* kbd_state
  keyValue,     \* the value of kbd_semaphore
  keyWaiting,   \* keyWaiting[p]: is p asleep in sem_wait(&kbd_semaphore)?
  killFg,       \* the flag that kill_foreground_process sets
  handler,      \* the process whose exception is handled, or NoReader
  due,          \* history: the characters typed and not yet given to anyone
  astray,       \* history: has a process got another character than was due?
  spoilt        \* history: "key_taken" by an exception, "sleeper_killed"

keyboardVars == << kbd, keyValue, keyWaiting, killFg, handler, due, astray, spoilt >>

Offsets == 0 .. BUFFER_SIZE - 1

KeyboardInit ==
  /\ kbd = [buffer |-> [i \in Offsets |-> NoChar], write_ptr |-> 0, read_ptr |-> 0,
            count |-> 0, caps |-> FALSE, shift |-> FALSE, ctrl |-> FALSE]
  /\ keyValue = 0
  /\ keyWaiting = [p \in Readers |-> FALSE]
  /\ killFg = FALSE
  /\ handler = NoReader
  /\ due = << >>
  /\ astray = FALSE
  /\ spoilt = {}

KeyTaken == "key_taken" \in spoilt

-----------------------------------------------------------------------------
(* keyboard_handler: ctrl, shift and caps lock *)
Interrupts == handler = NoReader

Modifies(k2) ==
  /\ Interrupts
  /\ kbd' = k2
  /\ UNCHANGED << keyValue, keyWaiting, killFg, handler, due, astray, spoilt >>

Ctrl     == \E on \in BOOLEAN : Modifies([kbd EXCEPT !.ctrl = on])
Shift    == \E on \in BOOLEAN : Modifies([kbd EXCEPT !.shift = on])
CapsLock == Modifies([kbd EXCEPT !.caps = ~ @])

(* Mutant: one character more than there is room for.                      *)
has_buffer_space_Full == kbd.count <= BUFFER_SIZE

has_buffer_space == kbd.count < BUFFER_SIZE

(* Mutant: the semaphore is not posted.                                    *)
insert_char_NoPost(c) ==
  /\ Interrupts /\ has_buffer_space /\ keyValue < MaxPosts
  /\ kbd' = [kbd EXCEPT !.buffer[kbd.write_ptr] = c,
                        !.write_ptr = (@ + 1) % BUFFER_SIZE,
                        !.count = @ + 1]
  /\ due' = IF KeyTaken THEN << >> ELSE Append(due, c)
  /\ UNCHANGED << keyValue, keyWaiting, killFg, handler, astray, spoilt >>

insert_char(c) ==
  /\ Interrupts /\ has_buffer_space /\ keyValue < MaxPosts
  /\ kbd' = [kbd EXCEPT !.buffer[kbd.write_ptr] = c,
                        !.write_ptr = (@ + 1) % BUFFER_SIZE,
                        !.count = @ + 1]
  /\ keyValue' = keyValue + 1
  /\ due' = IF KeyTaken THEN << >> ELSE Append(due, c)
  /\ UNCHANGED << keyWaiting, killFg, handler, astray, spoilt >>

(* A key goes into the buffer while there is space, and is lost otherwise. *)
Letter(key) ==
  /\ ~ kbd.ctrl
  /\ insert_char(<< key, kbd.caps \/ kbd.shift >>)

CtrlC ==
  /\ Interrupts
  /\ kbd.ctrl
  /\ killFg' = TRUE
  /\ UNCHANGED << kbd, keyValue, keyWaiting, handler, due, astray, spoilt >>

CtrlD == kbd.ctrl /\ insert_char(EOF)

-----------------------------------------------------------------------------
(* extract_char; count is not tested. *)
First == kbd.buffer[kbd.read_ptr]

extract_char ==
  kbd' = [kbd EXCEPT !.read_ptr = (@ + 1) % BUFFER_SIZE,
                     !.count = (@ + CountValues - 1) % CountValues]

(* getCharBlocking, when sem_wait gets a value *)
getCharBlocking(p) ==
  /\ keyValue > 0
  /\ keyValue' = keyValue - 1
  /\ keyWaiting' = [keyWaiting EXCEPT ![p] = FALSE]
  /\ extract_char
  /\ due' = IF due = << >> THEN due ELSE Tail(due)
  /\ astray' = (astray \/ (~ KeyTaken /\ (due = << >> \/ First # Head(due))))
  /\ UNCHANGED << killFg, handler, spoilt >>

(* sys_read(STDIN, &c, 1) finds a key, or goes to sleep. *)
sys_read(p) == Interrupts /\ ~ keyWaiting[p] /\ getCharBlocking(p)

sys_read_sleeps(p) ==
  /\ Interrupts
  /\ ~ keyWaiting[p]
  /\ keyValue = 0
  /\ keyWaiting' = [keyWaiting EXCEPT ![p] = TRUE]
  /\ UNCHANGED << kbd, keyValue, killFg, handler, due, astray, spoilt >>

(* Woken, and nobody has taken the value before. *)
sys_read_woken(p) == Interrupts /\ keyWaiting[p] /\ getCharBlocking(p)

(* By Ctrl+C or the kill command.  The entry of a process killed asleep    *)
(* stays in the semaphore's queue and takes a wake-up from another         *)
(* (semaphores.c:232).                                                     *)
KillReader(p) ==
  /\ Interrupts
  /\ keyWaiting' = [keyWaiting EXCEPT ![p] = FALSE]
  /\ killFg' = FALSE
  /\ spoilt' = IF keyWaiting[p] THEN spoilt \cup {"sleeper_killed"} ELSE spoilt
  /\ UNCHANGED << kbd, keyValue, handler, due, astray >>

-----------------------------------------------------------------------------
(* exceptionDispatcher, in a process that is not in a system call.         *)
Exception(p) ==
  /\ Interrupts
  /\ ~ keyWaiting[p]
  /\ handler' = p
  /\ UNCHANGED << kbd, keyValue, keyWaiting, killFg, due, astray, spoilt >>

(* getChar until it is not 0; then the process starts again as a shell.    *)
HandlerTakesKey ==
  /\ handler # NoReader
  /\ kbd.count # 0
  /\ extract_char
  /\ handler' = IF First = NoChar THEN handler ELSE NoReader
  /\ due' = << >>
  /\ spoilt' = spoilt \cup {"key_taken"}
  /\ UNCHANGED << keyValue, keyWaiting, killFg, astray >>

Types ==
  \/ Ctrl \/ Shift \/ CapsLock \/ CtrlC \/ CtrlD
  \/ \E key \in Letters : Letter(key)

KeyboardNext ==
  \/ Types
  \/ \E p \in Readers :
       sys_read(p) \/ sys_read_sleeps(p) \/ sys_read_woken(p) \/ KillReader(p) \/ Exception(p)
  \/ HandlerTakesKey

-----------------------------------------------------------------------------
Ring == [i \in 1 .. kbd.count |-> kbd.buffer[(kbd.read_ptr + i - 1) % BUFFER_SIZE]]

(* Until an exception takes a key: the buffer holds the characters that    *)
(* were typed and not read, in the case they were typed in; the semaphore  *)
(* counts them, so that nobody reads from an empty buffer or sleeps before *)
(* a full one; and they are read in the order they were typed, once each,  *)
(* by several processes too, and when processes are killed in sys_read.    *)
KeysInOrder ==
  ~ KeyTaken => Ring = due /\ keyValue = kbd.count /\ ~ astray

(* A process that waits for a key does not wait while there is one.        *)
KeysGetRead ==
  \A p \in Readers :
    keyWaiting[p] /\ kbd.count > 0
      ~> ~ keyWaiting[p] \/ kbd.count = 0 \/ spoilt # {} \/ ~ Interrupts

(* exceptions.c:37 "Press any key to continue...": the handler of an       *)
(* exception ends when a key is pressed.                                   *)
ExceptionEnds == handler # NoReader ~> handler = NoReader
=============================================================================
