------------------------------ MODULE PipeProofs ------------------------------
(***************************************************************************)
(* The pipes, for every number and size of them, any commands and any      *)
(* deaths: nobody sleeps in a pipe whose other end will not wake it, the   *)
(* bytes stay in order, every slot of the table is a channel, and the      *)
(* shell leaves nothing behind at its prompt.                              *)
(***************************************************************************)
EXTENDS Shell, TLAPS, WellFoundedInduction, SequenceTheorems

-----------------------------------------------------------------------------
(* The buffer.                                                             *)
LEMMA Sizes ==
  /\ PipeSize \in Nat /\ PipeSize > 0 /\ MaxPipes \in Nat /\ MaxPipes > 0
  /\ MaxLen \in Nat /\ MaxBytes \in Nat
BY SizeAssumption

LEMMA PlaceIn ==
  ASSUME NEW pipe \in Pipes, NEW n \in Nat
  PROVE  Place(pipe, n) \in 0 .. PipeSize - 1
<1>1. pipe.start \in Nat
  BY Sizes DEF Pipes
<1> QED BY <1>1, Sizes DEF Place

LEMMA EmptyPipe == create_pipe \in Pipes
BY Sizes DEF create_pipe, Pipes

LEMMA FilledPipe ==
  ASSUME NEW pipe \in Pipes, NEW data \in Seq(Int), pipe.size + Len(data) <= PipeSize
  PROVE  /\ Filled(pipe, data) \in Pipes
         /\ Filled(pipe, data).size = pipe.size + Len(data)
         /\ Filled(pipe, data).in = pipe.in /\ Filled(pipe, data).out = pipe.out
         /\ Filled(pipe, data).blocking = pipe.blocking
<1> DEFINE at(x, j) == x = Place(pipe, pipe.size + j - 1)
           cell(x) == IF \E j \in 1 .. Len(data) : at(x, j)
                        THEN data[CHOOSE j \in 1 .. Len(data) : at(x, j)]
                        ELSE pipe.buffer[x]
           buf == [x \in 0 .. PipeSize - 1 |-> cell(x)]
<1>1. \A x \in 0 .. PipeSize - 1 : cell(x) \in Int
  <2> SUFFICES ASSUME NEW x \in 0 .. PipeSize - 1 PROVE cell(x) \in Int
    OBVIOUS
  <2>1. CASE \E j \in 1 .. Len(data) : at(x, j)
    <3> DEFINE c == CHOOSE j \in 1 .. Len(data) : at(x, j)
    <3>1. c \in 1 .. Len(data)
      BY <2>1
    <3> HIDE DEF c
    <3>2. data[c] \in Int
      BY <3>1
    <3> QED BY <2>1, <3>2 DEF c
  <2>2. CASE ~ \E j \in 1 .. Len(data) : at(x, j)
    BY <2>2 DEF Pipes
  <2> QED BY <2>1, <2>2
<1>2. buf \in [0 .. PipeSize - 1 -> Int]
  BY <1>1
<1>3. DOMAIN pipe.buffer = 0 .. PipeSize - 1
  BY DEF Pipes
<1>4. Filled(pipe, data) = [pipe EXCEPT !.buffer = buf, !.size = pipe.size + Len(data)]
  BY <1>3 DEF Filled
<1> HIDE DEF buf
<1>5. pipe.size + Len(data) \in 0 .. PipeSize
  BY Sizes DEF Pipes
<1> QED BY <1>2, <1>4, <1>5 DEF Pipes

LEMMA DrainedPipe ==
  ASSUME NEW pipe \in Pipes, NEW n \in 0 .. pipe.size
  PROVE  /\ Drained(pipe, n) \in Pipes
         /\ Drained(pipe, n).size = pipe.size - n
         /\ Drained(pipe, n).in = pipe.in /\ Drained(pipe, n).out = pipe.out
         /\ Drained(pipe, n).blocking = pipe.blocking
         /\ n = pipe.size => (Ended(Drained(pipe, n)) <=> Ended(pipe))
<1> DEFINE pl == Place(pipe, n)
<1>1. pl \in 0 .. PipeSize - 1
  BY PlaceIn, Sizes DEF Pipes
<1>2. pipe.size - n \in 0 .. PipeSize
  BY Sizes DEF Pipes
<1>3. Drained(pipe, n) = [pipe EXCEPT !.start = pl, !.size = pipe.size - n]
  BY DEF Drained
<1> HIDE DEF pl
<1>4. /\ Drained(pipe, n) \in Pipes
      /\ Drained(pipe, n).size = pipe.size - n /\ Drained(pipe, n).start = pl
      /\ Drained(pipe, n).in = pipe.in /\ Drained(pipe, n).out = pipe.out
      /\ Drained(pipe, n).blocking = pipe.blocking
      /\ Drained(pipe, n).buffer = pipe.buffer
  BY <1>1, <1>2, <1>3 DEF Pipes
<1>5. ASSUME n = pipe.size PROVE Ended(Drained(pipe, n)) <=> Ended(pipe)
  <2>1. Drained(pipe, n).size = 0
    BY <1>4, <1>5, Sizes DEF Pipes
  <2>2. (pl + 0) % PipeSize = pl
    BY <1>1, Sizes
  <2>3. Place(Drained(pipe, n), 0) = pl
    BY <1>4, <2>2 DEF Place
  <2> QED BY <1>4, <1>5, <2>1, <2>3 DEF Ended, pl
<1> QED BY <1>4, <1>5

LEMMA EndedPipe ==
  ASSUME NEW pipe \in Pipes
  PROVE  /\ WithEOF(pipe) \in Pipes
         /\ WithEOF(pipe).size = pipe.size
         /\ WithEOF(pipe).in = pipe.in /\ WithEOF(pipe).out = pipe.out
         /\ WithEOF(pipe).blocking = pipe.blocking
<1> DEFINE buf == [pipe.buffer EXCEPT ![Place(pipe, pipe.size)] = EOF]
<1>1. EOF \in Int /\ pipe.buffer \in [0 .. PipeSize - 1 -> Int]
  BY DEF Pipes, EOF
<1>2. buf \in [0 .. PipeSize - 1 -> Int]
  BY <1>1
<1>3. WithEOF(pipe) = [pipe EXCEPT !.buffer = buf]
  BY DEF WithEOF
<1> HIDE DEF buf
<1> QED BY <1>2, <1>3 DEF Pipes

-----------------------------------------------------------------------------
(* The state, and what is true of a process by where it is.                *)
Descriptors == Slots \cup {Tty}

Calls ==
  {NoCall}
  \cup [op : {"waitpid"}, slot : {Tty}]
  \cup [op : {"write"}, slot : Slots, data : Seq(Int) \ {<< >>}, live : BOOLEAN]
  \cup [op : {"read", "read_first"}, slot : Slots, left : Nat \ {0}, live : BOOLEAN]
  \cup [op : {"close"}, slot : Slots, victim : Procs, fd : {"in", "out"}, live : BOOLEAN]

State ==
  [pipes  : [Slots -> Pipes \cup {NULL}],
   cursor : Slots,
   status : [All -> {"free", "ready", "blocked", "zombie"}],
   fds    : [All -> [in : Descriptors, out : Descriptors]],
   waits  : Procs \cup {NoProc},
   linked : SUBSET Procs,
   call   : [All -> Calls],
   sent   : [All -> Nat],
   ended  : [All -> BOOLEAN],
   taken  : [Slots -> Seq(Int)]]

Open(s, i) == s.pipes[i] # NULL

InUserOK(s, p) == s.call[p].op = "none" => s.status[p] # "blocked"

WaitOK(s, p) ==
  s.call[p].op = "waitpid" => p = Shell /\ (s.status[p] = "ready" => s.waits \in s.linked)

WriteOK(s, p) ==
  LET i == s.call[p].slot
  IN  s.call[p].op = "write" =>
        /\ p \in Procs /\ s.status[p] \in {"ready", "blocked"}
        /\ s.call[p].live => Open(s, i) /\ s.pipes[i].in = p
        /\ s.status[p] = "blocked" =>
             s.call[p].live /\ s.pipes[i].blocking /\ s.pipes[i].size = PipeSize

ReadOK(s, p) ==
  LET i == s.call[p].slot
  IN  s.call[p].op \in {"read", "read_first"} =>
        /\ p \in Procs /\ s.status[p] \in {"ready", "blocked"}
        /\ s.call[p].live /\ Open(s, i) /\ s.pipes[i].out = p
        /\ s.status[p] = "blocked" => s.pipes[i].blocking /\ NothingToRead(s.pipes[i])

(* Who closes the pipes of the dead: they stay dead until it is done.      *)
CloseOK(s, p) ==
  LET c == s.call[p]
  IN  c.op = "close" =>
        /\ s.status[p] = "ready" \/ p = c.victim
        /\ s.status[c.victim] = "zombie" /\ c.victim \notin s.linked
        /\ c.live => Open(s, c.slot) /\ s.pipes[c.slot].in = c.victim

CallOK(s, p) == InUserOK(s, p) /\ WaitOK(s, p) /\ WriteOK(s, p) /\ ReadOK(s, p) /\ CloseOK(s, p)

Closes(s, p, v) == s.call[p].op = "close" /\ s.call[p].victim = v

(* All is well, but for the call that q is in the middle of.               *)
Good(s, q) ==
  /\ s \in State
  /\ \A p \in All \ {q} : CallOK(s, p)
  /\ \A p1, p2 \in All \ {q} : \A v \in Procs : Closes(s, p1, v) /\ Closes(s, p2, v) => p1 = p2
  /\ \A v \in s.linked : s.status[v] = "zombie"
  /\ s.status[Shell] \in {"ready", "blocked"}

(* q closes the pipes of v.                                                *)
Closing(s, q, v) ==
  /\ Good(s, q)
  /\ q \in All /\ v \in Procs
  /\ s.status[v] = "zombie" /\ v \notin s.linked
  /\ s.status[q] = "ready" \/ q = v
  /\ \A p \in All \ {q} : ~ Closes(s, p, v)

(* What no step but the shell's own does to its waitpid.                   *)
WaitsOn(s, t) ==
  /\ t.waits = s.waits
  /\ t.call[Shell].op = "waitpid" => s.call[Shell].op = "waitpid"

LEMMA Fields ==
  ASSUME NEW s \in State
  PROVE  /\ \A i \in Slots : s.pipes[i] \in Pipes \cup {NULL}
         /\ \A i \in Slots : Open(s, i) => s.pipes[i] \in Pipes
         /\ \A p \in All : s.call[p] \in Calls
         /\ \A p \in All : s.fds[p].in \in Descriptors /\ s.fds[p].out \in Descriptors
BY DEF State, Open

(* The calls by their kinds.                                               *)
LEMMA CallKinds ==
  ASSUME NEW c \in Calls
  PROVE  /\ c.op \in {"none", "waitpid", "write", "read", "read_first", "close"}
         /\ c.op \in {"none", "waitpid"} => c.slot = Tty
         /\ c.op \notin {"none", "waitpid"} => c.slot \in Slots /\ c.live \in BOOLEAN
         /\ c.op = "none" => c = NoCall
         /\ c.op = "write" => c.data \in Seq(Int) /\ c.data # << >>
         /\ c.op \in {"read", "read_first"} => c.left \in Nat \ {0}
         /\ c.op = "close" => c.victim \in Procs /\ c.fd \in {"in", "out"}
         /\ c.op # "none" => c # NoCall
BY DEF Calls, NoCall

LEMMA Pids ==
  /\ Shell \notin Procs /\ NoProc \notin Procs /\ NoProc # Shell
  /\ Procs \subseteq All /\ Shell \in All /\ NoProc \notin All
BY ProcsAssumption DEF All

LEMMA NotFile == Tty \notin Slots /\ NULL \notin Pipes
BY PointerAssumption

ShellOK ==
  /\ sh \in [at : {"prompt", "first", "second", "wait_one", "wait_two"}, bg : BOOLEAN,
             slot : Descriptors, one : Procs \cup {NoProc}, two : Procs \cup {NoProc}]
  /\ sh.at \in {"first", "second"} => sh.slot \in Slots
  /\ sh.at \in {"second", "wait_one"} => sh.one \in Procs
  /\ sh.at \in {"wait_one", "wait_two"} => sh.two \in Procs
  /\ m.call[Shell].op = "waitpid" => sh.at \in {"wait_one", "wait_two"} /\ m.waits = Awaited

PipeInv == Good(m, NoProc) /\ ShellOK

-----------------------------------------------------------------------------
(* What a step does to the calls that it is not about.                     *)
KeptIn(s, t, r) ==
  LET c == s.call[r]
      i == c.slot
  IN  /\ c.op \in {"write", "close"} /\ c.live /\ Open(s, i) =>
           Open(t, i) /\ t.pipes[i].in = s.pipes[i].in
      /\ c.op \in {"read", "read_first"} /\ Open(s, i) =>
           Open(t, i) /\ t.pipes[i].out = s.pipes[i].out
      /\ t.status[r] = "blocked" /\ i \in Slots /\ Open(s, i) =>
           /\ s.pipes[i].blocking => t.pipes[i].blocking
           /\ s.pipes[i].size = PipeSize => t.pipes[i].size = PipeSize
           /\ NothingToRead(s.pipes[i]) => NothingToRead(t.pipes[i])

Kept(s, t, r) ==
  /\ t.call[r] = s.call[r]
  /\ \/ t.status[r] = s.status[r]
     \/ r \in Procs /\ s.status[r] = "blocked" /\ t.status[r] = "ready"
  /\ \A v \in Procs : Closes(s, r, v) => t.status[v] = "zombie" /\ v \notin t.linked
  /\ s.call[r].op = "waitpid" => t.waits = s.waits /\ s.linked \subseteq t.linked
  /\ KeptIn(s, t, r)

LEMMA GoodBut ==
  ASSUME NEW s, NEW q, Good(s, NoProc)
  PROVE  Good(s, q)
BY Pids DEF Good

LEMMA KeptOK ==
  ASSUME NEW s \in State, NEW t \in State, NEW r \in All, CallOK(s, r), Kept(s, t, r)
  PROVE  CallOK(t, r)
<1> DEFINE c == s.call[r]
<1>1. c \in Calls /\ t.call[r] = c
  BY Fields DEF Kept
<1>2. \/ t.status[r] = s.status[r]
      \/ r \in Procs /\ s.status[r] = "blocked" /\ t.status[r] = "ready"
  BY DEF Kept
<1>3. InUserOK(t, r)
  BY <1>1, <1>2 DEF CallOK, InUserOK
<1>4. WaitOK(t, r)
  BY <1>1, <1>2, Pids DEF CallOK, WaitOK, Kept
<1>5. WriteOK(t, r)
  <2> SUFFICES ASSUME c.op = "write" PROVE WriteOK(t, r)
    BY <1>1 DEF WriteOK
  <2>1. c.slot \in Slots
    BY <1>1, CallKinds
  <2> QED BY <1>1, <1>2, <2>1 DEF CallOK, WriteOK, Kept, KeptIn
<1>6. ReadOK(t, r)
  <2> SUFFICES ASSUME c.op \in {"read", "read_first"} PROVE ReadOK(t, r)
    BY <1>1 DEF ReadOK
  <2>1. c.slot \in Slots
    BY <1>1, CallKinds
  <2> QED BY <1>1, <1>2, <2>1 DEF CallOK, ReadOK, Kept, KeptIn
<1>7. CloseOK(t, r)
  <2> SUFFICES ASSUME c.op = "close" PROVE CloseOK(t, r)
    BY <1>1 DEF CloseOK
  <2>1. c.victim \in Procs /\ Closes(s, r, c.victim)
    BY <1>1, CallKinds DEF Closes
  <2> QED BY <1>1, <1>2, <2>1 DEF CallOK, CloseOK, Kept, KeptIn
<1> QED BY <1>3, <1>4, <1>5, <1>6, <1>7 DEF CallOK

(* A step of q that keeps everyone else.                                   *)
LEMMA OthersKept ==
  ASSUME NEW s, NEW t \in State, NEW q, Good(s, q) \/ Good(s, NoProc),
         \A r \in All \ {q} : Kept(s, t, r),
         \A v \in t.linked : t.status[v] = "zombie",
         t.status[Shell] \in {"ready", "blocked"}
  PROVE  Good(t, q)
<1>1. s \in State /\ \A r \in All \ {q} : CallOK(s, r)
  BY Pids DEF Good
<1>2. \A r \in All \ {q} : CallOK(t, r)
  BY <1>1, KeptOK
<1>3. \A r \in All \ {q} : \A v : Closes(t, r, v) <=> Closes(s, r, v)
  BY DEF Kept, Closes
<1> QED BY <1>2, <1>3, Pids DEF Good

(* q's own call, when it is right again.                                   *)
LEMMA ItsOwn ==
  ASSUME NEW t, NEW q \in All, Good(t, q), CallOK(t, q), t.call[q].op # "close"
  PROVE  Good(t, NoProc)
<1>1. \A p \in All : CallOK(t, p)
  BY DEF Good
<1>2. ASSUME NEW p1 \in All, NEW p2 \in All, NEW v \in Procs,
             Closes(t, p1, v), Closes(t, p2, v)
      PROVE  p1 = p2
  BY <1>2 DEF Closes, Good
<1> QED BY <1>1, <1>2 DEF Good

-----------------------------------------------------------------------------
(* The wake-up of the other end.                                           *)
SamePipe(a, b) ==
  /\ a \in Pipes /\ b \in Pipes
  /\ a.buffer = b.buffer /\ a.start = b.start /\ a.size = b.size
  /\ a.in = b.in /\ a.out = b.out

(* No field but those of the pipes and the statuses.                       *)
SameCalls(s, t) ==
  /\ t.fds = s.fds /\ t.waits = s.waits /\ t.linked = s.linked /\ t.call = s.call
  /\ t.cursor = s.cursor /\ t.sent = s.sent /\ t.ended = s.ended /\ t.taken = s.taken

LEMMA WakeDoes ==
  ASSUME NEW s \in State, NEW p \in Procs \cup {NoProc}
  PROVE  LET t == Wake(s, p)
         IN  /\ t \in State /\ SameCalls(s, t) /\ t.pipes = s.pipes
             /\ \A r \in All : t.status[r] = IF r = p /\ s.status[r] = "blocked"
                                               THEN "ready" ELSE s.status[r]
<1>1. CASE p # NoProc /\ s.status[p] = "blocked"
  <2>1. p \in All
    BY <1>1, Pids
  <2>2. Wake(s, p) = [s EXCEPT !.status[p] = "ready"]
    BY <1>1 DEF Wake
  <2> DEFINE st == [s.status EXCEPT ![p] = "ready"]
  <2>3. /\ st \in [All -> {"free", "ready", "blocked", "zombie"}] /\ st[p] = "ready"
        /\ \A r \in All \ {p} : st[r] = s.status[r]
    BY <2>1 DEF State
  <2>4. Wake(s, p) = [s EXCEPT !.status = st]
    BY <2>2
  <2> HIDE DEF st
  <2> QED BY <1>1, <2>3, <2>4 DEF State, SameCalls
<1>2. CASE ~ (p # NoProc /\ s.status[p] = "blocked")
  BY <1>2, Pids DEF Wake, SameCalls
<1> QED BY <1>1, <1>2

LEMMA WakeOtherDoes ==
  ASSUME NEW s \in State, NEW i \in Slots, Open(s, i), NEW p \in Procs \cup {NoProc}
  PROVE  LET t == WakeOther(s, i, p)
         IN  /\ t \in State /\ SameCalls(s, t)
             /\ \A j \in Slots \ {i} : t.pipes[j] = s.pipes[j]
             /\ SamePipe(t.pipes[i], s.pipes[i]) /\ ~ t.pipes[i].blocking
             /\ \A r \in All : t.status[r] =
                  IF s.pipes[i].blocking /\ r = p /\ s.status[r] = "blocked"
                    THEN "ready" ELSE s.status[r]
<1>1. s.pipes[i] \in Pipes
  BY Fields
<1>2. CASE s.pipes[i].blocking
  <2> DEFINE u == [s EXCEPT !.pipes[i].blocking = FALSE]
  <2>1. /\ u \in State /\ SameCalls(s, u) /\ u.status = s.status
        /\ \A j \in Slots \ {i} : u.pipes[j] = s.pipes[j]
        /\ SamePipe(u.pipes[i], s.pipes[i]) /\ ~ u.pipes[i].blocking
    BY <1>1 DEF State, SameCalls, SamePipe, Pipes
  <2>2. WakeOther(s, i, p) = Wake(u, p)
    BY <1>2 DEF WakeOther
  <2> HIDE DEF u
  <2> QED BY <1>2, <2>1, <2>2, WakeDoes DEF SameCalls
<1>3. CASE ~ s.pipes[i].blocking
  BY <1>1, <1>3 DEF WakeOther, SameCalls, SamePipe
<1> QED BY <1>2, <1>3

-----------------------------------------------------------------------------
(* The end of a call, and the sleep in one.                                *)
LEMMA ReturnKeeps ==
  ASSUME NEW s, NEW p \in All, Good(s, p), s.status[p] # "blocked"
  PROVE  Good(Return(s, p), NoProc) /\ WaitsOn(s, Return(s, p))
<1> DEFINE t == Return(s, p)
<1>1. s \in State /\ NoCall \in Calls
  BY DEF Good, Calls
<1>2. /\ t \in State /\ t.call[p] = NoCall /\ t.pipes = s.pipes /\ t.status = s.status
      /\ t.linked = s.linked /\ t.waits = s.waits
      /\ \A r \in All \ {p} : t.call[r] = s.call[r]
  BY <1>1 DEF State, Return
<1> HIDE DEF t
<1>3. \A r \in All \ {p} : Kept(s, t, r)
  <2> SUFFICES ASSUME NEW r \in All \ {p} PROVE Kept(s, t, r)
    OBVIOUS
  <2>1. CallOK(s, r)
    BY DEF Good
  <2> QED BY <1>2, <2>1 DEF Kept, KeptIn, CallOK, CloseOK, Closes, Open
<1>4. Good(t, p)
  BY <1>2, <1>3, OthersKept DEF Good
<1>5. CallOK(t, p)
  BY <1>2 DEF CallOK, InUserOK, WaitOK, WriteOK, ReadOK, CloseOK, NoCall
<1>6. Good(t, NoProc)
  BY <1>2, <1>4, <1>5, ItsOwn DEF NoCall
<1>7. WaitsOn(s, t)
  BY <1>2, Pids DEF WaitsOn, NoCall
<1> QED BY <1>6, <1>7 DEF t

SleepsRight(s, p, i, c) ==
  \/ c.op = "write" /\ s.pipes[i].in = p /\ s.pipes[i].size = PipeSize
  \/ c.op \in {"read", "read_first"} /\ s.pipes[i].out = p /\ NothingToRead(s.pipes[i])

LEMMA SleepKeeps ==
  ASSUME NEW s, NEW p \in Procs, NEW i \in Slots, NEW c \in Calls,
         Good(s, p), s.status[p] = "ready", Open(s, i),
         c.slot = i, c.live, SleepsRight(s, p, i, c)
  PROVE  Good(Sleep(s, p, i, c), NoProc) /\ WaitsOn(s, Sleep(s, p, i, c))
<1> DEFINE t == Sleep(s, p, i, c)
<1>1. s \in State /\ s.pipes[i] \in Pipes /\ p \in All /\ p # Shell
  BY Fields, Pids DEF Good
<1>2. /\ t \in State /\ t.call[p] = c /\ t.status[p] = "blocked"
      /\ t.linked = s.linked /\ t.waits = s.waits
      /\ \A r \in All \ {p} : t.call[r] = s.call[r] /\ t.status[r] = s.status[r]
      /\ \A j \in Slots \ {i} : t.pipes[j] = s.pipes[j]
      /\ SamePipe(t.pipes[i], s.pipes[i]) /\ t.pipes[i].blocking
  <2> DEFINE u == [s EXCEPT !.pipes[i].blocking = TRUE]
             v == [u EXCEPT !.status[p] = "blocked"]
  <2>1. /\ u \in State /\ SameCalls(s, u) /\ u.status = s.status
        /\ \A j \in Slots \ {i} : u.pipes[j] = s.pipes[j]
        /\ SamePipe(u.pipes[i], s.pipes[i]) /\ u.pipes[i].blocking
    BY <1>1 DEF State, SameCalls, SamePipe, Pipes
  <2>2. t = [v EXCEPT !.call[p] = c]
    BY <2>1 DEF Sleep, Block
  <2> HIDE DEF u, t
  <2>3. /\ v \in State /\ SameCalls(u, v) /\ v.pipes = u.pipes /\ v.status[p] = "blocked"
        /\ \A r \in All \ {p} : v.status[r] = u.status[r]
    BY <1>1, <2>1 DEF State, SameCalls
  <2> HIDE DEF v
  <2>4. /\ t \in State /\ t.call[p] = c /\ t.pipes = v.pipes /\ t.status = v.status
        /\ t.linked = v.linked /\ t.waits = v.waits
        /\ \A r \in All \ {p} : t.call[r] = v.call[r]
    BY <1>1, <2>2, <2>3 DEF State
  <2> QED BY <2>1, <2>3, <2>4 DEF SameCalls
<1> HIDE DEF t
<1>3. Open(t, i) /\ (NothingToRead(s.pipes[i]) <=> NothingToRead(t.pipes[i]))
  BY <1>2, NotFile DEF Open, SamePipe, NothingToRead, Ended, Place
<1>4. \A r \in All \ {p} : Kept(s, t, r)
  <2> SUFFICES ASSUME NEW r \in All \ {p} PROVE Kept(s, t, r)
    OBVIOUS
  <2>1. CallOK(s, r)
    BY DEF Good
  <2>2. KeptIn(s, t, r)
    BY <1>1, <1>2, <1>3, Fields, CallKinds DEF KeptIn, Open, SamePipe
  <2>3. \A v \in Procs : Closes(s, r, v) => v # p /\ t.status[v] = "zombie" /\ v \notin t.linked
    BY <1>2, <2>1, Pids DEF CallOK, CloseOK, Closes
  <2>4. s.linked \subseteq t.linked /\ t.waits = s.waits
        /\ t.call[r] = s.call[r] /\ t.status[r] = s.status[r]
    BY <1>2
  <2>5. \A v \in Procs : Closes(s, r, v) => t.status[v] = "zombie" /\ v \notin t.linked
    BY <2>3
  <2> QED BY <2>2, <2>4, <2>5 DEF Kept
<1>5. Good(t, p)
  <2>1. \A v \in t.linked : t.status[v] = "zombie"
    <3>1. \A v \in s.linked : v \in All /\ v # p /\ s.status[v] = "zombie"
      BY <1>1, Pids DEF Good, State
    <3> QED BY <1>2, <3>1
  <2>2. t.status[Shell] \in {"ready", "blocked"}
    BY <1>1, <1>2, Pids DEF Good
  <2> QED BY <1>2, <1>4, <2>1, <2>2, OthersKept
<1>6. CallOK(t, p)
  BY <1>2, <1>3 DEF SleepsRight, SamePipe,
                    CallOK, InUserOK, WaitOK, WriteOK, ReadOK, CloseOK
<1>7. Good(t, NoProc)
  BY <1>1, <1>2, <1>5, <1>6, ItsOwn DEF SleepsRight
<1>8. WaitsOn(s, t)
  BY <1>1, <1>2, Pids DEF WaitsOn
<1> QED BY <1>7, <1>8 DEF t

-----------------------------------------------------------------------------
(* s1 is s with another pipe in slot i, which the sleepers in it can stand *)
(* when x is woken.                                                        *)
Changed(s, s1, i) ==
  /\ s1 \in State /\ s1.linked = s.linked /\ s1.waits = s.waits
  /\ s1.call = s.call /\ s1.status = s.status
  /\ \A j \in Slots \ {i} : s1.pipes[j] = s.pipes[j]
  /\ s1.pipes[i] \in Pipes /\ s1.pipes[i].blocking = s.pipes[i].blocking

Stands(s, s1, i, x, r) ==
  s.call[r].slot = i =>
    /\ s.call[r].op \in {"write", "close"} /\ s.call[r].live =>
         s1.pipes[i].in = s.pipes[i].in
    /\ s.call[r].op \in {"read", "read_first"} => s1.pipes[i].out = s.pipes[i].out
    /\ s.status[r] = "blocked" => r = x /\ s.pipes[i].blocking

LEMMA WakeKeeps ==
  ASSUME NEW s, NEW s1, NEW i \in Slots, NEW x \in Procs \cup {NoProc}, NEW q,
         Good(s, q), Open(s, i), Changed(s, s1, i),
         \A r \in All \ {q} : Stands(s, s1, i, x, r)
  PROVE  LET t == WakeOther(s1, i, x)
         IN  /\ Good(t, q) /\ Open(t, i) /\ SamePipe(t.pipes[i], s1.pipes[i])
             /\ ~ t.pipes[i].blocking /\ t.call = s.call /\ t.linked = s.linked /\ t.waits = s.waits
             /\ \A r \in All : s.status[r] # "blocked" => t.status[r] = s.status[r]
             /\ t.fds = s1.fds
<1> DEFINE t == WakeOther(s1, i, x)
<1>1. s \in State /\ s1 \in State /\ Open(s1, i)
  BY NotFile DEF Good, Changed, Open
<1>2. /\ t \in State /\ SameCalls(s1, t)
      /\ \A j \in Slots \ {i} : t.pipes[j] = s1.pipes[j]
      /\ SamePipe(t.pipes[i], s1.pipes[i]) /\ ~ t.pipes[i].blocking
      /\ \A r \in All : t.status[r] =
           IF s1.pipes[i].blocking /\ r = x /\ s1.status[r] = "blocked"
             THEN "ready" ELSE s1.status[r]
  BY <1>1, WakeOtherDoes
<1> HIDE DEF t
<1>3. /\ t.linked = s.linked /\ t.waits = s.waits /\ t.call = s.call /\ t.fds = s1.fds
      /\ \A j \in Slots \ {i} : t.pipes[j] = s.pipes[j]
      /\ t.pipes[i] \in Pipes
      /\ t.pipes[i].in = s1.pipes[i].in /\ t.pipes[i].out = s1.pipes[i].out
      /\ \A r \in All : t.status[r] =
           IF s.pipes[i].blocking /\ r = x /\ s.status[r] = "blocked"
             THEN "ready" ELSE s.status[r]
  BY <1>1, <1>2 DEF SameCalls, Changed, SamePipe
<1>4. Open(t, i)
  BY <1>3, NotFile DEF Open
<1>5. \A r \in All \ {q} : Kept(s, t, r)
  <2> SUFFICES ASSUME NEW r \in All \ {q} PROVE Kept(s, t, r)
    OBVIOUS
  <2>1. CallOK(s, r) /\ s.call[r] \in Calls
    BY <1>1, Fields DEF Good
  <2>2. t.call[r] = s.call[r] /\ s.linked \subseteq t.linked /\ t.waits = s.waits
    BY <1>3
  <2>3. \/ t.status[r] = s.status[r]
        \/ r \in Procs /\ s.status[r] = "blocked" /\ t.status[r] = "ready"
    BY <1>1, <1>3, Pids
  <2>4. \A v \in Procs : Closes(s, r, v) => t.status[v] = "zombie" /\ v \notin t.linked
    <3>1. \A v \in Procs : v \in All
      BY Pids
    <3> QED BY <1>3, <2>1, <3>1 DEF CallOK, CloseOK, Closes
  <2>5. KeptIn(s, t, r)
    <3>1. Stands(s, s1, i, x, r)
      OBVIOUS
    <3>2. t.status[r] = "blocked" => s.call[r].slot # i
      BY <1>3, <3>1 DEF Stands
    <3>3. s.call[r].op \in {"write", "close", "read", "read_first"} => s.call[r].slot \in Slots
      BY <2>1, CallKinds
    <3> QED BY <1>3, <1>4, <3>1, <3>2, <3>3 DEF KeptIn, Open, Stands
  <2> QED BY <2>2, <2>3, <2>4, <2>5 DEF Kept
<1>6. Good(t, q)
  <2>1. \A v \in t.linked : t.status[v] = "zombie"
    <3>1. \A v \in s.linked : v \in All /\ s.status[v] = "zombie"
      BY <1>1, Pids DEF Good, State
    <3> QED BY <1>3, <3>1
  <2>2. t.status[Shell] \in {"ready", "blocked"}
    BY <1>3, Pids DEF Good
  <2> QED BY <1>2, <1>5, <2>1, <2>2, OthersKept
<1> QED BY <1>2, <1>3, <1>4, <1>6 DEF t

(* Who sleeps in a pipe is one of its ends.                                *)
LEMMA SleepsAtEnd ==
  ASSUME NEW s, NEW q, NEW r \in All \ {q}, NEW i \in Slots, Good(s, q),
         s.status[r] = "blocked", s.call[r].slot = i
  PROVE  /\ Open(s, i) /\ s.pipes[i].blocking /\ r \in Procs
         /\ \/ s.call[r].op = "write" /\ s.pipes[i].in = r
            \/ s.call[r].op \in {"read", "read_first"} /\ s.pipes[i].out = r
<1>1. CallOK(s, r) /\ s.call[r] \in Calls
  BY Fields DEF Good
<1>2. s.call[r].op \in {"write", "read", "read_first"}
  BY <1>1, CallKinds, NotFile DEF CallOK, InUserOK, WaitOK, CloseOK, Good, State
<1> QED BY <1>1, <1>2 DEF CallOK, WriteOK, ReadOK

(* A transfer: p moves bytes in the pipe i and wakes the other end.        *)
Moved(a, b) ==
  a \in Pipes /\ b \in Pipes /\ b.in = a.in /\ b.out = a.out /\ b.blocking = a.blocking

LEMMA TransferKeeps ==
  ASSUME NEW s, NEW s1, NEW p \in Procs, NEW i \in Slots, Good(s, NoProc),
         s.status[p] = "ready", Open(s, i),
         Changed(s, s1, i), Moved(s.pipes[i], s1.pipes[i]),
         NEW x \in Procs \cup {NoProc},
         \/ s.pipes[i].in = p /\ s.pipes[i].out = x
         \/ s.pipes[i].out = p /\ s.pipes[i].in = x
  PROVE  LET t == WakeOther(s1, i, x)
         IN  /\ Good(t, p) /\ WaitsOn(s, t) /\ Open(t, i)
             /\ t.status[p] = "ready" /\ SamePipe(t.pipes[i], s1.pipes[i])
<1>1. Good(s, p) /\ p \in All
  BY GoodBut, Pids
<1>2. \A r \in All \ {p} : Stands(s, s1, i, x, r)
  <2> SUFFICES ASSUME NEW r \in All \ {p} PROVE Stands(s, s1, i, x, r)
    OBVIOUS
  <2>1. s.status[r] = "blocked" /\ s.call[r].slot = i => r = x /\ s.pipes[i].blocking
    BY <1>1, SleepsAtEnd
  <2> QED BY <2>1 DEF Stands, Moved
<1> DEFINE t == WakeOther(s1, i, x)
<1>3. /\ Good(t, p) /\ Open(t, i) /\ SamePipe(t.pipes[i], s1.pipes[i])
      /\ t.call = s.call /\ t.waits = s.waits
      /\ \A r \in All : s.status[r] # "blocked" => t.status[r] = s.status[r]
  BY <1>1, <1>2, WakeKeeps
<1> HIDE DEF t
<1> QED BY <1>1, <1>3 DEF WaitsOn, t

LEMMA Least ==
  ASSUME NEW a \in Nat, NEW b \in Nat
  PROVE  Lesser(a, b) \in Nat /\ Lesser(a, b) <= a /\ Lesser(a, b) <= b
         /\ (Lesser(a, b) = a \/ Lesser(a, b) = b)
BY DEF Lesser

LEMMA NoBytes ==
  ASSUME NEW q \in Seq(Int)
  PROVE  q = << >> <=> Len(q) = 0
<1>1. ASSUME Len(q) = 0 PROVE q = << >>
  BY <1>1
<1>2. Len(<< >>) = 0
  OBVIOUS
<1> QED BY <1>1, <1>2

LEMMA Cut ==
  ASSUME NEW data \in Seq(Int), NEW n \in 0 .. Len(data)
  PROVE  /\ SubSeq(data, 1, n) \in Seq(Int) /\ Len(SubSeq(data, 1, n)) = n
         /\ SubSeq(data, n + 1, Len(data)) \in Seq(Int)
         /\ SubSeq(data, n + 1, Len(data)) = << >> <=> n = Len(data)
<1>1. SubSeq(data, 1, n) \in Seq(Int) /\ Len(SubSeq(data, 1, n)) = n
  OBVIOUS
<1>2. /\ SubSeq(data, n + 1, Len(data)) \in Seq(Int) /\ Len(data) \in Nat
      /\ Len(SubSeq(data, n + 1, Len(data))) = Len(data) - n
  OBVIOUS
<1> DEFINE rest == SubSeq(data, n + 1, Len(data))
<1> HIDE DEF rest
<1>3. rest = << >> <=> Len(rest) = 0
  BY <1>2, NoBytes DEF rest
<1>4. Len(data) - n = 0 <=> n = Len(data)
  BY <1>2
<1>5. rest = << >> <=> n = Len(data)
  BY <1>2, <1>3, <1>4 DEF rest
<1> QED BY <1>1, <1>2, <1>5 DEF rest

LEMMA WriteOnKeeps ==
  ASSUME NEW s, NEW p \in Procs, NEW i \in Slots, NEW data \in Seq(Int), data # << >>,
         Good(s, NoProc), s.status[p] = "ready", Open(s, i), s.pipes[i].in = p
  PROVE  LET t == WriteOn(s, p, i, data) IN Good(t, NoProc) /\ WaitsOn(s, t)
<1> DEFINE pipe == s.pipes[i]
           n    == Lesser(PipeSize - pipe.size, Len(data))
           new  == Filled(pipe, SubSeq(data, 1, n))
           s1   == [s EXCEPT !.pipes[i] = new]
           s2   == WakeOther(s1, i, pipe.out)
           rest == SubSeq(data, n + 1, Len(data))
<1>1. s \in State /\ pipe \in Pipes /\ p \in All
  BY Fields, Pids DEF Good
<1>2. pipe.size \in 0 .. PipeSize /\ Len(data) \in Nat
  BY <1>1 DEF Pipes
<1>3. /\ n \in Nat /\ n <= PipeSize - pipe.size /\ n <= Len(data)
      /\ (n = PipeSize - pipe.size \/ n = Len(data))
  <2> HIDE DEF pipe
  <2>1. PipeSize - pipe.size \in Nat
    BY <1>2, Sizes
  <2> QED BY <1>2, <2>1, Least
<1>4. WriteOn(s, p, i, data) =
        IF rest = << >> THEN Return(s2, p) ELSE Sleep(s2, p, i, Writing(i, rest))
  BY DEF WriteOn
<1> HIDE DEF n
<1>5. /\ SubSeq(data, 1, n) \in Seq(Int) /\ Len(SubSeq(data, 1, n)) = n
      /\ rest \in Seq(Int) /\ (rest = << >> <=> n = Len(data))
  BY <1>2, <1>3, Cut
<1> HIDE DEF pipe, rest
<1>6. /\ new \in Pipes /\ new.size = pipe.size + n /\ Moved(pipe, new)
  <2>1. pipe.size + n <= PipeSize
    BY <1>2, <1>3, Sizes
  <2> QED BY <1>1, <1>5, <2>1, FilledPipe DEF Moved
<1> HIDE DEF new
<1>7. Changed(s, s1, i) /\ s1.pipes[i] = new
  BY <1>1, <1>6 DEF Changed, Moved, State, pipe
<1> HIDE DEF s1
<1>8. /\ Good(s2, p) /\ WaitsOn(s, s2) /\ Open(s2, i)
      /\ s2.status[p] = "ready" /\ SamePipe(s2.pipes[i], s1.pipes[i])
  <2>1. pipe.in = p /\ pipe.out \in Procs \cup {NoProc}
    BY <1>1 DEF Pipes, pipe
  <2> QED BY <1>6, <1>7, <2>1, TransferKeeps DEF pipe
<1> HIDE DEF s2
<1>9. CASE rest = << >>
  BY <1>1, <1>4, <1>8, <1>9, ReturnKeeps DEF WaitsOn
<1>10. CASE rest # << >>
  <2> DEFINE c == Writing(i, rest)
  <2>1. c \in Calls /\ c.op = "write" /\ c.slot = i /\ c.live
    BY <1>5, <1>10 DEF Writing, Calls
  <2>2. s2.pipes[i].size = PipeSize
    BY <1>2, <1>3, <1>5, <1>6, <1>7, <1>8, <1>10, Sizes DEF SamePipe
  <2> HIDE DEF c
  <2>3. SleepsRight(s2, p, i, c)
    BY <1>6, <1>7, <1>8, <2>1, <2>2 DEF SleepsRight, SamePipe, Moved, pipe
  <2>4. Good(Sleep(s2, p, i, c), NoProc) /\ WaitsOn(s2, Sleep(s2, p, i, c))
    BY <1>8, <2>1, <2>3, SleepKeeps
  <2> QED BY <1>4, <1>8, <1>10, <2>4 DEF WaitsOn, c
<1> QED BY <1>9, <1>10

LEMMA ReadOnKeeps ==
  ASSUME NEW s, NEW p \in Procs, NEW i \in Slots, NEW left \in Nat \ {0},
         Good(s, NoProc), s.status[p] = "ready", Open(s, i), s.pipes[i].out = p
  PROVE  LET t == ReadOn(s, p, i, left) IN Good(t, NoProc) /\ WaitsOn(s, t)
<1> DEFINE pipe == s.pipes[i]
           n    == Lesser(pipe.size, left)
           new  == Drained(pipe, n)
           got  == s.taken[i] \o SubSeq(Content(pipe), 1, n)
           e    == n < left /\ Ended(pipe)
           s1   == [s EXCEPT !.pipes[i] = new, !.taken[i] = got, !.ended[p] = e]
           s2   == WakeOther(s1, i, pipe.in)
<1>1. s \in State /\ pipe \in Pipes /\ p \in All
  BY Fields, Pids DEF Good
<1>2. pipe.size \in 0 .. PipeSize
  BY <1>1 DEF Pipes
<1>3. n \in Nat /\ n <= pipe.size /\ n <= left /\ (n = pipe.size \/ n = left)
  <2> HIDE DEF pipe
  <2>1. pipe.size \in Nat
    BY <1>2, Sizes
  <2> QED BY <2>1, Least
<1>4. got \in Seq(Int)
  <2>1. Content(pipe) \in Seq(Int) /\ Len(Content(pipe)) = pipe.size
    <3>1. \A x \in 1 .. pipe.size : pipe.buffer[Place(pipe, x - 1)] \in Int
      <4> HIDE DEF pipe
      <4>1. \A x \in 1 .. pipe.size : x - 1 \in Nat
        BY <1>2, Sizes
      <4>2. \A x \in 1 .. pipe.size : Place(pipe, x - 1) \in 0 .. PipeSize - 1
        BY <1>1, <4>1, PlaceIn
      <4> QED BY <1>1, <4>2 DEF Pipes
    <3> QED BY <1>2, <3>1, Sizes DEF Content
  <2>2. s.taken[i] \in Seq(Int)
    BY <1>1 DEF State
  <2> HIDE DEF pipe, n
  <2>3. SubSeq(Content(pipe), 1, n) \in Seq(Int)
    BY <1>3, <2>1, Cut
  <2> QED BY <2>2, <2>3
<1>5. /\ new \in Pipes /\ new.size = pipe.size - n /\ Moved(pipe, new)
      /\ n = pipe.size => (Ended(new) <=> Ended(pipe))
  BY <1>1, <1>2, <1>3, DrainedPipe DEF Moved
<1>6. e \in BOOLEAN
  BY DEF Ended
<1>7. s1.ended[p] <=> e
  BY <1>1 DEF State
<1>8. ReadOn(s, p, i, left) =
        IF n = left \/ s1.ended[p] THEN Return(s2, p)
        ELSE Sleep(s2, p, i, Reading("read", i, left - n))
  BY DEF ReadOn
<1> HIDE DEF n, new, got, pipe
<1>9. ~ e /\ n # left => ~ Ended(pipe)
  BY <1>3
<1> HIDE DEF e
<1>10. Changed(s, s1, i) /\ s1.pipes[i] = new
  BY <1>1, <1>4, <1>5, <1>6 DEF Changed, Moved, State, pipe
<1> HIDE DEF s1
<1>11. /\ Good(s2, p) /\ WaitsOn(s, s2) /\ Open(s2, i)
       /\ s2.status[p] = "ready" /\ SamePipe(s2.pipes[i], s1.pipes[i])
  <2>1. pipe.out = p /\ pipe.in \in Procs \cup {NoProc}
    BY <1>1 DEF Pipes, pipe
  <2> QED BY <1>5, <1>10, <2>1, TransferKeeps DEF pipe
<1> HIDE DEF s2
<1>12. CASE n = left \/ e
  BY <1>1, <1>7, <1>8, <1>11, <1>12, ReturnKeeps DEF WaitsOn
<1>13. CASE ~ (n = left \/ e)
  <2> DEFINE c == Reading("read", i, left - n)
  <2>1. c \in Calls /\ c.op = "read" /\ c.slot = i /\ c.live
    <3>1. left - n \in Nat \ {0}
      BY <1>3, <1>13
    <3> QED BY <3>1 DEF Reading, Calls
  <2>2. NothingToRead(s2.pipes[i])
    <3>1. n = pipe.size /\ new.size = 0 /\ ~ Ended(new)
      BY <1>2, <1>3, <1>5, <1>9, <1>13, Sizes
    <3> QED BY <1>10, <1>11, <3>1 DEF SamePipe, NothingToRead, Ended, Place
  <2> HIDE DEF c
  <2>3. SleepsRight(s2, p, i, c)
    BY <1>5, <1>10, <1>11, <2>1, <2>2 DEF SleepsRight, SamePipe, Moved, pipe
  <2>4. Good(Sleep(s2, p, i, c), NoProc) /\ WaitsOn(s2, Sleep(s2, p, i, c))
    BY <1>11, <2>1, <2>3, SleepKeeps
  <2> QED BY <1>7, <1>8, <1>11, <1>13, <2>4 DEF WaitsOn, c
<1> QED BY <1>12, <1>13

(* The two ways into the loops.                                            *)
LEMMA ReadFirstKeeps ==
  ASSUME NEW s, NEW p \in Procs, NEW i \in Slots, NEW left \in Nat \ {0},
         Good(s, NoProc), s.status[p] = "ready", Open(s, i), s.pipes[i].out = p
  PROVE  LET t == ReadFirst(s, p, i, left) IN Good(t, NoProc) /\ WaitsOn(s, t)
<1>1. CASE NothingToRead(s.pipes[i])
  <2> DEFINE c == Reading(IF s.pipes[i].in = NoProc THEN "read_first" ELSE "read", i, left)
  <2>1. c \in Calls /\ c.op \in {"read", "read_first"} /\ c.slot = i /\ c.live
    BY DEF Reading, Calls
  <2>2. ReadFirst(s, p, i, left) = Sleep(s, p, i, c)
    BY <1>1 DEF ReadFirst
  <2> HIDE DEF c
  <2>3. SleepsRight(s, p, i, c)
    BY <1>1, <2>1 DEF SleepsRight
  <2>4. Good(s, p)
    BY GoodBut
  <2> QED BY <2>1, <2>2, <2>3, <2>4, SleepKeeps
<1>2. CASE ~ NothingToRead(s.pipes[i])
  BY <1>2, ReadOnKeeps DEF ReadFirst
<1> QED BY <1>1, <1>2

LEMMA ReadKeeps ==
  ASSUME NEW s, NEW p \in Procs, NEW i \in Slots, NEW len \in Nat \ {0},
         Good(s, NoProc), s.status[p] = "ready"
  PROVE  LET t == pipe_read(s, p, i, len) IN Good(t, NoProc) /\ WaitsOn(s, t)
BY ReadFirstKeeps DEF pipe_read, Open, WaitsOn

LEMMA WriteKeeps ==
  ASSUME NEW s, NEW p \in Procs, NEW i \in Slots, NEW data \in Seq(Int), data # << >>,
         Good(s, NoProc), s.status[p] = "ready"
  PROVE  LET t == pipe_write(s, p, i, data) IN Good(t, NoProc) /\ WaitsOn(s, t)
<1>1. CASE s.pipes[i] # NULL /\ s.pipes[i].in = p /\ ~ Ended(s.pipes[i])
  <2>1. CASE s.pipes[i].size = PipeSize
    <3> DEFINE c == Writing(i, data)
    <3>1. c \in Calls /\ c.op = "write" /\ c.slot = i /\ c.live
      BY DEF Writing, Calls
    <3>2. pipe_write(s, p, i, data) = Sleep(s, p, i, c)
      BY <1>1, <2>1 DEF pipe_write
    <3> HIDE DEF c
    <3>3. SleepsRight(s, p, i, c)
      BY <1>1, <2>1, <3>1 DEF SleepsRight
    <3>4. Good(s, p)
      BY GoodBut
    <3> QED BY <1>1, <3>1, <3>2, <3>3, <3>4, SleepKeeps DEF Open
  <2>2. CASE s.pipes[i].size # PipeSize
    BY <1>1, <2>2, WriteOnKeeps DEF pipe_write, Open
  <2> QED BY <2>1, <2>2
<1>2. CASE ~ (s.pipes[i] # NULL /\ s.pipes[i].in = p /\ ~ Ended(s.pipes[i]))
  BY <1>2 DEF pipe_write, WaitsOn
<1> QED BY <1>1, <1>2

(* The steps of a process in its own read or write.                        *)
LEMMA TransferSteps ==
  ASSUME Good(m, NoProc), NEW p \in Procs,
         \/ \E len \in 1 .. MaxLen : Read(p, len)
         \/ \E n \in 1 .. MaxLen : Write(p, n)
         \/ ResumeWrite(p) \/ ResumeReadFirst(p) \/ ResumeRead(p)
  PROVE  Good(m', NoProc) /\ WaitsOn(m, m')
<1> DEFINE c == m.call[p]
<1>1. m \in State /\ p \in All /\ c \in Calls /\ CallOK(m, p)
  BY Fields, Pids DEF Good
<1>2. ASSUME NEW len \in 1 .. MaxLen, Read(p, len) PROVE Good(m', NoProc) /\ WaitsOn(m, m')
  <2>1. m.fds[p].in \in Slots
    BY <1>1, <1>2, Fields DEF Read, Descriptors
  <2>2. len \in Nat \ {0} /\ m.status[p] = "ready"
    BY <1>2, Sizes DEF Read, InUser, Runs
  <2>3. m' = pipe_read(m, p, m.fds[p].in, len)
    BY <1>2 DEF Read, Step
  <2> QED BY <2>1, <2>2, <2>3, ReadKeeps
<1>3. ASSUME NEW n \in 1 .. MaxLen, Write(p, n) PROVE Good(m', NoProc) /\ WaitsOn(m, m')
  <2> DEFINE s    == [m EXCEPT !.sent[p] = @ + n]
             data == [x \in 1 .. n |-> m.sent[p] + x]
  <2>1. m.fds[p].out \in Slots
    BY <1>1, <1>3, Fields DEF Write, Descriptors
  <2>2. n \in Nat \ {0} /\ m.status[p] = "ready" /\ m.sent[p] \in Nat
    BY <1>1, <1>3, Sizes DEF Write, InUser, Runs, State
  <2>3. data \in Seq(Int) /\ Len(data) = n
    BY <2>2
  <2>4. data # << >>
    BY <2>2, <2>3
  <2>5. m' = pipe_write(s, p, m.fds[p].out, data)
    BY <1>3 DEF Write, Step
  <2>6. /\ s \in State /\ s.pipes = m.pipes /\ s.status = m.status /\ s.call = m.call
        /\ s.linked = m.linked /\ s.waits = m.waits
    <3> DEFINE sum == m.sent[p] + n
    <3>1. sum \in Nat /\ s = [m EXCEPT !.sent[p] = sum]
      BY <2>2
    <3> HIDE DEF sum, s
    <3> QED BY <1>1, <3>1 DEF State
  <2> HIDE DEF s, data
  <2>7. Good(s, NoProc) /\ WaitsOn(m, s)
    BY <2>6 DEF Good, CallOK, InUserOK, WaitOK, WriteOK, ReadOK, CloseOK, Closes, Open, WaitsOn
  <2> QED BY <2>1, <2>2, <2>3, <2>4, <2>5, <2>6, <2>7, WriteKeeps DEF WaitsOn
<1>4. CASE ResumeWrite(p)
  <2>1. c.op = "write" /\ m.status[p] = "ready"
    BY <1>4 DEF ResumeWrite, Runs
  <2>2. c.slot \in Slots /\ c.data \in Seq(Int) /\ c.data # << >>
    BY <1>1, <2>1, CallKinds
  <2>3. m' = IF c.live THEN WriteOn(m, p, c.slot, c.data) ELSE Return(m, p)
    BY <1>4 DEF ResumeWrite, Step
  <2>4. c.live => Open(m, c.slot) /\ m.pipes[c.slot].in = p
    BY <1>1, <2>1 DEF CallOK, WriteOK
  <2>5. Good(m, p)
    BY GoodBut
  <2> HIDE DEF c
  <2>6. CASE c.live
    BY <2>1, <2>2, <2>3, <2>4, <2>6, WriteOnKeeps
  <2>7. CASE ~ c.live
    BY <1>1, <2>1, <2>3, <2>5, <2>7, ReturnKeeps
  <2> QED BY <2>6, <2>7
<1>5. ASSUME c.op \in {"read", "read_first"}, m.status[p] = "ready"
      PROVE  /\ c.live /\ c.slot \in Slots /\ c.left \in Nat \ {0}
             /\ Open(m, c.slot) /\ m.pipes[c.slot].out = p
  BY <1>1, <1>5, CallKinds DEF CallOK, ReadOK
<1>6. CASE ResumeReadFirst(p)
  <2>1. c.op = "read_first" /\ m.status[p] = "ready"
    BY <1>6 DEF ResumeReadFirst, Runs
  <2>2. m' = ReadFirst(m, p, c.slot, c.left)
    BY <1>5, <1>6, <2>1 DEF ResumeReadFirst, Step
  <2> HIDE DEF c
  <2> QED BY <1>5, <2>1, <2>2, ReadFirstKeeps
<1>7. CASE ResumeRead(p)
  <2>1. c.op = "read" /\ m.status[p] = "ready"
    BY <1>7 DEF ResumeRead, Runs
  <2>2. m' = ReadOn(m, p, c.slot, c.left)
    BY <1>7 DEF ResumeRead, Step
  <2> HIDE DEF c
  <2> QED BY <1>5, <2>1, <2>2, ReadOnKeeps
<1> QED BY <1>2, <1>3, <1>4, <1>6, <1>7

-----------------------------------------------------------------------------
(* Opening.                                                                *)

(* Nothing that the invariant is about.                                    *)
LEMMA TheRest ==
  ASSUME NEW s, NEW t \in State, NEW q, Good(s, q),
         t.pipes = s.pipes, t.status = s.status, t.call = s.call,
         t.linked = s.linked, t.waits = s.waits
  PROVE  Good(t, q)
BY DEF Good, CallOK, InUserOK, WaitOK, WriteOK, ReadOK, CloseOK, Closes, Open

(* Somebody may have been woken.                                           *)
Mild(s, t) ==
  /\ t.call = s.call /\ t.linked = s.linked /\ t.waits = s.waits
  /\ \A r \in All : s.status[r] # "blocked" => t.status[r] = s.status[r]

LEMMA CreateKeeps ==
  ASSUME NEW s, NEW i \in Slots, NEW q, Good(s, q), s.pipes[i] = NULL
  PROVE  LET t == [s EXCEPT !.pipes[i] = create_pipe, !.taken[i] = << >>]
         IN  Good(t, q) /\ Open(t, i) /\ Mild(s, t) /\ t.fds = s.fds
<1> DEFINE t == [s EXCEPT !.pipes[i] = create_pipe, !.taken[i] = << >>]
<1>1. s \in State /\ << >> \in Seq(Int) /\ create_pipe \in Pipes /\ create_pipe # NULL
  BY EmptyPipe, NotFile DEF Good
<1>2. /\ t \in State /\ t.pipes[i] = create_pipe
      /\ \A j \in Slots \ {i} : t.pipes[j] = s.pipes[j]
      /\ t.status = s.status /\ t.call = s.call /\ t.linked = s.linked /\ t.waits = s.waits
      /\ t.fds = s.fds
  BY <1>1 DEF State
<1> HIDE DEF t
<1>3. \A r \in All \ {q} : Kept(s, t, r)
  <2> SUFFICES ASSUME NEW r \in All \ {q} PROVE Kept(s, t, r)
    OBVIOUS
  <2>1. CallOK(s, r) /\ s.call[r] \in Calls
    BY <1>1, Fields DEF Good
  <2>2. \A v \in Procs : Closes(s, r, v) => t.status[v] = "zombie" /\ v \notin t.linked
    BY <1>2, <2>1 DEF CallOK, CloseOK, Closes
  <2>3. KeptIn(s, t, r)
    <3>1. s.call[r].op \in {"write", "close", "read", "read_first"} => s.call[r].slot \in Slots
      BY <2>1, CallKinds
    <3>2. Open(s, s.call[r].slot) => s.call[r].slot # i
      BY DEF Open
    <3> QED BY <1>2, <3>1, <3>2 DEF KeptIn, Open
  <2> QED BY <1>2, <2>2, <2>3 DEF Kept
<1>4. Good(t, q)
  <2>1. (\A v \in t.linked : t.status[v] = "zombie") /\ t.status[Shell] \in {"ready", "blocked"}
    BY <1>2 DEF Good
  <2> QED BY <1>2, <1>3, <2>1, OthersKept
<1> QED BY <1>1, <1>2, <1>4 DEF Mild, Open, t

LEMMA ExistingKeeps ==
  ASSUME NEW s, NEW i \in Slots, Good(s, NoProc)
  PROVE  LET t == Existing(s, i)
         IN  Good(t, NoProc) /\ Open(t, i) /\ Mild(s, t) /\ t.fds = s.fds
<1>1. CASE s.pipes[i] = NULL
  BY <1>1, CreateKeeps DEF Existing
<1>2. CASE s.pipes[i] # NULL
  BY <1>2 DEF Existing, Open, Mild
<1> QED BY <1>1, <1>2

(* p is a new process: nobody waits for it in a pipe.                      *)
Fresh(s, p) == s.status[p] = "ready" /\ s.call[p].op = "none"

LEMMA OpenWriteKeeps ==
  ASSUME NEW s, NEW p \in Procs, NEW i \in Slots, Good(s, NoProc), Fresh(s, p)
  PROVE  LET t == open_write(s, p, i) IN Good(t, NoProc) /\ Mild(s, t)
<1> DEFINE s1 == Existing(s, i)
           s2 == [s1 EXCEPT !.pipes[i].in = p]
           x  == s1.pipes[i].out
<1>1. Good(s1, NoProc) /\ Open(s1, i) /\ Mild(s, s1) /\ p \in All /\ NoProc \notin All
  BY ExistingKeeps, Pids
<1>2. open_write(s, p, i) =
        IF s1.pipes[i].in \notin {NoProc, p} THEN s1 ELSE WakeOther(s2, i, x)
  BY DEF open_write
<1> HIDE DEF s1
<1>3. CASE s1.pipes[i].in \in {NoProc, p}
  <2>1. s1 \in State /\ s1.pipes[i] \in Pipes
    BY <1>1, Fields DEF Good
  <2>2. /\ Changed(s1, s2, i) /\ s2.pipes[i].out = s1.pipes[i].out
        /\ x \in Procs \cup {NoProc}
    BY <2>1 DEF Changed, State, Pipes
  <2> HIDE DEF s2, x
  <2>3. \A r \in All \ {NoProc} : Stands(s1, s2, i, x, r)
    <3> SUFFICES ASSUME NEW r \in All, s1.call[r].slot = i PROVE Stands(s1, s2, i, x, r)
      BY DEF Stands
    <3>1. CallOK(s1, r) /\ s1.call[r] \in Calls
      BY <1>1, <2>1, Fields DEF Good
    <3>2. s1.call[p].op = "none" /\ s1.status[p] = "ready"
      BY <1>1 DEF Fresh, Mild
    <3>3. ~ (s1.call[r].op = "write" /\ s1.call[r].live)
      BY <1>3, <3>1, <3>2, Pids DEF CallOK, WriteOK
    <3>4. ~ (s1.call[r].op = "close" /\ s1.call[r].live)
      BY <1>3, <3>1, <3>2, CallKinds, Pids DEF CallOK, CloseOK
    <3>5. s1.status[r] = "blocked" => r = x /\ s1.pipes[i].blocking
      BY <1>1, <3>1, <3>3, SleepsAtEnd DEF CallOK, WriteOK, x
    <3> QED BY <2>2, <3>3, <3>4, <3>5 DEF Stands
  <2> DEFINE t == WakeOther(s2, i, x)
  <2>4. /\ Good(t, NoProc) /\ t.call = s1.call /\ t.linked = s1.linked /\ t.waits = s1.waits
        /\ \A r \in All : s1.status[r] # "blocked" => t.status[r] = s1.status[r]
    BY <1>1, <2>2, <2>3, WakeKeeps
  <2> HIDE DEF t
  <2> QED BY <1>1, <1>2, <1>3, <2>4 DEF Mild, t
<1>4. CASE s1.pipes[i].in \notin {NoProc, p}
  BY <1>1, <1>2, <1>4
<1> QED BY <1>3, <1>4

LEMMA OpenReadKeeps ==
  ASSUME NEW s, NEW p \in Procs, NEW i \in Slots, Good(s, NoProc), Fresh(s, p)
  PROVE  LET t == open_read(s, p, i) IN Good(t, NoProc) /\ Mild(s, t)
<1> DEFINE s1 == Existing(s, i)
           s2 == [s1 EXCEPT !.pipes[i].out = p]
           x  == s1.pipes[i].in
<1>1. Good(s1, NoProc) /\ Open(s1, i) /\ Mild(s, s1) /\ p \in All /\ NoProc \notin All
  BY ExistingKeeps, Pids
<1>2. open_read(s, p, i) =
        IF s1.pipes[i].out \notin {NoProc, p} THEN s1
        ELSE IF x = NoProc THEN s2 ELSE WakeOther(s2, i, x)
  BY DEF open_read
<1> HIDE DEF s1
<1>3. CASE s1.pipes[i].out \in {NoProc, p}
  <2>1. s1 \in State /\ s1.pipes[i] \in Pipes
    BY <1>1, Fields DEF Good
  <2>2. /\ Changed(s1, s2, i) /\ s2.pipes[i].in = s1.pipes[i].in
        /\ x \in Procs \cup {NoProc}
    BY <2>1 DEF Changed, State, Pipes
  <2> HIDE DEF s2, x
  <2>3. \A r \in All \ {NoProc} : Stands(s1, s2, i, x, r)
    <3> SUFFICES ASSUME NEW r \in All, s1.call[r].slot = i PROVE Stands(s1, s2, i, x, r)
      BY DEF Stands
    <3>1. CallOK(s1, r) /\ s1.call[r] \in Calls
      BY <1>1, <2>1, Fields DEF Good
    <3>2. s1.call[p].op = "none" /\ s1.status[p] = "ready"
      BY <1>1 DEF Fresh, Mild
    <3>3. ~ (s1.call[r].op \in {"read", "read_first"})
      BY <1>3, <3>1, <3>2, Pids DEF CallOK, ReadOK
    <3>4. s1.status[r] = "blocked" => r = x /\ s1.pipes[i].blocking
      BY <1>1, <3>1, <3>3, SleepsAtEnd DEF x
    <3> QED BY <2>2, <3>3, <3>4 DEF Stands
  <2> DEFINE t == WakeOther(s2, i, x)
  <2>4. /\ Good(t, NoProc) /\ t.call = s1.call /\ t.linked = s1.linked /\ t.waits = s1.waits
        /\ \A r \in All : s1.status[r] # "blocked" => t.status[r] = s1.status[r]
    BY <1>1, <2>2, <2>3, WakeKeeps
  <2> HIDE DEF t
  <2>5. CASE x # NoProc
    BY <1>1, <1>2, <1>3, <2>4, <2>5 DEF Mild, t
  <2>6. CASE x = NoProc
    <3>1. \A r \in All : s1.call[r].slot = i => s1.status[r] # "blocked"
      BY <1>1, <2>3, <2>6 DEF Stands
    <3>2. Good(s2, NoProc)
      <4>1. \A r \in All \ {NoProc} : Kept(s1, s2, r)
        <5> SUFFICES ASSUME NEW r \in All PROVE Kept(s1, s2, r)
          OBVIOUS
        <5>1. CallOK(s1, r) /\ s1.call[r] \in Calls /\ Stands(s1, s2, i, x, r)
          BY <1>1, <2>1, <2>3, Fields DEF Good
        <5>2. \A v \in Procs : Closes(s1, r, v) => s2.status[v] = "zombie" /\ v \notin s2.linked
          BY <2>2, <5>1 DEF CallOK, CloseOK, Closes, Changed
        <5>3. s1.call[r].op \in {"write", "close", "read", "read_first"} => s1.call[r].slot \in Slots
          BY <5>1, CallKinds
        <5>4. KeptIn(s1, s2, r)
          BY <2>2, <3>1, <5>1, <5>3, NotFile DEF KeptIn, Open, Changed, Stands
        <5> QED BY <2>2, <5>2, <5>4 DEF Kept, Changed
      <4>2. (\A v \in s2.linked : s2.status[v] = "zombie") /\ s2.status[Shell] \in {"ready", "blocked"}
        BY <1>1, <2>2 DEF Good, Changed
      <4> QED BY <1>1, <2>2, <4>1, <4>2, OthersKept DEF Changed
    <3> QED BY <1>1, <1>2, <1>3, <2>2, <2>6, <3>2 DEF Mild, Changed
  <2> QED BY <2>5, <2>6
<1>4. CASE s1.pipes[i].out \notin {NoProc, p}
  BY <1>1, <1>2, <1>4
<1> QED BY <1>3, <1>4

LEMMA FreeIsIdle ==
  ASSUME NEW s, Good(s, NoProc), NEW p \in Procs, s.status[p] = "free"
  PROVE  s.call[p].op = "none" /\ p \notin s.linked
<1>1. CallOK(s, p) /\ s.call[p] \in Calls /\ p # Shell
  BY Fields, Pids DEF Good
<1>2. s.call[p].op \in {"none", "waitpid", "write", "read", "read_first", "close"}
  BY <1>1, CallKinds
<1> QED BY <1>1, <1>2 DEF CallOK, WaitOK, WriteOK, ReadOK, CloseOK, Good

LEMMA InitProcessKeeps ==
  ASSUME NEW s, NEW p \in Procs, NEW in \in Descriptors, NEW out \in Descriptors,
         Good(s, NoProc), s.status[p] = "free"
  PROVE  LET t == init_process(s, p, in, out) IN Good(t, NoProc) /\ WaitsOn(s, t)
<1> DEFINE s1 == [s EXCEPT !.status[p] = "ready", !.fds[p] = [in |-> in, out |-> out]]
           s2 == IF in = Tty THEN s1 ELSE open_read(s1, p, in)
<1>1. s \in State /\ p \in All /\ p # Shell /\ s.call[p].op = "none" /\ p \notin s.linked
  BY FreeIsIdle, Pids DEF Good
<1>2. /\ s1 \in State /\ s1.status[p] = "ready" /\ s1.pipes = s.pipes
      /\ s1.call = s.call /\ s1.linked = s.linked /\ s1.waits = s.waits
      /\ \A r \in All \ {p} : s1.status[r] = s.status[r]
  BY <1>1 DEF State
<1> HIDE DEF s1
<1>3. \A r \in All \ {p} : Kept(s, s1, r)
  <2> SUFFICES ASSUME NEW r \in All \ {p} PROVE Kept(s, s1, r)
    OBVIOUS
  <2>1. CallOK(s, r)
    BY Pids DEF Good
  <2>2. \A v \in Procs : Closes(s, r, v) => s1.status[v] = "zombie" /\ v \notin s1.linked
    <3> SUFFICES ASSUME NEW v \in Procs, Closes(s, r, v)
                 PROVE  s1.status[v] = "zombie" /\ v \notin s1.linked
      OBVIOUS
    <3>1. s.status[v] = "zombie" /\ v \notin s.linked /\ v \in All
      BY <2>1, Pids DEF CallOK, CloseOK, Closes
    <3> QED BY <1>2, <3>1
  <2> QED BY <1>2, <2>2 DEF Kept, KeptIn, Open
<1>4. Good(s1, p)
  <2>1. \A v \in s1.linked : s1.status[v] = "zombie"
    <3>1. \A v \in s.linked : v \in All /\ v # p /\ s.status[v] = "zombie"
      BY <1>1, Pids DEF Good, State
    <3> QED BY <1>2, <3>1
  <2>2. s1.status[Shell] \in {"ready", "blocked"}
    BY <1>1, <1>2, Pids DEF Good
  <2> QED BY <1>2, <1>3, <2>1, <2>2, OthersKept
<1>5. Good(s1, NoProc) /\ Fresh(s1, p)
  <2>1. CallOK(s1, p)
    BY <1>1, <1>2 DEF CallOK, InUserOK, WaitOK, WriteOK, ReadOK, CloseOK
  <2> QED BY <1>1, <1>2, <1>4, <2>1, ItsOwn DEF Fresh
<1>6. Good(s2, NoProc) /\ Mild(s1, s2) /\ Fresh(s2, p)
  <2>1. CASE in = Tty
    BY <1>5, <2>1 DEF Mild
  <2>2. CASE in # Tty
    <3>1. in \in Slots
      BY <2>2 DEF Descriptors
    <3>2. Good(open_read(s1, p, in), NoProc) /\ Mild(s1, open_read(s1, p, in))
      BY <1>5, <3>1, OpenReadKeeps
    <3> QED BY <1>1, <1>5, <2>2, <3>2 DEF Mild, Fresh
  <2> QED BY <2>1, <2>2
<1>7. init_process(s, p, in, out) = IF out = Tty THEN s2 ELSE open_write(s2, p, out)
  BY DEF init_process, s1
<1> HIDE DEF s2
<1>8. CASE out = Tty
  BY <1>2, <1>6, <1>7, <1>8 DEF Mild, WaitsOn
<1>9. CASE out # Tty
  <2>1. out \in Slots
    BY <1>9 DEF Descriptors
  <2>2. Good(open_write(s2, p, out), NoProc) /\ Mild(s2, open_write(s2, p, out))
    BY <1>6, <2>1, OpenWriteKeeps
  <2> QED BY <1>2, <1>6, <1>7, <1>9, <2>2 DEF Mild, WaitsOn
<1> QED BY <1>8, <1>9

-----------------------------------------------------------------------------
(* Closing the pipes of the dead.                                          *)

(* q keeps its waitpid, if it is the shell; nobody else gets one.          *)
LEMMA CloseWriteKeeps ==
  ASSUME NEW s, NEW q, NEW v, NEW i \in Slots,
         Closing(s, q, v), Open(s, i), s.pipes[i].in = v
  PROVE  LET t == close_write(s, i) IN Closing(t, q, v) /\ Mild(s, t)
<1> DEFINE pipe == s.pipes[i]
           s1 == IF Ended(pipe) THEN s ELSE [s EXCEPT !.pipes[i] = WithEOF(@)]
           s2 == [s1 EXCEPT !.pipes[i].in = NoProc]
           x  == pipe.out
           t  == WakeOther(s2, i, x)
<1>1. s \in State /\ pipe \in Pipes /\ Good(s, q) /\ v \in Procs /\ v \in All
  BY Fields, Pids DEF Good, Closing
<1>2. close_write(s, i) = t
  BY DEF close_write
<1>3. Changed(s, s1, i) /\ s1.pipes[i].out = pipe.out /\ s1.fds = s.fds
  <2>1. CASE Ended(pipe)
    BY <1>1, <2>1 DEF Changed
  <2>2. CASE ~ Ended(pipe)
    <3> DEFINE new == WithEOF(pipe)
    <3>1. new \in Pipes /\ new.out = pipe.out /\ new.blocking = pipe.blocking
      BY <1>1, EndedPipe
    <3>2. s1 = [s EXCEPT !.pipes[i] = new]
      BY <2>2
    <3> HIDE DEF new, s1
    <3> QED BY <1>1, <3>1, <3>2 DEF Changed, State
  <2> QED BY <2>1, <2>2
<1> HIDE DEF s1
<1>4. Changed(s, s2, i) /\ s2.pipes[i].out = pipe.out
  BY <1>3 DEF Changed, State, Pipes
<1> HIDE DEF s2
<1>5. \A r \in All \ {q} : Stands(s, s2, i, x, r)
  <2> SUFFICES ASSUME NEW r \in All \ {q}, s.call[r].slot = i PROVE Stands(s, s2, i, x, r)
    BY DEF Stands
  <2>1. CallOK(s, r) /\ s.call[r] \in Calls /\ s.status[v] = "zombie" /\ ~ Closes(s, r, v)
    BY <1>1, Fields DEF Good, Closing
  <2>2. ~ (s.call[r].op = "write" /\ s.call[r].live)
    BY <2>1 DEF CallOK, WriteOK
  <2>3. ~ (s.call[r].op = "close" /\ s.call[r].live)
    BY <2>1 DEF CallOK, CloseOK, Closes
  <2>4. s.status[r] = "blocked" => r = x /\ pipe.blocking
    BY <1>1, <2>1, <2>2, SleepsAtEnd DEF CallOK, WriteOK
  <2> QED BY <1>4, <2>2, <2>3, <2>4 DEF Stands
<1>6. x \in Procs \cup {NoProc}
  BY <1>1 DEF Pipes
<1> HIDE DEF pipe, x
<1>7. /\ Good(t, q) /\ t.call = s.call /\ t.linked = s.linked /\ t.waits = s.waits
      /\ \A r \in All : s.status[r] # "blocked" => t.status[r] = s.status[r]
  BY <1>1, <1>4, <1>5, <1>6, WakeKeeps
<1> HIDE DEF t
<1>8. Closing(t, q, v)
  BY <1>1, <1>7 DEF Closing, Closes
<1> QED BY <1>2, <1>7, <1>8 DEF Mild

LEMMA NotLive ==
  ASSUME NEW c \in Calls, c.slot \in Slots
  PROVE  LET d == [c EXCEPT !.live = FALSE]
         IN  /\ d \in Calls /\ d.op = c.op /\ d.slot = c.slot /\ d.live = FALSE
             /\ c.op = "close" => d.victim = c.victim
<1>1. CASE c \in [op : {"write"}, slot : Slots, data : Seq(Int) \ {<< >>}, live : BOOLEAN]
  BY <1>1 DEF Calls
<1>2. CASE c \in [op : {"read", "read_first"}, slot : Slots, left : Nat \ {0}, live : BOOLEAN]
  BY <1>2 DEF Calls
<1>3. CASE c \in [op : {"close"}, slot : Slots, victim : Procs, fd : {"in", "out"},
                  live : BOOLEAN]
  BY <1>3 DEF Calls
<1> QED BY <1>1, <1>2, <1>3, NotFile DEF Calls, NoCall

LEMMA CloseReadKeeps ==
  ASSUME NEW s, NEW q, NEW v, NEW i \in Slots,
         Closing(s, q, v), Open(s, i), s.pipes[i].out = v
  PROVE  LET t == close_read(s, i)
         IN  Closing(t, q, v) /\ t.waits = s.waits /\ \A r \in All : t.call[r].op = s.call[r].op
<1> DEFINE x  == s.pipes[i].in
           s1 == WakeOther(s, i, x)
           off(r) == IF s.call[r].slot = i THEN [s.call[r] EXCEPT !.live = FALSE]
                                           ELSE s.call[r]
           t  == [s1 EXCEPT !.pipes[i] = NULL, !.taken[i] = << >>,
                            !.call = [p \in All |-> off(p)]]
<1>1. s \in State /\ s.pipes[i] \in Pipes /\ Good(s, q) /\ v \in Procs /\ v \in All
  BY Fields, Pids DEF Good, Closing
<1>2. close_read(s, i) = t
  BY DEF close_read
<1>3. x \in Procs \cup {NoProc} /\ Changed(s, s, i)
  BY <1>1 DEF Pipes, Changed
<1>4. \A r \in All \ {q} : s.status[r] = "blocked" /\ s.call[r].slot = i => r = x /\ s.pipes[i].blocking
  <2> SUFFICES ASSUME NEW r \in All \ {q}, s.status[r] = "blocked", s.call[r].slot = i
               PROVE  r = x /\ s.pipes[i].blocking
    OBVIOUS
  <2>1. s.status[v] = "zombie"
    BY DEF Closing
  <2> QED BY <1>1, <2>1, SleepsAtEnd
<1>5. \A r \in All \ {q} : Stands(s, s, i, x, r)
  BY <1>4 DEF Stands
<1> HIDE DEF x
<1>6. /\ Good(s1, q) /\ Open(s1, i) /\ ~ s1.pipes[i].blocking
      /\ s1.call = s.call /\ s1.linked = s.linked /\ s1.waits = s.waits
      /\ \A r \in All : s.status[r] # "blocked" => s1.status[r] = s.status[r]
  BY <1>1, <1>3, <1>5, WakeKeeps
<1> HIDE DEF s1
<1>7. s1 \in State
  BY <1>6 DEF Good
<1>8. \A r \in All : /\ off(r) \in Calls /\ off(r).op = s.call[r].op
                     /\ s.call[r].slot # i => off(r) = s.call[r]
                     /\ s.call[r].slot = i => off(r).live = FALSE /\ off(r).slot = i
                     /\ s.call[r].op = "close" => off(r).victim = s.call[r].victim
  <2> SUFFICES ASSUME NEW r \in All
               PROVE  /\ off(r) \in Calls /\ off(r).op = s.call[r].op
                      /\ s.call[r].slot # i => off(r) = s.call[r]
                      /\ s.call[r].slot = i => off(r).live = FALSE /\ off(r).slot = i
                      /\ s.call[r].op = "close" => off(r).victim = s.call[r].victim
    OBVIOUS
  <2>1. s.call[r] \in Calls /\ s1.call[r] = s.call[r]
    BY <1>1, <1>6, Fields
  <2>2. CASE s.call[r].slot = i
    BY <2>1, <2>2, NotLive
  <2>3. CASE s.call[r].slot # i
    BY <2>1, <2>3
  <2> QED BY <2>2, <2>3
<1> HIDE DEF off
<1>9. /\ t \in State /\ t.pipes[i] = NULL /\ \A j \in Slots \ {i} : t.pipes[j] = s1.pipes[j]
      /\ t.status = s1.status /\ t.linked = s1.linked /\ t.waits = s1.waits
      /\ \A r \in All : t.call[r] = off(r)
  <2> DEFINE calls == [p \in All |-> off(p)]
  <2>1. calls \in [All -> Calls] /\ << >> \in Seq(Int) /\ \A r \in All : calls[r] = off(r)
    BY <1>8
  <2>2. t = [s1 EXCEPT !.pipes[i] = NULL, !.taken[i] = << >>, !.call = calls]
    OBVIOUS
  <2> HIDE DEF calls, t
  <2> QED BY <1>7, <2>1, <2>2 DEF State
<1> HIDE DEF t
<1>10. \A r \in All \ {q} : CallOK(t, r)
  <2> SUFFICES ASSUME NEW r \in All \ {q} PROVE CallOK(t, r)
    OBVIOUS
  <2>1. CallOK(s1, r) /\ CallOK(s, r) /\ s.call[r] \in Calls
    BY <1>1, <1>6, Fields DEF Good
  <2>2. CASE s.call[r].slot # i
    <3>1. t.call[r] = s1.call[r] /\ s1.call[r].slot # i
      BY <1>6, <1>8, <1>9, <2>2
    <3>2. s1.call[r].op \in {"write", "close", "read", "read_first"} => s1.call[r].slot \in Slots
      BY <1>6, <2>1, CallKinds
    <3>3. KeptIn(s1, t, r)
      BY <1>9, <3>1, <3>2 DEF KeptIn, Open
    <3>4. \A w \in Procs : Closes(s1, r, w) => t.status[w] = "zombie" /\ w \notin t.linked
      BY <1>9, <2>1 DEF CallOK, CloseOK, Closes
    <3>5. Kept(s1, t, r)
      BY <1>9, <3>1, <3>3, <3>4 DEF Kept
    <3> QED BY <1>7, <1>9, <2>1, <3>5, KeptOK
  <2>3. CASE s.call[r].slot = i
    <3>1. ~ (s.call[r].op \in {"read", "read_first"})
      BY <1>1, <2>1, <2>3 DEF CallOK, ReadOK, Closing
    <3>2. s.call[r].op \in {"write", "close"}
      BY <2>1, <2>3, <3>1, CallKinds, NotFile
    <3>3. t.call[r].op = s.call[r].op /\ ~ t.call[r].live
          /\ (s.call[r].op = "close" => t.call[r].victim = s.call[r].victim)
      BY <1>8, <1>9, <2>3
    <3>4. t.status[r] # "blocked"
      <4>1. s1.call[r].slot = i
        BY <1>6, <2>3
      <4> SUFFICES ASSUME s1.status[r] = "blocked" PROVE FALSE
        BY <1>9
      <4> QED BY <1>6, <4>1, SleepsAtEnd
    <3> QED BY <1>6, <1>9, <2>1, <3>2, <3>3, <3>4
            DEF CallOK, InUserOK, WaitOK, WriteOK, ReadOK, CloseOK
  <2> QED BY <2>2, <2>3
<1>11. \A r \in All, w \in Procs : Closes(t, r, w) <=> Closes(s, r, w)
  BY <1>8, <1>9 DEF Closes
<1>12. Good(t, q)
  BY <1>1, <1>6, <1>9, <1>10, <1>11 DEF Good
<1>13. Closing(t, q, v)
  BY <1>1, <1>6, <1>9, <1>11, <1>12 DEF Closing
<1> QED BY <1>2, <1>6, <1>8, <1>9, <1>13

(* What closing does to whom the shell waits for.                          *)
SameOps(s, t) == t.waits = s.waits /\ \A r \in All : t.call[r].op = s.call[r].op

LEMMA PipeCloseKeeps ==
  ASSUME NEW s, NEW q, NEW v, NEW i \in Descriptors, Closing(s, q, v)
  PROVE  LET t == pipe_close(s, v, i) IN Closing(t, q, v) /\ SameOps(s, t)
<1>1. CASE i = Tty \/ s.pipes[i] = NULL
  BY <1>1 DEF pipe_close, SameOps
<1>2. CASE i # Tty /\ s.pipes[i] # NULL
  <2>1. i \in Slots /\ Open(s, i)
    BY <1>2 DEF Descriptors, Open
  <2>2. CASE s.pipes[i].in = v
    <3>1. pipe_close(s, v, i) = close_write(s, i)
      BY <1>2, <2>2 DEF pipe_close
    <3> QED BY <2>1, <2>2, <3>1, CloseWriteKeeps DEF Mild, SameOps
  <2>3. CASE s.pipes[i].in # v /\ s.pipes[i].out = v
    <3>1. pipe_close(s, v, i) = close_read(s, i)
      BY <1>2, <2>3 DEF pipe_close
    <3> QED BY <2>1, <2>3, <3>1, CloseReadKeeps DEF SameOps
  <2>4. CASE s.pipes[i].in # v /\ s.pipes[i].out # v
    BY <1>2, <2>4 DEF pipe_close, SameOps
  <2> QED BY <2>2, <2>3, <2>4
<1> QED BY <1>1, <1>2

LEMMA DescriptorGone ==
  ASSUME NEW s, NEW q, NEW v, Closing(s, q, v)
  PROVE  /\ Closing([s EXCEPT !.fds[v].in = Tty], q, v)
         /\ SameOps(s, [s EXCEPT !.fds[v].in = Tty])
         /\ Closing([s EXCEPT !.fds[v].out = Tty], q, v)
         /\ SameOps(s, [s EXCEPT !.fds[v].out = Tty])
<1>1. s \in State /\ Good(s, q) /\ v \in All /\ Tty \in Descriptors
  BY Pids DEF Closing, Good, Descriptors
<1>2. ASSUME NEW f \in [in : Descriptors, out : Descriptors],
             NEW t, t = [s EXCEPT !.fds[v] = f]
      PROVE  Closing(t, q, v) /\ SameOps(s, t)
  <2>1. /\ t \in State /\ t.pipes = s.pipes /\ t.status = s.status /\ t.call = s.call
        /\ t.linked = s.linked /\ t.waits = s.waits
    BY <1>1, <1>2 DEF State
  <2>2. Good(t, q)
    BY <1>1, <2>1, TheRest
  <2> QED BY <2>1, <2>2 DEF Closing, Closes, SameOps
<1>3. s.fds[v] \in [in : Descriptors, out : Descriptors]
  BY <1>1 DEF State
<1>4. /\ [s.fds[v] EXCEPT !.in = Tty] \in [in : Descriptors, out : Descriptors]
      /\ [s.fds[v] EXCEPT !.out = Tty] \in [in : Descriptors, out : Descriptors]
  BY <1>1, <1>3
<1> QED BY <1>2, <1>4

LEMMA LinkKeeps ==
  ASSUME NEW s, NEW q, NEW v, Closing(s, q, v)
  PROVE  LET t == LinkToParent(s, q, v) IN Good(t, NoProc) /\ WaitsOn(s, t)
<1> DEFINE s1 == [Return(s, q) EXCEPT !.linked = @ \cup {v}]
           t  == LinkToParent(s, q, v)
<1>1. s \in State /\ q \in All /\ v \in Procs /\ v \in All /\ NoCall \in Calls
  BY Pids DEF Closing, Good, Calls
<1>2. /\ s1 \in State /\ s1.call[q] = NoCall /\ s1.pipes = s.pipes /\ s1.status = s.status
      /\ s1.linked = s.linked \cup {v} /\ s1.waits = s.waits
      /\ \A r \in All \ {q} : s1.call[r] = s.call[r]
  BY <1>1 DEF State, Return
<1>3. t = IF s.waits = v THEN Wake(s1, Shell) ELSE s1
  BY DEF LinkToParent
<1> HIDE DEF s1, t
<1>4. /\ t \in State /\ t.call[q] = NoCall /\ t.pipes = s.pipes
      /\ t.linked = s.linked \cup {v} /\ t.waits = s.waits
      /\ \A r \in All \ {q} : t.call[r] = s.call[r]
      /\ \A r \in All : t.status[r] =
           IF s.waits = v /\ r = Shell /\ s.status[r] = "blocked" THEN "ready" ELSE s.status[r]
  <2>1. CASE s.waits = v /\ s1.status[Shell] = "blocked"
    <3>1. t = [s1 EXCEPT !.status[Shell] = "ready"]
      BY <1>3, <2>1, Pids DEF Wake
    <3> DEFINE st == [s1.status EXCEPT ![Shell] = "ready"]
    <3>2. /\ st \in [All -> {"free", "ready", "blocked", "zombie"}] /\ st[Shell] = "ready"
          /\ \A r \in All \ {Shell} : st[r] = s1.status[r]
      BY <1>2, Pids DEF State
    <3>3. t = [s1 EXCEPT !.status = st]
      BY <3>1
    <3> HIDE DEF st
    <3> QED BY <1>2, <2>1, <3>2, <3>3 DEF State
  <2>2. CASE ~ (s.waits = v /\ s1.status[Shell] = "blocked")
    <3>1. t = s1
      BY <1>3, <2>2 DEF Wake
    <3> QED BY <1>2, <2>2, <3>1
  <2> QED BY <2>1, <2>2
<1>5. \A r \in All \ {q} : CallOK(t, r)
  <2> SUFFICES ASSUME NEW r \in All \ {q} PROVE CallOK(t, r)
    OBVIOUS
  <2>1. CallOK(s, r) /\ s.call[r] \in Calls /\ ~ Closes(s, r, v)
    BY <1>1, Fields DEF Closing, Good
  <2>2. t.call[r] = s.call[r] /\ t.pipes = s.pipes
    BY <1>4
  <2>3. InUserOK(t, r) /\ WriteOK(t, r) /\ ReadOK(t, r)
    BY <1>4, <2>1, Pids DEF CallOK, InUserOK, WriteOK, ReadOK, Open
  <2>4. WaitOK(t, r)
    BY <1>4, <2>1 DEF CallOK, WaitOK
  <2>5. CloseOK(t, r)
    <3> SUFFICES ASSUME s.call[r].op = "close" PROVE CloseOK(t, r)
      BY <2>2 DEF CloseOK
    <3>1. s.call[r].victim \in Procs /\ s.call[r].victim # v
      BY <2>1, CallKinds DEF Closes
    <3>2. s.call[r].victim \in All /\ s.call[r].victim # Shell
      BY <3>1, Pids
    <3>3. /\ t.status[s.call[r].victim] = s.status[s.call[r].victim]
          /\ s.status[r] = "ready" => t.status[r] = "ready"
      BY <1>4, <3>2
    <3> QED BY <1>4, <2>1, <2>2, <3>1, <3>3 DEF CallOK, CloseOK, Open
  <2> QED BY <2>3, <2>4, <2>5 DEF CallOK
<1>6. t.status[q] # "blocked"
  BY <1>1, <1>4 DEF Closing
<1>7. \A r \in All \ {q}, w \in Procs : Closes(t, r, w) <=> Closes(s, r, w)
  BY <1>4 DEF Closes
<1>8. Good(t, q)
  <2>1. \A w \in t.linked : t.status[w] = "zombie"
    <3>1. \A w \in s.linked \cup {v} : w \in All /\ w # Shell /\ s.status[w] = "zombie"
      BY <1>1, Pids DEF Closing, Good, State
    <3> QED BY <1>4, <3>1
  <2>2. t.status[Shell] \in {"ready", "blocked"}
    BY <1>4, Pids DEF Closing, Good
  <2> QED BY <1>4, <1>5, <1>7, <2>1, <2>2 DEF Closing, Good
<1>9. CallOK(t, q) /\ t.call[q].op = "none"
  BY <1>4, <1>6 DEF CallOK, InUserOK, WaitOK, WriteOK, ReadOK, CloseOK, NoCall
<1>10. Good(t, NoProc)
  BY <1>1, <1>8, <1>9, ItsOwn
<1>11. WaitsOn(s, t)
  BY <1>4, <1>9, Pids DEF WaitsOn
<1> QED BY <1>10, <1>11 DEF t

LEMMA WaitForRoomKeeps ==
  ASSUME NEW s, NEW q, NEW v, NEW fd \in {"in", "out"}, NEW i \in Descriptors,
         Closing(s, q, v), CloseWaits(s, v, i)
  PROVE  LET t == WaitForRoom(s, q, v, fd, i) IN Good(t, NoProc) /\ WaitsOn(s, t)
<1> DEFINE c == CloseCall(v, fd, i)
           t == WaitForRoom(s, q, v, fd, i)
<1>1. s \in State /\ q \in All /\ v \in Procs /\ v \in All
  BY Pids DEF Closing, Good
<1>2. i \in Slots /\ Open(s, i) /\ s.pipes[i].in = v /\ s.pipes[i] \in Pipes
  BY <1>1, Fields DEF CloseWaits, Descriptors, Open
<1>3. c \in Calls /\ c.op = "close" /\ c.victim = v /\ c.slot = i /\ c.live
  BY <1>1, <1>2 DEF CloseCall, Calls
<1>4. t = [s EXCEPT !.pipes[i].blocking = TRUE, !.call[q] = c]
  BY DEF WaitForRoom
<1> HIDE DEF c, t
<1>5. /\ t \in State /\ t.call[q] = c /\ t.status = s.status
      /\ t.linked = s.linked /\ t.waits = s.waits
      /\ \A r \in All \ {q} : t.call[r] = s.call[r]
      /\ \A j \in Slots \ {i} : t.pipes[j] = s.pipes[j]
      /\ SamePipe(t.pipes[i], s.pipes[i]) /\ t.pipes[i].blocking
  BY <1>1, <1>2, <1>3, <1>4 DEF State, SamePipe, Pipes
<1>6. Open(t, i) /\ (NothingToRead(s.pipes[i]) <=> NothingToRead(t.pipes[i]))
  BY <1>5, NotFile DEF Open, SamePipe, NothingToRead, Ended, Place
<1>7. \A r \in All \ {q} : Kept(s, t, r)
  <2> SUFFICES ASSUME NEW r \in All \ {q} PROVE Kept(s, t, r)
    OBVIOUS
  <2>1. CallOK(s, r) /\ s.call[r] \in Calls
    BY <1>1, Fields DEF Closing, Good
  <2>2. KeptIn(s, t, r)
    BY <1>1, <1>5, <1>6, <2>1, CallKinds DEF KeptIn, Open, SamePipe
  <2>3. \A w \in Procs : Closes(s, r, w) => t.status[w] = "zombie" /\ w \notin t.linked
    BY <1>5, <2>1 DEF CallOK, CloseOK, Closes
  <2> QED BY <1>5, <2>2, <2>3 DEF Kept
<1>8. Good(t, q)
  <2>1. (\A w \in t.linked : t.status[w] = "zombie") /\ t.status[Shell] \in {"ready", "blocked"}
    BY <1>5 DEF Closing, Good
  <2>2. Good(s, q)
    BY DEF Closing
  <2> QED BY <1>5, <1>7, <2>1, <2>2, OthersKept
<1>9. CallOK(t, q)
  BY <1>2, <1>3, <1>5, <1>6
     DEF Closing, SamePipe, CallOK, InUserOK, WaitOK, WriteOK, ReadOK, CloseOK
<1>10. Good(t, NoProc)
  <2>1. \A p \in All : CallOK(t, p)
    BY <1>8, <1>9 DEF Good
  <2>2. \A p \in All \ {q} : \A w \in Procs : Closes(t, p, w) => w # v
    BY <1>5 DEF Closing, Closes
  <2>3. \A w \in Procs : Closes(t, q, w) => w = v
    BY <1>3, <1>5 DEF Closes
  <2>4. \A p1, p2 \in All : \A w \in Procs : Closes(t, p1, w) /\ Closes(t, p2, w) => p1 = p2
    BY <1>8, <2>2, <2>3 DEF Good
  <2> QED BY <1>8, <2>1, <2>4 DEF Good
<1>11. WaitsOn(s, t)
  BY <1>1, <1>3, <1>5, Pids DEF WaitsOn
<1> QED BY <1>10, <1>11 DEF t

LEMMA CloseOutKeeps ==
  ASSUME NEW s, NEW q, NEW v, Closing(s, q, v)
  PROVE  LET t == CloseOut(s, q, v) IN Good(t, NoProc) /\ WaitsOn(s, t)
<1> DEFINE i  == s.fds[v].out
           s1 == pipe_close(s, v, i)
           s2 == [s1 EXCEPT !.fds[v].out = Tty]
<1>1. i \in Descriptors
  BY Fields, Pids DEF Closing, Good
<1>2. CloseOut(s, q, v) =
        IF CloseWaits(s, v, i) THEN WaitForRoom(s, q, v, "out", i) ELSE LinkToParent(s2, q, v)
  BY DEF CloseOut
<1>3. Closing(s1, q, v) /\ SameOps(s, s1)
  BY <1>1, PipeCloseKeeps
<1> HIDE DEF i, s1
<1>4. Closing(s2, q, v) /\ SameOps(s1, s2)
  BY <1>3, DescriptorGone
<1> HIDE DEF s2
<1>5. Good(LinkToParent(s2, q, v), NoProc) /\ WaitsOn(s2, LinkToParent(s2, q, v))
  BY <1>4, LinkKeeps
<1>6. WaitsOn(s, LinkToParent(s2, q, v))
  BY <1>3, <1>4, <1>5, Pids DEF SameOps, WaitsOn
<1>7. CASE CloseWaits(s, v, i)
  BY <1>1, <1>2, <1>7, WaitForRoomKeeps
<1>8. CASE ~ CloseWaits(s, v, i)
  BY <1>2, <1>5, <1>6, <1>8
<1> QED BY <1>7, <1>8

LEMMA CloseInKeeps ==
  ASSUME NEW s, NEW q, NEW v, Closing(s, q, v)
  PROVE  LET t == CloseIn(s, q, v) IN Good(t, NoProc) /\ WaitsOn(s, t)
<1> DEFINE i  == s.fds[v].in
           s1 == pipe_close(s, v, i)
           s2 == [s1 EXCEPT !.fds[v].in = Tty]
<1>1. i \in Descriptors
  BY Fields, Pids DEF Closing, Good
<1>2. CloseIn(s, q, v) =
        IF CloseWaits(s, v, i) THEN WaitForRoom(s, q, v, "in", i) ELSE CloseOut(s2, q, v)
  BY DEF CloseIn
<1>3. Closing(s1, q, v) /\ SameOps(s, s1)
  BY <1>1, PipeCloseKeeps
<1> HIDE DEF i, s1
<1>4. Closing(s2, q, v) /\ SameOps(s1, s2)
  BY <1>3, DescriptorGone
<1> HIDE DEF s2
<1>5. Good(CloseOut(s2, q, v), NoProc) /\ WaitsOn(s2, CloseOut(s2, q, v))
  BY <1>4, CloseOutKeeps
<1>6. WaitsOn(s, CloseOut(s2, q, v))
  BY <1>3, <1>4, <1>5, Pids DEF SameOps, WaitsOn
<1>7. CASE CloseWaits(s, v, i)
  BY <1>1, <1>2, <1>7, WaitForRoomKeeps
<1>8. CASE ~ CloseWaits(s, v, i)
  BY <1>2, <1>5, <1>6, <1>8
<1> QED BY <1>7, <1>8

LEMMA CloseRestKeeps ==
  ASSUME NEW s, NEW q, NEW v, NEW fd, Closing(s, q, v)
  PROVE  LET t == CloseRest(s, q, v, fd) IN Good(t, NoProc) /\ WaitsOn(s, t)
<1>1. CASE fd = "in"
  <2> DEFINE u == [s EXCEPT !.fds[v].in = Tty]
  <2>1. CloseRest(s, q, v, fd) = CloseOut(u, q, v)
    BY <1>1 DEF CloseRest
  <2>2. Closing(u, q, v) /\ SameOps(s, u)
    BY DescriptorGone
  <2> HIDE DEF u
  <2> QED BY <2>1, <2>2, CloseOutKeeps, Pids DEF SameOps, WaitsOn
<1>2. CASE fd # "in"
  <2> DEFINE u == [s EXCEPT !.fds[v].out = Tty]
  <2>1. CloseRest(s, q, v, fd) = LinkToParent(u, q, v)
    BY <1>2 DEF CloseRest
  <2>2. Closing(u, q, v) /\ SameOps(s, u)
    BY DescriptorGone
  <2> HIDE DEF u
  <2> QED BY <2>1, <2>2, LinkKeeps, Pids DEF SameOps, WaitsOn
<1> QED BY <1>1, <1>2

LEMMA DeadKeeps ==
  ASSUME NEW s, NEW q \in All, NEW v \in Procs, Good(s, NoProc),
         s.status[v] # "zombie", q = v \/ s.status[q] = "ready"
  PROVE  LET u == [s EXCEPT !.status[v] = "zombie", !.call[v] = NoCall]
         IN  /\ Closing(u, q, v) /\ WaitsOn(s, u)
             /\ u.call[v] = NoCall /\ \A r \in All \ {v} : u.call[r] = s.call[r]
<1> DEFINE u == [s EXCEPT !.status[v] = "zombie", !.call[v] = NoCall]
<1>1. s \in State /\ v \in All /\ v # Shell /\ NoCall \in Calls /\ Good(s, q)
  BY Pids, GoodBut DEF Good, Calls
<1>2. /\ u \in State /\ u.status[v] = "zombie" /\ u.call[v] = NoCall /\ u.pipes = s.pipes
      /\ u.linked = s.linked /\ u.waits = s.waits
      /\ \A r \in All \ {v} : u.status[r] = s.status[r] /\ u.call[r] = s.call[r]
  BY <1>1 DEF State
<1> HIDE DEF u
<1>4. v \notin s.linked
  BY <1>1 DEF Good
<1>5. \A r \in All \ {v} : Kept(s, u, r) /\ ~ Closes(s, r, v)
  <2> SUFFICES ASSUME NEW r \in All \ {v} PROVE Kept(s, u, r) /\ ~ Closes(s, r, v)
    OBVIOUS
  <2>1. CallOK(s, r)
    BY Pids DEF Good
  <2>2. ~ Closes(s, r, v)
    BY <2>1 DEF CallOK, CloseOK, Closes
  <2>3. \A w \in Procs : Closes(s, r, w) => u.status[w] = "zombie" /\ w \notin u.linked
    <3> SUFFICES ASSUME NEW w \in Procs, Closes(s, r, w)
                 PROVE  u.status[w] = "zombie" /\ w \notin u.linked
      OBVIOUS
    <3>1. s.status[w] = "zombie" /\ w \notin s.linked /\ w \in All
      BY <2>1, Pids DEF CallOK, CloseOK, Closes
    <3> QED BY <1>2, <3>1
  <2> QED BY <1>2, <2>2, <2>3 DEF Kept, KeptIn, Open
<1>6. (\A w \in u.linked : u.status[w] = "zombie") /\ u.status[Shell] \in {"ready", "blocked"}
  <2>1. \A w \in s.linked : w \in All /\ s.status[w] = "zombie"
    BY <1>1, Pids DEF Good, State
  <2> QED BY <1>1, <1>2, <2>1, Pids DEF Good
<1>7. Good(u, v)
  <2>1. Good(s, v)
    BY GoodBut
  <2> QED BY <1>2, <1>5, <1>6, <2>1, OthersKept
<1>8. CallOK(u, v) /\ u.call[v].op = "none"
  BY <1>2 DEF CallOK, InUserOK, WaitOK, WriteOK, ReadOK, CloseOK, NoCall
<1>9. Good(u, NoProc)
  BY <1>1, <1>7, <1>8, ItsOwn
<1>10. Closing(u, q, v)
  <2>1. Good(u, q)
    BY <1>9, GoodBut
  <2>2. \A p \in All : ~ Closes(u, p, v)
    BY <1>2, <1>5, <1>8 DEF Closes
  <2>3. u.status[q] = "ready" \/ q = v
    BY <1>2
  <2> QED BY <1>2, <1>4, <2>1, <2>2, <2>3 DEF Closing
<1>11. WaitsOn(s, u)
  BY <1>1, <1>2, Pids DEF WaitsOn
<1> QED BY <1>2, <1>10, <1>11 DEF u

LEMMA KillKeeps ==
  ASSUME NEW s, NEW q \in All, NEW v \in Procs, Good(s, NoProc),
         s.status[v] # "zombie", q = v \/ s.status[q] = "ready"
  PROVE  LET t == kill_process(s, q, v) IN Good(t, NoProc) /\ WaitsOn(s, t)
<1> DEFINE u == [s EXCEPT !.status[v] = "zombie", !.call[v] = NoCall]
<1>1. kill_process(s, q, v) = CloseIn(u, q, v)
  BY DEF kill_process
<1>2. Closing(u, q, v) /\ WaitsOn(s, u)
  BY DeadKeeps, Zenon
<1> HIDE DEF u
<1> QED BY <1>1, <1>2, CloseInKeeps DEF WaitsOn

-----------------------------------------------------------------------------
(* The steps of a process as a killer, and of anybody else.                *)
LEMMA CloseSteps ==
  ASSUME Good(m, NoProc), NEW q \in All,
         ResumeCloseFull(q) \/ ResumeClose(q) \/ ResumeCloseFreed(q)
  PROVE  Good(m', NoProc) /\ WaitsOn(m, m')
<1> DEFINE c == m.call[q]
           v == c.victim
           i == c.slot
<1>1. m \in State /\ c \in Calls /\ CallOK(m, q)
  BY Fields, Pids DEF Good
<1>2. c.op = "close" /\ m.status[q] = "ready"
  BY DEF ResumeCloseFull, ResumeClose, ResumeCloseFreed, Runs
<1>3. i \in Slots /\ i \in Descriptors /\ v \in Procs /\ v \in All /\ c.fd \in {"in", "out"}
  BY <1>1, <1>2, CallKinds, Pids DEF Descriptors
<1>4. /\ m.status[v] = "zombie" /\ v \notin m.linked
      /\ c.live => Open(m, i) /\ m.pipes[i].in = v
  BY <1>1, <1>2 DEF CallOK, CloseOK
<1>5. Closing(m, q, v)
  <2>1. Good(m, q)
    BY GoodBut
  <2>2. Closes(m, q, v)
    BY <1>2 DEF Closes
  <2>3. \A p \in All \ {q} : ~ Closes(m, p, v)
    BY <1>3, <2>2, Pids DEF Good
  <2> QED BY <1>2, <1>3, <1>4, <2>1, <2>3 DEF Closing
<1>6. CASE ResumeCloseFull(q)
  <2> DEFINE x  == m.pipes[i].out
             s1 == WakeOther(m, i, x)
  <2>1. c.live /\ CloseWaits(m, v, i) /\ m' = WaitForRoom(s1, q, v, c.fd, i)
    BY <1>6 DEF ResumeCloseFull, Step
  <2> HIDE DEF c, v, i
  <2>2. m.pipes[i] \in Pipes
    BY <1>1, <1>3, <1>4, <2>1, Fields
  <2>3. x \in Procs \cup {NoProc} /\ Changed(m, m, i)
    BY <1>1, <2>2 DEF Pipes, Changed
  <2>4. \A r \in All \ {q} : Stands(m, m, i, x, r)
    <3> SUFFICES ASSUME NEW r \in All \ {q}, m.status[r] = "blocked", m.call[r].slot = i
                 PROVE  r = x /\ m.pipes[i].blocking
      BY DEF Stands
    <3>1. m.pipes[i].in # r
      BY <1>4, <2>1
    <3> QED BY <1>3, <1>5, <3>1, SleepsAtEnd DEF Closing
  <2> HIDE DEF x
  <2>5. /\ Good(s1, q) /\ SamePipe(s1.pipes[i], m.pipes[i]) /\ Open(s1, i)
        /\ s1.call = m.call /\ s1.linked = m.linked /\ s1.waits = m.waits
        /\ \A r \in All : m.status[r] # "blocked" => s1.status[r] = m.status[r]
    BY <1>3, <1>4, <1>5, <2>1, <2>3, <2>4, WakeKeeps DEF Closing
  <2> HIDE DEF s1
  <2>6. Closing(s1, q, v)
    BY <1>2, <1>3, <1>4, <1>5, <2>5 DEF Closing, Closes
  <2>7. CloseWaits(s1, v, i)
    BY <2>1, <2>5 DEF CloseWaits, SamePipe, Open
  <2> QED BY <1>3, <2>1, <2>5, <2>6, <2>7, WaitForRoomKeeps DEF WaitsOn
<1>7. CASE ResumeClose(q)
  <2> DEFINE s1 == close_write(m, i)
  <2>1. c.live /\ m' = CloseRest(s1, q, v, c.fd)
    BY <1>7 DEF ResumeClose, Step
  <2> HIDE DEF c, v, i
  <2>2. Closing(s1, q, v) /\ Mild(m, s1)
    BY <1>3, <1>4, <1>5, <2>1, CloseWriteKeeps
  <2> HIDE DEF s1
  <2> QED BY <2>1, <2>2, CloseRestKeeps DEF WaitsOn, Mild
<1>8. CASE ResumeCloseFreed(q)
  <2>1. m' = CloseRest(m, q, v, c.fd) \/ m' = m
    BY <1>8 DEF ResumeCloseFreed, Step, Crash
  <2> HIDE DEF c, v, i
  <2> QED BY <1>5, <2>1, CloseRestKeeps DEF WaitsOn
<1> QED BY <1>6, <1>7, <1>8

LEMMA UnblockKeeps ==
  ASSUME Good(m, NoProc), NEW p \in Procs, Unblock(p)
  PROVE  Good(m', NoProc) /\ WaitsOn(m, m')
<1>1. m \in State /\ m' = Wake(m, p)
  BY DEF Good, Unblock, Step
<1>2. /\ m' \in State /\ SameCalls(m, m') /\ m'.pipes = m.pipes
      /\ \A r \in All : m'.status[r] = IF r = p /\ m.status[r] = "blocked"
                                         THEN "ready" ELSE m.status[r]
  BY <1>1, WakeDoes
<1>3. \A r \in All \ {NoProc} : Kept(m, m', r)
  <2> SUFFICES ASSUME NEW r \in All PROVE Kept(m, m', r)
    OBVIOUS
  <2>1. CallOK(m, r)
    BY Pids DEF Good
  <2>2. \A w \in Procs : Closes(m, r, w) => m'.status[w] = "zombie" /\ w \notin m'.linked
    <3>1. \A w \in Procs : w \in All
      BY Pids
    <3> QED BY <1>2, <2>1, <3>1 DEF CallOK, CloseOK, Closes, SameCalls
  <2> QED BY <1>2, <2>2 DEF Kept, KeptIn, Open, SameCalls
<1>4. (\A w \in m'.linked : m'.status[w] = "zombie") /\ m'.status[Shell] \in {"ready", "blocked"}
  <2>1. \A w \in m.linked : w \in All /\ m.status[w] = "zombie"
    BY <1>1, Pids DEF Good, State
  <2> QED BY <1>2, <2>1, Pids DEF Good, SameCalls
<1>5. Good(m', NoProc)
  BY <1>2, <1>3, <1>4, OthersKept
<1> QED BY <1>2, <1>5 DEF WaitsOn, SameCalls

LEMMA ProcSteps ==
  ASSUME Good(m, NoProc), ProcNext
  PROVE  Good(m', NoProc) /\ WaitsOn(m, m')
<1>1. PICK p \in Procs :
        \/ \/ \E len \in 1 .. MaxLen : Read(p, len)
           \/ \E n \in 1 .. MaxLen : Write(p, n)
           \/ ResumeWrite(p) \/ ResumeReadFirst(p) \/ ResumeRead(p)
        \/ ResumeWriteReused(p)
        \/ ResumeCloseFull(p) \/ ResumeClose(p) \/ ResumeCloseFreed(p)
        \/ Exit(p)
        \/ \E v \in Procs : Kill(p, v)
        \/ Unblock(p)
  BY DEF ProcNext
<1>2. p \in All
  BY Pids
<1>3. CASE Exit(p)
  <2>1. m.status[p] = "ready" /\ m' = kill_process(m, p, p)
    BY <1>3 DEF Exit, Step
  <2> QED BY <1>2, <2>1, KillKeeps
<1>4. ASSUME NEW v \in Procs, Kill(p, v) PROVE Good(m', NoProc) /\ WaitsOn(m, m')
  <2>1. m.status[v] # "zombie" /\ m.status[p] = "ready" /\ m' = kill_process(m, p, v)
    BY <1>4 DEF Kill, Step, InUser, Runs
  <2> QED BY <1>2, <2>1, KillKeeps
<1>5. CASE ResumeWriteReused(p)
  BY <1>5 DEF ResumeWriteReused, Crash, WaitsOn
<1> QED BY <1>1, <1>2, <1>3, <1>4, <1>5, TransferSteps, CloseSteps, UnblockKeeps

-----------------------------------------------------------------------------
(* pipe_get finds a free slot when there is one.                           *)
LEMMA SomeLeast ==
  ASSUME NEW T, T \subseteq Nat, T # {}
  PROVE  \E x \in T : \A y \in T : x <= y
<1> DEFINE R == OpToRel(<, Nat)
<1>1. IsWellFoundedOn(R, Nat)
  BY NatLessThanWellFounded
<1>2. \A x, y \in Nat : << y, x >> \in R <=> y < x
  BY DEF OpToRel
<1> HIDE DEF R
<1>3. PICK x \in T : \A y \in T : ~ (<< y, x >> \in R)
  BY <1>1, WFMin, Zenon
<1>4. ASSUME NEW y \in T PROVE x <= y
  <2>1. x \in Nat /\ y \in Nat /\ ~ (y < x)
    BY <1>2, <1>3
  <2> QED BY <2>1
<1> QED BY <1>4

LEMMA FreeSlot ==
  ASSUME NEW s \in State, \E i \in Slots : s.pipes[i] = NULL
  PROVE  FreeFrom(s) \in Slots /\ s.pipes[FreeFrom(s)] = NULL
<1> DEFINE Dist(i) == (i - s.cursor) % MaxPipes
           free == {i \in Slots : s.pipes[i] = NULL}
           T == {Dist(i) : i \in free}
<1>1. \A i \in Slots : Dist(i) \in Nat
  <2>1. s.cursor \in Int /\ \A i \in Slots : i \in Int
    BY Sizes DEF State, Slots
  <2> QED BY <2>1, Sizes
<1> HIDE DEF Dist
<1>2. T \subseteq Nat /\ T # {}
  BY <1>1
<1>3. PICK x \in T : \A y \in T : x <= y
  BY <1>2, SomeLeast
<1>4. PICK i \in free : x = Dist(i)
  BY <1>3
<1>5. /\ i \in Slots /\ s.pipes[i] = NULL
      /\ \A j \in Slots : s.pipes[j] = NULL => Dist(i) <= Dist(j)
  BY <1>3, <1>4
<1>6. FreeFrom(s) = CHOOSE k \in Slots : /\ s.pipes[k] = NULL
                                         /\ \A j \in Slots : s.pipes[j] = NULL => Dist(k) <= Dist(j)
  BY DEF FreeFrom, Dist
<1> QED BY <1>5, <1>6

LEMMA GetPipeKeeps ==
  ASSUME NEW s, Good(s, NoProc), \E i \in Slots : s.pipes[i] = NULL
  PROVE  LET t == pipe_get(s)
         IN  Good(t, NoProc) /\ t.call = s.call /\ t.waits = s.waits /\ FreeFrom(s) \in Slots
<1> DEFINE i  == FreeFrom(s)
           s1 == [s EXCEPT !.pipes[i] = create_pipe, !.taken[i] = << >>]
           n  == (i + 1) % MaxPipes
           t  == [s1 EXCEPT !.cursor = n]
<1>1. s \in State /\ i \in Slots /\ s.pipes[i] = NULL
  BY FreeSlot DEF Good
<1>2. n \in Slots
  BY <1>1, Sizes DEF Slots
<1>3. pipe_get(s) = t
  BY DEF pipe_get
<1> HIDE DEF i, n
<1>4. Good(s1, NoProc) /\ Mild(s, s1)
  BY <1>1, CreateKeeps
<1> HIDE DEF s1
<1>5. /\ t \in State /\ t.pipes = s1.pipes /\ t.status = s1.status /\ t.call = s1.call
      /\ t.linked = s1.linked /\ t.waits = s1.waits
  BY <1>2, <1>4 DEF Good, State
<1> HIDE DEF t
<1>6. Good(t, NoProc)
  BY <1>4, <1>5, TheRest
<1> QED BY <1>1, <1>3, <1>4, <1>5, <1>6 DEF Mild, i

-----------------------------------------------------------------------------
(* waitpid.                                                                *)
LEMMA ReapDoes ==
  ASSUME Good(m, NoProc), NEW a \in m.linked,
         m' = free_process([Return(m, Shell) EXCEPT !.waits = NoProc], a)
  PROVE  /\ m' \in State /\ m'.pipes = m.pipes /\ m'.linked = m.linked \ {a}
         /\ m'.taken = m.taken /\ m'.status[a] = "free" /\ m'.sent[a] = 0
         /\ m'.call[Shell] = NoCall
         /\ \A r \in All \ {a} : m'.status[r] = m.status[r]
         /\ \A r \in All \ {a} : m'.fds[r] = m.fds[r] /\ m'.sent[r] = m.sent[r]
         /\ \A r \in All \ {Shell} : m'.call[r] = m.call[r]
<1>1. /\ m \in State /\ a \in Procs /\ a \in All /\ a # Shell /\ m.status[a] = "zombie"
      /\ NoCall \in Calls /\ Tty \in Descriptors
  BY Pids DEF Good, State, Calls, Descriptors
<1>2. QED
  <2> DEFINE s1 == [Return(m, Shell) EXCEPT !.waits = NoProc]
  <2>1. /\ s1 \in State /\ s1.pipes = m.pipes /\ s1.linked = m.linked /\ s1.status = m.status
        /\ s1.call[Shell] = NoCall /\ s1.taken = m.taken /\ s1.fds = m.fds /\ s1.sent = m.sent
        /\ \A r \in All \ {Shell} : s1.call[r] = m.call[r]
    BY <1>1, Pids DEF State, Return
  <2>2. m' = free_process(s1, a)
    OBVIOUS
  <2> HIDE DEF s1
  <2> DEFINE st == [s1.status EXCEPT ![a] = "free"]
             fd == [s1.fds EXCEPT ![a] = [in |-> Tty, out |-> Tty]]
             se == [s1.sent EXCEPT ![a] = 0]
             en == [s1.ended EXCEPT ![a] = FALSE]
             li == s1.linked \ {a}
  <2>3. m' = [s1 EXCEPT !.status = st, !.fds = fd, !.linked = li, !.sent = se, !.ended = en]
    BY <2>1, <2>2 DEF free_process, State
  <2>4. /\ st \in [All -> {"free", "ready", "blocked", "zombie"}] /\ st[a] = "free"
        /\ \A r \in All \ {a} : st[r] = s1.status[r]
    BY <1>1, <2>1 DEF State
  <2>5. /\ fd \in [All -> [in : Descriptors, out : Descriptors]]
        /\ \A r \in All \ {a} : fd[r] = m.fds[r]
    BY <1>1, <2>1 DEF State
  <2>6. /\ se \in [All -> Nat] /\ li \in SUBSET Procs /\ se[a] = 0
        /\ \A r \in All \ {a} : se[r] = m.sent[r]
    BY <1>1, <2>1 DEF State
  <2>7. en \in [All -> BOOLEAN]
    BY <1>1, <2>1, Zenon DEF State
  <2>8. li = m.linked \ {a}
    BY <2>1
  <2> HIDE DEF st, fd, se, en, li
  <2> DEFINE s2 == [s1 EXCEPT !.status = st, !.fds = fd, !.linked = li, !.sent = se]
  <2>9. s2 \in State
    BY <2>1, <2>4, <2>5, <2>6 DEF State
  <2>10. /\ s2.pipes = s1.pipes /\ s2.linked = li /\ s2.status = st /\ s2.call = s1.call
         /\ s2.taken = s1.taken /\ s2.fds = fd /\ s2.sent = se
    BY <2>1 DEF State
  <2>11. m' = [s2 EXCEPT !.ended = en]
    BY <2>1, <2>3 DEF State
  <2> HIDE DEF s2
  <2>12. m' \in State
    BY <2>7, <2>9, <2>11 DEF State
  <2>13. /\ m'.pipes = s2.pipes /\ m'.linked = s2.linked /\ m'.status = s2.status
         /\ m'.call = s2.call /\ m'.taken = s2.taken /\ m'.fds = s2.fds /\ m'.sent = s2.sent
    BY <2>9, <2>11 DEF State
  <2> QED BY <2>1, <2>4, <2>5, <2>6, <2>8, <2>10, <2>12, <2>13

LEMMA ReapKeeps ==
  ASSUME Good(m, NoProc), NEW a \in m.linked, m.status[Shell] = "ready",
         m' = free_process([Return(m, Shell) EXCEPT !.waits = NoProc], a)
  PROVE  Good(m', NoProc) /\ m'.call[Shell].op = "none"
<1>1. m \in State /\ a \in Procs /\ a \in All /\ a # Shell /\ m.status[a] = "zombie"
  BY Pids DEF Good, State
<1>2. /\ m' \in State /\ m'.pipes = m.pipes /\ m'.linked = m.linked \ {a}
      /\ m'.status[a] = "free" /\ m'.call[Shell] = NoCall
      /\ \A r \in All \ {a} : m'.status[r] = m.status[r]
      /\ \A r \in All \ {Shell} : m'.call[r] = m.call[r]
  BY ReapDoes
<1>3. m.call[a].op = "none"
  <2>1. CallOK(m, a) /\ m.call[a] \in Calls
    BY <1>1, Fields, Pids DEF Good
  <2> QED BY <1>1, <2>1, CallKinds DEF CallOK, WaitOK, WriteOK, ReadOK, CloseOK
<1>4. \A r \in All \ {Shell} : CallOK(m', r)
  <2> SUFFICES ASSUME NEW r \in All \ {Shell} PROVE CallOK(m', r)
    OBVIOUS
  <2>1. CallOK(m, r) /\ m.call[r] \in Calls
    BY <1>1, Fields, Pids DEF Good
  <2>2. CASE r = a
    BY <1>2, <1>3, <2>2 DEF CallOK, InUserOK, WaitOK, WriteOK, ReadOK, CloseOK
  <2>3. CASE r # a
    <3>1. m.call[r].op # "waitpid"
      BY <2>1 DEF CallOK, WaitOK
    <3>2. \A w \in Procs : Closes(m, r, w) => m'.status[w] = "zombie" /\ w \notin m'.linked
      <4> SUFFICES ASSUME NEW w \in Procs, Closes(m, r, w)
                   PROVE  m'.status[w] = "zombie" /\ w \notin m'.linked
        OBVIOUS
      <4>1. m.status[w] = "zombie" /\ w \notin m.linked /\ w \in All
        BY <2>1, Pids DEF CallOK, CloseOK, Closes
      <4> QED BY <1>2, <4>1
    <3>3. Kept(m, m', r)
      BY <1>2, <2>3, <3>1, <3>2 DEF Kept, KeptIn, Open
    <3> QED BY <1>1, <1>2, <2>1, <3>3, KeptOK
  <2> QED BY <2>2, <2>3
<1>5. Good(m', Shell)
  <2>1. \A w \in m'.linked : m'.status[w] = "zombie"
    <3>1. \A w \in m.linked : w \in All /\ m.status[w] = "zombie"
      BY <1>1, Pids DEF Good, State
    <3> QED BY <1>2, <3>1
  <2>2. m'.status[Shell] = "ready"
    BY <1>1, <1>2, Pids
  <2>3. \A p1, p2 \in All \ {Shell} : \A w \in Procs :
           Closes(m', p1, w) /\ Closes(m', p2, w) => p1 = p2
    BY <1>2, Pids DEF Good, Closes
  <2> QED BY <1>2, <1>4, <2>1, <2>2, <2>3 DEF Good
<1>6. CallOK(m', Shell)
  BY <1>1, <1>2, Pids DEF CallOK, InUserOK, WaitOK, WriteOK, ReadOK, CloseOK, NoCall
<1>7. Good(m', NoProc)
  BY <1>2, <1>5, <1>6, ItsOwn, Pids DEF NoCall
<1> QED BY <1>2, <1>7 DEF NoCall

LEMMA WaitBlockDoes ==
  ASSUME Good(m, NoProc), NEW a \in Procs, m.status[Shell] = "ready",
         m' = [Block(m, Shell) EXCEPT !.waits = a,
                                      !.call[Shell] = [op |-> "waitpid", slot |-> Tty]]
  PROVE  /\ m' \in State /\ m'.pipes = m.pipes /\ m'.linked = m.linked /\ m'.waits = a
         /\ m'.taken = m.taken /\ m'.fds = m.fds /\ m'.sent = m.sent
         /\ m'.status[Shell] = "blocked" /\ m'.call[Shell] = [op |-> "waitpid", slot |-> Tty]
         /\ \A r \in All \ {Shell} : m'.status[r] = m.status[r] /\ m'.call[r] = m.call[r]
<1> DEFINE c == [op |-> "waitpid", slot |-> Tty]
<1>1. m \in State /\ c \in Calls
  BY DEF Good, Calls
<1>2. QED
  <2> DEFINE s1 == [m EXCEPT !.status[Shell] = "blocked"]
  <2>1. /\ s1 \in State /\ s1.pipes = m.pipes /\ s1.linked = m.linked /\ s1.call = m.call
        /\ s1.status[Shell] = "blocked" /\ s1.taken = m.taken /\ s1.fds = m.fds
        /\ s1.sent = m.sent
        /\ \A r \in All \ {Shell} : s1.status[r] = m.status[r]
    BY <1>1, Pids DEF State
  <2> DEFINE cs == [s1.call EXCEPT ![Shell] = c]
  <2>2. m' = [s1 EXCEPT !.waits = a, !.call = cs]
    BY <2>1 DEF Block, State
  <2> HIDE DEF s1, c
  <2>3. /\ cs \in [All -> Calls] /\ cs[Shell] = c
        /\ \A r \in All \ {Shell} : cs[r] = s1.call[r]
    BY <1>1, <2>1, Pids DEF State
  <2> HIDE DEF cs
  <2>4. /\ m' \in State /\ m'.pipes = m.pipes /\ m'.linked = m.linked /\ m'.waits = a
        /\ m'.taken = m.taken /\ m'.fds = m.fds /\ m'.sent = m.sent
        /\ m'.status = s1.status /\ m'.call = cs
    BY <2>1, <2>2, <2>3 DEF State
  <2>5. /\ m'.status[Shell] = "blocked" /\ m'.call[Shell] = c
        /\ \A r \in All \ {Shell} : m'.status[r] = m.status[r] /\ m'.call[r] = m.call[r]
    BY <2>1, <2>3, <2>4
  <2> QED BY <2>4, <2>5, Zenon DEF c

LEMMA WaitBlockKeeps ==
  ASSUME Good(m, NoProc), NEW a \in Procs, m.status[Shell] = "ready",
         m' = [Block(m, Shell) EXCEPT !.waits = a,
                                      !.call[Shell] = [op |-> "waitpid", slot |-> Tty]]
  PROVE  Good(m', NoProc) /\ m'.waits = a
<1> DEFINE c == [op |-> "waitpid", slot |-> Tty]
<1>1. m \in State /\ c.op = "waitpid"
  BY DEF Good
<1>2. /\ m' \in State /\ m'.pipes = m.pipes /\ m'.linked = m.linked /\ m'.waits = a
      /\ m'.status[Shell] = "blocked" /\ m'.call[Shell] = c
      /\ \A r \in All \ {Shell} : m'.status[r] = m.status[r] /\ m'.call[r] = m.call[r]
  BY WaitBlockDoes, Zenon
<1> HIDE DEF c
<1>3. \A r \in All \ {Shell} : Kept(m, m', r)
  <2> SUFFICES ASSUME NEW r \in All \ {Shell} PROVE Kept(m, m', r)
    OBVIOUS
  <2>1. CallOK(m, r)
    BY Pids DEF Good
  <2>2. m.call[r].op # "waitpid"
    BY <2>1 DEF CallOK, WaitOK
  <2>3. \A w \in Procs : Closes(m, r, w) => m'.status[w] = "zombie" /\ w \notin m'.linked
    <3> SUFFICES ASSUME NEW w \in Procs, Closes(m, r, w)
                 PROVE  m'.status[w] = "zombie" /\ w \notin m'.linked
      OBVIOUS
    <3>1. m.status[w] = "zombie" /\ w \notin m.linked /\ w \in All /\ w # Shell
      BY <2>1, Pids DEF CallOK, CloseOK, Closes
    <3> QED BY <1>2, <3>1
  <2> QED BY <1>2, <2>2, <2>3 DEF Kept, KeptIn, Open
<1>4. Good(m', Shell)
  <2>1. \A w \in m'.linked : m'.status[w] = "zombie"
    <3>1. \A w \in m.linked : w \in All /\ w # Shell /\ m.status[w] = "zombie"
      BY <1>1, Pids DEF Good, State
    <3> QED BY <1>2, <3>1
  <2>2. m'.status[Shell] \in {"ready", "blocked"} /\ Good(m, Shell)
    BY <1>2, GoodBut
  <2> QED BY <1>2, <1>3, <2>1, <2>2, OthersKept
<1>5. CallOK(m', Shell)
  BY <1>1, <1>2 DEF CallOK, InUserOK, WaitOK, WriteOK, ReadOK, CloseOK
<1>6. Good(m', NoProc)
  BY <1>1, <1>2, <1>4, <1>5, ItsOwn, Pids
<1> QED BY <1>2, <1>6

-----------------------------------------------------------------------------
(* The shell's steps.                                                      *)
LEMMA ShellIdle ==
  ASSUME ShellOK, m'.call[Shell].op # "waitpid",
         sh' \in [at : {"prompt", "first", "second", "wait_one", "wait_two"}, bg : BOOLEAN,
                  slot : Descriptors, one : Procs \cup {NoProc}, two : Procs \cup {NoProc}],
         sh'.at \in {"first", "second"} => sh'.slot \in Slots,
         sh'.at \in {"second", "wait_one"} => sh'.one \in Procs,
         sh'.at \in {"wait_one", "wait_two"} => sh'.two \in Procs
  PROVE  ShellOK'
BY DEF ShellOK

LEMMA Prompt ==
  AtPrompt \in [at : {"prompt", "first", "second", "wait_one", "wait_two"}, bg : BOOLEAN,
                slot : Descriptors, one : Procs \cup {NoProc}, two : Procs \cup {NoProc}]
BY DEF AtPrompt, Descriptors

LEMMA InputOf ==
  ASSUME NEW bg \in BOOLEAN
  PROVE  Stdin(bg) \in Descriptors
<1>1. 0 \in Slots
  BY Sizes DEF Slots
<1> QED BY <1>1 DEF Stdin, DEV_NULL, Descriptors

(* A step that leaves the shell where it is.                               *)
LEMMA ShellStays ==
  ASSUME ShellOK, WaitsOn(m, m'), sh' = sh
  PROVE  ShellOK'
BY DEF ShellOK, WaitsOn, Awaited

LEMMA SingleKeeps ==
  ASSUME PipeInv, NEW p \in Procs, NEW bg \in BOOLEAN, Single(p, bg)
  PROVE  PipeInv'
<1>1. /\ m.status[p] = "free" /\ m.call[Shell] = NoCall
      /\ m' = init_process(m, p, Stdin(bg), Tty)
      /\ sh' = IF bg THEN AtPrompt ELSE [AtPrompt EXCEPT !.at = "wait_two", !.two = p]
  BY DEF Single, InShell, InUser, NextFree, Step
<1>2. Tty \in Descriptors
  BY DEF Descriptors
<1>3. Good(m', NoProc) /\ WaitsOn(m, m')
  BY <1>1, <1>2, InputOf, InitProcessKeeps DEF PipeInv
<1>4. m'.call[Shell].op # "waitpid"
  BY <1>1, <1>3 DEF WaitsOn, NoCall
<1>5. ShellOK'
  BY <1>1, <1>4, Prompt, ShellIdle DEF AtPrompt, PipeInv
<1> QED BY <1>3, <1>5 DEF PipeInv

LEMMA GetsPipe ==
  ASSUME PipeInv, NEW bg \in BOOLEAN, GetPipe(bg)
  PROVE  PipeInv'
<1>1. /\ m.call[Shell] = NoCall /\ m' = pipe_get(m)
      /\ \E i \in Slots : m.pipes[i] = NULL
      /\ sh' = [AtPrompt EXCEPT !.at = "first", !.bg = bg, !.slot = FreeFrom(m)]
  BY DEF GetPipe, InShell, InUser, Step
<1>2. Good(m', NoProc) /\ m'.call = m.call /\ FreeFrom(m) \in Slots
  BY <1>1, GetPipeKeeps DEF PipeInv
<1>3. m'.call[Shell].op # "waitpid"
  BY <1>1, <1>2 DEF NoCall
<1>4. FreeFrom(m) \in Descriptors
  BY <1>2 DEF Descriptors
<1>5. ShellOK'
  BY <1>1, <1>2, <1>3, <1>4, Prompt, ShellIdle DEF AtPrompt, PipeInv
<1> QED BY <1>2, <1>5 DEF PipeInv

LEMMA FirstKeeps ==
  ASSUME PipeInv, NEW p \in Procs, CreateFirst(p)
  PROVE  PipeInv'
<1>1. /\ m.status[p] = "free" /\ m.call[Shell] = NoCall /\ sh.at = "first"
      /\ m' = init_process(m, p, Stdin(sh.bg), sh.slot)
      /\ sh' = [sh EXCEPT !.at = "second", !.one = p]
  BY DEF CreateFirst, InShell, InUser, NextFree, Step
<1>2. sh.bg \in BOOLEAN /\ sh.slot \in Slots /\ sh.slot \in Descriptors
  BY <1>1 DEF PipeInv, ShellOK, Descriptors
<1>3. Good(m', NoProc) /\ WaitsOn(m, m')
  BY <1>1, <1>2, InputOf, InitProcessKeeps DEF PipeInv
<1>4. m'.call[Shell].op # "waitpid"
  BY <1>1, <1>3 DEF WaitsOn, NoCall
<1>5. ShellOK'
  BY <1>1, <1>2, <1>4, ShellIdle DEF PipeInv, ShellOK
<1> QED BY <1>3, <1>5 DEF PipeInv

LEMMA SecondKeeps ==
  ASSUME PipeInv, NEW p \in Procs, CreateSecond(p)
  PROVE  PipeInv'
<1>1. /\ m.status[p] = "free" /\ m.call[Shell] = NoCall /\ sh.at = "second"
      /\ m' = init_process(m, p, sh.slot, Tty)
      /\ sh' = IF sh.bg THEN AtPrompt ELSE [sh EXCEPT !.at = "wait_one", !.two = p]
  BY DEF CreateSecond, InShell, InUser, NextFree, Step
<1>2. sh.bg \in BOOLEAN /\ sh.slot \in Descriptors /\ Tty \in Descriptors /\ sh.one \in Procs
  BY <1>1 DEF PipeInv, ShellOK, Descriptors
<1>3. Good(m', NoProc) /\ WaitsOn(m, m')
  BY <1>1, <1>2, InitProcessKeeps DEF PipeInv
<1>4. m'.call[Shell].op # "waitpid"
  BY <1>1, <1>3 DEF WaitsOn, NoCall
<1>5. CASE sh.bg
  <2>1. ShellOK'
    BY <1>1, <1>4, <1>5, Prompt, ShellIdle DEF AtPrompt, PipeInv
  <2> QED BY <1>3, <2>1 DEF PipeInv
<1>6. CASE ~ sh.bg
  <2>1. ShellOK'
    BY <1>1, <1>2, <1>4, <1>6, ShellIdle DEF PipeInv, ShellOK
  <2> QED BY <1>3, <2>1 DEF PipeInv
<1> QED BY <1>5, <1>6

LEMMA FailKeeps ==
  ASSUME PipeInv, FirstFails \/ SecondFails
  PROVE  PipeInv'
<1>1. m.status[Shell] = "ready" /\ m.call[Shell] = NoCall /\ sh' = AtPrompt
  BY DEF FirstFails, SecondFails, InShell, InUser, Runs
<1>2. Good(m', NoProc) /\ WaitsOn(m, m')
  <2>1. CASE m' = m
    BY <2>1 DEF PipeInv, WaitsOn
  <2>2. CASE m' # m
    <3>1. SecondFails /\ m.status[sh.one] # "zombie" /\ m' = kill_process(m, Shell, sh.one)
      BY <2>2 DEF FirstFails, SecondFails, Step
    <3>2. sh.one \in Procs
      BY <3>1 DEF PipeInv, ShellOK, SecondFails, InShell
    <3> QED BY <1>1, <3>1, <3>2, KillKeeps, Pids DEF PipeInv
  <2> QED BY <2>1, <2>2
<1>3. m'.call[Shell].op # "waitpid"
  BY <1>1, <1>2 DEF WaitsOn, NoCall
<1>4. ShellOK'
  BY <1>1, <1>3, Prompt, ShellIdle DEF AtPrompt, PipeInv
<1> QED BY <1>2, <1>4 DEF PipeInv

LEMMA ReapedKeeps ==
  ASSUME PipeInv, Reaped, m.status[Shell] = "ready", Awaited \in m.linked,
         sh.at \in {"wait_one", "wait_two"}
  PROVE  PipeInv'
<1> DEFINE a == Awaited
<1>1. /\ m' = free_process([Return(m, Shell) EXCEPT !.waits = NoProc], a)
      /\ sh' = IF sh.at = "wait_one" THEN [sh EXCEPT !.at = "wait_two"] ELSE AtPrompt
      /\ a \in m.linked
  BY DEF Reaped, Step
<1> HIDE DEF a
<1>2. Good(m', NoProc) /\ m'.call[Shell].op # "waitpid"
  BY <1>1, ReapKeeps DEF PipeInv
<1>3. CASE sh.at = "wait_one"
  <2>1. ShellOK'
    BY <1>1, <1>2, <1>3, ShellIdle DEF PipeInv, ShellOK
  <2> QED BY <1>2, <2>1 DEF PipeInv
<1>4. CASE sh.at # "wait_one"
  <2>1. ShellOK'
    BY <1>1, <1>2, <1>4, Prompt, ShellIdle DEF AtPrompt, PipeInv
  <2> QED BY <1>2, <2>1 DEF PipeInv
<1> QED BY <1>3, <1>4

LEMMA WaitKeeps ==
  ASSUME PipeInv, WaitZombie \/ WaitHalfDead \/ WaitBlock \/ WaitReturn
  PROVE  PipeInv'
<1>1. m.status[Shell] = "ready" \/ WaitHalfDead
  BY DEF WaitZombie, WaitBlock, WaitReturn, InWait, InUser, Runs
<1>2. CASE WaitZombie
  BY <1>1, <1>2, ReapedKeeps DEF WaitZombie, WaitHalfDead, InWait, InUser, Runs
<1>3. CASE WaitHalfDead
  <2>1. m' = m /\ sh' = sh
    BY <1>3 DEF WaitHalfDead, Crash
  <2>2. Good(m', NoProc) /\ WaitsOn(m, m')
    BY <2>1 DEF PipeInv, WaitsOn
  <2>3. ShellOK'
    BY <2>1, <2>2, ShellStays DEF PipeInv
  <2> QED BY <2>2, <2>3 DEF PipeInv
<1>4. CASE WaitBlock
  <2> DEFINE a == Awaited
  <2>1. /\ m.status[Shell] = "ready" /\ sh.at \in {"wait_one", "wait_two"} /\ sh' = sh
        /\ m' = [Block(m, Shell) EXCEPT !.waits = a,
                                        !.call[Shell] = [op |-> "waitpid", slot |-> Tty]]
    BY <1>4 DEF WaitBlock, InWait, InUser, Runs, Step
  <2>2. a \in Procs
    BY <2>1 DEF PipeInv, ShellOK, Awaited
  <2>3. Good(m', NoProc) /\ m'.waits = a
    <3>1. Good(m, NoProc)
      BY DEF PipeInv
    <3> HIDE DEF a
    <3> QED BY <2>1, <2>2, <3>1, WaitBlockKeeps, Zenon
  <2>4. ShellOK'
    <3>1. Awaited' = a
      BY <2>1 DEF Awaited
    <3>2. Awaited' = m'.waits
      <4> HIDE DEF a
      <4> QED BY <2>3, <3>1
    <3> QED BY <2>1, <3>2 DEF PipeInv, ShellOK
  <2> QED BY <2>3, <2>4 DEF PipeInv
<1>5. CASE WaitReturn
  <2>1. Reaped /\ m.status[Shell] = "ready" /\ m.call[Shell].op = "waitpid"
    BY <1>5 DEF WaitReturn, Runs
  <2>2. sh.at \in {"wait_one", "wait_two"} /\ m.waits = Awaited
    BY <2>1 DEF PipeInv, ShellOK
  <2>3. m.waits \in m.linked
    BY <2>1, Pids DEF PipeInv, Good, CallOK, WaitOK
  <2> QED BY <2>1, <2>2, <2>3, ReapedKeeps
<1> QED BY <1>2, <1>3, <1>4, <1>5

(* A child whose exit was cut is what WaitCut needs.                       *)
LEMMA NoWaitCut ==
  ASSUME cut = {}
  PROVE  ~ WaitCut
BY DEF WaitCut, Abandoned

LEMMA ShellSteps ==
  ASSUME PipeInv, ShellNext, cut = {}
  PROVE  PipeInv'
<1>1. CASE ShellResumes
  <2>1. Good(m', NoProc) /\ WaitsOn(m, m') /\ sh' = sh
    BY <1>1, CloseSteps, Pids DEF ShellResumes, PipeInv
  <2>2. ShellOK'
    BY <2>1, ShellStays DEF PipeInv
  <2> QED BY <2>1, <2>2 DEF PipeInv
<1> QED BY <1>1, SingleKeeps, GetsPipe, FirstKeeps, SecondKeeps, FailKeeps, WaitKeeps, NoWaitCut
        DEF ShellNext

LEMMA PipeStep ==
  ASSUME PipeInv, [Whole]_shellVars, cut = {}
  PROVE  PipeInv'
<1>1. CASE ProcNext /\ sh' = sh
  <2>1. Good(m', NoProc) /\ WaitsOn(m, m')
    BY <1>1, ProcSteps DEF PipeInv
  <2>2. ShellOK'
    BY <1>1, <2>1, ShellStays DEF PipeInv
  <2> QED BY <2>1, <2>2 DEF PipeInv
<1>2. CASE UNCHANGED shellVars
  <2>1. m' = m /\ sh' = sh
    BY <1>2 DEF shellVars
  <2>2. Good(m', NoProc) /\ WaitsOn(m, m')
    BY <2>1 DEF PipeInv, WaitsOn
  <2>3. ShellOK'
    BY <2>1, <2>2, ShellStays DEF PipeInv
  <2> QED BY <2>2, <2>3 DEF PipeInv
<1> QED BY <1>1, <1>2, ShellSteps DEF Whole

(* As long as no exit has been cut every step is a whole one.              *)
LEMMA UncutStep ==
  ASSUME [Next]_shellVars, cut' = {}
  PROVE  cut = {} /\ [Whole]_shellVars
<1>1. CASE Whole
  BY <1>1 DEF Whole
<1>2. CASE UNCHANGED shellVars
  BY <1>2 DEF shellVars
<1>3. ASSUME NEW p \in Procs, CutShort(p) PROVE FALSE
  <2>1. cut' = cut \cup {p}
    BY <1>3 DEF CutShort, ExitCut
  <2> QED BY <2>1
<1> QED BY <1>1, <1>2, <1>3 DEF Next

LEMMA PipeStart ==
  ASSUME ShellInit
  PROVE  PipeInv
<1>1. /\ m.pipes = [i \in Slots |-> NULL] /\ m.cursor = 0
      /\ m.status = [p \in All |-> IF p = Shell THEN "ready" ELSE "free"]
      /\ m.fds = [p \in All |-> [in |-> Tty, out |-> Tty]]
      /\ m.waits = NoProc /\ m.linked = {}
      /\ m.call = [p \in All |-> NoCall]
      /\ m.sent = [p \in All |-> 0] /\ m.ended = [p \in All |-> FALSE]
      /\ m.taken = [i \in Slots |-> << >>]
      /\ sh = AtPrompt
  BY DEF ShellInit, Init
<1>2. m \in State
  <2>1. 0 \in Slots /\ Tty \in Descriptors /\ NoCall \in Calls /\ << >> \in Seq(Int)
    BY Sizes DEF Slots, Descriptors, Calls
  <2> DEFINE P == [i \in Slots |-> NULL]
             S == [p \in All |-> IF p = Shell THEN "ready" ELSE "free"]
             F == [p \in All |-> [in |-> Tty, out |-> Tty]]
             C == [p \in All |-> NoCall]
             N == [p \in All |-> 0]
             E == [p \in All |-> FALSE]
             K == [i \in Slots |-> << >>]
  <2>2. /\ P \in [Slots -> Pipes \cup {NULL}]
        /\ S \in [All -> {"free", "ready", "blocked", "zombie"}]
        /\ F \in [All -> [in : Descriptors, out : Descriptors]]
        /\ C \in [All -> Calls] /\ N \in [All -> Nat] /\ E \in [All -> BOOLEAN]
        /\ K \in [Slots -> Seq(Int)]
    BY <2>1
  <2>3. m = [pipes |-> P, cursor |-> 0, status |-> S, fds |-> F, waits |-> NoProc,
             linked |-> {}, call |-> C, sent |-> N, ended |-> E, taken |-> K]
    BY DEF ShellInit, Init
  <2> HIDE DEF P, S, F, C, N, E, K
  <2> QED BY <2>1, <2>2, <2>3 DEF State
<1>3. \A p \in All : m.call[p].op = "none" /\ m.status[p] \in {"free", "ready"}
  BY <1>1 DEF NoCall
<1>4. Good(m, NoProc)
  BY <1>1, <1>2, <1>3, Pids
     DEF Good, CallOK, InUserOK, WaitOK, WriteOK, ReadOK, CloseOK, Closes
<1>5. ShellOK
  BY <1>1, <1>3, Prompt, Pids DEF ShellOK, AtPrompt
<1> QED BY <1>4, <1>5 DEF PipeInv

LEMMA WhoSleeps ==
  ASSUME PipeInv
  PROVE  NoLostPipeWakeup
<1> SUFFICES ASSUME NEW p \in Procs, m.status[p] = "blocked"
             PROVE  LET i == m.call[p].slot
                    IN  /\ m.pipes[i] # NULL
                        /\ m.pipes[i].blocking
                        /\ IF m.call[p].op = "write"
                             THEN m.pipes[i].in = p /\ m.pipes[i].size = PipeSize
                             ELSE m.pipes[i].out = p /\ NothingToRead(m.pipes[i])
  BY DEF NoLostPipeWakeup
<1>1. m \in State /\ p \in All /\ p # Shell /\ CallOK(m, p)
  BY Pids DEF PipeInv, Good
<1>2. m.call[p] \in Calls
  BY <1>1, Fields
<1>3. m.call[p].op \in {"write", "read", "read_first"}
  <2>1. m.call[p].op \notin {"none", "waitpid"}
    BY <1>1 DEF CallOK, InUserOK, WaitOK
  <2>2. m.call[p].op # "close"
    BY <1>1 DEF CallOK, CloseOK
  <2> QED BY <1>2, <2>1, <2>2, CallKinds
<1> QED BY <1>1, <1>3 DEF CallOK, WriteOK, ReadOK, Open

-----------------------------------------------------------------------------
(* The invariant of the pipes and of the shell above them, whatever the    *)
(* commands do and however they die, until a tick cuts an exit: everyone   *)
(* inside pipe_read, pipe_write or pipe_close has the pipe, the dead       *)
(* process and the child it counts on (pipe.c, kill_process, waitpid).     *)
THEOREM PipesCorrect == Spec => [](cut = {} => PipeInv)
<1>1. ShellInit => PipeInv
  BY PipeStart
<1>2. (cut = {} => PipeInv) /\ [Next]_shellVars => (cut = {} => PipeInv)'
  BY UncutStep, PipeStep
<1> QED BY <1>1, <1>2, PTL DEF Spec

(* Whatever the commands read and write, however they die, for every       *)
(* number and size of the pipes, until a tick cuts an exit: a process that *)
(* sleeps in a pipe has an open pipe in the slot it will look at, is the   *)
(* process that the pipe's other end wakes, the flag that makes it do so   *)
(* is set, and there is nothing to read or no room (pipe_write, pipe_read, *)
(* pipe_close): only an exit that is cut loses a wake-up.                  *)
THEOREM SleepersWoken == Spec => [](cut = {} => NoLostPipeWakeup)
<1>1. PipeInv => NoLostPipeWakeup
  BY WhoSleeps
<1> QED BY <1>1, PipesCorrect, PTL
-----------------------------------------------------------------------------
(* The bytes in the circular buffer.                                       *)
Byte(pipe, n) == pipe.buffer[Place(pipe, n - 1)]

(* No place holds an end of file. *)
NoEOF(pipe) == \A x \in 0 .. PipeSize - 1 : pipe.buffer[x] # EOF

LEMMA PlaceIs ==
  ASSUME NEW pipe \in Pipes, NEW n \in 0 .. PipeSize
  PROVE  /\ Place(pipe, n) = IF pipe.start + n < PipeSize THEN pipe.start + n
                             ELSE (pipe.start + n) - PipeSize
         /\ Place(pipe, n) \in 0 .. PipeSize - 1
<1> DEFINE x == pipe.start + n
<1>1. pipe.start \in 0 .. PipeSize - 1 /\ x \in Nat /\ x < 2 * PipeSize
  BY Sizes DEF Pipes
<1> HIDE DEF x
<1>2. x % PipeSize = IF x < PipeSize THEN x ELSE x - PipeSize
  BY <1>1, Sizes
<1>3. Place(pipe, n) = x % PipeSize
  BY DEF Place, x
<1>4. Place(pipe, n) \in 0 .. PipeSize - 1
  BY <1>1, <1>2, <1>3, Sizes
<1>5. Place(pipe, n) = IF x < PipeSize THEN x ELSE x - PipeSize
  BY <1>2, <1>3
<1> USE DEF x
<1> QED BY <1>4, <1>5, Zenon

LEMMA PlacesApart ==
  ASSUME NEW pipe \in Pipes, NEW a \in 0 .. PipeSize - 1, NEW b \in 0 .. PipeSize - 1, a # b
  PROVE  Place(pipe, a) # Place(pipe, b)
<1>1. pipe.start \in 0 .. PipeSize - 1 /\ a \in 0 .. PipeSize /\ b \in 0 .. PipeSize
  BY Sizes DEF Pipes
<1> QED BY <1>1, PlaceIs, Sizes

(* Places are the same where the pipe starts at the same place. *)
LEMMA SamePlace ==
  ASSUME NEW a, NEW b, a.start = b.start, NEW n
  PROVE  Place(a, n) = Place(b, n)
BY DEF Place

(* The j-th of l places behind the first s. *)
LEMMA PlaceBehind ==
  ASSUME NEW s \in Nat, NEW l \in Nat, NEW j \in 1 .. l, s + l <= PipeSize
  PROVE  /\ s + j - 1 \in 0 .. PipeSize - 1 /\ s + j - 1 \in Int
         /\ \A n \in 1 .. s : s + j - 1 # n - 1
BY Sizes

LEMMA FilledBytes ==
  ASSUME NEW pipe \in Pipes, NEW data \in Seq(Int), pipe.size + Len(data) <= PipeSize
  PROVE  LET f == Filled(pipe, data)
         IN  /\ f.start = pipe.start
             /\ \A n \in 1 .. pipe.size : Byte(f, n) = Byte(pipe, n)
             /\ \A j \in 1 .. Len(data) : Byte(f, pipe.size + j) = data[j]
             /\ NoEOF(pipe) /\ (\A j \in 1 .. Len(data) : data[j] # EOF) => NoEOF(f)
<1> DEFINE spot(j) == Place(pipe, pipe.size + j - 1)
           at(x, j) == x = spot(j)
           cell(x) == IF \E j \in 1 .. Len(data) : at(x, j)
                        THEN data[CHOOSE j \in 1 .. Len(data) : at(x, j)]
                        ELSE pipe.buffer[x]
           buf == [x \in 0 .. PipeSize - 1 |-> cell(x)]
           f == Filled(pipe, data)
<1>1. /\ pipe.size \in 0 .. PipeSize /\ Len(data) \in Nat /\ PipeSize \in Nat
      /\ pipe.size \in Nat /\ DOMAIN pipe.buffer = 0 .. PipeSize - 1
  BY Sizes DEF Pipes
<1>2. f = [pipe EXCEPT !.buffer = buf, !.size = pipe.size + Len(data)]
  BY <1>1 DEF Filled
<1> HIDE DEF buf
<1>3. f.buffer = buf /\ f.start = pipe.start
  BY <1>2 DEF Pipes
<1> HIDE DEF f
<1> USE DEF buf
<1>4. \A n \in Int : Place(f, n) = Place(pipe, n)
  BY <1>3, SamePlace
<1>5. \A a, b \in 0 .. PipeSize - 1 :
         Place(pipe, a) \in 0 .. PipeSize - 1 /\ (a # b => Place(pipe, a) # Place(pipe, b))
  BY <1>1, PlaceIs, PlacesApart
<1>6. ASSUME NEW n \in 1 .. pipe.size PROVE Byte(f, n) = Byte(pipe, n)
  <2>1. n - 1 \in 0 .. PipeSize - 1 /\ n - 1 \in Int
    BY <1>1
  <2>2. \A j \in 1 .. Len(data) : ~ at(Place(pipe, n - 1), j)
    <3> SUFFICES ASSUME NEW j \in 1 .. Len(data) PROVE Place(pipe, n - 1) # spot(j)
      OBVIOUS
    <3>1. pipe.size + j - 1 \in 0 .. PipeSize - 1 /\ pipe.size + j - 1 # n - 1
      BY <1>1, PlaceBehind
    <3> QED BY <1>5, <2>1, <3>1
  <2>3. cell(Place(pipe, n - 1)) = pipe.buffer[Place(pipe, n - 1)]
    BY <2>2
  <2>4. Place(pipe, n - 1) \in 0 .. PipeSize - 1
    BY <1>5, <2>1
  <2> HIDE DEF cell
  <2> QED BY <1>3, <1>4, <2>1, <2>3, <2>4 DEF Byte
<1>7. ASSUME NEW j \in 1 .. Len(data) PROVE Byte(f, pipe.size + j) = data[j]
  <2>1. pipe.size + j - 1 \in 0 .. PipeSize - 1 /\ pipe.size + j - 1 \in Int
    BY <1>1, PlaceBehind
  <2>2. spot(j) \in 0 .. PipeSize - 1
    BY <1>5, <2>1
  <2>3. ASSUME NEW h \in 1 .. Len(data), spot(h) = spot(j) PROVE h = j
    <3>1. pipe.size + h - 1 \in 0 .. PipeSize - 1
      BY <1>1, PlaceBehind
    <3> DEFINE a == pipe.size + h - 1
               b == pipe.size + j - 1
    <3>3. a \in 0 .. PipeSize - 1 /\ b \in 0 .. PipeSize - 1 /\ Place(pipe, a) = Place(pipe, b)
      BY <2>1, <2>3, <3>1
    <3> HIDE DEF a, b
    <3>4. a = b
      BY <1>5, <3>3, Zenon
    <3>2. pipe.size + h - 1 = pipe.size + j - 1
      BY <3>4 DEF a, b
    <3> QED BY <1>1, <3>2
  <2> HIDE DEF spot
  <2>4. (CHOOSE h \in 1 .. Len(data) : at(spot(j), h)) = j
    BY <2>3
  <2>5. \E h \in 1 .. Len(data) : at(spot(j), h)
    OBVIOUS
  <2>6. cell(spot(j)) = data[j]
    BY <2>4, <2>5
  <2> HIDE DEF cell
  <2>7. f.buffer[spot(j)] = data[j]
    BY <1>3, <2>2, <2>6
  <2>8. Place(f, pipe.size + j - 1) = spot(j)
    BY <1>4, <2>1 DEF spot
  <2>9. (pipe.size + j) - 1 = pipe.size + j - 1
    BY <1>1
  <2>10. Byte(f, pipe.size + j) = f.buffer[Place(f, (pipe.size + j) - 1)]
    BY DEF Byte
  <2> QED BY <2>7, <2>8, <2>9, <2>10, Zenon
<1>8. ASSUME NoEOF(pipe), \A j \in 1 .. Len(data) : data[j] # EOF PROVE NoEOF(f)
  <2> SUFFICES ASSUME NEW x \in 0 .. PipeSize - 1 PROVE cell(x) # EOF
    BY <1>3 DEF NoEOF
  <2> HIDE DEF spot
  <2>1. CASE \E j \in 1 .. Len(data) : at(x, j)
    <3> DEFINE h == CHOOSE j \in 1 .. Len(data) : at(x, j)
    <3>1. h \in 1 .. Len(data)
      BY <2>1
    <3>2. cell(x) = data[h]
      BY <2>1
    <3> HIDE DEF h, cell
    <3> QED BY <1>8, <3>1, <3>2
  <2>2. CASE ~ \E j \in 1 .. Len(data) : at(x, j)
    BY <1>8, <2>2 DEF NoEOF
  <2> QED BY <2>1, <2>2
<1> QED BY <1>3, <1>6, <1>7, <1>8 DEF f

LEMMA DrainedBytes ==
  ASSUME NEW pipe \in Pipes, NEW n \in 0 .. pipe.size
  PROVE  LET d == Drained(pipe, n)
         IN  /\ d.buffer = pipe.buffer
             /\ \A j \in 1 .. pipe.size - n : Byte(d, j) = Byte(pipe, n + j)
             /\ Ended(d) <=> Ended(pipe)
<1> DEFINE pl == Place(pipe, n)
           d == Drained(pipe, n)
<1>1. /\ pipe.size \in 0 .. PipeSize /\ PipeSize \in Nat /\ n \in 0 .. PipeSize
      /\ pipe.start \in 0 .. PipeSize - 1
  BY Sizes DEF Pipes
<1>2. d = [pipe EXCEPT !.start = pl, !.size = pipe.size - n]
  BY DEF Drained
<1> HIDE DEF pl
<1>3. d.buffer = pipe.buffer /\ d.start = pl /\ d.size = pipe.size - n
  BY <1>2 DEF Pipes
<1>4. d \in Pipes
  BY DrainedPipe
<1> HIDE DEF d
<1>5. ASSUME NEW j \in 0 .. pipe.size - n PROVE Place(d, j) = Place(pipe, n + j)
  <2>1. j \in 0 .. PipeSize /\ n + j \in 0 .. PipeSize
    BY <1>1
  <2>2. d.start = IF pipe.start + n < PipeSize THEN pipe.start + n ELSE pipe.start + n - PipeSize
    BY <1>1, <1>3, PlaceIs DEF pl
  <2>3. Place(d, j) = IF d.start + j < PipeSize THEN d.start + j ELSE (d.start + j) - PipeSize
    BY <1>4, <2>1, PlaceIs
  <2>4. Place(pipe, n + j) = IF pipe.start + (n + j) < PipeSize THEN pipe.start + (n + j)
                             ELSE (pipe.start + (n + j)) - PipeSize
    BY <2>1, PlaceIs
  <2> QED BY <1>1, <2>1, <2>2, <2>3, <2>4
<1>6. ASSUME NEW j \in 1 .. pipe.size - n PROVE Byte(d, j) = Byte(pipe, n + j)
  <2>1. j - 1 \in 0 .. pipe.size - n /\ n + (j - 1) = n + j - 1
    BY <1>1
  <2> QED BY <1>3, <1>5, <2>1 DEF Byte
<1>7. Ended(d) <=> Ended(pipe)
  <2>1. pipe.size - n \in 0 .. pipe.size - n /\ n + (pipe.size - n) = pipe.size
    BY <1>1
  <2> QED BY <1>3, <1>5, <2>1 DEF Ended
<1> QED BY <1>3, <1>6, <1>7 DEF d

LEMMA EOFBytes ==
  ASSUME NEW pipe \in Pipes, pipe.size < PipeSize
  PROVE  LET e == WithEOF(pipe)
         IN  /\ \A n \in 1 .. pipe.size : Byte(e, n) = Byte(pipe, n)
             /\ Ended(e)
<1> DEFINE pl == Place(pipe, pipe.size)
           e == WithEOF(pipe)
<1>1. /\ pipe.size \in 0 .. PipeSize - 1 /\ PipeSize \in Nat
      /\ pipe.buffer \in [0 .. PipeSize - 1 -> Int]
  BY Sizes DEF Pipes
<1>2. pl \in 0 .. PipeSize - 1
  BY <1>1, PlaceIs
<1>3. e = [pipe EXCEPT !.buffer[pl] = EOF]
  BY DEF WithEOF
<1>4. ASSUME NEW n \in 1 .. pipe.size
      PROVE  Place(pipe, n - 1) \in 0 .. PipeSize - 1 /\ Place(pipe, n - 1) # pl
  <2>1. n - 1 \in 0 .. PipeSize - 1 /\ n - 1 \in 0 .. PipeSize /\ n - 1 # pipe.size
    BY <1>1
  <2> QED BY <1>1, <2>1, PlaceIs, PlacesApart
<1> HIDE DEF pl
<1>5. /\ e.start = pipe.start /\ e.size = pipe.size /\ e.buffer[pl] = EOF
      /\ \A x \in 0 .. PipeSize - 1 : x # pl => e.buffer[x] = pipe.buffer[x]
  BY <1>1, <1>2, <1>3 DEF Pipes
<1> HIDE DEF e
<1>6. \A n : Place(e, n) = Place(pipe, n)
  BY <1>5, SamePlace
<1>7. \A n \in 1 .. pipe.size : Byte(e, n) = Byte(pipe, n)
  BY <1>4, <1>5, <1>6 DEF Byte
<1>8. Ended(e)
  BY <1>5, <1>6 DEF Ended, pl
<1> QED BY <1>7, <1>8 DEF e

-----------------------------------------------------------------------------
(* What is true of the bytes: of those in slot i, of its writer and what   *)
(* that still holds in pipe_write, of what each process has sent, and of a *)
(* kill that waits to close a pipe which the reader has freed meanwhile.   *)
Held(s, i) == Len(s.taken[i]) + s.pipes[i].size

PendingOf(s, p) == IF s.call[p].op = "write" THEN s.call[p].data ELSE << >>

SlotOK(s, i) ==
  /\ \A n \in 1 .. Len(s.taken[i]) : s.taken[i][n] = n
  /\ \A n \in 1 .. s.pipes[i].size : Byte(s.pipes[i], n) = Len(s.taken[i]) + n

WriterOK(s, i) ==
  LET p == s.pipes[i].in
  IN  p # NoProc =>
        /\ NoEOF(s.pipes[i])
        /\ s.fds[p].out = i
        /\ s.status[p] # "free" /\ p \notin s.linked
        /\ s.call[p].op = "write" => s.call[p].live /\ s.call[p].slot = i
        /\ \A n \in 1 .. Len(PendingOf(s, p)) : PendingOf(s, p)[n] = Held(s, i) + n
        /\ s.status[p] # "zombie" => s.sent[p] = Held(s, i) + Len(PendingOf(s, p))

SentOK(s) ==
  \A p \in Procs : s.sent[p] <= MaxBytes /\ (s.status[p] = "free" => s.sent[p] = 0)

NobodyWrites(s, v) == \A i \in Slots : Open(s, i) => s.pipes[i].in # v

StrayOK(s) ==
  \A q \in All, v \in Procs : Closes(s, q, v) /\ ~ s.call[q].live => NobodyWrites(s, v)

Bytes(s) ==
  /\ \A i \in Slots : Open(s, i) => SlotOK(s, i) /\ WriterOK(s, i)
  /\ SentOK(s)
  /\ StrayOK(s)

(* A pipe that nobody has opened yet. *)
Untouched(s, i) ==
  /\ Open(s, i) /\ s.pipes[i].in = NoProc /\ s.pipes[i].out = NoProc
  /\ s.pipes[i].size = 0 /\ s.taken[i] = << >> /\ NoEOF(s.pipes[i])

BytesKept(s, t) == Bytes(t) /\ \A i \in Slots : Untouched(s, i) => Untouched(t, i)

(* What most steps leave as it was. *)
SameAt(s, t, i) ==
  /\ Open(t, i) <=> Open(s, i)
  /\ Open(s, i) => SamePipe(t.pipes[i], s.pipes[i])
  /\ t.taken[i] = s.taken[i]

SameProcs(s, t) ==
  /\ t.fds = s.fds /\ t.linked = s.linked /\ t.sent = s.sent
  /\ \A r \in All : /\ t.status[r] = "free" <=> s.status[r] = "free"
                    /\ t.status[r] = "zombie" <=> s.status[r] = "zombie"

Quiet(s, t) == SameProcs(s, t) /\ \A i \in Slots : SameAt(s, t, i)

(* Nobody has become a writer. *)
NoNewWriter(s, t) ==
  \A i \in Slots : Open(t, i) => \/ t.pipes[i].in = NoProc
                                 \/ Open(s, i) /\ t.pipes[i].in = s.pipes[i].in

(* A writer whose bytes are where they were, or who has died. *)
SameWriter(s, t, p) ==
  /\ t.fds[p].out = s.fds[p].out
  /\ t.status[p] # "free" /\ (p \in t.linked => p \in s.linked)
  /\ t.sent[p] = s.sent[p]
  /\ s.status[p] = "zombie" => t.status[p] = "zombie"
  /\ \/ t.call[p] = s.call[p]
     \/ t.call[p].op # "write" /\ (s.call[p].op # "write" \/ t.status[p] = "zombie")

LEMMA QuietTransitive ==
  ASSUME NEW s, NEW t, NEW u, Quiet(s, t), Quiet(t, u)
  PROVE  Quiet(s, u)
BY DEF Quiet, SameProcs, SameAt, SamePipe, Open

LEMMA SamePipeBytes ==
  ASSUME NEW a, NEW b, SamePipe(b, a)
  PROVE  /\ \A n : Byte(b, n) = Byte(a, n)
         /\ NoEOF(b) <=> NoEOF(a)
         /\ Ended(b) <=> Ended(a)
BY DEF SamePipe, Byte, NoEOF, Ended, Place

LEMMA SameSlot ==
  ASSUME NEW s, NEW t, NEW i, SameAt(s, t, i), Open(s, i)
  PROVE  /\ SlotOK(s, i) => SlotOK(t, i)
         /\ Held(t, i) = Held(s, i) /\ t.pipes[i].in = s.pipes[i].in
         /\ NoEOF(t.pipes[i]) <=> NoEOF(s.pipes[i])
         /\ Untouched(s, i) => Untouched(t, i)
<1>1. /\ SamePipe(t.pipes[i], s.pipes[i]) /\ t.taken[i] = s.taken[i] /\ Open(t, i)
  BY DEF SameAt
<1>2. /\ t.pipes[i].size = s.pipes[i].size /\ t.pipes[i].in = s.pipes[i].in
      /\ t.pipes[i].out = s.pipes[i].out
      /\ \A n : Byte(t.pipes[i], n) = Byte(s.pipes[i], n)
      /\ NoEOF(t.pipes[i]) <=> NoEOF(s.pipes[i])
  BY <1>1, SamePipeBytes DEF SamePipe
<1> QED BY <1>1, <1>2 DEF SlotOK, Held, Untouched

LEMMA SameWriterOK ==
  ASSUME NEW s, NEW t, NEW i, WriterOK(s, i),
         t.pipes[i].in # NoProc =>
           /\ t.pipes[i].in = s.pipes[i].in
           /\ NoEOF(s.pipes[i]) => NoEOF(t.pipes[i])
           /\ Held(t, i) = Held(s, i)
           /\ SameWriter(s, t, s.pipes[i].in)
  PROVE  WriterOK(t, i)
<1> DEFINE p == s.pipes[i].in
<1> SUFFICES ASSUME t.pipes[i].in # NoProc PROVE WriterOK(t, i)
  BY DEF WriterOK
<1>1. /\ t.pipes[i].in = p /\ p # NoProc
      /\ Held(t, i) = Held(s, i) /\ SameWriter(s, t, p) /\ NoEOF(t.pipes[i])
  BY DEF WriterOK
<1>2. CASE t.call[p] = s.call[p]
  <2>1. PendingOf(t, p) = PendingOf(s, p)
    BY <1>2 DEF PendingOf
  <2> QED BY <1>1, <1>2, <2>1 DEF WriterOK, SameWriter
<1>3. CASE /\ t.call[p].op # "write"
           /\ s.call[p].op # "write" \/ t.status[p] = "zombie"
  <2>1. PendingOf(t, p) = << >> /\ (s.call[p].op # "write" => PendingOf(s, p) = << >>)
    BY <1>3 DEF PendingOf
  <2> QED BY <1>1, <1>3, <2>1 DEF WriterOK, SameWriter
<1> QED BY <1>1, <1>2, <1>3 DEF SameWriter

(* A slot that is as it was, its writer too.                               *)
LEMMA SlotKept ==
  ASSUME NEW s \in State, NEW t, NEW i \in Slots, Bytes(s), SameAt(s, t, i), Open(t, i),
         \A p \in Procs : s.pipes[i].in = p /\ s.status[p] # "free" => SameWriter(s, t, p)
  PROVE  SlotOK(t, i) /\ WriterOK(t, i)
<1>1. Open(s, i)
  BY DEF SameAt
<1>2. SlotOK(s, i) /\ WriterOK(s, i)
  BY <1>1 DEF Bytes
<1>3. s.pipes[i].in \in Procs \cup {NoProc}
  BY <1>1, Fields DEF Pipes
<1>4. s.pipes[i].in # NoProc => SameWriter(s, t, s.pipes[i].in)
  BY <1>2, <1>3 DEF WriterOK
<1> QED BY <1>1, <1>2, <1>4, SameSlot, SameWriterOK

LEMMA BytesFrom ==
  ASSUME NEW s, NEW t, Bytes(s), NoNewWriter(s, t), SentOK(t),
         \A i \in Slots : Open(t, i) => SlotOK(t, i) /\ WriterOK(t, i),
         \A q \in All : t.call[q].op = "close" =>
           \/ t.call[q].live \/ t.call[q] = s.call[q]
           \/ s.call[q].op = "close" /\ s.call[q].victim = t.call[q].victim
              /\ NobodyWrites(t, t.call[q].victim)
  PROVE  Bytes(t)
<1> SUFFICES ASSUME NEW q \in All, NEW v \in Procs, Closes(t, q, v), ~ t.call[q].live
             PROVE  NobodyWrites(t, v)
  BY DEF Bytes, StrayOK
<1>1. CASE t.call[q] = s.call[q]
  <2>1. NobodyWrites(s, v)
    BY <1>1 DEF Bytes, StrayOK, Closes
  <2>2. v # NoProc
    BY Pids
  <2> QED BY <2>1, <2>2 DEF NobodyWrites, NoNewWriter
<1> QED BY <1>1 DEF Closes

(* A step that touches no pipe, and of whose processes only calls that are *)
(* no writes change.                                                       *)
LEMMA QuietBytes ==
  ASSUME NEW s, NEW t, s \in State, t \in State, Bytes(s), Quiet(s, t),
         \A r \in All : \/ t.call[r] = s.call[r]
                        \/ /\ t.call[r].op # "write"
                           /\ s.call[r].op # "write" \/ NobodyWrites(s, r)
                           /\ t.call[r].op = "close" => t.call[r].live
  PROVE  BytesKept(s, t)
<1>1. ASSUME NEW i \in Slots, Open(t, i) PROVE SlotOK(t, i) /\ WriterOK(t, i)
  <2>1. Open(s, i) /\ SameAt(s, t, i)
    BY <1>1 DEF Quiet, SameAt
  <2>2. SlotOK(s, i) /\ WriterOK(s, i)
    BY <2>1 DEF Bytes
  <2>3. s.pipes[i].in \in Procs \cup {NoProc}
    BY <2>1, Fields DEF Pipes
  <2>4. s.pipes[i].in # NoProc => SameWriter(s, t, s.pipes[i].in)
    <3> SUFFICES ASSUME s.pipes[i].in # NoProc PROVE SameWriter(s, t, s.pipes[i].in)
      OBVIOUS
    <3> DEFINE p == s.pipes[i].in
    <3>1. p \in Procs /\ p \in All
      BY <2>3, Pids
    <3>2. s.status[p] # "free" /\ ~ NobodyWrites(s, p)
      BY <2>1, <2>2 DEF WriterOK, NobodyWrites
    <3> HIDE DEF p
    <3>3. SameWriter(s, t, p)
      BY <3>1, <3>2 DEF SameWriter, Quiet, SameProcs
    <3> QED BY <3>3 DEF p
  <2> QED BY <2>1, <2>2, <2>4, SameSlot, SameWriterOK
<1>2. NoNewWriter(s, t)
  BY DEF NoNewWriter, Quiet, SameAt, SamePipe
<1>3. SentOK(t)
  <2> SUFFICES ASSUME NEW p \in Procs
               PROVE  t.sent[p] <= MaxBytes /\ (t.status[p] = "free" => t.sent[p] = 0)
    BY Zenon DEF SentOK
  <2>1. p \in All /\ t.sent = s.sent
    BY Pids DEF Quiet, SameProcs
  <2>2. t.status[p] = "free" => s.status[p] = "free"
    BY <2>1 DEF Quiet, SameProcs
  <2>3. SentOK(s)
    BY DEF Bytes
  <2> QED BY <2>1, <2>2, <2>3 DEF SentOK
<1>4. Bytes(t)
  BY <1>1, <1>2, <1>3, BytesFrom
<1>5. \A i \in Slots : Untouched(s, i) => Untouched(t, i)
  BY SameSlot DEF Quiet, Untouched
<1> QED BY <1>4, <1>5 DEF BytesKept

-----------------------------------------------------------------------------
(* What the parts of the operations do.                                    *)
LEMMA SameIfEqual ==
  ASSUME NEW s \in State, NEW t \in State, NEW j \in Slots,
         t.pipes[j] = s.pipes[j], t.taken[j] = s.taken[j]
  PROVE  SameAt(s, t, j)
BY Fields DEF SameAt, Open, SamePipe

LEMMA WakeQuiet ==
  ASSUME NEW s \in State, NEW p \in Procs \cup {NoProc}
  PROVE  LET t == Wake(s, p) IN t \in State /\ Quiet(s, t) /\ t.call = s.call
<1> DEFINE t == Wake(s, p)
<1>1. /\ t \in State /\ SameCalls(s, t) /\ t.pipes = s.pipes
      /\ \A r \in All : t.status[r] = IF r = p /\ s.status[r] = "blocked"
                                        THEN "ready" ELSE s.status[r]
  BY WakeDoes
<1> HIDE DEF t
<1>2. \A i \in Slots : SameAt(s, t, i)
  BY <1>1, SameIfEqual DEF SameCalls
<1>3. SameProcs(s, t)
  BY <1>1 DEF SameCalls, SameProcs
<1> QED BY <1>1, <1>2, <1>3 DEF Quiet, SameCalls, t

LEMMA WakeOtherQuiet ==
  ASSUME NEW s \in State, NEW i \in Slots, Open(s, i), NEW p \in Procs \cup {NoProc}
  PROVE  LET t == WakeOther(s, i, p) IN t \in State /\ Quiet(s, t) /\ t.call = s.call
<1> DEFINE t == WakeOther(s, i, p)
<1>1. /\ t \in State /\ SameCalls(s, t)
      /\ \A j \in Slots \ {i} : t.pipes[j] = s.pipes[j]
      /\ SamePipe(t.pipes[i], s.pipes[i])
      /\ \A r \in All : t.status[r] =
           IF s.pipes[i].blocking /\ r = p /\ s.status[r] = "blocked"
             THEN "ready" ELSE s.status[r]
  BY WakeOtherDoes
<1> HIDE DEF t
<1>2. \A j \in Slots \ {i} : SameAt(s, t, j)
  BY <1>1, SameIfEqual DEF SameCalls
<1>3. SameAt(s, t, i)
  BY <1>1, NotFile DEF SameCalls, SameAt, Open, SamePipe
<1>4. SameProcs(s, t)
  BY <1>1 DEF SameCalls, SameProcs
<1> QED BY <1>1, <1>2, <1>3, <1>4 DEF Quiet, SameCalls, t

LEMMA ReturnQuiet ==
  ASSUME NEW s \in State, NEW p \in All
  PROVE  LET t == Return(s, p)
         IN  /\ t \in State /\ Quiet(s, t) /\ t.call[p] = NoCall
             /\ \A r \in All \ {p} : t.call[r] = s.call[r]
<1> DEFINE t == Return(s, p)
<1>1. NoCall \in Calls
  BY DEF Calls
<1>2. /\ t \in State /\ t.call[p] = NoCall /\ t.pipes = s.pipes /\ t.status = s.status
      /\ t.linked = s.linked /\ t.taken = s.taken /\ t.fds = s.fds /\ t.sent = s.sent
      /\ \A r \in All \ {p} : t.call[r] = s.call[r]
  BY <1>1 DEF State, Return
<1> HIDE DEF t
<1>3. \A i \in Slots : SameAt(s, t, i)
  BY <1>2, SameIfEqual
<1> QED BY <1>2, <1>3 DEF Quiet, SameProcs, t

LEMMA SleepQuiet ==
  ASSUME NEW s \in State, NEW p \in Procs, NEW i \in Slots, NEW c \in Calls,
         Open(s, i), s.status[p] = "ready"
  PROVE  LET t == Sleep(s, p, i, c)
         IN  /\ t \in State /\ Quiet(s, t) /\ t.call[p] = c
             /\ \A r \in All \ {p} : t.call[r] = s.call[r]
<1> DEFINE t == Sleep(s, p, i, c)
           u == [s EXCEPT !.pipes[i].blocking = TRUE]
           v == [u EXCEPT !.status[p] = "blocked"]
<1>1. s.pipes[i] \in Pipes /\ p \in All
  BY Fields, Pids
<1>2. /\ u \in State /\ SameCalls(s, u) /\ u.status = s.status
      /\ \A j \in Slots \ {i} : u.pipes[j] = s.pipes[j]
      /\ SamePipe(u.pipes[i], s.pipes[i])
  BY <1>1 DEF State, SameCalls, SamePipe, Pipes
<1>3. t = [v EXCEPT !.call[p] = c]
  BY <1>2 DEF Sleep, Block
<1> HIDE DEF u, t
<1>4. /\ v \in State /\ SameCalls(u, v) /\ v.pipes = u.pipes /\ v.status[p] = "blocked"
      /\ \A r \in All \ {p} : v.status[r] = u.status[r]
  BY <1>1, <1>2 DEF State, SameCalls
<1> HIDE DEF v
<1>5. /\ t \in State /\ t.call[p] = c /\ t.pipes = v.pipes /\ t.status = v.status
      /\ t.linked = v.linked /\ t.fds = v.fds /\ t.taken = v.taken /\ t.sent = v.sent
      /\ \A r \in All \ {p} : t.call[r] = v.call[r]
  BY <1>1, <1>3, <1>4 DEF State
<1>6. \A j \in Slots \ {i} : SameAt(s, t, j)
  BY <1>2, <1>4, <1>5, SameIfEqual DEF SameCalls
<1>7. SameAt(s, t, i)
  BY <1>2, <1>4, <1>5, NotFile DEF SameCalls, SameAt, Open, SamePipe
<1>8. SameProcs(s, t)
  BY <1>2, <1>4, <1>5 DEF SameCalls, SameProcs
<1> QED BY <1>2, <1>4, <1>5, <1>6, <1>7, <1>8 DEF Quiet, SameCalls, t

(* Another pipe in slot i.                                                 *)
LEMMA PipeSet ==
  ASSUME NEW s \in State, NEW i \in Slots, NEW new \in Pipes
  PROVE  LET t == [s EXCEPT !.pipes[i] = new]
         IN  /\ t \in State /\ t.pipes[i] = new /\ Open(t, i)
             /\ t.taken = s.taken /\ t.call = s.call /\ t.status = s.status /\ t.fds = s.fds
             /\ t.linked = s.linked /\ t.sent = s.sent /\ SameProcs(s, t)
             /\ \A j \in Slots \ {i} : t.pipes[j] = s.pipes[j] /\ SameAt(s, t, j)
<1> DEFINE t == [s EXCEPT !.pipes[i] = new]
<1>1. /\ t \in State /\ t.pipes[i] = new
      /\ t.taken = s.taken /\ t.call = s.call /\ t.status = s.status /\ t.fds = s.fds
      /\ t.linked = s.linked /\ t.sent = s.sent
      /\ \A j \in Slots \ {i} : t.pipes[j] = s.pipes[j]
  BY DEF State
<1> HIDE DEF t
<1>2. \A j \in Slots \ {i} : SameAt(s, t, j)
  BY <1>1, SameIfEqual
<1>3. Open(t, i)
  BY <1>1, NotFile DEF Open
<1> QED BY <1>1, <1>2, <1>3 DEF SameProcs, t

-----------------------------------------------------------------------------
(* A transfer in slot i: the others see nothing of it.                     *)
Aside(s, t, p, i) ==
  /\ Open(s, i) /\ Open(t, i)
  /\ t.pipes[i].in = s.pipes[i].in /\ t.pipes[i].out = s.pipes[i].out
  /\ \A j \in Slots \ {i} : SameAt(s, t, j)
  /\ SameProcs(s, t)
  /\ \A r \in All \ {p} : t.call[r] = s.call[r]

LEMMA AsideQuiet ==
  ASSUME NEW s, NEW t, NEW u, NEW p, NEW i \in Slots, Aside(s, t, p, i), Quiet(t, u),
         \A r \in All \ {p} : u.call[r] = t.call[r]
  PROVE  Aside(s, u, p, i)
BY DEF Aside, Quiet, SameProcs, SameAt, SamePipe, Open

(* p has put the first k bytes of data into the pipe i and keeps the rest. *)
PutIn(a, b, data, k) ==
  /\ b.size = a.size + k
  /\ \A n \in 1 .. a.size : Byte(b, n) = Byte(a, n)
  /\ \A j \in 1 .. k : Byte(b, a.size + j) = data[j]
  /\ NoEOF(a) /\ (\A j \in 1 .. k : data[j] # EOF) => NoEOF(b)

PutDone(s, t, p, i, data, k) ==
  /\ Aside(s, t, p, i)
  /\ k \in 0 .. Len(data)
  /\ t.taken[i] = s.taken[i]
  /\ PutIn(s.pipes[i], t.pipes[i], data, k)
  /\ t.call[p] = IF k = Len(data) THEN NoCall ELSE Writing(i, SubSeq(data, k + 1, Len(data)))

LEMMA SamePut ==
  ASSUME NEW a, NEW b, NEW c, NEW data, NEW k, PutIn(a, b, data, k), SamePipe(c, b)
  PROVE  PutIn(a, c, data, k)
BY SamePipeBytes DEF PutIn, SamePipe

LEMMA FullPut ==
  ASSUME NEW a \in Pipes, NEW b, SamePipe(b, a), NEW data
  PROVE  PutIn(a, b, data, 0)
<1>1. /\ b.size = a.size /\ \A n : Byte(b, n) = Byte(a, n)
      /\ NoEOF(b) <=> NoEOF(a)
  BY SamePipeBytes DEF SamePipe
<1>3. a.size \in Nat
  BY Sizes DEF Pipes
<1>2. a.size + 0 = a.size /\ \A j \in 1 .. 0 : FALSE
  BY <1>3
<1> QED BY <1>1, <1>2 DEF PutIn

LEMMA WriteOnDoes ==
  ASSUME NEW s \in State, NEW p \in Procs, NEW i \in Slots, NEW data \in Seq(Int), data # << >>,
         s.status[p] = "ready", Open(s, i)
  PROVE  LET t == WriteOn(s, p, i, data)
             k == Lesser(PipeSize - s.pipes[i].size, Len(data))
         IN  t \in State /\ PutDone(s, t, p, i, data, k)
<1> DEFINE pipe == s.pipes[i]
           n    == Lesser(PipeSize - pipe.size, Len(data))
           new  == Filled(pipe, SubSeq(data, 1, n))
           s1   == [s EXCEPT !.pipes[i] = new]
           s2   == WakeOther(s1, i, pipe.out)
           rest == SubSeq(data, n + 1, Len(data))
           t    == WriteOn(s, p, i, data)
<1>1. pipe \in Pipes /\ p \in All /\ pipe.out \in Procs \cup {NoProc}
  BY Fields, Pids DEF Pipes
<1>2. pipe.size \in 0 .. PipeSize /\ Len(data) \in Nat
  BY <1>1 DEF Pipes
<1>3. n \in Nat /\ n <= PipeSize - pipe.size /\ n <= Len(data)
  <2> HIDE DEF pipe
  <2>1. PipeSize - pipe.size \in Nat
    BY <1>2, Sizes
  <2> QED BY <1>2, <2>1, Least
<1>4. t = IF rest = << >> THEN Return(s2, p) ELSE Sleep(s2, p, i, Writing(i, rest))
  BY DEF WriteOn
<1> HIDE DEF n, t
<1>5. /\ SubSeq(data, 1, n) \in Seq(Int) /\ Len(SubSeq(data, 1, n)) = n
      /\ \A j \in 1 .. n : SubSeq(data, 1, n)[j] = data[j]
      /\ rest \in Seq(Int) /\ (rest = << >> <=> n = Len(data))
  BY <1>2, <1>3, Cut
<1> HIDE DEF pipe, rest
<1>6. new \in Pipes /\ new.in = pipe.in /\ new.out = pipe.out /\ PutIn(pipe, new, data, n)
  <2> DEFINE d == SubSeq(data, 1, n)
  <2>2. d \in Seq(Int) /\ Len(d) = n /\ \A j \in 1 .. n : d[j] = data[j]
    BY <1>5
  <2> HIDE DEF d
  <2>1. pipe.size + Len(d) <= PipeSize
    BY <1>2, <1>3, <2>2, Sizes
  <2>3. /\ new \in Pipes /\ new.in = pipe.in /\ new.out = pipe.out /\ new.size = pipe.size + n
        /\ \A x \in 1 .. pipe.size : Byte(new, x) = Byte(pipe, x)
        /\ \A j \in 1 .. Len(d) : Byte(new, pipe.size + j) = d[j]
        /\ NoEOF(pipe) /\ (\A j \in 1 .. Len(d) : d[j] # EOF) => NoEOF(new)
    <3>1. new = Filled(pipe, d)
      BY DEF d
    <3> HIDE DEF new
    <3> QED BY <1>1, <2>1, <2>2, <3>1, FilledPipe, FilledBytes
  <2> HIDE DEF new
  <2> QED BY <2>2, <2>3 DEF PutIn
<1> HIDE DEF new
<1>7. /\ s1 \in State /\ s1.pipes[i] = new /\ Open(s1, i) /\ s1.taken = s.taken
      /\ s1.call = s.call /\ s1.status = s.status /\ Aside(s, s1, p, i)
  BY <1>6, PipeSet DEF Aside, pipe
<1> HIDE DEF s1
<1>8. s2 \in State /\ Quiet(s1, s2) /\ s2.call = s1.call
  BY <1>1, <1>7, WakeOtherQuiet
<1>9. s2.status[p] = "ready"
  <2>1. \A r \in All : s2.status[r] =
           IF s1.pipes[i].blocking /\ r = pipe.out /\ s1.status[r] = "blocked"
             THEN "ready" ELSE s1.status[r]
    BY <1>1, <1>7, WakeOtherDoes
  <2> HIDE DEF s2
  <2> QED BY <1>1, <1>7, <2>1
<1> HIDE DEF s2
<1>10. Open(s2, i)
  BY <1>7, <1>8 DEF Quiet, SameAt
<1>11. /\ t \in State /\ Quiet(s2, t) /\ \A r \in All \ {p} : t.call[r] = s2.call[r]
       /\ t.call[p] = IF n = Len(data) THEN NoCall ELSE Writing(i, rest)
  <2>1. CASE rest = << >>
    BY <1>1, <1>4, <1>5, <1>8, <2>1, ReturnQuiet
  <2>2. CASE rest # << >>
    <3> DEFINE c == Writing(i, rest)
    <3>1. c \in Calls
      BY <1>5, <2>2 DEF Writing, Calls
    <3>2. t = Sleep(s2, p, i, c)
      BY <1>4, <2>2
    <3> HIDE DEF c
    <3>3. /\ t \in State /\ Quiet(s2, t) /\ \A r \in All \ {p} : t.call[r] = s2.call[r]
          /\ t.call[p] = c
      BY <1>8, <1>9, <1>10, <3>1, <3>2, SleepQuiet
    <3> QED BY <1>5, <2>2, <3>3 DEF c
  <2> QED BY <2>1, <2>2
<1>12. Quiet(s1, t)
  BY <1>8, <1>11, QuietTransitive
<1>13. Aside(s, t, p, i)
  BY <1>7, <1>8, <1>11, <1>12, AsideQuiet
<1>14. t.taken[i] = s.taken[i] /\ SamePipe(t.pipes[i], new)
  BY <1>7, <1>12 DEF Quiet, SameAt
<1>15. PutIn(pipe, t.pipes[i], data, n)
  BY <1>6, <1>14, SamePut
<1>16. PutDone(s, t, p, i, data, n)
  BY <1>2, <1>3, <1>11, <1>13, <1>14, <1>15 DEF PutDone, pipe, rest
<1> QED BY <1>11, <1>16 DEF t, n, pipe

(* p has taken the first n bytes of the pipe i.                            *)
TakenOut(a, b, n) ==
  /\ n \in 0 .. a.size
  /\ b.size = a.size - n
  /\ \A j \in 1 .. b.size : Byte(b, j) = Byte(a, n + j)
  /\ b.buffer = a.buffer
  /\ Ended(b) <=> Ended(a)

TakeDone(s, t, p, i, n) ==
  /\ Aside(s, t, p, i)
  /\ TakenOut(s.pipes[i], t.pipes[i], n)
  /\ t.taken[i] = s.taken[i] \o SubSeq(Content(s.pipes[i]), 1, n)
  /\ t.call[p].op \in {"none", "read", "read_first"}

LEMMA SameTaken ==
  ASSUME NEW a, NEW b, NEW c, NEW n, TakenOut(a, b, n), SamePipe(c, b)
  PROVE  TakenOut(a, c, n)
BY SamePipeBytes DEF TakenOut, SamePipe

LEMMA ContentIs ==
  ASSUME NEW pipe \in Pipes
  PROVE  /\ Content(pipe) \in Seq(Int) /\ Len(Content(pipe)) = pipe.size /\ pipe.size \in Nat
         /\ \A x \in 1 .. pipe.size : Content(pipe)[x] = Byte(pipe, x)
<1>1. pipe.size \in Nat
  BY Sizes DEF Pipes
<1>2. \A x \in 1 .. pipe.size : pipe.buffer[Place(pipe, x - 1)] \in Int
  <2>1. \A x \in 1 .. pipe.size : x - 1 \in Nat
    BY <1>1
  <2>2. \A x \in 1 .. pipe.size : Place(pipe, x - 1) \in 0 .. PipeSize - 1
    BY <2>1, PlaceIn
  <2> QED BY <2>2 DEF Pipes
<1>3. Content(pipe) \in Seq(Int) /\ Len(Content(pipe)) = pipe.size
  BY <1>1, <1>2 DEF Content
<1>4. \A x \in 1 .. pipe.size : Content(pipe)[x] = Byte(pipe, x)
  BY DEF Content, Byte
<1> QED BY <1>1, <1>3, <1>4

LEMMA ReadOnDoes ==
  ASSUME NEW s \in State, NEW p \in Procs, NEW i \in Slots, NEW left \in Nat \ {0},
         s.status[p] = "ready", Open(s, i)
  PROVE  LET t == ReadOn(s, p, i, left)
         IN  t \in State /\ \E n \in Nat : TakeDone(s, t, p, i, n)
<1> DEFINE pipe == s.pipes[i]
           n    == Lesser(pipe.size, left)
           new  == Drained(pipe, n)
           got  == s.taken[i] \o SubSeq(Content(pipe), 1, n)
           e    == n < left /\ Ended(pipe)
           s0   == [s EXCEPT !.pipes[i] = new]
           s1   == [s EXCEPT !.pipes[i] = new, !.taken[i] = got, !.ended[p] = e]
           s2   == WakeOther(s1, i, pipe.in)
           t    == ReadOn(s, p, i, left)
<1>1. pipe \in Pipes /\ p \in All /\ pipe.in \in Procs \cup {NoProc}
  BY Fields, Pids DEF Pipes
<1>2. pipe.size \in 0 .. PipeSize
  BY <1>1 DEF Pipes
<1>3. n \in Nat /\ n <= pipe.size /\ n <= left
  <2> HIDE DEF pipe
  <2>1. pipe.size \in Nat
    BY <1>2, Sizes
  <2> QED BY <2>1, Least
<1>4. got \in Seq(Int)
  <2>1. Content(pipe) \in Seq(Int) /\ Len(Content(pipe)) = pipe.size
    BY <1>1, ContentIs
  <2>2. s.taken[i] \in Seq(Int)
    BY DEF State
  <2> HIDE DEF pipe, n
  <2>3. SubSeq(Content(pipe), 1, n) \in Seq(Int)
    BY <1>3, <2>1, Cut
  <2> QED BY <2>2, <2>3
<1>5. /\ new \in Pipes /\ new.in = pipe.in /\ new.out = pipe.out /\ TakenOut(pipe, new, n)
  <2> HIDE DEF pipe, n
  <2>1. n \in 0 .. pipe.size
    BY <1>2, <1>3, Sizes
  <2> QED BY <1>1, <2>1, DrainedPipe, DrainedBytes DEF TakenOut
<1>6. e \in BOOLEAN
  BY DEF Ended
<1>7. t = IF n = left \/ s1.ended[p] THEN Return(s2, p)
          ELSE Sleep(s2, p, i, Reading("read", i, left - n))
  BY DEF ReadOn
<1> HIDE DEF n, new, got, pipe, e, t
<1>8. /\ s0 \in State /\ s0.pipes[i] = new /\ Open(s0, i) /\ s0.taken = s.taken
      /\ s0.call = s.call /\ s0.status = s.status /\ Aside(s, s0, p, i)
  BY <1>5, PipeSet DEF Aside, pipe
<1>9. /\ s1 \in State /\ s1.pipes = s0.pipes /\ s1.taken[i] = got
      /\ \A j \in Slots \ {i} : s1.taken[j] = s0.taken[j]
      /\ s1.call = s0.call /\ s1.status = s0.status /\ s1.fds = s0.fds
      /\ s1.linked = s0.linked /\ s1.sent = s0.sent
  <2>1. s1 = [s0 EXCEPT !.taken[i] = got, !.ended[p] = e]
    OBVIOUS
  <2> HIDE DEF s0, s1
  <2> QED BY <1>1, <1>4, <1>6, <1>8, <2>1 DEF State
<1> HIDE DEF s0, s1
<1>10. Open(s1, i) /\ Aside(s, s1, p, i)
  <2>1. \A j \in Slots \ {i} : SameAt(s, s1, j)
    BY <1>8, <1>9 DEF Aside, SameAt, Open
  <2> QED BY <1>8, <1>9, <2>1 DEF Aside, SameProcs, Open
<1>11. s2 \in State /\ Quiet(s1, s2) /\ s2.call = s1.call
  BY <1>1, <1>9, <1>10, WakeOtherQuiet
<1>12. s2.status[p] = "ready"
  <2>1. \A r \in All : s2.status[r] =
           IF s1.pipes[i].blocking /\ r = pipe.in /\ s1.status[r] = "blocked"
             THEN "ready" ELSE s1.status[r]
    BY <1>1, <1>9, <1>10, WakeOtherDoes
  <2> HIDE DEF s2
  <2> QED BY <1>1, <1>8, <1>9, <2>1
<1> HIDE DEF s2
<1>13. Open(s2, i)
  BY <1>10, <1>11 DEF Quiet, SameAt
<1>14. /\ t \in State /\ Quiet(s2, t) /\ \A r \in All \ {p} : t.call[r] = s2.call[r]
       /\ t.call[p].op \in {"none", "read", "read_first"}
  <2>1. CASE n = left \/ s1.ended[p]
    BY <1>1, <1>7, <1>11, <2>1, ReturnQuiet DEF NoCall
  <2>2. CASE ~ (n = left \/ s1.ended[p])
    <3> DEFINE c == Reading("read", i, left - n)
    <3>1. c \in Calls /\ c.op = "read"
      <4>1. left - n \in Nat \ {0}
        BY <1>3, <2>2
      <4> QED BY <4>1 DEF Reading, Calls
    <3>2. t = Sleep(s2, p, i, c)
      BY <1>7, <2>2
    <3> HIDE DEF c
    <3> QED BY <1>11, <1>12, <1>13, <3>1, <3>2, SleepQuiet
  <2> QED BY <2>1, <2>2
<1>15. Quiet(s1, t)
  BY <1>11, <1>14, QuietTransitive
<1>16. Aside(s, t, p, i)
  BY <1>10, <1>11, <1>14, <1>15, AsideQuiet
<1>17. t.taken[i] = got /\ SamePipe(t.pipes[i], new)
  BY <1>8, <1>9, <1>10, <1>15 DEF Quiet, SameAt
<1>18. TakenOut(pipe, t.pipes[i], n)
  BY <1>5, <1>17, SameTaken
<1>19. TakeDone(s, t, p, i, n)
  BY <1>14, <1>16, <1>17, <1>18 DEF TakeDone, pipe, got
<1> QED BY <1>3, <1>14, <1>19 DEF t

-----------------------------------------------------------------------------
(* What a step does to the channel in slot i, whose bytes are known by     *)
(* their number.                                                           *)
ChanSame(s, t, i) ==
  /\ Open(t, i) <=> Open(s, i)
  /\ t.taken[i] = s.taken[i]
  /\ Open(s, i) => /\ t.pipes[i].size = s.pipes[i].size
                   /\ Ended(t.pipes[i]) <=> Ended(s.pipes[i])

ChanPut(s, t, i) ==
  /\ Open(s, i) /\ Open(t, i) /\ ~ Ended(s.pipes[i]) /\ ~ Ended(t.pipes[i])
  /\ t.taken[i] = s.taken[i]
  /\ t.pipes[i].size > s.pipes[i].size /\ Held(t, i) <= MaxBytes

ChanTake(s, t, i) ==
  /\ Open(s, i) /\ Open(t, i) /\ (Ended(t.pipes[i]) <=> Ended(s.pipes[i]))
  /\ \E n \in 1 .. s.pipes[i].size : /\ t.pipes[i].size = s.pipes[i].size - n
                                     /\ Len(t.taken[i]) = Len(s.taken[i]) + n

LEMMA SameIsSame ==
  ASSUME NEW s, NEW t, NEW i, SameAt(s, t, i)
  PROVE  ChanSame(s, t, i)
BY SamePipeBytes DEF SameAt, ChanSame, SamePipe

LEMMA NotEnded ==
  ASSUME NEW pipe \in Pipes, NoEOF(pipe)
  PROVE  ~ Ended(pipe)
<1>1. pipe.size \in Nat
  BY Sizes DEF Pipes
<1> QED BY <1>1, PlaceIn DEF Ended, NoEOF

LEMMA Beyond ==
  ASSUME NEW a \in Nat, NEW b \in Nat, NEW l \in Nat, NEW k \in 0 .. l, b = a + k,
         NEW n \in 1 .. b, n > a
  PROVE  n - a \in 1 .. k /\ n = a + (n - a) /\ n - a \in 1 .. l
OBVIOUS

LEMMA NotNegative ==
  ASSUME NEW x \in Nat, NEW y \in Nat, NEW z \in Nat
  PROVE  (x + y) + z # -1
OBVIOUS

(* What is left of the data when its first n bytes are gone. *)
LEMMA LeftOver ==
  ASSUME NEW data \in Seq(Int), NEW n \in 0 .. Len(data)
  PROVE  /\ Len(SubSeq(data, n + 1, Len(data))) = Len(data) - n
         /\ \A j \in 1 .. Len(data) - n :
              SubSeq(data, n + 1, Len(data))[j] = data[n + j]
<1> DEFINE fst == n + 1
           len == Len(data)
<1>1. fst \in Int /\ n \in Int /\ len \in Nat /\ n <= len /\ (len - fst) + 1 = len - n
  OBVIOUS
<1>2. \A x \in fst .. len : data[x] \in Int
  OBVIOUS
<1> HIDE DEF fst, len
<1>3. /\ Len(SubSeq(data, fst, len)) = IF fst <= len THEN (len - fst) + 1 ELSE 0
      /\ \A j \in 1 .. (len - fst) + 1 : SubSeq(data, fst, len)[j] = data[(fst + j) - 1]
  BY <1>1, <1>2, SubSeqProperties
<1>4. Len(SubSeq(data, fst, len)) = len - n
  BY <1>1, <1>3 DEF fst
<1>5. ASSUME NEW j \in 1 .. len - n
      PROVE  SubSeq(data, fst, len)[j] = data[n + j]
  <2>1. (fst + j) - 1 = n + j
    BY <1>1 DEF fst
  <2>2. SubSeq(data, fst, len)[j] = data[(fst + j) - 1]
    BY <1>1, <1>3
  <2> QED BY <2>1, <2>2
<1> QED BY <1>4, <1>5 DEF fst, len

(* p has put some of the data, which continue its bytes, into its pipe; u  *)
(* is s before it counted them.                                            *)
LEMMA PutBytes ==
  ASSUME NEW u \in State, NEW s, NEW t \in State, NEW p \in Procs, NEW i \in Slots,
         NEW data \in Seq(Int), NEW k, Bytes(u),
         s.pipes = u.pipes, s.taken = u.taken, s.call = u.call, s.status = u.status,
         s.fds = u.fds, s.linked = u.linked,
         \A r \in Procs \ {p} : s.sent[r] = u.sent[r],
         u.status[p] = "ready", u.pipes[i].in = p, PutDone(s, t, p, i, data, k),
         \A x \in 1 .. Len(data) : data[x] = Held(u, i) + x,
         s.sent[p] = Held(u, i) + Len(data), s.sent[p] <= MaxBytes
  PROVE  BytesKept(u, t) /\ \A j \in Slots : ChanSame(u, t, j) \/ ChanPut(u, t, j)
<1> DEFINE a == u.pipes[i]
           b == t.pipes[i]
           h == Len(u.taken[i])
<1>1. /\ Open(u, i) /\ Open(t, i) /\ b.in = p /\ p # NoProc /\ p \in All
      /\ \A j \in Slots \ {i} : SameAt(u, t, j)
      /\ SameProcs(s, t) /\ \A r \in All \ {p} : t.call[r] = u.call[r]
  BY Pids DEF PutDone, Aside, SameAt, Open
<1>2. /\ k \in 0 .. Len(data) /\ t.taken[i] = u.taken[i] /\ PutIn(a, b, data, k)
      /\ t.call[p] = IF k = Len(data) THEN NoCall ELSE Writing(i, SubSeq(data, k + 1, Len(data)))
  BY DEF PutDone
<1>3. SlotOK(u, i) /\ WriterOK(u, i)
  BY <1>1 DEF Bytes
<1>4. a \in Pipes /\ b \in Pipes /\ a.size \in Nat /\ b.size \in Nat /\ h \in Nat /\ Len(data) \in Nat
  <2>1. a \in Pipes /\ b \in Pipes
    BY <1>1, Fields
  <2>2. u.taken[i] \in Seq(Int)
    BY DEF State
  <2>3. a.size \in Nat /\ b.size \in Nat
    <3> HIDE DEF a, b
    <3> QED BY <2>1, Sizes DEF Pipes
  <2>4. h \in Nat /\ Len(data) \in Nat
    BY <2>2
  <2> QED BY <2>1, <2>3, <2>4
<1>5. Held(u, i) = h + a.size /\ Held(t, i) = h + b.size /\ b.size = a.size + k
  BY <1>2 DEF Held, PutIn
<1>6. /\ \A x \in 1 .. a.size : Byte(b, x) = h + x
      /\ \A j \in 1 .. k : Byte(b, a.size + j) = data[j]
      /\ \A x \in 1 .. h : u.taken[i][x] = x
      /\ NoEOF(a) /\ (\A j \in 1 .. k : data[j] # EOF) => NoEOF(b)
  BY <1>2, <1>3 DEF SlotOK, PutIn
<1>7. NoEOF(a) /\ u.fds[p].out = i /\ p \notin u.linked
  BY <1>1, <1>3 DEF WriterOK
<1> HIDE DEF a, b, h
<1>8. SlotOK(t, i)
  <2>1. ASSUME NEW n \in 1 .. b.size PROVE Byte(b, n) = h + n
    <3>1. CASE n <= a.size
      BY <1>4, <1>6, <2>1, <3>1
    <3>2. CASE n > a.size
      <4> DEFINE j == n - a.size
      <4>1. j \in 1 .. k /\ n = a.size + j /\ j \in 1 .. Len(data)
        BY <1>2, <1>4, <1>5, <3>2, Beyond
      <4> HIDE DEF j
      <4>2. Byte(b, n) = (h + a.size) + j
        BY <1>5, <1>6, <4>1
      <4> QED BY <1>4, <4>1, <4>2
    <3> QED BY <1>4, <3>1, <3>2
  <2> QED BY <1>2, <1>6, <2>1 DEF SlotOK, b, h
<1>9. NoEOF(b)
  <2>1. ASSUME NEW j \in 1 .. k PROVE data[j] # EOF
    <3>1. j \in 1 .. Len(data) /\ j \in Nat
      BY <1>2, <1>4
    <3>2. data[j] = (h + a.size) + j
      BY <1>5, <3>1
    <3>3. (h + a.size) + j # -1
      BY <1>4, <3>1, NotNegative
    <3> QED BY <3>2, <3>3 DEF EOF
  <2> QED BY <1>6, <1>7, <2>1
<1>10. /\ t.fds = u.fds /\ t.linked = u.linked /\ t.sent = s.sent
       /\ \A r \in All : /\ t.status[r] = "free" <=> u.status[r] = "free"
                         /\ t.status[r] = "zombie" <=> u.status[r] = "zombie"
  BY <1>1 DEF SameProcs
<1>11. WriterOK(t, i)
  <2>1. CASE k = Len(data)
    <3>1. t.call[p].op = "none" /\ PendingOf(t, p) = << >>
      BY <1>2, <2>1 DEF NoCall, PendingOf
    <3>2. t.sent[p] = Held(t, i) + Len(<< >>)
      BY <1>4, <1>5, <1>10, <2>1
    <3> QED BY <1>1, <1>7, <1>9, <1>10, <3>1, <3>2 DEF WriterOK, b
  <2>2. CASE k # Len(data)
    <3> DEFINE rest == SubSeq(data, k + 1, Len(data))
    <3>1. t.call[p].op = "write" /\ t.call[p].live /\ t.call[p].slot = i /\ PendingOf(t, p) = rest
      <4> DEFINE c == t.call[p]
      <4> HIDE DEF rest, c
      <4>1. c = Writing(i, rest)
        BY <1>2, <2>2 DEF rest, c
      <4>2. c = [op |-> "write", slot |-> i, data |-> rest, live |-> TRUE]
        BY <4>1 DEF Writing
      <4>3. c.op = "write" /\ c.live /\ c.slot = i /\ c.data = rest
        BY <4>2
      <4> QED BY <4>3 DEF PendingOf, c
    <3>2. Len(rest) = Len(data) - k /\ \A n \in 1 .. Len(data) - k : rest[n] = data[k + n]
      BY <1>2, LeftOver
    <3> HIDE DEF rest
    <3>3. t.sent[p] = Held(t, i) + Len(rest)
      BY <1>2, <1>4, <1>5, <1>10, <3>2
    <3>4. ASSUME NEW n \in 1 .. Len(rest) PROVE rest[n] = Held(t, i) + n
      <4>1. k + n \in 1 .. Len(data) /\ k \in Nat /\ n \in Nat
        BY <1>2, <1>4, <3>2
      <4>2. rest[n] = (h + a.size) + (k + n)
        BY <1>5, <3>2, <4>1
      <4> QED BY <1>4, <1>5, <4>1, <4>2
    <3> QED BY <1>1, <1>7, <1>9, <1>10, <3>1, <3>3, <3>4 DEF WriterOK, b
  <2> QED BY <2>1, <2>2
<1>12. ASSUME NEW j \in Slots, j # i, Open(t, j) PROVE SlotOK(t, j) /\ WriterOK(t, j)
  <2>1. SameAt(u, t, j) /\ Open(u, j)
    BY <1>1, <1>12 DEF SameAt
  <2>2. ASSUME NEW w \in Procs, u.pipes[j].in = w, u.status[w] # "free" PROVE SameWriter(u, t, w)
    <3>1. w # NoProc /\ w \in All
      BY Pids
    <3>2. u.fds[w].out = j
      BY <2>1, <2>2, <3>1 DEF Bytes, WriterOK
    <3>3. w # p
      BY <1>7, <1>12, <3>2
    <3> QED BY <1>1, <1>10, <2>2, <3>1, <3>3 DEF SameWriter
  <2> QED BY <1>12, <2>1, <2>2, SlotKept
<1>13. SentOK(t)
  <2> SUFFICES ASSUME NEW r \in Procs
               PROVE  t.sent[r] <= MaxBytes /\ (t.status[r] = "free" => t.sent[r] = 0)
    BY Zenon DEF SentOK
  <2>1. r \in All /\ u.sent[r] <= MaxBytes /\ (u.status[r] = "free" => u.sent[r] = 0)
    BY Pids DEF Bytes, SentOK
  <2>2. CASE r = p
    BY <1>10, <2>1, <2>2
  <2>3. CASE r # p
    BY <1>10, <2>1, <2>3
  <2> QED BY <2>2, <2>3
<1>14. NoNewWriter(u, t)
  BY <1>1 DEF NoNewWriter, SameAt, SamePipe, b
<1>15. \A q \in All : t.call[q].op = "close" => t.call[q] = u.call[q]
  <2>1. t.call[p].op # "close"
    BY <1>2 DEF NoCall, Writing
  <2> QED BY <1>1, <2>1
<1>16. Bytes(t)
  <2>1. \A j \in Slots : Open(t, j) => SlotOK(t, j) /\ WriterOK(t, j)
    BY <1>8, <1>11, <1>12
  <2> QED BY <1>13, <1>14, <1>15, <2>1, BytesFrom
<1>17. \A j \in Slots : Untouched(u, j) => Untouched(t, j)
  <2>1. ~ Untouched(u, i)
    BY <1>1 DEF Untouched
  <2> QED BY <1>1, <2>1, SameSlot DEF Untouched
<1>18. \A j \in Slots \ {i} : ChanSame(u, t, j)
  BY <1>1, SameIsSame
<1>19. ~ Ended(a) /\ ~ Ended(b)
  BY <1>4, <1>7, <1>9, NotEnded
<1>20. CASE k = 0
  <2>1. b.size = a.size
    BY <1>4, <1>5, <1>20
  <2>2. ChanSame(u, t, i)
    BY <1>1, <1>2, <1>19, <2>1 DEF ChanSame, a, b
  <2> QED BY <1>16, <1>17, <1>18, <2>2 DEF BytesKept
<1>21. CASE k # 0
  <2>1. b.size > a.size /\ h + b.size <= MaxBytes
    BY <1>2, <1>4, <1>5, <1>21, Sizes
  <2>2. ChanPut(u, t, i)
    BY <1>1, <1>2, <1>5, <1>19, <2>1 DEF ChanPut, a, b
  <2> QED BY <1>16, <1>17, <1>18, <2>2 DEF BytesKept
<1> QED BY <1>20, <1>21

LEMMA Joined ==
  ASSUME NEW q \in Seq(Int), NEW d \in Seq(Int)
  PROVE  /\ Len(q \o d) = Len(q) + Len(d)
         /\ \A x \in 1 .. Len(q) + Len(d) : (q \o d)[x] = IF x <= Len(q) THEN q[x] ELSE d[x - Len(q)]
<1>1. Len(q \o d) = Len(q) + Len(d)
  OBVIOUS
<1>2. \A x \in 1 .. Len(q) + Len(d) : (q \o d)[x] = IF x <= Len(q) THEN q[x] ELSE d[x - Len(q)]
  OBVIOUS
<1> QED BY <1>1, <1>2

LEMMA TakenBytes ==
  ASSUME NEW q \in Seq(Int), NEW c \in Seq(Int), NEW n \in 0 .. Len(c),
         \A x \in 1 .. Len(q) : q[x] = x,
         \A x \in 1 .. Len(c) : c[x] = Len(q) + x
  PROVE  LET r == q \o SubSeq(c, 1, n)
         IN  Len(r) = Len(q) + n /\ \A x \in 1 .. Len(r) : r[x] = x
<1> DEFINE d == SubSeq(c, 1, n)
           r == q \o d
<1>1. d \in Seq(Int) /\ Len(d) = n /\ \A x \in 1 .. n : d[x] = c[x]
  OBVIOUS
<1>2. Len(q) \in Nat /\ Len(c) \in Nat
  OBVIOUS
<1> HIDE DEF d
<1>5. /\ Len(r) = Len(q) + Len(d)
      /\ \A x \in 1 .. Len(q) + Len(d) : r[x] = IF x <= Len(q) THEN q[x] ELSE d[x - Len(q)]
  BY <1>1, Joined, Zenon
<1>3. /\ Len(r) = Len(q) + n
      /\ \A x \in 1 .. Len(q) + n : r[x] = IF x <= Len(q) THEN q[x] ELSE d[x - Len(q)]
  <2> HIDE DEF r
  <2> QED BY <1>1, <1>5
<1> HIDE DEF r
<1>4. ASSUME NEW x \in 1 .. Len(r) PROVE r[x] = x
  <2>1. CASE x <= Len(q)
    BY <1>2, <1>3, <2>1
  <2>2. CASE x > Len(q)
    <3> DEFINE y == x - Len(q)
    <3>1. y \in 1 .. n /\ y \in 1 .. Len(c) /\ x = Len(q) + y /\ ~ (x <= Len(q))
          /\ x \in 1 .. Len(q) + n
      BY <1>2, <1>3, <2>2
    <3>2. r[x] = d[y]
      BY <1>3, <3>1
    <3> HIDE DEF y
    <3> QED BY <1>1, <3>1, <3>2
  <2> QED BY <1>2, <1>3, <2>1, <2>2
<1> QED BY <1>3, <1>4 DEF r, d

(* p has taken some bytes out of the pipe that it reads.                   *)
LEMMA TakeBytes ==
  ASSUME NEW s \in State, NEW t \in State, NEW p \in Procs, NEW i \in Slots, NEW n,
         Bytes(s), TakeDone(s, t, p, i, n),
         s.status[p] = "ready", s.pipes[i].out = p, s.call[p].op \in {"none", "read", "read_first"}
  PROVE  BytesKept(s, t) /\ \A j \in Slots : ChanSame(s, t, j) \/ ChanTake(s, t, j)
<1> DEFINE a == s.pipes[i]
           b == t.pipes[i]
           q == s.taken[i]
           r == t.taken[i]
<1>1. /\ Open(s, i) /\ Open(t, i) /\ b.in = a.in /\ p # NoProc /\ p \in All
      /\ \A j \in Slots \ {i} : SameAt(s, t, j)
      /\ SameProcs(s, t) /\ \A w \in All \ {p} : t.call[w] = s.call[w]
  BY Pids DEF TakeDone, Aside
<1>2. /\ TakenOut(a, b, n) /\ r = q \o SubSeq(Content(a), 1, n)
      /\ t.call[p].op \in {"none", "read", "read_first"}
  BY DEF TakeDone
<1>3. SlotOK(s, i) /\ WriterOK(s, i)
  BY <1>1 DEF Bytes
<1>4. a \in Pipes /\ b \in Pipes /\ q \in Seq(Int) /\ a.in \in Procs \cup {NoProc}
  <2>1. a \in Pipes /\ b \in Pipes
    BY <1>1, Fields
  <2> QED BY <2>1 DEF State, Pipes
<1>5. /\ n \in 0 .. a.size /\ b.size = a.size - n
      /\ \A j \in 1 .. b.size : Byte(b, j) = Byte(a, n + j)
      /\ NoEOF(a) => NoEOF(b)
      /\ Ended(b) <=> Ended(a)
  BY <1>2 DEF TakenOut, NoEOF
<1>6. (\A x \in 1 .. Len(q) : q[x] = x) /\ (\A x \in 1 .. a.size : Byte(a, x) = Len(q) + x)
  BY <1>3 DEF SlotOK
<1> HIDE DEF a, b, q, r
<1>7. a.size \in Nat /\ b.size \in Nat /\ Len(q) \in Nat
  <2>1. a.size \in Nat /\ b.size \in Nat
    BY <1>4, ContentIs
  <2> QED BY <1>4, <2>1
<1>8. Len(r) = Len(q) + n /\ \A x \in 1 .. Len(r) : r[x] = x
  <2> DEFINE c == Content(a)
  <2>1. c \in Seq(Int) /\ Len(c) = a.size /\ \A x \in 1 .. a.size : c[x] = Byte(a, x)
    BY <1>4, ContentIs
  <2>2. r = q \o SubSeq(c, 1, n)
    BY <1>2
  <2> HIDE DEF c
  <2>3. n \in 0 .. Len(c) /\ \A x \in 1 .. Len(c) : c[x] = Len(q) + x
    BY <1>5, <1>6, <2>1
  <2> QED BY <1>4, <1>6, <2>1, <2>2, <2>3, TakenBytes
<1>9. SlotOK(t, i)
  <2>1. ASSUME NEW j \in 1 .. b.size PROVE Byte(b, j) = Len(r) + j
    <3>1. n + j \in 1 .. a.size /\ n \in Nat /\ j \in Nat
      BY <1>5, <1>7
    <3>2. Byte(b, j) = Len(q) + (n + j)
      BY <1>5, <1>6, <3>1
    <3> QED BY <1>7, <1>8, <3>1, <3>2
  <2> QED BY <1>8, <2>1 DEF SlotOK, b, r
<1>10. Held(t, i) = Held(s, i)
  <2>1. Len(r) + b.size = Len(q) + a.size
    BY <1>5, <1>7, <1>8
  <2> QED BY <2>1 DEF Held, a, b, q, r
<1>11. /\ t.fds = s.fds /\ t.linked = s.linked /\ t.sent = s.sent
       /\ \A w \in All : /\ t.status[w] = "free" <=> s.status[w] = "free"
                         /\ t.status[w] = "zombie" <=> s.status[w] = "zombie"
  BY <1>1 DEF SameProcs
<1>12. ASSUME NEW w \in Procs, s.status[w] # "free" PROVE SameWriter(s, t, w)
  <2>1. w \in All
    BY Pids
  <2>2. CASE w = p
    BY <1>2, <1>11, <1>12, <2>1, <2>2 DEF SameWriter
  <2>3. CASE w # p
    BY <1>1, <1>11, <1>12, <2>1, <2>3 DEF SameWriter
  <2> QED BY <2>2, <2>3
<1>13. WriterOK(t, i)
  <2>1. a.in # NoProc => SameWriter(s, t, a.in)
    BY <1>3, <1>4, <1>12 DEF WriterOK, a
  <2> QED BY <1>1, <1>3, <1>5, <1>10, <2>1, SameWriterOK DEF a, b
<1>14. ASSUME NEW j \in Slots, j # i, Open(t, j) PROVE SlotOK(t, j) /\ WriterOK(t, j)
  BY <1>1, <1>12, <1>14, SlotKept
<1>15. SentOK(t)
  <2> SUFFICES ASSUME NEW w \in Procs
               PROVE  t.sent[w] <= MaxBytes /\ (t.status[w] = "free" => t.sent[w] = 0)
    BY Zenon DEF SentOK
  <2>1. w \in All /\ s.sent[w] <= MaxBytes /\ (s.status[w] = "free" => s.sent[w] = 0)
    BY Pids DEF Bytes, SentOK
  <2> QED BY <1>11, <2>1
<1>16. NoNewWriter(s, t)
  BY <1>1 DEF NoNewWriter, SameAt, SamePipe, a, b
<1>17. \A w \in All : t.call[w].op = "close" => t.call[w] = s.call[w]
  BY <1>1, <1>2
<1>18. Bytes(t)
  <2>1. \A j \in Slots : Open(t, j) => SlotOK(t, j) /\ WriterOK(t, j)
    BY <1>9, <1>13, <1>14
  <2> QED BY <1>15, <1>16, <1>17, <2>1, BytesFrom
<1>19. \A j \in Slots : Untouched(s, j) => Untouched(t, j)
  <2>1. ~ Untouched(s, i)
    BY <1>1 DEF Untouched
  <2> QED BY <1>1, <2>1, SameSlot DEF Untouched
<1>20. \A j \in Slots \ {i} : ChanSame(s, t, j)
  BY <1>1, SameIsSame
<1>21. ChanSame(s, t, i) \/ ChanTake(s, t, i)
  <2>1. CASE n = 0
    <3>1. b.size = a.size /\ r = q
      <4>1. SubSeq(Content(a), 1, 0) = << >>
        BY <1>4, ContentIs
      <4> QED BY <1>2, <1>4, <1>5, <1>7, <2>1, <4>1
    <3> QED BY <1>1, <1>5, <3>1 DEF ChanSame, a, b, q, r
  <2>2. CASE n # 0
    <3>1. n \in 1 .. a.size /\ b.size = a.size - n /\ Len(r) = Len(q) + n
      BY <1>5, <1>7, <1>8, <2>2
    <3> QED BY <1>1, <1>5, <3>1 DEF ChanTake, a, b, q, r
  <2> QED BY <2>1, <2>2
<1> QED BY <1>18, <1>19, <1>20, <1>21 DEF BytesKept

-----------------------------------------------------------------------------
(* What every step is, to the bytes and to the channels.                   *)
ChanLeave(s, t, i) ==
  /\ Open(s, i) /\ Open(t, i) /\ Ended(t.pipes[i])
  /\ t.taken[i] = s.taken[i] /\ t.pipes[i].size = s.pipes[i].size

ChanGone(s, t, i) == Open(s, i) /\ ~ Open(t, i) /\ t.taken[i] = << >>

ChanOpen(s, t, i) ==
  /\ ~ Open(s, i) /\ Open(t, i) /\ ~ Ended(t.pipes[i])
  /\ t.taken[i] = << >> /\ t.pipes[i].size = 0

ChanStep(s, t, i) ==
  \/ ChanSame(s, t, i) \/ ChanPut(s, t, i) \/ ChanTake(s, t, i)
  \/ ChanLeave(s, t, i) \/ ChanGone(s, t, i) \/ ChanOpen(s, t, i)

Stepped(s, t) == BytesKept(s, t) /\ \A i \in Slots : ChanStep(s, t, i)

LEMMA QuietStepped ==
  ASSUME NEW s, NEW t, s \in State, t \in State, Bytes(s), Quiet(s, t),
         \A r \in All : \/ t.call[r] = s.call[r]
                        \/ /\ t.call[r].op # "write"
                           /\ s.call[r].op # "write" \/ NobodyWrites(s, r)
                           /\ t.call[r].op = "close" => t.call[r].live
  PROVE  Stepped(s, t)
BY QuietBytes, SameIsSame DEF Stepped, ChanStep, Quiet

(* What p hands to write is refused, for it writes into no pipe.           *)
LEMMA RefusedBytes ==
  ASSUME NEW s \in State, NEW t \in State, NEW p \in Procs, Bytes(s), NobodyWrites(s, p),
         t.pipes = s.pipes, t.taken = s.taken, t.call = s.call, t.status = s.status,
         t.fds = s.fds, t.linked = s.linked,
         \A r \in Procs \ {p} : t.sent[r] = s.sent[r],
         s.status[p] = "ready", t.sent[p] <= MaxBytes
  PROVE  Stepped(s, t)
<1>1. \A i \in Slots : SameAt(s, t, i)
  BY SameIfEqual
<1>2. ASSUME NEW i \in Slots, Open(t, i) PROVE SlotOK(t, i) /\ WriterOK(t, i)
  <2>1. ASSUME NEW w \in Procs, s.pipes[i].in = w, s.status[w] # "free" PROVE SameWriter(s, t, w)
    <3>1. w # p
      BY <1>2, <2>1 DEF NobodyWrites, Open
    <3> QED BY <2>1, <3>1 DEF SameWriter
  <2> QED BY <1>1, <1>2, <2>1, SlotKept
<1>3. NoNewWriter(s, t)
  BY DEF NoNewWriter, Open
<1>4. SentOK(t)
  <2> SUFFICES ASSUME NEW w \in Procs
               PROVE  t.sent[w] <= MaxBytes /\ (t.status[w] = "free" => t.sent[w] = 0)
    BY Zenon DEF SentOK
  <2>1. s.sent[w] <= MaxBytes /\ (s.status[w] = "free" => s.sent[w] = 0)
    BY DEF Bytes, SentOK
  <2> QED BY <2>1
<1>5. Bytes(t)
  BY <1>2, <1>3, <1>4, BytesFrom
<1>6. \A i \in Slots : Untouched(s, i) => Untouched(t, i)
  BY <1>1, SameSlot DEF Untouched
<1> QED BY <1>1, <1>5, <1>6, SameIsSame DEF Stepped, ChanStep, BytesKept

LEMMA ReadOnStepped ==
  ASSUME NEW s \in State, NEW p \in Procs, NEW i \in Slots, NEW left \in Nat \ {0},
         Bytes(s), s.status[p] = "ready", Open(s, i), s.pipes[i].out = p,
         s.call[p].op \in {"none", "read", "read_first"}
  PROVE  Stepped(s, ReadOn(s, p, i, left))
<1> DEFINE t == ReadOn(s, p, i, left)
<1>1. t \in State /\ \E n \in Nat : TakeDone(s, t, p, i, n)
  BY ReadOnDoes
<1> HIDE DEF t
<1>2. PICK n \in Nat : TakeDone(s, t, p, i, n)
  BY <1>1
<1>3. BytesKept(s, t) /\ \A j \in Slots : ChanSame(s, t, j) \/ ChanTake(s, t, j)
  BY <1>1, <1>2, TakeBytes
<1> QED BY <1>3 DEF Stepped, ChanStep, t

LEMMA ReadFirstStepped ==
  ASSUME NEW s \in State, NEW p \in Procs, NEW i \in Slots, NEW left \in Nat \ {0},
         Bytes(s), s.status[p] = "ready", Open(s, i), s.pipes[i].out = p,
         s.call[p].op \in {"none", "read", "read_first"}
  PROVE  Stepped(s, ReadFirst(s, p, i, left))
<1>1. CASE NothingToRead(s.pipes[i])
  <2> DEFINE c == Reading(IF s.pipes[i].in = NoProc THEN "read_first" ELSE "read", i, left)
             t == ReadFirst(s, p, i, left)
  <2>1. c \in Calls /\ c.op \in {"read", "read_first"}
    BY DEF Reading, Calls
  <2>2. t = Sleep(s, p, i, c)
    BY <1>1 DEF ReadFirst
  <2> HIDE DEF c, t
  <2>3. /\ t \in State /\ Quiet(s, t) /\ t.call[p] = c
        /\ \A r \in All \ {p} : t.call[r] = s.call[r]
    BY <2>1, <2>2, SleepQuiet
  <2>4. \A r \in All : \/ t.call[r] = s.call[r]
                       \/ /\ t.call[r].op # "write" /\ s.call[r].op # "write"
                          /\ t.call[r].op # "close"
    BY <2>1, <2>3
  <2> QED BY <2>3, <2>4, QuietStepped DEF t
<1>2. CASE ~ NothingToRead(s.pipes[i])
  BY <1>2, ReadOnStepped DEF ReadFirst
<1> QED BY <1>1, <1>2

LEMMA UnchangedStepped ==
  ASSUME NEW s \in State, Bytes(s)
  PROVE  Stepped(s, s)
BY DEF Stepped, BytesKept, ChanStep, ChanSame

(* p hands the bytes data to write.                                        *)
LEMMA PutStepped ==
  ASSUME NEW u \in State, NEW s \in State, NEW p \in Procs, NEW i \in Slots,
         NEW data \in Seq(Int), data # << >>, Bytes(u),
         s.pipes = u.pipes, s.taken = u.taken, s.call = u.call, s.status = u.status,
         s.fds = u.fds, s.linked = u.linked,
         \A r \in Procs \ {p} : s.sent[r] = u.sent[r],
         u.status[p] = "ready", Open(u, i), u.pipes[i].in = p,
         \A x \in 1 .. Len(data) : data[x] = Held(u, i) + x,
         s.sent[p] = Held(u, i) + Len(data), s.sent[p] <= MaxBytes
  PROVE  /\ Stepped(u, WriteOn(s, p, i, data))
         /\ s.pipes[i].size = PipeSize => Stepped(u, Sleep(s, p, i, Writing(i, data)))
<1>1. Open(s, i) /\ s.pipes[i] \in Pipes
  BY Fields DEF Open
<1>2. Stepped(u, WriteOn(s, p, i, data))
  <2> DEFINE t == WriteOn(s, p, i, data)
             k == Lesser(PipeSize - s.pipes[i].size, Len(data))
  <2>1. t \in State /\ PutDone(s, t, p, i, data, k)
    BY <1>1, WriteOnDoes
  <2> HIDE DEF t, k
  <2>2. BytesKept(u, t) /\ \A j \in Slots : ChanSame(u, t, j) \/ ChanPut(u, t, j)
    BY <2>1, PutBytes
  <2> QED BY <2>2 DEF Stepped, ChanStep, t
<1>3. Stepped(u, Sleep(s, p, i, Writing(i, data)))
  <2> DEFINE c == Writing(i, data)
             t == Sleep(s, p, i, c)
  <2>1. c \in Calls
    BY DEF Writing, Calls
  <2> HIDE DEF c
  <2>2. /\ t \in State /\ Quiet(s, t) /\ t.call[p] = c
        /\ \A r \in All \ {p} : t.call[r] = s.call[r]
    BY <1>1, <2>1, SleepQuiet
  <2> HIDE DEF t
  <2>3. Open(t, i) /\ SamePipe(t.pipes[i], s.pipes[i]) /\ t.taken[i] = s.taken[i]
    BY <1>1, <2>2 DEF Quiet, SameAt
  <2>4. Aside(s, t, p, i)
    BY <1>1, <2>2, <2>3 DEF Aside, Quiet, SamePipe
  <2>5. PutIn(s.pipes[i], t.pipes[i], data, 0)
    BY <1>1, <2>3, FullPut
  <2>6. Len(data) # 0 /\ 0 \in 0 .. Len(data)
    BY NoBytes
  <2>7. SubSeq(data, 0 + 1, Len(data)) = data
    OBVIOUS
  <2>8. PutDone(s, t, p, i, data, 0)
    BY <2>2, <2>3, <2>4, <2>5, <2>6, <2>7 DEF PutDone, c
  <2>9. BytesKept(u, t) /\ \A j \in Slots : ChanSame(u, t, j) \/ ChanPut(u, t, j)
    BY <2>2, <2>8, PutBytes
  <2> QED BY <2>9 DEF Stepped, ChanStep, t, c
<1> QED BY <1>2, <1>3

LEMMA HeldIs ==
  ASSUME NEW s \in State, NEW i \in Slots, Open(s, i)
  PROVE  /\ Held(s, i) = Len(s.taken[i]) + s.pipes[i].size /\ Held(s, i) \in Nat
         /\ s.taken[i] \in Seq(Int) /\ Len(s.taken[i]) \in Nat /\ s.pipes[i].size \in Nat
<1>1. s.taken[i] \in Seq(Int) /\ s.pipes[i] \in Pipes
  BY Fields DEF State
<1>2. s.pipes[i].size \in Nat
  BY <1>1, ContentIs
<1>3. Len(s.taken[i]) \in Nat
  BY <1>1
<1>4. Len(s.taken[i]) + s.pipes[i].size \in Nat
  BY <1>2, <1>3
<1> QED BY <1>1, <1>2, <1>3, <1>4, Zenon DEF Held

LEMMA WriteStepped ==
  ASSUME Good(m, NoProc), Bytes(m), NEW p \in Procs, NEW n \in 1 .. MaxLen, Write(p, n)
  PROVE  Stepped(m, m')
<1> DEFINE s    == [m EXCEPT !.sent[p] = @ + n]
           data == [x \in 1 .. n |-> m.sent[p] + x]
           i    == m.fds[p].out
<1>1. m \in State /\ p \in All
  BY Pids DEF Good
<1>2. /\ n \in Nat \ {0} /\ m.status[p] = "ready" /\ m.sent[p] \in Nat /\ m.call[p] = NoCall
      /\ m.sent[p] + n <= MaxBytes
  BY <1>1, Sizes DEF Write, InUser, Runs, State
<1>3. i \in Slots
  BY <1>1, Fields DEF Write, Descriptors
<1>4. m' = pipe_write(s, p, i, data)
  BY DEF Write, Step
<1>5. data \in Seq(Int) /\ Len(data) = n /\ \A x \in 1 .. Len(data) : data[x] = m.sent[p] + x
  BY <1>2
<1>6. data # << >>
  BY <1>2, <1>5
<1>7. /\ s \in State /\ s.pipes = m.pipes /\ s.status = m.status /\ s.call = m.call
      /\ s.linked = m.linked /\ s.fds = m.fds /\ s.taken = m.taken
      /\ s.sent[p] = m.sent[p] + n /\ \A r \in Procs \ {p} : s.sent[r] = m.sent[r]
  <2> DEFINE sum == m.sent[p] + n
  <2>1. sum \in Nat /\ s = [m EXCEPT !.sent[p] = sum]
    BY <1>2
  <2> HIDE DEF sum, s
  <2>2. /\ s \in State /\ s.pipes = m.pipes /\ s.status = m.status /\ s.call = m.call
        /\ s.linked = m.linked /\ s.fds = m.fds /\ s.taken = m.taken
        /\ s.sent[p] = sum /\ \A r \in Procs \ {p} : s.sent[r] = m.sent[r]
    BY <1>1, <2>1, Pids DEF State
  <2> QED BY <2>2 DEF sum
<1> HIDE DEF s, data
<1>8. CASE Open(m, i) /\ m.pipes[i].in = p
  <2>1. WriterOK(m, i) /\ p # NoProc
    BY <1>3, <1>8, Pids DEF Bytes
  <2>2. NoEOF(m.pipes[i]) /\ m.sent[p] = Held(m, i)
    <3>1. PendingOf(m, p) = << >> /\ Len(<< >>) = 0
      BY <1>2 DEF PendingOf, NoCall
    <3>2. NoEOF(m.pipes[i]) /\ m.sent[p] = Held(m, i) + 0
      BY <1>2, <1>8, <2>1, <3>1 DEF WriterOK
    <3>3. Held(m, i) \in Nat
      BY <1>1, <1>3, <1>8, HeldIs
    <3> HIDE DEF i
    <3> QED BY <3>2, <3>3
  <2>3. ~ Ended(m.pipes[i])
    BY <1>1, <1>3, <1>8, <2>2, Fields, NotEnded
  <2>4. s.sent[p] = Held(m, i) + Len(data) /\ s.sent[p] <= MaxBytes
        /\ \A x \in 1 .. Len(data) : data[x] = Held(m, i) + x
    BY <1>2, <1>5, <1>7, <2>2
  <2>5. /\ Stepped(m, WriteOn(s, p, i, data))
        /\ s.pipes[i].size = PipeSize => Stepped(m, Sleep(s, p, i, Writing(i, data)))
    BY <1>1, <1>2, <1>3, <1>5, <1>6, <1>7, <1>8, <2>4, PutStepped
  <2> QED BY <1>4, <1>7, <1>8, <2>3, <2>5 DEF pipe_write, Open
<1>9. CASE ~ (Open(m, i) /\ m.pipes[i].in = p)
  <2>1. m' = s
    BY <1>4, <1>7, <1>9 DEF pipe_write, Open
  <2>2. NobodyWrites(m, p)
    BY <1>9, Pids DEF NobodyWrites, Bytes, WriterOK
  <2>3. s.sent[p] <= MaxBytes
    BY <1>2, <1>7
  <2> QED BY <1>1, <1>2, <1>7, <2>1, <2>2, <2>3, RefusedBytes
<1> QED BY <1>8, <1>9

LEMMA TransferStepped ==
  ASSUME Good(m, NoProc), Bytes(m), NEW p \in Procs,
         \/ \E len \in 1 .. MaxLen : Read(p, len)
         \/ \E n \in 1 .. MaxLen : Write(p, n)
         \/ ResumeWrite(p) \/ ResumeReadFirst(p) \/ ResumeRead(p)
  PROVE  Stepped(m, m')
<1> DEFINE c == m.call[p]
<1>1. m \in State /\ p \in All /\ c \in Calls /\ CallOK(m, p)
  BY Fields, Pids DEF Good
<1>2. ASSUME NEW len \in 1 .. MaxLen, Read(p, len) PROVE Stepped(m, m')
  <2>1. m.fds[p].in \in Slots
    BY <1>1, <1>2, Fields DEF Read, Descriptors
  <2>2. len \in Nat \ {0} /\ m.status[p] = "ready" /\ m.call[p].op = "none"
    BY <1>2, Sizes DEF Read, InUser, Runs, NoCall
  <2>3. m' = pipe_read(m, p, m.fds[p].in, len)
    BY <1>2 DEF Read, Step
  <2> QED BY <1>1, <2>1, <2>2, <2>3, ReadFirstStepped, UnchangedStepped DEF pipe_read, Open
<1>3. CASE ResumeWrite(p)
  <2>1. c.op = "write" /\ m.status[p] = "ready"
    BY <1>3 DEF ResumeWrite, Runs
  <2>2. c.slot \in Slots /\ c.data \in Seq(Int) /\ c.data # << >>
    BY <1>1, <2>1, CallKinds
  <2>3. m' = IF c.live THEN WriteOn(m, p, c.slot, c.data) ELSE Return(m, p)
    BY <1>3 DEF ResumeWrite, Step
  <2>4. CASE c.live
    <3>1. Open(m, c.slot) /\ m.pipes[c.slot].in = p /\ p # NoProc
      BY <1>1, <2>1, <2>4, Pids DEF CallOK, WriteOK
    <3>2. WriterOK(m, c.slot) /\ PendingOf(m, p) = c.data
      BY <2>1, <2>2, <3>1 DEF Bytes, PendingOf
    <3>3. /\ \A x \in 1 .. Len(c.data) : c.data[x] = Held(m, c.slot) + x
          /\ m.sent[p] = Held(m, c.slot) + Len(c.data)
      BY <2>1, <3>1, <3>2 DEF WriterOK
    <3>4. m.sent[p] <= MaxBytes
      BY DEF Bytes, SentOK
    <3> HIDE DEF c
    <3>5. Stepped(m, WriteOn(m, p, c.slot, c.data))
      BY <1>1, <2>1, <2>2, <3>1, <3>3, <3>4, PutStepped
    <3> QED BY <2>3, <2>4, <3>5
  <2>5. CASE ~ c.live
    <3>1. m' = Return(m, p) /\ NobodyWrites(m, p)
      BY <2>1, <2>3, <2>5, Pids DEF NobodyWrites, Bytes, WriterOK
    <3>2. /\ m' \in State /\ Quiet(m, m') /\ m'.call[p] = NoCall
          /\ \A r \in All \ {p} : m'.call[r] = m.call[r]
      BY <1>1, <3>1, ReturnQuiet
    <3>3. \A r \in All : \/ m'.call[r] = m.call[r]
                         \/ /\ m'.call[r].op # "write" /\ NobodyWrites(m, r)
                            /\ m'.call[r].op # "close"
      BY <3>1, <3>2 DEF NoCall
    <3> QED BY <1>1, <3>2, <3>3, QuietStepped
  <2> QED BY <2>4, <2>5
<1>4. ASSUME c.op \in {"read", "read_first"}, m.status[p] = "ready"
      PROVE  /\ c.live /\ c.slot \in Slots /\ c.left \in Nat \ {0}
             /\ Open(m, c.slot) /\ m.pipes[c.slot].out = p
  BY <1>1, <1>4, CallKinds DEF CallOK, ReadOK
<1>5. CASE ResumeReadFirst(p)
  <2>1. c.op = "read_first" /\ m.status[p] = "ready"
    BY <1>5 DEF ResumeReadFirst, Runs
  <2>2. m' = ReadFirst(m, p, c.slot, c.left)
    BY <1>4, <1>5, <2>1 DEF ResumeReadFirst, Step
  <2>3. m.call[p].op \in {"none", "read", "read_first"}
    BY <2>1
  <2>4. /\ c.live /\ c.slot \in Slots /\ c.left \in Nat \ {0}
        /\ Open(m, c.slot) /\ m.pipes[c.slot].out = p
    BY <1>4, <2>1
  <2> HIDE DEF c
  <2> QED BY <1>1, <2>1, <2>2, <2>3, <2>4, ReadFirstStepped
<1>6. CASE ResumeRead(p)
  <2>1. c.op = "read" /\ m.status[p] = "ready"
    BY <1>6 DEF ResumeRead, Runs
  <2>2. m' = ReadOn(m, p, c.slot, c.left)
    BY <1>6 DEF ResumeRead, Step
  <2>3. m.call[p].op \in {"none", "read", "read_first"}
    BY <2>1
  <2>4. /\ c.live /\ c.slot \in Slots /\ c.left \in Nat \ {0}
        /\ Open(m, c.slot) /\ m.pipes[c.slot].out = p
    BY <1>4, <2>1
  <2> HIDE DEF c
  <2> QED BY <1>1, <2>1, <2>2, <2>3, <2>4, ReadOnStepped
<1> QED BY <1>2, <1>3, <1>5, <1>6, WriteStepped

-----------------------------------------------------------------------------
(* Opening: the bytes are the same whoever reads them.                     *)
SameInside(a, b) ==
  b.buffer = a.buffer /\ b.start = a.start /\ b.size = a.size /\ b.in = a.in

(* Nobody has written into it yet. *)
Clean(s, i) ==
  /\ Open(s, i) /\ s.pipes[i].in = NoProc
  /\ s.pipes[i].size = 0 /\ s.taken[i] = << >> /\ NoEOF(s.pipes[i])

LEMMA InsideKept ==
  ASSUME NEW s, NEW t, NEW i, Open(s, i), Open(t, i),
         SameInside(s.pipes[i], t.pipes[i]), t.taken[i] = s.taken[i]
  PROVE  /\ SlotOK(s, i) => SlotOK(t, i)
         /\ Held(t, i) = Held(s, i)
         /\ NoEOF(t.pipes[i]) <=> NoEOF(s.pipes[i])
         /\ ChanSame(s, t, i)
         /\ Clean(s, i) => Clean(t, i)
<1> DEFINE a == s.pipes[i]
           b == t.pipes[i]
<1>1. /\ b.buffer = a.buffer /\ b.start = a.start /\ b.size = a.size /\ b.in = a.in
      /\ \A n : Byte(b, n) = Byte(a, n)
  BY DEF SameInside, Byte, Place
<1>2. (NoEOF(b) <=> NoEOF(a)) /\ (Ended(b) <=> Ended(a))
  BY <1>1 DEF NoEOF, Ended, Place
<1>3. SlotOK(s, i) => SlotOK(t, i)
  BY <1>1 DEF SlotOK
<1>4. Held(t, i) = Held(s, i)
  BY <1>1 DEF Held
<1>5. ChanSame(s, t, i)
  BY <1>1, <1>2 DEF ChanSame
<1>6. Clean(s, i) => Clean(t, i)
  BY <1>1, <1>2 DEF Clean
<1> QED BY <1>2, <1>3, <1>4, <1>5, <1>6

(* Channels are only created. *)
Grown(s, t) == \A i \in Slots : ChanSame(s, t, i) \/ ChanOpen(s, t, i)

LEMMA GrownTransitive ==
  ASSUME NEW s, NEW t, NEW u, Grown(s, t), Grown(t, u)
  PROVE  Grown(s, u)
<1> SUFFICES ASSUME NEW i \in Slots PROVE ChanSame(s, u, i) \/ ChanOpen(s, u, i)
  BY DEF Grown
<1>1. ChanSame(s, t, i) \/ ChanOpen(s, t, i)
  BY DEF Grown
<1>2. ChanSame(t, u, i) \/ ChanOpen(t, u, i)
  BY DEF Grown
<1>3. CASE ChanSame(s, t, i) /\ ChanSame(t, u, i)
  BY <1>3 DEF ChanSame
<1>4. CASE ChanSame(s, t, i) /\ ChanOpen(t, u, i)
  BY <1>4 DEF ChanSame, ChanOpen
<1>5. CASE ChanOpen(s, t, i) /\ ChanSame(t, u, i)
  BY <1>5 DEF ChanSame, ChanOpen
<1>6. CASE ChanOpen(s, t, i) /\ ChanOpen(t, u, i)
  BY <1>6 DEF ChanOpen
<1> QED BY <1>1, <1>2, <1>3, <1>4, <1>5, <1>6

(* What p's opening leaves alone. *)
Opening(s, t) ==
  /\ t \in State /\ Bytes(t) /\ Grown(s, t) /\ SameProcs(s, t) /\ t.call = s.call
  /\ NoNewWriter(s, t)
  /\ \A i \in Slots : Clean(s, i) => Clean(t, i)

LEMMA OpeningTransitive ==
  ASSUME NEW s, NEW t, NEW u, Opening(s, t), Opening(t, u)
  PROVE  Opening(s, u)
<1>1. Grown(s, u)
  BY GrownTransitive DEF Opening
<1>2. SameProcs(s, u)
  BY DEF Opening, SameProcs
<1>3. NoNewWriter(s, u)
  BY DEF Opening, NoNewWriter
<1> QED BY <1>1, <1>2, <1>3 DEF Opening

LEMMA NothingOpens ==
  ASSUME NEW s \in State, NEW t \in State, Bytes(s), Quiet(s, t), t.call = s.call
  PROVE  Opening(s, t)
<1>1. Bytes(t)
  BY QuietBytes DEF BytesKept
<1>2. Grown(s, t)
  BY SameIsSame DEF Grown, Quiet
<1>3. \A i \in Slots : Clean(s, i) => Clean(t, i)
  <2> SUFFICES ASSUME NEW i \in Slots, Clean(s, i) PROVE Clean(t, i)
    OBVIOUS
  <2>1. Open(s, i) /\ SameAt(s, t, i)
    BY DEF Clean, Quiet
  <2>2. Open(t, i) /\ SameInside(s.pipes[i], t.pipes[i]) /\ t.taken[i] = s.taken[i]
    BY <2>1 DEF SameAt, SamePipe, SameInside
  <2> QED BY <2>1, <2>2, InsideKept
<1>4. NoNewWriter(s, t)
  BY DEF NoNewWriter, Quiet, SameAt, SamePipe
<1> QED BY <1>1, <1>2, <1>3, <1>4 DEF Opening, Quiet

LEMMA SameProcsWriter ==
  ASSUME NEW s \in State, NEW t, NEW p \in Procs, SameProcs(s, t), t.call = s.call,
         s.status[p] # "free"
  PROVE  SameWriter(s, t, p)
<1>1. p \in All
  BY Pids
<1> QED BY <1>1 DEF SameProcs, SameWriter

LEMMA SameProcsSent ==
  ASSUME NEW s \in State, NEW t, SameProcs(s, t), SentOK(s)
  PROVE  SentOK(t)
<1> SUFFICES ASSUME NEW w \in Procs
             PROVE  t.sent[w] <= MaxBytes /\ (t.status[w] = "free" => t.sent[w] = 0)
  BY Zenon DEF SentOK
<1>1. w \in All /\ s.sent[w] <= MaxBytes /\ (s.status[w] = "free" => s.sent[w] = 0)
  BY Pids DEF SentOK
<1> QED BY <1>1 DEF SameProcs

LEMMA CreateBytes ==
  ASSUME NEW s \in State, NEW i \in Slots, s.pipes[i] = NULL, Bytes(s)
  PROVE  LET t == [s EXCEPT !.pipes[i] = create_pipe, !.taken[i] = << >>]
         IN  /\ Opening(s, t) /\ Untouched(t, i)
             /\ \A j \in Slots \ {i} : SameAt(s, t, j)
             /\ t.status = s.status
<1> DEFINE t == [s EXCEPT !.pipes[i] = create_pipe, !.taken[i] = << >>]
<1>1. << >> \in Seq(Int) /\ create_pipe \in Pipes /\ create_pipe # NULL
  BY EmptyPipe, NotFile
<1>2. /\ t \in State /\ t.pipes[i] = create_pipe /\ t.taken[i] = << >>
      /\ \A j \in Slots \ {i} : t.pipes[j] = s.pipes[j] /\ t.taken[j] = s.taken[j]
      /\ t.status = s.status /\ t.call = s.call /\ t.linked = s.linked /\ t.fds = s.fds
      /\ t.sent = s.sent
  BY <1>1 DEF State
<1> HIDE DEF t
<1>3. /\ create_pipe.in = NoProc /\ create_pipe.out = NoProc /\ create_pipe.size = 0
      /\ \A x \in 0 .. PipeSize - 1 : create_pipe.buffer[x] = 0
  BY DEF create_pipe
<1>4. NoEOF(create_pipe)
  BY <1>3 DEF NoEOF, EOF
<1>5. Untouched(t, i) /\ SameProcs(s, t)
  BY <1>1, <1>2, <1>3, <1>4 DEF Untouched, Open, SameProcs
<1>6. \A j \in Slots \ {i} : SameAt(s, t, j)
  BY <1>2, SameIfEqual
<1>7. ChanOpen(s, t, i)
  BY <1>1, <1>2, <1>3, <1>4, NotEnded DEF ChanOpen, Open
<1>8. SlotOK(t, i) /\ WriterOK(t, i)
  <2>1. Len(<< >>) = 0 /\ \A n \in 1 .. 0 : FALSE
    OBVIOUS
  <2> QED BY <1>2, <1>3, <2>1 DEF SlotOK, WriterOK
<1>9. ASSUME NEW j \in Slots, j # i, Open(t, j) PROVE SlotOK(t, j) /\ WriterOK(t, j)
  BY <1>2, <1>5, <1>6, <1>9, SameProcsWriter, SlotKept
<1>10. NoNewWriter(s, t)
  BY <1>2, <1>3 DEF NoNewWriter, Open
<1>11. Bytes(t)
  <2>1. SentOK(t)
    BY <1>5, SameProcsSent DEF Bytes
  <2>2. \A j \in Slots : Open(t, j) => SlotOK(t, j) /\ WriterOK(t, j)
    BY <1>8, <1>9
  <2> QED BY <1>2, <1>10, <2>1, <2>2, BytesFrom
<1>12. Grown(s, t)
  BY <1>6, <1>7, SameIsSame DEF Grown
<1>13. \A j \in Slots : Clean(s, j) => Clean(t, j)
  BY <1>2 DEF Clean, Open
<1> QED BY <1>2, <1>5, <1>6, <1>10, <1>11, <1>12, <1>13 DEF Opening, t

LEMMA OutBytes ==
  ASSUME NEW s \in State, NEW i \in Slots, Open(s, i), NEW p \in Procs, Bytes(s)
  PROVE  LET t == [s EXCEPT !.pipes[i].out = p]
         IN  Opening(s, t) /\ Open(t, i) /\ t.pipes[i].in = s.pipes[i].in
<1> DEFINE new == [s.pipes[i] EXCEPT !.out = p]
           t   == [s EXCEPT !.pipes[i].out = p]
<1>1. s.pipes[i] \in Pipes
  BY Fields
<1>2. new \in Pipes /\ SameInside(s.pipes[i], new)
  BY <1>1 DEF Pipes, SameInside
<1>3. t = [s EXCEPT !.pipes[i] = new]
  OBVIOUS
<1> HIDE DEF new, t
<1>4. /\ t \in State /\ t.pipes[i] = new /\ Open(t, i)
      /\ t.taken = s.taken /\ t.call = s.call /\ SameProcs(s, t)
      /\ \A j \in Slots \ {i} : t.pipes[j] = s.pipes[j] /\ SameAt(s, t, j)
  BY <1>2, <1>3, PipeSet
<1>5. /\ SlotOK(s, i) => SlotOK(t, i)
      /\ Held(t, i) = Held(s, i)
      /\ NoEOF(t.pipes[i]) <=> NoEOF(s.pipes[i])
      /\ ChanSame(s, t, i)
      /\ Clean(s, i) => Clean(t, i)
  BY <1>2, <1>4, InsideKept
<1>6. SlotOK(s, i) /\ WriterOK(s, i) /\ s.pipes[i].in \in Procs \cup {NoProc}
  BY <1>1 DEF Bytes, Pipes
<1>7. t.pipes[i].in = s.pipes[i].in
  BY <1>2, <1>4 DEF SameInside
<1>8. WriterOK(t, i)
  <2>1. s.pipes[i].in # NoProc => SameWriter(s, t, s.pipes[i].in)
    BY <1>4, <1>6, SameProcsWriter DEF WriterOK
  <2> QED BY <1>5, <1>6, <1>7, <2>1, SameWriterOK
<1>9. ASSUME NEW j \in Slots, j # i, Open(t, j) PROVE SlotOK(t, j) /\ WriterOK(t, j)
  BY <1>4, <1>9, SameProcsWriter, SlotKept
<1>10. NoNewWriter(s, t)
  BY <1>4, <1>7 DEF NoNewWriter, Open
<1>11. Bytes(t)
  <2>1. SentOK(t)
    BY <1>4, SameProcsSent DEF Bytes
  <2>2. \A j \in Slots : Open(t, j) => SlotOK(t, j) /\ WriterOK(t, j)
    BY <1>5, <1>6, <1>8, <1>9
  <2> QED BY <1>4, <1>10, <2>1, <2>2, BytesFrom
<1>12. Grown(s, t)
  BY <1>4, <1>5, SameIsSame DEF Grown
<1>13. \A j \in Slots : Clean(s, j) => Clean(t, j)
  BY <1>4, <1>5 DEF Clean, Open
<1> QED BY <1>4, <1>7, <1>10, <1>11, <1>12, <1>13 DEF Opening, t

LEMMA OpenReadBytes ==
  ASSUME NEW s \in State, NEW i \in Slots, NEW p \in Procs, Bytes(s)
  PROVE  Opening(s, open_read(s, p, i))
<1> DEFINE s1 == Existing(s, i)
           s2 == [s1 EXCEPT !.pipes[i].out = p]
           x  == s1.pipes[i].in
           t  == WakeOther(s2, i, x)
<1>1. Opening(s, s1) /\ Open(s1, i)
  <2>1. Opening(s, s)
    <3>1. \A j \in Slots : SameAt(s, s, j)
      BY SameIfEqual
    <3>2. SameProcs(s, s)
      BY DEF SameProcs
    <3> QED BY <3>1, <3>2, NothingOpens DEF Quiet
  <2>2. CASE s.pipes[i] = NULL
    <3> DEFINE made == [s EXCEPT !.pipes[i] = create_pipe, !.taken[i] = << >>]
    <3>1. s1 = made
      BY <2>2 DEF Existing
    <3>2. Opening(s, made) /\ Untouched(made, i)
      BY <2>2, CreateBytes, Zenon
    <3> HIDE DEF made, s1
    <3> QED BY <3>1, <3>2 DEF Untouched
  <2>3. CASE s.pipes[i] # NULL
    BY <2>1, <2>3 DEF Existing, Open
  <2> QED BY <2>2, <2>3
<1>2. open_read(s, p, i) =
        IF s1.pipes[i].out \notin {NoProc, p} THEN s1 ELSE IF x = NoProc THEN s2 ELSE t
  BY DEF open_read
<1> HIDE DEF s1
<1>3. s1 \in State /\ Bytes(s1)
  BY <1>1 DEF Opening
<1>4. Opening(s1, s2) /\ Open(s2, i)
  BY <1>1, <1>3, OutBytes
<1>5. x \in Procs \cup {NoProc}
  BY <1>1, <1>3, Fields DEF Pipes
<1> HIDE DEF s2, x
<1>6. s2 \in State /\ Bytes(s2)
  BY <1>4 DEF Opening
<1>7. Opening(s2, t)
  BY <1>4, <1>5, <1>6, WakeOtherQuiet, NothingOpens
<1> HIDE DEF t
<1> QED BY <1>1, <1>2, <1>4, <1>7, OpeningTransitive

(* A new process becomes the writer of a pipe that nobody has written into.*)
LEMMA OpenWriteBytes ==
  ASSUME NEW s \in State, NEW i \in Slots, NEW p \in Procs, Bytes(s), Clean(s, i),
         s.status[p] = "ready", s.call[p].op = "none", p \notin s.linked,
         s.fds[p].out = i, s.sent[p] = 0,
         \A q \in All : ~ Closes(s, q, p)
  PROVE  LET t == open_write(s, p, i) IN t \in State /\ Bytes(t) /\ Grown(s, t)
<1> DEFINE a   == s.pipes[i]
           new == [a EXCEPT !.in = p]
           s2  == [s EXCEPT !.pipes[i].in = p]
           t   == WakeOther(s2, i, a.out)
<1>1. a \in Pipes /\ Open(s, i) /\ p # NoProc /\ p \in All
  BY Fields, Pids DEF Clean
<1>2. /\ a.size = 0 /\ a.in = NoProc /\ s.taken[i] = << >> /\ NoEOF(a)
      /\ a.out \in Procs \cup {NoProc}
  BY <1>1 DEF Clean, Pipes
<1>3. open_write(s, p, i) = t
  BY <1>1, <1>2 DEF open_write, Existing, Open
<1>4. /\ new \in Pipes /\ new.size = 0 /\ new.in = p /\ new.buffer = a.buffer
      /\ new.start = a.start
  BY <1>1, <1>2 DEF Pipes
<1>5. s2 = [s EXCEPT !.pipes[i] = new]
  OBVIOUS
<1> HIDE DEF new, s2, a
<1>6. /\ s2 \in State /\ s2.pipes[i] = new /\ Open(s2, i)
      /\ s2.taken = s.taken /\ s2.call = s.call /\ s2.status = s.status /\ s2.fds = s.fds
      /\ s2.linked = s.linked /\ s2.sent = s.sent /\ SameProcs(s, s2)
      /\ \A j \in Slots \ {i} : s2.pipes[j] = s.pipes[j] /\ SameAt(s, s2, j)
  BY <1>4, <1>5, PipeSet
<1>7. NoEOF(new) /\ (Ended(new) <=> Ended(a))
  <2>1. Place(new, new.size) = Place(a, a.size)
    BY <1>2, <1>4 DEF Place
  <2> QED BY <1>2, <1>4, <2>1 DEF NoEOF, Ended
<1>8. SlotOK(s2, i) /\ WriterOK(s2, i)
  <2>1. Len(<< >>) = 0 /\ \A n \in 1 .. 0 : FALSE
    OBVIOUS
  <2>2. PendingOf(s2, p) = << >> /\ Held(s2, i) + 0 = 0
    BY <1>2, <1>4, <1>6, <2>1 DEF PendingOf, Held
  <2> QED BY <1>1, <1>2, <1>4, <1>6, <1>7, <2>1, <2>2 DEF SlotOK, WriterOK
<1>9. ASSUME NEW j \in Slots, j # i, Open(s2, j) PROVE SlotOK(s2, j) /\ WriterOK(s2, j)
  BY <1>6, <1>9, SameProcsWriter, SlotKept
<1>10. StrayOK(s2)
  <2> SUFFICES ASSUME NEW q \in All, NEW v \in Procs, Closes(s2, q, v), ~ s2.call[q].live
               PROVE  NobodyWrites(s2, v)
    BY DEF StrayOK
  <2>1. Closes(s, q, v) /\ NobodyWrites(s, v)
    BY <1>6 DEF Closes, Bytes, StrayOK
  <2>2. v # p
    BY <2>1
  <2> QED BY <1>4, <1>6, <2>1, <2>2 DEF NobodyWrites, Open
<1>11. Bytes(s2)
  <2>1. SentOK(s2)
    BY <1>6, SameProcsSent DEF Bytes
  <2> QED BY <1>8, <1>9, <1>10, <2>1 DEF Bytes
<1>12. ChanSame(s, s2, i)
  BY <1>1, <1>2, <1>4, <1>6, <1>7 DEF ChanSame, a
<1>13. Grown(s, s2)
  BY <1>6, <1>12, SameIsSame DEF Grown
<1>14. t \in State /\ Opening(s2, t)
  BY <1>2, <1>6, <1>11, WakeOtherQuiet, NothingOpens
<1> HIDE DEF t
<1> QED BY <1>3, <1>13, <1>14, GrownTransitive DEF Opening

LEMMA InitBytes ==
  ASSUME NEW s, NEW p \in Procs, NEW in \in Descriptors, NEW out \in Descriptors,
         Good(s, NoProc), Bytes(s), s.status[p] = "free",
         out = Tty \/ Clean(s, out)
  PROVE  LET t == init_process(s, p, in, out) IN Bytes(t) /\ Grown(s, t)
<1> DEFINE f  == [in |-> in, out |-> out]
           s1 == [s EXCEPT !.status[p] = "ready", !.fds[p] = f]
           s2 == IF in = Tty THEN s1 ELSE open_read(s1, p, in)
<1>1. s \in State /\ p \in All /\ s.call[p].op = "none" /\ p \notin s.linked
  BY FreeIsIdle, Pids DEF Good
<1>2. f \in [in : Descriptors, out : Descriptors] /\ f.out = out
  OBVIOUS
<1>3. init_process(s, p, in, out) = IF out = Tty THEN s2 ELSE open_write(s2, p, out)
  BY DEF init_process
<1> HIDE DEF f
<1>4. /\ s1 \in State /\ s1.status[p] = "ready" /\ s1.pipes = s.pipes /\ s1.taken = s.taken
      /\ s1.call = s.call /\ s1.linked = s.linked /\ s1.sent = s.sent /\ s1.fds[p] = f
      /\ \A r \in All \ {p} : s1.status[r] = s.status[r] /\ s1.fds[r] = s.fds[r]
  BY <1>1, <1>2 DEF State
<1> HIDE DEF s1
<1>5. \A i \in Slots : SameAt(s, s1, i)
  BY <1>1, <1>4, SameIfEqual
<1>6. ASSUME NEW i \in Slots, Open(s1, i) PROVE SlotOK(s1, i) /\ WriterOK(s1, i)
  <2>1. ASSUME NEW w \in Procs, s.status[w] # "free" PROVE SameWriter(s, s1, w)
    <3>1. w # p /\ w \in All
      BY <2>1, Pids
    <3> QED BY <1>4, <2>1, <3>1 DEF SameWriter
  <2> QED BY <1>1, <1>5, <1>6, <2>1, SlotKept
<1>7. s.sent[p] = 0
  BY DEF Bytes, SentOK
<1>8. SentOK(s1)
  <2> SUFFICES ASSUME NEW w \in Procs
               PROVE  s1.sent[w] <= MaxBytes /\ (s1.status[w] = "free" => s1.sent[w] = 0)
    BY Zenon DEF SentOK
  <2>1. w \in All /\ s.sent[w] <= MaxBytes /\ (s.status[w] = "free" => s.sent[w] = 0)
    BY Pids DEF Bytes, SentOK
  <2> QED BY <1>4, <2>1
<1>9. NoNewWriter(s, s1)
  BY <1>4 DEF NoNewWriter, Open
<1>10. Bytes(s1)
  BY <1>4, <1>6, <1>8, <1>9, BytesFrom
<1>11. Grown(s, s1) /\ \A i \in Slots : Clean(s, i) => Clean(s1, i)
  BY <1>4, <1>5, SameIsSame DEF Grown, Clean, Open
<1>12. Opening(s1, s2)
  <2>1. CASE in = Tty
    <3>1. Quiet(s1, s1)
      BY <1>4 DEF Quiet, SameAt, SamePipe, SameProcs, State, Open
    <3> QED BY <1>4, <1>10, <2>1, <3>1, NothingOpens
  <2>2. CASE in # Tty
    <3>1. in \in Slots
      BY <2>2 DEF Descriptors
    <3> QED BY <1>4, <1>10, <2>2, <3>1, OpenReadBytes
  <2> QED BY <2>1, <2>2
<1>13. Good(s2, NoProc) /\ Fresh(s2, p)
  <2>1. Good(s1, NoProc) /\ Fresh(s1, p)
    <3>1. init_process(s, p, Tty, Tty) = [s EXCEPT !.status[p] = "ready", !.fds[p] = [in |-> Tty, out |-> Tty]]
      BY DEF init_process
    <3> DEFINE u == init_process(s, p, Tty, Tty)
               g == [in |-> Tty, out |-> Tty]
    <3>2. Good(u, NoProc)
      BY InitProcessKeeps DEF Descriptors
    <3>3. g \in [in : Descriptors, out : Descriptors] /\ u = [s EXCEPT !.status[p] = "ready", !.fds[p] = g]
      BY <3>1 DEF Descriptors
    <3> HIDE DEF u, g
    <3>4. s1.pipes = u.pipes /\ s1.status = u.status /\ s1.call = u.call /\ s1.linked = u.linked
          /\ s1.waits = u.waits
      BY <1>1, <3>3 DEF State, s1
    <3> QED BY <1>1, <1>4, <3>2, <3>4, TheRest DEF Fresh
  <2>2. CASE in = Tty
    BY <2>1, <2>2
  <2>3. CASE in # Tty
    <3>1. in \in Slots
      BY <2>3 DEF Descriptors
    <3>2. Good(open_read(s1, p, in), NoProc) /\ Mild(s1, open_read(s1, p, in))
      BY <2>1, <3>1, OpenReadKeeps
    <3> QED BY <1>1, <2>1, <2>3, <3>2 DEF Mild, Fresh
  <2> QED BY <2>2, <2>3
<1> HIDE DEF s2
<1>14. /\ s2 \in State /\ Bytes(s2) /\ Grown(s1, s2) /\ s2.call = s.call
       /\ s2.linked = s.linked /\ s2.sent = s.sent /\ s2.fds = s1.fds
       /\ \A i \in Slots : Clean(s, i) => Clean(s2, i)
  BY <1>4, <1>11, <1>12 DEF Opening, SameProcs
<1>15. Grown(s, s2)
  BY <1>11, <1>14, GrownTransitive
<1>16. CASE out = Tty
  BY <1>3, <1>14, <1>15, <1>16
<1>17. CASE out # Tty
  <2>1. out \in Slots /\ Clean(s2, out)
    BY <1>14, <1>17 DEF Descriptors
  <2>2. \A q \in All : ~ Closes(s2, q, p)
    BY <1>13, Pids DEF Good, CallOK, CloseOK, Closes, Fresh
  <2>3. s2.fds[p].out = out /\ s2.sent[p] = 0
    BY <1>2, <1>4, <1>7, <1>14
  <2>4. Bytes(open_write(s2, p, out)) /\ Grown(s2, open_write(s2, p, out))
    BY <1>1, <1>13, <1>14, <2>1, <2>2, <2>3, OpenWriteBytes DEF Fresh
  <2> QED BY <1>3, <1>15, <1>17, <2>4, GrownTransitive
<1> QED BY <1>16, <1>17

-----------------------------------------------------------------------------
(* Closing: a channel is left by its writer, or it is gone.                *)
SlotDown(s, t, i) == ChanSame(s, t, i) \/ ChanLeave(s, t, i) \/ ChanGone(s, t, i)

Lower(s, t) ==
  /\ t \in State /\ BytesKept(s, t) /\ NoNewWriter(s, t)
  /\ \A i \in Slots : SlotDown(s, t, i)

SameVictims(s, t) ==
  \A r \in All : /\ t.call[r].op = s.call[r].op
                 /\ s.call[r].op = "close" => t.call[r].victim = s.call[r].victim

(* q closes the pipes of v, and has written the last bytes of the one that *)
(* it was closing, if it comes from there.                                 *)
Killing(s, q, v) ==
  /\ Closing(s, q, v) /\ Bytes(s)
  /\ s.call[q].op # "write"
  /\ s.call[q].op = "close" => NobodyWrites(s, s.call[q].victim)

(* q comes back to the pipe that it was closing. *)
Ending(s, q, v) ==
  /\ Closing(s, q, v) /\ Bytes(s)
  /\ s.call[q].op # "write"
  /\ s.call[q].op = "close" => s.call[q].victim = v

LEMMA LowerTransitive ==
  ASSUME NEW s, NEW t, NEW u, Lower(s, t), Lower(t, u)
  PROVE  Lower(s, u)
<1>1. ASSUME NEW i \in Slots PROVE SlotDown(s, u, i)
  <2>1. SlotDown(s, t, i) /\ SlotDown(t, u, i)
    BY DEF Lower
  <2>2. CASE ChanSame(s, t, i) /\ ChanSame(t, u, i)
    BY <2>2 DEF SlotDown, ChanSame
  <2>3. CASE ChanSame(s, t, i) /\ ChanLeave(t, u, i)
    BY <2>3 DEF SlotDown, ChanSame, ChanLeave
  <2>4. CASE ChanSame(s, t, i) /\ ChanGone(t, u, i)
    BY <2>4 DEF SlotDown, ChanSame, ChanGone
  <2>5. CASE ChanLeave(s, t, i) /\ ChanSame(t, u, i)
    BY <2>5 DEF SlotDown, ChanSame, ChanLeave
  <2>6. CASE ChanLeave(s, t, i) /\ ChanLeave(t, u, i)
    BY <2>6 DEF SlotDown, ChanLeave
  <2>7. CASE ChanLeave(s, t, i) /\ ChanGone(t, u, i)
    BY <2>7 DEF SlotDown, ChanGone, ChanLeave
  <2>8. CASE ChanGone(s, t, i)
    BY <2>1, <2>8 DEF SlotDown, ChanSame, ChanLeave, ChanGone
  <2> QED BY <2>1, <2>2, <2>3, <2>4, <2>5, <2>6, <2>7, <2>8 DEF SlotDown
<1>2. NoNewWriter(s, u)
  BY DEF Lower, NoNewWriter
<1> QED BY <1>1, <1>2 DEF Lower, BytesKept

LEMMA LowerStepped ==
  ASSUME NEW s, NEW t, Lower(s, t)
  PROVE  Stepped(s, t)
BY DEF Lower, SlotDown, Stepped, ChanStep

LEMMA NobodyStill ==
  ASSUME NEW s, NEW t, NEW v \in Procs, NobodyWrites(s, v), NoNewWriter(s, t)
  PROVE  NobodyWrites(t, v)
BY Pids DEF NobodyWrites, NoNewWriter

LEMMA KillingGoesOn ==
  ASSUME NEW s, NEW t, NEW q, NEW v, Killing(s, q, v), Lower(s, t), SameVictims(s, t),
         Closing(t, q, v)
  PROVE  Killing(t, q, v)
<1>1. s \in State /\ q \in All
  BY DEF Killing, Closing, Good
<1>2. t.call[q].op = s.call[q].op
      /\ (s.call[q].op = "close" => t.call[q].victim = s.call[q].victim)
  BY <1>1 DEF SameVictims
<1>3. ASSUME s.call[q].op = "close" PROVE NobodyWrites(t, s.call[q].victim)
  <2>1. s.call[q].victim \in Procs
    BY <1>1, <1>3, Fields, CallKinds
  <2> QED BY <1>3, <2>1, NobodyStill DEF Killing, Lower
<1> QED BY <1>2, <1>3 DEF Killing, Lower, BytesKept

LEMMA QuietLower ==
  ASSUME NEW s, NEW t, s \in State, t \in State, Bytes(s), Quiet(s, t),
         \A r \in All : \/ t.call[r] = s.call[r]
                        \/ /\ t.call[r].op # "write"
                           /\ s.call[r].op # "write" \/ NobodyWrites(s, r)
                           /\ t.call[r].op = "close" => t.call[r].live
  PROVE  Lower(s, t)
<1>1. BytesKept(s, t)
  BY QuietBytes
<1>2. NoNewWriter(s, t)
  BY DEF NoNewWriter, Quiet, SameAt, SamePipe
<1>3. \A i \in Slots : SlotDown(s, t, i)
  BY SameIsSame DEF SlotDown, Quiet
<1> QED BY <1>1, <1>2, <1>3 DEF Lower

LEMMA NothingLower ==
  ASSUME NEW s \in State, Bytes(s)
  PROVE  Lower(s, s)
BY DEF Lower, BytesKept, NoNewWriter, SlotDown, ChanSame

LEMMA SameSent ==
  ASSUME NEW s, NEW t, SentOK(s), t.sent = s.sent,
         \A p \in Procs : t.status[p] = s.status[p]
  PROVE  SentOK(t)
BY Zenon DEF SentOK

(* Only one pipe is written by a process.                                  *)
LEMMA OneWriter ==
  ASSUME NEW s \in State, Bytes(s), NEW v \in Procs, NEW i \in Slots, Open(s, i),
         s.pipes[i].in = v
  PROVE  s.fds[v].out = i
BY Pids DEF Bytes, WriterOK

(* A step that changes no pipe: writers stay what they were.               *)
LEMMA PipesLower ==
  ASSUME NEW s \in State, NEW t \in State, Bytes(s),
         t.pipes = s.pipes, t.taken = s.taken, SentOK(t),
         \A p \in Procs : s.status[p] # "free" /\ ~ NobodyWrites(s, p) => SameWriter(s, t, p),
         \A q \in All : t.call[q].op = "close" => t.call[q] = s.call[q]
  PROVE  Lower(s, t)
<1>1. \A i \in Slots : SameAt(s, t, i)
  BY SameIfEqual
<1>2. ASSUME NEW i \in Slots, Open(t, i) PROVE SlotOK(t, i) /\ WriterOK(t, i)
  <2>1. ASSUME NEW p \in Procs, s.pipes[i].in = p, s.status[p] # "free" PROVE SameWriter(s, t, p)
    BY <1>2, <2>1 DEF NobodyWrites, Open
  <2> QED BY <1>1, <1>2, <2>1, SlotKept
<1>3. NoNewWriter(s, t)
  BY DEF NoNewWriter, Open
<1>4. Bytes(t)
  BY <1>2, <1>3, BytesFrom
<1>5. \A i \in Slots : Untouched(s, i) => Untouched(t, i)
  BY <1>1, SameSlot DEF Untouched
<1>6. \A i \in Slots : SlotDown(s, t, i)
  BY <1>1, SameIsSame DEF SlotDown
<1> QED BY <1>3, <1>4, <1>5, <1>6 DEF Lower, BytesKept

(* The victim is dead: what it still held is not written.                  *)
LEMMA DeadLower ==
  ASSUME NEW s \in State, NEW v \in Procs, Bytes(s)
  PROVE  Lower(s, [s EXCEPT !.status[v] = "zombie", !.call[v] = NoCall])
<1> DEFINE t == [s EXCEPT !.status[v] = "zombie", !.call[v] = NoCall]
<1>1. v \in All /\ NoCall \in Calls
  BY Pids DEF Calls
<1>2. /\ t \in State /\ t.status[v] = "zombie" /\ t.call[v] = NoCall
      /\ t.pipes = s.pipes /\ t.taken = s.taken /\ t.fds = s.fds /\ t.sent = s.sent
      /\ t.linked = s.linked
      /\ \A r \in All \ {v} : t.status[r] = s.status[r] /\ t.call[r] = s.call[r]
  BY <1>1 DEF State
<1> HIDE DEF t
<1>3. SentOK(t)
  <2> SUFFICES ASSUME NEW w \in Procs
               PROVE  t.sent[w] <= MaxBytes /\ (t.status[w] = "free" => t.sent[w] = 0)
    BY Zenon DEF SentOK
  <2>1. w \in All /\ s.sent[w] <= MaxBytes /\ (s.status[w] = "free" => s.sent[w] = 0)
    BY Pids DEF Bytes, SentOK
  <2> QED BY <1>2, <2>1
<1>4. ASSUME NEW p \in Procs, s.status[p] # "free" PROVE SameWriter(s, t, p)
  <2>1. p \in All
    BY Pids
  <2>2. CASE p = v
    BY <1>2, <2>2 DEF SameWriter, NoCall
  <2>3. CASE p # v
    BY <1>2, <1>4, <2>1, <2>3 DEF SameWriter
  <2> QED BY <2>2, <2>3
<1>5. \A q \in All : t.call[q].op = "close" => t.call[q] = s.call[q]
  BY <1>2 DEF NoCall
<1> QED BY <1>2, <1>3, <1>4, <1>5, PipesLower DEF t

LEMMA CloseWriteLower ==
  ASSUME NEW s, NEW q, NEW v, NEW i \in Slots,
         Killing(s, q, v) \/ Ending(s, q, v),
         Open(s, i), s.pipes[i].in = v, s.pipes[i].size < PipeSize
  PROVE  LET t == close_write(s, i)
         IN  Lower(s, t) /\ Killing(t, q, v) /\ NobodyWrites(t, v) /\ t.fds = s.fds
<1> DEFINE a    == s.pipes[i]
           new1 == WithEOF(a)
           new  == [new1 EXCEPT !.in = NoProc]
           s1   == [s EXCEPT !.pipes[i] = new1]
           s2   == [s EXCEPT !.pipes[i] = new]
           x    == a.out
           t    == WakeOther(s2, i, x)
<1>1. s \in State /\ a \in Pipes /\ v \in Procs /\ v # NoProc /\ Bytes(s) /\ Closing(s, q, v)
  BY Fields, Pids DEF Killing, Ending, Closing, Good
<1>2. SlotOK(s, i) /\ NoEOF(a) /\ ~ Ended(a)
  <2>1. SlotOK(s, i) /\ NoEOF(a)
    BY <1>1 DEF Bytes, WriterOK
  <2> QED BY <1>1, <2>1, NotEnded
<1>3. new1 \in Pipes /\ (\A n \in 1 .. a.size : Byte(new1, n) = Byte(a, n)) /\ Ended(new1)
      /\ new1.size = a.size
  BY <1>1, EndedPipe, EOFBytes DEF WithEOF
<1>4. close_write(s, i) = t
  <2>1. s1 = [s EXCEPT !.pipes[i] = WithEOF(@)]
    OBVIOUS
  <2>2. [s1 EXCEPT !.pipes[i].in = NoProc] = s2
    BY <1>1 DEF State
  <2>3. close_write(s, i) = WakeOther([s1 EXCEPT !.pipes[i].in = NoProc], i, s.pipes[i].out)
    BY <1>2, <2>1 DEF close_write
  <2> HIDE DEF s1, s2
  <2> QED BY <2>2, <2>3
<1> HIDE DEF new1
<1>5. /\ new \in Pipes /\ new.in = NoProc /\ new.size = a.size
      /\ new.buffer = new1.buffer /\ new.start = new1.start
  BY <1>3 DEF Pipes
<1> HIDE DEF new
<1>6. (\A n \in 1 .. a.size : Byte(new, n) = Byte(a, n)) /\ Ended(new)
  BY <1>3, <1>5 DEF Byte, Ended, Place
<1>7. /\ s2 \in State /\ s2.pipes[i] = new /\ Open(s2, i)
      /\ s2.taken = s.taken /\ s2.call = s.call /\ s2.fds = s.fds /\ SameProcs(s, s2)
      /\ \A j \in Slots \ {i} : s2.pipes[j] = s.pipes[j] /\ SameAt(s, s2, j)
  BY <1>1, <1>5, PipeSet
<1> HIDE DEF s2
<1>8. NoNewWriter(s, s2) /\ NobodyWrites(s2, v)
  <2>1. NoNewWriter(s, s2)
    BY <1>5, <1>7 DEF NoNewWriter, Open
  <2>2. ASSUME NEW j \in Slots, Open(s2, j), s2.pipes[j].in = v PROVE FALSE
    <3>1. j # i
      BY <1>1, <1>5, <1>7, <2>2
    <3>2. Open(s, j) /\ s.pipes[j].in = v
      BY <1>7, <2>2, <3>1 DEF Open
    <3>3. s.fds[v].out = i /\ s.fds[v].out = j
      BY <1>1, <3>2, OneWriter
    <3> QED BY <3>1, <3>3
  <2> QED BY <2>1, <2>2 DEF NobodyWrites
<1>9. SlotOK(s2, i) /\ WriterOK(s2, i)
  BY <1>2, <1>5, <1>6, <1>7 DEF SlotOK, WriterOK
<1>10. ASSUME NEW j \in Slots, j # i, Open(s2, j) PROVE SlotOK(s2, j) /\ WriterOK(s2, j)
  BY <1>1, <1>7, <1>10, SameProcsWriter, SlotKept
<1>11. Bytes(s2)
  <2>1. SentOK(s2)
    BY <1>1, <1>7, SameProcsSent DEF Bytes
  <2>2. \A j \in Slots : Open(s2, j) => SlotOK(s2, j) /\ WriterOK(s2, j)
    BY <1>9, <1>10
  <2> QED BY <1>1, <1>7, <1>8, <2>1, <2>2, BytesFrom
<1>12. Lower(s, s2)
  <2>1. \A j \in Slots : Untouched(s, j) => Untouched(s2, j)
    BY <1>1, <1>7, SameSlot DEF Untouched
  <2>2. ChanLeave(s, s2, i)
    BY <1>5, <1>6, <1>7 DEF ChanLeave
  <2>3. \A j \in Slots : SlotDown(s, s2, j)
    BY <1>7, <2>2, SameIsSame DEF SlotDown
  <2> QED BY <1>7, <1>8, <1>11, <2>1, <2>3 DEF Lower, BytesKept
<1>13. x \in Procs \cup {NoProc}
  BY <1>1 DEF Pipes
<1> HIDE DEF x
<1>14. t \in State /\ Quiet(s2, t) /\ t.call = s2.call
  BY <1>7, <1>13, WakeOtherQuiet
<1>15. Closing(t, q, v)
  BY <1>1, <1>4, CloseWriteKeeps
<1> HIDE DEF t
<1>16. Lower(s2, t)
  BY <1>7, <1>11, <1>14, QuietLower
<1>17. Lower(s, t) /\ NobodyWrites(t, v) /\ t.fds = s.fds
  BY <1>1, <1>7, <1>8, <1>12, <1>14, <1>16, LowerTransitive, NobodyStill DEF Quiet, SameProcs, Lower
<1>18. SameVictims(s, t)
  BY <1>7, <1>14 DEF SameVictims
<1>19. Ending(s, q, v) => Killing(t, q, v)
  BY <1>7, <1>14, <1>15, <1>17 DEF Ending, Killing, Lower, BytesKept
<1> QED BY <1>4, <1>15, <1>17, <1>18, <1>19, KillingGoesOn

LEMMA CloseReadLower ==
  ASSUME NEW s, NEW q, NEW v, NEW i \in Slots,
         Killing(s, q, v), Open(s, i), s.pipes[i].out = v, s.pipes[i].in # v
  PROVE  LET t == close_read(s, i) IN Lower(s, t) /\ Killing(t, q, v) /\ t.fds = s.fds
<1> DEFINE x  == s.pipes[i].in
           s1 == WakeOther(s, i, x)
           off(r) == IF s.call[r].slot = i THEN [s.call[r] EXCEPT !.live = FALSE]
                                           ELSE s.call[r]
           t  == [s1 EXCEPT !.pipes[i] = NULL, !.taken[i] = << >>,
                            !.call = [p \in All |-> off(p)]]
<1>1. s \in State /\ s.pipes[i] \in Pipes /\ v \in Procs /\ Bytes(s) /\ Closing(s, q, v)
      /\ Good(s, q)
  BY Fields DEF Killing, Closing, Good
<1>2. close_read(s, i) = t
  BY DEF close_read
<1>3. x \in Procs \cup {NoProc}
  BY <1>1 DEF Pipes
<1>4. s1 \in State /\ Quiet(s, s1) /\ s1.call = s.call
  BY <1>1, <1>3, WakeOtherQuiet
<1> HIDE DEF t
<1>5. Closing(t, q, v)
  <2>1. Closing(close_read(s, i), q, v)
    BY <1>1, CloseReadKeeps
  <2> QED BY <1>2, <2>1
<1> USE DEF t
<1>6. t \in State
  BY <1>5 DEF Closing, Good
<1> HIDE DEF x, s1
<1>7. Lower(s, s1)
  BY <1>1, <1>4, QuietLower
<1>8. Bytes(s1)
  BY <1>7 DEF Lower, BytesKept
<1>9. \A r \in All : /\ off(r).op = s.call[r].op
                     /\ s.call[r].slot # i => off(r) = s.call[r]
                     /\ s.call[r].slot = i => off(r).live = FALSE
                     /\ s.call[r].op = "close" => off(r).victim = s.call[r].victim
  <2> SUFFICES ASSUME NEW r \in All
               PROVE  /\ off(r).op = s.call[r].op
                      /\ s.call[r].slot # i => off(r) = s.call[r]
                      /\ s.call[r].slot = i => off(r).live = FALSE
                      /\ s.call[r].op = "close" => off(r).victim = s.call[r].victim
    OBVIOUS
  <2>1. s.call[r] \in Calls
    BY <1>1, Fields
  <2>2. CASE s.call[r].slot = i
    BY <2>1, <2>2, NotLive
  <2>3. CASE s.call[r].slot # i
    BY <2>3
  <2> QED BY <2>2, <2>3
<1> HIDE DEF off
<1>10. /\ t.pipes[i] = NULL /\ t.taken[i] = << >>
       /\ \A j \in Slots \ {i} : t.pipes[j] = s1.pipes[j] /\ t.taken[j] = s1.taken[j]
       /\ t.status = s1.status /\ t.linked = s1.linked /\ t.fds = s1.fds /\ t.sent = s1.sent
       /\ \A r \in All : t.call[r] = off(r)
  <2> DEFINE calls == [p \in All |-> off(p)]
  <2>1. t = [s1 EXCEPT !.pipes[i] = NULL, !.taken[i] = << >>, !.call = calls]
    OBVIOUS
  <2>2. \A r \in All : calls[r] = off(r)
    OBVIOUS
  <2> HIDE DEF calls, t
  <2> QED BY <1>4, <2>1, <2>2 DEF State
<1> HIDE DEF t
<1>11. \A j \in Slots \ {i} : SameAt(s1, t, j)
  BY <1>4, <1>6, <1>10, SameIfEqual
<1>12. Open(s1, i) /\ ~ Open(t, i) /\ s1.pipes[i].in = s.pipes[i].in
  BY <1>4, <1>10 DEF Quiet, SameAt, SamePipe, Open
<1>13. SameVictims(s, t)
  BY <1>9, <1>10 DEF SameVictims
<1>14. SentOK(t)
  <2>1. SameProcs(s1, t)
    BY <1>10 DEF SameProcs
  <2> QED BY <1>4, <1>8, <2>1, SameProcsSent DEF Bytes
<1>15. ASSUME NEW j \in Slots, Open(t, j) PROVE SlotOK(t, j) /\ WriterOK(t, j)
  <2>1. j # i /\ SameAt(s1, t, j)
    BY <1>11, <1>12, <1>15
  <2>2. Open(s1, j)
    BY <1>15, <2>1 DEF SameAt
  <2>3. ASSUME NEW p \in Procs, s1.pipes[j].in = p, s1.status[p] # "free"
        PROVE  SameWriter(s1, t, p)
    <3>1. p \in All /\ p # NoProc
      BY Pids
    <3>2. s1.call[p].op = "write" => s1.call[p].slot = j
      BY <1>8, <2>2, <2>3, <3>1 DEF Bytes, WriterOK
    <3>3. CASE s1.call[p].op = "write"
      <4>1. t.call[p] = s1.call[p]
        BY <1>4, <1>9, <1>10, <2>1, <3>1, <3>2, <3>3
      <4> QED BY <1>10, <2>3, <4>1 DEF SameWriter
    <3>4. CASE s1.call[p].op # "write"
      <4>1. t.call[p].op # "write"
        BY <1>4, <1>13, <3>1, <3>4 DEF SameVictims
      <4> QED BY <1>10, <2>3, <3>4, <4>1 DEF SameWriter
    <3> QED BY <3>3, <3>4
  <2> QED BY <1>4, <1>8, <1>15, <2>1, <2>3, SlotKept
<1>16. NoNewWriter(s1, t)
  BY <1>10, <1>12 DEF NoNewWriter, Open
<1>17. NoNewWriter(s, t)
  BY <1>7, <1>16 DEF NoNewWriter, Lower
<1>18. ASSUME NEW r \in All, t.call[r].op = "close", ~ t.call[r].live, t.call[r] # s1.call[r]
       PROVE  /\ s1.call[r].op = "close" /\ s1.call[r].victim = t.call[r].victim
              /\ NobodyWrites(t, t.call[r].victim)
  <2>1. s.call[r].slot = i /\ s.call[r] \in Calls
    BY <1>1, <1>4, <1>9, <1>10, <1>18, Fields
  <2> DEFINE w == s.call[r].victim
  <2>2. s.call[r].op = "close" /\ w = t.call[r].victim
    BY <1>13, <1>18 DEF SameVictims
  <2>3. w \in Procs
    BY <2>1, <2>2, CallKinds
  <2>4. CASE r = q
    <3>1. NobodyWrites(s, w)
      BY <2>2, <2>4 DEF Killing
    <3> QED BY <1>4, <1>17, <2>2, <2>3, <3>1, NobodyStill
  <2>5. CASE r # q /\ s.call[r].live
    <3>1. s.pipes[i].in = w
      BY <1>1, <2>1, <2>2, <2>5 DEF Good, CallOK, CloseOK
    <3>2. ASSUME NEW j \in Slots, Open(t, j), t.pipes[j].in = w PROVE FALSE
      <4>1. j # i /\ Open(s, j) /\ s.pipes[j].in = w
        BY <1>12, <1>17, <2>3, <3>2, Pids DEF NoNewWriter
      <4>2. s.fds[w].out = i /\ s.fds[w].out = j
        BY <1>1, <2>3, <3>1, <4>1, OneWriter
      <4> QED BY <4>1, <4>2
    <3> QED BY <1>4, <2>2, <3>2 DEF NobodyWrites
  <2>6. CASE r # q /\ ~ s.call[r].live
    <3>1. NobodyWrites(s, w)
      BY <1>1, <2>2, <2>3, <2>6 DEF Bytes, StrayOK, Closes
    <3> QED BY <1>4, <1>17, <2>2, <2>3, <3>1, NobodyStill
  <2> QED BY <2>4, <2>5, <2>6
<1>19. Bytes(t)
  BY <1>8, <1>14, <1>15, <1>16, <1>18, BytesFrom
<1>20. Lower(s1, t)
  <2>1. \A j \in Slots : Untouched(s1, j) => j # i
    <3>1. ~ Untouched(s1, i)
      <4>1. s1.pipes[i].out = s.pipes[i].out /\ v # NoProc
        BY <1>1, <1>4, Pids DEF Quiet, SameAt, SamePipe
      <4> QED BY <4>1 DEF Untouched
    <3> QED BY <3>1
  <2>2. \A j \in Slots : Untouched(s1, j) => Untouched(t, j)
    BY <1>11, <2>1, SameSlot DEF Untouched
  <2>3. ChanGone(s1, t, i)
    BY <1>10, <1>12 DEF ChanGone
  <2>4. \A j \in Slots : SlotDown(s1, t, j)
    BY <1>11, <2>3, SameIsSame DEF SlotDown
  <2> QED BY <1>6, <1>16, <1>19, <2>2, <2>4 DEF Lower, BytesKept
<1>21. Lower(s, t)
  BY <1>7, <1>20, LowerTransitive
<1>22. t.fds = s.fds
  BY <1>4, <1>10 DEF Quiet, SameProcs
<1> QED BY <1>2, <1>5, <1>13, <1>21, <1>22, KillingGoesOn

LEMMA PipeCloseLower ==
  ASSUME NEW s, NEW q, NEW v, NEW i \in Descriptors, Killing(s, q, v), ~ CloseWaits(s, v, i)
  PROVE  LET t == pipe_close(s, v, i)
         IN  /\ Lower(s, t) /\ Killing(t, q, v) /\ t.fds = s.fds
             /\ s.fds[v].out = i => NobodyWrites(t, v)
<1>1. s \in State /\ Bytes(s) /\ v \in Procs
  BY DEF Killing, Closing, Good
<1>2. ASSUME NEW j \in Slots, Open(s, j), s.pipes[j].in = v, s.fds[v].out = i PROVE j = i
  BY <1>1, <1>2, OneWriter
<1>3. CASE i = Tty \/ s.pipes[i] = NULL
  <2>1. pipe_close(s, v, i) = s
    BY <1>3 DEF pipe_close
  <2>2. s.fds[v].out = i => NobodyWrites(s, v)
    BY <1>2, <1>3, NotFile DEF NobodyWrites, Open
  <2> QED BY <1>1, <2>1, <2>2, NothingLower
<1>4. CASE i # Tty /\ s.pipes[i] # NULL
  <2>1. i \in Slots /\ Open(s, i) /\ s.pipes[i] \in Pipes
    BY <1>1, <1>4, Fields DEF Descriptors, Open
  <2>2. CASE s.pipes[i].in = v
    <3>1. pipe_close(s, v, i) = close_write(s, i)
      BY <1>4, <2>2 DEF pipe_close
    <3>2. s.pipes[i].size < PipeSize
      <4>1. s.pipes[i].size # PipeSize
        BY <1>4, <2>2 DEF CloseWaits
      <4> QED BY <2>1, <4>1, Sizes DEF Pipes
    <3> QED BY <2>1, <2>2, <3>1, <3>2, CloseWriteLower
  <2>3. CASE s.pipes[i].in # v /\ s.pipes[i].out = v
    <3> DEFINE t == close_read(s, i)
    <3>1. pipe_close(s, v, i) = t
      BY <1>4, <2>3 DEF pipe_close
    <3>2. Lower(s, t) /\ Killing(t, q, v) /\ t.fds = s.fds
      BY <2>1, <2>3, CloseReadLower
    <3> HIDE DEF t
    <3>3. s.fds[v].out = i => NobodyWrites(s, v)
      BY <1>2, <2>3 DEF NobodyWrites
    <3> QED BY <1>1, <3>1, <3>2, <3>3, NobodyStill DEF Lower
  <2>4. CASE s.pipes[i].in # v /\ s.pipes[i].out # v
    <3>1. pipe_close(s, v, i) = s
      BY <1>4, <2>4 DEF pipe_close
    <3>2. s.fds[v].out = i => NobodyWrites(s, v)
      BY <1>2, <2>4 DEF NobodyWrites
    <3> QED BY <1>1, <3>1, <3>2, NothingLower
  <2> QED BY <2>2, <2>3, <2>4
<1> QED BY <1>3, <1>4

(* The victim's descriptors are forgotten, the standard output only when   *)
(* no pipe has it as its writer any more.                                  *)
LEMMA ForgetLower ==
  ASSUME NEW s, NEW q, NEW v, Killing(s, q, v)
  PROVE  LET u == [s EXCEPT !.fds[v].in = Tty]
             w == [s EXCEPT !.fds[v].out = Tty]
         IN  /\ Lower(s, u) /\ Killing(u, q, v)
             /\ u.fds[v].out = s.fds[v].out
             /\ NobodyWrites(s, v) => Lower(s, w) /\ Killing(w, q, v) /\ NobodyWrites(w, v)
<1> DEFINE u == [s EXCEPT !.fds[v].in = Tty]
           w == [s EXCEPT !.fds[v].out = Tty]
           fi == [s.fds[v] EXCEPT !.in = Tty]
           fo == [s.fds[v] EXCEPT !.out = Tty]
<1>1. s \in State /\ Bytes(s) /\ v \in Procs /\ v \in All /\ Tty \in Descriptors
      /\ Closing(s, q, v)
  BY Pids DEF Killing, Closing, Good, Descriptors
<1>2. Closing(u, q, v) /\ Closing(w, q, v)
  BY <1>1, DescriptorGone
<1>3. s.fds[v] \in [in : Descriptors, out : Descriptors]
  BY <1>1 DEF State
<1>4. fi \in [in : Descriptors, out : Descriptors] /\ fi.out = s.fds[v].out
  BY <1>1, <1>3
<1>5. ASSUME NEW f \in [in : Descriptors, out : Descriptors],
             NEW t, t = [s EXCEPT !.fds[v] = f],
             f.out = s.fds[v].out \/ NobodyWrites(s, v), Closing(t, q, v)
      PROVE  Lower(s, t) /\ Killing(t, q, v) /\ t.fds[v] = f
  <2>1. /\ t \in State /\ t.pipes = s.pipes /\ t.status = s.status /\ t.call = s.call
        /\ t.linked = s.linked /\ t.sent = s.sent /\ t.taken = s.taken
        /\ t.fds[v] = f /\ \A r \in All \ {v} : t.fds[r] = s.fds[r]
    BY <1>1, <1>5 DEF State
  <2>2. SentOK(t)
    BY <1>1, <2>1, SameSent DEF Bytes
  <2>3. ASSUME NEW p \in Procs, s.status[p] # "free", ~ NobodyWrites(s, p)
        PROVE  SameWriter(s, t, p)
    <3>1. p \in All
      BY Pids
    <3>2. t.fds[p].out = s.fds[p].out
      BY <1>5, <2>1, <2>3, <3>1
    <3> QED BY <2>1, <2>3, <3>2 DEF SameWriter
  <2>4. Lower(s, t)
    BY <1>1, <2>1, <2>2, <2>3, PipesLower
  <2>5. SameVictims(s, t)
    BY <2>1 DEF SameVictims
  <2> QED BY <1>5, <2>1, <2>4, <2>5, KillingGoesOn
<1>6. u = [s EXCEPT !.fds[v] = fi] /\ w = [s EXCEPT !.fds[v] = fo]
  OBVIOUS
<1>7. fo \in [in : Descriptors, out : Descriptors]
  BY <1>1, <1>3
<1> HIDE DEF u, w, fi, fo
<1>8. Lower(s, u) /\ Killing(u, q, v) /\ u.fds[v].out = s.fds[v].out
  BY <1>2, <1>4, <1>5, <1>6
<1>9. NobodyWrites(s, v) => Lower(s, w) /\ Killing(w, q, v) /\ NobodyWrites(w, v)
  BY <1>1, <1>2, <1>5, <1>6, <1>7, NobodyStill DEF Lower
<1> QED BY <1>8, <1>9 DEF u, w

LEMMA LinkLower ==
  ASSUME NEW s, NEW q, NEW v, Killing(s, q, v), NobodyWrites(s, v)
  PROVE  Lower(s, LinkToParent(s, q, v))
<1> DEFINE s1 == [Return(s, q) EXCEPT !.linked = @ \cup {v}]
           t  == LinkToParent(s, q, v)
<1>1. s \in State /\ q \in All /\ v \in Procs /\ v \in All /\ NoCall \in Calls /\ Bytes(s)
  BY Pids DEF Killing, Closing, Good, Calls
<1>2. /\ s1 \in State /\ s1.call[q] = NoCall /\ s1.pipes = s.pipes /\ s1.status = s.status
      /\ s1.linked = s.linked \cup {v} /\ s1.fds = s.fds /\ s1.sent = s.sent
      /\ s1.taken = s.taken
      /\ \A r \in All \ {q} : s1.call[r] = s.call[r]
  BY <1>1 DEF State, Return
<1>3. t = IF s.waits = v THEN Wake(s1, Shell) ELSE s1
  BY DEF LinkToParent
<1> HIDE DEF s1, t
<1>4. Lower(s, s1)
  <2>1. SentOK(s1)
    BY <1>1, <1>2, SameSent DEF Bytes
  <2>2. ASSUME NEW p \in Procs, s.status[p] # "free", ~ NobodyWrites(s, p)
        PROVE  SameWriter(s, s1, p)
    <3>1. p \in All /\ p # v
      BY <2>2, Pids
    <3>2. p \in s1.linked => p \in s.linked
      BY <1>2, <3>1
    <3>3. s1.call[p] = s.call[p] \/ (s1.call[p].op # "write" /\ s.call[p].op # "write")
      BY <1>2, <3>1 DEF Killing, NoCall
    <3> QED BY <1>2, <2>2, <3>2, <3>3 DEF SameWriter
  <2>3. \A r \in All : s1.call[r].op = "close" => s1.call[r] = s.call[r]
    BY <1>2 DEF NoCall
  <2> QED BY <1>1, <1>2, <2>1, <2>2, <2>3, PipesLower
<1>5. CASE s.waits # v \/ s1.status[Shell] # "blocked"
  <2>1. t = s1
    BY <1>3, <1>5 DEF Wake
  <2> QED BY <1>4, <2>1 DEF t
<1>6. CASE s.waits = v /\ s1.status[Shell] = "blocked"
  <2> DEFINE st == [s1.status EXCEPT ![Shell] = "ready"]
  <2>1. t = [s1 EXCEPT !.status = st]
    BY <1>3, <1>6, Pids DEF Wake
  <2>2. /\ st \in [All -> {"free", "ready", "blocked", "zombie"}] /\ st[Shell] = "ready"
        /\ \A r \in All \ {Shell} : st[r] = s1.status[r]
    BY <1>2, Pids DEF State
  <2> HIDE DEF st
  <2>3. /\ t \in State /\ t.pipes = s1.pipes /\ t.taken = s1.taken /\ t.fds = s1.fds
        /\ t.sent = s1.sent /\ t.linked = s1.linked /\ t.call = s1.call
        /\ \A r \in Procs : t.status[r] = s1.status[r]
    BY <1>2, <2>1, <2>2, Pids DEF State
  <2>4. Bytes(s1)
    BY <1>4 DEF Lower, BytesKept
  <2>5. SentOK(t)
    BY <2>3, <2>4, SameSent DEF Bytes
  <2>6. \A p \in Procs : s1.status[p] # "free" => SameWriter(s1, t, p)
    BY <2>3 DEF SameWriter
  <2>7. Lower(s1, t)
    BY <1>2, <2>3, <2>4, <2>5, <2>6, PipesLower
  <2> QED BY <1>4, <2>7, LowerTransitive DEF t
<1> QED BY <1>5, <1>6

LEMMA WaitQuiet ==
  ASSUME NEW s \in State, NEW q \in All, NEW v \in Procs, NEW fd \in {"in", "out"},
         NEW i \in Slots, Open(s, i)
  PROVE  LET t == WaitForRoom(s, q, v, fd, i)
         IN  /\ t \in State /\ Quiet(s, t) /\ t.call[q].op = "close" /\ t.call[q].live
             /\ \A r \in All \ {q} : t.call[r] = s.call[r]
<1> DEFINE c == CloseCall(v, fd, i)
           t == WaitForRoom(s, q, v, fd, i)
<1>1. s.pipes[i] \in Pipes
  BY Fields
<1>2. c \in Calls /\ c.op = "close" /\ c.live
  BY DEF CloseCall, Calls
<1>3. t = [s EXCEPT !.pipes[i].blocking = TRUE, !.call[q] = c]
  BY DEF WaitForRoom
<1> HIDE DEF c, t
<1>4. /\ t \in State /\ t.call[q] = c /\ t.status = s.status /\ t.fds = s.fds
      /\ t.linked = s.linked /\ t.sent = s.sent /\ t.taken = s.taken
      /\ \A r \in All \ {q} : t.call[r] = s.call[r]
      /\ \A j \in Slots \ {i} : t.pipes[j] = s.pipes[j]
      /\ SamePipe(t.pipes[i], s.pipes[i])
  BY <1>1, <1>2, <1>3 DEF State, SamePipe, Pipes
<1>5. \A j \in Slots \ {i} : SameAt(s, t, j)
  BY <1>4, SameIfEqual
<1>6. SameAt(s, t, i)
  BY <1>1, <1>4, NotFile DEF SameAt, Open, SamePipe
<1>7. SameProcs(s, t)
  BY <1>4 DEF SameProcs
<1> QED BY <1>2, <1>4, <1>5, <1>6, <1>7 DEF Quiet, t

LEMMA WaitForRoomLower ==
  ASSUME NEW s, NEW q, NEW v, NEW fd \in {"in", "out"}, NEW i \in Descriptors,
         Killing(s, q, v), CloseWaits(s, v, i)
  PROVE  Lower(s, WaitForRoom(s, q, v, fd, i))
<1> DEFINE t == WaitForRoom(s, q, v, fd, i)
<1>1. s \in State /\ q \in All /\ v \in Procs /\ Bytes(s)
  BY DEF Killing, Closing, Good
<1>2. i \in Slots /\ Open(s, i)
  BY DEF CloseWaits, Descriptors, Open
<1>3. /\ t \in State /\ Quiet(s, t) /\ t.call[q].op = "close" /\ t.call[q].live
      /\ \A r \in All \ {q} : t.call[r] = s.call[r]
  BY <1>1, <1>2, WaitQuiet
<1> HIDE DEF t
<1>4. \A r \in All : \/ t.call[r] = s.call[r]
                     \/ t.call[r].op # "write" /\ s.call[r].op # "write" /\ t.call[r].live
  BY <1>3 DEF Killing
<1> QED BY <1>1, <1>3, <1>4, QuietLower DEF t

LEMMA CloseOutLower ==
  ASSUME NEW s, NEW q, NEW v, Killing(s, q, v)
  PROVE  Lower(s, CloseOut(s, q, v))
<1> DEFINE i  == s.fds[v].out
           s1 == pipe_close(s, v, i)
           s2 == [s1 EXCEPT !.fds[v].out = Tty]
<1>1. i \in Descriptors
  BY Fields, Pids DEF Killing, Closing, Good
<1>2. CloseOut(s, q, v) =
        IF CloseWaits(s, v, i) THEN WaitForRoom(s, q, v, "out", i) ELSE LinkToParent(s2, q, v)
  BY DEF CloseOut
<1>3. CASE CloseWaits(s, v, i)
  BY <1>1, <1>2, <1>3, WaitForRoomLower
<1>4. CASE ~ CloseWaits(s, v, i)
  <2>1. Lower(s, s1) /\ Killing(s1, q, v) /\ NobodyWrites(s1, v)
    BY <1>1, <1>4, PipeCloseLower
  <2> HIDE DEF s1
  <2>2. Lower(s1, s2) /\ Killing(s2, q, v) /\ NobodyWrites(s2, v)
    BY <2>1, ForgetLower
  <2> HIDE DEF s2
  <2>3. Lower(s2, LinkToParent(s2, q, v))
    BY <2>2, LinkLower
  <2>4. Lower(s, LinkToParent(s2, q, v))
    BY <2>1, <2>2, <2>3, LowerTransitive
  <2> QED BY <1>2, <1>4, <2>4
<1> QED BY <1>3, <1>4

LEMMA CloseInLower ==
  ASSUME NEW s, NEW q, NEW v, Killing(s, q, v)
  PROVE  Lower(s, CloseIn(s, q, v))
<1> DEFINE i  == s.fds[v].in
           s1 == pipe_close(s, v, i)
           s2 == [s1 EXCEPT !.fds[v].in = Tty]
<1>1. i \in Descriptors
  BY Fields, Pids DEF Killing, Closing, Good
<1>2. CloseIn(s, q, v) =
        IF CloseWaits(s, v, i) THEN WaitForRoom(s, q, v, "in", i) ELSE CloseOut(s2, q, v)
  BY DEF CloseIn
<1>3. CASE CloseWaits(s, v, i)
  BY <1>1, <1>2, <1>3, WaitForRoomLower
<1>4. CASE ~ CloseWaits(s, v, i)
  <2>1. Lower(s, s1) /\ Killing(s1, q, v)
    BY <1>1, <1>4, PipeCloseLower
  <2> HIDE DEF s1
  <2>2. Lower(s1, s2) /\ Killing(s2, q, v)
    BY <2>1, ForgetLower
  <2> HIDE DEF s2
  <2>3. Lower(s2, CloseOut(s2, q, v))
    BY <2>2, CloseOutLower
  <2>4. Lower(s, CloseOut(s2, q, v))
    BY <2>1, <2>2, <2>3, LowerTransitive
  <2> QED BY <1>2, <1>4, <2>4
<1> QED BY <1>3, <1>4

LEMMA CloseRestLower ==
  ASSUME NEW s, NEW q, NEW v, NEW fd, Killing(s, q, v), fd # "in" => NobodyWrites(s, v)
  PROVE  Lower(s, CloseRest(s, q, v, fd))
<1>1. CASE fd = "in"
  <2> DEFINE u == [s EXCEPT !.fds[v].in = Tty]
  <2>1. CloseRest(s, q, v, fd) = CloseOut(u, q, v)
    BY <1>1 DEF CloseRest
  <2>2. Lower(s, u) /\ Killing(u, q, v)
    BY ForgetLower
  <2> HIDE DEF u
  <2> QED BY <2>1, <2>2, CloseOutLower, LowerTransitive
<1>2. CASE fd # "in"
  <2> DEFINE u == [s EXCEPT !.fds[v].out = Tty]
  <2>1. CloseRest(s, q, v, fd) = LinkToParent(u, q, v)
    BY <1>2 DEF CloseRest
  <2>2. Lower(s, u) /\ Killing(u, q, v) /\ NobodyWrites(u, v)
    BY <1>2, ForgetLower
  <2> HIDE DEF u
  <2> QED BY <2>1, <2>2, LinkLower, LowerTransitive
<1> QED BY <1>1, <1>2

LEMMA KillLower ==
  ASSUME NEW s, NEW q \in All, NEW v \in Procs, Good(s, NoProc), Bytes(s),
         s.status[v] # "zombie", q = v \/ s.status[q] = "ready",
         q = v \/ s.call[q].op = "none"
  PROVE  Lower(s, kill_process(s, q, v))
<1> DEFINE u == [s EXCEPT !.status[v] = "zombie", !.call[v] = NoCall]
<1>1. s \in State
  BY DEF Good
<1>2. kill_process(s, q, v) = CloseIn(u, q, v)
  BY DEF kill_process
<1>3. /\ Closing(u, q, v) /\ u.call[v] = NoCall
      /\ \A r \in All \ {v} : u.call[r] = s.call[r]
  BY DeadKeeps, Zenon
<1>4. Lower(s, u)
  BY <1>1, DeadLower, Zenon
<1> HIDE DEF u
<1>5. Killing(u, q, v)
  BY <1>3, <1>4 DEF Killing, Lower, BytesKept, NoCall
<1>6. Lower(u, CloseIn(u, q, v))
  BY <1>5, CloseInLower
<1> QED BY <1>2, <1>4, <1>6, LowerTransitive

LEMMA CloseStepsLower ==
  ASSUME Good(m, NoProc), Bytes(m), NEW q \in All,
         ResumeCloseFull(q) \/ ResumeClose(q) \/ ResumeCloseFreed(q)
  PROVE  Lower(m, m')
<1> DEFINE c == m.call[q]
           v == c.victim
           i == c.slot
<1>1. m \in State /\ c \in Calls /\ CallOK(m, q)
  BY Fields, Pids DEF Good
<1>2. c.op = "close" /\ m.status[q] = "ready"
  BY DEF ResumeCloseFull, ResumeClose, ResumeCloseFreed, Runs
<1>3. i \in Slots /\ i \in Descriptors /\ v \in Procs /\ v \in All /\ c.fd \in {"in", "out"}
  BY <1>1, <1>2, CallKinds, Pids DEF Descriptors
<1>4. /\ m.status[v] = "zombie" /\ v \notin m.linked
      /\ c.live => Open(m, i) /\ m.pipes[i].in = v
  BY <1>1, <1>2 DEF CallOK, CloseOK
<1>5. Closing(m, q, v) /\ Closes(m, q, v)
  <2>1. Good(m, q)
    BY GoodBut
  <2>2. Closes(m, q, v)
    BY <1>2 DEF Closes
  <2>3. \A p \in All \ {q} : ~ Closes(m, p, v)
    BY <1>3, <2>2, Pids DEF Good
  <2> QED BY <1>2, <1>3, <1>4, <2>1, <2>2, <2>3 DEF Closing
<1>6. CASE ResumeCloseFull(q)
  <2> DEFINE x  == m.pipes[i].out
             s1 == WakeOther(m, i, x)
             t  == WaitForRoom(s1, q, v, c.fd, i)
  <2>1. c.live /\ CloseWaits(m, v, i) /\ m' = t
    BY <1>6 DEF ResumeCloseFull, Step
  <2>2. Open(m, i)
    BY <1>4, <2>1
  <2>3. x \in Procs \cup {NoProc}
    BY <1>1, <1>3, <2>2, Fields DEF Pipes
  <2> HIDE DEF x
  <2>4. s1 \in State /\ Quiet(m, s1) /\ s1.call = m.call
    BY <1>1, <1>3, <2>2, <2>3, WakeOtherQuiet
  <2> HIDE DEF s1
  <2>5. Open(s1, i)
    BY <1>3, <2>2, <2>4 DEF Quiet, SameAt
  <2>6. /\ t \in State /\ Quiet(s1, t) /\ t.call[q].op = "close" /\ t.call[q].live
        /\ \A r \in All \ {q} : t.call[r] = s1.call[r]
    BY <1>3, <2>4, <2>5, WaitQuiet
  <2> HIDE DEF t
  <2>7. Quiet(m, t)
    BY <2>4, <2>6, QuietTransitive
  <2>8. \A r \in All : \/ t.call[r] = m.call[r]
                       \/ t.call[r].op # "write" /\ m.call[r].op # "write" /\ t.call[r].live
    BY <1>2, <2>4, <2>6
  <2> QED BY <1>1, <2>1, <2>6, <2>7, <2>8, QuietLower
<1>7. CASE ResumeClose(q)
  <2> DEFINE s1 == close_write(m, i)
  <2>1. c.live /\ ~ CloseWaits(m, v, i) /\ m' = CloseRest(s1, q, v, c.fd)
    BY <1>7 DEF ResumeClose, Step
  <2>2. /\ Open(m, i) /\ m.pipes[i].in = v /\ m.pipes[i] \in Pipes /\ i # Tty
        /\ m.pipes[i].size # PipeSize
    BY <1>1, <1>3, <1>4, <2>1, Fields, NotFile DEF CloseWaits, Open
  <2>3. m.pipes[i].size < PipeSize
    BY <2>2, Sizes DEF Pipes
  <2>4. Ending(m, q, v)
    BY <1>2, <1>5 DEF Ending
  <2> HIDE DEF c, v, i
  <2>5. Lower(m, s1) /\ Killing(s1, q, v) /\ NobodyWrites(s1, v)
    BY <1>3, <2>2, <2>3, <2>4, CloseWriteLower
  <2> HIDE DEF s1
  <2>6. Lower(s1, CloseRest(s1, q, v, c.fd))
    BY <2>5, CloseRestLower
  <2> QED BY <2>1, <2>5, <2>6, LowerTransitive
<1>8. CASE ResumeCloseFreed(q)
  <2>1. ~ c.live /\ (m' = CloseRest(m, q, v, c.fd) \/ m' = m)
    BY <1>8 DEF ResumeCloseFreed, Step, Crash
  <2>2. NobodyWrites(m, v)
    BY <1>3, <1>5, <2>1 DEF Bytes, StrayOK
  <2>3. Killing(m, q, v)
    BY <1>2, <1>5, <2>2 DEF Killing
  <2> HIDE DEF c, v, i
  <2>4. Lower(m, CloseRest(m, q, v, c.fd))
    BY <2>2, <2>3, CloseRestLower
  <2> QED BY <1>1, <2>1, <2>4, NothingLower
<1> QED BY <1>6, <1>7, <1>8

LEMMA ProcStepped ==
  ASSUME Good(m, NoProc), Bytes(m), ProcNext
  PROVE  Stepped(m, m')
<1>1. PICK p \in Procs :
        \/ \/ \E len \in 1 .. MaxLen : Read(p, len)
           \/ \E n \in 1 .. MaxLen : Write(p, n)
           \/ ResumeWrite(p) \/ ResumeReadFirst(p) \/ ResumeRead(p)
        \/ ResumeWriteReused(p)
        \/ ResumeCloseFull(p) \/ ResumeClose(p) \/ ResumeCloseFreed(p)
        \/ Exit(p)
        \/ \E v \in Procs : Kill(p, v)
        \/ Unblock(p)
  BY DEF ProcNext
<1>2. p \in All /\ m \in State
  BY Pids DEF Good
<1>3. CASE Exit(p)
  <2>1. m.status[p] = "ready" /\ m' = kill_process(m, p, p)
    BY <1>3 DEF Exit, Step
  <2> QED BY <1>2, <2>1, KillLower, LowerStepped
<1>4. ASSUME NEW v \in Procs, Kill(p, v) PROVE Stepped(m, m')
  <2>1. m.status[v] # "zombie" /\ m.status[p] = "ready" /\ m' = kill_process(m, p, v)
        /\ m.call[p].op = "none"
    BY <1>4 DEF Kill, Step, InUser, Runs, NoCall
  <2> QED BY <1>2, <2>1, KillLower, LowerStepped
<1>5. CASE Unblock(p)
  <2>1. m' = Wake(m, p)
    BY <1>5 DEF Unblock, Step
  <2>2. m' \in State /\ Quiet(m, m') /\ m'.call = m.call
    BY <1>2, <2>1, WakeQuiet
  <2> QED BY <1>2, <2>2, QuietStepped
<1>6. CASE ResumeWriteReused(p)
  <2>1. m' = m
    BY <1>6 DEF ResumeWriteReused, Crash
  <2> QED BY <1>2, <2>1, UnchangedStepped
<1> QED BY <1>1, <1>2, <1>3, <1>4, <1>5, <1>6, TransferStepped, CloseStepsLower, LowerStepped

-----------------------------------------------------------------------------
(* The shell's steps.                                                      *)
FirstOK == sh.at = "first" => Untouched(m, sh.slot)

ByteInv == Bytes(m) /\ FirstOK

ByteStep == ByteInv' /\ \A i \in Slots : ChanStep(m, m', i)

LEMMA GrownSteps ==
  ASSUME Bytes(m'), Grown(m, m'), sh'.at # "first"
  PROVE  ByteStep
BY DEF ByteStep, ByteInv, FirstOK, Grown, ChanStep

LEMMA LowerSteps ==
  ASSUME PipeInv, ByteInv, Lower(m, m'), sh' = sh \/ sh'.at # "first"
  PROVE  ByteStep
<1>1. Bytes(m') /\ \A i \in Slots : Untouched(m, i) => Untouched(m', i)
  BY DEF Lower, BytesKept
<1>2. sh.at = "first" => sh.slot \in Slots
  BY DEF PipeInv, ShellOK
<1>3. FirstOK'
  BY <1>1, <1>2 DEF ByteInv, FirstOK
<1> QED BY <1>1, <1>3 DEF ByteStep, ByteInv, Lower, SlotDown, ChanStep

LEMMA SteppedSteps ==
  ASSUME PipeInv, ByteInv, Stepped(m, m'), sh' = sh
  PROVE  ByteStep
<1>1. Bytes(m') /\ \A i \in Slots : Untouched(m, i) => Untouched(m', i)
  BY DEF Stepped, BytesKept
<1>2. sh.at = "first" => sh.slot \in Slots
  BY DEF PipeInv, ShellOK
<1>3. FirstOK'
  BY <1>1, <1>2 DEF ByteInv, FirstOK
<1> QED BY <1>1, <1>3 DEF ByteStep, ByteInv, Stepped

LEMMA SingleBytes ==
  ASSUME PipeInv, ByteInv, NEW p \in Procs, NEW bg \in BOOLEAN, Single(p, bg)
  PROVE  ByteStep
<1>1. /\ m.status[p] = "free" /\ m' = init_process(m, p, Stdin(bg), Tty)
      /\ sh' = IF bg THEN AtPrompt ELSE [AtPrompt EXCEPT !.at = "wait_two", !.two = p]
  BY DEF Single, InShell, InUser, NextFree, Step
<1>2. sh'.at # "first" /\ Tty \in Descriptors
  BY <1>1 DEF AtPrompt, Descriptors
<1>3. Bytes(m') /\ Grown(m, m')
  BY <1>1, <1>2, InputOf, InitBytes DEF PipeInv, ByteInv
<1> QED BY <1>2, <1>3, GrownSteps

LEMMA GetPipeBytes ==
  ASSUME PipeInv, ByteInv, NEW bg \in BOOLEAN, GetPipe(bg)
  PROVE  ByteStep
<1> DEFINE i  == FreeFrom(m)
           s1 == [m EXCEPT !.pipes[i] = create_pipe, !.taken[i] = << >>]
           n  == (i + 1) % MaxPipes
           t  == [s1 EXCEPT !.cursor = n]
<1>1. /\ m' = pipe_get(m) /\ \E j \in Slots : m.pipes[j] = NULL
      /\ sh' = [AtPrompt EXCEPT !.at = "first", !.bg = bg, !.slot = i]
  BY DEF GetPipe, InShell, InUser, Step
<1>2. m \in State /\ i \in Slots /\ m.pipes[i] = NULL /\ Bytes(m)
  BY <1>1, FreeSlot DEF PipeInv, ByteInv, Good
<1>3. n \in Slots
  BY <1>2, Sizes DEF Slots
<1>4. m' = t /\ sh'.slot = i
  BY <1>1 DEF pipe_get, AtPrompt
<1> HIDE DEF i, n
<1>5. Opening(m, s1) /\ Untouched(s1, i)
  BY <1>2, CreateBytes, Zenon
<1> HIDE DEF s1
<1>6. s1 \in State /\ Bytes(s1) /\ Grown(m, s1)
  BY <1>5 DEF Opening
<1>7. /\ t \in State /\ t.pipes = s1.pipes /\ t.status = s1.status /\ t.call = s1.call
      /\ t.linked = s1.linked /\ t.taken = s1.taken /\ t.fds = s1.fds /\ t.sent = s1.sent
  BY <1>3, <1>6 DEF State
<1> HIDE DEF t
<1>8. Quiet(s1, t)
  <2>1. \A j \in Slots : SameAt(s1, t, j)
    BY <1>6, <1>7, SameIfEqual
  <2>2. SameProcs(s1, t)
    BY <1>7 DEF SameProcs
  <2> QED BY <2>1, <2>2 DEF Quiet
<1>9. Opening(s1, t)
  BY <1>6, <1>7, <1>8, NothingOpens
<1>10. Bytes(t) /\ Grown(m, t)
  BY <1>5, <1>9, OpeningTransitive DEF Opening
<1>11. Untouched(t, i)
  BY <1>2, <1>5, <1>8, SameSlot DEF Quiet, Untouched
<1> QED BY <1>4, <1>10, <1>11 DEF ByteStep, ByteInv, FirstOK, Grown, ChanStep

LEMMA FirstBytes ==
  ASSUME PipeInv, ByteInv, NEW p \in Procs, CreateFirst(p)
  PROVE  ByteStep
<1>1. /\ m.status[p] = "free" /\ sh.at = "first"
      /\ m' = init_process(m, p, Stdin(sh.bg), sh.slot)
      /\ sh' = [sh EXCEPT !.at = "second", !.one = p]
  BY DEF CreateFirst, InShell, InUser, NextFree, Step
<1>2. sh.bg \in BOOLEAN /\ sh.slot \in Slots /\ sh.slot \in Descriptors /\ sh'.at = "second"
  BY <1>1 DEF PipeInv, ShellOK, Descriptors
<1>3. Clean(m, sh.slot)
  BY <1>1 DEF ByteInv, FirstOK, Untouched, Clean
<1>4. Bytes(m') /\ Grown(m, m')
  BY <1>1, <1>2, <1>3, InputOf, InitBytes DEF PipeInv, ByteInv
<1> QED BY <1>2, <1>4, GrownSteps

LEMMA SecondBytes ==
  ASSUME PipeInv, ByteInv, NEW p \in Procs, CreateSecond(p)
  PROVE  ByteStep
<1>1. /\ m.status[p] = "free" /\ sh.at = "second"
      /\ m' = init_process(m, p, sh.slot, Tty)
      /\ sh' = IF sh.bg THEN AtPrompt ELSE [sh EXCEPT !.at = "wait_one", !.two = p]
  BY DEF CreateSecond, InShell, InUser, NextFree, Step
<1>2. sh.slot \in Descriptors /\ Tty \in Descriptors
  BY <1>1 DEF PipeInv, ShellOK, Descriptors
<1>3. sh'.at # "first"
  BY <1>1 DEF PipeInv, ShellOK, AtPrompt
<1>4. Bytes(m') /\ Grown(m, m')
  BY <1>1, <1>2, InitBytes DEF PipeInv, ByteInv
<1> QED BY <1>3, <1>4, GrownSteps

LEMMA FailBytes ==
  ASSUME PipeInv, ByteInv, FirstFails \/ SecondFails
  PROVE  ByteStep
<1>1. sh'.at # "first" /\ m.status[Shell] = "ready" /\ m.call[Shell].op = "none"
  BY DEF FirstFails, SecondFails, InShell, InUser, Runs, AtPrompt, NoCall
<1>2. Lower(m, m')
  <2>1. m \in State /\ Bytes(m) /\ Good(m, NoProc)
    BY DEF PipeInv, ByteInv, Good
  <2>2. CASE m' = m
    BY <2>1, <2>2, NothingLower
  <2>3. CASE m' # m
    <3>1. SecondFails /\ m.status[sh.one] # "zombie" /\ m' = kill_process(m, Shell, sh.one)
      BY <2>3 DEF FirstFails, SecondFails, Step
    <3>2. sh.one \in Procs
      BY <3>1 DEF PipeInv, ShellOK, SecondFails, InShell
    <3> QED BY <1>1, <2>1, <3>1, <3>2, KillLower, Pids
  <2> QED BY <2>2, <2>3
<1> QED BY <1>1, <1>2, LowerSteps

LEMMA ReapedBytes ==
  ASSUME PipeInv, ByteInv, Reaped, Awaited \in m.linked, sh.at \in {"wait_one", "wait_two"}
  PROVE  ByteStep
<1> DEFINE a == Awaited
<1>1. /\ m' = free_process([Return(m, Shell) EXCEPT !.waits = NoProc], a)
      /\ sh' = IF sh.at = "wait_one" THEN [sh EXCEPT !.at = "wait_two"] ELSE AtPrompt
      /\ a \in m.linked
  BY DEF Reaped, Step
<1> HIDE DEF a
<1>2. m \in State /\ Bytes(m) /\ Good(m, NoProc) /\ a \in Procs /\ a \in All
  BY <1>1, Pids DEF PipeInv, ByteInv, Good, State
<1>3. /\ m' \in State /\ m'.pipes = m.pipes /\ m'.linked = m.linked \ {a}
      /\ m'.taken = m.taken /\ m'.status[a] = "free" /\ m'.sent[a] = 0
      /\ m'.call[Shell] = NoCall
      /\ \A r \in All \ {a} : m'.status[r] = m.status[r]
      /\ \A r \in All \ {a} : m'.fds[r] = m.fds[r] /\ m'.sent[r] = m.sent[r]
      /\ \A r \in All \ {Shell} : m'.call[r] = m.call[r]
  BY <1>1, <1>2, ReapDoes
<1>4. SentOK(m')
  <2> SUFFICES ASSUME NEW w \in Procs
               PROVE  m'.sent[w] <= MaxBytes /\ (m'.status[w] = "free" => m'.sent[w] = 0)
    BY Zenon DEF SentOK
  <2>1. w \in All /\ m.sent[w] <= MaxBytes /\ (m.status[w] = "free" => m.sent[w] = 0)
    BY <1>2, Pids DEF Bytes, SentOK
  <2>2. 0 <= MaxBytes
    BY SizeAssumption
  <2> QED BY <1>3, <2>1, <2>2
<1>5. ASSUME NEW p \in Procs, m.status[p] # "free", ~ NobodyWrites(m, p)
      PROVE  SameWriter(m, m', p)
  <2>1. PICK i \in Slots : Open(m, i) /\ m.pipes[i].in = p
    BY <1>5 DEF NobodyWrites
  <2>2. p \notin m.linked
    BY <1>2, <2>1, Pids DEF Bytes, WriterOK
  <2>3. p # a /\ p \in All /\ p # Shell
    BY <1>1, <2>2, Pids
  <2> QED BY <1>3, <1>5, <2>2, <2>3 DEF SameWriter
<1>6. \A q \in All : m'.call[q].op = "close" => m'.call[q] = m.call[q]
  BY <1>3 DEF NoCall
<1>7. Lower(m, m')
  BY <1>2, <1>3, <1>4, <1>5, <1>6, PipesLower
<1>8. sh'.at # "first"
  BY <1>1 DEF PipeInv, ShellOK, AtPrompt
<1> QED BY <1>7, <1>8, LowerSteps

LEMMA WaitBytes ==
  ASSUME PipeInv, ByteInv, WaitZombie \/ WaitHalfDead \/ WaitBlock \/ WaitReturn
  PROVE  ByteStep
<1>1. m \in State /\ Bytes(m) /\ Good(m, NoProc)
  BY DEF PipeInv, ByteInv, Good
<1>2. CASE WaitZombie
  BY <1>2, ReapedBytes DEF WaitZombie, InWait
<1>3. CASE WaitHalfDead
  <2>1. m' = m /\ sh' = sh
    BY <1>3 DEF WaitHalfDead, Crash
  <2> QED BY <1>1, <2>1, NothingLower, LowerSteps
<1>4. CASE WaitBlock
  <2> DEFINE a == Awaited
  <2>1. /\ m.status[Shell] = "ready" /\ sh.at \in {"wait_one", "wait_two"} /\ sh' = sh
        /\ m' = [Block(m, Shell) EXCEPT !.waits = a,
                                        !.call[Shell] = [op |-> "waitpid", slot |-> Tty]]
    BY <1>4 DEF WaitBlock, InWait, InUser, Runs, Step
  <2>2. a \in Procs
    BY <2>1 DEF PipeInv, ShellOK, Awaited
  <2> HIDE DEF a
  <2>3. /\ m' \in State /\ m'.pipes = m.pipes /\ m'.linked = m.linked /\ m'.waits = a
        /\ m'.taken = m.taken /\ m'.fds = m.fds /\ m'.sent = m.sent
        /\ m'.status[Shell] = "blocked" /\ m'.call[Shell] = [op |-> "waitpid", slot |-> Tty]
        /\ \A r \in All \ {Shell} : m'.status[r] = m.status[r] /\ m'.call[r] = m.call[r]
    BY <1>1, <2>1, <2>2, WaitBlockDoes, Zenon
  <2>4. \A p \in Procs : p \in All /\ p # Shell
    BY Pids
  <2>5. SentOK(m')
    BY <1>1, <2>3, <2>4, SameSent DEF Bytes
  <2>6. \A p \in Procs : m.status[p] # "free" => SameWriter(m, m', p)
    BY <2>3, <2>4 DEF SameWriter
  <2>7. \A q \in All : m'.call[q].op = "close" => m'.call[q] = m.call[q]
    BY <2>3
  <2>8. Lower(m, m')
    BY <1>1, <2>3, <2>5, <2>6, <2>7, PipesLower
  <2> QED BY <2>1, <2>8, LowerSteps
<1>5. CASE WaitReturn
  <2>1. Reaped /\ m.status[Shell] = "ready" /\ m.call[Shell].op = "waitpid"
    BY <1>5 DEF WaitReturn, Runs
  <2>2. sh.at \in {"wait_one", "wait_two"} /\ m.waits = Awaited
    BY <2>1 DEF PipeInv, ShellOK
  <2>3. m.waits \in m.linked
    BY <1>1, <2>1, Pids DEF Good, CallOK, WaitOK
  <2> QED BY <2>1, <2>2, <2>3, ReapedBytes
<1> QED BY <1>2, <1>3, <1>4, <1>5

LEMMA EveryStep ==
  ASSUME PipeInv, ByteInv, [Whole]_shellVars, cut = {}
  PROVE  ByteStep
<1>1. m \in State /\ Bytes(m) /\ Good(m, NoProc)
  BY DEF PipeInv, ByteInv, Good
<1>2. CASE ProcNext /\ sh' = sh
  BY <1>1, <1>2, ProcStepped, SteppedSteps
<1>3. CASE ShellResumes
  BY <1>1, <1>3, CloseStepsLower, LowerSteps, Pids DEF ShellResumes
<1>4. CASE UNCHANGED shellVars
  <2>1. m' = m /\ sh' = sh
    BY <1>4 DEF shellVars
  <2> QED BY <1>1, <2>1, NothingLower, LowerSteps
<1>5. CASE ShellNext /\ ~ ShellResumes
  BY <1>5, SingleBytes, GetPipeBytes, FirstBytes, SecondBytes, FailBytes, WaitBytes, NoWaitCut
     DEF ShellNext
<1> QED BY <1>2, <1>3, <1>4, <1>5 DEF Whole

LEMMA BytesStart ==
  ASSUME ShellInit
  PROVE  ByteInv
<1>1. /\ m.pipes = [i \in Slots |-> NULL]
      /\ m.call = [p \in All |-> NoCall]
      /\ m.sent = [p \in All |-> 0]
      /\ sh = AtPrompt
  BY DEF ShellInit, Init
<1>2. \A i \in Slots : ~ Open(m, i)
  BY <1>1 DEF Open
<1>3. SentOK(m)
  <2>1. \A p \in Procs : m.sent[p] = 0 /\ 0 <= MaxBytes
    BY <1>1, SizeAssumption, Pids
  <2> QED BY <2>1, Zenon DEF SentOK
<1>4. StrayOK(m)
  BY <1>2 DEF StrayOK, NobodyWrites
<1> QED BY <1>1, <1>2, <1>3, <1>4 DEF ByteInv, Bytes, FirstOK, AtPrompt

LEMMA SameSeq ==
  ASSUME NEW a \in Seq(Int), NEW b \in Seq(Int), Len(a) = Len(b),
         \A x \in 1 .. Len(a) : a[x] = b[x]
  PROVE  a = b
BY SeqEqual

LEMMA JoinedBytes ==
  ASSUME NEW q \in Seq(Int), NEW d \in Seq(Int),
         \A x \in 1 .. Len(q) : q[x] = x,
         \A x \in 1 .. Len(d) : d[x] = Len(q) + x
  PROVE  /\ q \o d \in Seq(Int) /\ Len(q \o d) = Len(q) + Len(d)
         /\ \A x \in 1 .. Len(q \o d) : (q \o d)[x] = x
<1>1. /\ Len(q \o d) = Len(q) + Len(d)
      /\ \A x \in 1 .. Len(q) + Len(d) : (q \o d)[x] = IF x <= Len(q) THEN q[x] ELSE d[x - Len(q)]
  BY Joined
<1>2. q \o d \in Seq(Int) /\ Len(q) \in Nat /\ Len(d) \in Nat
  OBVIOUS
<1>3. ASSUME NEW x \in 1 .. Len(q) + Len(d) PROVE (q \o d)[x] = x
  <2>1. CASE x <= Len(q)
    <3>1. x \in 1 .. Len(q)
      BY <1>2, <2>1
    <3> QED BY <1>1, <2>1, <3>1
  <2>2. CASE ~ (x <= Len(q))
    <3>1. x - Len(q) \in 1 .. Len(d) /\ Len(q) + (x - Len(q)) = x
      BY <1>2, <2>2
    <3>2. (q \o d)[x] = d[x - Len(q)]
      BY <1>1, <2>2
    <3> QED BY <3>1, <3>2
  <2> QED BY <2>1, <2>2
<1> QED BY <1>1, <1>2, <1>3

(* What is in the pipe, by the bytes' numbers. *)
LEMMA Inside ==
  ASSUME NEW s \in State, NEW i \in Slots, Open(s, i), SlotOK(s, i)
  PROVE  /\ Content(s.pipes[i]) \in Seq(Int)
         /\ Len(Content(s.pipes[i])) = s.pipes[i].size
         /\ s.pipes[i].size \in 0 .. PipeSize
         /\ s.taken[i] \in Seq(Int)
         /\ \A x \in 1 .. s.pipes[i].size : Content(s.pipes[i])[x] = Len(s.taken[i]) + x
<1>1. s.pipes[i] \in Pipes /\ s.taken[i] \in Seq(Int)
  BY Fields DEF State
<1>2. s.pipes[i].size \in 0 .. PipeSize
  BY <1>1 DEF Pipes
<1> QED BY <1>1, <1>2, ContentIs DEF SlotOK

LEMMA MapsPut ==
  ASSUME NEW s \in State, NEW t \in State, NEW i \in Slots, ChanPut(s, t, i),
         SlotOK(s, i), SlotOK(t, i)
  PROVE  LET c == Content(s.pipes[i])
         IN  \E n \in 1 .. PipeSize - Len(c) : \E d \in [1 .. n -> 1 .. MaxBytes] :
               Content(t.pipes[i]) = c \o d
<1> DEFINE c == Content(s.pipes[i])
           e == Content(t.pipes[i])
           k == Len(s.taken[i])
           a == s.pipes[i].size
           b == t.pipes[i].size
           n == b - a
           d == [x \in 1 .. n |-> (k + a) + x]
<1>1. Open(s, i) /\ Open(t, i) /\ t.taken[i] = s.taken[i] /\ b > a /\ k + b <= MaxBytes
  BY DEF ChanPut, Held
<1>2. /\ c \in Seq(Int) /\ Len(c) = a /\ a \in 0 .. PipeSize /\ k \in Nat
      /\ \A x \in 1 .. a : c[x] = k + x
  BY <1>1, Inside
<1>3. /\ e \in Seq(Int) /\ Len(e) = b /\ b \in 0 .. PipeSize
      /\ \A x \in 1 .. b : e[x] = k + x
  BY <1>1, Inside
<1> HIDE DEF c, e, k, a, b
<1>4. n \in 1 .. PipeSize - a /\ a + n = b /\ n \in Nat
  BY <1>1, <1>2, <1>3, Sizes
<1>5. \A x \in 1 .. n : (k + a) + x \in 1 .. MaxBytes
  BY <1>1, <1>2, <1>3, <1>4, SizeAssumption
<1> HIDE DEF n
<1>6. d \in [1 .. n -> 1 .. MaxBytes]
  BY <1>5
<1>7. d \in Seq(Int) /\ Len(d) = n /\ \A x \in 1 .. n : d[x] = (k + a) + x
  BY <1>2, <1>4
<1> HIDE DEF d
<1>8. /\ Len(c \o d) = b
      /\ \A x \in 1 .. b : (c \o d)[x] = IF x <= a THEN c[x] ELSE d[x - a]
  BY <1>2, <1>4, <1>7, Joined
<1>9. ASSUME NEW x \in 1 .. b PROVE (c \o d)[x] = k + x
  <2>1. CASE x <= a
    BY <1>2, <1>8, <2>1
  <2>2. CASE x > a
    <3>1. x - a \in 1 .. n
      BY <1>2, <1>3, <1>4, <2>2
    <3>5. (k + a) + (x - a) = k + x
      BY <1>2, <1>3, <2>2
    <3>2. ~ (x <= a)
      BY <1>2, <1>3, <2>2
    <3>3. (c \o d)[x] = d[x - a]
      BY <1>8, <3>2
    <3>4. d[x - a] = (k + a) + (x - a)
      BY <1>7, <3>1
    <3> QED BY <3>3, <3>4, <3>5, Zenon
  <2>3. a \in Int /\ x \in Int
    BY <1>2, <1>3
  <2>4. x <= a \/ x > a
    BY <2>3
  <2> QED BY <2>1, <2>2, <2>4, Zenon
<1>10. c \o d \in Seq(Int)
  BY <1>2, <1>7
<1>11. e = c \o d
  BY <1>3, <1>8, <1>9, <1>10, SameSeq
<1>12. n \in 1 .. PipeSize - Len(c)
  BY <1>2, <1>4
<1> QED BY <1>6, <1>11, <1>12 DEF c, e

LEMMA MapsTake ==
  ASSUME NEW s \in State, NEW t \in State, NEW i \in Slots, ChanTake(s, t, i),
         SlotOK(s, i), SlotOK(t, i)
  PROVE  LET c == Content(s.pipes[i])
         IN  \E n \in 1 .. Len(c) : /\ t.taken[i] = s.taken[i] \o SubSeq(c, 1, n)
                                    /\ Content(t.pipes[i]) = SubSeq(c, n + 1, Len(c))
<1> DEFINE c == Content(s.pipes[i])
           e == Content(t.pipes[i])
           q == s.taken[i]
           r == t.taken[i]
           a == s.pipes[i].size
           b == t.pipes[i].size
<1>1. Open(s, i) /\ Open(t, i)
  BY DEF ChanTake
<1>2. PICK n \in 1 .. a : b = a - n /\ Len(r) = Len(q) + n
  BY DEF ChanTake
<1>3. /\ c \in Seq(Int) /\ Len(c) = a /\ a \in 0 .. PipeSize /\ q \in Seq(Int)
      /\ \A x \in 1 .. a : c[x] = Len(q) + x
      /\ \A x \in 1 .. Len(q) : q[x] = x
  BY <1>1, Inside DEF SlotOK
<1>4. /\ e \in Seq(Int) /\ Len(e) = b /\ b \in 0 .. PipeSize /\ r \in Seq(Int)
      /\ \A x \in 1 .. b : e[x] = Len(r) + x
      /\ \A x \in 1 .. Len(r) : r[x] = x
  BY <1>1, Inside DEF SlotOK
<1> HIDE DEF c, e, q, r, a, b
<1> DEFINE h == SubSeq(c, 1, n)
           g == SubSeq(c, n + 1, a)
<1>5. /\ n \in 0 .. Len(c) /\ Len(q) \in Nat /\ a \in Nat
      /\ \A x \in 1 .. Len(c) : c[x] = Len(q) + x
  BY <1>3
<1>6. Len(q \o h) = Len(q) + n /\ \A x \in 1 .. Len(q \o h) : (q \o h)[x] = x
  BY <1>3, <1>5, TakenBytes
<1>7. h \in Seq(Int)
  BY <1>3
<1>8. g \in Seq(Int) /\ Len(g) = a - n /\ \A x \in 1 .. a - n : g[x] = c[n + x]
  BY <1>3, <1>5
<1> HIDE DEF h, g
<1>9. q \o h \in Seq(Int)
  BY <1>3, <1>7
<1>10. r = q \o h
  BY <1>2, <1>4, <1>6, <1>9, SameSeq
<1>11. ASSUME NEW x \in 1 .. b PROVE e[x] = g[x]
  <2>1. x \in 1 .. a - n /\ n + x \in 1 .. a /\ (Len(q) + n) + x = Len(q) + (n + x)
    BY <1>2, <1>5
  <2> QED BY <1>2, <1>3, <1>4, <1>8, <2>1
<1>12. e = g
  BY <1>2, <1>4, <1>8, <1>11, SameSeq
<1>13. n \in 1 .. Len(c) /\ e = SubSeq(c, n + 1, Len(c))
  BY <1>2, <1>3, <1>12 DEF g
<1> QED BY <1>10, <1>13 DEF c, e, q, r, h

(* A channel that does not change has the same bytes in it. *)
LEMMA MapsSame ==
  ASSUME NEW s \in State, NEW t \in State, NEW i \in Slots, Open(s, i), Open(t, i),
         t.taken[i] = s.taken[i], t.pipes[i].size = s.pipes[i].size,
         SlotOK(s, i), SlotOK(t, i)
  PROVE  Content(t.pipes[i]) = Content(s.pipes[i])
<1> DEFINE c == Content(s.pipes[i])
           e == Content(t.pipes[i])
<1>1. /\ c \in Seq(Int) /\ Len(c) = s.pipes[i].size
      /\ \A x \in 1 .. s.pipes[i].size : c[x] = Len(s.taken[i]) + x
  BY Inside
<1>2. /\ e \in Seq(Int) /\ Len(e) = s.pipes[i].size
      /\ \A x \in 1 .. s.pipes[i].size : e[x] = Len(s.taken[i]) + x
  BY Inside
<1> HIDE DEF c, e
<1>3. e = c
  BY <1>1, <1>2, SameSeq
<1> QED BY <1>3 DEF c, e

GoneEmpty == \A i \in Slots : ~ Open(m, i) => m.taken[i] = << >>

LEMMA GoneStays ==
  ASSUME GoneEmpty, ByteStep
  PROVE  GoneEmpty'
BY DEF GoneEmpty, ByteStep, ChanStep, ChanSame, ChanPut, ChanTake, ChanLeave, ChanGone, ChanOpen

LEMMA MapsStep ==
  ASSUME PipeInv, PipeInv', ByteInv, ByteStep, GoneEmpty, NEW i \in Slots
  PROVE  Channel(i)!Next \/ UNCHANGED Channel(i)!vars
<1>1. m \in State /\ m' \in State
  BY DEF PipeInv, Good
<1>2. /\ Open(m, i) => SlotOK(m, i)
      /\ Open(m', i) => SlotOK(m', i)
      /\ ChanStep(m, m', i)
  BY DEF ByteInv, ByteStep, Bytes
<1>3. CASE ChanSame(m, m', i) /\ ~ Open(m, i)
  <2>1. UNCHANGED Channel(i)!vars
    BY <1>3 DEF ChanSame, Open, Channel!vars
  <2> QED BY <2>1
<1>4. CASE ChanSame(m, m', i) /\ Open(m, i)
  <2>1. Open(m', i) /\ Content(m.pipes[i])' = Content(m.pipes[i]) /\ m'.taken[i] = m.taken[i]
        /\ (Ended(m.pipes[i])' <=> Ended(m.pipes[i]))
    BY <1>1, <1>2, <1>4, MapsSame DEF ChanSame
  <2>2. UNCHANGED Channel(i)!vars
    BY <1>4, <2>1 DEF Open, Channel!vars
  <2> QED BY <2>2
<1>5. CASE ChanPut(m, m', i)
  <2>1. Channel(i)!Put
    BY <1>1, <1>2, <1>5, MapsPut DEF ChanPut, Open, Channel!Put
  <2> QED BY <2>1 DEF Channel!Next
<1>6. CASE ChanTake(m, m', i)
  <2>1. Channel(i)!Take
    BY <1>1, <1>2, <1>6, MapsTake DEF ChanTake, Open, Channel!Take
  <2> QED BY <2>1 DEF Channel!Next
<1>7. CASE ChanLeave(m, m', i)
  <2>1. Channel(i)!Leave
    BY <1>1, <1>2, <1>7, MapsSame DEF ChanLeave, Open, Channel!Leave
  <2> QED BY <2>1 DEF Channel!Next
<1>8. CASE ChanGone(m, m', i)
  <2>1. Channel(i)!Close
    BY <1>8 DEF ChanGone, Open, Channel!Close, Channel!Gone
  <2> QED BY <2>1 DEF Channel!Next
<1>9. CASE ChanOpen(m, m', i)
  <2>1. m'.pipes[i].size = 0 /\ Open(m', i) /\ SlotOK(m', i)
    BY <1>2, <1>9 DEF ChanOpen
  <2>2. Content(m'.pipes[i]) = << >>
    <3>1. Content(m'.pipes[i]) \in Seq(Int) /\ Len(Content(m'.pipes[i])) = 0
      BY <1>1, <2>1, Inside
    <3> QED BY <3>1, EmptySeq, SameSeq
  <2>3. m.taken[i] = << >> /\ m.pipes[i] = NULL
    BY <1>9 DEF ChanOpen, Open, GoneEmpty
  <2>4. Channel(i)!Open
    BY <1>9, <2>2, <2>3 DEF ChanOpen, Open, Channel!Open
  <2> QED BY <2>4 DEF Channel!Next
<1> QED BY <1>2, <1>3, <1>4, <1>5, <1>6, <1>7, <1>8, <1>9 DEF ChanStep

LEMMA BytesAre ==
  ASSUME PipeInv, ByteInv
  PROVE  BytesInOrder
<1> SUFFICES ASSUME NEW i \in Slots, m.pipes[i] # NULL
             PROVE  LET p    == m.pipes[i].in
                        held == m.taken[i] \o Content(m.pipes[i])
                        all  == IF p = NoProc THEN held ELSE held \o Pending(p)
                    IN  /\ \A n \in DOMAIN all : all[n] = n
                        /\ p # NoProc /\ m.status[p] # "zombie" => Len(all) = m.sent[p]
                        /\ Ended(m.pipes[i]) => p = NoProc
  BY Zenon DEF BytesInOrder
<1> DEFINE p == m.pipes[i].in
           q == m.taken[i]
           c == Content(m.pipes[i])
           h == q \o c
           d == PendingOf(m, p)
<1>1. m \in State /\ Open(m, i) /\ SlotOK(m, i) /\ WriterOK(m, i) /\ m.pipes[i] \in Pipes
  BY Fields DEF PipeInv, ByteInv, Bytes, Good, Open
<1>2. /\ c \in Seq(Int) /\ Len(c) = m.pipes[i].size /\ q \in Seq(Int) /\ Len(c) \in Nat
      /\ \A x \in 1 .. Len(c) : c[x] = Len(q) + x
      /\ \A x \in 1 .. Len(q) : q[x] = x
  BY <1>1, Inside DEF SlotOK
<1>3. p \in Procs \cup {NoProc} /\ Held(m, i) = Len(q) + Len(c)
  BY <1>1, <1>2 DEF Pipes, Held
<1>4. /\ p # NoProc => /\ NoEOF(m.pipes[i])
                       /\ \A n \in 1 .. Len(d) : d[n] = Held(m, i) + n
                       /\ m.status[p] # "zombie" => m.sent[p] = Held(m, i) + Len(d)
  BY <1>1 DEF WriterOK
<1>5. p # NoProc => d \in Seq(Int)
  <2> SUFFICES ASSUME p # NoProc PROVE d \in Seq(Int)
    OBVIOUS
  <2>1. p \in All
    BY <1>3, Pids
  <2> HIDE DEF p
  <2>2. m.call[p] \in Calls
    BY <1>1, <2>1, Fields
  <2> QED BY <2>2, CallKinds, EmptySeq DEF PendingOf
<1>6. Ended(m.pipes[i]) => p = NoProc
  BY <1>1, <1>4, NotEnded
<1>7. Pending(p) = d
  BY DEF Pending, PendingOf
<1> HIDE DEF p, q, c, d
<1>8. h \in Seq(Int) /\ Len(h) = Len(q) + Len(c) /\ \A x \in 1 .. Len(h) : h[x] = x
  BY <1>2, JoinedBytes
<1> HIDE DEF h
<1>9. p # NoProc => /\ Len(h \o d) = Len(h) + Len(d) /\ h \o d \in Seq(Int)
                    /\ \A x \in 1 .. Len(h \o d) : (h \o d)[x] = x
  <2> SUFFICES ASSUME p # NoProc
               PROVE  /\ Len(h \o d) = Len(h) + Len(d) /\ h \o d \in Seq(Int)
                      /\ \A x \in 1 .. Len(h \o d) : (h \o d)[x] = x
    OBVIOUS
  <2>1. d \in Seq(Int) /\ \A n \in 1 .. Len(d) : d[n] = Len(h) + n
    BY <1>3, <1>4, <1>5, <1>8
  <2> QED BY <1>8, <2>1, JoinedBytes
<1>10. DOMAIN h = 1 .. Len(h) /\ (p # NoProc => DOMAIN (h \o d) = 1 .. Len(h \o d))
  BY <1>8, <1>9
<1>11. p # NoProc /\ m.status[p] # "zombie" => Len(h \o d) = m.sent[p]
  BY <1>3, <1>4, <1>8, <1>9
<1>12. CASE p = NoProc
  BY <1>8, <1>10, <1>12 DEF h, q, c, p
<1>13. CASE p # NoProc
  BY <1>6, <1>7, <1>9, <1>10, <1>11, <1>13 DEF h, q, c, p
<1> QED BY <1>12, <1>13

-----------------------------------------------------------------------------
(* For every number and size of the pipes, whatever the commands read and  *)
(* write and however they die, until a tick cuts an exit: the bytes that a *)
(* pipe's reader has taken, those that are in the pipe and those that the  *)
(* writer still holds in pipe_write are the ones handed to write, each     *)
(* once and in order, and the end of file comes after the last of them     *)
(* (pipe_write, pipe_read, pipe_close).                                    *)
THEOREM BytesStayInOrder == Spec => [](cut = {} => BytesInOrder)
<1> DEFINE I == cut = {} => PipeInv /\ ByteInv
<1>1. ShellInit => I
  BY PipeStart, BytesStart
<1>2. I /\ [Next]_shellVars => I'
  BY UncutStep, PipeStep, EveryStep DEF ByteStep
<1>3. I => (cut = {} => BytesInOrder)
  BY BytesAre
<1> HIDE DEF I
<1> QED BY <1>1, <1>2, <1>3, PTL DEF Spec

(* The pipes implement the channels of module Channel as long as no exit   *)
(* is cut: from its creation to the step that frees it, every slot of the  *)
(* pipe table is a bounded first-in first-out queue, to which nothing is   *)
(* added after its end, and a new pipe in a used slot starts empty.        *)
THEOREM PipesImplementChannels == Spec /\ [](cut = {}) => PipesAreChannels
<1> DEFINE I == cut = {} => PipeInv /\ ByteInv /\ GoneEmpty
           A == \A i \in Slots : UNCHANGED Channel(i)!vars \/ Channel(i)!Next
           U == cut = {}
<1>1. ShellInit => I
  <2>1. ShellInit => GoneEmpty
    BY DEF ShellInit, Init, GoneEmpty
  <2> QED BY <2>1, PipeStart, BytesStart
<1>2. I /\ [Next]_shellVars => I'
  BY UncutStep, PipeStep, EveryStep, GoneStays DEF ByteStep
<1>3. I /\ I' /\ U' /\ [Next]_shellVars => A
  <2> SUFFICES ASSUME I, I', cut' = {}, [Next]_shellVars, NEW i \in Slots
               PROVE  Channel(i)!Next \/ UNCHANGED Channel(i)!vars
    OBVIOUS
  <2>1. cut = {} /\ [Whole]_shellVars
    BY UncutStep
  <2>2. ByteStep
    BY <2>1, EveryStep
  <2> QED BY <2>1, <2>2, MapsStep
<1>4. ShellInit => \A i \in Slots : Channel(i)!Init
  BY DEF ShellInit, Init, Channel!Init, Channel!Gone
<1> HIDE DEF I, A, U
<1>5. I /\ I' /\ U' /\ [Next]_shellVars => [A]_shellVars
  BY <1>3
<1>6. Spec /\ []U => [][A]_shellVars
  BY <1>1, <1>2, <1>5, PTL DEF Spec
<1>7. Spec => \A i \in Slots : Channel(i)!Init
  BY <1>4, PTL DEF Spec
<1> QED BY <1>6, <1>7, PTL DEF PipesAreChannels, A, U


-----------------------------------------------------------------------------
(* Who frees the pipes.  The reader of a pipe is not yet linked to its     *)
(* parent, and one of its descriptors leads to the pipe: so its death will *)
(* free it.  When descriptor 0 and descriptor 1 lead to the same pipe (the *)
(* kernel's pipe 0 as standard input) the death leaves it as the writer    *)
(* first.                                                                  *)
ReadBy(s, i, p) == Open(s, i) /\ s.pipes[i].out = p

ReaderOK(s, i) ==
  LET p == s.pipes[i].out
  IN  p # NoProc =>
        /\ s.status[p] # "free" /\ p \notin s.linked
        /\ s.fds[p].in = i \/ (s.fds[p].out = i /\ s.pipes[i].in # p)

WaitsAt(c, i) == c.fd = "in" /\ c.live /\ c.slot = i

(* Who closes the pipes of a dead process, but for q's call.               *)
ReadersOK(s, q) ==
  /\ \A i \in Slots : Open(s, i) => ReaderOK(s, i)
  /\ \A r \in All \ {q} : \A i \in Slots :
       s.call[r].op = "close" /\ ReadBy(s, i, s.call[r].victim) => WaitsAt(s.call[r], i)

ReadsNone(s, v) == \A i \in Slots : ~ ReadBy(s, i, v)

(* Descriptor 0 of v is done with. *)
InDone(s, v) ==
  \A i \in Slots : ReadBy(s, i, v) => s.fds[v].out = i /\ s.pipes[i].in # v

(* No new process and no new pipe, and no pipe has another reader.         *)
Less(s, t) ==
  /\ \A p \in Procs : s.status[p] = "free" => t.status[p] = "free"
  /\ \A i \in Slots : Open(t, i) => Open(s, i) /\ t.pipes[i].out = s.pipes[i].out

Sheltered(s, t, q) ==
  /\ \A i \in Slots : Open(t, i) => /\ Open(s, i) /\ t.pipes[i].out = s.pipes[i].out
                                    /\ t.pipes[i].in \in {s.pipes[i].in, NoProc}
  /\ t.linked = s.linked /\ t.fds = s.fds
  /\ \A p \in Procs : t.status[p] = "free" <=> s.status[p] = "free"
  /\ \A r \in All \ {q} :
       t.call[r].op = "close" =>
         /\ s.call[r].op = "close" /\ s.call[r].victim = t.call[r].victim
         /\ \A i \in Slots : Open(t, i) /\ WaitsAt(s.call[r], i) => WaitsAt(t.call[r], i)

LEMMA LessTransitive ==
  ASSUME NEW s, NEW t, NEW u, Less(s, t), Less(t, u)
  PROVE  Less(s, u)
BY DEF Less

LEMMA Shelter ==
  ASSUME NEW s \in State, NEW t, NEW q, ReadersOK(s, q), Sheltered(s, t, q)
  PROVE  /\ ReadersOK(t, q) /\ Less(s, t)
         /\ \A v \in Procs : InDone(s, v) => InDone(t, v)
         /\ \A v \in Procs : ReadsNone(s, v) => ReadsNone(t, v)
<1>1. ASSUME NEW i \in Slots, Open(t, i) PROVE ReaderOK(t, i)
  <2> DEFINE p == s.pipes[i].out
  <2>1. Open(s, i) /\ t.pipes[i].out = p /\ t.pipes[i].in \in {s.pipes[i].in, NoProc}
    BY <1>1 DEF Sheltered
  <2>2. ReaderOK(s, i) /\ p \in Procs \cup {NoProc}
    BY <2>1, Fields DEF ReadersOK, Pipes
  <2> QED BY <2>1, <2>2 DEF ReaderOK, Sheltered
<1>2. \A i \in Slots : \A v : ReadBy(t, i, v) => ReadBy(s, i, v)
  BY DEF ReadBy, Sheltered
<1>3. ASSUME NEW r \in All \ {q}, NEW i \in Slots,
             t.call[r].op = "close", ReadBy(t, i, t.call[r].victim)
      PROVE  WaitsAt(t.call[r], i)
  <2>1. /\ s.call[r].op = "close" /\ s.call[r].victim = t.call[r].victim
        /\ Open(t, i) /\ WaitsAt(s.call[r], i) => WaitsAt(t.call[r], i)
    BY <1>3 DEF Sheltered
  <2>2. ReadBy(s, i, s.call[r].victim) /\ Open(t, i)
    BY <1>2, <1>3, <2>1 DEF ReadBy
  <2> QED BY <2>1, <2>2 DEF ReadersOK
<1>4. ASSUME NEW v \in Procs, InDone(s, v) PROVE InDone(t, v)
  BY <1>4, Pids DEF InDone, ReadBy, Sheltered
<1>5. ASSUME NEW v \in Procs, ReadsNone(s, v) PROVE ReadsNone(t, v)
  BY <1>2, <1>5 DEF ReadsNone
<1>6. Less(s, t)
  BY DEF Less, Sheltered
<1> QED BY <1>1, <1>3, <1>4, <1>5, <1>6 DEF ReadersOK

LEMMA ReadersBut ==
  ASSUME NEW s, NEW q, ReadersOK(s, NoProc)
  PROVE  ReadersOK(s, q)
BY Pids DEF ReadersOK

(* A step that leaves the ends of the pipes as they are.                   *)
LEMMA QuietShelter ==
  ASSUME NEW s, NEW t, NEW q, Quiet(s, t),
         \A r \in All \ {q} : t.call[r] = s.call[r] \/ t.call[r].op # "close"
  PROVE  Sheltered(s, t, q)
<1>1. \A i \in Slots : Open(t, i) => /\ Open(s, i) /\ t.pipes[i].out = s.pipes[i].out
                                     /\ t.pipes[i].in = s.pipes[i].in
  BY DEF Quiet, SameAt, SamePipe
<1>2. \A p \in Procs : t.status[p] = "free" <=> s.status[p] = "free"
  BY Pids DEF Quiet, SameProcs
<1> QED BY <1>1, <1>2 DEF Quiet, SameProcs, Sheltered

LEMMA AsideShelter ==
  ASSUME NEW s, NEW t, NEW p, NEW i \in Slots, Aside(s, t, p, i), t.call[p].op # "close"
  PROVE  Sheltered(s, t, NoProc)
<1>1. \A j \in Slots : Open(t, j) => /\ Open(s, j) /\ t.pipes[j].out = s.pipes[j].out
                                     /\ t.pipes[j].in = s.pipes[j].in
  BY DEF Aside, SameAt, SamePipe
<1>2. \A r \in Procs : t.status[r] = "free" <=> s.status[r] = "free"
  BY Pids DEF Aside, SameProcs
<1>3. \A r \in All : t.call[r] = s.call[r] \/ t.call[r].op # "close"
  BY DEF Aside
<1> QED BY <1>1, <1>2, <1>3 DEF Aside, SameProcs, Sheltered

-----------------------------------------------------------------------------
(* The transfers.                                                          *)
LEMMA ReadOnShelter ==
  ASSUME NEW s \in State, NEW p \in Procs, NEW i \in Slots, NEW left \in Nat \ {0},
         s.status[p] = "ready", Open(s, i)
  PROVE  Sheltered(s, ReadOn(s, p, i, left), NoProc)
<1> DEFINE t == ReadOn(s, p, i, left)
<1>1. \E n \in Nat : TakeDone(s, t, p, i, n)
  BY ReadOnDoes
<1> HIDE DEF t
<1>2. Aside(s, t, p, i) /\ t.call[p].op # "close"
  BY <1>1 DEF TakeDone
<1> QED BY <1>2, AsideShelter DEF t

LEMMA WriteOnShelter ==
  ASSUME NEW s \in State, NEW p \in Procs, NEW i \in Slots, NEW data \in Seq(Int), data # << >>,
         s.status[p] = "ready", Open(s, i)
  PROVE  Sheltered(s, WriteOn(s, p, i, data), NoProc)
<1> DEFINE t == WriteOn(s, p, i, data)
           k == Lesser(PipeSize - s.pipes[i].size, Len(data))
<1>1. PutDone(s, t, p, i, data, k)
  BY WriteOnDoes
<1> HIDE DEF t, k
<1>2. Aside(s, t, p, i) /\ t.call[p].op # "close"
  BY <1>1 DEF PutDone, NoCall, Writing
<1> QED BY <1>2, AsideShelter DEF t

LEMMA SleepShelter ==
  ASSUME NEW s \in State, NEW p \in Procs, NEW i \in Slots, NEW c \in Calls,
         Open(s, i), s.status[p] = "ready", c.op # "close"
  PROVE  Sheltered(s, Sleep(s, p, i, c), NoProc)
<1> DEFINE t == Sleep(s, p, i, c)
<1>1. Quiet(s, t) /\ t.call[p] = c /\ \A r \in All \ {p} : t.call[r] = s.call[r]
  BY SleepQuiet
<1> HIDE DEF t
<1>2. \A r \in All \ {NoProc} : t.call[r] = s.call[r] \/ t.call[r].op # "close"
  BY <1>1
<1> QED BY <1>1, <1>2, QuietShelter DEF t

LEMMA ReadFirstShelter ==
  ASSUME NEW s \in State, NEW p \in Procs, NEW i \in Slots, NEW left \in Nat \ {0},
         s.status[p] = "ready", Open(s, i)
  PROVE  Sheltered(s, ReadFirst(s, p, i, left), NoProc)
<1>1. CASE NothingToRead(s.pipes[i])
  <2> DEFINE c == Reading(IF s.pipes[i].in = NoProc THEN "read_first" ELSE "read", i, left)
  <2>1. c \in Calls /\ c.op # "close"
    BY DEF Reading, Calls
  <2>2. ReadFirst(s, p, i, left) = Sleep(s, p, i, c)
    BY <1>1 DEF ReadFirst
  <2> HIDE DEF c
  <2> QED BY <2>1, <2>2, SleepShelter
<1>2. CASE ~ NothingToRead(s.pipes[i])
  BY <1>2, ReadOnShelter DEF ReadFirst
<1> QED BY <1>1, <1>2

LEMMA NothingShelter ==
  ASSUME NEW s, NEW t, NEW q, t.pipes = s.pipes, t.call = s.call, t.status = s.status,
         t.fds = s.fds, t.linked = s.linked
  PROVE  Sheltered(s, t, q)
BY DEF Sheltered, Open

LEMMA ShelterBehind ==
  ASSUME NEW s, NEW u, NEW t, NEW q, Sheltered(u, t, q),
         u.pipes = s.pipes, u.call = s.call, u.status = s.status,
         u.fds = s.fds, u.linked = s.linked
  PROVE  Sheltered(s, t, q)
BY DEF Sheltered, Open

LEMMA TransferShelter ==
  ASSUME Good(m, NoProc), NEW p \in Procs,
         \/ \E len \in 1 .. MaxLen : Read(p, len)
         \/ \E n \in 1 .. MaxLen : Write(p, n)
         \/ ResumeWrite(p) \/ ResumeReadFirst(p) \/ ResumeRead(p)
  PROVE  Sheltered(m, m', NoProc)
<1> DEFINE c == m.call[p]
<1>1. m \in State /\ p \in All /\ c \in Calls /\ CallOK(m, p)
  BY Fields, Pids DEF Good
<1>2. ASSUME NEW len \in 1 .. MaxLen, Read(p, len) PROVE Sheltered(m, m', NoProc)
  <2>1. m.fds[p].in \in Slots
    BY <1>1, <1>2, Fields DEF Read, Descriptors
  <2>2. len \in Nat \ {0} /\ m.status[p] = "ready"
    BY <1>2, Sizes DEF Read, InUser, Runs
  <2>3. m' = pipe_read(m, p, m.fds[p].in, len)
    BY <1>2 DEF Read, Step
  <2>4. m' = m \/ (Open(m, m.fds[p].in) /\ m' = ReadFirst(m, p, m.fds[p].in, len))
    BY <2>3 DEF pipe_read, Open
  <2> QED BY <1>1, <2>1, <2>2, <2>4, ReadFirstShelter, NothingShelter
<1>3. ASSUME NEW n \in 1 .. MaxLen, Write(p, n) PROVE Sheltered(m, m', NoProc)
  <2> DEFINE s    == [m EXCEPT !.sent[p] = @ + n]
             data == [x \in 1 .. n |-> m.sent[p] + x]
             i    == m.fds[p].out
  <2>1. n \in Nat \ {0} /\ m.status[p] = "ready" /\ m.sent[p] \in Nat
    BY <1>1, <1>3, Sizes DEF Write, InUser, Runs, State
  <2>2. i \in Slots /\ m' = pipe_write(s, p, i, data)
    BY <1>1, <1>3, Fields DEF Write, Descriptors, Step
  <2>3. data \in Seq(Int) /\ Len(data) = n
    BY <2>1
  <2>4. data # << >>
    BY <2>1, <2>3
  <2>5. /\ s \in State /\ s.pipes = m.pipes /\ s.status = m.status /\ s.call = m.call
        /\ s.linked = m.linked /\ s.fds = m.fds
    <3> DEFINE sum == m.sent[p] + n
    <3>1. sum \in Nat /\ s = [m EXCEPT !.sent[p] = sum]
      BY <2>1
    <3> HIDE DEF sum, s
    <3> QED BY <1>1, <3>1 DEF State
  <2> HIDE DEF s, data, i
  <2>6. Writing(i, data) \in Calls /\ Writing(i, data).op # "close"
    BY <2>2, <2>3, <2>4 DEF Writing, Calls
  <2>7. \/ m' = s
        \/ Open(s, i) /\ m' \in {Sleep(s, p, i, Writing(i, data)), WriteOn(s, p, i, data)}
    BY <2>2 DEF pipe_write, Open
  <2>8. Sheltered(s, m', NoProc)
    BY <2>1, <2>2, <2>3, <2>4, <2>5, <2>6, <2>7, SleepShelter, WriteOnShelter, NothingShelter
  <2> QED BY <2>5, <2>8, ShelterBehind
<1>4. CASE ResumeWrite(p)
  <2>1. c.op = "write" /\ m.status[p] = "ready"
    BY <1>4 DEF ResumeWrite, Runs
  <2>2. c.slot \in Slots /\ c.data \in Seq(Int) /\ c.data # << >>
    BY <1>1, <2>1, CallKinds
  <2>3. m' = IF c.live THEN WriteOn(m, p, c.slot, c.data) ELSE Return(m, p)
    BY <1>4 DEF ResumeWrite, Step
  <2>4. CASE c.live
    <3>1. Open(m, c.slot)
      BY <1>1, <2>1, <2>4 DEF CallOK, WriteOK
    <3> HIDE DEF c
    <3> QED BY <1>1, <2>1, <2>2, <2>3, <2>4, <3>1, WriteOnShelter
  <2>5. CASE ~ c.live
    <3>1. /\ Quiet(m, m') /\ m'.call[p] = NoCall
          /\ \A r \in All \ {p} : m'.call[r] = m.call[r]
      BY <1>1, <2>3, <2>5, ReturnQuiet
    <3>2. \A r \in All \ {NoProc} : m'.call[r] = m.call[r] \/ m'.call[r].op # "close"
      BY <3>1 DEF NoCall
    <3> QED BY <3>1, <3>2, QuietShelter
  <2> QED BY <2>4, <2>5
<1>5. CASE ResumeReadFirst(p) \/ ResumeRead(p)
  <2>1. c.op \in {"read", "read_first"} /\ m.status[p] = "ready"
    BY <1>5 DEF ResumeReadFirst, ResumeRead, Runs
  <2>2. c.live /\ c.slot \in Slots /\ c.left \in Nat \ {0} /\ Open(m, c.slot)
    BY <1>1, <2>1, CallKinds DEF CallOK, ReadOK
  <2>3. m' \in {ReadFirst(m, p, c.slot, c.left), ReadOn(m, p, c.slot, c.left)}
    BY <1>5, <2>2 DEF ResumeReadFirst, ResumeRead, Step
  <2> HIDE DEF c
  <2> QED BY <1>1, <2>1, <2>2, <2>3, ReadFirstShelter, ReadOnShelter
<1> QED BY <1>2, <1>3, <1>4, <1>5

-----------------------------------------------------------------------------
(* The deaths: when a dead process is linked to its parent it reads no pipe.*)
LEMMA CloseWriteShelter ==
  ASSUME NEW s, NEW q, NEW v, NEW i \in Slots,
         Closing(s, q, v), Open(s, i), s.pipes[i].in = v
  PROVE  LET t == close_write(s, i)
         IN  /\ Sheltered(s, t, NoProc) /\ t.call = s.call
             /\ Open(t, i) /\ t.pipes[i].in = NoProc
<1> DEFINE a    == s.pipes[i]
           new1 == IF Ended(a) THEN a ELSE WithEOF(a)
           new  == [new1 EXCEPT !.in = NoProc]
           s1   == IF Ended(a) THEN s ELSE [s EXCEPT !.pipes[i] = WithEOF(@)]
           s2   == [s1 EXCEPT !.pipes[i].in = NoProc]
           x    == a.out
           t    == WakeOther(s2, i, x)
<1>1. s \in State /\ a \in Pipes
  BY Fields DEF Closing, Good
<1>2. new1 \in Pipes /\ new1.out = a.out
  BY <1>1, EndedPipe
<1> HIDE DEF new1
<1>3. new \in Pipes /\ new.out = a.out /\ new.in = NoProc
  BY <1>2 DEF Pipes
<1>4. s2 = [s EXCEPT !.pipes[i] = new]
  <2>1. CASE Ended(a)
    BY <2>1 DEF new1
  <2>2. CASE ~ Ended(a)
    <3>1. s1 = [s EXCEPT !.pipes[i] = new1]
      BY <2>2 DEF new1
    <3>2. s1.pipes[i] = new1
      BY <1>1, <3>1 DEF State
    <3> HIDE DEF s1, new1
    <3>3. s2 = [s1 EXCEPT !.pipes[i] = new]
      BY <3>2
    <3> HIDE DEF s2, new
    <3> QED BY <1>1, <3>1, <3>3 DEF State
  <2> QED BY <2>1, <2>2
<1>5. close_write(s, i) = t
  BY DEF close_write
<1> HIDE DEF new, s1, s2
<1>6. /\ s2 \in State /\ s2.pipes[i] = new /\ Open(s2, i)
      /\ s2.call = s.call /\ s2.status = s.status /\ s2.fds = s.fds
      /\ s2.linked = s.linked
      /\ \A j \in Slots \ {i} : s2.pipes[j] = s.pipes[j]
  BY <1>1, <1>3, <1>4, PipeSet
<1>7. x \in Procs \cup {NoProc}
  BY <1>1 DEF Pipes
<1>8. t \in State /\ Quiet(s2, t) /\ t.call = s2.call
  BY <1>6, <1>7, WakeOtherQuiet
<1> HIDE DEF t
<1>9. \A j \in Slots : /\ Open(t, j) <=> Open(s2, j)
                       /\ Open(s2, j) => /\ t.pipes[j].in = s2.pipes[j].in
                                         /\ t.pipes[j].out = s2.pipes[j].out
  BY <1>8 DEF Quiet, SameAt, SamePipe
<1>10. \A j \in Slots : Open(t, j) => /\ Open(s, j) /\ t.pipes[j].out = s.pipes[j].out
                                      /\ t.pipes[j].in \in {s.pipes[j].in, NoProc}
  BY <1>3, <1>6, <1>9 DEF Open
<1>11. /\ t.fds = s.fds /\ t.linked = s.linked /\ t.call = s.call
       /\ \A p \in Procs : t.status[p] = "free" <=> s.status[p] = "free"
  BY <1>6, <1>8, Pids DEF Quiet, SameProcs
<1> QED BY <1>3, <1>5, <1>6, <1>9, <1>10, <1>11 DEF Sheltered

LEMMA CloseReadShelter ==
  ASSUME NEW s, NEW q, NEW v, NEW i \in Slots,
         Closing(s, q, v), Open(s, i), s.pipes[i].out = v
  PROVE  LET t == close_read(s, i) IN Sheltered(s, t, NoProc) /\ ~ Open(t, i)
<1> DEFINE x  == s.pipes[i].in
           s1 == WakeOther(s, i, x)
           off(r) == IF s.call[r].slot = i THEN [s.call[r] EXCEPT !.live = FALSE]
                                           ELSE s.call[r]
           calls == [p \in All |-> off(p)]
           t  == [s1 EXCEPT !.pipes[i] = NULL, !.taken[i] = << >>, !.call = calls]
<1>1. s \in State /\ s.pipes[i] \in Pipes
  BY Fields DEF Closing, Good
<1>2. close_read(s, i) = t
  BY DEF close_read
<1>3. x \in Procs \cup {NoProc}
  BY <1>1 DEF Pipes
<1>4. s1 \in State /\ Quiet(s, s1)
  BY <1>1, <1>3, WakeOtherQuiet
<1> HIDE DEF s1, x
<1>5. ASSUME NEW r \in All, off(r).op = "close"
      PROVE  /\ s.call[r].op = "close" /\ s.call[r].victim = off(r).victim
             /\ \A j \in Slots : j # i /\ WaitsAt(s.call[r], j) => WaitsAt(off(r), j)
  <2>1. s.call[r] \in Calls
    BY <1>1, Fields
  <2>2. CASE s.call[r].slot = i
    <3>1. off(r) = [s.call[r] EXCEPT !.live = FALSE]
      BY <2>2
    <3>2. off(r).op = s.call[r].op /\ (s.call[r].op = "close" => off(r).victim = s.call[r].victim)
      BY <2>1, <2>2, <3>1, NotLive
    <3> QED BY <1>5, <2>2, <3>2 DEF WaitsAt
  <2>3. CASE s.call[r].slot # i
    BY <1>5, <2>3
  <2> QED BY <2>2, <2>3
<1>6. \A r \in All : calls[r] = off(r)
  OBVIOUS
<1> HIDE DEF off, calls
<1>7. /\ t.pipes[i] = NULL /\ \A j \in Slots \ {i} : t.pipes[j] = s1.pipes[j]
      /\ t.call = calls /\ t.status = s1.status /\ t.fds = s1.fds /\ t.linked = s1.linked
  BY <1>4 DEF State
<1> HIDE DEF t
<1>8. \A j \in Slots : Open(t, j) => /\ j # i /\ Open(s, j) /\ t.pipes[j].out = s.pipes[j].out
                                     /\ t.pipes[j].in = s.pipes[j].in
  BY <1>4, <1>7 DEF Open, Quiet, SameAt, SamePipe
<1>9. /\ t.fds = s.fds /\ t.linked = s.linked
      /\ \A p \in Procs : t.status[p] = "free" <=> s.status[p] = "free"
  BY <1>4, <1>7, Pids DEF Quiet, SameProcs
<1>10. ASSUME NEW r \in All, t.call[r].op = "close"
       PROVE  /\ s.call[r].op = "close" /\ s.call[r].victim = t.call[r].victim
              /\ \A j \in Slots : Open(t, j) /\ WaitsAt(s.call[r], j) => WaitsAt(t.call[r], j)
  <2>1. t.call[r] = off(r)
    BY <1>6, <1>7
  <2> QED BY <1>5, <1>8, <1>10, <2>1
<1>11. ~ Open(t, i)
  BY <1>7 DEF Open
<1> QED BY <1>2, <1>8, <1>9, <1>10, <1>11 DEF Sheltered

(* After descriptor 0, and after descriptor 1.                             *)
LEMMA PipeCloseShelter ==
  ASSUME NEW s, NEW q, NEW v, NEW i \in Descriptors,
         Closing(s, q, v), Bytes(s), ReadersOK(s, q)
  PROVE  LET t == pipe_close(s, v, i)
         IN  /\ Sheltered(s, t, q)
             /\ i = s.fds[v].in => InDone(t, v)
             /\ i = s.fds[v].out /\ InDone(s, v) => ReadsNone(t, v)
<1>1. s \in State /\ v \in Procs /\ v # NoProc
  BY Pids DEF Closing, Good
<1>2. ASSUME NEW j \in Slots, ReadBy(s, j, v)
      PROVE  s.fds[v].in = j \/ (s.fds[v].out = j /\ s.pipes[j].in # v)
  BY <1>1, <1>2 DEF ReadersOK, ReaderOK, ReadBy
<1>3. ASSUME NEW j \in Slots, Open(s, j), s.pipes[j].in = v PROVE s.fds[v].out = j
  BY <1>1, <1>3, OneWriter
<1>4. ASSUME NEW t, Sheltered(s, t, NoProc)
      PROVE  /\ Sheltered(s, t, q)
             /\ t.fds = s.fds
             /\ \A j \in Slots : ReadBy(t, j, v) =>
                  ReadBy(s, j, v) /\ Open(t, j) /\ t.pipes[j].in \in {s.pipes[j].in, NoProc}
  BY <1>4, Pids DEF Sheltered, ReadBy
<1>5. CASE i = Tty \/ s.pipes[i] = NULL
  <2>1. pipe_close(s, v, i) = s /\ Sheltered(s, s, NoProc)
    BY <1>5, NothingShelter DEF pipe_close
  <2>2. \A j \in Slots : ReadBy(s, j, v) => j # i
    BY <1>5, NotFile DEF ReadBy, Open
  <2> QED BY <1>2, <1>4, <2>1, <2>2 DEF InDone, ReadsNone
<1>6. CASE i # Tty /\ s.pipes[i] # NULL
  <2>1. i \in Slots /\ Open(s, i)
    BY <1>6 DEF Descriptors, Open
  <2>2. CASE s.pipes[i].in = v
    <3> DEFINE t == close_write(s, i)
    <3>1. pipe_close(s, v, i) = t
      BY <1>6, <2>2 DEF pipe_close
    <3>2. Sheltered(s, t, NoProc) /\ t.pipes[i].in = NoProc
      BY <2>1, <2>2, CloseWriteShelter
    <3> HIDE DEF t
    <3>3. s.fds[v].out = i
      BY <1>3, <2>1, <2>2
    <3> QED BY <1>1, <1>2, <1>4, <2>2, <3>1, <3>2, <3>3 DEF InDone, ReadsNone
  <2>3. CASE s.pipes[i].in # v /\ s.pipes[i].out = v
    <3> DEFINE t == close_read(s, i)
    <3>1. pipe_close(s, v, i) = t
      BY <1>6, <2>3 DEF pipe_close
    <3>2. Sheltered(s, t, NoProc) /\ ~ Open(t, i)
      BY <2>1, <2>3, CloseReadShelter
    <3> HIDE DEF t
    <3>3. \A j \in Slots : ReadBy(t, j, v) => j # i
      BY <3>2 DEF ReadBy
    <3> QED BY <1>1, <1>2, <1>4, <3>1, <3>2, <3>3 DEF InDone, ReadsNone
  <2>4. CASE s.pipes[i].in # v /\ s.pipes[i].out # v
    <3>1. pipe_close(s, v, i) = s /\ Sheltered(s, s, NoProc)
      BY <1>6, <2>4, NothingShelter DEF pipe_close
    <3>2. \A j \in Slots : ReadBy(s, j, v) => j # i
      BY <2>4 DEF ReadBy
    <3> QED BY <1>2, <1>4, <3>1, <3>2 DEF InDone, ReadsNone
  <2> QED BY <2>2, <2>3, <2>4
<1> QED BY <1>5, <1>6

LEMMA LinkShelter ==
  ASSUME NEW s, NEW q, NEW v, Closing(s, q, v), ReadersOK(s, q), ReadsNone(s, v)
  PROVE  LET t == LinkToParent(s, q, v) IN ReadersOK(t, NoProc) /\ Less(s, t)
<1> DEFINE s1 == [Return(s, q) EXCEPT !.linked = @ \cup {v}]
           t  == LinkToParent(s, q, v)
<1>1. s \in State /\ q \in All /\ v \in Procs /\ v \in All /\ NoCall \in Calls
  BY Pids DEF Closing, Good, Calls
<1>2. /\ s1 \in State /\ s1.call[q] = NoCall /\ s1.pipes = s.pipes /\ s1.status = s.status
      /\ s1.linked = s.linked \cup {v} /\ s1.fds = s.fds
      /\ \A r \in All \ {q} : s1.call[r] = s.call[r]
  BY <1>1 DEF State, Return
<1>3. t = IF s.waits = v THEN Wake(s1, Shell) ELSE s1
  BY DEF LinkToParent
<1> HIDE DEF s1, t
<1>4. ReadersOK(s1, NoProc)
  <2>1. ASSUME NEW i \in Slots, Open(s1, i) PROVE ReaderOK(s1, i)
    <3>1. ReaderOK(s, i) /\ s.pipes[i].out # v
      BY <1>2, <2>1 DEF ReadersOK, ReadsNone, ReadBy, Open
    <3> QED BY <1>2, <3>1 DEF ReaderOK
  <2>2. ASSUME NEW r \in All, NEW i \in Slots,
               s1.call[r].op = "close", ReadBy(s1, i, s1.call[r].victim)
        PROVE  WaitsAt(s1.call[r], i)
    <3>1. r # q /\ s1.call[r] = s.call[r]
      BY <1>2, <2>2 DEF NoCall
    <3> QED BY <1>2, <2>2, <3>1 DEF ReadersOK, ReadBy, Open
  <2> QED BY <2>1, <2>2 DEF ReadersOK
<1>5. Less(s, s1)
  BY <1>2 DEF Less, Open
<1>6. CASE s.waits # v
  BY <1>3, <1>4, <1>5, <1>6 DEF t
<1>7. CASE s.waits = v
  <2>1. Wake(s1, Shell) = s1 \/ Wake(s1, Shell) = [s1 EXCEPT !.status[Shell] = "ready"]
    BY DEF Wake
  <2>2. t = s1 \/ t = [s1 EXCEPT !.status[Shell] = "ready"]
    BY <1>3, <1>7, <2>1
  <2> HIDE DEF t
  <2> DEFINE st == [s1.status EXCEPT ![Shell] = "ready"]
  <2>5. \A p \in Procs : st[p] = s1.status[p]
    BY <1>2, Pids DEF State
  <2>6. [s1 EXCEPT !.status[Shell] = "ready"] = [s1 EXCEPT !.status = st]
    OBVIOUS
  <2> HIDE DEF st
  <2> DEFINE w == [s1 EXCEPT !.status = st]
  <2>7. /\ w.pipes = s1.pipes /\ w.call = s1.call /\ w.fds = s1.fds /\ w.linked = s1.linked
        /\ w.status = st
    BY <1>2 DEF State
  <2> HIDE DEF w
  <2>8. t = s1 \/ t = w
    BY <2>2, <2>6 DEF w
  <2>4. /\ t.pipes = s1.pipes /\ t.call = s1.call /\ t.fds = s1.fds /\ t.linked = s1.linked
        /\ \A p \in Procs : t.status[p] = s1.status[p]
    BY <2>5, <2>7, <2>8
  <2>3. Sheltered(s1, t, NoProc)
    BY <2>4 DEF Sheltered, Open
  <2> QED BY <1>2, <1>4, <1>5, <2>3, Shelter, LessTransitive DEF t
<1> QED BY <1>6, <1>7

LEMMA WaitShelter ==
  ASSUME NEW s, NEW q, NEW v, NEW fd \in {"in", "out"}, NEW i \in Descriptors,
         Closing(s, q, v), ReadersOK(s, q), CloseWaits(s, v, i),
         \A j \in Slots : ReadBy(s, j, v) => fd = "in" /\ j = i
  PROVE  LET t == WaitForRoom(s, q, v, fd, i) IN ReadersOK(t, NoProc) /\ Less(s, t)
<1> DEFINE c == CloseCall(v, fd, i)
           t == WaitForRoom(s, q, v, fd, i)
<1>1. s \in State /\ q \in All /\ v \in Procs /\ i \in Slots /\ Open(s, i)
  BY DEF Closing, Good, CloseWaits, Descriptors, Open
<1>2. /\ t \in State /\ Quiet(s, t)
      /\ \A r \in All \ {q} : t.call[r] = s.call[r]
  BY <1>1, WaitQuiet
<1>3. t.call[q] = c
  <2> HIDE DEF c
  <2>1. s.call \in [All -> Calls]
    BY <1>1 DEF State
  <2> QED BY <1>1, <2>1 DEF WaitForRoom, c
<1>4. c.victim = v /\ c.fd = fd /\ c.live /\ c.slot = i
  BY DEF CloseCall
<1> HIDE DEF c, t
<1>5. Sheltered(s, t, q)
  BY <1>2, QuietShelter
<1>6. ReadersOK(t, q) /\ Less(s, t)
  BY <1>1, <1>5, Shelter
<1>7. \A j \in Slots : ReadBy(t, j, v) => WaitsAt(c, j)
  BY <1>4, <1>5 DEF ReadBy, Sheltered, WaitsAt
<1>8. ASSUME NEW r \in All, NEW j \in Slots,
             t.call[r].op = "close", ReadBy(t, j, t.call[r].victim)
      PROVE  WaitsAt(t.call[r], j)
  <2>1. CASE r = q
    BY <1>3, <1>4, <1>7, <1>8, <2>1
  <2>2. CASE r # q
    BY <1>6, <1>8, <2>2 DEF ReadersOK
  <2> QED BY <2>1, <2>2
<1> QED BY <1>6, <1>8 DEF ReadersOK, t

LEMMA ForgetShelter ==
  ASSUME NEW s, NEW q, NEW v, Closing(s, q, v), ReadersOK(s, q)
  PROVE  LET u == [s EXCEPT !.fds[v].in = Tty]
             w == [s EXCEPT !.fds[v].out = Tty]
         IN  /\ InDone(s, v) => ReadersOK(u, q) /\ Less(s, u) /\ InDone(u, v)
             /\ ReadsNone(s, v) => ReadersOK(w, q) /\ Less(s, w) /\ ReadsNone(w, v)
<1> DEFINE u == [s EXCEPT !.fds[v].in = Tty]
           w == [s EXCEPT !.fds[v].out = Tty]
           fi == [s.fds[v] EXCEPT !.in = Tty]
           fo == [s.fds[v] EXCEPT !.out = Tty]
<1>1. s \in State /\ v \in Procs /\ v \in All /\ s.status[v] = "zombie" /\ v \notin s.linked
  BY Pids DEF Closing, Good
<1>2. fi.out = s.fds[v].out
  BY <1>1 DEF State
<1>3. u = [s EXCEPT !.fds[v] = fi] /\ w = [s EXCEPT !.fds[v] = fo]
  OBVIOUS
<1> HIDE DEF u, w, fi, fo
<1>4. ASSUME NEW t, NEW f, t = [s EXCEPT !.fds[v] = f],
             \A i \in Slots : ReadBy(s, i, v) => f.out = i /\ s.pipes[i].in # v
      PROVE  ReadersOK(t, q) /\ Less(s, t) /\ t.pipes = s.pipes
  <2>1. /\ t.pipes = s.pipes /\ t.status = s.status /\ t.call = s.call
        /\ t.linked = s.linked /\ t.fds[v] = f
        /\ \A r \in All \ {v} : t.fds[r] = s.fds[r]
    BY <1>1, <1>4 DEF State
  <2>2. ASSUME NEW i \in Slots, Open(t, i) PROVE ReaderOK(t, i)
    <3> DEFINE p == s.pipes[i].out
    <3>1. ReaderOK(s, i) /\ p \in Procs \cup {NoProc}
      BY <1>1, <2>1, <2>2, Fields DEF ReadersOK, Open, Pipes
    <3>2. CASE p = v
      <4>1. f.out = i /\ s.pipes[i].in # v
        BY <1>4, <2>1, <2>2, <3>2 DEF ReadBy, Open
      <4> QED BY <1>1, <2>1, <3>2, <4>1 DEF ReaderOK
    <3>3. CASE p # v
      BY <2>1, <3>1, <3>3, Pids DEF ReaderOK
    <3> QED BY <3>2, <3>3
  <2> QED BY <2>1, <2>2 DEF ReadersOK, Less, ReadBy, Open
<1>5. ASSUME InDone(s, v) PROVE ReadersOK(u, q) /\ Less(s, u) /\ InDone(u, v)
  <2>1. \A i \in Slots : ReadBy(s, i, v) => fi.out = i /\ s.pipes[i].in # v
    BY <1>2, <1>5 DEF InDone
  <2>2. ReadersOK(u, q) /\ Less(s, u) /\ u.pipes = s.pipes
    BY <1>3, <1>4, <2>1
  <2>3. u.fds[v] = fi
    BY <1>1, <1>3 DEF State
  <2> QED BY <2>1, <2>2, <2>3 DEF InDone, ReadBy, Open
<1>6. ASSUME ReadsNone(s, v) PROVE ReadersOK(w, q) /\ Less(s, w) /\ ReadsNone(w, v)
  <2>1. \A i \in Slots : ReadBy(s, i, v) => fo.out = i /\ s.pipes[i].in # v
    BY <1>6 DEF ReadsNone
  <2>2. ReadersOK(w, q) /\ Less(s, w) /\ w.pipes = s.pipes
    BY <1>3, <1>4, <2>1
  <2> QED BY <1>6, <2>2 DEF ReadsNone, ReadBy, Open
<1> QED BY <1>5, <1>6 DEF u, w

LEMMA CloseOutShelter ==
  ASSUME NEW s, NEW q, NEW v, Killing(s, q, v), ReadersOK(s, q), InDone(s, v)
  PROVE  LET t == CloseOut(s, q, v) IN ReadersOK(t, NoProc) /\ Less(s, t)
<1> DEFINE i  == s.fds[v].out
           s1 == pipe_close(s, v, i)
           s2 == [s1 EXCEPT !.fds[v].out = Tty]
<1>1. i \in Descriptors /\ Closing(s, q, v) /\ Bytes(s) /\ s \in State
  BY Fields, Pids DEF Killing, Closing, Good
<1>2. CloseOut(s, q, v) =
        IF CloseWaits(s, v, i) THEN WaitForRoom(s, q, v, "out", i) ELSE LinkToParent(s2, q, v)
  BY DEF CloseOut
<1>3. CASE CloseWaits(s, v, i)
  <2>1. \A j \in Slots : ~ ReadBy(s, j, v)
    BY <1>3 DEF CloseWaits, InDone
  <2> HIDE DEF i
  <2> QED BY <1>1, <1>2, <1>3, <2>1, WaitShelter
<1>4. CASE ~ CloseWaits(s, v, i)
  <2>1. Killing(s1, q, v)
    BY <1>1, <1>4, PipeCloseLower
  <2>2. Sheltered(s, s1, q) /\ ReadsNone(s1, v)
    BY <1>1, PipeCloseShelter
  <2> HIDE DEF s1
  <2>3. ReadersOK(s1, q) /\ Less(s, s1)
    BY <1>1, <2>2, Shelter
  <2>4. ReadersOK(s2, q) /\ Less(s1, s2) /\ ReadsNone(s2, v)
    BY <2>1, <2>2, <2>3, ForgetShelter DEF Killing
  <2>5. Closing(s2, q, v)
    BY <2>1, DescriptorGone DEF Killing
  <2> HIDE DEF s2
  <2>6. ReadersOK(LinkToParent(s2, q, v), NoProc) /\ Less(s2, LinkToParent(s2, q, v))
    BY <2>4, <2>5, LinkShelter
  <2> QED BY <1>2, <1>4, <2>3, <2>4, <2>6, LessTransitive
<1> QED BY <1>3, <1>4

LEMMA CloseInShelter ==
  ASSUME NEW s, NEW q, NEW v, Killing(s, q, v), ReadersOK(s, q)
  PROVE  LET t == CloseIn(s, q, v) IN ReadersOK(t, NoProc) /\ Less(s, t)
<1> DEFINE i  == s.fds[v].in
           s1 == pipe_close(s, v, i)
           s2 == [s1 EXCEPT !.fds[v].in = Tty]
<1>1. i \in Descriptors /\ Closing(s, q, v) /\ Bytes(s) /\ s \in State /\ v \in Procs
  BY Fields, Pids DEF Killing, Closing, Good
<1>2. CloseIn(s, q, v) =
        IF CloseWaits(s, v, i) THEN WaitForRoom(s, q, v, "in", i) ELSE CloseOut(s2, q, v)
  BY DEF CloseIn
<1>3. CASE CloseWaits(s, v, i)
  <2>1. ASSUME NEW j \in Slots, ReadBy(s, j, v) PROVE j = i
    <3>1. s.fds[v].in = j \/ s.fds[v].out = j
      BY <1>1, <2>1, Pids DEF ReadersOK, ReaderOK, ReadBy
    <3>2. i \in Slots /\ Open(s, i) /\ s.pipes[i].in = v
      BY <1>1, <1>3 DEF CloseWaits, Descriptors, Open
    <3>3. s.fds[v].out = i
      BY <1>1, <3>2, OneWriter
    <3> QED BY <3>1, <3>3
  <2> HIDE DEF i
  <2> QED BY <1>1, <1>2, <1>3, <2>1, WaitShelter
<1>4. CASE ~ CloseWaits(s, v, i)
  <2>1. Killing(s1, q, v)
    BY <1>1, <1>4, PipeCloseLower
  <2>2. Sheltered(s, s1, q) /\ InDone(s1, v)
    BY <1>1, PipeCloseShelter
  <2> HIDE DEF s1
  <2>3. ReadersOK(s1, q) /\ Less(s, s1)
    BY <1>1, <2>2, Shelter
  <2>4. ReadersOK(s2, q) /\ Less(s1, s2) /\ InDone(s2, v)
    BY <2>1, <2>2, <2>3, ForgetShelter DEF Killing
  <2>5. Killing(s2, q, v)
    BY <2>1, ForgetLower
  <2> HIDE DEF s2
  <2>6. ReadersOK(CloseOut(s2, q, v), NoProc) /\ Less(s2, CloseOut(s2, q, v))
    BY <2>4, <2>5, CloseOutShelter
  <2> QED BY <1>2, <1>4, <2>3, <2>4, <2>6, LessTransitive
<1> QED BY <1>3, <1>4

LEMMA CloseRestShelter ==
  ASSUME NEW s, NEW q, NEW v, NEW fd, Killing(s, q, v), ReadersOK(s, q),
         IF fd = "in" THEN InDone(s, v) ELSE ReadsNone(s, v)
  PROVE  LET t == CloseRest(s, q, v, fd) IN ReadersOK(t, NoProc) /\ Less(s, t)
<1>1. Closing(s, q, v)
  BY DEF Killing
<1>2. CASE fd = "in"
  <2> DEFINE u == [s EXCEPT !.fds[v].in = Tty]
  <2>1. CloseRest(s, q, v, fd) = CloseOut(u, q, v)
    BY <1>2 DEF CloseRest
  <2>2. Killing(u, q, v)
    BY ForgetLower
  <2>3. ReadersOK(u, q) /\ Less(s, u) /\ InDone(u, v)
    BY <1>1, <1>2, ForgetShelter
  <2> HIDE DEF u
  <2> QED BY <2>1, <2>2, <2>3, CloseOutShelter, LessTransitive
<1>3. CASE fd # "in"
  <2> DEFINE u == [s EXCEPT !.fds[v].out = Tty]
  <2>1. CloseRest(s, q, v, fd) = LinkToParent(u, q, v)
    BY <1>3 DEF CloseRest
  <2>2. Closing(u, q, v)
    BY <1>1, DescriptorGone
  <2>3. ReadersOK(u, q) /\ Less(s, u) /\ ReadsNone(u, v)
    BY <1>1, <1>3, ForgetShelter
  <2> HIDE DEF u
  <2> QED BY <2>1, <2>2, <2>3, LinkShelter, LessTransitive
<1> QED BY <1>2, <1>3

LEMMA KillShelter ==
  ASSUME NEW s, NEW q \in All, NEW v \in Procs, Good(s, NoProc), Bytes(s),
         ReadersOK(s, NoProc),
         s.status[v] # "zombie", q = v \/ s.status[q] = "ready",
         q = v \/ s.call[q].op = "none"
  PROVE  LET t == kill_process(s, q, v)
         IN  ReadersOK(t, NoProc) /\ (s.status[v] # "free" => Less(s, t))
<1> DEFINE u == [s EXCEPT !.status[v] = "zombie", !.call[v] = NoCall]
<1>1. s \in State /\ v \in All /\ NoCall \in Calls
  BY Pids DEF Good, Calls
<1>2. kill_process(s, q, v) = CloseIn(u, q, v)
  BY DEF kill_process
<1>3. /\ Closing(u, q, v) /\ u.call[v] = NoCall
      /\ \A r \in All \ {v} : u.call[r] = s.call[r]
  BY DeadKeeps, Zenon
<1>4. Lower(s, u)
  BY <1>1, DeadLower, Zenon
<1>5. /\ u.pipes = s.pipes /\ u.fds = s.fds /\ u.linked = s.linked /\ u.status[v] = "zombie"
      /\ \A r \in All \ {v} : u.status[r] = s.status[r]
  BY <1>1 DEF State
<1> HIDE DEF u
<1>6. Killing(u, q, v)
  BY <1>3, <1>4 DEF Killing, Lower, BytesKept, NoCall
<1>7. ReadersOK(u, NoProc)
  <2>1. ASSUME NEW i \in Slots, Open(u, i) PROVE ReaderOK(u, i)
    <3>1. ReaderOK(s, i) /\ s.pipes[i].out \in Procs \cup {NoProc}
      BY <1>1, <1>5, <2>1, Fields DEF ReadersOK, Open, Pipes
    <3> QED BY <1>5, <3>1, Pids DEF ReaderOK
  <2>2. \A r \in All : u.call[r].op = "close" => u.call[r] = s.call[r]
    BY <1>3 DEF NoCall
  <2> QED BY <1>5, <2>1, <2>2 DEF ReadersOK, ReadBy, Open
<1>8. s.status[v] # "free" => Less(s, u)
  BY <1>5, Pids DEF Less, Open
<1>9. ReadersOK(u, q)
  BY <1>7, ReadersBut
<1>10. ReadersOK(CloseIn(u, q, v), NoProc) /\ Less(u, CloseIn(u, q, v))
  BY <1>6, <1>9, CloseInShelter
<1> QED BY <1>2, <1>8, <1>10, LessTransitive

LEMMA CloseStepsShelter ==
  ASSUME Good(m, NoProc), Bytes(m), ReadersOK(m, NoProc), NEW q \in All,
         ResumeCloseFull(q) \/ ResumeClose(q) \/ ResumeCloseFreed(q)
  PROVE  ReadersOK(m', NoProc) /\ Less(m, m')
<1> DEFINE c == m.call[q]
           v == c.victim
           i == c.slot
<1>1. m \in State /\ c \in Calls /\ CallOK(m, q)
  BY Fields, Pids DEF Good
<1>2. c.op = "close" /\ m.status[q] = "ready"
  BY DEF ResumeCloseFull, ResumeClose, ResumeCloseFreed, Runs
<1>3. i \in Slots /\ i \in Descriptors /\ v \in Procs /\ v \in All /\ c.fd \in {"in", "out"}
  BY <1>1, <1>2, CallKinds, Pids DEF Descriptors
<1>4. /\ m.status[v] = "zombie" /\ v \notin m.linked
      /\ c.live => Open(m, i) /\ m.pipes[i].in = v
  BY <1>1, <1>2 DEF CallOK, CloseOK
<1>5. Closing(m, q, v) /\ Closes(m, q, v)
  <2>1. Good(m, q)
    BY GoodBut
  <2>2. Closes(m, q, v)
    BY <1>2 DEF Closes
  <2>3. \A p \in All \ {q} : ~ Closes(m, p, v)
    BY <1>3, <2>2, Pids DEF Good
  <2> QED BY <1>2, <1>3, <1>4, <2>1, <2>2, <2>3 DEF Closing
<1>6. \A j \in Slots : ReadBy(m, j, v) => c.fd = "in" /\ c.live /\ j = i
  BY <1>2, Pids DEF ReadersOK, WaitsAt
<1>7. ReadersOK(m, q)
  BY ReadersBut
<1>8. CASE ResumeCloseFull(q)
  <2> DEFINE x  == m.pipes[i].out
             s1 == WakeOther(m, i, x)
             t  == WaitForRoom(s1, q, v, c.fd, i)
  <2>1. c.live /\ CloseWaits(m, v, i) /\ m' = t
    BY <1>8 DEF ResumeCloseFull, Step
  <2>2. Open(m, i)
    BY <1>4, <2>1
  <2>3. x \in Procs \cup {NoProc}
    BY <1>1, <1>3, <2>2, Fields DEF Pipes
  <2> HIDE DEF x
  <2>4. s1 \in State /\ Quiet(m, s1) /\ s1.call = m.call
    BY <1>1, <1>3, <2>2, <2>3, WakeOtherQuiet
  <2> HIDE DEF s1
  <2>5. /\ t \in State /\ Quiet(s1, t)
        /\ \A r \in All \ {q} : t.call[r] = s1.call[r]
    <3>1. Open(s1, i)
      BY <1>3, <2>2, <2>4 DEF Quiet, SameAt
    <3> QED BY <1>3, <2>4, <3>1, WaitQuiet
  <2>6. t.call[q] = CloseCall(v, c.fd, i)
    <3>1. s1.call \in [All -> Calls]
      BY <2>4 DEF State
    <3> QED BY <3>1 DEF WaitForRoom, CloseCall
  <2> HIDE DEF t
  <2>7. Quiet(m, t)
    BY <2>4, <2>5, QuietTransitive
  <2>8. Sheltered(m, t, q)
    BY <2>4, <2>5, <2>7, QuietShelter
  <2>9. ReadersOK(t, q) /\ Less(m, t)
    BY <1>1, <1>7, <2>8, Shelter
  <2>10. \A j \in Slots : ReadBy(t, j, v) => c.fd = "in" /\ j = i
    BY <1>6, <2>8 DEF ReadBy, Sheltered
  <2>11. ReadersOK(t, NoProc)
    <3> HIDE DEF c, v, i
    <3>1. ASSUME NEW r \in All, NEW j \in Slots,
                 t.call[r].op = "close", ReadBy(t, j, t.call[r].victim)
          PROVE  WaitsAt(t.call[r], j)
      <4>1. CASE r = q
        BY <2>6, <2>10, <3>1, <4>1 DEF WaitsAt, CloseCall
      <4>2. CASE r # q
        BY <2>9, <3>1, <4>2 DEF ReadersOK
      <4> QED BY <4>1, <4>2
    <3> QED BY <2>9, <3>1 DEF ReadersOK
  <2> QED BY <2>1, <2>9, <2>11
<1>9. CASE ResumeClose(q)
  <2> DEFINE s1 == close_write(m, i)
  <2>1. c.live /\ ~ CloseWaits(m, v, i) /\ m' = CloseRest(s1, q, v, c.fd)
    BY <1>9 DEF ResumeClose, Step
  <2>2. /\ Open(m, i) /\ m.pipes[i].in = v /\ m.pipes[i] \in Pipes /\ i # Tty
        /\ m.pipes[i].size # PipeSize
    BY <1>1, <1>3, <1>4, <2>1, Fields, NotFile DEF CloseWaits, Open
  <2>3. m.pipes[i].size < PipeSize
    BY <2>2, Sizes DEF Pipes
  <2>4. Ending(m, q, v)
    BY <1>2, <1>5 DEF Ending
  <2>5. m.fds[v].out = i
    BY <1>1, <1>3, <2>2, OneWriter
  <2> HIDE DEF c, v, i
  <2>6. Killing(s1, q, v)
    BY <1>3, <2>2, <2>3, <2>4, CloseWriteLower
  <2>7. Sheltered(m, s1, NoProc) /\ s1.pipes[i].in = NoProc
    BY <1>3, <1>5, <2>2, CloseWriteShelter
  <2> HIDE DEF s1
  <2>8. ReadersOK(s1, q) /\ Less(m, s1)
    BY <1>1, <2>7, Shelter, ReadersBut
  <2>9. \A j \in Slots : ReadBy(s1, j, v) =>
          c.fd = "in" /\ s1.fds[v].out = j /\ s1.pipes[j].in # v
    BY <1>3, <1>6, <2>5, <2>7, Pids DEF ReadBy, Sheltered
  <2>10. IF c.fd = "in" THEN InDone(s1, v) ELSE ReadsNone(s1, v)
    BY <2>9 DEF InDone, ReadsNone
  <2>11. ReadersOK(CloseRest(s1, q, v, c.fd), NoProc) /\ Less(s1, CloseRest(s1, q, v, c.fd))
    BY <2>6, <2>8, <2>10, CloseRestShelter
  <2> QED BY <2>1, <2>8, <2>11, LessTransitive
<1>10. CASE ResumeCloseFreed(q)
  <2>1. ~ c.live /\ (m' = CloseRest(m, q, v, c.fd) \/ m' = m)
    BY <1>10 DEF ResumeCloseFreed, Step, Crash
  <2>2. NobodyWrites(m, v)
    BY <1>3, <1>5, <2>1 DEF Bytes, StrayOK
  <2>3. Killing(m, q, v)
    BY <1>2, <1>5, <2>2 DEF Killing
  <2>4. InDone(m, v) /\ ReadsNone(m, v)
    BY <1>6, <2>1 DEF InDone, ReadsNone
  <2> HIDE DEF c, v, i
  <2>5. ReadersOK(CloseRest(m, q, v, c.fd), NoProc) /\ Less(m, CloseRest(m, q, v, c.fd))
    BY <1>7, <2>3, <2>4, CloseRestShelter
  <2>6. Less(m, m)
    BY DEF Less
  <2> QED BY <2>1, <2>5, <2>6
<1> QED BY <1>8, <1>9, <1>10

LEMMA ProcShelter ==
  ASSUME Good(m, NoProc), Bytes(m), ReadersOK(m, NoProc), ProcNext
  PROVE  ReadersOK(m', NoProc) /\ Less(m, m')
<1>1. PICK p \in Procs :
        \/ \/ \E len \in 1 .. MaxLen : Read(p, len)
           \/ \E n \in 1 .. MaxLen : Write(p, n)
           \/ ResumeWrite(p) \/ ResumeReadFirst(p) \/ ResumeRead(p)
        \/ ResumeWriteReused(p)
        \/ ResumeCloseFull(p) \/ ResumeClose(p) \/ ResumeCloseFreed(p)
        \/ Exit(p)
        \/ \E v \in Procs : Kill(p, v)
        \/ Unblock(p)
  BY DEF ProcNext
<1>2. p \in All /\ m \in State
  BY Pids DEF Good
<1>3. CASE Exit(p)
  <2>1. m.status[p] = "ready" /\ m' = kill_process(m, p, p)
    BY <1>3 DEF Exit, Step
  <2> QED BY <1>2, <2>1, KillShelter
<1>4. ASSUME NEW v \in Procs, Kill(p, v) PROVE ReadersOK(m', NoProc) /\ Less(m, m')
  <2>1. /\ m.status[v] \in {"ready", "blocked"} /\ m.status[p] = "ready"
        /\ m' = kill_process(m, p, v) /\ m.call[p].op = "none"
    BY <1>4 DEF Kill, Step, InUser, Runs, NoCall
  <2> QED BY <1>2, <2>1, KillShelter
<1>5. CASE Unblock(p)
  <2>1. m' = Wake(m, p)
    BY <1>5 DEF Unblock, Step
  <2>2. Quiet(m, m') /\ m'.call = m.call
    BY <1>2, <2>1, WakeQuiet
  <2>3. Sheltered(m, m', NoProc)
    BY <2>2, QuietShelter
  <2> QED BY <1>2, <2>3, Shelter
<1>6. ASSUME Sheltered(m, m', NoProc) PROVE ReadersOK(m', NoProc) /\ Less(m, m')
  BY <1>2, <1>6, Shelter
<1>7. CASE ResumeWriteReused(p)
  <2>1. m' = m
    BY <1>7 DEF ResumeWriteReused, Crash
  <2> QED BY <1>2, <1>6, <2>1, NothingShelter
<1> QED BY <1>1, <1>2, <1>3, <1>4, <1>5, <1>6, <1>7, TransferShelter, CloseStepsShelter

-----------------------------------------------------------------------------
(* The births: a new process reads the pipe of its descriptor 0, if any.   *)
LEMMA EndShelter ==
  ASSUME NEW s \in State, NEW t, NEW i \in Slots, ReadersOK(s, NoProc),
         t.fds = s.fds, t.linked = s.linked, t.call = s.call, t.status = s.status,
         \A j \in Slots \ {i} : t.pipes[j] = s.pipes[j],
         Open(t, i) => ReaderOK(t, i),
         \A w \in Procs : ReadBy(t, i, w) => ReadBy(s, i, w) \/ \A q \in All : ~ Closes(s, q, w)
  PROVE  ReadersOK(t, NoProc)
<1>1. ASSUME NEW j \in Slots, Open(t, j) PROVE ReaderOK(t, j)
  <2>1. CASE j = i
    BY <1>1, <2>1
  <2>2. CASE j # i
    BY <1>1, <2>2 DEF ReadersOK, ReaderOK, Open
  <2> QED BY <2>1, <2>2
<1>2. ASSUME NEW r \in All, NEW j \in Slots,
             t.call[r].op = "close", ReadBy(t, j, t.call[r].victim)
      PROVE  WaitsAt(t.call[r], j)
  <2>1. s.call[r].victim \in Procs /\ Closes(s, r, s.call[r].victim)
    BY <1>2, Fields, CallKinds DEF Closes
  <2>2. ReadBy(s, j, s.call[r].victim)
    <3>1. CASE j = i
      BY <1>2, <2>1, <3>1
    <3>2. CASE j # i
      BY <1>2, <3>2 DEF ReadBy, Open
    <3> QED BY <3>1, <3>2
  <2> QED BY <1>2, <2>2, Pids DEF ReadersOK
<1> QED BY <1>1, <1>2 DEF ReadersOK

LEMMA ExistingShelter ==
  ASSUME NEW s \in State, NEW i \in Slots, ReadersOK(s, NoProc)
  PROVE  LET t == Existing(s, i)
         IN  /\ t \in State /\ Open(t, i) /\ ReadersOK(t, NoProc)
             /\ t.fds = s.fds /\ t.linked = s.linked /\ t.call = s.call /\ t.status = s.status
             /\ SameProcs(s, t)
             /\ \A j \in Slots \ {i} : t.pipes[j] = s.pipes[j]
             /\ Open(s, i) => t = s
             /\ ~ Open(s, i) => t.pipes[i].out = NoProc
<1>1. CASE Open(s, i)
  BY <1>1 DEF Existing, Open, SameProcs
<1>2. CASE ~ Open(s, i)
  <2> DEFINE t == [s EXCEPT !.pipes[i] = create_pipe, !.taken[i] = << >>]
  <2>1. << >> \in Seq(Int) /\ create_pipe \in Pipes /\ create_pipe # NULL
    BY EmptyPipe, NotFile
  <2>2. /\ t \in State /\ t.pipes[i] = create_pipe
        /\ \A j \in Slots \ {i} : t.pipes[j] = s.pipes[j]
        /\ t.status = s.status /\ t.call = s.call /\ t.linked = s.linked /\ t.fds = s.fds
        /\ t.sent = s.sent
    BY <2>1 DEF State
  <2>3. Existing(s, i) = t
    BY <1>2 DEF Existing, Open
  <2> HIDE DEF t
  <2>4. create_pipe.out = NoProc
    BY DEF create_pipe
  <2>5. Open(t, i) /\ t.pipes[i].out = NoProc
    BY <2>1, <2>2, <2>4 DEF Open
  <2>6. ReadersOK(t, NoProc)
    <3>1. ReaderOK(t, i) /\ \A w \in Procs : ~ ReadBy(t, i, w)
      BY <2>5, Pids DEF ReaderOK, ReadBy
    <3> QED BY <2>2, <3>1, EndShelter
  <2>7. SameProcs(s, t)
    BY <2>2 DEF SameProcs
  <2> QED BY <1>2, <2>2, <2>3, <2>5, <2>6, <2>7
<1> QED BY <1>1, <1>2

(* A process that has just been made. *)
JustMade(s, p) ==
  /\ s.status[p] = "ready" /\ p \notin s.linked
  /\ \A q \in All : ~ Closes(s, q, p)
  /\ \A i \in Slots : ReadBy(s, i, p) => s.fds[p].in = i

(* The other pipes have the same readers.                                  *)
NoOthers(s, t, i) ==
  \A j \in Slots \ {i} : /\ Open(t, j) <=> Open(s, j)
                         /\ Open(t, j) => t.pipes[j].out = s.pipes[j].out

LEMMA WakeStands ==
  ASSUME NEW s \in State, NEW i \in Slots, Open(s, i), NEW x \in Procs \cup {NoProc},
         ReadersOK(s, NoProc), NEW p \in Procs, JustMade(s, p)
  PROVE  LET t == WakeOther(s, i, x)
         IN  /\ t \in State /\ ReadersOK(t, NoProc) /\ SameProcs(s, t) /\ JustMade(t, p)
             /\ NoOthers(s, t, i) /\ t.pipes[i].out = s.pipes[i].out
             /\ Open(t, i)
<1> DEFINE t == WakeOther(s, i, x)
<1>1. t \in State /\ Quiet(s, t) /\ t.call = s.call
  BY WakeOtherQuiet
<1>2. \A r \in All : t.status[r] = IF s.pipes[i].blocking /\ r = x /\ s.status[r] = "blocked"
                                     THEN "ready" ELSE s.status[r]
  BY WakeOtherDoes
<1> HIDE DEF t
<1>3. Sheltered(s, t, NoProc)
  BY <1>1, QuietShelter
<1>4. ReadersOK(t, NoProc)
  BY <1>3, Shelter
<1>5. t.status[p] = "ready"
  BY <1>2, Pids DEF JustMade
<1>6. NoOthers(s, t, i) /\ Open(t, i) /\ t.pipes[i].out = s.pipes[i].out
  BY <1>1 DEF NoOthers, Quiet, SameAt, SamePipe
<1>7. JustMade(t, p)
  BY <1>1, <1>3, <1>5 DEF JustMade, Sheltered, ReadBy, Closes
<1> QED BY <1>1, <1>4, <1>5, <1>6, <1>7 DEF Quiet, t

LEMMA OpenReadShelter ==
  ASSUME NEW s \in State, NEW i \in Slots, NEW p \in Procs, ReadersOK(s, NoProc),
         JustMade(s, p), s.fds[p].in = i
  PROVE  LET t == open_read(s, p, i)
         IN  /\ t \in State /\ ReadersOK(t, NoProc) /\ SameProcs(s, t) /\ JustMade(t, p)
             /\ NoOthers(s, t, i) /\ Open(t, i) /\ t.pipes[i].out # NoProc
<1> DEFINE s1 == Existing(s, i)
           s2 == [s1 EXCEPT !.pipes[i].out = p]
           x  == s1.pipes[i].in
           t  == WakeOther(s2, i, x)
<1>1. /\ s1 \in State /\ Open(s1, i) /\ ReadersOK(s1, NoProc)
      /\ s1.fds = s.fds /\ s1.linked = s.linked /\ s1.call = s.call /\ s1.status = s.status
      /\ SameProcs(s, s1)
      /\ \A j \in Slots \ {i} : s1.pipes[j] = s.pipes[j]
      /\ Open(s, i) => s1 = s
      /\ ~ Open(s, i) => s1.pipes[i].out = NoProc
  BY ExistingShelter
<1>2. open_read(s, p, i) =
        IF s1.pipes[i].out \notin {NoProc, p} THEN s1 ELSE IF x = NoProc THEN s2 ELSE t
  BY DEF open_read
<1> HIDE DEF s1
<1>3. s1.pipes[i] \in Pipes /\ x \in Procs \cup {NoProc} /\ p # NoProc /\ p \in All
  BY <1>1, Fields, Pids DEF Pipes
<1>4. SameProcs(s, s1) /\ NoOthers(s, s1, i)
  BY <1>1 DEF NoOthers, Open
<1>5. JustMade(s1, p)
  <2>1. \A j \in Slots : ReadBy(s1, j, p) => ReadBy(s, j, p)
    BY <1>1, <1>3 DEF ReadBy, Open
  <2> QED BY <1>1, <2>1 DEF JustMade, Closes
<1> HIDE DEF x
<1>6. /\ s2 \in State /\ Open(s2, i) /\ s2.pipes[i].out = p /\ s2.call = s1.call
      /\ s2.status = s1.status /\ s2.fds = s1.fds /\ s2.linked = s1.linked
      /\ SameProcs(s1, s2) /\ \A j \in Slots \ {i} : s2.pipes[j] = s1.pipes[j]
  <2> DEFINE new == [s1.pipes[i] EXCEPT !.out = p]
  <2>1. new \in Pipes /\ new.out = p
    BY <1>3 DEF Pipes
  <2>2. s2 = [s1 EXCEPT !.pipes[i] = new]
    OBVIOUS
  <2> HIDE DEF s2, new
  <2> QED BY <1>1, <2>1, <2>2, PipeSet
<1> HIDE DEF s2
<1>7. ReadersOK(s2, NoProc) /\ JustMade(s2, p) /\ NoOthers(s1, s2, i)
  <2>1. ReaderOK(s2, i)
    BY <1>1, <1>5, <1>6 DEF ReaderOK, JustMade
  <2>2. \A w \in Procs : ReadBy(s2, i, w) => \A q \in All : ~ Closes(s1, q, w)
    BY <1>5, <1>6 DEF ReadBy, JustMade
  <2>3. ReadersOK(s2, NoProc)
    BY <1>1, <1>6, <2>1, <2>2, EndShelter
  <2>4. \A j \in Slots : ReadBy(s2, j, p) => s2.fds[p].in = j
    BY <1>1, <1>5, <1>6 DEF JustMade, ReadBy, Open
  <2> QED BY <1>5, <1>6, <2>3, <2>4 DEF JustMade, NoOthers, Open, Closes
<1>8. /\ t \in State /\ ReadersOK(t, NoProc) /\ SameProcs(s2, t) /\ JustMade(t, p)
      /\ NoOthers(s2, t, i) /\ Open(t, i) /\ t.pipes[i].out = p
  BY <1>3, <1>6, <1>7, WakeStands
<1> HIDE DEF t
<1>9. SameProcs(s, s2) /\ SameProcs(s, t) /\ NoOthers(s, s2, i) /\ NoOthers(s, t, i)
  BY <1>4, <1>6, <1>7, <1>8 DEF SameProcs, NoOthers
<1>10. CASE s1.pipes[i].out \notin {NoProc, p}
  BY <1>1, <1>2, <1>4, <1>5, <1>10
<1>11. CASE s1.pipes[i].out \in {NoProc, p}
  BY <1>2, <1>3, <1>6, <1>7, <1>8, <1>9, <1>11
<1> QED BY <1>10, <1>11

LEMMA OpenWriteShelter ==
  ASSUME NEW s \in State, NEW i \in Slots, NEW p \in Procs, ReadersOK(s, NoProc),
         JustMade(s, p)
  PROVE  LET t == open_write(s, p, i)
         IN  /\ ReadersOK(t, NoProc) /\ SameProcs(s, t) /\ NoOthers(s, t, i)
             /\ Open(s, i) => t.pipes[i].out = s.pipes[i].out
<1> DEFINE s1 == Existing(s, i)
           s2 == [s1 EXCEPT !.pipes[i].in = p]
           x  == s1.pipes[i].out
           t  == WakeOther(s2, i, x)
<1>1. /\ s1 \in State /\ Open(s1, i) /\ ReadersOK(s1, NoProc)
      /\ s1.fds = s.fds /\ s1.linked = s.linked /\ s1.call = s.call /\ s1.status = s.status
      /\ SameProcs(s, s1)
      /\ \A j \in Slots \ {i} : s1.pipes[j] = s.pipes[j]
      /\ Open(s, i) => s1 = s
      /\ ~ Open(s, i) => s1.pipes[i].out = NoProc
  BY ExistingShelter
<1>2. open_write(s, p, i) = IF s1.pipes[i].in \notin {NoProc, p} THEN s1 ELSE t
  BY DEF open_write
<1> HIDE DEF s1
<1>3. s1.pipes[i] \in Pipes /\ x \in Procs \cup {NoProc} /\ p # NoProc /\ p \in All
  BY <1>1, Fields, Pids DEF Pipes
<1>4. SameProcs(s, s1) /\ NoOthers(s, s1, i)
  BY <1>1 DEF NoOthers, Open
<1>5. JustMade(s1, p)
  <2>1. \A j \in Slots : ReadBy(s1, j, p) => ReadBy(s, j, p)
    BY <1>1, <1>3 DEF ReadBy, Open
  <2> QED BY <1>1, <2>1 DEF JustMade, Closes
<1>6. /\ s2 \in State /\ Open(s2, i) /\ s2.pipes[i].out = x /\ s2.call = s1.call
      /\ s2.status = s1.status /\ s2.fds = s1.fds /\ s2.linked = s1.linked
      /\ SameProcs(s1, s2) /\ \A j \in Slots \ {i} : s2.pipes[j] = s1.pipes[j]
      /\ s2.pipes[i].in = p
  <2> DEFINE new == [s1.pipes[i] EXCEPT !.in = p]
  <2>1. new \in Pipes /\ new.out = x /\ new.in = p
    BY <1>3 DEF Pipes
  <2>2. s2 = [s1 EXCEPT !.pipes[i] = new]
    OBVIOUS
  <2> HIDE DEF s2, new
  <2> QED BY <1>1, <2>1, <2>2, PipeSet
<1> HIDE DEF s2
<1>7. ReadersOK(s2, NoProc) /\ JustMade(s2, p) /\ NoOthers(s1, s2, i)
  <2>1. ReaderOK(s2, i)
    <3>1. ReaderOK(s1, i)
      BY <1>1 DEF ReadersOK
    <3>2. x = p => s1.fds[p].in = i
      BY <1>1, <1>5 DEF JustMade, ReadBy
    <3> QED BY <1>6, <3>1, <3>2 DEF ReaderOK, x
  <2>2. \A w \in Procs : ReadBy(s2, i, w) => ReadBy(s1, i, w)
    BY <1>1, <1>6 DEF ReadBy, x
  <2>3. ReadersOK(s2, NoProc)
    BY <1>1, <1>6, <2>1, <2>2, EndShelter
  <2>4. \A j \in Slots : ReadBy(s2, j, p) => s2.fds[p].in = j
    BY <1>1, <1>5, <1>6 DEF JustMade, ReadBy, Open, x
  <2> QED BY <1>5, <1>6, <2>3, <2>4 DEF JustMade, NoOthers, Open, Closes
<1> HIDE DEF x
<1>8. /\ t \in State /\ ReadersOK(t, NoProc) /\ SameProcs(s2, t)
      /\ NoOthers(s2, t, i) /\ t.pipes[i].out = x
  BY <1>3, <1>6, <1>7, WakeStands
<1> HIDE DEF t
<1>9. SameProcs(s, t) /\ NoOthers(s, t, i)
  BY <1>4, <1>6, <1>7, <1>8 DEF SameProcs, NoOthers
<1>10. CASE s1.pipes[i].in \notin {NoProc, p}
  BY <1>1, <1>2, <1>4, <1>10
<1>11. CASE s1.pipes[i].in \in {NoProc, p}
  BY <1>1, <1>2, <1>8, <1>9, <1>11 DEF x
<1> QED BY <1>10, <1>11

LEMMA InitShelter ==
  ASSUME NEW s, NEW p \in Procs, NEW in \in Descriptors, NEW out \in Descriptors,
         Good(s, NoProc), ReadersOK(s, NoProc), s.status[p] = "free",
         out = Tty \/ Open(s, out)
  PROVE  LET t == init_process(s, p, in, out)
         IN  /\ ReadersOK(t, NoProc)
             /\ \A r \in Procs \ {p} : s.status[r] = "free" => t.status[r] = "free"
             /\ \A i \in Slots : Open(t, i) /\ t.pipes[i].out = NoProc =>
                  i # in /\ Open(s, i) /\ s.pipes[i].out = NoProc
<1> DEFINE f  == [in |-> in, out |-> out]
           s1 == [s EXCEPT !.status[p] = "ready", !.fds[p] = f]
           s2 == IF in = Tty THEN s1 ELSE open_read(s1, p, in)
           t  == init_process(s, p, in, out)
<1>1. s \in State /\ p \in All /\ p \notin s.linked
  BY FreeIsIdle, Pids DEF Good
<1>2. f \in [in : Descriptors, out : Descriptors] /\ f.in = in
  OBVIOUS
<1>3. t = IF out = Tty THEN s2 ELSE open_write(s2, p, out)
  BY DEF init_process
<1> HIDE DEF f, t
<1>4. /\ s1 \in State /\ s1.status[p] = "ready" /\ s1.pipes = s.pipes
      /\ s1.call = s.call /\ s1.linked = s.linked /\ s1.fds[p] = f
      /\ \A r \in All \ {p} : s1.status[r] = s.status[r] /\ s1.fds[r] = s.fds[r]
  BY <1>1, <1>2 DEF State
<1> HIDE DEF s1
<1>5. ASSUME NEW i \in Slots, Open(s, i) PROVE s.pipes[i].out # p
  BY <1>5, Pids DEF ReadersOK, ReaderOK
<1>6. ReadersOK(s1, NoProc)
  <2>1. ASSUME NEW i \in Slots, Open(s1, i) PROVE ReaderOK(s1, i)
    <3>1. ReaderOK(s, i) /\ s.pipes[i].out \in Procs \cup {NoProc} /\ s.pipes[i].out # p
      BY <1>1, <1>4, <1>5, <2>1, Fields DEF ReadersOK, Open, Pipes
    <3> QED BY <1>4, <3>1, Pids DEF ReaderOK
  <2> QED BY <1>4, <2>1 DEF ReadersOK, ReadBy, Open
<1>7. JustMade(s1, p)
  <2>1. \A q \in All : ~ Closes(s, q, p)
    BY Pids DEF Good, CallOK, CloseOK, Closes
  <2>2. \A i \in Slots : ~ ReadBy(s1, i, p)
    BY <1>4, <1>5 DEF ReadBy, Open
  <2> QED BY <1>1, <1>4, <2>1, <2>2 DEF JustMade, Closes
<1>8. /\ s2 \in State /\ ReadersOK(s2, NoProc) /\ JustMade(s2, p)
      /\ \A r \in All : s2.status[r] = "free" <=> s1.status[r] = "free"
      /\ \A i \in Slots : i = in => s2.pipes[i].out # NoProc
      /\ \A i \in Slots : i # in => (Open(s2, i) => Open(s1, i) /\ s2.pipes[i].out = s1.pipes[i].out)
      /\ out # Tty => Open(s2, out)
  <2>1. CASE in = Tty
    BY <1>4, <1>6, <1>7, <2>1, NotFile DEF Open
  <2>2. CASE in # Tty
    <3>1. in \in Slots /\ s1.fds[p].in = in /\ s2 = open_read(s1, p, in)
      BY <1>2, <1>4, <2>2 DEF Descriptors
    <3> HIDE DEF s2
    <3>2. /\ s2 \in State /\ ReadersOK(s2, NoProc) /\ SameProcs(s1, s2) /\ JustMade(s2, p)
          /\ NoOthers(s1, s2, in) /\ Open(s2, in) /\ s2.pipes[in].out # NoProc
      BY <1>4, <1>6, <1>7, <3>1, OpenReadShelter
    <3>3. ASSUME out # Tty PROVE Open(s2, out)
      BY <1>4, <3>2, <3>3 DEF NoOthers, Open, Descriptors
    <3> QED BY <3>1, <3>2, <3>3 DEF SameProcs, NoOthers
  <2> QED BY <2>1, <2>2
<1> HIDE DEF s2
<1>9. CASE out = Tty
  BY <1>3, <1>4, <1>8, <1>9, Pids DEF Open, t
<1>10. CASE out # Tty
  <2>1. out \in Slots /\ t = open_write(s2, p, out)
    BY <1>3, <1>10 DEF Descriptors
  <2>2. /\ ReadersOK(t, NoProc) /\ SameProcs(s2, t) /\ NoOthers(s2, t, out)
        /\ t.pipes[out].out = s2.pipes[out].out
    BY <1>8, <1>10, <2>1, OpenWriteShelter
  <2> QED BY <1>4, <1>8, <1>10, <2>1, <2>2, Pids DEF SameProcs, NoOthers, Open, t
<1> QED BY <1>9, <1>10

-----------------------------------------------------------------------------
(* What the shell still has to wait for, and the pipe that it has made.    *)
Known(p) ==
  \/ p \in inBack
  \/ sh.at \in {"second", "wait_one"} /\ p = sh.one
  \/ sh.at \in {"wait_one", "wait_two"} /\ p = sh.two

PlaceOK ==
  ~ failed => /\ \A p \in Procs : m.status[p] # "free" => Known(p)
              /\ sh.at = "second" /\ sh.bg => sh.one \in inBack

HasReader ==
  \A i \in Slots :
    Open(m, i) /\ m.pipes[i].out = NoProc =>
      failed \/ (sh.at \in {"first", "second"} /\ sh.slot = i)

LeftInv == ReadersOK(m, NoProc) /\ HasReader /\ PlaceOK

LEMMA LessSteps ==
  ASSUME LeftInv, ReadersOK(m', NoProc), Less(m, m'), UNCHANGED << sh, inBack, failed >>
  PROVE  LeftInv'
<1>1. HasReader'
  BY DEF LeftInv, HasReader, Less, Open
<1>2. PlaceOK'
  BY DEF LeftInv, PlaceOK, Known, Less
<1> QED BY <1>1, <1>2 DEF LeftInv

LEMMA SingleLeaves ==
  ASSUME PipeInv, LeftInv, NEW p \in Procs, NEW bg \in BOOLEAN, Single(p, bg)
  PROVE  LeftInv'
<1>1. /\ m.status[p] = "free" /\ m' = init_process(m, p, Stdin(bg), Tty) /\ sh.at = "prompt"
      /\ sh' = IF bg THEN AtPrompt ELSE [AtPrompt EXCEPT !.at = "wait_two", !.two = p]
      /\ inBack' = IF bg THEN inBack \cup {p} ELSE inBack
      /\ failed' = failed
  BY DEF Single, InShell, InUser, NextFree, Step
<1>2. /\ ReadersOK(m', NoProc)
      /\ \A r \in Procs \ {p} : m.status[r] = "free" => m'.status[r] = "free"
      /\ \A i \in Slots : Open(m', i) /\ m'.pipes[i].out = NoProc =>
           Open(m, i) /\ m.pipes[i].out = NoProc
  BY <1>1, InputOf, InitShelter DEF PipeInv, LeftInv, Descriptors
<1>3. HasReader'
  BY <1>1, <1>2 DEF LeftInv, HasReader, Open
<1>4. \A r \in Procs : m.status[r] # "free" /\ ~ failed => r \in inBack
  BY <1>1 DEF LeftInv, PlaceOK, Known
<1>5. sh'.at # "second" /\ (~ bg => sh'.at = "wait_two" /\ sh'.two = p)
  BY <1>1 DEF AtPrompt
<1>6. PlaceOK'
  <2> SUFFICES ASSUME NEW r \in Procs, m'.status[r] # "free", ~ failed PROVE Known(r)'
    BY <1>1, <1>5 DEF PlaceOK
  <2>1. CASE r = p
    BY <1>1, <1>5, <2>1 DEF Known
  <2>2. CASE r # p
    BY <1>1, <1>2, <1>4, <2>2 DEF Known
  <2> QED BY <2>1, <2>2
<1> QED BY <1>2, <1>3, <1>6 DEF LeftInv

LEMMA GetPipeLeaves ==
  ASSUME PipeInv, LeftInv, NEW bg \in BOOLEAN, GetPipe(bg)
  PROVE  LeftInv'
<1> DEFINE i == FreeFrom(m)
           n == (i + 1) % MaxPipes
<1>1. /\ m' = pipe_get(m) /\ \E j \in Slots : m.pipes[j] = NULL /\ sh.at = "prompt"
      /\ sh' = [AtPrompt EXCEPT !.at = "first", !.bg = bg, !.slot = i]
      /\ inBack' = inBack /\ failed' = failed
  BY DEF GetPipe, InShell, InUser, Step
<1>2. m \in State /\ i \in Slots /\ m.pipes[i] = NULL
  BY <1>1, FreeSlot DEF PipeInv, Good
<1>3. m' = [m EXCEPT !.pipes[i] = create_pipe, !.taken[i] = << >>, !.cursor = n]
  BY <1>1 DEF pipe_get
<1>4. sh'.slot = i /\ sh'.at = "first"
  BY <1>1 DEF AtPrompt
<1> HIDE DEF i, n
<1>5. /\ m'.pipes[i] = create_pipe /\ m'.fds = m.fds /\ m'.linked = m.linked
      /\ m'.call = m.call /\ m'.status = m.status
      /\ \A j \in Slots \ {i} : m'.pipes[j] = m.pipes[j]
  BY <1>2, <1>3 DEF State
<1>6. create_pipe.out = NoProc
  BY DEF create_pipe
<1>7. ReadersOK(m', NoProc)
  <2>1. ReaderOK(m', i) /\ \A w \in Procs : ~ ReadBy(m', i, w)
    BY <1>5, <1>6, Pids DEF ReaderOK, ReadBy
  <2> QED BY <1>2, <1>5, <2>1, EndShelter DEF LeftInv
<1>8. HasReader'
  BY <1>1, <1>4, <1>5 DEF LeftInv, HasReader, Open
<1>9. PlaceOK'
  BY <1>1, <1>4, <1>5 DEF LeftInv, PlaceOK, Known
<1> QED BY <1>7, <1>8, <1>9 DEF LeftInv

LEMMA FirstLeaves ==
  ASSUME PipeInv, ByteInv, LeftInv, NEW p \in Procs, CreateFirst(p)
  PROVE  LeftInv'
<1>1. /\ m.status[p] = "free" /\ sh.at = "first"
      /\ m' = init_process(m, p, Stdin(sh.bg), sh.slot)
      /\ sh' = [sh EXCEPT !.at = "second", !.one = p]
      /\ inBack' = IF sh.bg THEN inBack \cup {p} ELSE inBack
      /\ failed' = failed
  BY DEF CreateFirst, InShell, InUser, NextFree, Step
<1>2. sh.bg \in BOOLEAN /\ sh.slot \in Descriptors /\ Open(m, sh.slot)
  BY <1>1 DEF PipeInv, ByteInv, FirstOK, Untouched, ShellOK, Descriptors
<1>3. sh'.at = "second" /\ sh'.one = p /\ sh'.slot = sh.slot /\ sh'.bg = sh.bg
  BY <1>1 DEF PipeInv, ShellOK
<1>4. /\ ReadersOK(m', NoProc)
      /\ \A r \in Procs \ {p} : m.status[r] = "free" => m'.status[r] = "free"
      /\ \A i \in Slots : Open(m', i) /\ m'.pipes[i].out = NoProc =>
           Open(m, i) /\ m.pipes[i].out = NoProc
  BY <1>1, <1>2, InputOf, InitShelter DEF PipeInv, LeftInv
<1>5. HasReader'
  BY <1>1, <1>3, <1>4 DEF LeftInv, HasReader, Open
<1>6. \A r \in Procs : m.status[r] # "free" /\ ~ failed => r \in inBack
  BY <1>1 DEF LeftInv, PlaceOK, Known
<1>7. PlaceOK'
  BY <1>1, <1>3, <1>4, <1>6 DEF PlaceOK, Known
<1> QED BY <1>4, <1>5, <1>7 DEF LeftInv

LEMMA SecondLeaves ==
  ASSUME PipeInv, LeftInv, NEW p \in Procs, CreateSecond(p)
  PROVE  LeftInv'
<1>1. /\ m.status[p] = "free" /\ sh.at = "second"
      /\ m' = init_process(m, p, sh.slot, Tty)
      /\ sh' = IF sh.bg THEN AtPrompt ELSE [sh EXCEPT !.at = "wait_one", !.two = p]
      /\ inBack' = IF sh.bg THEN inBack \cup {p} ELSE inBack
      /\ failed' = failed
  BY DEF CreateSecond, InShell, InUser, NextFree, Step
<1>2. sh.slot \in Descriptors /\ Tty \in Descriptors /\ sh.bg \in BOOLEAN
  BY <1>1 DEF PipeInv, ShellOK, Descriptors
<1>3. /\ ~ sh.bg => sh'.at = "wait_one" /\ sh'.one = sh.one /\ sh'.two = p
      /\ sh'.at # "second"
  BY <1>1 DEF PipeInv, ShellOK, AtPrompt
<1>4. /\ ReadersOK(m', NoProc)
      /\ \A r \in Procs \ {p} : m.status[r] = "free" => m'.status[r] = "free"
      /\ \A i \in Slots : Open(m', i) /\ m'.pipes[i].out = NoProc =>
           i # sh.slot /\ Open(m, i) /\ m.pipes[i].out = NoProc
  BY <1>1, <1>2, InitShelter DEF PipeInv, LeftInv
<1>5. HasReader'
  BY <1>1, <1>4 DEF LeftInv, HasReader, Open
<1>6. ASSUME NEW r \in Procs, m.status[r] # "free", ~ failed
      PROVE  r \in inBack \/ (r = sh.one /\ ~ sh.bg)
  BY <1>1, <1>6 DEF LeftInv, PlaceOK, Known
<1>7. PlaceOK'
  BY <1>1, <1>3, <1>4, <1>6 DEF PlaceOK, Known
<1> QED BY <1>4, <1>5, <1>7 DEF LeftInv

LEMMA FailLeaves ==
  ASSUME PipeInv, ByteInv, LeftInv, FirstFails \/ SecondFails
  PROVE  LeftInv'
<1>1. failed' /\ m.status[Shell] = "ready" /\ m.call[Shell].op = "none"
  BY DEF FirstFails, SecondFails, InShell, InUser, Runs, NoCall
<1>2. ReadersOK(m', NoProc)
  <2>1. Bytes(m) /\ Good(m, NoProc) /\ ReadersOK(m, NoProc)
    BY DEF PipeInv, ByteInv, LeftInv
  <2>2. CASE m' # m
    <3>1. SecondFails /\ m.status[sh.one] # "zombie" /\ m' = kill_process(m, Shell, sh.one)
      BY <2>2 DEF FirstFails, SecondFails, Step
    <3>2. sh.one \in Procs
      BY <3>1 DEF PipeInv, ShellOK, SecondFails, InShell
    <3> QED BY <1>1, <2>1, <3>1, <3>2, KillShelter, Pids
  <2> QED BY <2>1, <2>2
<1> QED BY <1>1, <1>2 DEF LeftInv, HasReader, PlaceOK

LEMMA ReapedLeaves ==
  ASSUME PipeInv, LeftInv, Reaped, Awaited \in m.linked, sh.at \in {"wait_one", "wait_two"}
  PROVE  LeftInv'
<1> DEFINE a == Awaited
<1>1. /\ m' = free_process([Return(m, Shell) EXCEPT !.waits = NoProc], a)
      /\ sh' = IF sh.at = "wait_one" THEN [sh EXCEPT !.at = "wait_two"] ELSE AtPrompt
      /\ a \in m.linked /\ inBack' = inBack /\ failed' = failed
      /\ a = IF sh.at = "wait_one" THEN sh.one ELSE sh.two
  BY DEF Reaped, Step, Awaited
<1> HIDE DEF a
<1>2. m \in State /\ Good(m, NoProc) /\ a \in Procs /\ a \in All
  BY <1>1, Pids DEF PipeInv, Good, State
<1>3. /\ m' \in State /\ m'.pipes = m.pipes /\ m'.linked = m.linked \ {a}
      /\ m'.status[a] = "free" /\ m'.call[Shell] = NoCall
      /\ \A r \in All \ {a} : m'.status[r] = m.status[r] /\ m'.fds[r] = m.fds[r]
      /\ \A r \in All \ {Shell} : m'.call[r] = m.call[r]
  BY <1>1, <1>2, ReapDoes
<1>4. ReadersOK(m', NoProc)
  <2>1. ASSUME NEW i \in Slots, Open(m', i) PROVE ReaderOK(m', i)
    <3>1. ReaderOK(m, i) /\ m.pipes[i].out \in Procs \cup {NoProc}
      BY <1>2, <1>3, <2>1, Fields DEF LeftInv, ReadersOK, Open, Pipes
    <3> QED BY <1>1, <1>3, <3>1, Pids DEF ReaderOK
  <2>2. \A r \in All : m'.call[r].op = "close" => m'.call[r] = m.call[r]
    BY <1>3 DEF NoCall
  <2> QED BY <1>3, <2>1, <2>2 DEF LeftInv, ReadersOK, ReadBy, Open
<1>5. HasReader'
  BY <1>1, <1>3 DEF LeftInv, HasReader, Open
<1>6. /\ sh.at = "wait_one" => sh'.at = "wait_two" /\ sh'.two = sh.two
      /\ sh.at = "wait_two" => sh'.at = "prompt"
  BY <1>1 DEF PipeInv, ShellOK, AtPrompt
<1>7. PlaceOK'
  BY <1>1, <1>2, <1>3, <1>6, Pids DEF LeftInv, PlaceOK, Known
<1> QED BY <1>4, <1>5, <1>7 DEF LeftInv

LEMMA WaitLeaves ==
  ASSUME PipeInv, LeftInv, WaitZombie \/ WaitHalfDead \/ WaitBlock \/ WaitReturn
  PROVE  LeftInv'
<1>1. m \in State /\ Good(m, NoProc) /\ ReadersOK(m, NoProc)
  BY DEF PipeInv, LeftInv, Good
<1>2. CASE WaitZombie
  BY <1>2, ReapedLeaves DEF WaitZombie, InWait
<1>3. CASE WaitHalfDead
  <2>1. m' = m /\ UNCHANGED << sh, inBack, failed >>
    BY <1>3 DEF WaitHalfDead, Crash
  <2> QED BY <1>1, <2>1, LessSteps DEF Less
<1>4. CASE WaitBlock
  <2> DEFINE a == Awaited
  <2>1. /\ m.status[Shell] = "ready" /\ sh.at \in {"wait_one", "wait_two"}
        /\ m' = [Block(m, Shell) EXCEPT !.waits = a,
                                        !.call[Shell] = [op |-> "waitpid", slot |-> Tty]]
        /\ UNCHANGED << sh, inBack, failed >>
    BY <1>4 DEF WaitBlock, InWait, InUser, Runs, Step
  <2>2. a \in Procs
    BY <2>1 DEF PipeInv, ShellOK, Awaited
  <2> HIDE DEF a
  <2>3. /\ m' \in State /\ m'.pipes = m.pipes /\ m'.linked = m.linked /\ m'.fds = m.fds
        /\ m'.call[Shell] = [op |-> "waitpid", slot |-> Tty]
        /\ \A r \in All \ {Shell} : m'.status[r] = m.status[r] /\ m'.call[r] = m.call[r]
    BY <1>1, <2>1, <2>2, WaitBlockDoes, Zenon
  <2>4. \A p \in Procs : m'.status[p] = m.status[p]
    BY <2>3, Pids
  <2>5. \A r \in All : m'.call[r].op = "close" => m'.call[r] = m.call[r]
    BY <2>3
  <2>6. Sheltered(m, m', NoProc)
    BY <2>3, <2>4, <2>5 DEF Sheltered, Open
  <2> QED BY <1>1, <2>1, <2>6, Shelter, LessSteps
<1>5. CASE WaitReturn
  <2>1. Reaped /\ m.status[Shell] = "ready" /\ m.call[Shell].op = "waitpid"
    BY <1>5 DEF WaitReturn, Runs
  <2>2. sh.at \in {"wait_one", "wait_two"} /\ m.waits = Awaited
    BY <2>1 DEF PipeInv, ShellOK
  <2>3. m.waits \in m.linked
    BY <1>1, <2>1, Pids DEF Good, CallOK, WaitOK
  <2> QED BY <2>1, <2>2, <2>3, ReapedLeaves
<1> QED BY <1>2, <1>3, <1>4, <1>5

LEMMA EveryStepLeaves ==
  ASSUME PipeInv, ByteInv, LeftInv, [Whole]_shellVars, cut = {}
  PROVE  LeftInv'
<1>1. Bytes(m) /\ Good(m, NoProc) /\ ReadersOK(m, NoProc)
  BY DEF PipeInv, ByteInv, LeftInv
<1>2. CASE ProcNext /\ UNCHANGED << sh, inBack, failed >>
  BY <1>1, <1>2, ProcShelter, LessSteps
<1>3. CASE ShellResumes
  BY <1>1, <1>3, CloseStepsShelter, LessSteps, Pids DEF ShellResumes
<1>4. CASE UNCHANGED shellVars
  <2>1. m' = m /\ UNCHANGED << sh, inBack, failed >>
    BY <1>4 DEF shellVars
  <2> QED BY <1>1, <2>1, LessSteps DEF Less
<1>5. CASE ShellNext /\ ~ ShellResumes
  BY <1>5, SingleLeaves, GetPipeLeaves, FirstLeaves, SecondLeaves, FailLeaves, WaitLeaves,
     NoWaitCut DEF ShellNext
<1> QED BY <1>2, <1>3, <1>4, <1>5 DEF Whole

LEMMA LeavesStart ==
  ASSUME ShellInit
  PROVE  LeftInv
<1>1. /\ m.pipes = [i \in Slots |-> NULL]
      /\ m.call = [p \in All |-> NoCall]
      /\ m.status = [p \in All |-> IF p = Shell THEN "ready" ELSE "free"]
      /\ sh = AtPrompt
  BY DEF ShellInit, Init
<1>2. \A i \in Slots : ~ Open(m, i)
  BY <1>1 DEF Open
<1>3. \A p \in Procs : m.status[p] = "free"
  BY <1>1, Pids
<1>4. \A p \in All : m.call[p].op # "close"
  BY <1>1 DEF NoCall
<1> QED BY <1>1, <1>2, <1>3, <1>4 DEF LeftInv, ReadersOK, HasReader, PlaceOK, AtPrompt

LEMMA NothingLeft ==
  ASSUME PipeInv, LeftInv
  PROVE  PromptLeavesNothing
<1> SUFFICES ASSUME sh.at = "prompt", ~ failed
             PROVE  /\ \A p \in Procs : m.status[p] # "free" => p \in inBack
                    /\ \A i \in Slots :
                         m.pipes[i] # NULL =>
                           \E p \in Procs :
                             /\ m.pipes[i].out = p
                             /\ m.status[p] \in {"ready", "blocked"} \/ HalfDead(p)
  BY DEF PromptLeavesNothing
<1>1. \A p \in Procs : m.status[p] # "free" => p \in inBack
  BY DEF LeftInv, PlaceOK, Known
<1>2. ASSUME NEW i \in Slots, m.pipes[i] # NULL
      PROVE  \E p \in Procs : /\ m.pipes[i].out = p
                              /\ m.status[p] \in {"ready", "blocked"} \/ HalfDead(p)
  <2> DEFINE p == m.pipes[i].out
  <2>1. m \in State /\ Open(m, i)
    BY <1>2 DEF PipeInv, Good, Open
  <2>2. p \in Procs \cup {NoProc} /\ p # NoProc
    BY <2>1, Fields DEF Pipes, LeftInv, HasReader
  <2>3. m.status[p] # "free" /\ p \notin m.linked
    BY <2>1, <2>2 DEF LeftInv, ReadersOK, ReaderOK
  <2>4. m.status[p] \in {"free", "ready", "blocked", "zombie"}
    BY <2>1, <2>2, Pids DEF State
  <2> QED BY <2>2, <2>3, <2>4 DEF HalfDead
<1> QED BY <1>1, <1>2

(* PromptLeavesNothing.  When the shell is back at its prompt (shell.c),   *)
(* only background commands are in the process table, and every pipe that  *)
(* is still open has a reader whose death will free it: for every order in *)
(* which the two ends of a pipeline are made, killed and reaped.           *)
THEOREM PromptIsClean == Spec => []PromptLeavesNothing
<1> DEFINE I == cut = {} => PipeInv /\ ByteInv /\ LeftInv
<1>1. ShellInit => I
  BY PipeStart, BytesStart, LeavesStart
<1>2. I /\ [Next]_shellVars => I'
  BY UncutStep, PipeStep, EveryStep, EveryStepLeaves DEF ByteStep
<1>3. I => PromptLeavesNothing
  <2>1. CASE cut = {}
    BY <2>1, NothingLeft
  <2>2. CASE cut # {}
    BY <2>2 DEF PromptLeavesNothing
  <2> QED BY <2>1, <2>2
<1> HIDE DEF I
<1> QED BY <1>1, <1>2, <1>3, PTL DEF Spec
=============================================================================
