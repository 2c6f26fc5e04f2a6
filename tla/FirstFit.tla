------------------------------ MODULE FirstFit ------------------------------
(***************************************************************************)
(* The kernel's default heap (Kernel/memory/firstFitMemory.c): a circular  *)
(* list of free blocks, sorted by address, that starts at a sentinel.  An  *)
(* address is a unit of sizeof(MemBlock) bytes; the heap is the units 1 to *)
(* Units, and the sentinel, a kernel variable, lies below them.            *)
(*                                                                         *)
(* Only headers are represented: size is defined where a block starts and  *)
(* next where a free block does, so that following any other pointer is an *)
(* error of the evaluation.  mm_alloc and mm_free run with interrupts off; *)
(* their loops are cut into steps, which op follows.                       *)
(***************************************************************************)
EXTENDS Naturals, FiniteSets

CONSTANTS
  Units,        \* totalUnits
  BLOCK_SIZE,   \* sizeof(MemBlock)
  Sizes         \* bound of the model: the requests, in bytes

MIN_BLOCK_UNITS == 2

ASSUME UnitsAssumption == Units \in Nat /\ Units >= MIN_BLOCK_UNITS
ASSUME BlockAssumption == BLOCK_SIZE \in Nat \ {0}
ASSUME SizesAssumption == Sizes \subseteq Nat \ {0}

VARIABLES
  size,         \* size[a]: blockSize of the block at a
  next,         \* next[a]: what follows the free block at a
  freeList,     \* where the next search begins
  freeMemory,   \* in units
  used,         \* the blocks that clients hold
  op            \* the call that runs

vars == << size, next, freeList, freeMemory, used, op >>

Sentinel == 0
Free     == DOMAIN next \ {Sentinel}

(* op.at: "idle", "search" in mm_alloc, "walk" in mm_free; bytes and need  *)
(* are the request, block what is freed, prev and cur the loop variables.  *)
Idle == [at |-> "idle", bytes |-> 0, need |-> 0,
         block |-> Sentinel, prev |-> Sentinel, cur |-> Sentinel]

Write(f, a, v) == [x \in DOMAIN f \cup {a} |-> IF x = a THEN v ELSE f[x]]
Forget(f, a)   == [x \in DOMAIN f \ {a} |-> f[x]]

(* mm_init *)
Init ==
  /\ size = [a \in {Sentinel, 1} |-> IF a = 1 THEN Units ELSE 0]
  /\ next = [a \in {Sentinel, 1} |-> IF a = 1 THEN Sentinel ELSE 1]
  /\ freeList = Sentinel
  /\ freeMemory = Units
  /\ used = {}
  /\ op = Idle

-----------------------------------------------------------------------------
(* mm_alloc.  The sum is of 64 bits, as sizeof is: it does not wrap. *)
bytesToUnits(bytes) == (bytes + BLOCK_SIZE - 1) \div BLOCK_SIZE

UnitsFor(bytes) ==
  LET n == bytesToUnits(bytes) + 1
  IN  IF n < MIN_BLOCK_UNITS THEN MIN_BLOCK_UNITS ELSE n

mm_alloc(bytes) ==
  /\ op.at = "idle"
  /\ op' = [Idle EXCEPT !.at = "search", !.bytes = bytes, !.need = UnitsFor(bytes),
                        !.prev = freeList, !.cur = next[freeList]]
  /\ UNCHANGED << size, next, freeList, freeMemory, used >>

Searching == op.at = "search"

(* current is too small, and not where the search began. *)
SearchOn ==
  /\ Searching
  /\ size[op.cur] < op.need
  /\ op.cur # freeList
  /\ op' = [op EXCEPT !.prev = op.cur, !.cur = next[op.cur]]
  /\ UNCHANGED << size, next, freeList, freeMemory, used >>

NoBlockFound ==
  /\ Searching
  /\ size[op.cur] < op.need
  /\ op.cur = freeList
  /\ op' = Idle
  /\ UNCHANGED << size, next, freeList, freeMemory, used >>

Granted(a) ==
  /\ freeList' = op.prev
  /\ freeMemory' = freeMemory - op.need
  /\ used' = used \cup {a}
  /\ op' = Idle

ExactFit ==
  /\ Searching
  /\ size[op.cur] = op.need
  /\ next' = Forget(Write(next, op.prev, next[op.cur]), op.cur)
  /\ Granted(op.cur)
  /\ UNCHANGED size

(* Mutant: the block that is split keeps its size.                         *)
Split_KeepsSize ==
  LET rest == size[op.cur] - op.need
  IN  /\ Searching
      /\ size[op.cur] > op.need
      /\ size' = Write(size, op.cur + rest, op.need)
      /\ Granted(op.cur + rest)
      /\ UNCHANGED next

(* The end of the block is given away; what is before it stays listed.     *)
Split ==
  LET rest == size[op.cur] - op.need
  IN  /\ Searching
      /\ size[op.cur] > op.need
      /\ size' = Write(Write(size, op.cur, rest), op.cur + rest, op.need)
      /\ Granted(op.cur + rest)
      /\ UNCHANGED next

-----------------------------------------------------------------------------
(* mm_free *)
mm_free(a) ==
  /\ op.at = "idle"
  /\ a \in used
  /\ freeMemory' = freeMemory + size[a]
  /\ op' = [Idle EXCEPT !.at = "walk", !.block = a, !.cur = freeList]
  /\ UNCHANGED << size, next, freeList, used >>

Walking == op.at = "walk"

(* Mutant: at the end of the list the block is not compared with the last. *)
BelongsAfter_AnyEnd(b, c) == (b > c /\ b < next[c]) \/ c >= next[c]

(* Mutant: the place where the order wraps is not recognized.             *)
BelongsAfter_NoEnd(b, c) == b > c /\ b < next[c]

(* The block b goes between c and its successor: in address order, or at   *)
(* the place where the order wraps.                                        *)
BelongsAfter(b, c) ==
  \/ b > c /\ b < next[c]
  \/ c >= next[c] /\ (b > c \/ b < next[c])

WalkOn ==
  /\ Walking
  /\ ~ BelongsAfter(op.block, op.cur)
  /\ op' = [op EXCEPT !.cur = next[op.cur]]
  /\ UNCHANGED << size, next, freeList, freeMemory, used >>

(* Joined with the block after it, and then with the one before it, when   *)
(* they touch.                                                             *)
Link ==
  LET b == op.block
      c == op.cur
      n == next[c]
      joinsNext == b + size[b] = n
      joinsPrev == c + size[c] = b
      whole == IF joinsNext THEN size[b] + size[n] ELSE size[b]
      after == IF joinsNext THEN next[n] ELSE n
      size1 == Write(IF joinsNext THEN Forget(size, n) ELSE size, b, whole)
      next1 == Write(IF joinsNext THEN Forget(next, n) ELSE next, b, after)
  IN  /\ Walking
      /\ BelongsAfter(b, c)
      /\ IF joinsPrev
           THEN /\ size' = Forget(Write(size1, c, size[c] + whole), b)
                /\ next' = Forget(Write(next1, c, after), b)
                /\ freeList' = c
           ELSE /\ size' = size1
                /\ next' = Write(next1, c, b)
                /\ freeList' = b
      /\ used' = used \ {b}
      /\ op' = Idle
      /\ UNCHANGED freeMemory

Loops == SearchOn \/ NoBlockFound \/ ExactFit \/ Split \/ WalkOn \/ Link

Next ==
  \/ \E bytes \in Sizes : mm_alloc(bytes)
  \/ \E a \in used : mm_free(a)
  \/ Loops

Spec == Init /\ [][Next]_vars

-----------------------------------------------------------------------------
Held == {[at |-> a, len |-> size[a]] : a \in used}

(* No two blocks, free or held, overlap, and all lie in the heap: no split *)
(* or join makes a header inside another block or past the end.            *)
BlocksApart ==
  \A a, b \in DOMAIN size :
    /\ a + size[a] <= Units + 1
    /\ a < b => a + size[a] <= b

(* Between two calls the free list is a cycle through the sentinel and all *)
(* free blocks in address order, no two of them touch, every unit is in a  *)
(* block, and mm_get_stats tells how many are free.                        *)
FreeListExact ==
  op.at = "idle" =>
    /\ DOMAIN size = DOMAIN next \cup used
    /\ \A a \in Free : a \notin used /\ a + size[a] # next[a]
    /\ \A a \in DOMAIN next :
         \/ next[a] > a /\ \A c \in Free : ~ (a < c /\ c < next[a])
         \/ next[a] = Sentinel /\ \A c \in Free : c <= a
    /\ \A u \in 1 .. Units : \E a \in DOMAIN size : a <= u /\ u < a + size[a]
    /\ freeList \in DOMAIN next
    /\ freeMemory = Cardinality({u \in 1 .. Units : \E a \in Free : a <= u /\ u < a + size[a]})
=============================================================================
