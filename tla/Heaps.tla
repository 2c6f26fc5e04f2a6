------------------------------- MODULE Heaps -------------------------------
(***************************************************************************)
(* The heap of a kernel: the Makefile builds one of the two managers into  *)
(* it, first-fit or buddy, behind the interface of memoryManagerInterface. *)
(* The state of the manager that is not built in stays as it began.        *)
(***************************************************************************)
EXTENDS FirstFit, Integers

CONSTANTS
  Managers,         \* "FIRSTFIT" and "BUDDY", the values of the Makefile's MM
  Pages, BaseFrame, MAX_ORDER, PAGE_SIZE, Word,     \* Buddy's constants
  PageRequests      \* bound of the model: requests to the buddy heap, in bytes

ASSUME PagesAssumption ==
  /\ Pages \in Nat \ {0} /\ BaseFrame \in Nat /\ MAX_ORDER \in Nat
  /\ PAGE_SIZE \in Nat \ {0} /\ Word \in Nat \ {0}
ASSUME PageRequestsAssumption == PageRequests \subseteq Nat \ {0}

VARIABLES
  mm,                                               \* the manager
  free, order, lists, count, pagesUsed, pagesOp     \* Buddy's state

B == INSTANCE Buddy WITH used <- pagesUsed, op <- pagesOp, Sizes <- PageRequests

buddyVars == << free, order, lists, count, pagesUsed, pagesOp >>

heapVars == << mm, vars, buddyVars >>

HeapInit == mm \in Managers /\ Init /\ B!Init

FirstFitRuns == mm = "FIRSTFIT" /\ UNCHANGED << mm, buddyVars >>
BuddyRuns    == mm = "BUDDY" /\ UNCHANGED << mm, vars >>

HeapNext == (FirstFitRuns /\ Next) \/ (BuddyRuns /\ B!Next)

(* The loops of a call run on: nothing interrupts them. *)
HeapSpec ==
  /\ HeapInit /\ [][HeapNext]_heapVars
  /\ WF_heapVars(FirstFitRuns /\ Loops)
  /\ WF_heapVars(BuddyRuns /\ B!Loops)

-----------------------------------------------------------------------------
(* A block of units is taken anywhere, a block of pages where its order    *)
(* aligns it.                                                              *)
AnyUnit(bytes) == 1 .. Units

PagesGiven(bytes) == B!PagesOf[B!OrderFor(bytes)]

AlignedPages(bytes) ==
  {p \in B!Page : B!OrderFor(bytes) <= MAX_ORDER /\ (BaseFrame + p) % PagesGiven(bytes) = 0}

UnitBlocks == INSTANCE Allocator WITH
  Places <- 1 .. Units, UnitBytes <- BLOCK_SIZE, Header <- 1,
  Length <- UnitsFor, Starts <- AnyUnit,
  held <- Held, asked <- op.bytes

PageBlocks == INSTANCE Allocator WITH
  Places <- 0 .. Pages - 1, UnitBytes <- PAGE_SIZE, Header <- 0,
  Length <- PagesGiven, Starts <- AlignedPages,
  held <- B!Held, asked <- pagesOp.bytes

(* Both managers are allocators: the blocks that are held never overlap,   *)
(* each has room for its request, and a request fails only when no place   *)
(* is left, whatever the order of the calls before it.                     *)
HeapAllocates == UnitBlocks!Spec /\ PageBlocks!Spec

(* A request near 2^32 bytes wraps in mm_alloc of the buddy heap.          *)
NoPageWrap == \A bytes \in PageRequests : bytes + PAGE_SIZE - 1 < Word

Busy == IF mm = "FIRSTFIT" THEN op.at # "idle" ELSE pagesOp.at # "idle"

(* Every call returns: the searches of mm_alloc and mm_free go round the   *)
(* circular list from freeList, wherever a removal or a join has left it.  *)
CallsReturn == Busy ~> ~ Busy

(* The buddy heap's lists, flags, orders and counts agree (Buddy).         *)
PagesExact == B!PagesExact
=============================================================================
