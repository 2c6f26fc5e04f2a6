------------------------------- MODULE Buddy -------------------------------
(***************************************************************************)
(* The buddy heap (Kernel/memory/buddyMemory.c, `make buddy`): page frames *)
(* with a free flag and an order, and one free list per order.  A page is  *)
(* its index in buddy_pages; its frame number is BaseFrame more, and the   *)
(* buddies are paired by frame number.  A free list is the sequence of the *)
(* pages in it; list_del finds its node in whichever list it is.           *)
(*                                                                         *)
(* mm_alloc, mm_free and mm_init's buddy_add_memory run alone; their loops *)
(* are cut into steps, which op follows.                                   *)
(***************************************************************************)
EXTENDS Integers, Sequences, FiniteSets

CONSTANTS
  Pages,        \* total_pages
  BaseFrame,    \* heap_base / PAGE_SIZE
  MAX_ORDER,
  PAGE_SIZE,
  Word,         \* 2^32, where uint32_t wraps
  Sizes         \* bound of the model: the requests, in bytes

VARIABLES
  free,         \* the pages with PAGE_FREE_FLAG
  order,        \* order[p]: page->order
  lists,        \* lists[o]: free_lists[o]
  count,        \* count[o]: free_block_count
  used,         \* the first pages of the blocks that clients hold
  op            \* the call that runs

vars == << free, order, lists, count, used, op >>

Page   == 0 .. Pages - 1
Orders == 0 .. MAX_ORDER
NoPage == -1

(* op.at: "adding" in buddy_add_memory, "request" and "split" in mm_alloc, *)
(* "join" in buddy_free_pages, "idle".  bytes is the request, block what   *)
(* mm_free was given, page and order the loop variables, target the order  *)
(* that is wanted, left the pages that mm_init has still to add.           *)
Idle == [at |-> "idle", bytes |-> 0, block |-> NoPage, page |-> NoPage,
         order |-> 0, target |-> 0, left |-> 0]

(* mm_init, before buddy_add_memory *)
Init ==
  /\ free = {}
  /\ order = [p \in Page |-> 0]
  /\ lists = [o \in Orders |-> << >>]
  /\ count = [o \in Orders |-> 0]
  /\ used = {}
  /\ op = [Idle EXCEPT !.at = "adding", !.page = 0, !.left = Pages]

(* The pages of a block of order o: 1UL << o. *)
PagesOf[o \in Nat] == IF o = 0 THEN 1 ELSE 2 * PagesOf[o - 1]

Block(p, o) == p .. p + PagesOf[o] - 1

-----------------------------------------------------------------------------
list_add(q, p) == << p >> \o q

list_del(q, p) ==
  IF \E i \in 1 .. Len(q) : q[i] = p
    THEN LET at == CHOOSE i \in 1 .. Len(q) : q[i] = p
         IN  [j \in 1 .. Len(q) - 1 |-> IF j < at THEN q[j] ELSE q[j + 1]]
    ELSE q

add_to_free_list(p, o) ==
  /\ lists' = [lists EXCEPT ![o] = list_add(@, p)]
  /\ count' = [count EXCEPT ![o] = @ + 1]
  /\ order' = [q \in Page |-> IF q \in Block(p, o) THEN o ELSE order[q]]
  /\ free' = free \cup Block(p, o)

del_from_free_list(p, o) ==
  /\ lists' = [l \in Orders |-> list_del(lists[l], p)]
  /\ count' = [count EXCEPT ![o] = @ - 1]
  /\ free' = free \ Block(p, o)

get_buddy(p, o) ==
  LET frame == BaseFrame + p
  IN  IF (frame \div PagesOf[o]) % 2 = 0 THEN p + PagesOf[o] ELSE p - PagesOf[o]

(* Mutant: the buddy's order is not compared.                              *)
Joins_AnyOrder(p, o) ==
  /\ o < MAX_ORDER
  /\ get_buddy(p, o) \in Page
  /\ get_buddy(p, o) \in free

Joins(p, o) ==
  /\ o < MAX_ORDER
  /\ get_buddy(p, o) \in Page
  /\ get_buddy(p, o) \in free
  /\ order[get_buddy(p, o)] = o

(* buddy_free_pages: one turn of its loop, *)
Join ==
  LET b == get_buddy(op.page, op.order)
  IN  /\ op.at = "join"
      /\ Joins(op.page, op.order)
      /\ del_from_free_list(b, op.order)
      /\ op' = [op EXCEPT !.page = IF b < @ THEN b ELSE @, !.order = @ + 1]
      /\ UNCHANGED << order, used >>

(* and its end.  In buddy_add_memory the next block follows. *)
Joined ==
  /\ op.at = "join"
  /\ ~ Joins(op.page, op.order)
  /\ add_to_free_list(op.page, op.order)
  /\ used' = used \ {op.block}
  /\ op' = IF op.left = 0 THEN Idle
           ELSE [Idle EXCEPT !.at = "adding", !.page = Pages - op.left, !.left = op.left]

(* buddy_add_memory: the largest block that is aligned and still fits. *)
AddBlock ==
  LET fits(o) == (BaseFrame + op.page) % PagesOf[o] = 0 /\ op.left >= PagesOf[o]
      o == CHOOSE x \in Orders : fits(x) /\ \A y \in Orders : fits(y) => y <= x
  IN  /\ op.at = "adding"
      /\ op' = [Idle EXCEPT !.at = "join", !.page = op.page, !.order = o,
                            !.left = op.left - PagesOf[o]]
      /\ UNCHANGED << free, order, lists, count, used >>

-----------------------------------------------------------------------------
(* mm_alloc: the order, which is MAX_ORDER + 1 when it is too large. *)
PagesFor(bytes) == ((bytes + PAGE_SIZE - 1) % Word) \div PAGE_SIZE

OrderFor(bytes) ==
  CHOOSE o \in Orders \cup {MAX_ORDER + 1} :
    /\ PagesOf[o] >= PagesFor(bytes) \/ o = MAX_ORDER + 1
    /\ \A x \in Orders : x < o => PagesOf[x] < PagesFor(bytes)

mm_alloc(bytes) ==
  /\ op.at = "idle"
  /\ op' = [Idle EXCEPT !.at = "request", !.bytes = bytes, !.target = OrderFor(bytes)]
  /\ UNCHANGED << free, order, lists, count, used >>

Stocked == {o \in Orders : o >= op.target /\ lists[o] # << >>}

NoPages ==
  /\ op.at = "request"
  /\ Stocked = {}
  /\ op' = Idle
  /\ UNCHANGED << free, order, lists, count, used >>

(* buddy_alloc_pages: the first block of the smallest order that has one, *)
TakeBlock ==
  /\ op.at = "request"
  /\ \E o \in Stocked :
       /\ \A x \in Stocked : o <= x
       /\ del_from_free_list(lists[o][1], o)
       /\ op' = [op EXCEPT !.at = "split", !.page = lists[o][1], !.order = o]
  /\ UNCHANGED << order, used >>

(* Mutant: the lower half goes to the list, and is kept as well.           *)
SplitBlock_LowerHalf ==
  /\ op.at = "split"
  /\ op.order > op.target
  /\ add_to_free_list(op.page, op.order - 1)
  /\ op' = [op EXCEPT !.order = @ - 1]
  /\ UNCHANGED used

(* its upper half to the list of the order below, and so on, *)
SplitBlock ==
  /\ op.at = "split"
  /\ op.order > op.target
  /\ add_to_free_list(op.page + PagesOf[op.order - 1], op.order - 1)
  /\ op' = [op EXCEPT !.order = @ - 1]
  /\ UNCHANGED used

(* until it has the order that is wanted. *)
GrantPages ==
  /\ op.at = "split"
  /\ op.order = op.target
  /\ order' = [order EXCEPT ![op.page] = op.target]
  /\ used' = used \cup {op.page}
  /\ op' = Idle
  /\ UNCHANGED << free, lists, count >>

(* mm_free of a block that is held *)
mm_free(p) ==
  /\ op.at = "idle"
  /\ p \in used
  /\ p \notin free
  /\ op' = [Idle EXCEPT !.at = "join", !.block = p, !.page = p, !.order = order[p]]
  /\ UNCHANGED << free, order, lists, count, used >>

Loops ==
  \/ Join
  \/ Joined
  \/ AddBlock
  \/ NoPages
  \/ TakeBlock
  \/ SplitBlock
  \/ GrantPages

Next ==
  \/ \E bytes \in Sizes : mm_alloc(bytes)
  \/ \E p \in used : mm_free(p)
  \/ Loops

Spec == Init /\ [][Next]_vars

-----------------------------------------------------------------------------
Held == {[at |-> p, len |-> PagesOf[order[p]]] : p \in used}

Listed(o) == {lists[o][i] : i \in 1 .. Len(lists[o])}

(* Between two calls the free lists, the flags, the orders and the counts  *)
(* agree; each page is in one free block or one held block; and no block   *)
(* is left beside a free buddy of its order, which a later request for the *)
(* joined block would need.                                                *)
PagesExact ==
  op.at = "idle" =>
    /\ \A o \in Orders : count[o] = Len(lists[o]) /\ count[o] = Cardinality(Listed(o))
    /\ \A o \in Orders : \A p \in Listed(o) :
         /\ Block(p, o) \subseteq free
         /\ \A q \in Block(p, o) : order[q] = o
         /\ ~ Joins(p, o)
    /\ \A q \in Page :
         Cardinality({o \in Orders : \E p \in Listed(o) : q \in Block(p, o)})
           + Cardinality({p \in used : q \in Block(p, order[p])}) = 1
=============================================================================
