----------------------------- MODULE HeapProofs -----------------------------
(***************************************************************************)
(* Both heaps, for every size of the heap and any requests.                *)
(*                                                                         *)
(* First-fit: blocks never overlap and the free list is sorted (HeapInv);  *)
(* nothing is lost (ExactInv): between two calls the free list holds every *)
(* unit that no client holds, joined as far as it can be, and mm_get_stats *)
(* counts them right; and the manager implements Allocator.                *)
(*                                                                         *)
(* Buddy: the lists, flags, orders and counts describe one partition of    *)
(* the pages into free, held and moving blocks, aligned to their order,    *)
(* and no free block is left beside a free buddy of its order (PagesInv);  *)
(* so this manager implements Allocator too: where no list has a block of  *)
(* the order or above, no aligned place for one is vacant.                 *)
(***************************************************************************)
EXTENDS Heaps, Sequences, TLAPS, FiniteSetTheorems, WellFoundedInduction

(* next[a] is the next free block by address, and the sentinel after the   *)
(* last: what a search from any place relies on.                           *)
Follows(nx, a) ==
  \/ nx[a] > a /\ \A c \in DOMAIN nx : ~ (a < c /\ c < nx[a])
  \/ nx[a] = Sentinel /\ \A c \in DOMAIN nx : c <= a

Sorted(nx) ==
  /\ nx \in [DOMAIN nx -> DOMAIN nx]
  /\ DOMAIN nx \subseteq Nat
  /\ Sentinel \in DOMAIN nx
  /\ \A a \in DOMAIN nx : Follows(nx, a)

Sized(sz) ==
  /\ sz \in [DOMAIN sz -> Nat]
  /\ DOMAIN sz \subseteq Nat
  /\ Sentinel \in DOMAIN sz
  /\ \A a \in DOMAIN sz : sz[a] = 0 <=> a = Sentinel

(* The parts of the heap: what is free or held is a block, and no block is *)
(* both; a block that is being freed is still held.                        *)
Parts ==
  /\ DOMAIN next \subseteq DOMAIN size
  /\ used \subseteq DOMAIN size
  /\ used \cap DOMAIN next = {}
  /\ freeList \in DOMAIN next

(* Where the loops are.                                                    *)
Cursor ==
  /\ op.at \in {"idle", "search", "walk"}
  /\ Searching => /\ op.need \in Nat \ {0}
                  /\ op.prev \in DOMAIN next
                  /\ op.cur = next[op.prev]
  /\ Walking => op.block \in used /\ op.cur \in DOMAIN next

(* No two blocks of sz overlap, and all lie in the heap.                   *)
Apart(sz) ==
  \A a, b \in DOMAIN sz : a + sz[a] <= Units + 1 /\ (a < b => a + sz[a] <= b)

HeapInv == Sized(size) /\ Sorted(next) /\ Apart(size) /\ Parts /\ Cursor

-----------------------------------------------------------------------------
(* A block has at least two units.                                         *)
LEMMA UnitsForSome == ASSUME NEW bytes \in Nat PROVE UnitsFor(bytes) \in Nat \ {0}
<1> DEFINE n == bytes + BLOCK_SIZE - 1
<1>1. n \in Nat
  BY BlockAssumption
<1>2. n \div BLOCK_SIZE \in Nat
  <2> HIDE DEF n
  <2> QED BY <1>1, BlockAssumption
<1>3. bytesToUnits(bytes) \in Nat
  BY <1>2 DEF bytesToUnits
<1> QED BY <1>3 DEF UnitsFor, MIN_BLOCK_UNITS

(* A block leaves the list.                                                *)
LEMMA Unlinked ==
  ASSUME NEW nx, Sorted(nx), NEW p \in DOMAIN nx, nx[p] # Sentinel
  PROVE  /\ Sorted(Forget(Write(nx, p, nx[nx[p]]), nx[p]))
         /\ DOMAIN Forget(Write(nx, p, nx[nx[p]]), nx[p]) = DOMAIN nx \ {nx[p]}
         /\ p # nx[p]
<1> DEFINE q == nx[p]
           r == nx[q]
           g == Write(nx, p, r)
           h == Forget(g, q)
<1>1. /\ q \in DOMAIN nx /\ r \in DOMAIN nx
      /\ DOMAIN nx \subseteq Nat
      /\ q > p /\ \A c \in DOMAIN nx : ~ (p < c /\ c < q)
  BY DEF Sorted, Follows, Sentinel
<1>2. /\ DOMAIN g = DOMAIN nx
      /\ g[p] = r
      /\ \A x \in DOMAIN nx : x # p => g[x] = nx[x]
  BY DEF Write
<1>3. /\ DOMAIN h = DOMAIN nx \ {q}
      /\ \A x \in DOMAIN nx : x # q => h[x] = g[x]
  <2> HIDE DEF g, q
  <2> QED BY <1>2 DEF Forget
<1>4. h[p] = r /\ \A x \in DOMAIN h : x # p => h[x] = nx[x]
  BY <1>1, <1>2, <1>3
<1>5. \A x \in DOMAIN nx : nx[x] = q => x = p
  BY <1>1 DEF Sorted, Follows, Sentinel
<1>6. r # q
  BY <1>1 DEF Sorted, Follows, Sentinel
<1>7. h \in [DOMAIN h -> DOMAIN h]
  <2>1. \A x \in DOMAIN h : h[x] \in DOMAIN h
    BY <1>1, <1>3, <1>4, <1>5, <1>6 DEF Sorted
  <2>2. h = [x \in DOMAIN h |-> h[x]]
    BY DEF Forget
  <2> HIDE DEF h
  <2> QED BY <2>1, <2>2
<1>8. \A a \in DOMAIN h : Follows(h, a)
  <2> SUFFICES ASSUME NEW a \in DOMAIN h PROVE Follows(h, a)
    OBVIOUS
  <2>1. CASE a = p
    <3>1. Follows(nx, q)
      BY <1>1 DEF Sorted
    <3> HIDE DEF h, q, r
    <3>2. r = nx[q]
      BY DEF r
    <3> QED BY <2>1, <3>1, <3>2, <1>1, <1>3, <1>4 DEF Follows, Sentinel
  <2>2. CASE a # p
    <3>1. Follows(nx, a) /\ h[a] = nx[a]
      BY <2>2, <1>3, <1>4 DEF Sorted
    <3> HIDE DEF h, q, r
    <3> QED BY <3>1, <1>3 DEF Follows
  <2> QED BY <2>1, <2>2
<1> QED BY <1>1, <1>3, <1>7, <1>8 DEF Sorted

(* The list that has the same successors.                                  *)
LEMMA SameList ==
  ASSUME NEW nx, Sorted(nx), NEW f,
         f \in [DOMAIN nx -> DOMAIN nx], \A x \in DOMAIN nx : f[x] = nx[x]
  PROVE  Sorted(f)
BY DEF Sorted, Follows

(* A block b comes into the list, after c.                                 *)
LEMMA Inserted ==
  ASSUME NEW nx, Sorted(nx), NEW c \in DOMAIN nx, NEW b \in Nat \ DOMAIN nx,
         \/ b > c /\ b < nx[c]
         \/ c >= nx[c] /\ (b > c \/ b < nx[c]),
         NEW f, f \in [DOMAIN nx \cup {b} -> DOMAIN nx \cup {b}],
         f[b] = nx[c], f[c] = b,
         \A x \in DOMAIN nx : x # c => f[x] = nx[x]
  PROVE  Sorted(f)
<1>1. /\ nx[c] \in DOMAIN nx /\ DOMAIN nx \subseteq Nat /\ Sentinel \in DOMAIN nx
      /\ DOMAIN f = DOMAIN nx \cup {b}
      /\ b # Sentinel
  BY DEF Sorted
<1>2. Follows(nx, c)
  BY DEF Sorted
<1>3. b > c
  BY <1>1, <1>2 DEF Follows, Sentinel
<1>4. b < nx[c] \/ nx[c] = Sentinel
  BY <1>1, <1>2, <1>3 DEF Follows, Sentinel
<1>5. Follows(f, b)
  BY <1>1, <1>2, <1>3, <1>4 DEF Follows, Sentinel
<1>6. Follows(f, c)
  BY <1>1, <1>2, <1>3, <1>4 DEF Follows, Sentinel
<1>7. ASSUME NEW a \in DOMAIN nx, a # c
      PROVE  Follows(f, a)
  <2>1. Follows(nx, a) /\ f[a] = nx[a] /\ nx[a] \in DOMAIN nx
    BY <1>7 DEF Sorted
  <2>2. CASE nx[a] > a
    BY <2>1, <2>2, <1>1, <1>2, <1>3, <1>4, <1>7 DEF Follows, Sentinel
  <2>3. CASE ~ nx[a] > a
    <3>1. nx[a] = Sentinel /\ \A x \in DOMAIN nx : x <= a
      BY <2>1, <2>3 DEF Follows
    <3>2. c < a /\ nx[c] # Sentinel
      BY <3>1, <1>1, <1>2, <1>7 DEF Follows, Sentinel
    <3>3. b < a
      BY <3>1, <3>2, <1>1, <1>4
    <3> QED BY <3>1, <3>3, <2>1, <1>1 DEF Follows
  <2> QED BY <2>2, <2>3
<1> QED BY <1>1, <1>5, <1>6, <1>7 DEF Sorted

-----------------------------------------------------------------------------
(* A block takes in the one after it.                                      *)
LEMMA Merged ==
  ASSUME NEW sz, Sized(sz), Apart(sz),
         NEW a \in DOMAIN sz, NEW b \in DOMAIN sz, a # Sentinel, b # Sentinel,
         a + sz[a] = b,
         NEW f, f \in [DOMAIN sz \ {b} -> Nat], f[a] = sz[a] + sz[b],
         \A x \in DOMAIN sz \ {a, b} : f[x] = sz[x]
  PROVE  Sized(f) /\ Apart(f)
<1>1. /\ DOMAIN f = DOMAIN sz \ {b}
      /\ DOMAIN sz \subseteq Nat
      /\ \A x \in DOMAIN sz : sz[x] \in Nat
      /\ a < b /\ sz[a] > 0 /\ sz[b] > 0
  BY DEF Sized
<1>2. Sized(f)
  BY <1>1 DEF Sized
<1>3. b + sz[b] <= Units + 1
  BY DEF Apart
<1>4. \A x \in DOMAIN f : x > a => a + f[a] <= x
  BY <1>1 DEF Apart
<1>5. \A x \in DOMAIN f : x # a => f[x] = sz[x]
  BY <1>1
<1>6. Apart(f)
  BY <1>1, <1>3, <1>4, <1>5 DEF Apart
<1> QED BY <1>2, <1>6

(* A block is cut in two.                                                  *)
LEMMA Cut ==
  ASSUME NEW sz, Sized(sz), Apart(sz), NEW a \in DOMAIN sz,
         NEW rest \in Nat \ {0}, NEW need \in Nat \ {0}, sz[a] = rest + need,
         NEW f, f \in [DOMAIN sz \cup {a + rest} -> Nat],
         f[a] = rest, f[a + rest] = need,
         \A x \in DOMAIN sz : x # a => f[x] = sz[x]
  PROVE  /\ Sized(f) /\ Apart(f)
         /\ a + rest \notin DOMAIN sz
<1>1. /\ DOMAIN f = DOMAIN sz \cup {a + rest}
      /\ DOMAIN sz \subseteq Nat
      /\ \A x \in DOMAIN sz : sz[x] \in Nat
      /\ a # Sentinel
  BY DEF Sized
<1>2. a + rest \notin DOMAIN sz
  BY <1>1 DEF Apart
<1>3. Sized(f)
  <2>1. a + rest # Sentinel /\ a + rest \in Nat
    BY <1>1 DEF Sentinel
  <2> QED BY <1>1, <2>1 DEF Sized
<1>4. \A x \in DOMAIN sz : x > a => a + rest + need <= x
  BY <1>1 DEF Apart
<1>5. \A x \in DOMAIN sz : x < a => x + sz[x] <= a
  BY <1>1 DEF Apart
<1>6. a + rest + need <= Units + 1
  BY <1>1 DEF Apart
<1>7. Apart(f)
  <2> SUFFICES ASSUME NEW x \in DOMAIN f, NEW y \in DOMAIN f
               PROVE  x + f[x] <= Units + 1 /\ (x < y => x + f[x] <= y)
    BY DEF Apart
  <2>1. Units \in Nat
    BY UnitsAssumption
  <2>2. CASE x = a + rest
    BY <2>1, <2>2, <1>1, <1>4, <1>6
  <2>3. CASE x = a
    BY <2>1, <2>3, <1>1, <1>4, <1>6
  <2>4. CASE x # a /\ x # a + rest
    <3>1. x \in DOMAIN sz /\ f[x] = sz[x] /\ x + sz[x] <= Units + 1
      BY <2>4, <1>1 DEF Apart
    <3>2. y \in DOMAIN sz /\ x < y => x + sz[x] <= y
      BY <3>1 DEF Apart
    <3>3. x < a => x + sz[x] <= a + rest
      BY <3>1, <1>1, <1>5
    <3>4. a < x => ~ x < a + rest
      BY <3>1, <1>1, <1>4
    <3> QED BY <2>4, <3>1, <3>2, <3>3, <3>4, <1>1
  <2> QED BY <2>2, <2>3, <2>4
<1> QED BY <1>2, <1>3, <1>7

-----------------------------------------------------------------------------
(* The heap of mm_init.                                                    *)
LEMMA InitHeap == Init => HeapInv
<1> SUFFICES ASSUME Init PROVE HeapInv
  OBVIOUS
<1>1. /\ DOMAIN size = {0, 1} /\ size[0] = 0 /\ size[1] = Units
      /\ DOMAIN next = {0, 1} /\ next[0] = 1 /\ next[1] = 0
      /\ size = [a \in DOMAIN size |-> size[a]]
      /\ next = [a \in DOMAIN next |-> next[a]]
  BY DEF Init, Sentinel
<1>2. Sized(size) /\ Apart(size)
  BY <1>1, UnitsAssumption DEF Sized, Apart, Sentinel, MIN_BLOCK_UNITS
<1>3. Sorted(next)
  BY <1>1 DEF Sorted, Follows, Sentinel
<1>4. Parts /\ Cursor
  BY <1>1 DEF Init, Parts, Cursor, Idle, Searching, Walking, Sentinel
<1> QED BY <1>2, <1>3, <1>4 DEF HeapInv

(* A call begins, or a loop goes on: the blocks stay as they are.          *)
LEMMA AskKeeps ==
  ASSUME HeapInv, NEW bytes \in Nat, mm_alloc(bytes)
  PROVE  HeapInv'
<1>1. UnitsFor(bytes) \in Nat \ {0}
  BY UnitsForSome
<1>2. freeList \in DOMAIN next
  BY DEF HeapInv, Parts
<1>3. Cursor'
  BY <1>1, <1>2 DEF mm_alloc, Cursor, Searching, Walking, Idle
<1> QED BY <1>3 DEF HeapInv, mm_alloc, Parts, Apart

LEMMA SearchKeeps ==
  ASSUME HeapInv, SearchOn \/ NoBlockFound
  PROVE  HeapInv'
<1>1. /\ op.need \in Nat \ {0} /\ op.cur \in DOMAIN next
  BY DEF HeapInv, Cursor, Sorted, SearchOn, NoBlockFound, Searching
<1>2. CASE SearchOn
  <2>1. /\ op'.at = "search" \/ op'.at = op.at
        /\ UNCHANGED << size, next, freeList, used >>
    BY <1>2 DEF SearchOn
  <2>2. Cursor'
    BY <1>1, <1>2 DEF SearchOn, Cursor, HeapInv, Searching, Walking
  <2> QED BY <2>1, <2>2 DEF HeapInv, Parts, Apart
<1>3. CASE NoBlockFound
  BY <1>3 DEF HeapInv, NoBlockFound, Parts, Apart, Cursor, Searching, Walking, Idle
<1> QED BY <1>2, <1>3

LEMMA WalkKeeps ==
  ASSUME HeapInv, (\E a \in used : mm_free(a)) \/ WalkOn
  PROVE  HeapInv'
<1>1. CASE WalkOn
  <2>1. op.block \in used /\ next[op.cur] \in DOMAIN next
    BY <1>1 DEF HeapInv, Cursor, Sorted, WalkOn, Walking
  <2>2. Cursor'
    BY <1>1, <2>1 DEF WalkOn, Cursor, HeapInv, Searching, Walking
  <2> QED BY <1>1, <2>2 DEF HeapInv, WalkOn, Parts, Apart
<1>2. CASE \E a \in used : mm_free(a)
  BY <1>2 DEF HeapInv, mm_free, Parts, Apart, Cursor, Searching, Walking, Idle
<1> QED BY <1>1, <1>2

-----------------------------------------------------------------------------
(* A block is granted.                                                     *)
LEMMA IdleCursor == op' = Idle => Cursor'
BY DEF Cursor, Idle, Searching, Walking

LEMMA ExactKeeps == ASSUME HeapInv, ExactFit PROVE HeapInv'
<1> DEFINE p == op.prev
           q == op.cur
<1>1. /\ p \in DOMAIN next /\ q = next[p] /\ q \in DOMAIN next
      /\ op.need # 0 /\ size[q] = op.need
      /\ q \in DOMAIN size
  BY DEF HeapInv, Cursor, Sorted, Parts, ExactFit, Searching
<1>2. q # Sentinel
  BY <1>1 DEF HeapInv, Sized
<1>3. /\ Sorted(next') /\ DOMAIN next' = DOMAIN next \ {q} /\ p # q
  <2>1. next' = Forget(Write(next, p, next[next[p]]), next[p])
    BY <1>1 DEF ExactFit
  <2> HIDE DEF p, q
  <2> QED BY <2>1, <1>1, <1>2, Unlinked DEF HeapInv
<1>4. Parts'
  <2>1. used' = used \cup {q} /\ freeList' = p /\ size' = size
    BY DEF ExactFit, Granted
  <2> HIDE DEF p, q
  <2> QED BY <2>1, <1>1, <1>3 DEF HeapInv, Parts
<1>5. op' = Idle /\ size' = size
  BY DEF ExactFit, Granted
<1> QED BY <1>3, <1>4, <1>5, IdleCursor DEF HeapInv, Apart

LEMMA SplitKeeps == ASSUME HeapInv, Split PROVE HeapInv'
<1> DEFINE q == op.cur
           rest == size[q] - op.need
<1>1. /\ op.prev \in DOMAIN next /\ q \in DOMAIN next
      /\ op.need \in Nat \ {0} /\ size[q] > op.need
      /\ q \in DOMAIN size /\ size[q] \in Nat
      /\ size \in [DOMAIN size -> Nat] /\ DOMAIN size \subseteq Nat
  BY DEF HeapInv, Cursor, Sorted, Sized, Parts, Split, Searching
<1>2. rest \in Nat \ {0} /\ size[q] = rest + op.need
  BY <1>1
<1>3. /\ size' = Write(Write(size, q, rest), q + rest, op.need)
      /\ used' = used \cup {q + rest} /\ freeList' = op.prev /\ op' = Idle
      /\ next' = next
  BY DEF Split, Granted
<1> HIDE DEF q, rest
<1>4. /\ DOMAIN size' = DOMAIN size \cup {q + rest}
      /\ size'[q] = rest /\ size'[q + rest] = op.need
      /\ \A x \in DOMAIN size : x # q /\ x # q + rest => size'[x] = size[x]
      /\ size' = [x \in DOMAIN size' |-> size'[x]]
  <2>1. q + rest # q /\ DOMAIN size \cup {q} = DOMAIN size
    BY <1>1, <1>2
  <2> QED BY <1>3, <2>1 DEF Write
<1>5. size' \in [DOMAIN size \cup {q + rest} -> Nat]
  BY <1>1, <1>2, <1>4
<1>6. q + rest \notin DOMAIN size
  BY <1>1, <1>2 DEF HeapInv, Apart
<1>7. Sized(size') /\ Apart(size')
  BY <1>1, <1>2, <1>4, <1>5, <1>6, Cut DEF HeapInv
<1>8. Parts'
  BY <1>1, <1>3, <1>4, <1>6 DEF HeapInv, Parts
<1> QED BY <1>3, <1>7, <1>8, IdleCursor DEF HeapInv, Apart

-----------------------------------------------------------------------------
(* A block is freed.  size1 and next1 are what the first join leaves: the  *)
(* list with b in the place of n, or with b as well.                       *)
JoinNextSize(sz, b, n) ==
  Write(IF b + sz[b] = n THEN Forget(sz, n) ELSE sz, b,
        IF b + sz[b] = n THEN sz[b] + sz[n] ELSE sz[b])

JoinNextList(sz, nx, b, n) ==
  Write(IF b + sz[b] = n THEN Forget(nx, n) ELSE nx, b,
        IF b + sz[b] = n THEN nx[n] ELSE n)

(* What it is like then.                                                   *)
JoinedNext(b, c, n, s1, f) ==
  /\ Sized(s1) /\ Apart(s1) /\ Sorted(f)
  /\ s1 = [x \in DOMAIN s1 |-> s1[x]]
  /\ DOMAIN s1 = IF b + size[b] = n THEN DOMAIN size \ {n} ELSE DOMAIN size
  /\ DOMAIN f = IF b + size[b] = n THEN (DOMAIN next \ {n}) \cup {b}
                                    ELSE DOMAIN next \cup {b}
  /\ s1[b] = IF b + size[b] = n THEN size[b] + size[n] ELSE size[b]
  /\ c \in DOMAIN s1 /\ s1[c] = size[c]
  /\ f[c] = b /\ b # c /\ b # Sentinel
  /\ f[b] = IF b + size[b] = n THEN next[n] ELSE n
  /\ b + size[b] = n => c # n

LEMMA JoinNext ==
  ASSUME HeapInv, NEW b \in used, NEW c \in DOMAIN next, BelongsAfter(b, c),
         NEW n, n = next[c],
         NEW s1, s1 = JoinNextSize(size, b, n),
         NEW f, f = Write(JoinNextList(size, next, b, n), c, b)
  PROVE  JoinedNext(b, c, n, s1, f)
<1>1. /\ b \in DOMAIN size /\ b \notin DOMAIN next /\ b \in Nat
      /\ c \in DOMAIN size /\ n \in DOMAIN next /\ n \in DOMAIN size
      /\ DOMAIN next \subseteq Nat /\ DOMAIN size \subseteq Nat
      /\ size \in [DOMAIN size -> Nat]
      /\ b # Sentinel /\ size[b] > 0 /\ b # c
  BY DEF HeapInv, Parts, Sized, Sorted
<1>2. /\ size = [x \in DOMAIN size |-> size[x]]
      /\ next \in [DOMAIN next -> DOMAIN next]
  BY <1>1 DEF HeapInv, Sorted
<1>3. \/ b > c /\ b < n
      \/ c >= n /\ (b > c \/ b < n)
  BY DEF BelongsAfter
<1>4. CASE b + size[b] = n
  <2>1. b < n /\ n # Sentinel
    BY <1>1, <1>4 DEF Sentinel
  <2>2. Follows(next, c)
    BY DEF HeapInv, Sorted
  <2>3. c < n /\ c < b
    BY <1>1, <1>3, <2>1, <2>2 DEF Follows, Sentinel
  <2>4. /\ s1 = Write(Forget(size, n), b, size[b] + size[n])
        /\ f = Write(Write(Forget(next, n), b, next[n]), c, b)
    BY <1>4 DEF JoinNextSize, JoinNextList
  <2>5. /\ DOMAIN s1 = DOMAIN size \ {n}
        /\ s1[b] = size[b] + size[n]
        /\ \A x \in DOMAIN size \ {n, b} : s1[x] = size[x]
        /\ s1 = [x \in DOMAIN s1 |-> s1[x]]
    BY <1>1, <2>1, <2>4 DEF Write, Forget
  <2>6. s1 \in [DOMAIN size \ {n} -> Nat]
    BY <1>1, <2>5
  <2>7. Sized(s1) /\ Apart(s1)
    BY <1>1, <1>4, <2>1, <2>5, <2>6, Merged DEF HeapInv
  <2> DEFINE g == Forget(Write(next, c, next[n]), n)
  <2>8. Sorted(g) /\ DOMAIN g = DOMAIN next \ {n}
    <3>1. g = Forget(Write(next, c, next[next[c]]), next[c])
      OBVIOUS
    <3> HIDE DEF g
    <3> QED BY <3>1, <2>1, Unlinked DEF HeapInv
  <2>9. /\ g[c] = next[n]
        /\ \A x \in DOMAIN next : x # n /\ x # c => g[x] = next[x]
    BY <1>1, <2>3 DEF Write, Forget
  <2>10. /\ DOMAIN f = DOMAIN g \cup {b}
         /\ f[c] = b /\ f[b] = next[n]
         /\ \A x \in DOMAIN next : x # n /\ x # c => f[x] = next[x]
         /\ f = [x \in DOMAIN f |-> f[x]]
    <3>1. DOMAIN f = (DOMAIN next \ {n}) \cup {b}
      BY <1>1, <2>3, <2>4 DEF Write, Forget
    <3> QED BY <3>1, <1>1, <2>3, <2>4, <2>8 DEF Write, Forget
  <2> HIDE DEF g
  <2>11. f \in [DOMAIN g \cup {b} -> DOMAIN g \cup {b}]
    <3>1. next[n] \in DOMAIN g
      <4>1. c \in DOMAIN g
        BY <1>1, <2>3, <2>8
      <4>2. g[c] \in DOMAIN g
        BY <4>1, <2>8 DEF Sorted
      <4> QED BY <4>2, <2>9
    <3>2. \A x \in DOMAIN g : g[x] \in DOMAIN g
      BY <2>8 DEF Sorted
    <3>3. \A x \in DOMAIN f : f[x] \in DOMAIN g \cup {b}
      BY <3>1, <3>2, <2>8, <2>9, <2>10
    <3> QED BY <3>3, <2>10
  <2>12. \/ b > c /\ b < g[c]
         \/ c >= g[c] /\ (b > c \/ b < g[c])
    <3>1. Follows(next, n) /\ next[n] \in Nat
      BY <1>1, <1>2 DEF HeapInv, Sorted
    <3> QED BY <3>1, <2>1, <2>3, <2>9, <1>1 DEF Follows, Sentinel
  <2>13. Sorted(f)
    <3>1. b \in Nat \ DOMAIN g /\ c \in DOMAIN g
      BY <1>1, <2>3, <2>8
    <3>2. \A x \in DOMAIN g : x # c => f[x] = g[x]
      BY <2>8, <2>9, <2>10
    <3> QED BY <3>1, <3>2, <2>8, <2>9, <2>10, <2>11, <2>12, Inserted
  <2> QED BY <1>1, <1>4, <2>3, <2>5, <2>7, <2>8, <2>10, <2>13 DEF JoinedNext
<1>5. CASE b + size[b] # n
  <2>1. /\ s1 = Write(size, b, size[b])
        /\ f = Write(Write(next, b, n), c, b)
    BY <1>5 DEF JoinNextSize, JoinNextList
  <2>2. s1 = size
    <3>1. s1 = [x \in DOMAIN size |-> size[x]]
      BY <1>1, <2>1 DEF Write
    <3> QED BY <3>1, <1>2
  <2>3. /\ DOMAIN f = DOMAIN next \cup {b}
        /\ f[c] = b /\ f[b] = n
        /\ \A x \in DOMAIN next : x # c => f[x] = next[x]
        /\ f = [x \in DOMAIN f |-> f[x]]
    <3>1. DOMAIN f = DOMAIN next \cup {b}
      BY <1>1, <2>1 DEF Write
    <3> QED BY <3>1, <1>1, <2>1 DEF Write
  <2>4. f \in [DOMAIN next \cup {b} -> DOMAIN next \cup {b}]
    BY <1>1, <1>2, <2>3
  <2>5. Sorted(f)
    BY <1>1, <1>3, <2>3, <2>4, Inserted DEF HeapInv
  <2> QED BY <1>1, <1>2, <1>5, <2>2, <2>3, <2>5 DEF HeapInv, JoinedNext
<1> QED BY <1>4, <1>5

LEMMA LinkKeeps == ASSUME HeapInv, Link PROVE HeapInv'
<1> DEFINE b  == op.block
           c  == op.cur
           n  == next[c]
           s1 == JoinNextSize(size, b, n)
           l1 == JoinNextList(size, next, b, n)
           f  == Write(l1, c, b)
<1>1. b \in used /\ c \in DOMAIN next /\ BelongsAfter(b, c)
  BY DEF HeapInv, Cursor, Link, Walking
<1>2. /\ Sized(s1) /\ Apart(s1) /\ Sorted(f)
      /\ s1 = [x \in DOMAIN s1 |-> s1[x]]
      /\ DOMAIN s1 = IF b + size[b] = n THEN DOMAIN size \ {n} ELSE DOMAIN size
      /\ DOMAIN f = IF b + size[b] = n THEN (DOMAIN next \ {n}) \cup {b}
                                        ELSE DOMAIN next \cup {b}
      /\ s1[b] = IF b + size[b] = n THEN size[b] + size[n] ELSE size[b]
      /\ c \in DOMAIN s1 /\ s1[c] = size[c]
      /\ f[c] = b /\ b # c /\ b # Sentinel
      /\ f[b] = IF b + size[b] = n THEN next[n] ELSE n
      /\ b + size[b] = n => c # n
  <2> HIDE DEF b, c, s1, f
  <2>1. s1 = JoinNextSize(size, b, n) /\ f = Write(JoinNextList(size, next, b, n), c, b)
    BY DEF s1, f
  <2>2. n = next[c]
    BY DEF n
  <2> HIDE DEF n
  <2>3. JoinedNext(b, c, n, s1, f)
    BY <1>1, <2>1, <2>2, JoinNext
  <2> QED BY <2>3 DEF JoinedNext
<1>3. used' = used \ {b} /\ op' = Idle
  BY DEF Link
<1>4. CASE c + size[c] # b
  <2>1. size' = s1 /\ next' = f /\ freeList' = b
    BY <1>4 DEF Link, JoinNextSize, JoinNextList
  <2> HIDE DEF b, c, n, s1, f
  <2>2. Parts'
    BY <1>1, <1>2, <1>3, <2>1 DEF HeapInv, Parts, n, Sorted
  <2> QED BY <1>2, <1>3, <2>1, <2>2, IdleCursor DEF HeapInv, Apart
<1>5. CASE c + size[c] = b
  <2> DEFINE whole == IF b + size[b] = n THEN size[b] + size[n] ELSE size[b]
             after == IF b + size[b] = n THEN next[n] ELSE n
  <2>1. /\ size' = Forget(Write(s1, c, size[c] + whole), b)
        /\ next' = Forget(Write(l1, c, after), b)
        /\ freeList' = c
    BY <1>5 DEF Link, JoinNextSize, JoinNextList
  <2>2. DOMAIN f = DOMAIN l1 \cup {c} /\ \A x \in DOMAIN f : x # c => f[x] = l1[x]
    <3> HIDE DEF b, c, l1
    <3> QED BY DEF Write
  <2>3. whole = s1[b] /\ after = f[b] /\ f[c] = b
    BY <1>2
  <2>4. b \in DOMAIN s1 /\ b \in DOMAIN f /\ c \in DOMAIN f
    BY <1>1, <1>2, <2>2 DEF HeapInv, Parts, Sized
  <2> HIDE DEF b, c, n, s1, l1, f, whole, after
  <2>5. c # Sentinel
    BY <1>1, <1>2, <1>5 DEF HeapInv, Sized, Parts, Sentinel
  <2>6. /\ DOMAIN size' = DOMAIN s1 \ {b}
        /\ size'[c] = s1[c] + s1[b]
        /\ \A x \in DOMAIN s1 \ {c, b} : size'[x] = s1[x]
        /\ size' = [x \in DOMAIN size' |-> size'[x]]
    <3>1. DOMAIN size' = DOMAIN s1 \ {b}
      BY <1>2, <2>1 DEF Write, Forget
    <3> QED BY <3>1, <1>2, <2>1, <2>3 DEF Write, Forget
  <2>7. size' \in [DOMAIN s1 \ {b} -> Nat]
    BY <1>2, <2>4, <2>6 DEF Sized
  <2>8. Sized(size') /\ Apart(size')
    <3>1. c + s1[c] = b
      BY <1>2, <1>5
    <3> QED BY <3>1, <1>2, <2>4, <2>5, <2>6, <2>7, Merged
  <2> DEFINE g == Forget(Write(f, c, f[f[c]]), f[c])
  <2>9. Sorted(g) /\ DOMAIN g = DOMAIN f \ {b}
    <3> HIDE DEF g
    <3>1. g = Forget(Write(f, c, f[f[c]]), f[c])
      BY DEF g
    <3> QED BY <3>1, <1>2, <2>3, <2>4, Unlinked
  <2>10. next' = g
    <3>1. DOMAIN Write(l1, c, after) = DOMAIN f
      BY <2>2 DEF Write
    <3>2. DOMAIN Write(f, c, after) = DOMAIN f
      BY <2>4 DEF Write
    <3>3. Write(l1, c, after) = Write(f, c, after)
      BY <2>2, <2>4, <3>1, <3>2 DEF Write
    <3> QED BY <3>3, <2>1, <2>3
  <2> HIDE DEF g
  <2>11. Parts'
    <3>1. DOMAIN next' \subseteq DOMAIN size'
      BY <1>1, <1>2, <2>6, <2>9, <2>10 DEF HeapInv, Parts
    <3>2. /\ used' \subseteq DOMAIN size'
          /\ used' \cap DOMAIN next' = {}
      BY <1>1, <1>2, <1>3, <2>6, <2>9, <2>10 DEF HeapInv, Parts, n, Sorted
    <3>3. c \in DOMAIN next'
      BY <1>2, <2>4, <2>9, <2>10
    <3> QED BY <3>1, <3>2, <3>3, <2>1 DEF Parts
  <2> QED BY <1>3, <2>8, <2>9, <2>10, <2>11, IdleCursor DEF HeapInv
<1> QED BY <1>4, <1>5

-----------------------------------------------------------------------------
(* The inductive invariant.                                                *)
THEOREM HeapCorrect == Spec => []HeapInv
<1>1. HeapInv /\ [Next]_vars => HeapInv'
  <2> SUFFICES ASSUME HeapInv, [Next]_vars PROVE HeapInv'
    OBVIOUS
  <2>1. CASE \E bytes \in Sizes : mm_alloc(bytes)
    BY <2>1, AskKeeps, SizesAssumption
  <2>2. CASE (\E a \in used : mm_free(a)) \/ WalkOn
    BY <2>2, WalkKeeps
  <2>3. CASE SearchOn \/ NoBlockFound
    BY <2>3, SearchKeeps
  <2>4. CASE ExactFit
    BY <2>4, ExactKeeps
  <2>5. CASE Split
    BY <2>5, SplitKeeps
  <2>6. CASE Link
    BY <2>6, LinkKeeps
  <2>7. CASE UNCHANGED vars
    BY <2>7 DEF vars, HeapInv, Parts, Cursor, Searching, Walking, Apart
  <2> QED BY <2>1, <2>2, <2>3, <2>4, <2>5, <2>6, <2>7 DEF Next, Loops
<1> QED BY InitHeap, <1>1, PTL DEF Spec

(* No two blocks of the default heap overlap, and none reaches out of it,  *)
(* whatever is asked for and freed in whatever order (firstFitMemory.c).   *)
THEOREM BlocksStayApart == Spec => []BlocksApart
<1>1. HeapInv => BlocksApart
  BY DEF HeapInv, Apart, BlocksApart
<1> QED BY <1>1, HeapCorrect, PTL

-----------------------------------------------------------------------------
(* The units in the blocks of S.                                          *)
Covered(sz, S) == {u \in 1 .. Units : \E a \in S : a <= u /\ u < a + sz[a]}

Real(nx) == DOMAIN nx \ {Sentinel}

(* No free block touches the next one.                                     *)
Gapped(sz, nx) == \A a \in Real(nx) : a + sz[a] # nx[a]

(* Every unit of the heap is in a block.                                   *)
Covers(sz) == \A u \in 1 .. Units : \E a \in DOMAIN sz : a <= u /\ u < a + sz[a]

(* A block that is being freed is counted, and not yet listed.             *)
Counted ==
  freeMemory = Cardinality(Covered(size, Free)) + (IF Walking THEN size[op.block] ELSE 0)

ExactInv ==
  /\ DOMAIN size = DOMAIN next \cup used
  /\ Gapped(size, next)
  /\ Covers(size)
  /\ Counted

-----------------------------------------------------------------------------
(* Counting units: D has those of A and the n that begin at b.             *)
WithBlock(A, D, b, n) ==
  /\ A \subseteq 1 .. Units
  /\ b \in Nat /\ n \in Nat \ {0}
  /\ A \cap (b .. (b + n - 1)) = {}
  /\ D = A \cup (b .. (b + n - 1))

LEMMA CountPlus ==
  ASSUME NEW A, NEW D, NEW b, NEW n, WithBlock(A, D, b, n)
  PROVE  Cardinality(A) \in Nat /\ Cardinality(D) = Cardinality(A) + n
<1> USE DEF WithBlock
<1> DEFINE I == b .. (b + n - 1)
<1>1. IsFiniteSet(A) /\ Cardinality(A) \in Nat
  <2>1. IsFiniteSet(1 .. Units)
    BY FS_Interval, UnitsAssumption
  <2> QED BY <2>1, FS_Subset, FS_CardinalityType
<1>2. IsFiniteSet(I) /\ Cardinality(I) = n
  BY FS_Interval
<1>3. Cardinality(A \cap I) = 0
  BY FS_EmptySet
<1>4. Cardinality(A \cup I) = Cardinality(A) + Cardinality(I) - Cardinality(A \cap I)
  <2> HIDE DEF I
  <2> QED BY <1>1, <1>2, FS_Union
<1> HIDE DEF I
<1> QED BY <1>1, <1>2, <1>3, <1>4 DEF I

LEMMA CoveredFinite == Cardinality(Covered(size, Free)) \in Nat
<1>1. Covered(size, Free) \subseteq 1 .. Units
  BY DEF Covered
<1>2. IsFiniteSet(1 .. Units)
  BY FS_Interval, UnitsAssumption
<1> QED BY <1>1, <1>2, FS_Subset, FS_CardinalityType

(* What HeapInv says of one block.                                         *)
LEMMA BlockFacts ==
  ASSUME HeapInv
  PROVE  /\ \A a \in DOMAIN size : a \in Nat /\ size[a] \in Nat /\ a + size[a] <= Units + 1
         /\ \A a \in DOMAIN size : a # Sentinel => size[a] > 0
         /\ \A a, c \in DOMAIN size : a < c => a + size[a] <= c
         /\ \A a \in DOMAIN next : a \in DOMAIN size /\ a \in Nat /\ next[a] \in DOMAIN next
         /\ \A a \in DOMAIN next : Follows(next, a)
         /\ \A a \in used : a \in DOMAIN size /\ a # Sentinel /\ a \notin DOMAIN next
         /\ size[Sentinel] = 0 /\ Sentinel \in DOMAIN next
         /\ Units \in Nat
BY UnitsAssumption DEF HeapInv, Sized, Sorted, Apart, Parts

LEMMA InitExact == Init => ExactInv
<1> SUFFICES ASSUME Init PROVE ExactInv
  OBVIOUS
<1>1. /\ DOMAIN size = {0, 1} /\ size[0] = 0 /\ size[1] = Units
      /\ DOMAIN next = {0, 1} /\ next[0] = 1 /\ next[1] = 0
      /\ used = {} /\ freeMemory = Units /\ ~ Walking
  BY DEF Init, Sentinel, Idle, Walking
<1>2. Units \in Nat \ {0}
  BY UnitsAssumption DEF MIN_BLOCK_UNITS
<1>3. Free = {1}
  BY <1>1 DEF Free, Sentinel
<1>4. Gapped(size, next) /\ Covers(size)
  BY <1>1, <1>2 DEF Gapped, Real, Covers, Sentinel
<1>5. Covered(size, Free) = 1 .. Units
  BY <1>1, <1>2, <1>3 DEF Covered
<1>6. Cardinality(1 .. Units) = Units
  BY <1>2, FS_Interval
<1>7. Counted
  BY <1>1, <1>2, <1>5, <1>6 DEF Counted
<1>8. DOMAIN size = DOMAIN next \cup used
  BY <1>1
<1> QED BY <1>4, <1>7, <1>8 DEF ExactInv

(* A call begins, or a loop goes on.                                       *)
LEMMA LoopsExact ==
  ASSUME HeapInv, ExactInv,
         (\E bytes \in Sizes : mm_alloc(bytes)) \/ SearchOn \/ NoBlockFound \/ WalkOn
  PROVE  ExactInv'
<1>1. /\ UNCHANGED << size, next, used, freeMemory >>
      /\ Walking' = Walking
      /\ Walking => op'.block = op.block
  <2>1. CASE \E bytes \in Sizes : mm_alloc(bytes)
    BY <2>1 DEF mm_alloc, Walking, Idle
  <2>2. CASE SearchOn
    BY <2>2 DEF SearchOn, Searching, Walking, HeapInv, Cursor
  <2>3. CASE NoBlockFound
    BY <2>3 DEF NoBlockFound, Searching, Walking, Idle
  <2>4. CASE WalkOn
    BY <2>4 DEF WalkOn, Walking, HeapInv, Cursor
  <2> QED BY <2>1, <2>2, <2>3, <2>4
<1> QED BY <1>1 DEF ExactInv, Counted, Free

LEMMA FreeExact ==
  ASSUME HeapInv, ExactInv, NEW a \in used, mm_free(a)
  PROVE  ExactInv'
<1>1. /\ UNCHANGED << size, next, used >>
      /\ freeMemory' = freeMemory + size[a]
      /\ ~ Walking /\ Walking' /\ op'.block = a
  BY DEF mm_free, Walking, Idle
<1>2. Covered(size, Free)' = Covered(size, Free)
  BY <1>1 DEF Free
<1>3. freeMemory = Cardinality(Covered(size, Free))
  BY <1>1, CoveredFinite DEF ExactInv, Counted
<1> QED BY <1>1, <1>2, <1>3 DEF ExactInv, Counted, Free

-----------------------------------------------------------------------------
(* A block is granted.                                                     *)
LEMMA ExactFitExact == ASSUME HeapInv, ExactInv, ExactFit PROVE ExactInv'
<1> DEFINE p == op.prev
           q == op.cur
<1>1. /\ p \in DOMAIN next /\ q = next[p] /\ q \in DOMAIN next
      /\ op.need \in Nat \ {0} /\ size[q] = op.need
      /\ ~ Walking /\ ~ Walking'
      /\ size' = size /\ used' = used \cup {q}
      /\ freeMemory' = freeMemory - op.need
      /\ next' = Forget(Write(next, p, next[q]), q)
  BY DEF HeapInv, Cursor, Sorted, ExactFit, Granted, Searching, Walking, Idle
<1> HIDE DEF p, q
<1>2. q # Sentinel /\ q \in DOMAIN size /\ q \in Nat /\ q > p
  BY <1>1, BlockFacts DEF Follows, Sentinel
<1>3. /\ DOMAIN next' = DOMAIN next \ {q}
      /\ next'[p] = next[q]
      /\ \A x \in DOMAIN next \ {p, q} : next'[x] = next[x]
  BY <1>1, <1>2 DEF Write, Forget
<1>4. DOMAIN size' = DOMAIN next' \cup used'
  BY <1>1, <1>3 DEF ExactInv
<1>5. Gapped(size', next')
  <2> SUFFICES ASSUME NEW a \in DOMAIN next \ {q}, a # Sentinel
               PROVE  a + size[a] # next'[a]
    BY <1>1, <1>3 DEF Gapped, Real
  <2>1. CASE a = p
    <3>1. p + size[p] <= q /\ p > 0 /\ size[p] \in Nat
      BY <2>1, <1>1, <1>2, BlockFacts DEF Sentinel
    <3>2. next[q] > q \/ next[q] = 0
      BY <1>1, BlockFacts DEF Follows, Sentinel
    <3> QED BY <2>1, <3>1, <3>2, <1>1, <1>2, <1>3, BlockFacts
  <2>2. CASE a # p
    BY <2>2, <1>3 DEF ExactInv, Gapped, Real
  <2> QED BY <2>1, <2>2
<1>6. Counted'
  <2> DEFINE A == Covered(size, Free')
             D == Covered(size, Free)
             I == q .. (q + op.need - 1)
  <2>1. Free' = Free \ {q} /\ q \in Free
    BY <1>1, <1>2, <1>3 DEF Free
  <2>2. A \cap I = {}
    <3> SUFFICES ASSUME NEW u \in A, u \in I PROVE FALSE
      OBVIOUS
    <3>1. PICK a \in Free \ {q} : a <= u /\ u < a + size[a]
      BY <2>1 DEF Covered
    <3>2. a \in DOMAIN size /\ a \in Nat /\ size[a] \in Nat /\ u \in Nat
      BY <3>1, BlockFacts DEF Free, Covered
    <3>3. u >= q /\ u < q + size[q]
      BY <3>2, <1>1, <1>2
    <3> QED BY <3>1, <3>2, <3>3, <1>2, BlockFacts
  <2>3. D = A \cup I
    <3>1. ASSUME NEW u \in I PROVE u \in D
      <4>1. u \in Int /\ q <= u /\ u < q + size[q] /\ q + size[q] <= Units + 1 /\ q >= 1
            /\ q \in Nat /\ size[q] \in Nat
        BY <1>1, <1>2, BlockFacts DEF Sentinel
      <4>2. u \in 1 .. Units
        BY <4>1, UnitsAssumption
      <4> QED BY <4>1, <4>2, <2>1 DEF Covered
    <3>2. ASSUME NEW u \in D PROVE u \in A \cup I
      <4>1. PICK a \in Free : a <= u /\ u < a + size[a]
        BY DEF Covered
      <4>2. CASE a = q
        BY <4>1, <4>2, <1>1, <1>2 DEF Covered
      <4>3. CASE a # q
        BY <4>1, <4>3, <2>1 DEF Covered
      <4> QED BY <4>2, <4>3
    <3>3. A \subseteq D
      BY <2>1 DEF Covered
    <3> QED BY <3>1, <3>2, <3>3
  <2>4. A \subseteq 1 .. Units
    BY DEF Covered
  <2> HIDE DEF A, D, I
  <2>5. Cardinality(A) \in Nat /\ Cardinality(D) = Cardinality(A) + op.need
    <3>1. WithBlock(A, D, q, op.need)
      BY <1>1, <1>2, <2>2, <2>3, <2>4 DEF I, WithBlock
    <3> QED BY <3>1, CountPlus
  <2>6. freeMemory = Cardinality(D)
    BY <1>1, <2>5 DEF ExactInv, Counted, D
  <2>7. Covered(size, Free)' = A
    BY <1>1 DEF A, Covered
  <2> QED BY <1>1, <2>5, <2>6, <2>7 DEF Counted
<1> QED BY <1>1, <1>4, <1>5, <1>6 DEF ExactInv, Covers

LEMMA SplitExact == ASSUME HeapInv, ExactInv, Split PROVE ExactInv'
<1> DEFINE q == op.cur
           rest == size[q] - op.need
           d == q + rest
<1>1. /\ q \in DOMAIN next /\ q \in DOMAIN size
      /\ op.need \in Nat \ {0} /\ size[q] > op.need
      /\ ~ Walking /\ ~ Walking'
      /\ size' = Write(Write(size, q, rest), d, op.need)
      /\ used' = used \cup {d}
      /\ freeMemory' = freeMemory - op.need
      /\ next' = next
  BY DEF HeapInv, Cursor, Sorted, Parts, Split, Granted, Searching, Walking, Idle
<1>2. /\ rest \in Nat \ {0} /\ size[q] = rest + op.need
      /\ q \in Nat /\ q # 0 /\ d = q + rest /\ d \in Nat
  BY <1>1, BlockFacts DEF Sentinel
<1> HIDE DEF q, rest, d
<1>3. d \notin DOMAIN size /\ d # q
  BY <1>1, <1>2, BlockFacts
<1>4. /\ DOMAIN size' = DOMAIN size \cup {d}
      /\ size'[q] = rest /\ size'[d] = op.need
      /\ \A x \in DOMAIN size \ {q} : size'[x] = size[x]
  BY <1>1, <1>3 DEF Write
<1>5. DOMAIN size' = DOMAIN next' \cup used'
  BY <1>1, <1>4 DEF ExactInv
<1>6. Gapped(size', next')
  <2> SUFFICES ASSUME NEW a \in DOMAIN next, a # Sentinel
               PROVE  a + size'[a] # next[a]
    BY <1>1 DEF Gapped, Real
  <2>1. CASE a = q
    <3>1. next[q] = 0 \/ q + size[q] <= next[q]
      BY <1>1, BlockFacts DEF Follows, Sentinel
    <3> QED BY <2>1, <3>1, <1>1, <1>2, <1>4, BlockFacts
  <2>2. CASE a # q
    BY <2>2, <1>4, BlockFacts DEF ExactInv, Gapped, Real
  <2> QED BY <2>1, <2>2
<1>7. Covers(size')
  <2> SUFFICES ASSUME NEW u \in 1 .. Units
               PROVE  \E a \in DOMAIN size' : a <= u /\ u < a + size'[a]
    BY DEF Covers
  <2>1. PICK a \in DOMAIN size : a <= u /\ u < a + size[a]
    BY DEF ExactInv, Covers
  <2>2. CASE a = q
    <3>1. q <= u /\ u < q + rest + op.need
      BY <2>1, <2>2, <1>1, <1>2
    <3>2. u < q + rest \/ (q + rest <= u /\ u < q + rest + op.need)
      BY <3>1, <1>1, <1>2
    <3>3. q \in DOMAIN size' /\ d \in DOMAIN size'
      BY <1>1, <1>4
    <3> QED BY <3>1, <3>2, <3>3, <1>2, <1>4
  <2>3. CASE a # q
    BY <2>1, <2>3, <1>4
  <2> QED BY <2>2, <2>3
<1>8. Counted'
  <2> DEFINE A == Covered(size, Free)'
             D == Covered(size, Free)
             I == d .. (d + op.need - 1)
  <2>1. /\ Free' = Free /\ q \in Free
        /\ A = {u \in 1 .. Units : \E a \in Free : a <= u /\ u < a + size'[a]}
    BY <1>1, <1>2 DEF Free, Covered, Sentinel
  <2>2. A \cap I = {}
    <3> SUFFICES ASSUME NEW u \in A, u \in I PROVE FALSE
      OBVIOUS
    <3>1. PICK a \in Free : a <= u /\ u < a + size'[a]
      BY <2>1
    <3>2. a \in DOMAIN size /\ a \in Nat /\ size[a] \in Nat /\ u \in Nat
      BY <3>1, <2>1, BlockFacts DEF Free
    <3>3. u >= d /\ u < q + size[q]
      BY <3>2, <1>1, <1>2
    <3>4. CASE a = q
      BY <3>1, <3>3, <3>4, <3>2, <1>2, <1>4
    <3>5. CASE a # q
      BY <3>1, <3>2, <3>3, <3>5, <1>1, <1>2, <1>4, BlockFacts
    <3> QED BY <3>4, <3>5
  <2>3. D = A \cup I
    <3>1. ASSUME NEW u \in I PROVE u \in D
      <4>1. u \in Int /\ q <= u /\ u < q + size[q] /\ q + size[q] <= Units + 1 /\ q >= 1
            /\ q \in Nat /\ size[q] \in Nat
        BY <1>1, <1>2, BlockFacts
      <4>2. u \in 1 .. Units
        BY <4>1, UnitsAssumption
      <4> QED BY <4>1, <4>2, <2>1 DEF Covered
    <3>2. ASSUME NEW u \in D PROVE u \in A \cup I
      <4>1. PICK a \in Free : a <= u /\ u < a + size[a]
        BY DEF Covered
      <4>2. u \in 1 .. Units
        BY DEF Covered
      <4>3. CASE a = q
        <5>1. u < q + rest \/ u \in I
          BY <4>1, <4>2, <4>3, <1>1, <1>2
        <5> QED BY <5>1, <4>1, <4>2, <4>3, <2>1, <1>4
      <4>4. CASE a # q
        <5>1. size'[a] = size[a]
          BY <4>4, <1>4, BlockFacts DEF Free
        <5> QED BY <4>1, <4>2, <5>1, <2>1
      <4> QED BY <4>3, <4>4
    <3>3. ASSUME NEW u \in A PROVE u \in D
      <4>1. PICK a \in Free : a <= u /\ u < a + size'[a]
        BY <2>1
      <4>2. size'[a] <= size[a] /\ a \in Nat /\ size[a] \in Nat /\ size'[a] \in Nat
        BY <1>1, <1>2, <1>4, BlockFacts DEF Free
      <4>3. u \in 1 .. Units
        BY <2>1
      <4>4. u < a + size[a]
        BY <4>1, <4>2, <4>3
      <4> QED BY <4>1, <4>3, <4>4 DEF Covered
    <3> QED BY <3>1, <3>2, <3>3
  <2>4. A \subseteq 1 .. Units
    BY <2>1
  <2> HIDE DEF A, D, I
  <2>5. Cardinality(A) \in Nat /\ Cardinality(D) = Cardinality(A) + op.need
    <3>1. WithBlock(A, D, d, op.need)
      BY <1>1, <1>2, <2>2, <2>3, <2>4 DEF I, WithBlock
    <3> QED BY <3>1, CountPlus
  <2>6. freeMemory = Cardinality(D)
    BY <1>1, <2>5 DEF ExactInv, Counted, D
  <2> QED BY <1>1, <2>5, <2>6 DEF Counted, A
<1> QED BY <1>5, <1>6, <1>7, <1>8 DEF ExactInv

-----------------------------------------------------------------------------
(* A block is freed.                                                       *)
Written(f, a, v, g) ==
  /\ DOMAIN g = DOMAIN f \cup {a}
  /\ g[a] = v
  /\ \A x \in DOMAIN f : x # a => g[x] = f[x]

Forgotten(f, a, g) ==
  /\ DOMAIN g = DOMAIN f \ {a}
  /\ \A x \in DOMAIN f : x # a => g[x] = f[x]

LEMMA WriteAt == ASSUME NEW f, NEW a, NEW v PROVE Written(f, a, v, Write(f, a, v))
BY DEF Write, Written

LEMMA ForgetAt == ASSUME NEW f, NEW a PROVE Forgotten(f, a, Forget(f, a))
BY DEF Forget, Forgotten

(* What Link does, in one place: h is the block that the freed one b, its  *)
(* neighbour n when they touch, and its neighbour c when they touch become. *)
LinkShape(b, c, n, h, gone) ==
  /\ h = IF c + size[c] = b THEN c ELSE b
  /\ gone = (IF b + size[b] = n THEN {n} ELSE {}) \cup (IF c + size[c] = b THEN {b} ELSE {})
  /\ DOMAIN size' = DOMAIN size \ gone
  /\ DOMAIN next' = (DOMAIN next \cup {b}) \ gone
  /\ size'[h] = (IF c + size[c] = b THEN size[c] ELSE 0)
                  + (size[b] + (IF b + size[b] = n THEN size[n] ELSE 0))
  /\ \A x \in DOMAIN size \ gone : x # h => size'[x] = size[x]
  /\ next'[h] = IF b + size[b] = n THEN next[n] ELSE n
  /\ c # h => next'[c] = b
  /\ \A x \in DOMAIN next \ gone : x # h /\ x # c => next'[x] = next[x]

(* Where the freed block lies.                                             *)
LinkPlace(b, c, n) ==
  /\ b \in used /\ c \in DOMAIN next /\ n = next[c] /\ n \in DOMAIN next
  /\ c < b /\ (b < n \/ n = Sentinel)
  /\ b \in Nat /\ b # Sentinel /\ c \in Nat /\ n \in Nat
  /\ size[b] \in Nat \ {0} /\ size[c] \in Nat /\ size[n] \in Nat
  /\ b + size[b] = n => n # Sentinel
  /\ c + size[c] = b => c # Sentinel

LEMMA LinkPlaced ==
  ASSUME HeapInv, Link
  PROVE  LinkPlace(op.block, op.cur, next[op.cur])
<1> DEFINE b == op.block
           c == op.cur
           n == next[c]
<1>1. b \in used /\ c \in DOMAIN next /\ BelongsAfter(b, c)
  BY DEF HeapInv, Cursor, Link, Walking
<1> HIDE DEF b, c
<1>2. /\ n \in DOMAIN next /\ Follows(next, c)
      /\ b \in Nat /\ b # Sentinel /\ c \in Nat /\ n \in Nat
      /\ size[b] \in Nat \ {0} /\ size[c] \in Nat /\ size[n] \in Nat
      /\ Sentinel \in DOMAIN next /\ size[Sentinel] = 0
  BY <1>1, BlockFacts
<1>3. c < b /\ (b < n \/ n = Sentinel)
  BY <1>1, <1>2 DEF BelongsAfter, Follows, Sentinel
<1>4. /\ b + size[b] = n => n # Sentinel
      /\ c + size[c] = b => c # Sentinel
  BY <1>2 DEF Sentinel
<1> HIDE DEF n
<1>5. LinkPlace(b, c, n)
  BY <1>1, <1>2, <1>3, <1>4 DEF LinkPlace, n
<1> QED BY <1>5 DEF b, c, n

LEMMA LinkShaped ==
  ASSUME HeapInv, Link,
         NEW b, NEW c, NEW n, b = op.block, c = op.cur, n = next[c], LinkPlace(b, c, n)
  PROVE  \E h, gone : LinkShape(b, c, n, h, gone)
<1> DEFINE jn    == b + size[b] = n
           jp    == c + size[c] = b
           whole == IF jn THEN size[b] + size[n] ELSE size[b]
           after == IF jn THEN next[n] ELSE n
           size0 == IF jn THEN Forget(size, n) ELSE size
           next0 == IF jn THEN Forget(next, n) ELSE next
           size1 == Write(size0, b, whole)
           next1 == Write(next0, b, after)
           h     == IF jp THEN c ELSE b
           gone  == (IF jn THEN {n} ELSE {}) \cup (IF jp THEN {b} ELSE {})
<1>1. /\ jp => /\ size' = Forget(Write(size1, c, size[c] + whole), b)
               /\ next' = Forget(Write(next1, c, after), b)
      /\ ~ jp => /\ size' = size1
                 /\ next' = Write(next1, c, b)
  BY DEF Link
<1>2. /\ b \in DOMAIN size /\ b \notin DOMAIN next /\ c \in DOMAIN size
      /\ n \in DOMAIN size /\ n \in DOMAIN next /\ c \in DOMAIN next
      /\ b # c /\ b # n
      /\ jn => c # n
      /\ size[b] \in Nat /\ size[c] \in Nat /\ size[n] \in Nat
  BY BlockFacts DEF LinkPlace
<1>3. /\ DOMAIN size0 = DOMAIN size \ (IF jn THEN {n} ELSE {})
      /\ DOMAIN next0 = DOMAIN next \ (IF jn THEN {n} ELSE {})
      /\ \A x \in DOMAIN size0 : size0[x] = size[x]
      /\ \A x \in DOMAIN next0 : next0[x] = next[x]
  <2>1. Forgotten(size, n, Forget(size, n)) /\ Forgotten(next, n, Forget(next, n))
    BY ForgetAt
  <2> HIDE DEF jn
  <2>2. CASE jn
    BY <2>1, <2>2 DEF Forgotten
  <2>3. CASE ~ jn
    BY <2>3
  <2> QED BY <2>2, <2>3
<1> HIDE DEF size0, next0
<1>4. /\ DOMAIN size1 = DOMAIN size0 \cup {b}
      /\ DOMAIN next1 = DOMAIN next0 \cup {b}
      /\ size1[b] = whole /\ next1[b] = after
      /\ \A x \in DOMAIN size0 : x # b => size1[x] = size0[x]
      /\ \A x \in DOMAIN next0 : x # b => next1[x] = next0[x]
  <2> HIDE DEF whole, after, jn
  <2>1. Written(size0, b, whole, size1) /\ Written(next0, b, after, next1)
    BY WriteAt
  <2> HIDE DEF size1, next1
  <2> QED BY <2>1 DEF Written
<1> HIDE DEF size1, next1
<1>5. CASE jp
  <2> DEFINE size2 == Write(size1, c, size[c] + whole)
             next2 == Write(next1, c, after)
  <2> HIDE DEF whole, after, jn
  <2>1. /\ DOMAIN size2 = DOMAIN size1 \cup {c}
        /\ DOMAIN next2 = DOMAIN next1 \cup {c}
        /\ size2[c] = size[c] + whole /\ next2[c] = after
        /\ \A x \in DOMAIN size1 : x # c => size2[x] = size1[x]
        /\ \A x \in DOMAIN next1 : x # c => next2[x] = next1[x]
    <3>1. Written(size1, c, size[c] + whole, size2) /\ Written(next1, c, after, next2)
      BY WriteAt
    <3> HIDE DEF size2, next2
    <3> QED BY <3>1 DEF Written
  <2>2. size' = Forget(size2, b) /\ next' = Forget(next2, b)
    BY <1>1, <1>5
  <2> HIDE DEF size2, next2, jp
  <2>3. /\ DOMAIN size' = DOMAIN size2 \ {b}
        /\ DOMAIN next' = DOMAIN next2 \ {b}
        /\ \A x \in DOMAIN size2 : x # b => size'[x] = size2[x]
        /\ \A x \in DOMAIN next2 : x # b => next'[x] = next2[x]
    <3>1. Forgotten(size2, b, size') /\ Forgotten(next2, b, next')
      BY <2>2, ForgetAt
    <3> QED BY <3>1 DEF Forgotten
  <2>4. h = c /\ gone = (IF jn THEN {n} ELSE {}) \cup {b}
    BY <1>5
  <2> HIDE DEF h, gone
  <2>5. /\ DOMAIN size' = DOMAIN size \ gone
        /\ DOMAIN next' = (DOMAIN next \cup {b}) \ gone
    BY <1>2, <1>3, <1>4, <2>1, <2>3, <2>4
  <2>6. size'[h] = size[c] + whole /\ next'[h] = after
    BY <1>2, <2>1, <2>3, <2>4
  <2>7. \A x \in DOMAIN size \ gone : x # h => size'[x] = size[x]
    BY <1>2, <1>3, <1>4, <2>1, <2>3, <2>4
  <2>8. \A x \in DOMAIN next \ gone : x # h /\ x # c => next'[x] = next[x]
    BY <1>2, <1>3, <1>4, <2>1, <2>3, <2>4
  <2>9. whole = size[b] + (IF jn THEN size[n] ELSE 0)
    BY <1>2 DEF whole
  <2>10. LinkShape(b, c, n, h, gone)
    BY <1>5, <2>4, <2>5, <2>6, <2>7, <2>8, <2>9 DEF LinkShape, jn, jp, after
  <2> QED BY <2>10
<1>6. CASE ~ jp
  <2> HIDE DEF whole, after, jn
  <2>1. size' = size1 /\ next' = Write(next1, c, b)
    BY <1>1, <1>6
  <2>2. /\ DOMAIN next' = DOMAIN next1 \cup {c}
        /\ next'[c] = b
        /\ \A x \in DOMAIN next1 : x # c => next'[x] = next1[x]
    <3>1. Written(next1, c, b, next')
      BY <2>1, WriteAt
    <3> QED BY <3>1 DEF Written
  <2>3. h = b /\ gone = IF jn THEN {n} ELSE {}
    BY <1>6
  <2> HIDE DEF h, gone, jp
  <2>4. /\ DOMAIN size' = DOMAIN size \ gone
        /\ DOMAIN next' = (DOMAIN next \cup {b}) \ gone
    BY <1>2, <1>3, <1>4, <2>1, <2>2, <2>3
  <2>5. size'[h] = whole /\ next'[h] = after
    BY <1>2, <1>3, <1>4, <2>1, <2>2, <2>3
  <2>6. \A x \in DOMAIN size \ gone : x # h => size'[x] = size[x]
    BY <1>2, <1>3, <1>4, <2>1, <2>3
  <2>7. \A x \in DOMAIN next \ gone : x # h /\ x # c => next'[x] = next[x]
    BY <1>2, <1>3, <1>4, <2>2, <2>3
  <2>8. whole = 0 + (size[b] + (IF jn THEN size[n] ELSE 0))
    BY <1>2 DEF whole
  <2>9. LinkShape(b, c, n, h, gone)
    BY <1>6, <2>2, <2>3, <2>4, <2>5, <2>6, <2>7, <2>8 DEF LinkShape, jn, jp, after
  <2> QED BY <2>9
<1> QED BY <1>5, <1>6

LEMMA LinkExact == ASSUME HeapInv, ExactInv, Link PROVE ExactInv'
<1>1. PICK b, c, n : b = op.block /\ c = op.cur /\ n = next[c] /\ LinkPlace(b, c, n)
  BY LinkPlaced
<1>2. PICK h, gone : LinkShape(b, c, n, h, gone)
  BY <1>1, LinkShaped
<1> DEFINE jn == b + size[b] = n
           jp == c + size[c] = b
<1>3. /\ used' = used \ {b} /\ freeMemory' = freeMemory
      /\ Walking /\ ~ Walking'
  BY <1>1 DEF Link, Walking, Idle
<1>4. /\ b \in used /\ c \in DOMAIN next /\ n \in DOMAIN next /\ n = next[c]
      /\ b \in DOMAIN size /\ c \in DOMAIN size /\ n \in DOMAIN size
      /\ b \notin DOMAIN next
      /\ c < b /\ (b < n \/ n = 0)
      /\ b \in Nat \ {0} /\ c \in Nat /\ n \in Nat
      /\ size[b] \in Nat \ {0} /\ size[c] \in Nat /\ size[n] \in Nat
      /\ b + size[b] = n => n # 0
      /\ c + size[c] = b => c # 0
  BY <1>1, BlockFacts DEF LinkPlace, Sentinel
<1>5. /\ DOMAIN size' = DOMAIN size \ gone
      /\ DOMAIN next' = (DOMAIN next \cup {b}) \ gone
      /\ h \in DOMAIN next' /\ h \in DOMAIN size' /\ h \in Nat \ {0}
      /\ \A x \in DOMAIN size \ gone : x # h => size'[x] = size[x]
      /\ \A x \in gone : x \in {b, n} /\ x # 0 /\ x # h
      /\ b \in gone <=> c + size[c] = b
      /\ n \in gone <=> b + size[b] = n
  BY <1>2, <1>4 DEF LinkShape
<1>6. /\ size'[h] \in Nat
      /\ \A u \in Nat : h <= u /\ u < h + size'[h] <=>
           \/ b <= u /\ u < b + size[b]
           \/ b + size[b] = n /\ n <= u /\ u < n + size[n]
           \/ c + size[c] = b /\ c <= u /\ u < c + size[c]
  <2>1. CASE c + size[c] = b /\ b + size[b] = n
    BY <2>1, <1>2, <1>4 DEF LinkShape
  <2>2. CASE c + size[c] = b /\ b + size[b] # n
    BY <2>2, <1>2, <1>4 DEF LinkShape
  <2>3. CASE c + size[c] # b /\ b + size[b] = n
    BY <2>3, <1>2, <1>4 DEF LinkShape
  <2>4. CASE c + size[c] # b /\ b + size[b] # n
    BY <2>4, <1>2, <1>4 DEF LinkShape
  <2> QED BY <2>1, <2>2, <2>3, <2>4
<1>7. DOMAIN size' = DOMAIN next' \cup used'
  BY <1>3, <1>4, <1>5, BlockFacts DEF ExactInv
<1>8. Gapped(size', next')
  <2> SUFFICES ASSUME NEW a \in DOMAIN next', a # 0
               PROVE  a + size'[a] # next'[a]
    BY DEF Gapped, Real, Sentinel
  <2>1. CASE a = h
    <3>1. next'[h] = IF jn THEN next[n] ELSE n
      BY <1>2 DEF LinkShape
    <3>2. h + size'[h] = IF jn THEN n + size[n] ELSE b + size[b]
      <4>1. CASE jp
        BY <4>1, <1>2, <1>4 DEF LinkShape
      <4>2. CASE ~ jp
        BY <4>2, <1>2, <1>4 DEF LinkShape
      <4> QED BY <4>1, <4>2
    <3>3. jn => n + size[n] # next[n]
      BY <1>4 DEF ExactInv, Gapped, Real, Sentinel
    <3> QED BY <2>1, <3>1, <3>2, <3>3
  <2>2. CASE a # h /\ a = c
    <3>1. next'[c] = b /\ c + size[c] # b /\ c \notin gone
      BY <2>2, <1>2, <1>5 DEF LinkShape
    <3> QED BY <2>2, <3>1, <1>4, <1>5
  <2>3. CASE a # h /\ a # c
    <3>1. a \in DOMAIN next /\ a \notin gone
      BY <2>3, <1>2, <1>5 DEF LinkShape
    <3>2. next'[a] = next[a] /\ size'[a] = size[a]
      BY <2>3, <3>1, <1>2, <1>5, BlockFacts DEF LinkShape
    <3> QED BY <3>1, <3>2 DEF ExactInv, Gapped, Real, Sentinel
  <2> QED BY <2>1, <2>2, <2>3
<1>9. Covers(size')
  <2> SUFFICES ASSUME NEW u \in 1 .. Units
               PROVE  \E a \in DOMAIN size' : a <= u /\ u < a + size'[a]
    BY DEF Covers
  <2>1. PICK a \in DOMAIN size : a <= u /\ u < a + size[a]
    BY DEF ExactInv, Covers
  <2>2. CASE a = b \/ a \in gone \/ a = h
    <3>1. h <= u /\ u < h + size'[h]
      BY <2>1, <2>2, <1>2, <1>4, <1>5, <1>6 DEF LinkShape
    <3> QED BY <3>1, <1>5
  <2>3. CASE a # b /\ a \notin gone /\ a # h
    BY <2>1, <2>3, <1>5
  <2> QED BY <2>2, <2>3
<1>10. Counted'
  <2> DEFINE A == Covered(size, Free)
             D == Covered(size, Free)'
             I == b .. (b + size[b] - 1)
  <2>1. /\ c # 0 => c \in Free
        /\ n # 0 => n \in Free
        /\ Free' = (Free \cup {b}) \ gone /\ h \in Free'
        /\ D = {u \in 1 .. Units : \E a \in Free' : a <= u /\ u < a + size'[a]}
    BY <1>4, <1>5 DEF Free, Covered, Sentinel
  <2>2. A \cap I = {}
    <3> SUFFICES ASSUME NEW u \in A, u \in I PROVE FALSE
      OBVIOUS
    <3>1. PICK a \in Free : a <= u /\ u < a + size[a]
      BY DEF Covered
    <3>2. a \in DOMAIN size /\ a \in Nat /\ size[a] \in Nat /\ u \in Nat /\ a # b
      BY <3>1, <1>4, BlockFacts DEF Free, Covered
    <3>3. u >= b /\ u < b + size[b]
      BY <3>2, <1>4
    <3> QED BY <3>1, <3>2, <3>3, <1>4, BlockFacts
  <2>3. ASSUME NEW u \in I PROVE u \in D
    <3>1. /\ u \in Int /\ b <= u /\ u < b + size[b] /\ b + size[b] <= Units + 1
          /\ b \in Nat /\ b >= 1 /\ size[b] \in Nat
      BY <1>4, BlockFacts
    <3>2. u \in 1 .. Units /\ u \in Nat
      BY <3>1, UnitsAssumption
    <3>3. h <= u /\ u < h + size'[h]
      BY <3>1, <3>2, <1>6
    <3> QED BY <3>2, <3>3, <2>1
  <2>4. ASSUME NEW u \in A PROVE u \in D
    <3>1. PICK a \in Free : a <= u /\ u < a + size[a]
      BY DEF Covered
    <3>2. u \in 1 .. Units /\ u \in Nat /\ a \in DOMAIN size /\ a # b
      BY <1>4, BlockFacts DEF Covered, Free
    <3>3. CASE a \in gone \/ a = h
      <4>1. h <= u /\ u < h + size'[h]
        BY <3>1, <3>2, <3>3, <1>2, <1>4, <1>5, <1>6 DEF LinkShape
      <4> QED BY <4>1, <3>2, <2>1
    <3>4. CASE a \notin gone /\ a # h
      <4>1. a \in Free' /\ size'[a] = size[a]
        BY <3>2, <3>4, <2>1, <1>5
      <4> QED BY <4>1, <3>1, <3>2, <2>1
    <3> QED BY <3>3, <3>4
  <2>5. ASSUME NEW u \in D PROVE u \in A \cup I
    <3>1. PICK a \in Free' : a <= u /\ u < a + size'[a]
      BY <2>1
    <3>2. u \in 1 .. Units /\ u \in Nat
      <4>1. u \in 1 .. Units
        BY <2>5 DEF Covered
      <4> HIDE DEF D
      <4> QED BY <4>1, UnitsAssumption
    <3>3. CASE a = h
      <4>1. \/ b <= u /\ u < b + size[b]
            \/ n # 0 /\ n <= u /\ u < n + size[n]
            \/ c # 0 /\ c <= u /\ u < c + size[c]
        BY <3>1, <3>2, <3>3, <1>4, <1>6
      <4>2. b <= u /\ u < b + size[b] => u \in I
        BY <3>2, <1>4
      <4>3. n # 0 /\ n <= u /\ u < n + size[n] => u \in A
        BY <3>2, <2>1 DEF Covered
      <4>4. c # 0 /\ c <= u /\ u < c + size[c] => u \in A
        BY <3>2, <2>1 DEF Covered
      <4> QED BY <4>1, <4>2, <4>3, <4>4
    <3>4. CASE a # h
      <4>1. a \in Free /\ a \notin gone
        BY <3>4, <2>1, <1>2, <1>5 DEF LinkShape
      <4>2. size'[a] = size[a]
        BY <4>1, <3>4, <1>5, BlockFacts DEF Free
      <4> QED BY <4>1, <4>2, <3>1, <3>2 DEF Covered
    <3> QED BY <3>3, <3>4
  <2>6. A \subseteq 1 .. Units
    BY DEF Covered
  <2>7. D = A \cup I
    <3> HIDE DEF A, D, I
    <3> QED BY <2>3, <2>4, <2>5
  <2> HIDE DEF A, D, I
  <2>8. Cardinality(A) \in Nat /\ Cardinality(D) = Cardinality(A) + size[b]
    <3>1. WithBlock(A, D, b, size[b])
      BY <1>4, <2>2, <2>6, <2>7 DEF I, WithBlock
    <3> QED BY <3>1, CountPlus
  <2>9. freeMemory = Cardinality(A) + size[b]
    BY <1>1, <1>3 DEF ExactInv, Counted, A
  <2> QED BY <1>3, <1>4, <2>8, <2>9 DEF Counted, D
<1> QED BY <1>7, <1>8, <1>9, <1>10 DEF ExactInv

-----------------------------------------------------------------------------
THEOREM HeapExact == Spec => []ExactInv
<1>1. HeapInv /\ ExactInv /\ [Next]_vars => ExactInv'
  <2> SUFFICES ASSUME HeapInv, ExactInv, [Next]_vars PROVE ExactInv'
    OBVIOUS
  <2>1. CASE (\E bytes \in Sizes : mm_alloc(bytes)) \/ SearchOn \/ NoBlockFound \/ WalkOn
    BY <2>1, LoopsExact
  <2>2. CASE \E a \in used : mm_free(a)
    BY <2>2, FreeExact
  <2>3. CASE ExactFit
    BY <2>3, ExactFitExact
  <2>4. CASE Split
    BY <2>4, SplitExact
  <2>5. CASE Link
    BY <2>5, LinkExact
  <2>6. CASE UNCHANGED vars
    BY <2>6 DEF vars, ExactInv, Counted, Free, Walking
  <2> QED BY <2>1, <2>2, <2>3, <2>4, <2>5, <2>6 DEF Next, Loops
<1> QED BY HeapCorrect, InitExact, <1>1, PTL DEF Spec

(* Between two calls every unit of the heap is held by a client or listed  *)
(* as free, free neighbours are one block, and freeMemory counts the free  *)
(* units: mm_alloc and mm_free lose no memory, whatever is asked for and   *)
(* freed in whatever order.                                                *)
THEOREM NothingLost == Spec => []FreeListExact
<1>1. HeapInv /\ ExactInv => FreeListExact
  <2> SUFFICES ASSUME HeapInv, ExactInv, op.at = "idle" PROVE FreeListExact
    BY DEF FreeListExact
  <2>1. DOMAIN size = DOMAIN next \cup used /\ freeList \in DOMAIN next
    BY DEF HeapInv, Parts, ExactInv
  <2>2. \A a \in Free : a \notin used /\ a + size[a] # next[a]
    BY DEF HeapInv, Parts, ExactInv, Gapped, Real, Free
  <2>3. \A a \in DOMAIN next :
           \/ next[a] > a /\ \A c \in Free : ~ (a < c /\ c < next[a])
           \/ next[a] = Sentinel /\ \A c \in Free : c <= a
    BY DEF HeapInv, Sorted, Follows, Free
  <2>4. \A u \in 1 .. Units : \E a \in DOMAIN size : a <= u /\ u < a + size[a]
    BY DEF ExactInv, Covers
  <2>5. freeMemory = Cardinality({u \in 1 .. Units : \E a \in Free : a <= u /\ u < a + size[a]})
    <3>1. ~ Walking
      BY DEF Walking
    <3>2. freeMemory = Cardinality(Covered(size, Free))
      BY <3>1, CoveredFinite DEF ExactInv, Counted
    <3> QED BY <3>2 DEF Covered
  <2> QED BY <2>1, <2>2, <2>3, <2>4, <2>5 DEF FreeListExact
<1> QED BY <1>1, HeapCorrect, HeapExact, PTL

-----------------------------------------------------------------------------
(* The blocks that a search has left behind: those it met since freeList,  *)
(* in the order of the list.                                               *)
Passed(x) == IF op.cur > freeList THEN freeList < x /\ x < op.cur
                                  ELSE freeList < x \/ x < op.cur

(* What the call that runs knows of its request.                           *)
AskedInv ==
  /\ Searching => /\ op.bytes \in Nat \ {0} /\ op.need = UnitsFor(op.bytes)
                  /\ \A x \in DOMAIN next : Passed(x) => size[x] < op.need
  /\ ~ Searching => op.bytes = 0

LEMMA DivMod ==
  ASSUME NEW n \in Nat, NEW d \in Nat \ {0}
  PROVE  /\ n \div d \in Nat /\ n % d \in Nat /\ n % d < d
         /\ n = d * (n \div d) + (n % d)
<1>1. n \div d \in Int
  OBVIOUS
<1>2. n \div d >= 0
  OBVIOUS
<1>3. n = d * (n \div d) + (n % d)
  OBVIOUS
<1>4. n % d \in Nat /\ n % d < d
  OBVIOUS
<1> QED BY <1>1, <1>2, <1>3, <1>4

(* The block has room for the request beside its header.                   *)
LEMMA UnitsEnough ==
  ASSUME NEW bytes \in Nat
  PROVE  (UnitsFor(bytes) - 1) * BLOCK_SIZE >= bytes
<1> DEFINE n == bytes + BLOCK_SIZE - 1
           q == n \div BLOCK_SIZE
<1>1. n \in Nat /\ BLOCK_SIZE \in Nat /\ BLOCK_SIZE > 0
  BY BlockAssumption
<1>2. /\ q \in Nat /\ n = BLOCK_SIZE * q + (n % BLOCK_SIZE)
      /\ n % BLOCK_SIZE \in Nat /\ n % BLOCK_SIZE < BLOCK_SIZE
  <2> HIDE DEF n
  <2> QED BY <1>1, DivMod
<1>3. UnitsFor(bytes) - 1 = q \/ (UnitsFor(bytes) = 2 /\ q <= 0)
  <2>1. bytesToUnits(bytes) = q
    BY DEF bytesToUnits
  <2> HIDE DEF q
  <2> QED BY <2>1, <1>2 DEF UnitsFor, MIN_BLOCK_UNITS
<1> HIDE DEF q
<1>4. BLOCK_SIZE * q >= bytes
  BY <1>1, <1>2
<1>5. CASE UnitsFor(bytes) - 1 = q
  BY <1>1, <1>2, <1>4, <1>5
<1>6. CASE UnitsFor(bytes) = 2 /\ q <= 0
  <2>1. q = 0
    BY <1>2, <1>6
  <2>2. BLOCK_SIZE * q = 0
    BY <1>1, <2>1
  <2> QED BY <1>1, <1>4, <1>6, <2>2
<1> QED BY <1>3, <1>5, <1>6

LEMMA AskedStart == Init => AskedInv
BY DEF Init, AskedInv, Idle, Searching

LEMMA SearchOnAsked ==
  ASSUME HeapInv, AskedInv, SearchOn
  PROVE  AskedInv'
<1> DEFINE c == op.cur
           n == next[c]
<1>1. /\ UNCHANGED << size, next, freeList >> /\ Searching
      /\ op' = [op EXCEPT !.prev = c, !.cur = n]
      /\ size[c] < op.need /\ c # freeList
  BY DEF SearchOn
<1>2. /\ Searching' /\ op.at = "search" /\ op'.bytes = op.bytes /\ op'.need = op.need /\ op'.cur = n
  <2>1. op.at = "search"
    BY <1>1 DEF Searching
  <2> QED BY <1>1, <2>1 DEF Searching
<1>3. /\ c \in DOMAIN next /\ freeList \in DOMAIN next /\ Follows(next, c)
      /\ \A x \in DOMAIN next : x \in Nat
      /\ n \in DOMAIN next
  BY <1>1, BlockFacts DEF HeapInv, Cursor, Sorted, Parts
<1>4. ASSUME NEW x \in DOMAIN next, Passed(x)' PROVE Passed(x) \/ x = c
  <2> HIDE DEF c, n
  <2>1. IF n > freeList THEN freeList < x /\ x < n ELSE freeList < x \/ x < n
    BY <1>1, <1>2, <1>4 DEF Passed
  <2>2. x = c \/ IF c > freeList THEN freeList < x /\ x < c ELSE freeList < x \/ x < c
    <3>1. /\ c \in Nat /\ n \in Nat /\ x \in Nat /\ freeList \in Nat
          /\ n > c => ~ (c < x /\ x < n) /\ ~ (c < freeList /\ freeList < n)
          /\ ~ n > c => n = 0 /\ x <= c /\ freeList <= c
      BY <1>3 DEF Follows, Sentinel, n
    <3>2. c # freeList
      BY <1>1
    <3> QED BY <3>1, <3>2, <2>1
  <2> QED BY <2>2 DEF Passed, c
<1> QED BY <1>1, <1>2, <1>4 DEF AskedInv

LEMMA BeginAsked ==
  ASSUME HeapInv, NEW bytes \in Sizes, mm_alloc(bytes)
  PROVE  AskedInv'
<1>1. /\ UNCHANGED << size, next, freeList >> /\ Searching'
      /\ op'.bytes = bytes /\ op'.need = UnitsFor(bytes) /\ op'.cur = next[freeList]
  BY DEF mm_alloc, Idle, Searching
<1>2. freeList \in DOMAIN next /\ Follows(next, freeList) /\ \A x \in DOMAIN next : x \in Nat
  BY BlockFacts DEF HeapInv, Parts
<1>3. \A x \in DOMAIN next : ~ Passed(x)'
  BY <1>1, <1>2 DEF Passed, Follows, Sentinel
<1> QED BY <1>1, <1>3, SizesAssumption DEF AskedInv

LEMMA AskedStep == HeapInv /\ AskedInv /\ [Next]_vars => AskedInv'
<1> SUFFICES ASSUME HeapInv, AskedInv, [Next]_vars PROVE AskedInv'
  OBVIOUS
<1>1. CASE \E bytes \in Sizes : mm_alloc(bytes)
  BY <1>1, BeginAsked
<1>2. CASE SearchOn
  BY <1>2, SearchOnAsked
<1>3. CASE op' = Idle
  BY <1>3 DEF AskedInv, Idle, Searching
<1>4. CASE (\E a \in used : mm_free(a)) \/ WalkOn
  <2>1. op.bytes = 0
    BY <1>4 DEF AskedInv, mm_free, WalkOn, Walking, Searching
  <2>2. ~ Searching' /\ op'.bytes = 0
    <3>1. CASE \E a \in used : mm_free(a)
      BY <3>1 DEF mm_free, Searching, Idle
    <3>2. CASE WalkOn
      BY <3>2, <2>1 DEF WalkOn, Walking, Searching
    <3> QED BY <1>4, <3>1, <3>2
  <2> QED BY <2>2 DEF AskedInv
<1>5. CASE UNCHANGED vars
  BY <1>5 DEF vars, AskedInv, Searching, Passed
<1>6. NoBlockFound \/ ExactFit \/ Split \/ Link => op' = Idle
  BY DEF NoBlockFound, ExactFit, Split, Link, Granted
<1> QED BY <1>1, <1>2, <1>3, <1>4, <1>5, <1>6 DEF Next, Loops

-----------------------------------------------------------------------------
(* What is held, as Allocator sees it.                                     *)
HeldAt(a) == [at |-> a, len |-> size[a]]

LEMMA Extents ==
  ASSUME NEW a \in Nat, NEW l \in Nat
  PROVE  UnitBlocks!Extent([at |-> a, len |-> l]) = {u \in Nat : a <= u /\ u < a + l}
BY DEF UnitBlocks!Extent

(* Units that nobody holds, one after the other, are in one free block.    *)
LEMMA OneBlock ==
  ASSUME HeapInv, ExactInv,
         NEW a \in 1 .. Units, NEW l \in Nat \ {0}, a + l <= Units + 1,
         \A u \in Nat : a <= u /\ u < a + l =>
           ~ \E b \in used : b <= u /\ u < b + size[b]
  PROVE  \E f \in Free : f <= a /\ a + l <= f + size[f]
<1>1. ASSUME NEW u \in Nat, a <= u, u < a + l
      PROVE  \E f \in Free : f <= u /\ u < f + size[f]
  <2>1. u \in 1 .. Units
    BY <1>1, BlockFacts
  <2>2. PICK f \in DOMAIN size : f <= u /\ u < f + size[f]
    BY <2>1 DEF ExactInv, Covers
  <2>3. f \notin used
    BY <1>1, <2>2
  <2>4. f \in DOMAIN next /\ f # Sentinel
    BY <1>1, <2>2, <2>3, BlockFacts DEF ExactInv, Sentinel
  <2> QED BY <2>2, <2>4 DEF Free
<1>2. PICK f \in Free : f <= a /\ a < f + size[f]
  BY <1>1
<1>3. f \in DOMAIN next /\ f \in DOMAIN size /\ f \in Nat /\ size[f] \in Nat /\ f # Sentinel
  BY <1>2, BlockFacts DEF Free
<1>4. ASSUME f + size[f] < a + l PROVE FALSE
  <2> DEFINE e == f + size[f]
  <2>1. e \in Nat /\ a <= e /\ e < a + l
    BY <1>2, <1>3, <1>4
  <2>2. PICK g \in Free : g <= e /\ e < g + size[g]
    BY <1>1, <2>1
  <2>3. g \in DOMAIN next /\ g \in DOMAIN size /\ g \in Nat /\ size[g] \in Nat
    BY <2>2, BlockFacts DEF Free
  <2>4. g = e
    <3>1. g # f
      BY <2>2, <1>3
    <3>2. g < f => g + size[g] <= f
      BY <1>3, <2>3, BlockFacts
    <3>3. f < g => e <= g
      BY <1>3, <2>3, BlockFacts
    <3> QED BY <3>1, <3>2, <3>3, <2>1, <2>2, <2>3, <1>3
  <2>5. next[f] = g
    <3>1. Follows(next, f) /\ f < g /\ next[f] \in DOMAIN size /\ next[f] \in DOMAIN next
      BY <2>4, <1>3, <2>2, <2>3, BlockFacts
    <3>2. next[f] > f /\ next[f] <= g
      BY <3>1, <2>3, <1>3, BlockFacts DEF Follows
    <3>3. f + size[f] <= next[f]
      BY <3>1, <3>2, <1>3, BlockFacts
    <3> QED BY <3>1, <3>2, <3>3, <2>4, BlockFacts
  <2> QED BY <2>4, <2>5, <1>3 DEF ExactInv, Gapped, Real
<1> QED BY <1>2, <1>3, <1>4

LEMMA NoneFits ==
  ASSUME HeapInv, ExactInv, AskedInv, NoBlockFound
  PROVE  UnitBlocks!Offers(op.bytes) = {}
<1> SUFFICES ASSUME NEW b \in UnitBlocks!Offers(op.bytes) PROVE FALSE
  OBVIOUS
<1> DEFINE a == b.at
<1>1. /\ op.need = UnitsFor(op.bytes) /\ op.need \in Nat \ {0}
      /\ \A x \in DOMAIN next : Passed(x) => size[x] < op.need
      /\ op.cur = freeList /\ size[op.cur] < op.need
  BY DEF AskedInv, NoBlockFound, HeapInv, Cursor
<1>2. /\ a \in 1 .. Units /\ b = [at |-> a, len |-> op.need]
      /\ UnitBlocks!Extent(b) \subseteq 1 .. Units
      /\ \A c \in Held : UnitBlocks!Apart(b, c)
  BY <1>1 DEF UnitBlocks!Offers, UnitBlocks!Vacant, AnyUnit
<1> HIDE DEF a
<1>3. UnitBlocks!Extent(b) = {u \in Nat : a <= u /\ u < a + op.need}
  BY <1>1, <1>2, Extents
<1>4. a + op.need <= Units + 1
  <2>1. (a + op.need) - 1 \in UnitBlocks!Extent(b)
    BY <1>1, <1>2, <1>3
  <2>2. (a + op.need) - 1 \in 1 .. Units
    BY <2>1, <1>2
  <2> QED BY <2>2, <1>1, <1>2, BlockFacts
<1>5. ASSUME NEW u \in Nat, a <= u, u < a + op.need, NEW c \in used, c <= u, u < c + size[c]
      PROVE  FALSE
  <2>1. c \in Nat /\ size[c] \in Nat
    BY BlockFacts
  <2>2. HeldAt(c) \in Held /\ UnitBlocks!Extent(HeldAt(c)) = {x \in Nat : c <= x /\ x < c + size[c]}
    BY <2>1, Extents DEF HeldAt, Held
  <2>3. u \in UnitBlocks!Extent(b) /\ u \in UnitBlocks!Extent(HeldAt(c))
    BY <1>3, <1>5, <2>2
  <2> QED BY <1>2, <2>2, <2>3 DEF UnitBlocks!Apart
<1>6. PICK f \in Free : f <= a /\ a + op.need <= f + size[f]
  BY <1>1, <1>2, <1>4, <1>5, OneBlock
<1>7. f \in DOMAIN next /\ freeList \in DOMAIN next
  BY <1>6 DEF Free, HeapInv, Parts
<1>8. size[f] < op.need
  <2>1. f = freeList \/ Passed(f)
    BY <1>1, <1>7, BlockFacts DEF Passed
  <2> QED BY <1>1, <1>7, <2>1
<1> QED BY <1>1, <1>2, <1>6, <1>7, <1>8, BlockFacts

(* A block of the request's length that overlaps nothing is one of those   *)
(* that Allocator may grant.                                               *)
LEMMA Granting ==
  ASSUME HeapInv, AskedInv, Searching, NEW a \in Nat \ {0}, a + op.need <= Units + 1,
         \A c \in used : c + size[c] <= a \/ a + op.need <= c,
         op'.bytes = 0, Held' = Held \cup {[at |-> a, len |-> op.need]}
  PROVE  UnitBlocks!Grant
<1> DEFINE b == [at |-> a, len |-> op.need]
<1>1. /\ op.bytes \in Nat \ {0} /\ op.need = UnitsFor(op.bytes) /\ op.need \in Nat \ {0}
      /\ Units \in Nat
  BY BlockFacts DEF AskedInv, HeapInv, Cursor
<1>2. UnitBlocks!Extent(b) = {u \in Nat : a <= u /\ u < a + op.need}
  BY <1>1, Extents
<1>3. a \in 1 .. Units /\ UnitBlocks!Extent(b) \subseteq 1 .. Units
  BY <1>1, <1>2
<1>4. ASSUME NEW h \in Held PROVE UnitBlocks!Apart(b, h)
  <2>1. PICK c \in used : h = HeldAt(c)
    BY DEF Held, HeldAt
  <2>2. c \in Nat /\ size[c] \in Nat
    BY BlockFacts
  <2>3. UnitBlocks!Extent(h) = {x \in Nat : c <= x /\ x < c + size[c]}
    BY <2>1, <2>2, Extents DEF HeldAt
  <2>4. c + size[c] <= a \/ a + op.need <= c
    OBVIOUS
  <2> HIDE DEF b
  <2> QED BY <1>1, <1>2, <2>2, <2>3, <2>4 DEF UnitBlocks!Apart
<1>5. b \in UnitBlocks!Offers(op.bytes)
  BY <1>1, <1>3, <1>4 DEF UnitBlocks!Offers, UnitBlocks!Vacant, AnyUnit
<1>6. (b.len - 1) * BLOCK_SIZE >= op.bytes
  BY <1>1, UnitsEnough
<1> QED BY <1>1, <1>5, <1>6 DEF UnitBlocks!Grant

LEMMA ExactFitGrants ==
  ASSUME HeapInv, AskedInv, ExactFit
  PROVE  UnitBlocks!Grant
<1> DEFINE q == op.cur
<1>1. /\ q \in DOMAIN next /\ op.need \in Nat \ {0} /\ size[q] = op.need /\ Searching
      /\ size' = size /\ used' = used \cup {q} /\ op' = Idle
  BY DEF HeapInv, Cursor, Sorted, Parts, ExactFit, Searching, Granted
<1>2. q \in Nat \ {0} /\ q \in DOMAIN size /\ q + size[q] <= Units + 1
  BY <1>1, BlockFacts DEF Sentinel
<1>3. \A c \in used : c + size[c] <= q \/ q + size[q] <= c
  <2>1. \A c \in used : c # q /\ c \in Nat
    BY <1>1, BlockFacts
  <2>2. \A c \in used : c < q \/ q < c
    BY <2>1, <1>2
  <2> QED BY <2>2, <1>2, BlockFacts
<1>4. Held' = Held \cup {[at |-> q, len |-> op.need]}
  BY <1>1 DEF Held
<1>5. op'.bytes = 0
  BY <1>1 DEF Idle
<1> HIDE DEF q
<1> QED BY <1>1, <1>2, <1>3, <1>4, <1>5, Granting

LEMMA SplitGrants ==
  ASSUME HeapInv, AskedInv, Split
  PROVE  UnitBlocks!Grant
<1> DEFINE q == op.cur
           rest == size[q] - op.need
           a == q + rest
<1>1. /\ q \in DOMAIN next /\ op.need \in Nat \ {0} /\ size[q] > op.need /\ Searching
      /\ size' = Write(Write(size, q, rest), a, op.need) /\ used' = used \cup {a} /\ op' = Idle
  BY DEF HeapInv, Cursor, Sorted, Parts, Split, Searching, Granted
<1>2. /\ q \in Nat \ {0} /\ q \in DOMAIN size /\ size[q] \in Nat /\ q + size[q] <= Units + 1
  BY <1>1, BlockFacts DEF Sentinel
<1>3. rest \in Nat \ {0} /\ a \in Nat \ {0} /\ a + op.need = q + size[q] /\ q < a
  BY <1>1, <1>2
<1> HIDE DEF q, rest, a
<1>4. \A c \in used : c \in DOMAIN size /\ c # q /\ (c + size[c] <= q \/ q + size[q] <= c)
  <2>1. \A c \in used : c # q /\ c \in Nat
    BY <1>1, BlockFacts
  <2>2. \A c \in used : c < q \/ q < c
    BY <2>1, <1>2
  <2> QED BY <2>1, <2>2, <1>2, BlockFacts
<1>5. \A c \in used : c # a /\ (c + size[c] <= a \/ a + op.need <= c)
  <2>1. \A c \in used : c \in Nat /\ size[c] \in Nat
    BY BlockFacts
  <2> QED BY <2>1, <1>1, <1>2, <1>3, <1>4
<1>6. size'[a] = op.need /\ \A c \in used : size'[c] = size[c]
  <2> DEFINE g == Write(size, q, rest)
  <2>1. Written(size, q, rest, g)
    BY WriteAt
  <2> HIDE DEF g
  <2>2. Written(g, a, op.need, Write(g, a, op.need))
    BY WriteAt
  <2>3. size' = Write(g, a, op.need)
    BY <1>1 DEF g
  <2> QED BY <2>1, <2>2, <2>3, <1>4, <1>5 DEF Written
<1>7. Held' = Held \cup {[at |-> a, len |-> op.need]}
  BY <1>1, <1>6 DEF Held
<1>8. op'.bytes = 0
  BY <1>1 DEF Idle
<1> QED BY <1>1, <1>2, <1>3, <1>5, <1>7, <1>8, Granting

LEMMA LinkReleases ==
  ASSUME HeapInv, AskedInv, Link
  PROVE  UnitBlocks!Release
<1> DEFINE b == op.block
           c == op.cur
           n == next[c]
<1>1. LinkPlace(b, c, n)
  BY LinkPlaced
<1>2. PICK h, gone : LinkShape(b, c, n, h, gone)
  BY <1>1, LinkShaped
<1>3. used' = used \ {b} /\ op.bytes = 0 /\ op'.bytes = 0
  BY DEF Link, Walking, AskedInv, Searching, Idle
<1> HIDE DEF b, c, n
<1>4. ASSUME NEW x \in used, x # b PROVE size'[x] = size[x]
  <2>1. x \in DOMAIN size /\ x \notin DOMAIN next /\ n \in DOMAIN next /\ c \in DOMAIN next
    BY <1>1, BlockFacts DEF LinkPlace
  <2>2. x \notin gone /\ x # h
    BY <1>2, <1>4, <2>1 DEF LinkShape
  <2> QED BY <1>2, <2>1, <2>2 DEF LinkShape
<1>5. Held' = Held \ {HeldAt(b)}
  <2>1. ASSUME NEW x \in used, x # b PROVE HeldAt(x) # HeldAt(b)
    BY <2>1 DEF HeldAt
  <2>2. Held = {HeldAt(x) : x \in used}
    BY DEF Held, HeldAt
  <2>3. Held' = {[at |-> x, len |-> size'[x]] : x \in used \ {b}}
    BY <1>3 DEF Held
  <2>4. Held' = {HeldAt(x) : x \in used \ {b}}
    BY <2>3, <1>4 DEF HeldAt
  <2> HIDE DEF HeldAt
  <2> QED BY <2>1, <2>2, <2>4
<1>6. HeldAt(b) \in Held
  BY <1>1 DEF LinkPlace, Held, HeldAt
<1> QED BY <1>3, <1>5, <1>6 DEF UnitBlocks!Release

LEMMA UnitsStep ==
  ASSUME HeapInv, ExactInv, AskedInv, [Next]_vars
  PROVE  [UnitBlocks!Next]_(UnitBlocks!vars)
<1> USE DEF UnitBlocks!Next, UnitBlocks!vars
<1>1. CASE \E bytes \in Sizes : mm_alloc(bytes)
  <2>1. op.bytes = 0
    BY <1>1 DEF mm_alloc, AskedInv, Searching
  <2>2. op'.bytes \in Nat \ {0} /\ UNCHANGED << size, used >>
    BY <1>1, SizesAssumption DEF mm_alloc, Idle
  <2> QED BY <2>1, <2>2 DEF UnitBlocks!Ask, Held
<1>2. CASE (\E a \in used : mm_free(a)) \/ SearchOn \/ WalkOn \/ UNCHANGED vars
  <2>1. UNCHANGED << size, used, op.bytes >>
    <3>1. CASE \E a \in used : mm_free(a)
      <4>1. op.bytes = 0
        BY <3>1 DEF mm_free, AskedInv, Searching
      <4>2. op'.bytes = 0 /\ UNCHANGED << size, used >>
        BY <3>1 DEF mm_free, Idle
      <4> QED BY <4>1, <4>2
    <3>2. CASE SearchOn
      BY <3>2 DEF SearchOn
    <3>3. CASE WalkOn
      BY <3>3 DEF WalkOn
    <3>4. CASE UNCHANGED vars
      BY <3>4 DEF vars
    <3> QED BY <1>2, <3>1, <3>2, <3>3, <3>4
  <2> QED BY <2>1 DEF Held
<1>3. CASE NoBlockFound
  <2>1. UnitBlocks!Offers(op.bytes) = {}
    BY <1>3, NoneFits
  <2>2. op.bytes # 0 /\ op'.bytes = 0 /\ UNCHANGED << size, used >>
    BY <1>3 DEF NoBlockFound, AskedInv, Idle
  <2> QED BY <2>1, <2>2 DEF UnitBlocks!Refuse, Held
<1>4. CASE ExactFit
  BY <1>4, ExactFitGrants
<1>5. CASE Split
  BY <1>5, SplitGrants
<1>6. CASE Link
  BY <1>6, LinkReleases
<1> QED BY <1>1, <1>2, <1>3, <1>4, <1>5, <1>6 DEF Next, Loops

(* The default heap implements Allocator.                                  *)
THEOREM UnitsImplement == Spec => UnitBlocks!Spec
<1>1. Init => UnitBlocks!Init
  BY DEF Init, UnitBlocks!Init, Held, Idle
<1>2. HeapInv /\ ExactInv /\ AskedInv /\ [Next]_vars => [UnitBlocks!Next]_(UnitBlocks!vars)
  BY UnitsStep
<1> QED BY HeapCorrect, HeapExact, AskedStart, AskedStep, <1>1, <1>2, PTL
        DEF Spec, UnitBlocks!Spec

-----------------------------------------------------------------------------
(* Powers of two.                                                          *)
LEMMA SomeLeast ==
  ASSUME NEW T, T \subseteq Nat, T # {}
  PROVE  \E x \in T : \A y \in T : x <= y
<1> DEFINE R == OpToRel(<, Nat)
<1>1. IsWellFoundedOn(R, Nat)
  BY NatLessThanWellFounded
<1>2. \A x, y \in Nat : << y, x >> \in R <=> y < x
  BY DEF OpToRel
<1> HIDE DEF R
<1>3. PICK x \in T : \A y \in T : ~ (<< y, x >> \in R)
  BY <1>1, WFMin, Zenon
<1>4. ASSUME NEW y \in T PROVE x <= y
  <2>1. x \in Nat /\ y \in Nat /\ ~ (y < x)
    BY <1>2, <1>3
  <2> QED BY <2>1
<1> QED BY <1>4

(* g is PagesOf up to n.                                                   *)
PagesUpTo(n, g) ==
  /\ g \in [0 .. n -> Nat] /\ g[0] = 1
  /\ \A k \in 1 .. n : g[k] = 2 * g[k - 1]

LEMMA PagesUpToExists == \A n \in Nat : \E g : PagesUpTo(n, g)
<1> DEFINE T == {n \in Nat : ~ \E g : PagesUpTo(n, g)}
<1> SUFFICES ASSUME T # {} PROVE FALSE
  OBVIOUS
<1>1. PICK n \in T : \A m \in T : n <= m
  <2> HIDE DEF T
  <2>1. T \subseteq Nat
    BY DEF T
  <2> QED BY <2>1, SomeLeast
<1>2. CASE n = 0
  <2>1. PagesUpTo(0, [k \in 0 .. 0 |-> 1])
    BY DEF PagesUpTo
  <2> QED BY <1>2, <2>1
<1>3. CASE n # 0
  <2>1. n \in Nat /\ n - 1 \in Nat /\ n - 1 \notin T
    BY <1>1, <1>3
  <2>2. PICK g : PagesUpTo(n - 1, g)
    BY <2>1
  <2> DEFINE h == [k \in 0 .. n |-> IF k = n THEN 2 * g[n - 1] ELSE g[k]]
  <2>3. g \in [0 .. n - 1 -> Nat] /\ g[0] = 1 /\ \A k \in 1 .. n - 1 : g[k] = 2 * g[k - 1]
    BY <2>2 DEF PagesUpTo
  <2>4. h \in [0 .. n -> Nat] /\ h[0] = 1
    BY <2>1, <2>3, <1>3
  <2>5. \A k \in 1 .. n : h[k] = 2 * h[k - 1]
    BY <2>1, <2>3
  <2> HIDE DEF h
  <2>6. PagesUpTo(n, h)
    BY <2>4, <2>5 DEF PagesUpTo
  <2> QED BY <2>6
<1> QED BY <1>2, <1>3

LEMMA PagesUpToAgree ==
  ASSUME NEW n \in Nat, NEW m \in Nat, NEW g, NEW h, PagesUpTo(n, g), PagesUpTo(m, h),
         NEW k \in 0 .. n, k <= m
  PROVE  g[k] = h[k]
<1> DEFINE T == {j \in Nat : j <= n /\ j <= m /\ g[j] # h[j]}
<1> SUFFICES ASSUME T # {} PROVE FALSE
  OBVIOUS
<1>1. PICK j \in T : \A i \in T : j <= i
  <2> HIDE DEF T
  <2>1. T \subseteq Nat
    BY DEF T
  <2> QED BY <2>1, SomeLeast
<1>2. j # 0
  BY DEF PagesUpTo
<1>3. j - 1 \notin T /\ j - 1 \in Nat /\ j \in 1 .. n /\ j \in 1 .. m
  BY <1>1, <1>2
<1>4. g[j - 1] = h[j - 1]
  BY <1>3
<1> QED BY <1>3, <1>4 DEF PagesUpTo

(* The recursive definition defines: one page, and twice as many with each *)
(* order.                                                                  *)
LEMMA PagesDouble ==
  /\ B!PagesOf[0] = 1
  /\ \A o \in Nat : B!PagesOf[o] \in Nat /\ B!PagesOf[o + 1] = 2 * B!PagesOf[o]
<1> DEFINE G(n) == CHOOSE g : PagesUpTo(n, g)
           F == [n \in Nat |-> G(n)[n]]
           Def(f) == f = [o \in Nat |-> IF o = 0 THEN 1 ELSE 2 * f[o - 1]]
<1>1. \A n \in Nat : PagesUpTo(n, G(n))
  BY PagesUpToExists, Zenon
<1> HIDE DEF G
<1>2. F[0] = 1
  BY <1>1 DEF PagesUpTo
<1>3. ASSUME NEW n \in Nat, n # 0 PROVE F[n] = 2 * F[n - 1]
  <2>1. n - 1 \in Nat /\ n \in 1 .. n /\ n - 1 \in 0 .. n - 1 /\ n - 1 <= n
    BY <1>3
  <2>2. G(n)[n] = 2 * G(n)[n - 1]
    BY <1>1, <2>1 DEF PagesUpTo
  <2>3. G(n - 1)[n - 1] = G(n)[n - 1]
    BY <1>1, <2>1, PagesUpToAgree
  <2> QED BY <2>1, <2>2, <2>3
<1>4. Def(F)
  <2> DEFINE H == [o \in Nat |-> IF o = 0 THEN 1 ELSE 2 * F[o - 1]]
  <2>1. \A n \in Nat : F[n] = H[n]
    BY <1>2, <1>3
  <2>2. F = [n \in Nat |-> F[n]] /\ H = [n \in Nat |-> H[n]]
    OBVIOUS
  <2> HIDE DEF F, H
  <2>3. F = H
    BY <2>1, <2>2
  <2> QED BY <2>3 DEF H
<1>5. B!PagesOf = CHOOSE f : Def(f)
  BY DEF B!PagesOf
<1> HIDE DEF F
<1>6. Def(B!PagesOf)
  <2> HIDE DEF Def
  <2> QED BY <1>4, <1>5, Zenon
<1> DEFINE P == B!PagesOf
<1> HIDE DEF P
<1>7. P = [o \in Nat |-> IF o = 0 THEN 1 ELSE 2 * P[o - 1]]
  BY <1>6 DEF P
<1>8. P[0] = 1
  BY <1>7
<1>9. \A o \in Nat : P[o + 1] = 2 * P[o]
  BY <1>7
<1> DEFINE T == {o \in Nat : P[o] \notin Nat}
<1>10. T = {}
  <2> SUFFICES ASSUME T # {} PROVE FALSE
    OBVIOUS
  <2>1. PICK o \in T : \A x \in T : o <= x
    <3> HIDE DEF T
    <3>1. T \subseteq Nat
      BY DEF T
    <3> QED BY <3>1, SomeLeast
  <2>2. o # 0
    BY <1>8
  <2>3. o - 1 \in Nat /\ o - 1 \notin T /\ (o - 1) + 1 = o
    BY <2>1, <2>2
  <2>4. P[o] = 2 * P[o - 1] /\ P[o - 1] \in Nat
    BY <2>3, <1>9
  <2> QED BY <2>4
<1> QED BY <1>8, <1>9, <1>10 DEF P

-----------------------------------------------------------------------------
(* Blocks of pages.                                                        *)
Span(o) == B!PagesOf[o]

(* The first frame of a block is a multiple of its length.                 *)
Aligned(p, o) == \E k \in Nat : BaseFrame + p = k * Span(o)

LEMMA Spans ==
  /\ Span(0) = 1
  /\ \A o \in Nat : Span(o) \in Nat \ {0} /\ Span(o + 1) = 2 * Span(o)
<1>1. Span(0) = 1 /\ \A o \in Nat : Span(o) \in Nat /\ Span(o + 1) = 2 * Span(o)
  BY PagesDouble DEF Span
<1> DEFINE T == {o \in Nat : Span(o) = 0}
<1>2. T = {}
  <2> SUFFICES ASSUME T # {} PROVE FALSE
    OBVIOUS
  <2>1. PICK o \in T : \A x \in T : o <= x
    <3> HIDE DEF T
    <3>1. T \subseteq Nat
      BY DEF T
    <3> QED BY <3>1, SomeLeast
  <2>2. o # 0
    BY <1>1
  <2>3. o - 1 \in Nat /\ o - 1 \notin T /\ (o - 1) + 1 = o
    BY <2>1, <2>2
  <2>4. Span(o) = 2 * Span(o - 1) /\ Span(o - 1) \in Nat /\ Span(o - 1) # 0
    BY <2>3, <1>1
  <2> QED BY <2>4
<1> QED BY <1>1, <1>2

LEMMA SpanMultiple ==
  ASSUME NEW o \in Nat, NEW j \in Nat, o <= j
  PROVE  \E m \in Nat \ {0} : Span(j) = m * Span(o)
<1> DEFINE T == {i \in Nat : o <= i /\ ~ \E m \in Nat \ {0} : Span(i) = m * Span(o)}
<1> SUFFICES ASSUME T # {} PROVE FALSE
  OBVIOUS
<1>1. PICK i \in T : \A x \in T : i <= x
  <2> HIDE DEF T
  <2>1. T \subseteq Nat
    BY DEF T
  <2> QED BY <2>1, SomeLeast
<1>2. i # o
  <2>1. Span(o) = 1 * Span(o)
    BY Spans
  <2> QED BY <2>1
<1>3. i - 1 \in Nat /\ i - 1 \notin T /\ (i - 1) + 1 = i /\ o <= i - 1
  BY <1>1, <1>2
<1>4. PICK m \in Nat \ {0} : Span(i - 1) = m * Span(o)
  BY <1>3
<1>5. Span(i) = (2 * m) * Span(o)
  <2>1. Span(i) = 2 * Span(i - 1) /\ Span(o) \in Nat
    BY <1>3, Spans
  <2> QED BY <1>4, <2>1
<1>6. 2 * m \in Nat \ {0}
  OBVIOUS
<1> QED BY <1>5, <1>6

LEMMA Times ==
  ASSUME NEW x \in Int, NEW y \in Int, NEW d \in Nat, x <= y
  PROVE  x * d <= y * d
OBVIOUS

LEMMA SpanLarger ==
  ASSUME NEW o \in Nat, NEW j \in Nat, o <= j
  PROVE  Span(o) <= Span(j)
<1>1. PICK m \in Nat \ {0} : Span(j) = m * Span(o)
  BY SpanMultiple
<1>2. Span(o) \in Nat /\ 1 * Span(o) = Span(o)
  BY Spans
<1>3. 1 * Span(o) <= m * Span(o)
  BY <1>2, Times
<1> QED BY <1>1, <1>2, <1>3

LEMMA NestedSteps ==
  ASSUME NEW d \in Nat \ {0}, NEW a \in Int, NEW c \in Int, NEW m \in Nat \ {0}, NEW u \in Int,
         a * d <= u, u < a * d + d, c * d <= u, u < c * d + m * d
  PROVE  c * d <= a * d /\ a * d + d <= c * d + m * d
<1>1. (a + 1) * d = a * d + d /\ (c + m) * d = c * d + m * d
  OBVIOUS
<1>2. /\ a * d \in Int /\ c * d \in Int /\ m * d \in Int
      /\ (a + 1) * d \in Int /\ (c + m) * d \in Int
  OBVIOUS
<1>3. c * d < (a + 1) * d /\ a * d < (c + m) * d
  BY <1>1, <1>2
<1>4. ~ (a + 1 <= c)
  <2>1. a + 1 <= c => (a + 1) * d <= c * d
    BY Times
  <2> QED BY <2>1, <1>2, <1>3
<1>5. ~ (c + m <= a)
  <2>1. c + m <= a => (c + m) * d <= a * d
    BY Times
  <2> QED BY <2>1, <1>2, <1>3
<1>6. c <= a /\ a + 1 <= c + m
  BY <1>4, <1>5
<1>7. c * d <= a * d /\ (a + 1) * d <= (c + m) * d
  BY <1>6, Times
<1> QED BY <1>1, <1>2, <1>7

InBlock(u, p, o) == p <= u /\ u < p + Span(o)

(* Of two blocks that share a page the smaller lies in the larger.         *)
LEMMA Nested ==
  ASSUME NEW p \in Int, NEW q \in Int, NEW o \in Nat, NEW j \in Nat, o <= j,
         Aligned(p, o), Aligned(q, j), NEW u \in Int, InBlock(u, p, o), InBlock(u, q, j)
  PROVE  q <= p /\ p + Span(o) <= q + Span(j)
<1>1. PICK a \in Nat : BaseFrame + p = a * Span(o)
  BY DEF Aligned
<1>2. PICK b \in Nat : BaseFrame + q = b * Span(j)
  BY DEF Aligned
<1>3. PICK m \in Nat \ {0} : Span(j) = m * Span(o)
  BY SpanMultiple
<1> DEFINE d == Span(o)
           c == b * m
           v == BaseFrame + u
<1>4. d \in Nat \ {0} /\ BaseFrame \in Nat
  BY Spans, PagesAssumption
<1> HIDE DEF d
<1>5. c \in Nat /\ BaseFrame + q = c * d /\ Span(j) = m * d /\ BaseFrame + p = a * d
  <2>1. b * (m * d) = (b * m) * d
    BY <1>4
  <2> QED BY <2>1, <1>1, <1>2, <1>3 DEF d
<1> HIDE DEF c
<1>6. a * d <= v /\ v < a * d + d /\ c * d <= v /\ v < c * d + m * d
  <2>1. p <= u /\ u < p + d /\ q <= u /\ u < q + m * d
    BY <1>5 DEF InBlock, d
  <2>2. a * d \in Int /\ c * d \in Int /\ m * d \in Int
    BY <1>4, <1>5
  <2> QED BY <2>1, <2>2, <1>4, <1>5
<1>7. c * d <= a * d /\ a * d + d <= c * d + m * d
  <2>1. v \in Int
    BY <1>4
  <2> HIDE DEF v
  <2> QED BY <2>1, <1>4, <1>5, <1>6, NestedSteps
<1>8. a * d \in Int /\ c * d \in Int /\ m * d \in Int
  BY <1>4, <1>5
<1>9. p + d <= q + m * d /\ q <= p
  BY <1>4, <1>5, <1>7, <1>8
<1> QED BY <1>5, <1>9 DEF d

LEMMA SameBlock ==
  ASSUME NEW p \in Int, NEW q \in Int, NEW o \in Nat,
         Aligned(p, o), Aligned(q, o), NEW u \in Int, InBlock(u, p, o), InBlock(u, q, o)
  PROVE  p = q
<1>1. q <= p /\ p <= q
  BY Nested
<1> QED BY <1>1

LEMMA Quotient ==
  ASSUME NEW k \in Nat, NEW d \in Nat \ {0}
  PROVE  (k * d) \div d = k /\ (k * d) % d = 0
<1> DEFINE n == k * d
           q == n \div d
<1>1. n \in Nat
  OBVIOUS
<1>2. n % d = 0
  OBVIOUS
<1> HIDE DEF n
<1>3. q \in Nat /\ n = d * q + (n % d)
  BY <1>1, DivMod
<1> HIDE DEF q
<1>4. k * d = q * d
  BY <1>1, <1>2, <1>3 DEF n
<1>5. k < q => (k + 1) * d <= q * d
  BY <1>3, Times
<1>6. q < k => (q + 1) * d <= k * d
  BY <1>3, Times
<1>7. (k + 1) * d = k * d + d /\ (q + 1) * d = q * d + d /\ k * d \in Int /\ q * d \in Int
  BY <1>3
<1>8. k = q
  BY <1>3, <1>4, <1>5, <1>6, <1>7
<1> QED BY <1>2, <1>8 DEF n, q

Lower(p, o) == IF B!get_buddy(p, o) < p THEN B!get_buddy(p, o) ELSE p

(* The buddies of an order: each is the other's, and together they are one *)
(* block of the next order.                                                *)
LEMMA EvenBlock ==
  ASSUME NEW p \in Int, NEW o \in Nat, NEW h \in Nat, BaseFrame + p = (2 * h) * Span(o)
  PROVE  B!get_buddy(p, o) = p + Span(o)
<1> DEFINE d == Span(o)
<1>1. d \in Nat \ {0} /\ 2 * h \in Nat
  BY Spans
<1> HIDE DEF d
<1>2. ((2 * h) * d) \div d = 2 * h
  BY <1>1, Quotient
<1>3. (2 * h) % 2 = 0
  OBVIOUS
<1>4. ((BaseFrame + p) \div d) % 2 = 0
  BY <1>2, <1>3 DEF d
<1> QED BY <1>4 DEF B!get_buddy, d, Span

LEMMA OddBlock ==
  ASSUME NEW p \in Int, NEW o \in Nat, NEW h \in Nat, BaseFrame + p = (2 * h + 1) * Span(o)
  PROVE  B!get_buddy(p, o) = p - Span(o)
<1> DEFINE d == Span(o)
<1>1. d \in Nat \ {0} /\ 2 * h + 1 \in Nat
  BY Spans
<1> HIDE DEF d
<1>2. ((2 * h + 1) * d) \div d = 2 * h + 1
  BY <1>1, Quotient
<1>3. (2 * h + 1) % 2 = 1
  OBVIOUS
<1>4. ((BaseFrame + p) \div d) % 2 = 1
  BY <1>2, <1>3 DEF d
<1> QED BY <1>4 DEF B!get_buddy, d, Span

LEMMA Halves ==
  ASSUME NEW p \in Int, NEW o \in Nat, Aligned(p, o + 1)
  PROVE  /\ Aligned(p, o) /\ Aligned(p + Span(o), o)
         /\ B!get_buddy(p, o) = p + Span(o) /\ B!get_buddy(p + Span(o), o) = p
<1>1. PICK h \in Nat : BaseFrame + p = h * Span(o + 1)
  BY DEF Aligned
<1> DEFINE d == Span(o)
<1>2. d \in Nat \ {0} /\ Span(o + 1) = 2 * d /\ BaseFrame \in Nat
  BY Spans, PagesAssumption
<1> HIDE DEF d
<1>3. h * (2 * d) = (2 * h) * d /\ (2 * h + 1) * d = (2 * h) * d + d /\ (2 * h) * d \in Int
  BY <1>2
<1>4. BaseFrame + p = (2 * h) * d /\ BaseFrame + (p + d) = (2 * h + 1) * d
  BY <1>1, <1>2, <1>3
<1>5. 2 * h \in Nat /\ 2 * h + 1 \in Nat /\ p + d \in Int
  BY <1>2
<1>6. Aligned(p, o) /\ Aligned(p + d, o)
  BY <1>4, <1>5 DEF Aligned, d
<1>7. B!get_buddy(p, o) = p + d
  BY <1>4, EvenBlock DEF d
<1>8. B!get_buddy(p + d, o) = (p + d) - d
  <2> DEFINE q == p + d
  <2>1. q \in Int /\ BaseFrame + q = (2 * h + 1) * Span(o)
    BY <1>4, <1>5 DEF d
  <2> HIDE DEF q
  <2>2. B!get_buddy(q, o) = q - d
    BY <2>1, OddBlock DEF d
  <2> QED BY <2>2 DEF q
<1>9. (p + d) - d = p
  BY <1>2
<1> QED BY <1>6, <1>7, <1>8, <1>9 DEF d

LEMMA Buddies ==
  ASSUME NEW p \in Int, NEW o \in Nat, Aligned(p, o), NEW b, b = B!get_buddy(p, o)
  PROVE  /\ b \in Int /\ Aligned(b, o) /\ B!get_buddy(b, o) = p
         /\ b = p + Span(o) \/ p = b + Span(o)
         /\ Aligned(Lower(p, o), o + 1)
<1>1. PICK k \in Nat : BaseFrame + p = k * Span(o)
  BY DEF Aligned
<1> DEFINE d == Span(o)
<1>2. d \in Nat \ {0} /\ Span(o + 1) = 2 * d /\ BaseFrame \in Nat
  BY Spans, PagesAssumption
<1> HIDE DEF d
<1>3. CASE \E h \in Nat : k = 2 * h
  <2>1. PICK h \in Nat : k = 2 * h
    BY <1>3
  <2>2. b = p + d
    BY <1>1, <2>1, EvenBlock DEF d
  <2>3. h * (2 * d) = (2 * h) * d
    BY <1>2
  <2>4. Aligned(p, o + 1)
    BY <1>1, <1>2, <2>1, <2>3 DEF Aligned, d
  <2>5. Lower(p, o) = p
    BY <2>2, <1>2 DEF Lower
  <2> QED BY <2>2, <2>4, <2>5, <1>2, Halves DEF d
<1>4. CASE \E h \in Nat : k = 2 * h + 1
  <2>1. PICK h \in Nat : k = 2 * h + 1
    BY <1>4
  <2>2. b = p - d
    BY <1>1, <2>1, OddBlock DEF d
  <2>3. h * (2 * d) = (2 * h) * d /\ (2 * h + 1) * d = (2 * h) * d + d /\ (2 * h) * d \in Int
    BY <1>2
  <2>4. b \in Int /\ BaseFrame + b = h * (2 * d) /\ p = b + d
    BY <1>1, <1>2, <2>1, <2>2, <2>3 DEF d
  <2>5. Aligned(b, o + 1)
    BY <1>2, <2>4 DEF Aligned
  <2>6. Lower(p, o) = b
    BY <2>2, <1>2 DEF Lower
  <2> QED BY <2>4, <2>5, <2>6, <1>2, Halves DEF d
<1>5. (\E h \in Nat : k = 2 * h) \/ (\E h \in Nat : k = 2 * h + 1)
  <2> DEFINE h == k \div 2
  <2>1. h \in Nat /\ (k = 2 * h \/ k = 2 * h + 1)
    OBVIOUS
  <2> QED BY <2>1
<1> QED BY <1>3, <1>4, <1>5

(* A block and its buddy do not overlap.                                   *)
LEMMA BuddyUnion ==
  ASSUME NEW p \in Int, NEW o \in Nat, Aligned(p, o), NEW u \in Int
  PROVE  /\ InBlock(u, Lower(p, o), o + 1)
              <=> InBlock(u, p, o) \/ InBlock(u, B!get_buddy(p, o), o)
         /\ ~ (InBlock(u, p, o) /\ InBlock(u, B!get_buddy(p, o), o))
<1> DEFINE b == B!get_buddy(p, o)
<1>1. b \in Int /\ (b = p + Span(o) \/ p = b + Span(o))
  BY Buddies
<1>2. Span(o) \in Nat \ {0} /\ Span(o + 1) = 2 * Span(o)
  BY Spans
<1> HIDE DEF b
<1>3. Lower(p, o) = IF b < p THEN b ELSE p
  BY DEF Lower, b
<1>4. /\ InBlock(u, Lower(p, o), o + 1) <=> InBlock(u, p, o) \/ InBlock(u, b, o)
      /\ ~ (InBlock(u, p, o) /\ InBlock(u, b, o))
  BY <1>1, <1>2, <1>3 DEF InBlock
<1> QED BY <1>4 DEF b

-----------------------------------------------------------------------------
(* The invariant of the buddy heap.                                        *)
PagesTyped ==
  /\ free \subseteq B!Page /\ pagesUsed \subseteq B!Page
  /\ order \in [B!Page -> B!Orders]
  /\ lists \in [B!Orders -> Seq(B!Page)]
  /\ count \in [B!Orders -> Nat]

(* The call: what buddy_add_memory has still to add, the block that is on  *)
(* its way into a list or out of one.                                      *)
Moving == pagesOp.at \in {"join", "split"}

Calls == [at : {"idle", "adding", "join", "request", "split"}, bytes : Int, block : Int,
          page : Int, order : Int, target : Int, left : Int]

CallTyped ==
  /\ pagesOp \in Calls
  /\ pagesOp.left \in 0 .. Pages
  /\ pagesOp.left # 0 => pagesOp.at \in {"adding", "join"}
  /\ pagesOp.at = "adding" => pagesOp.left # 0 /\ pagesOp.page = Pages - pagesOp.left
  /\ pagesOp.at # "join" => pagesOp.block = B!NoPage
  /\ Moving => pagesOp.page \in B!Page /\ pagesOp.order \in B!Orders
  /\ pagesOp.at \in {"request", "split"} => pagesOp.target \in Nat
  /\ pagesOp.at = "split" => pagesOp.target <= pagesOp.order

(* The end of the pages that the heap has.                                 *)
Added == Pages - pagesOp.left

(* A block that is being freed no longer counts as held.                   *)
HeldPages == pagesUsed \ {pagesOp.block}

Once(q) == \A i, j \in 1 .. Len(q) : q[i] = q[j] => i = j

Placed(p, o, end) == Aligned(p, o) /\ p + Span(o) <= end

(* Lists, flags and orders describe the same blocks.                       *)
FreeOK ==
  /\ \A o \in B!Orders : Once(lists[o]) /\ count[o] = Len(lists[o])
  /\ \A o \in B!Orders : \A p \in B!Listed(o) : Placed(p, o, Added)
  /\ \A o \in B!Orders : \A p \in B!Listed(o) : \A u \in B!Page :
       InBlock(u, p, o) => u \in free /\ order[u] = o
  /\ \A u \in free : \E p \in B!Listed(order[u]) : InBlock(u, p, order[u])

HeldOK ==
  /\ \A p \in HeldPages : Placed(p, order[p], Added)
  /\ \A p \in HeldPages : \A u \in B!Page : InBlock(u, p, order[p]) => u \notin free
  /\ \A p, q \in HeldPages : \A u \in B!Page :
       InBlock(u, p, order[p]) /\ InBlock(u, q, order[q]) => p = q

MovingOK ==
  Moving =>
    /\ Placed(pagesOp.page, pagesOp.order, Added)
    /\ \A u \in B!Page : InBlock(u, pagesOp.page, pagesOp.order) =>
         u \notin free /\ \A p \in HeldPages : ~ InBlock(u, p, order[p])

(* No page gets lost.                                                      *)
NoneLost ==
  \A u \in B!Page : u < Added =>
    \/ u \in free
    \/ \E p \in HeldPages : InBlock(u, p, order[p])
    \/ Moving /\ InBlock(u, pagesOp.page, pagesOp.order)

(* No free block has a free buddy of its order.                            *)
Coalesced == \A o \in B!Orders : \A p \in B!Listed(o) : ~ B!Joins(p, o)

PagesAsked ==
  IF pagesOp.at \in {"request", "split"}
    THEN pagesOp.bytes \in PageRequests /\ pagesOp.target = B!OrderFor(pagesOp.bytes)
    ELSE pagesOp.bytes = 0

PagesInv ==
  /\ PagesTyped /\ CallTyped /\ FreeOK /\ HeldOK /\ MovingOK
  /\ NoneLost /\ Coalesced /\ PagesAsked

-----------------------------------------------------------------------------
(* Lists.                                                                  *)
Elements(q) == {q[i] : i \in 1 .. Len(q)}

LEMMA ListAdded ==
  ASSUME NEW T, NEW q \in Seq(T), Once(q), NEW p \in T, p \notin Elements(q)
  PROVE  /\ B!list_add(q, p) \in Seq(T) /\ Once(B!list_add(q, p))
         /\ Elements(B!list_add(q, p)) = Elements(q) \cup {p}
         /\ Len(B!list_add(q, p)) = Len(q) + 1
<1> DEFINE r == << p >> \o q
<1>1. /\ r \in Seq(T) /\ Len(r) = Len(q) + 1
      /\ r[1] = p
      /\ \A i \in 1 .. Len(q) : r[i + 1] = q[i]
  OBVIOUS
<1> HIDE DEF r
<1>2. Len(q) \in Nat
  OBVIOUS
<1>3. \A i \in 2 .. Len(r) : i - 1 \in 1 .. Len(q) /\ r[i] = q[i - 1]
  BY <1>1, <1>2
<1>4. \A i \in 1 .. Len(q) : q[i] # p
  BY DEF Elements
<1>5. Once(r)
  <2> SUFFICES ASSUME NEW i \in 1 .. Len(r), NEW j \in 1 .. Len(r), r[i] = r[j]
               PROVE  i = j
    BY DEF Once
  <2>0. \A k \in 2 .. Len(r) : r[k] # p
    BY <1>3, <1>4
  <2>1. CASE i = 1
    BY <2>0, <2>1, <1>1
  <2>2. CASE j = 1
    BY <2>0, <2>2, <1>1
  <2>3. CASE i # 1 /\ j # 1
    <3>1. i - 1 \in 1 .. Len(q) /\ j - 1 \in 1 .. Len(q) /\ q[i - 1] = q[j - 1]
      BY <2>3, <1>1, <1>2, <1>3
    <3>2. i - 1 = j - 1
      BY <3>1 DEF Once
    <3> QED BY <3>2
  <2> QED BY <2>1, <2>2, <2>3
<1>6. Elements(r) \subseteq Elements(q) \cup {p}
  BY <1>1, <1>3 DEF Elements
<1>7. ASSUME NEW x \in Elements(q) PROVE x \in Elements(r)
  <2>1. PICK i \in 1 .. Len(q) : q[i] = x
    BY DEF Elements
  <2>2. i + 1 \in 1 .. Len(r) /\ r[i + 1] = x
    BY <2>1, <1>1, <1>2
  <2> QED BY <2>2 DEF Elements
<1>8. p \in Elements(r)
  BY <1>1, <1>2 DEF Elements
<1> QED BY <1>1, <1>5, <1>6, <1>7, <1>8 DEF B!list_add, r

LEMMA ListUnlinked ==
  ASSUME NEW T, NEW q \in Seq(T), Once(q), NEW p
  PROVE  /\ B!list_del(q, p) \in Seq(T) /\ Once(B!list_del(q, p))
         /\ Elements(B!list_del(q, p)) = Elements(q) \ {p}
         /\ Len(B!list_del(q, p)) = Len(q) - (IF p \in Elements(q) THEN 1 ELSE 0)
<1>0. Len(q) \in Nat
  OBVIOUS
<1>1. CASE ~ \E i \in 1 .. Len(q) : q[i] = p
  BY <1>1, <1>0 DEF B!list_del, Elements
<1>2. CASE \E i \in 1 .. Len(q) : q[i] = p
  <2> DEFINE pos == CHOOSE i \in 1 .. Len(q) : q[i] = p
             r == [j \in 1 .. Len(q) - 1 |-> IF j < pos THEN q[j] ELSE q[j + 1]]
  <2>1. B!list_del(q, p) = r
    BY <1>2 DEF B!list_del
  <2>2. pos \in 1 .. Len(q) /\ q[pos] = p
    BY <1>2
  <2>3. \A j \in 1 .. Len(q) - 1 : r[j] = IF j < pos THEN q[j] ELSE q[j + 1]
    OBVIOUS
  <2> HIDE DEF pos
  <2>4. r \in Seq(T) /\ Len(r) = Len(q) - 1
    <3>1. \A j \in 1 .. Len(q) - 1 : j \in 1 .. Len(q) /\ j + 1 \in 1 .. Len(q)
      BY <1>0
    <3>2. \A j \in 1 .. Len(q) - 1 : (IF j < pos THEN q[j] ELSE q[j + 1]) \in T
      BY <3>1
    <3>3. r \in [1 .. Len(q) - 1 -> T] /\ Len(q) - 1 \in Nat
      BY <3>2, <2>2, <1>0
    <3> HIDE DEF r
    <3>4. r \in Seq(T)
      BY <3>3
    <3> QED BY <3>3, <3>4
  <2> HIDE DEF r
  <2>5. Once(r)
    <3> SUFFICES ASSUME NEW i \in 1 .. Len(r), NEW j \in 1 .. Len(r), r[i] = r[j]
                 PROVE  i = j
      BY DEF Once
    <3> DEFINE a == IF i < pos THEN i ELSE i + 1
               b == IF j < pos THEN j ELSE j + 1
    <3>1. a \in 1 .. Len(q) /\ b \in 1 .. Len(q) /\ q[a] = q[b]
      BY <2>2, <2>3, <2>4, <1>0
    <3>2. a = b
      BY <3>1 DEF Once
    <3> QED BY <3>2, <2>2
  <2>6. Elements(r) \subseteq Elements(q) \ {p}
    <3> SUFFICES ASSUME NEW j \in 1 .. Len(r) PROVE r[j] \in Elements(q) \ {p}
      BY DEF Elements
    <3> DEFINE a == IF j < pos THEN j ELSE j + 1
    <3>1. a \in 1 .. Len(q) /\ a # pos /\ r[j] = q[a]
      BY <2>2, <2>3, <2>4, <1>0
    <3>2. q[a] # p
      BY <3>1, <2>2 DEF Once
    <3> QED BY <3>1, <3>2 DEF Elements
  <2>7. ASSUME NEW x \in Elements(q), x # p PROVE x \in Elements(r)
    <3>1. PICK i \in 1 .. Len(q) : q[i] = x
      BY DEF Elements
    <3>2. i # pos
      BY <3>1, <2>2, <2>7
    <3> DEFINE a == IF i < pos THEN i ELSE i - 1
    <3>3. a \in 1 .. Len(r) /\ r[a] = x
      BY <3>1, <3>2, <2>2, <2>3, <2>4, <1>0
    <3> QED BY <3>3 DEF Elements
  <2>8. p \in Elements(q)
    BY <2>2 DEF Elements
  <2> QED BY <2>1, <2>4, <2>5, <2>6, <2>7, <2>8
<1> QED BY <1>1, <1>2

(* A list without repetition is as long as what it holds is large.         *)
LEMMA ListCounts ==
  ASSUME NEW T, NEW q \in Seq(T), Once(q)
  PROVE  Cardinality(Elements(q)) = Len(q)
<1> DEFINE n == Len(q)
<1>0. n \in Nat
  OBVIOUS
<1> HIDE DEF n
<1>1. IsFiniteSet(1 .. n) /\ Cardinality(1 .. n) = n
  BY <1>0, FS_Interval
<1>2. q \in Bijection(1 .. n, Elements(q))
  BY DEF Once, Elements, Bijection, Injection, Surjection, IsInjective, n
<1> QED BY <1>1, <1>2, FS_Bijection DEF ExistsBijection, n

-----------------------------------------------------------------------------
(* A block leaves the free lists, or comes into one.                       *)
LEMMA Numbers ==
  /\ Pages \in Nat \ {0} /\ BaseFrame \in Nat /\ MAX_ORDER \in Nat
  /\ B!Page = 0 .. Pages - 1 /\ B!Orders = 0 .. MAX_ORDER
  /\ \A u \in B!Page : u \in Nat
  /\ \A o \in B!Orders : o \in Nat
BY PagesAssumption DEF B!Page, B!Orders

LEMMA InOwnBlock ==
  ASSUME NEW p \in Int, NEW o \in Nat
  PROVE  InBlock(p, p, o)
BY Spans DEF InBlock

LEMMA BlockOf ==
  ASSUME NEW p \in Int, NEW o \in Nat, NEW u
  PROVE  u \in B!Block(p, o) <=> u \in Int /\ InBlock(u, p, o)
<1>1. Span(o) \in Nat
  BY Spans
<1>2. B!Block(p, o) = p .. (p + Span(o) - 1)
  BY DEF B!Block, Span
<1> QED BY <1>1, <1>2 DEF InBlock

LEMMA ListedFacts ==
  ASSUME PagesTyped, FreeOK, NEW o \in B!Orders, NEW p \in B!Listed(o)
  PROVE  /\ o \in Nat /\ p \in B!Page /\ p \in Int /\ Aligned(p, o) /\ InBlock(p, p, o)
         /\ p \in free /\ order[p] = o
<1>1. lists[o] \in Seq(B!Page) /\ o \in Nat
  BY Numbers DEF PagesTyped
<1>2. p \in B!Page
  <2>1. PICK i \in 1 .. Len(lists[o]) : p = lists[o][i]
    BY DEF B!Listed
  <2> QED BY <1>1, <2>1
<1>3. p \in Int
  BY <1>2, Numbers
<1>4. InBlock(p, p, o)
  BY <1>1, <1>3, InOwnBlock
<1> QED BY <1>1, <1>2, <1>3, <1>4 DEF FreeOK, Placed

LEMMA OneListed ==
  ASSUME PagesTyped, FreeOK, NEW o \in B!Orders, NEW j \in B!Orders,
         NEW p \in B!Listed(o), NEW q \in B!Listed(j), NEW u \in B!Page,
         InBlock(u, p, o), InBlock(u, q, j)
  PROVE  o = j /\ p = q
<1>1. o = j
  BY DEF FreeOK
<1>2. u \in Int
  BY Numbers
<1> QED BY <1>1, <1>2, ListedFacts, SameBlock

Unlisted(p, o) ==
  /\ \A l \in B!Orders : \A q : q \in B!Listed(l)' <=> q \in B!Listed(l) /\ ~ (l = o /\ q = p)
  /\ \A u \in B!Page : u \in free' <=> u \in free /\ ~ InBlock(u, p, o)
  /\ order' = order

LEMMA DelTyped ==
  ASSUME PagesTyped, FreeOK, NEW o \in B!Orders, NEW p \in B!Listed(o),
         B!del_from_free_list(p, o), order' = order
  PROVE  /\ lists' \in [B!Orders -> Seq(B!Page)] /\ count' \in [B!Orders -> Nat]
         /\ free' \subseteq B!Page
         /\ \A l \in B!Orders : Once(lists'[l]) /\ count'[l] = Len(lists'[l])
         /\ Unlisted(p, o)
<1>1. /\ lists' = [l \in B!Orders |-> B!list_del(lists[l], p)]
      /\ count' = [count EXCEPT ![o] = @ - 1]
      /\ free' = free \ B!Block(p, o)
  BY DEF B!del_from_free_list
<1>2. \A l \in B!Orders : B!Listed(l) = Elements(lists[l]) /\ B!Listed(l)' = Elements(lists'[l])
  BY DEF B!Listed, Elements
<1>3. \A l \in B!Orders : p \in B!Listed(l) <=> l = o
  BY OneListed, ListedFacts
<1>4. ASSUME NEW l \in B!Orders
      PROVE  /\ lists'[l] \in Seq(B!Page) /\ Once(lists'[l])
             /\ B!Listed(l)' = B!Listed(l) \ {p}
             /\ Len(lists'[l]) = Len(lists[l]) - (IF l = o THEN 1 ELSE 0)
  <2>1. lists[l] \in Seq(B!Page) /\ Once(lists[l])
    BY DEF PagesTyped, FreeOK
  <2>2. lists'[l] = B!list_del(lists[l], p)
    BY <1>1
  <2> QED BY <2>1, <2>2, <1>2, <1>3, ListUnlinked
<1>5. ASSUME NEW l \in B!Orders
      PROVE  count'[l] = count[l] - (IF l = o THEN 1 ELSE 0) /\ count'[l] = Len(lists'[l])
  <2>1. count[l] = Len(lists[l]) /\ count[l] \in Nat
    BY DEF FreeOK, PagesTyped
  <2>2. count'[l] = count[l] - (IF l = o THEN 1 ELSE 0)
    BY <1>1, <2>1 DEF PagesTyped
  <2> QED BY <2>1, <2>2, <1>4
<1>6. \A l \in B!Orders : Len(lists'[l]) \in Nat
  BY <1>4
<1>7. count' \in [B!Orders -> Nat]
  <2>1. count' = [l \in B!Orders |-> count'[l]]
    BY <1>1 DEF PagesTyped
  <2> QED BY <2>1, <1>5, <1>6
<1>8. lists' \in [B!Orders -> Seq(B!Page)]
  BY <1>1, <1>4
<1>9. Unlisted(p, o)
  <2>1. \A l \in B!Orders : \A q : q \in B!Listed(l)' <=> q \in B!Listed(l) /\ ~ (l = o /\ q = p)
    BY <1>3, <1>4
  <2>2. \A u \in B!Page : u \in free' <=> u \in free /\ ~ InBlock(u, p, o)
    BY <1>1, BlockOf, ListedFacts, Numbers
  <2> QED BY <2>1, <2>2 DEF Unlisted
<1> QED BY <1>1, <1>4, <1>5, <1>7, <1>8, <1>9 DEF PagesTyped

LEMMA DelKeeps ==
  ASSUME PagesTyped, FreeOK, Coalesced, NEW o \in B!Orders, NEW p \in B!Listed(o),
         B!del_from_free_list(p, o), order' = order, Added' = Added
  PROVE  FreeOK' /\ Coalesced'
<1>1. /\ \A l \in B!Orders : Once(lists'[l]) /\ count'[l] = Len(lists'[l])
      /\ Unlisted(p, o) /\ free' \subseteq B!Page
  BY DelTyped
<1>2. \A l \in B!Orders : B!Listed(l)' \subseteq B!Listed(l) /\ p \notin B!Listed(o)'
  BY <1>1 DEF Unlisted
<1>3. \A l \in B!Orders : \A q \in B!Listed(l)' : Placed(q, l, Added')
  BY <1>2 DEF FreeOK
<1>4. ASSUME NEW l \in B!Orders, NEW q \in B!Listed(l)', NEW u \in B!Page, InBlock(u, q, l)
      PROVE  u \in free' /\ order'[u] = l
  <2>1. q \in B!Listed(l) /\ u \in free /\ order[u] = l
    BY <1>2, <1>4 DEF FreeOK
  <2>2. ~ InBlock(u, p, o)
    BY <2>1, <1>2, <1>4, OneListed
  <2> QED BY <2>1, <2>2, <1>1 DEF Unlisted
<1>5. ASSUME NEW u \in free'
      PROVE  \E l \in B!Orders : l = order'[u] /\ \E q \in B!Listed(l)' : InBlock(u, q, l)
  <2>1. u \in B!Page /\ u \in free /\ ~ InBlock(u, p, o)
    BY <1>1 DEF Unlisted
  <2>2. PICK l \in B!Orders : l = order[u] /\ l = order'[u]
    BY <1>1, <2>1 DEF PagesTyped, Unlisted
  <2>3. PICK q \in B!Listed(l) : InBlock(u, q, l)
    BY <2>1, <2>2 DEF FreeOK
  <2>4. q \in B!Listed(l)'
    BY <1>1, <2>1, <2>2, <2>3 DEF Unlisted
  <2> QED BY <2>2, <2>3, <2>4
<1>6. FreeOK'
  <2>1. \A u \in free' : (\E q \in B!Listed(order[u]) : InBlock(u, q, order[u]))'
    BY <1>5 DEF B!Listed
  <2> QED BY <2>1, <1>1, <1>3, <1>4 DEF FreeOK
<1>7. ASSUME NEW l \in B!Orders, NEW q \in B!Listed(l)' PROVE ~ B!Joins(q, l)'
  <2>1. ~ B!Joins(q, l)
    BY <1>2 DEF Coalesced
  <2>2. B!Joins(q, l)' => B!Joins(q, l)
    BY <1>1 DEF B!Joins, B!get_buddy, Unlisted
  <2> QED BY <2>1, <2>2
<1> QED BY <1>6, <1>7 DEF Coalesced

Relisted(p, o) ==
  /\ \A l \in B!Orders : \A q : q \in B!Listed(l)' <=> q \in B!Listed(l) \/ (l = o /\ q = p)
  /\ \A u \in B!Page : u \in free' <=> u \in free \/ InBlock(u, p, o)
  /\ order' \in [B!Page -> B!Orders]
  /\ \A u \in B!Page : order'[u] = IF InBlock(u, p, o) THEN o ELSE order[u]

(* A block that may come into a list.                                      *)
Loose(p, o) ==
  /\ p \in B!Page /\ o \in B!Orders /\ Placed(p, o, Added)
  /\ \A u \in B!Page : InBlock(u, p, o) => u \notin free

LEMMA AddTyped ==
  ASSUME PagesTyped, FreeOK, NEW o, NEW p, Loose(p, o), Added \in Nat, Added <= Pages,
         B!add_to_free_list(p, o)
  PROVE  /\ lists' \in [B!Orders -> Seq(B!Page)] /\ count' \in [B!Orders -> Nat]
         /\ free' \subseteq B!Page
         /\ \A l \in B!Orders : Once(lists'[l]) /\ count'[l] = Len(lists'[l])
         /\ Relisted(p, o)
<1>1. /\ lists' = [lists EXCEPT ![o] = B!list_add(@, p)]
      /\ count' = [count EXCEPT ![o] = @ + 1]
      /\ order' = [q \in B!Page |-> IF q \in B!Block(p, o) THEN o ELSE order[q]]
      /\ free' = free \cup B!Block(p, o)
  BY DEF B!add_to_free_list
<1>2. o \in B!Orders /\ p \in B!Page /\ o \in Nat /\ p \in Int /\ p \in Nat
  BY Numbers DEF Loose
<1>3. \A l \in B!Orders : B!Listed(l) = Elements(lists[l]) /\ B!Listed(l)' = Elements(lists'[l])
  BY DEF B!Listed, Elements
<1>4. p \notin B!Listed(o)
  BY <1>2, ListedFacts, InOwnBlock DEF Loose
<1>5. ASSUME NEW l \in B!Orders
      PROVE  /\ lists'[l] \in Seq(B!Page) /\ Once(lists'[l])
             /\ B!Listed(l)' = IF l = o THEN B!Listed(l) \cup {p} ELSE B!Listed(l)
             /\ Len(lists'[l]) = Len(lists[l]) + (IF l = o THEN 1 ELSE 0)
  <2>1. lists[l] \in Seq(B!Page) /\ Once(lists[l]) /\ Len(lists[l]) \in Nat
    BY DEF PagesTyped, FreeOK
  <2>2. CASE l = o
    <3>1. lists'[l] = B!list_add(lists[l], p)
      BY <1>1, <2>2 DEF PagesTyped
    <3> QED BY <3>1, <2>1, <2>2, <1>2, <1>3, <1>4, ListAdded
  <2>3. CASE l # o
    <3>1. lists'[l] = lists[l]
      BY <1>1, <2>3 DEF PagesTyped
    <3> QED BY <3>1, <2>1, <2>3, <1>3
  <2> QED BY <2>2, <2>3
<1>6. ASSUME NEW l \in B!Orders
      PROVE  count'[l] \in Nat /\ count'[l] = Len(lists'[l])
  <2>1. count[l] = Len(lists[l]) /\ count[l] \in Nat
    BY DEF FreeOK, PagesTyped
  <2>2. count'[l] = count[l] + (IF l = o THEN 1 ELSE 0)
    <3>1. count \in [B!Orders -> Nat] /\ count' = [count EXCEPT ![o] = count[o] + 1]
      BY <1>1 DEF PagesTyped
    <3>2. CASE l = o
      BY <3>1, <3>2, <1>2
    <3>3. CASE l # o
      BY <3>1, <3>3, <1>2, <2>1
    <3> QED BY <3>2, <3>3
  <2>3. Len(lists'[l]) = Len(lists[l]) + (IF l = o THEN 1 ELSE 0)
    BY <1>5
  <2>4. CASE l = o
    BY <2>1, <2>2, <2>3, <2>4
  <2>5. CASE l # o
    BY <2>1, <2>2, <2>3, <2>5
  <2> QED BY <2>4, <2>5
<1>7. count' \in [B!Orders -> Nat] /\ lists' \in [B!Orders -> Seq(B!Page)]
  <2>1. count' = [l \in B!Orders |-> count'[l]] /\ lists' = [l \in B!Orders |-> lists'[l]]
    BY <1>1 DEF PagesTyped
  <2> QED BY <2>1, <1>5, <1>6
<1>8. B!Block(p, o) \subseteq B!Page
  <2>1. Span(o) \in Nat /\ p + Span(o) <= Added
    BY <1>2, Spans DEF Loose, Placed
  <2> QED BY <1>2, <2>1, BlockOf, Numbers DEF InBlock
<1>9. \A u \in B!Page : u \in B!Block(p, o) <=> InBlock(u, p, o)
  BY <1>2, BlockOf, Numbers
<1>10. Relisted(p, o)
  <2>1. \A l \in B!Orders : \A q : q \in B!Listed(l)' <=> q \in B!Listed(l) \/ (l = o /\ q = p)
    BY <1>5
  <2>2. order' \in [B!Page -> B!Orders]
    BY <1>1, <1>2 DEF PagesTyped
  <2>3. \A u \in B!Page : order'[u] = IF InBlock(u, p, o) THEN o ELSE order[u]
    BY <1>1, <1>9
  <2>4. \A u \in B!Page : u \in free' <=> u \in free \/ InBlock(u, p, o)
    BY <1>1, <1>9
  <2> QED BY <2>1, <2>2, <2>3, <2>4 DEF Relisted
<1>11. free' \subseteq B!Page
  BY <1>1, <1>8 DEF PagesTyped
<1> QED BY <1>5, <1>6, <1>7, <1>10, <1>11

LEMMA AddKeepsFree ==
  ASSUME PagesTyped, FreeOK, NEW o, NEW p, Loose(p, o), Added \in Nat, Added <= Pages,
         B!add_to_free_list(p, o), Added' = Added
  PROVE  FreeOK'
<1>1. /\ \A l \in B!Orders : Once(lists'[l]) /\ count'[l] = Len(lists'[l])
      /\ Relisted(p, o) /\ free' \subseteq B!Page
  BY AddTyped
<1>2. o \in B!Orders /\ p \in B!Page
  BY DEF Loose
<1>3. ASSUME NEW l \in B!Orders, NEW q \in B!Listed(l)'
      PROVE  q \in B!Listed(l) \/ (l = o /\ q = p)
  BY <1>1, <1>3 DEF Relisted
<1>4. \A l \in B!Orders : \A q \in B!Listed(l)' : Placed(q, l, Added')
  BY <1>3 DEF FreeOK, Loose
<1>5. ASSUME NEW l \in B!Orders, NEW q \in B!Listed(l)', NEW u \in B!Page, InBlock(u, q, l)
      PROVE  u \in free' /\ order'[u] = l
  <2>1. CASE q \in B!Listed(l)
    <3>1. u \in free /\ order[u] = l
      BY <2>1, <1>5 DEF FreeOK
    <3>2. ~ InBlock(u, p, o)
      BY <3>1 DEF Loose
    <3> QED BY <3>1, <3>2, <1>1 DEF Relisted
  <2>2. CASE l = o /\ q = p
    BY <2>2, <1>1, <1>5 DEF Relisted
  <2> QED BY <2>1, <2>2, <1>3
<1>6. ASSUME NEW u \in free'
      PROVE  \E l \in B!Orders : l = order'[u] /\ \E q \in B!Listed(l)' : InBlock(u, q, l)
  <2>1. u \in B!Page
    BY <1>1
  <2>2. CASE InBlock(u, p, o)
    <3>1. order'[u] = o
      BY <1>1, <2>1, <2>2 DEF Relisted
    <3>2. p \in B!Listed(o)'
      BY <1>1, <1>2 DEF Relisted
    <3> QED BY <2>2, <3>1, <3>2, <1>2
  <2>3. CASE ~ InBlock(u, p, o)
    <3>1. u \in free
      BY <1>1, <2>1, <2>3 DEF Relisted
    <3>2. PICK l \in B!Orders : l = order[u] /\ l = order'[u]
      BY <1>1, <2>1, <2>3 DEF PagesTyped, Relisted
    <3>3. PICK q \in B!Listed(l) : InBlock(u, q, l)
      BY <3>1, <3>2 DEF FreeOK
    <3>4. q \in B!Listed(l)'
      BY <1>1, <3>3 DEF Relisted
    <3> QED BY <3>2, <3>3, <3>4
  <2> QED BY <2>2, <2>3
<1>7. \A u \in free' : (\E q \in B!Listed(order[u]) : InBlock(u, q, order[u]))'
  BY <1>6 DEF B!Listed
<1> QED BY <1>1, <1>4, <1>5, <1>7 DEF FreeOK

LEMMA AddKeepsCoalesced ==
  ASSUME PagesTyped, FreeOK, Coalesced, NEW o, NEW p, Loose(p, o), Added \in Nat, Added <= Pages,
         B!add_to_free_list(p, o), ~ B!Joins(p, o)
  PROVE  Coalesced'
<1>1. Relisted(p, o)
  BY AddTyped
<1>2. o \in B!Orders /\ p \in B!Page /\ o \in Nat /\ p \in Int /\ Aligned(p, o)
  BY Numbers DEF Loose, Placed
<1> SUFFICES ASSUME NEW l \in B!Orders, NEW q \in B!Listed(l)', B!Joins(q, l)' PROVE FALSE
  BY DEF Coalesced
<1>3. PICK b : b = B!get_buddy(q, l)
  OBVIOUS
<1>4. /\ l < MAX_ORDER /\ b \in B!Page /\ b \in free' /\ order'[b] = l
  BY <1>3 DEF B!Joins, B!get_buddy
<1>5. l \in Nat /\ b \in Int
  BY <1>4, Numbers
<1>6. CASE q \in B!Listed(l)
  <2>1. q \in Int /\ Aligned(q, l) /\ q \in free /\ order[q] = l /\ q \in B!Page
    BY <1>6, ListedFacts
  <2>2. Aligned(b, l) /\ B!get_buddy(b, l) = q /\ InBlock(b, b, l)
    BY <2>1, <1>3, <1>5, Buddies, InOwnBlock
  <2>3. CASE InBlock(b, p, o)
    <3>1. l = o
      BY <2>3, <1>1, <1>4 DEF Relisted
    <3>2. b = p
      BY <2>2, <2>3, <3>1, <1>2, <1>5, SameBlock
    <3> QED BY <2>1, <2>2, <3>1, <3>2, <1>4 DEF B!Joins
  <2>4. CASE ~ InBlock(b, p, o)
    <3>1. b \in free /\ order[b] = l
      BY <2>4, <1>1, <1>4 DEF Relisted
    <3>2. B!Joins(q, l)
      BY <3>1, <1>3, <1>4 DEF B!Joins
    <3> QED BY <3>2, <1>6 DEF Coalesced
  <2> QED BY <2>3, <2>4
<1>7. CASE l = o /\ q = p
  <2>1. ~ InBlock(b, p, o)
    <3>1. InBlock(b, b, o)
      BY <1>2, <1>5, InOwnBlock
    <3> QED BY <3>1, <1>2, <1>3, <1>5, <1>7, BuddyUnion
  <2>2. b \in free /\ order[b] = o
    BY <2>1, <1>1, <1>4, <1>7 DEF Relisted
  <2> QED BY <2>2, <1>3, <1>4, <1>7 DEF B!Joins
<1> QED BY <1>1, <1>6, <1>7 DEF Relisted

-----------------------------------------------------------------------------
(* The order of a request.                                                 *)
LEMMA OrderOf ==
  ASSUME NEW bytes \in Nat
  PROVE  /\ B!OrderFor(bytes) \in 0 .. MAX_ORDER + 1
         /\ Span(B!OrderFor(bytes)) >= B!PagesFor(bytes) \/ B!OrderFor(bytes) = MAX_ORDER + 1
         /\ \A x \in B!Orders : x < B!OrderFor(bytes) => Span(x) < B!PagesFor(bytes)
<1> DEFINE n == B!PagesFor(bytes)
           big(o) == Span(o) >= n \/ o = MAX_ORDER + 1
           first(o) == big(o) /\ \A x \in B!Orders : x < o => Span(x) < n
           all == B!Orders \cup {MAX_ORDER + 1}
           T == {o \in all : big(o)}
<1>0. MAX_ORDER \in Nat /\ all = 0 .. MAX_ORDER + 1 /\ B!Orders = 0 .. MAX_ORDER
  BY Numbers
<1>1. n \in Nat
  <2> DEFINE m == (bytes + PAGE_SIZE - 1) % Word
  <2>1. m \in Nat
    BY PagesAssumption
  <2>2. PAGE_SIZE \in Nat \ {0}
    BY PagesAssumption
  <2> HIDE DEF m
  <2>3. m \div PAGE_SIZE \in Nat
    BY <2>1, <2>2, DivMod
  <2> QED BY <2>3 DEF B!PagesFor, m
<1> HIDE DEF n
<1>2. \E o \in all : first(o)
  <2>1. T \subseteq Nat /\ MAX_ORDER + 1 \in T
    BY <1>0
  <2>2. PICK o \in T : \A x \in T : o <= x
    <3> HIDE DEF T
    <3> QED BY <2>1, SomeLeast
  <2>3. ASSUME NEW x \in B!Orders, x < o PROVE Span(x) < n
    <3>1. x \in all /\ x \in Nat /\ o \in Nat /\ x \notin T
      BY <1>0, <2>1, <2>2, <2>3
    <3>2. Span(x) \in Nat
      BY <3>1, Spans
    <3> QED BY <3>1, <3>2, <1>1
  <2> QED BY <2>2, <2>3
<1>3. B!OrderFor(bytes) = CHOOSE o \in all : first(o)
  BY DEF B!OrderFor, Span, n
<1> HIDE DEF first, all
<1>4. B!OrderFor(bytes) \in all /\ first(B!OrderFor(bytes))
  BY <1>2, <1>3
<1> QED BY <1>0, <1>4 DEF first, n

-----------------------------------------------------------------------------
(* The steps of the calls.                                                 *)
LEMMA AddedNat == CallTyped => Added \in Nat /\ Added <= Pages
BY Numbers DEF CallTyped, Added

LEMMA HeldFacts ==
  ASSUME PagesTyped, HeldOK, NEW p \in HeldPages
  PROVE  /\ p \in B!Page /\ p \in Int /\ order[p] \in B!Orders /\ order[p] \in Nat
         /\ InBlock(p, p, order[p]) /\ Aligned(p, order[p])
<1>1. p \in B!Page /\ order[p] \in B!Orders
  BY DEF PagesTyped, HeldPages
<1>2. p \in Int /\ order[p] \in Nat
  BY <1>1, Numbers
<1> QED BY <1>1, <1>2, InOwnBlock DEF HeldOK, Placed

(* What is held stays as it is, and apart from what comes into a list.     *)
LEMMA HeldKeeps ==
  ASSUME PagesTyped, HeldOK, HeldPages' = HeldPages,
         \A p \in HeldPages : order'[p] = order[p],
         Added \in Nat, Added' \in Nat, Added <= Added',
         \A u \in B!Page : u \in free' =>
           u \in free \/ \A p \in HeldPages : ~ InBlock(u, p, order[p])
  PROVE  HeldOK'
<1>1. ASSUME NEW p \in HeldPages PROVE Placed(p, order'[p], Added')
  <2>1. Placed(p, order[p], Added) /\ p \in Int /\ order[p] \in Nat
    BY HeldFacts DEF HeldOK
  <2>2. Span(order[p]) \in Nat
    BY <2>1, Spans
  <2>3. Placed(p, order[p], Added')
    BY <2>1, <2>2 DEF Placed
  <2> QED BY <2>3
<1>2. ASSUME NEW p \in HeldPages, NEW u \in B!Page, InBlock(u, p, order'[p]) PROVE u \notin free'
  BY <1>2 DEF HeldOK
<1>3. ASSUME NEW p \in HeldPages, NEW q \in HeldPages, NEW u \in B!Page,
             InBlock(u, p, order'[p]), InBlock(u, q, order'[q])
      PROVE  p = q
  BY <1>3 DEF HeldOK
<1> QED BY <1>1, <1>2, <1>3 DEF HeldOK

(* A call begins or ends, and the heap stays as it is.                     *)
LEMMA QuietPages ==
  ASSUME PagesInv, UNCHANGED << free, order, lists, count, pagesUsed >>,
         ~ Moving, ~ Moving', Added' = Added, HeldPages' = HeldPages
  PROVE  /\ PagesTyped' /\ FreeOK' /\ HeldOK' /\ MovingOK' /\ NoneLost' /\ Coalesced'
<1> USE DEF PagesInv
<1>1. PagesTyped'
  BY DEF PagesTyped
<1>2. FreeOK' /\ Coalesced'
  BY DEF FreeOK, Coalesced, B!Listed, B!Joins
<1>3. HeldOK' /\ MovingOK' /\ NoneLost'
  BY DEF HeldOK, MovingOK, NoneLost
<1> QED BY <1>1, <1>2, <1>3

LEMMA CallShapes ==
  /\ B!Idle \in Calls
  /\ \A c \in Calls :
       /\ \A a \in {"idle", "adding", "join", "request", "split"} : [c EXCEPT !.at = a] \in Calls
       /\ \A n \in Int :
            /\ [c EXCEPT !.bytes = n] \in Calls /\ [c EXCEPT !.block = n] \in Calls
            /\ [c EXCEPT !.page = n] \in Calls /\ [c EXCEPT !.order = n] \in Calls
            /\ [c EXCEPT !.target = n] \in Calls /\ [c EXCEPT !.left = n] \in Calls
<1>1. B!Idle \in Calls
  BY DEF B!Idle, B!NoPage, Calls
<1>2. \A c \in Calls, a \in {"idle", "adding", "join", "request", "split"} : [c EXCEPT !.at = a] \in Calls
  BY DEF Calls
<1>3. \A c \in Calls, n \in Int : [c EXCEPT !.bytes = n] \in Calls /\ [c EXCEPT !.block = n] \in Calls
  BY DEF Calls
<1>4. \A c \in Calls, n \in Int : [c EXCEPT !.page = n] \in Calls /\ [c EXCEPT !.order = n] \in Calls
  BY DEF Calls
<1>5. \A c \in Calls, n \in Int : [c EXCEPT !.target = n] \in Calls /\ [c EXCEPT !.left = n] \in Calls
  BY DEF Calls
<1> QED BY <1>1, <1>2, <1>3, <1>4, <1>5

LEMMA BeginPages ==
  ASSUME PagesInv, NEW bytes \in PageRequests, B!mm_alloc(bytes)
  PROVE  PagesInv'
<1>1. /\ UNCHANGED << free, order, lists, count, pagesUsed >>
      /\ pagesOp.at = "idle"
      /\ pagesOp'.at = "request" /\ pagesOp'.bytes = bytes /\ pagesOp'.left = 0
      /\ pagesOp'.target = B!OrderFor(bytes) /\ pagesOp'.block = B!NoPage
  BY DEF B!mm_alloc, B!Idle
<1>2. pagesOp.left = 0 /\ pagesOp.block = B!NoPage
  BY <1>1 DEF PagesInv, CallTyped
<1>3. ~ Moving /\ ~ Moving' /\ Added' = Added /\ HeldPages' = HeldPages
  BY <1>1, <1>2 DEF Moving, Added, HeldPages
<1>4. bytes \in Nat \ {0} /\ B!OrderFor(bytes) \in Nat
  <2>1. bytes \in Nat \ {0}
    BY PageRequestsAssumption
  <2> QED BY <2>1, OrderOf, Numbers
<1>5. pagesOp' \in Calls
  <2>1. pagesOp' = [[[B!Idle EXCEPT !.at = "request"] EXCEPT !.bytes = bytes]
                      EXCEPT !.target = B!OrderFor(bytes)]
    BY DEF B!mm_alloc
  <2>2. bytes \in Int /\ B!OrderFor(bytes) \in Int
    BY <1>4
  <2> QED BY <2>1, <2>2, CallShapes
<1>6. CallTyped' /\ PagesAsked'
  BY <1>1, <1>3, <1>4, <1>5, Numbers DEF CallTyped, PagesAsked
<1> QED BY <1>1, <1>3, <1>6, QuietPages DEF PagesInv

LEMMA IdleTyped ==
  ASSUME pagesOp' = B!Idle
  PROVE  CallTyped' /\ PagesAsked' /\ ~ Moving' /\ Added' = Pages /\ HeldPages' = pagesUsed' \ {B!NoPage}
BY Numbers DEF CallTyped, PagesAsked, Moving, B!Idle, B!NoPage, Calls, Added, HeldPages

LEMMA NoPagesKeeps ==
  ASSUME PagesInv, B!NoPages
  PROVE  PagesInv'
<1>1. /\ UNCHANGED << free, order, lists, count, pagesUsed >>
      /\ pagesOp.at = "request" /\ pagesOp' = B!Idle
  BY DEF B!NoPages
<1>2. pagesOp.left = 0 /\ pagesOp.block = B!NoPage
  BY <1>1 DEF PagesInv, CallTyped
<1>3. ~ Moving /\ ~ Moving' /\ Added' = Added /\ HeldPages' = HeldPages /\ CallTyped' /\ PagesAsked'
  BY <1>1, <1>2, IdleTyped, Numbers DEF Moving, Added, HeldPages
<1> QED BY <1>1, <1>3, QuietPages DEF PagesInv

LEMMA FreePagesKeeps ==
  ASSUME PagesInv, NEW p \in pagesUsed, B!mm_free(p)
  PROVE  PagesInv'
<1> USE DEF PagesInv
<1>1. /\ UNCHANGED << free, order, lists, count, pagesUsed >>
      /\ pagesOp.at = "idle"
      /\ pagesOp'.at = "join" /\ pagesOp'.bytes = 0 /\ pagesOp'.left = 0
      /\ pagesOp'.page = p /\ pagesOp'.order = order[p] /\ pagesOp'.block = p
  BY DEF B!mm_free, B!Idle
<1>2. pagesOp.left = 0 /\ pagesOp.block = B!NoPage
  BY <1>1 DEF CallTyped
<1>3. p \in HeldPages /\ B!NoPage \notin pagesUsed
  <2>1. \A q \in pagesUsed : q \in Nat
    BY Numbers DEF PagesTyped
  <2> QED BY <1>2, <2>1 DEF HeldPages, B!NoPage
<1>4. p \in B!Page /\ order[p] \in B!Orders
  BY DEF PagesTyped
<1>5. ~ Moving /\ Moving' /\ Added' = Added
  BY <1>1, <1>2 DEF Moving, Added
<1>6. HeldPages' = HeldPages \ {p}
  BY <1>1, <1>2, <1>3 DEF HeldPages
<1>7. CallTyped' /\ PagesAsked'
  <2>1. 0 \in 0 .. Pages /\ "join" \in {"join", "split"}
    BY Numbers
  <2>2. pagesOp'.page \in B!Page /\ pagesOp'.order \in B!Orders
    BY <1>1, <1>4
  <2>3. pagesOp' \in Calls
    <3>1. pagesOp' = [[[[B!Idle EXCEPT !.at = "join"] EXCEPT !.block = p] EXCEPT !.page = p]
                        EXCEPT !.order = order[p]]
      BY DEF B!mm_free
    <3>2. p \in Int /\ order[p] \in Int
      BY <1>4, Numbers
    <3> QED BY <3>1, <3>2, CallShapes
  <2>4. CallTyped'
    BY <1>1, <2>1, <2>2, <2>3 DEF CallTyped
  <2>5. PagesAsked'
    BY <1>1 DEF PagesAsked
  <2> QED BY <2>4, <2>5
<1>8. PagesTyped' /\ FreeOK' /\ Coalesced'
  <2>1. PagesTyped'
    BY <1>1 DEF PagesTyped
  <2>2. \A l \in B!Orders : B!Listed(l)' = B!Listed(l)
    BY <1>1 DEF B!Listed
  <2>3. FreeOK'
    BY <1>1, <1>5, <2>2 DEF FreeOK, B!Listed
  <2>4. Coalesced'
    BY <1>1, <2>2 DEF Coalesced, B!Joins, B!get_buddy
  <2> QED BY <2>1, <2>3, <2>4
<1>9. HeldOK'
  BY <1>1, <1>5, <1>6 DEF HeldOK
<1>10. MovingOK'
  <2>1. Placed(p, order[p], Added)
    BY <1>3 DEF HeldOK
  <2>2. ASSUME NEW u \in B!Page, InBlock(u, p, order[p])
        PROVE  u \notin free /\ \A q \in HeldPages \ {p} : ~ InBlock(u, q, order[q])
    BY <2>2, <1>3 DEF HeldOK
  <2> QED BY <1>1, <1>5, <1>6, <2>1, <2>2 DEF MovingOK
<1>11. NoneLost'
  BY <1>1, <1>5, <1>6 DEF NoneLost
<1> QED BY <1>7, <1>8, <1>9, <1>10, <1>11

(* buddy_add_memory: the block it takes from the rest is aligned.          *)
LEMMA AddBlockKeeps ==
  ASSUME PagesInv, B!AddBlock
  PROVE  PagesInv'
<1> USE DEF PagesInv
<1> DEFINE page == pagesOp.page
           left == pagesOp.left
           fits(x) == (BaseFrame + page) % Span(x) = 0 /\ left >= Span(x)
           o == CHOOSE x \in B!Orders : fits(x) /\ \A y \in B!Orders : fits(y) => y <= x
<1>1. /\ pagesOp.at = "adding"
      /\ pagesOp' = [B!Idle EXCEPT !.at = "join", !.page = page, !.order = o, !.left = left - Span(o)]
      /\ UNCHANGED << free, order, lists, count, pagesUsed >>
  BY DEF B!AddBlock, Span
<1>2. left \in 1 .. Pages /\ page = Pages - left /\ page \in B!Page /\ pagesOp.block = B!NoPage
  BY <1>1, Numbers DEF CallTyped
<1> HIDE DEF page, left
<1>3. o \in B!Orders /\ fits(o)
  <2> DEFINE T == {MAX_ORDER - x : x \in {x \in B!Orders : fits(x)}}
  <2>1. 0 \in B!Orders /\ fits(0)
    <3>1. (BaseFrame + page) % 1 = 0
      BY <1>2, Numbers
    <3>2. Span(0) = 1 /\ left >= 1
      BY <1>2, Spans
    <3>3. 0 \in B!Orders
      BY Numbers
    <3> QED BY <3>1, <3>2, <3>3
  <2> HIDE DEF fits
  <2>2. T \subseteq Nat /\ T # {}
    BY <2>1, Numbers
  <2>3. PICK z \in T : \A y \in T : z <= y
    <3> HIDE DEF T
    <3> QED BY <2>2, SomeLeast
  <2>4. PICK x \in B!Orders : fits(x) /\ z = MAX_ORDER - x
    BY <2>3
  <2>5. ASSUME NEW y \in B!Orders, fits(y) PROVE y <= x
    <3>1. MAX_ORDER - y \in T
      BY <2>5
    <3>2. z <= MAX_ORDER - y
      BY <2>3, <3>1
    <3> QED BY <2>4, <3>2, Numbers
  <2> QED BY <2>4, <2>5
<1> HIDE DEF o
<1>4. Span(o) \in Nat \ {0} /\ Span(o) <= left /\ o \in Nat
  BY <1>3, Numbers, Spans
<1>5. Aligned(page, o)
  <2> DEFINE x == BaseFrame + page
             d == Span(o)
  <2>1. x \in Nat /\ d \in Nat \ {0} /\ x % d = 0
    BY <1>2, <1>3, <1>4, Numbers
  <2> HIDE DEF x, d
  <2>2. x \div d \in Nat /\ x = d * (x \div d) + (x % d)
    BY <2>1, DivMod
  <2>3. x = (x \div d) * d
    BY <2>1, <2>2
  <2> QED BY <2>2, <2>3 DEF Aligned, x, d
<1>6. /\ pagesOp'.at = "join" /\ pagesOp'.bytes = 0 /\ pagesOp'.block = B!NoPage
      /\ pagesOp'.page = page /\ pagesOp'.order = o /\ pagesOp'.left = left - Span(o)
  BY <1>1 DEF B!Idle
<1>7. Added = page /\ Added' = page + Span(o) /\ Added \in Nat /\ Added' \in Nat
  BY <1>2, <1>4, <1>6, Numbers DEF Added, left
<1>8. ~ Moving /\ Moving' /\ HeldPages' = HeldPages
  BY <1>1, <1>2, <1>6 DEF Moving, HeldPages
<1>9. CallTyped' /\ PagesAsked'
  <2>1. pagesOp' \in Calls
    <3>1. page \in Int /\ o \in Int /\ left - Span(o) \in Int
      BY <1>2, <1>4, Numbers
    <3>2. pagesOp' = [[[[B!Idle EXCEPT !.at = "join"] EXCEPT !.page = page] EXCEPT !.order = o]
                        EXCEPT !.left = left - Span(o)]
      BY <1>1
    <3> QED BY <3>1, <3>2, CallShapes
  <2>2. left - Span(o) \in 0 .. Pages
    BY <1>2, <1>4, Numbers
  <2>3. CallTyped'
    BY <1>2, <1>3, <1>6, <1>8, <2>1, <2>2 DEF CallTyped
  <2> QED BY <1>6, <2>3 DEF PagesAsked
<1>10. PagesTyped' /\ Coalesced'
  BY <1>1 DEF PagesTyped, Coalesced, B!Listed, B!Joins
<1>11. FreeOK'
  <2>1. ASSUME NEW l \in B!Orders, NEW q \in B!Listed(l) PROVE Placed(q, l, Added')
    <3>1. Placed(q, l, Added) /\ q \in Int /\ l \in Nat
      BY ListedFacts DEF FreeOK
    <3>2. Span(l) \in Nat
      BY <3>1, Spans
    <3> QED BY <3>1, <3>2, <1>4, <1>7 DEF Placed
  <2>2. \A l \in B!Orders : B!Listed(l)' = B!Listed(l)
    BY <1>1 DEF B!Listed
  <2> QED BY <1>1, <2>1, <2>2 DEF FreeOK, B!Listed
<1>12. HeldOK'
  BY <1>1, <1>4, <1>7, <1>8, HeldKeeps
<1>13. MovingOK'
  <2>1. Placed(page, o, Added')
    BY <1>5, <1>7, <1>4 DEF Placed
  <2>2. ASSUME NEW u \in free PROVE u < page
    <3>1. u \in B!Page /\ order[u] \in B!Orders
      BY DEF PagesTyped
    <3>2. PICK q \in B!Listed(order[u]) : InBlock(u, q, order[u])
      BY DEF FreeOK
    <3>3. q \in Int /\ q + Span(order[u]) <= Added /\ Span(order[u]) \in Nat
      BY <3>1, <3>2, ListedFacts, Spans DEF FreeOK, Placed
    <3> QED BY <3>1, <3>2, <3>3, <1>7, Numbers DEF InBlock
  <2>3. ASSUME NEW q \in HeldPages, NEW u \in B!Page, InBlock(u, q, order[q]) PROVE u < page
    <3>1. q \in Int /\ q + Span(order[q]) <= Added /\ Span(order[q]) \in Nat
      BY HeldFacts, Spans DEF HeldOK, Placed
    <3> QED BY <3>1, <2>3, <1>7, Numbers DEF InBlock
  <2>4. \A u \in B!Page : InBlock(u, page, o) => ~ u < page
    BY <1>2, <1>4, Numbers DEF InBlock
  <2> QED BY <1>1, <1>6, <1>8, <2>1, <2>2, <2>3, <2>4 DEF MovingOK
<1>14. NoneLost'
  <2> SUFFICES ASSUME NEW u \in B!Page, u < Added'
               PROVE  \/ u \in free' \/ \E p \in HeldPages' : InBlock(u, p, order'[p])
                      \/ Moving' /\ InBlock(u, pagesOp'.page, pagesOp'.order)
    BY DEF NoneLost
  <2>1. u < Added \/ InBlock(u, page, o)
    BY <1>4, <1>7, Numbers DEF InBlock
  <2> QED BY <1>1, <1>6, <1>8, <2>1 DEF NoneLost
<1> QED BY <1>9, <1>10, <1>11, <1>12, <1>13, <1>14

LEMMA MovingFacts ==
  ASSUME PagesInv, Moving
  PROVE  /\ pagesOp.page \in B!Page /\ pagesOp.page \in Int
         /\ pagesOp.order \in B!Orders /\ pagesOp.order \in Nat
         /\ Placed(pagesOp.page, pagesOp.order, Added)
         /\ InBlock(pagesOp.page, pagesOp.page, pagesOp.order)
         /\ Loose(pagesOp.page, pagesOp.order)
         /\ \A u \in B!Page : InBlock(u, pagesOp.page, pagesOp.order) =>
              u \notin free /\ \A p \in HeldPages : ~ InBlock(u, p, order[p])
<1>1. pagesOp.page \in B!Page /\ pagesOp.order \in B!Orders
  BY DEF PagesInv, CallTyped
<1>2. pagesOp.page \in Int /\ pagesOp.order \in Nat
  BY <1>1, Numbers
<1>3. /\ Placed(pagesOp.page, pagesOp.order, Added)
      /\ \A u \in B!Page : InBlock(u, pagesOp.page, pagesOp.order) =>
           u \notin free /\ \A p \in HeldPages : ~ InBlock(u, p, order[p])
  BY DEF PagesInv, MovingOK
<1> QED BY <1>1, <1>2, <1>3, InOwnBlock DEF Loose

(* The buddy that joins is a block of the list of its order.               *)
LEMMA BuddyListed ==
  ASSUME PagesTyped, FreeOK, NEW p \in Int, NEW o \in B!Orders, Aligned(p, o), B!Joins(p, o)
  PROVE  B!get_buddy(p, o) \in B!Listed(o)
<1> DEFINE b == B!get_buddy(p, o)
<1>1. b \in B!Page /\ b \in free /\ order[b] = o /\ o \in Nat
  BY Numbers DEF B!Joins
<1>2. b \in Int /\ Aligned(b, o)
  BY <1>1, Buddies
<1> HIDE DEF b
<1>3. PICK q \in B!Listed(o) : InBlock(b, q, o)
  BY <1>1 DEF FreeOK
<1>4. q \in Int /\ Aligned(q, o) /\ InBlock(b, b, o)
  BY <1>1, <1>2, ListedFacts, InOwnBlock
<1>5. q = b
  BY <1>1, <1>2, <1>3, <1>4, SameBlock
<1> QED BY <1>3, <1>5 DEF b

LEMMA JoinKeeps ==
  ASSUME PagesInv, B!Join
  PROVE  PagesInv'
<1> USE DEF PagesInv
<1> DEFINE page == pagesOp.page
           o == pagesOp.order
           b == B!get_buddy(page, o)
<1>1. /\ pagesOp.at = "join" /\ B!Joins(page, o) /\ B!del_from_free_list(b, o)
      /\ order' = order /\ pagesUsed' = pagesUsed
      /\ pagesOp' = [pagesOp EXCEPT !.page = IF b < page THEN b ELSE page, !.order = o + 1]
  BY DEF B!Join
<1>2. Moving
  BY <1>1 DEF Moving
<1>3. /\ page \in B!Page /\ page \in Int /\ o \in B!Orders /\ o \in Nat /\ Placed(page, o, Added)
      /\ \A u \in B!Page : InBlock(u, page, o) =>
           u \notin free /\ \A p \in HeldPages : ~ InBlock(u, p, order[p])
  BY <1>2, MovingFacts
<1>4. Added \in Nat /\ Added <= Pages
  BY AddedNat
<1>5. o < MAX_ORDER /\ o + 1 \in B!Orders /\ b \in B!Page /\ b \in Int
  BY <1>1, <1>3, Numbers DEF B!Joins
<1>6. Aligned(page, o) /\ page + Span(o) <= Added
  BY <1>3 DEF Placed
<1>7. b \in B!Listed(o)
  BY <1>1, <1>3, <1>6, BuddyListed
<1>8. Lower(page, o) = IF b < page THEN b ELSE page
  BY DEF Lower
<1> DEFINE low == Lower(page, o)
<1>9. low \in B!Page
  BY <1>3, <1>5, <1>8
<1>9a. \A u \in B!Page :
         /\ InBlock(u, low, o + 1) <=> InBlock(u, page, o) \/ InBlock(u, b, o)
         /\ ~ (InBlock(u, page, o) /\ InBlock(u, b, o))
  BY <1>3, <1>6, BuddyUnion, Numbers
<1>9b. Aligned(low, o + 1) /\ (b = page + Span(o) \/ page = b + Span(o))
  BY <1>3, <1>6, Buddies
<1> HIDE DEF b, low
<1>10. pagesOp' = [pagesOp EXCEPT !.page = low, !.order = o + 1]
  BY <1>1, <1>8 DEF low
<1>11. /\ pagesOp'.at = "join" /\ pagesOp'.left = pagesOp.left /\ pagesOp'.block = pagesOp.block
       /\ pagesOp'.bytes = pagesOp.bytes
  BY <1>1, <1>10
<1>12. Moving' /\ Added' = Added /\ HeldPages' = HeldPages
  BY <1>1, <1>11 DEF Moving, Added, HeldPages
<1>13. CallTyped' /\ PagesAsked'
  <2>1. /\ pagesOp.left \in 0 .. Pages
    BY DEF CallTyped
  <2>2. pagesOp' \in Calls
    <3>1. low \in Int /\ o + 1 \in Int /\ pagesOp \in Calls
      BY <1>3, <1>9, Numbers DEF CallTyped
    <3>2. pagesOp' = [[pagesOp EXCEPT !.page = low] EXCEPT !.order = o + 1]
      BY <1>10
    <3> QED BY <3>1, <3>2, CallShapes
  <2>3. pagesOp.bytes = 0
    BY <1>1 DEF PagesAsked
  <2> QED BY <1>5, <1>9, <1>10, <1>11, <1>12, <2>1, <2>2, <2>3 DEF CallTyped, PagesAsked
<1>14. /\ lists' \in [B!Orders -> Seq(B!Page)] /\ count' \in [B!Orders -> Nat]
       /\ free' \subseteq B!Page /\ Unlisted(b, o)
  BY <1>1, <1>3, <1>7, DelTyped
<1>15. PagesTyped'
  BY <1>1, <1>14 DEF PagesTyped
<1>16. FreeOK' /\ Coalesced'
  BY <1>1, <1>3, <1>7, <1>12, DelKeeps
<1>17. \A u \in B!Page : u \in free' <=> u \in free /\ ~ InBlock(u, b, o)
  BY <1>14 DEF Unlisted
<1>18. HeldOK'
  BY <1>1, <1>4, <1>12, <1>17, HeldKeeps
<1>19. \A u \in B!Page : InBlock(u, b, o) => u \in free /\ \A p \in HeldPages : ~ InBlock(u, p, order[p])
  <2>1. \A u \in B!Page : InBlock(u, b, o) => u \in free
    BY <1>3, <1>7 DEF FreeOK
  <2> QED BY <2>1 DEF HeldOK
<1>20. MovingOK'
  <2>1. Placed(low, o + 1, Added)
    <3>1. page + Span(o) <= Added /\ b + Span(o) <= Added
      BY <1>3, <1>6, <1>7 DEF FreeOK, Placed
    <3>2. Span(o + 1) = 2 * Span(o) /\ Span(o) \in Nat \ {0}
      BY <1>3, Spans
    <3>3. low + Span(o + 1) <= Added
      BY <1>3, <1>4, <1>5, <1>8, <1>9b, <3>1, <3>2 DEF low
    <3> QED BY <3>3, <1>9b DEF Placed
  <2>2. ASSUME NEW u \in B!Page, InBlock(u, low, o + 1)
        PROVE  u \notin free' /\ \A p \in HeldPages : ~ InBlock(u, p, order[p])
    BY <2>2, <1>3, <1>9a, <1>17, <1>19
  <2>3. pagesOp'.page = low /\ pagesOp'.order = o + 1
    BY <1>10 DEF CallTyped
  <2> QED BY <1>1, <1>12, <2>1, <2>2, <2>3 DEF MovingOK
<1>21. NoneLost'
  <2> SUFFICES ASSUME NEW u \in B!Page, u < Added
               PROVE  \/ u \in free' \/ \E p \in HeldPages : InBlock(u, p, order[p])
                      \/ InBlock(u, low, o + 1)
    <3>1. pagesOp'.page = low /\ pagesOp'.order = o + 1
      BY <1>10 DEF CallTyped
    <3> QED BY <1>1, <1>12, <3>1 DEF NoneLost
  <2> QED BY <1>9a, <1>17 DEF NoneLost
<1> QED BY <1>13, <1>15, <1>16, <1>18, <1>20, <1>21

LEMMA JoinedKeeps ==
  ASSUME PagesInv, B!Joined
  PROVE  PagesInv'
<1> USE DEF PagesInv
<1> DEFINE page == pagesOp.page
           o == pagesOp.order
           left == pagesOp.left
<1>1. /\ pagesOp.at = "join" /\ ~ B!Joins(page, o) /\ B!add_to_free_list(page, o)
      /\ pagesUsed' = pagesUsed \ {pagesOp.block}
      /\ pagesOp' = IF left = 0 THEN B!Idle
                    ELSE [[[B!Idle EXCEPT !.at = "adding"] EXCEPT !.page = Pages - left]
                            EXCEPT !.left = left]
  BY DEF B!Joined
<1>2. Moving
  BY <1>1 DEF Moving
<1>3. /\ page \in B!Page /\ o \in B!Orders /\ Loose(page, o)
      /\ \A u \in B!Page : InBlock(u, page, o) => \A p \in HeldPages : ~ InBlock(u, p, order[p])
  BY <1>2, MovingFacts
<1>4. Added \in Nat /\ Added <= Pages
  BY AddedNat
<1>5. left \in 0 .. Pages
  BY DEF CallTyped
<1>6. B!NoPage \notin pagesUsed
  <2>1. \A q \in pagesUsed : q \in Nat
    BY Numbers DEF PagesTyped
  <2> QED BY <2>1 DEF B!NoPage
<1>7. CallTyped' /\ PagesAsked' /\ ~ Moving' /\ Added' = Added /\ HeldPages' = HeldPages
  <2>1. CASE left = 0
    <3>1. pagesOp' = B!Idle
      BY <1>1, <2>1
    <3>2. HeldPages' = HeldPages
      BY <1>1, <1>6, <3>1, IdleTyped DEF HeldPages
    <3>3. Added = Pages
      BY <2>1, Numbers DEF Added
    <3> QED BY <3>1, <3>2, <3>3, IdleTyped
  <2>2. CASE left # 0
    <3>1. pagesOp' = [[[B!Idle EXCEPT !.at = "adding"] EXCEPT !.page = Pages - left]
                        EXCEPT !.left = left]
      BY <1>1, <2>2
    <3>2. /\ pagesOp'.at = "adding" /\ pagesOp'.bytes = 0 /\ pagesOp'.left = left
          /\ pagesOp'.block = B!NoPage /\ pagesOp'.page = Pages - left
      BY <3>1 DEF B!Idle
    <3>3. Pages - left \in Int /\ left \in Int
      BY <1>5, Numbers
    <3>4. pagesOp' \in Calls
      BY <3>1, <3>3, CallShapes
    <3>5. ~ Moving' /\ Added' = Added
      BY <3>2 DEF Moving, Added
    <3>6. CallTyped'
      BY <1>5, <2>2, <3>2, <3>4, <3>5 DEF CallTyped
    <3>7. PagesAsked'
      BY <3>2 DEF PagesAsked
    <3>8. HeldPages' = HeldPages
      BY <1>1, <1>6, <3>2 DEF HeldPages
    <3> QED BY <3>5, <3>6, <3>7, <3>8
  <2> QED BY <2>1, <2>2
<1>8. /\ lists' \in [B!Orders -> Seq(B!Page)] /\ count' \in [B!Orders -> Nat]
      /\ free' \subseteq B!Page /\ Relisted(page, o)
  BY <1>1, <1>3, <1>4, AddTyped
<1>9. PagesTyped'
  BY <1>1, <1>8 DEF PagesTyped, Relisted
<1>10. FreeOK'
  BY <1>1, <1>3, <1>4, <1>7, AddKeepsFree
<1>11. Coalesced'
  BY <1>1, <1>3, <1>4, AddKeepsCoalesced
<1>12. /\ \A u \in B!Page : u \in free' <=> u \in free \/ InBlock(u, page, o)
       /\ \A u \in B!Page : order'[u] = IF InBlock(u, page, o) THEN o ELSE order[u]
  BY <1>8 DEF Relisted
<1>13. \A p \in HeldPages : order'[p] = order[p]
  BY <1>3, <1>12, HeldFacts
<1>14. HeldOK'
  BY <1>3, <1>4, <1>7, <1>12, <1>13, HeldKeeps
<1>15. MovingOK'
  BY <1>7 DEF MovingOK
<1>16. NoneLost'
  <2> SUFFICES ASSUME NEW u \in B!Page, u < Added
               PROVE  u \in free' \/ \E p \in HeldPages : InBlock(u, p, order'[p])
    BY <1>7 DEF NoneLost
  <2>1. u \in free \/ (\E p \in HeldPages : InBlock(u, p, order[p])) \/ InBlock(u, page, o)
    BY DEF NoneLost
  <2> QED BY <2>1, <1>12, <1>13
<1> QED BY <1>7, <1>9, <1>10, <1>11, <1>14, <1>15, <1>16

LEMMA TakeBlockKeeps ==
  ASSUME PagesInv, B!TakeBlock
  PROVE  PagesInv'
<1> USE DEF PagesInv
<1>1. PICK o \in B!Stocked :
        /\ \A x \in B!Stocked : o <= x
        /\ B!del_from_free_list(lists[o][1], o)
        /\ pagesOp' = [[[pagesOp EXCEPT !.at = "split"] EXCEPT !.page = lists[o][1]] EXCEPT !.order = o]
  BY Zenon DEF B!TakeBlock
<1>2. pagesOp.at = "request" /\ order' = order /\ pagesUsed' = pagesUsed
  BY DEF B!TakeBlock
<1>3. o \in B!Orders /\ pagesOp.target <= o /\ lists[o] # << >> /\ o \in Nat
  BY Numbers DEF B!Stocked
<1> DEFINE p == lists[o][1]
<1>4. p \in B!Listed(o)
  <2>1. lists[o] \in Seq(B!Page)
    BY <1>3 DEF PagesTyped
  <2>2. 1 \in 1 .. Len(lists[o])
    BY <1>3, <2>1
  <2> QED BY <2>2 DEF B!Listed
<1>5. p \in B!Page /\ p \in Int
  BY <1>3, <1>4, ListedFacts
<1>6. B!del_from_free_list(p, o)
  BY <1>1
<1>7. pagesOp' = [[[pagesOp EXCEPT !.at = "split"] EXCEPT !.page = p] EXCEPT !.order = o]
  BY <1>1
<1> HIDE DEF p
<1>8. pagesOp \in Calls
  BY DEF CallTyped
<1>9. pagesOp' \in Calls
  <2>1. [pagesOp EXCEPT !.at = "split"] \in Calls
    BY <1>8, CallShapes
  <2>2. p \in Int /\ o \in Int
    BY <1>3, <1>5
  <2> QED BY <1>7, <2>1, <2>2, CallShapes
<1>10. /\ pagesOp'.at = "split" /\ pagesOp'.page = p /\ pagesOp'.order = o
       /\ pagesOp'.bytes = pagesOp.bytes /\ pagesOp'.block = pagesOp.block
       /\ pagesOp'.target = pagesOp.target /\ pagesOp'.left = pagesOp.left
  BY <1>7, <1>8 DEF Calls
<1>11. Moving' /\ ~ Moving /\ Added' = Added /\ HeldPages' = HeldPages
  BY <1>2, <1>10 DEF Moving, Added, HeldPages
<1>12. CallTyped' /\ PagesAsked'
  <2>1. pagesOp.left = 0 /\ pagesOp.block = B!NoPage /\ pagesOp.target \in Nat /\ 0 \in 0 .. Pages
    BY <1>2, Numbers DEF CallTyped
  <2>2. CallTyped'
    BY <1>3, <1>5, <1>9, <1>10, <2>1 DEF CallTyped
  <2>3. PagesAsked'
    <3>1. B!OrderFor(pagesOp'.bytes) = B!OrderFor(pagesOp.bytes)
      BY <1>10
    <3> QED BY <3>1, <1>2, <1>10 DEF PagesAsked
  <2> QED BY <2>2, <2>3
<1>13. /\ lists' \in [B!Orders -> Seq(B!Page)] /\ count' \in [B!Orders -> Nat]
       /\ free' \subseteq B!Page /\ Unlisted(p, o)
  BY <1>2, <1>3, <1>4, <1>6, DelTyped
<1>14. PagesTyped'
  BY <1>2, <1>13 DEF PagesTyped
<1>15. FreeOK' /\ Coalesced'
  BY <1>2, <1>3, <1>4, <1>6, <1>11, DelKeeps
<1>16. \A u \in B!Page : u \in free' <=> u \in free /\ ~ InBlock(u, p, o)
  BY <1>13 DEF Unlisted
<1>17. HeldOK'
  BY <1>2, <1>11, <1>16, AddedNat, HeldKeeps
<1>18. MovingOK'
  <2>1. Placed(p, o, Added)
    BY <1>3, <1>4 DEF FreeOK
  <2>2. ASSUME NEW u \in B!Page, InBlock(u, p, o)
        PROVE  u \notin free' /\ \A q \in HeldPages : ~ InBlock(u, q, order[q])
    <3>1. u \in free
      BY <1>3, <1>4, <2>2 DEF FreeOK
    <3> QED BY <3>1, <2>2, <1>16 DEF HeldOK
  <2> QED BY <1>2, <1>10, <1>11, <2>1, <2>2 DEF MovingOK
<1>19. NoneLost'
  <2> SUFFICES ASSUME NEW u \in B!Page, u < Added
               PROVE  \/ u \in free' \/ \E q \in HeldPages : InBlock(u, q, order[q])
                      \/ InBlock(u, p, o)
    BY <1>2, <1>10, <1>11 DEF NoneLost
  <2> QED BY <1>11, <1>16 DEF NoneLost
<1> QED BY <1>12, <1>14, <1>15, <1>17, <1>18, <1>19

LEMMA SplitBlockKeeps ==
  ASSUME PagesInv, B!SplitBlock
  PROVE  PagesInv'
<1> USE DEF PagesInv
<1> DEFINE page == pagesOp.page
           o == pagesOp.order - 1
           half == page + Span(o)
<1>1. /\ pagesOp.at = "split" /\ pagesOp.order > pagesOp.target
      /\ B!add_to_free_list(half, o)
      /\ pagesOp' = [pagesOp EXCEPT !.order = o]
      /\ pagesUsed' = pagesUsed
  BY DEF B!SplitBlock, Span
<1>2. Moving
  BY <1>1 DEF Moving
<1>3. /\ page \in B!Page /\ page \in Int /\ pagesOp.order \in B!Orders
      /\ Aligned(page, pagesOp.order) /\ page + Span(pagesOp.order) <= Added
      /\ \A u \in B!Page : InBlock(u, page, pagesOp.order) =>
           u \notin free /\ \A p \in HeldPages : ~ InBlock(u, p, order[p])
  BY <1>2, MovingFacts DEF Placed
<1>4. Added \in Nat /\ Added <= Pages
  BY AddedNat
<1>5. pagesOp.target \in Nat /\ pagesOp.left = 0 /\ pagesOp.block = B!NoPage
  BY <1>1 DEF CallTyped
<1>6. o \in Nat /\ o \in B!Orders /\ o + 1 = pagesOp.order /\ pagesOp.target <= o
  <2>1. pagesOp.order \in 0 .. MAX_ORDER /\ MAX_ORDER \in Nat
    BY <1>3, Numbers
  <2>2. o \in 0 .. MAX_ORDER /\ o + 1 = pagesOp.order /\ pagesOp.target <= o
    BY <2>1, <1>1, <1>5
  <2> QED BY <2>2, Numbers
<1> HIDE DEF o
<1>7. Span(o) \in Nat \ {0} /\ Span(pagesOp.order) = 2 * Span(o)
  BY <1>6, Spans
<1>8. Aligned(page, o) /\ Aligned(half, o) /\ B!get_buddy(half, o) = page
  BY <1>3, <1>6, Halves
<1>9. half \in B!Page /\ half \in Int /\ half + Span(o) = page + Span(pagesOp.order)
  BY <1>3, <1>4, <1>7, Numbers
<1> HIDE DEF half
<1>10. half = page + Span(o)
  BY DEF half
<1>11. \A u \in B!Page :
         /\ InBlock(u, page, pagesOp.order) <=> InBlock(u, page, o) \/ InBlock(u, half, o)
         /\ ~ (InBlock(u, page, o) /\ InBlock(u, half, o))
  <2> SUFFICES ASSUME NEW u \in B!Page
               PROVE  /\ InBlock(u, page, pagesOp.order) <=> InBlock(u, page, o) \/ InBlock(u, half, o)
                      /\ ~ (InBlock(u, page, o) /\ InBlock(u, half, o))
    OBVIOUS
  <2> DEFINE d == Span(o)
  <2>1. u \in Int
    BY Numbers
  <2>2. /\ InBlock(u, page, pagesOp.order) <=> page <= u /\ u < page + 2 * d
        /\ InBlock(u, page, o) <=> page <= u /\ u < page + d
        /\ InBlock(u, half, o) <=> page + d <= u /\ u < (page + d) + d
    BY <1>7, <1>10 DEF InBlock
  <2>3. d \in Nat \ {0} /\ page \in Int
    BY <1>3, <1>7
  <2> HIDE DEF d, page
  <2> QED BY <2>1, <2>2, <2>3
<1>12. Loose(half, o)
  BY <1>3, <1>6, <1>8, <1>9, <1>11 DEF Loose, Placed
<1>13. ~ B!Joins(half, o)
  <2>1. page \notin free
    BY <1>2, MovingFacts
  <2> QED BY <2>1, <1>8 DEF B!Joins
<1>14. pagesOp \in Calls /\ o \in Int
  BY <1>6 DEF CallTyped
<1>15. /\ pagesOp'.at = "split" /\ pagesOp'.page = page /\ pagesOp'.order = o
       /\ pagesOp'.bytes = pagesOp.bytes /\ pagesOp'.block = pagesOp.block
       /\ pagesOp'.target = pagesOp.target /\ pagesOp'.left = pagesOp.left
  BY <1>1, <1>14 DEF Calls
<1>16. Moving' /\ Added' = Added /\ HeldPages' = HeldPages
  BY <1>1, <1>15 DEF Moving, Added, HeldPages
<1>17. CallTyped' /\ PagesAsked'
  <2>1. pagesOp' \in Calls
    BY <1>1, <1>14, CallShapes
  <2>2. 0 \in 0 .. Pages
    BY Numbers
  <2>3. CallTyped'
    BY <1>3, <1>5, <1>6, <1>15, <2>1, <2>2 DEF CallTyped
  <2>4. PagesAsked'
    <3>1. B!OrderFor(pagesOp'.bytes) = B!OrderFor(pagesOp.bytes)
      BY <1>15
    <3> QED BY <3>1, <1>1, <1>15 DEF PagesAsked
  <2> QED BY <2>3, <2>4
<1>18. /\ lists' \in [B!Orders -> Seq(B!Page)] /\ count' \in [B!Orders -> Nat]
       /\ free' \subseteq B!Page /\ Relisted(half, o)
  BY <1>1, <1>4, <1>12, AddTyped
<1>19. PagesTyped'
  BY <1>1, <1>18 DEF PagesTyped, Relisted
<1>20. FreeOK'
  BY <1>1, <1>4, <1>12, <1>16, AddKeepsFree
<1>21. Coalesced'
  BY <1>1, <1>4, <1>12, <1>13, AddKeepsCoalesced
<1>22. /\ \A u \in B!Page : u \in free' <=> u \in free \/ InBlock(u, half, o)
       /\ \A u \in B!Page : order'[u] = IF InBlock(u, half, o) THEN o ELSE order[u]
  BY <1>18 DEF Relisted
<1>23. \A p \in HeldPages : order'[p] = order[p]
  BY <1>3, <1>11, <1>22, HeldFacts
<1>24. HeldOK'
  BY <1>3, <1>4, <1>11, <1>16, <1>22, <1>23, HeldKeeps
<1>25. MovingOK'
  <2>1. Placed(page, o, Added)
    BY <1>3, <1>4, <1>7, <1>8 DEF Placed
  <2>2. ASSUME NEW u \in B!Page, InBlock(u, page, o)
        PROVE  u \notin free' /\ \A q \in HeldPages : ~ InBlock(u, q, order'[q])
    BY <2>2, <1>3, <1>11, <1>22, <1>23
  <2> QED BY <1>15, <1>16, <2>1, <2>2 DEF MovingOK
<1>26. NoneLost'
  <2> SUFFICES ASSUME NEW u \in B!Page, u < Added
               PROVE  \/ u \in free' \/ \E q \in HeldPages : InBlock(u, q, order'[q])
                      \/ InBlock(u, page, o)
    BY <1>15, <1>16 DEF NoneLost
  <2> QED BY <1>11, <1>22, <1>23 DEF NoneLost
<1> QED BY <1>17, <1>19, <1>20, <1>21, <1>24, <1>25, <1>26

LEMMA GrantPagesKeeps ==
  ASSUME PagesInv, B!GrantPages
  PROVE  /\ PagesInv'
         /\ pagesOp.page \notin pagesUsed /\ pagesUsed' = pagesUsed \cup {pagesOp.page}
         /\ order' = [order EXCEPT ![pagesOp.page] = pagesOp.target]
<1> USE DEF PagesInv
<1> DEFINE page == pagesOp.page
           o == pagesOp.target
<1>1. /\ pagesOp.at = "split" /\ pagesOp.order = o
      /\ order' = [order EXCEPT ![page] = o]
      /\ pagesUsed' = pagesUsed \cup {page}
      /\ pagesOp' = B!Idle
      /\ free' = free /\ lists' = lists /\ count' = count
  BY DEF B!GrantPages
<1>2. Moving
  BY <1>1 DEF Moving
<1>3. /\ page \in B!Page /\ page \in Int /\ o \in B!Orders /\ o \in Nat
      /\ Placed(page, o, Added) /\ InBlock(page, page, o)
      /\ \A u \in B!Page : InBlock(u, page, o) =>
           u \notin free /\ \A p \in HeldPages : ~ InBlock(u, p, order[p])
  BY <1>1, <1>2, MovingFacts
<1>4. pagesOp.left = 0 /\ pagesOp.block = B!NoPage
  BY <1>1 DEF CallTyped
<1>5. B!NoPage \notin pagesUsed /\ page # B!NoPage
  <2>1. (\A q \in pagesUsed : q \in Nat) /\ page \in Nat
    BY <1>3, Numbers DEF PagesTyped
  <2> QED BY <2>1 DEF B!NoPage
<1>6. HeldPages = pagesUsed
  BY <1>4, <1>5 DEF HeldPages
<1>7. page \notin free /\ page \notin pagesUsed
  <2>1. page \notin HeldPages
    BY <1>3, HeldFacts
  <2> QED BY <2>1, <1>3, <1>6
<1>8. CallTyped' /\ PagesAsked' /\ ~ Moving' /\ Added' = Added /\ HeldPages' = pagesUsed \cup {page}
  <2>1. Added = Pages
    BY <1>4, Numbers DEF Added
  <2>2. HeldPages' = pagesUsed \cup {page}
    BY <1>1, <1>5, IdleTyped
  <2> QED BY <1>1, <2>1, <2>2, IdleTyped
<1>9. \A u \in B!Page : order'[u] = IF u = page THEN o ELSE order[u]
  BY <1>1 DEF PagesTyped
<1>10. PagesTyped'
  BY <1>1, <1>3 DEF PagesTyped
<1>11. \A u \in free : order'[u] = order[u]
  BY <1>7, <1>9 DEF PagesTyped
<1>12. \A l \in B!Orders : B!Listed(l)' = B!Listed(l)
  BY <1>1 DEF B!Listed
<1>13. FreeOK'
  <2>1. \A l \in B!Orders : \A q \in B!Listed(l) : \A u \in B!Page :
          InBlock(u, q, l) => u \in free /\ order'[u] = l
    BY <1>11 DEF FreeOK
  <2>2. ASSUME NEW u \in free
        PROVE  \E l \in B!Orders : l = order'[u] /\ \E q \in B!Listed(l)' : InBlock(u, q, l)
    <3>1. order'[u] = order[u] /\ order[u] \in B!Orders
      BY <1>11 DEF PagesTyped
    <3> QED BY <3>1, <1>12 DEF FreeOK
  <2>3. \A u \in free : (\E q \in B!Listed(order[u]) : InBlock(u, q, order[u]))'
    BY <2>2 DEF B!Listed
  <2> QED BY <1>1, <1>8, <1>12, <2>1, <2>3 DEF FreeOK
<1>14. Coalesced'
  <2> SUFFICES ASSUME NEW l \in B!Orders, NEW q \in B!Listed(l), B!Joins(q, l)' PROVE FALSE
    BY <1>12 DEF Coalesced
  <2>1. PICK b : b = B!get_buddy(q, l)
    OBVIOUS
  <2>2. l < MAX_ORDER /\ b \in B!Page /\ b \in free /\ order'[b] = l
    BY <1>1, <2>1 DEF B!Joins, B!get_buddy
  <2>3. B!Joins(q, l)
    BY <1>11, <2>1, <2>2 DEF B!Joins
  <2> QED BY <2>3 DEF Coalesced
<1>15. \A p \in pagesUsed : order'[p] = order[p] /\ p \in B!Page
  BY <1>7, <1>9 DEF PagesTyped
<1>16. order'[page] = o
  BY <1>3, <1>9
<1>17. HeldOK'
  <2>1. ASSUME NEW p \in pagesUsed \cup {page} PROVE Placed(p, order'[p], Added)
    BY <1>3, <1>6, <1>15, <1>16 DEF HeldOK
  <2>2. ASSUME NEW p \in pagesUsed \cup {page}, NEW u \in B!Page, InBlock(u, p, order'[p])
        PROVE  u \notin free
    BY <2>2, <1>3, <1>6, <1>15, <1>16 DEF HeldOK
  <2>3. ASSUME NEW p \in pagesUsed \cup {page}, NEW q \in pagesUsed \cup {page}, NEW u \in B!Page,
               InBlock(u, p, order'[p]), InBlock(u, q, order'[q])
        PROVE  p = q
    BY <2>3, <1>3, <1>6, <1>15, <1>16 DEF HeldOK
  <2> QED BY <1>1, <1>8, <2>1, <2>2, <2>3 DEF HeldOK
<1>18. MovingOK'
  BY <1>8 DEF MovingOK
<1>19. NoneLost'
  <2> SUFFICES ASSUME NEW u \in B!Page, u < Added
               PROVE  u \in free \/ \E q \in pagesUsed \cup {page} : InBlock(u, q, order'[q])
    BY <1>1, <1>8 DEF NoneLost
  <2>1. u \in free \/ (\E q \in pagesUsed : InBlock(u, q, order[q])) \/ InBlock(u, page, o)
    BY <1>1, <1>6 DEF NoneLost
  <2> QED BY <2>1, <1>15, <1>16
<1>20. PagesInv'
  BY <1>8, <1>10, <1>13, <1>14, <1>17, <1>18, <1>19
<1> QED BY <1>1, <1>7, <1>20

-----------------------------------------------------------------------------
LEMMA PagesBegin == B!Init => PagesInv
<1> SUFFICES ASSUME B!Init PROVE PagesInv
  OBVIOUS
<1>1. /\ free = {} /\ pagesUsed = {}
      /\ order = [p \in B!Page |-> 0] /\ lists = [o \in B!Orders |-> << >>]
      /\ count = [o \in B!Orders |-> 0]
      /\ pagesOp = [[[B!Idle EXCEPT !.at = "adding"] EXCEPT !.page = 0] EXCEPT !.left = Pages]
  BY DEF B!Init
<1>2. /\ pagesOp.at = "adding" /\ pagesOp.page = 0 /\ pagesOp.left = Pages
      /\ pagesOp.bytes = 0 /\ pagesOp.block = B!NoPage
  BY <1>1 DEF B!Idle
<1>3. pagesOp \in Calls
  <2>1. 0 \in Int /\ Pages \in Int
    BY Numbers
  <2> QED BY <1>1, <2>1, CallShapes
<1>4. 0 \in B!Orders /\ Pages # 0 /\ Pages - Pages = 0 /\ Pages \in 0 .. Pages
  BY Numbers
<1>5. PagesTyped
  BY <1>1, <1>4 DEF PagesTyped
<1>6. ~ Moving /\ HeldPages = {} /\ Added = 0
  BY <1>1, <1>2, <1>4 DEF Moving, HeldPages, Added
<1>7. CallTyped /\ PagesAsked
  BY <1>2, <1>3, <1>4, <1>6 DEF CallTyped, PagesAsked
<1>8. \A o \in B!Orders : lists[o] = << >> /\ count[o] = 0 /\ B!Listed(o) = {}
  BY <1>1 DEF B!Listed
<1>9. FreeOK /\ Coalesced
  BY <1>1, <1>8 DEF FreeOK, Coalesced, Once
<1>10. HeldOK /\ MovingOK
  BY <1>6 DEF HeldOK, MovingOK
<1>11. NoneLost
  BY <1>6, Numbers DEF NoneLost
<1> QED BY <1>5, <1>7, <1>9, <1>10, <1>11 DEF PagesInv

LEMMA PagesStep == PagesInv /\ [HeapNext]_heapVars => PagesInv'
<1> SUFFICES ASSUME PagesInv, [HeapNext]_heapVars PROVE PagesInv'
  OBVIOUS
<1>1. CASE UNCHANGED buddyVars
  <2>1. /\ free' = free /\ order' = order /\ lists' = lists /\ count' = count
        /\ pagesUsed' = pagesUsed /\ pagesOp' = pagesOp
    BY <1>1 DEF buddyVars
  <2>2. \A l \in B!Orders : B!Listed(l)' = B!Listed(l)
    BY <2>1 DEF B!Listed
  <2>3. Added' = Added /\ HeldPages' = HeldPages /\ Moving' = Moving
    BY <2>1 DEF Added, HeldPages, Moving
  <2>4. PagesTyped' /\ CallTyped' /\ PagesAsked'
    BY <2>1 DEF PagesInv, PagesTyped, CallTyped, PagesAsked, Moving
  <2>5. FreeOK' /\ Coalesced'
    BY <2>1, <2>2, <2>3 DEF PagesInv, FreeOK, Coalesced, B!Listed, B!Joins, B!get_buddy
  <2>6. HeldOK' /\ MovingOK' /\ NoneLost'
    BY <2>1, <2>3 DEF PagesInv, HeldOK, MovingOK, NoneLost
  <2> QED BY <2>4, <2>5, <2>6 DEF PagesInv
<1>2. CASE B!Next
  BY <1>2, BeginPages, FreePagesKeeps, JoinKeeps, JoinedKeeps, AddBlockKeeps, NoPagesKeeps,
     TakeBlockKeeps, SplitBlockKeeps, GrantPagesKeeps DEF B!Next, B!Loops
<1> QED BY <1>1, <1>2 DEF HeapNext, heapVars, FirstFitRuns, BuddyRuns

(* Heaps: the lists, flags, orders and blocks of the buddy heap always     *)
(* describe one partition of its pages.                                    *)
THEOREM PagesInvariant == HeapSpec => []PagesInv
<1>1. HeapInit => PagesInv
  BY PagesBegin DEF HeapInit
<1> QED BY <1>1, PagesStep, PTL DEF HeapSpec

LEMMA WhenIdle ==
  ASSUME PagesInv, pagesOp.at \in {"idle", "request"}
  PROVE  /\ Added = Pages /\ HeldPages = pagesUsed /\ ~ Moving
         /\ \A u \in B!Page : u \in free \/ \E p \in pagesUsed : InBlock(u, p, order[p])
<1>1. pagesOp.left = 0 /\ pagesOp.block = B!NoPage
  BY DEF PagesInv, CallTyped
<1>2. Added = Pages /\ ~ Moving
  BY <1>1, Numbers DEF Added, Moving
<1>3. HeldPages = pagesUsed
  <2>1. \A q \in pagesUsed : q \in Nat
    BY Numbers DEF PagesInv, PagesTyped
  <2> QED BY <1>1, <2>1 DEF HeldPages, B!NoPage
<1>4. \A u \in B!Page : u < Pages
  BY Numbers
<1> QED BY <1>2, <1>3, <1>4 DEF PagesInv, NoneLost

LEMMA SameCardinality == \A S : B!Cardinality(S) = Cardinality(S)
BY Zenon DEF B!Cardinality, Cardinality

LEMMA InvariantExact == PagesInv => B!PagesExact
<1> SUFFICES ASSUME PagesInv, pagesOp.at = "idle"
             PROVE  /\ \A o \in B!Orders : count[o] = Len(lists[o]) /\ count[o] = Cardinality(B!Listed(o))
                    /\ \A o \in B!Orders : \A p \in B!Listed(o) :
                         /\ B!Block(p, o) \subseteq free
                         /\ \A q \in B!Block(p, o) : order[q] = o
                         /\ ~ B!Joins(p, o)
                    /\ \A q \in B!Page :
                         Cardinality({o \in B!Orders : \E p \in B!Listed(o) : q \in B!Block(p, o)})
                           + Cardinality({p \in pagesUsed : q \in B!Block(p, order[p])}) = 1
  BY SameCardinality, Zenon DEF B!PagesExact
<1> USE DEF PagesInv
<1>1. ASSUME NEW o \in B!Orders
      PROVE  count[o] = Len(lists[o]) /\ count[o] = Cardinality(B!Listed(o))
  <2>1. lists[o] \in Seq(B!Page) /\ Once(lists[o]) /\ count[o] = Len(lists[o])
    BY DEF PagesTyped, FreeOK
  <2>2. Cardinality(Elements(lists[o])) = Len(lists[o])
    BY <2>1, ListCounts
  <2>3. B!Listed(o) = Elements(lists[o])
    BY DEF B!Listed, Elements
  <2> QED BY <2>1, <2>2, <2>3
<1>2. ASSUME NEW o \in B!Orders, NEW p \in B!Listed(o)
      PROVE  /\ B!Block(p, o) \subseteq free
             /\ \A q \in B!Block(p, o) : order[q] = o
             /\ ~ B!Joins(p, o)
  <2>1. p \in Int /\ p \in B!Page /\ o \in Nat /\ p + Span(o) <= Added /\ Added \in Nat /\ Added <= Pages
    BY ListedFacts, AddedNat DEF FreeOK, Placed
  <2>2. Span(o) \in Nat
    BY <2>1, Spans
  <2>3. ASSUME NEW q \in B!Block(p, o) PROVE q \in B!Page /\ InBlock(q, p, o)
    <3>1. q \in Int /\ InBlock(q, p, o)
      BY <2>1, BlockOf
    <3> QED BY <3>1, <2>1, <2>2, Numbers DEF InBlock
  <2> QED BY <2>3 DEF FreeOK, Coalesced
<1>3. ASSUME NEW q \in B!Page
      PROVE  Cardinality({o \in B!Orders : \E p \in B!Listed(o) : q \in B!Block(p, o)})
               + Cardinality({p \in pagesUsed : q \in B!Block(p, order[p])}) = 1
  <2> DEFINE S == {o \in B!Orders : \E p \in B!Listed(o) : q \in B!Block(p, o)}
             H == {p \in pagesUsed : q \in B!Block(p, order[p])}
  <2>1. HeldPages = pagesUsed /\ (q \in free \/ \E p \in pagesUsed : InBlock(q, p, order[p]))
    BY WhenIdle
  <2>2. q \in Int
    BY Numbers
  <2>3. \A o \in B!Orders : \A p \in B!Listed(o) : q \in B!Block(p, o) <=> InBlock(q, p, o)
    BY <2>2, BlockOf, ListedFacts
  <2>4. \A p \in pagesUsed : q \in B!Block(p, order[p]) <=> InBlock(q, p, order[p])
    BY <2>1, <2>2, BlockOf, HeldFacts
  <2>5. Cardinality({}) = 0 /\ \A x : Cardinality({x}) = 1
    BY FS_EmptySet, FS_Singleton
  <2>6. CASE q \in free
    <3>1. order[q] \in B!Orders
      BY DEF PagesTyped
    <3>2. S = {order[q]}
      BY <3>1, <2>3, <2>6 DEF FreeOK
    <3>3. H = {}
      BY <2>1, <2>4, <2>6 DEF HeldOK
    <3>4. Cardinality(S) = 1 /\ Cardinality(H) = 0
      BY <2>5, <3>2, <3>3
    <3> QED BY <3>4
  <2>7. CASE q \notin free
    <3>1. S = {}
      BY <2>3, <2>7 DEF FreeOK
    <3>2. PICK p \in pagesUsed : InBlock(q, p, order[p])
      BY <2>1, <2>7
    <3>3. H = {p}
      BY <2>1, <2>4, <3>2 DEF HeldOK
    <3> QED BY <2>5, <3>1, <3>3
  <2> QED BY <2>6, <2>7
<1> QED BY <1>1, <1>2, <1>3

(* Heaps!PagesExact: between two calls to the buddy heap its lists, flags, *)
(* orders and counts agree, each page is in one block, free or held, and   *)
(* no free block is left beside a free buddy of its order.                 *)
THEOREM PagesAreExact == HeapSpec => []PagesExact
<1>1. PagesInv => PagesExact
  BY InvariantExact DEF PagesExact
<1> QED BY <1>1, PagesInvariant, PTL

-----------------------------------------------------------------------------
(* The buddy heap implements Allocator.                                    *)
LEMMA Ceiling ==
  ASSUME NEW bytes \in Nat, NEW unit \in Nat \ {0}
  PROVE  ((bytes + unit - 1) \div unit) * unit >= bytes
<1> DEFINE n == bytes + unit - 1
           q == n \div unit
           r == n % unit
<1>1. n \in Nat
  OBVIOUS
<1>2. n = bytes + unit - 1
  OBVIOUS
<1> HIDE DEF n
<1>3. q \in Nat /\ r \in 0 .. unit - 1 /\ n = unit * q + r
  BY <1>1, DivMod
<1> HIDE DEF q, r
<1>4. unit * q = q * unit /\ q * unit \in Int
  BY <1>3
<1>5. q * unit >= bytes
  BY <1>2, <1>3, <1>4
<1> QED BY <1>5 DEF q, n

HeldPage(p) == [at |-> p, len |-> Span(order[p])]

LEMMA HeldPagesAre == B!Held = {HeldPage(p) : p \in pagesUsed}
BY DEF B!Held, HeldPage, Span

LEMMA ExtentOf ==
  ASSUME NEW p \in Int, NEW o \in Nat, NEW b, b.at = p, b.len = Span(o), NEW u
  PROVE  u \in PageBlocks!Extent(b) <=> u \in Int /\ InBlock(u, p, o)
<1>1. Span(o) \in Nat
  BY Spans
<1> QED BY <1>1 DEF PageBlocks!Extent, InBlock

(* A vacant block that is aligned holds a free block of its order, or of a *)
(* higher one holds it: the free blocks are joined as far as they can be.  *)
LEMMA VacantListed ==
  ASSUME PagesInv, NEW p \in B!Page, NEW t \in B!Orders, Aligned(p, t),
         \A u \in Int : InBlock(u, p, t) => u \in free
  PROVE  \E o \in B!Orders : t <= o /\ B!Listed(o) # {}
<1> USE DEF PagesInv
<1> SUFFICES ASSUME \A o \in B!Orders : B!Listed(o) # {} => ~ (t <= o) PROVE FALSE
  OBVIOUS
<1>1. p \in Int /\ t \in Nat /\ InBlock(p, p, t) /\ Span(t) \in Nat \ {0}
  BY Numbers, InOwnBlock, Spans
<1>2. ASSUME NEW u \in Int, InBlock(u, p, t)
      PROVE  /\ u \in B!Page
             /\ \E l \in B!Orders : \E q \in B!Listed(l) :
                  /\ l = order[u] /\ InBlock(u, q, l) /\ l < t
                  /\ p <= q /\ q + Span(l) <= p + Span(t)
  <2>1. u \in free /\ u \in B!Page
    BY <1>2 DEF PagesTyped
  <2>2. PICK l \in B!Orders : l = order[u]
    BY <2>1 DEF PagesTyped
  <2>3. PICK q \in B!Listed(l) : InBlock(u, q, l)
    BY <2>1, <2>2 DEF FreeOK
  <2>4. l < t
    BY <2>3, <1>1, Numbers
  <2>5. q \in Int /\ Aligned(q, l) /\ l \in Nat /\ l <= t
    BY <1>1, <2>4, ListedFacts
  <2>6. p <= q /\ q + Span(l) <= p + Span(t)
    BY <1>1, <1>2, <2>3, <2>5, Nested
  <2> QED BY <2>1, <2>2, <2>3, <2>4, <2>6
<1> DEFINE T == {l \in B!Orders : l < t /\ \E q \in B!Listed(l) : p <= q /\ q + Span(l) <= p + Span(t)}
<1>3. T \subseteq Nat /\ T # {}
  <2>1. T \subseteq Nat
    BY Numbers
  <2>2. T # {}
    BY <1>1, <1>2
  <2> QED BY <2>1, <2>2
<1>4. PICK o \in T : \A l \in T : o <= l
  <2> HIDE DEF T
  <2> QED BY <1>3, SomeLeast
<1>5. o \in B!Orders /\ o \in Nat /\ o < t
  BY <1>3, <1>4
<1>6. PICK q \in B!Listed(o) : p <= q /\ q + Span(o) <= p + Span(t)
  BY <1>4
<1>7. q \in Int /\ q \in B!Page /\ Aligned(q, o) /\ InBlock(q, q, o)
  BY <1>5, ListedFacts
<1> DEFINE b == B!get_buddy(q, o)
           low == Lower(q, o)
<1>8. b \in Int /\ low = (IF b < q THEN b ELSE q) /\ Aligned(low, o + 1)
  BY <1>5, <1>7, Buddies DEF Lower
<1>9. \A u \in Int : InBlock(u, low, o + 1) <=> InBlock(u, q, o) \/ InBlock(u, b, o)
  BY <1>5, <1>7, BuddyUnion
<1> HIDE DEF b, low
<1>10. low \in Int /\ InBlock(q, low, o + 1) /\ InBlock(b, low, o + 1)
  BY <1>5, <1>7, <1>8, <1>9, InOwnBlock
<1>11. InBlock(b, p, t)
  <2>1. InBlock(q, p, t)
    <3>1. Span(o) \in Nat \ {0}
      BY <1>5, Spans
    <3> QED BY <3>1, <1>1, <1>6, <1>7 DEF InBlock
  <2>2. o + 1 \in Nat /\ o + 1 <= t
    BY <1>1, <1>5
  <2>3. p <= low /\ low + Span(o + 1) <= p + Span(t)
    BY <1>1, <1>7, <1>8, <1>10, <2>1, <2>2, Nested
  <2>4. Span(o + 1) \in Nat
    BY <2>2, Spans
  <2> QED BY <1>1, <1>8, <1>10, <2>3, <2>4 DEF InBlock
<1>12. b \in B!Page /\ b \in free
  BY <1>2, <1>8, <1>11
<1>13. PICK j \in B!Orders : \E c \in B!Listed(j) :
          j = order[b] /\ InBlock(b, c, j) /\ j < t /\ p <= c /\ c + Span(j) <= p + Span(t)
  BY <1>2, <1>8, <1>11
<1>14. PICK c \in B!Listed(j) :
          j = order[b] /\ InBlock(b, c, j) /\ p <= c /\ c + Span(j) <= p + Span(t)
  BY <1>13
<1>15. o <= j /\ j \in Nat
  BY <1>4, <1>13, <1>14, Numbers
<1>16. c \in Int /\ Aligned(c, j)
  BY ListedFacts
<1>17. CASE j = o
  <2>1. o < MAX_ORDER
    BY <1>5, Numbers
  <2>2. B!Joins(q, o)
    BY <1>12, <1>14, <1>17, <2>1 DEF B!Joins, b
  <2> QED BY <1>5, <2>2 DEF Coalesced
<1>18. CASE j # o
  <2>1. o + 1 <= j /\ o + 1 \in Nat
    BY <1>5, <1>15, <1>18
  <2>2. c <= low /\ low + Span(o + 1) <= c + Span(j)
    BY <1>8, <1>10, <1>14, <1>15, <1>16, <2>1, Nested
  <2>3. Span(o + 1) \in Nat /\ Span(j) \in Nat
    BY <1>15, <2>1, Spans
  <2>4. InBlock(q, c, j)
    BY <1>7, <1>10, <1>16, <2>2, <2>3 DEF InBlock
  <2>5. o = j
    BY <1>5, <1>7, <2>4, OneListed
  <2> QED BY <1>18, <2>5
<1> QED BY <1>17, <1>18

LEMMA AlignedStart ==
  ASSUME NEW p \in B!Page, NEW o \in Nat
  PROVE  Aligned(p, o) <=> (BaseFrame + p) % Span(o) = 0
<1> DEFINE x == BaseFrame + p
           d == Span(o)
<1>1. x \in Nat /\ d \in Nat \ {0}
  <2>1. BaseFrame \in Nat /\ p \in Nat
    BY Numbers
  <2>2. d \in Nat \ {0}
    BY Spans
  <2> QED BY <2>1, <2>2
<1>2. (\E k \in Nat : x = k * d) => x % d = 0
  BY <1>1, Quotient
<1>3. ASSUME x % d = 0 PROVE \E k \in Nat : x = k * d
  <2> HIDE DEF x, d
  <2> DEFINE k == x \div d
  <2>1. k \in Nat /\ x = d * k + (x % d)
    BY <1>1, DivMod
  <2> HIDE DEF k
  <2>2. x = k * d
    BY <1>1, <1>3, <2>1
  <2> QED BY <2>1, <2>2
<1>4. Aligned(p, o) <=> \E k \in Nat : x = k * d
  BY Zenon DEF Aligned
<1> HIDE DEF x, d
<1>5. Aligned(p, o) <=> x % d = 0
  BY <1>2, <1>3, <1>4, Zenon
<1> QED BY <1>5 DEF x, d

LEMMA Requested ==
  ASSUME PagesInv, pagesOp.at \in {"request", "split"}
  PROVE  /\ pagesOp.bytes \in PageRequests /\ pagesOp.bytes \in Nat \ {0}
         /\ pagesOp.target = B!OrderFor(pagesOp.bytes)
         /\ PagesGiven(pagesOp.bytes) = Span(pagesOp.target)
<1>1. pagesOp.bytes \in PageRequests /\ pagesOp.target = B!OrderFor(pagesOp.bytes)
  BY DEF PagesInv, PagesAsked
<1> QED BY <1>1, PageRequestsAssumption DEF PagesGiven, Span

LEMMA NoPagesLeft ==
  ASSUME PagesInv, B!NoPages
  PROVE  PageBlocks!Offers(pagesOp.bytes) = {}
<1> SUFFICES ASSUME NEW b \in PageBlocks!Offers(pagesOp.bytes) PROVE FALSE
  OBVIOUS
<1> DEFINE t == pagesOp.target
           p == b.at
<1>1. pagesOp.at = "request" /\ B!Stocked = {}
  BY DEF B!NoPages
<1>2. t = B!OrderFor(pagesOp.bytes) /\ PagesGiven(pagesOp.bytes) = Span(t) /\ t \in Nat
  BY <1>1, Requested DEF PagesInv, CallTyped
<1>3. /\ p \in AlignedPages(pagesOp.bytes) /\ b.len = PagesGiven(pagesOp.bytes)
      /\ PageBlocks!Vacant(b)
  BY DEF PageBlocks!Offers
<1>4. p \in B!Page /\ t <= MAX_ORDER /\ (BaseFrame + p) % Span(t) = 0
  BY <1>2, <1>3 DEF AlignedPages
<1>5. t \in B!Orders /\ Aligned(p, t) /\ p \in Int /\ b.len = Span(t)
  BY <1>2, <1>3, <1>4, AlignedStart, Numbers
<1> HIDE DEF t, p
<1>6. ASSUME NEW u \in Int, InBlock(u, p, t) PROVE u \in free
  <2>1. u \in PageBlocks!Extent(b)
    BY <1>2, <1>5, <1>6, ExtentOf DEF p
  <2>2. u \in B!Page
    BY <1>3, <2>1 DEF PageBlocks!Vacant, B!Page
  <2>3. ASSUME NEW q \in pagesUsed, InBlock(u, q, order[q]) PROVE FALSE
    <3>1. q \in Int /\ order[q] \in Nat
      BY <1>1, WhenIdle, HeldFacts DEF PagesInv
    <3>2. HeldPage(q).at = q /\ HeldPage(q).len = Span(order[q])
      BY DEF HeldPage
    <3>3. u \in PageBlocks!Extent(HeldPage(q))
      BY <2>3, <3>1, <3>2, ExtentOf
    <3>4. HeldPage(q) \in B!Held
      BY HeldPagesAre
    <3>5. PageBlocks!Apart(b, HeldPage(q))
      BY <1>3, <3>4 DEF PageBlocks!Vacant
    <3> QED BY <2>1, <3>3, <3>5 DEF PageBlocks!Apart
  <2> QED BY <1>1, <2>2, <2>3, WhenIdle
<1>7. PICK o \in B!Orders : t <= o /\ B!Listed(o) # {}
  BY <1>4, <1>5, <1>6, VacantListed
<1>8. lists[o] # << >>
  BY <1>7 DEF B!Listed
<1> QED BY <1>1, <1>7, <1>8 DEF B!Stocked, t

LEMMA GrantPagesGrants ==
  ASSUME PagesInv, NoPageWrap, B!GrantPages
  PROVE  PageBlocks!Grant
<1> DEFINE p == pagesOp.page
           t == pagesOp.target
           b == [at |-> p, len |-> Span(t)]
<1>1. pagesOp.at = "split" /\ pagesOp.order = t /\ pagesOp' = B!Idle
  BY DEF B!GrantPages
<1>2. /\ pagesOp.bytes \in PageRequests /\ pagesOp.bytes \in Nat \ {0}
      /\ t = B!OrderFor(pagesOp.bytes) /\ PagesGiven(pagesOp.bytes) = Span(t)
  BY <1>1, Requested
<1>3. Moving
  BY <1>1 DEF Moving
<1>4. /\ p \in B!Page /\ p \in Int /\ t \in B!Orders /\ t \in Nat
      /\ Aligned(p, t) /\ p + Span(t) <= Added
      /\ \A u \in B!Page : InBlock(u, p, t) => \A q \in HeldPages : ~ InBlock(u, q, order[q])
  BY <1>1, <1>3, MovingFacts DEF Placed
<1>5. pagesOp.block = B!NoPage
  BY <1>1 DEF PagesInv, CallTyped
<1>6. HeldPages = pagesUsed
  <2>1. \A q \in pagesUsed : q \in Nat
    BY Numbers DEF PagesInv, PagesTyped
  <2> QED BY <1>5, <2>1 DEF HeldPages, B!NoPage
<1>7. /\ p \notin pagesUsed /\ pagesUsed' = pagesUsed \cup {p}
      /\ order' = [order EXCEPT ![p] = t] /\ order \in [B!Page -> B!Orders]
      /\ pagesUsed \subseteq B!Page
  BY GrantPagesKeeps DEF PagesInv, PagesTyped
<1> HIDE DEF p, t
<1>8. b.at = p /\ b.len = Span(t)
  OBVIOUS
<1>9. B!Held' = B!Held \cup {b}
  <2>1. B!Held' = {[at |-> q, len |-> Span(order'[q])] : q \in pagesUsed \cup {p}}
    BY <1>7 DEF B!Held, Span
  <2>2. order'[p] = t /\ \A q \in pagesUsed : order'[q] = order[q]
    BY <1>4, <1>7
  <2>3. B!Held' = {HeldPage(q) : q \in pagesUsed} \cup {b}
    BY <2>1, <2>2 DEF HeldPage
  <2> QED BY <2>3, HeldPagesAre
<1>10. b \in PageBlocks!Offers(pagesOp.bytes)
  <2>1. p \in AlignedPages(pagesOp.bytes)
    <3>1. t <= MAX_ORDER /\ (BaseFrame + p) % Span(t) = 0
      BY <1>4, AlignedStart, Numbers
    <3> QED BY <1>2, <1>4, <3>1 DEF AlignedPages
  <2>2. ASSUME NEW u \in PageBlocks!Extent(b) PROVE u \in B!Page /\ InBlock(u, p, t)
    <3>1. u \in Int /\ InBlock(u, p, t)
      BY <1>4, <1>8, <2>2, ExtentOf
    <3>2. Added \in Nat /\ Added <= Pages /\ Span(t) \in Nat
      BY <1>4, AddedNat, Spans DEF PagesInv
    <3> QED BY <3>1, <3>2, <1>4, Numbers DEF InBlock
  <2>3. ASSUME NEW c \in B!Held PROVE PageBlocks!Apart(b, c)
    <3>1. PICK q \in pagesUsed : c = HeldPage(q)
      BY HeldPagesAre
    <3>2. q \in Int /\ order[q] \in Nat /\ c.at = q /\ c.len = Span(order[q])
      BY <1>6, <3>1, HeldFacts DEF PagesInv, HeldPage
    <3>3. ASSUME NEW u \in PageBlocks!Extent(b), u \in PageBlocks!Extent(c) PROVE FALSE
      <4>1. InBlock(u, q, order[q])
        BY <3>2, <3>3, ExtentOf
      <4> QED BY <4>1, <2>2, <1>4, <1>6
    <3> QED BY <3>3 DEF PageBlocks!Apart
  <2>4. PageBlocks!Vacant(b)
    BY <2>2, <2>3 DEF PageBlocks!Vacant, B!Page
  <2> QED BY <1>2, <2>1, <2>4 DEF PageBlocks!Offers
<1>11. (b.len - 0) * PAGE_SIZE >= pagesOp.bytes
  <2> DEFINE n == pagesOp.bytes + PAGE_SIZE - 1
             k == n \div PAGE_SIZE
  <2>1. n < Word /\ n \in Nat /\ PAGE_SIZE \in Nat \ {0} /\ Word \in Nat \ {0}
    BY <1>2, PagesAssumption DEF NoPageWrap
  <2>2. k * PAGE_SIZE >= pagesOp.bytes
    BY <1>2, <2>1, Ceiling
  <2>3. B!PagesFor(pagesOp.bytes) = k
    <3> HIDE DEF n
    <3>1. n % Word = n
      BY <2>1
    <3> QED BY <3>1 DEF B!PagesFor, n
  <2>4. Span(t) >= k
    <3>1. t # MAX_ORDER + 1
      BY <1>4, Numbers
    <3> QED BY <1>2, <2>3, <3>1, OrderOf
  <2>5. k \in Nat
    <3> HIDE DEF n
    <3> QED BY <2>1, DivMod
  <2> HIDE DEF k
  <2>6. Span(t) \in Nat
    BY <1>4, Spans
  <2>7. k * PAGE_SIZE <= Span(t) * PAGE_SIZE
    BY <2>1, <2>4, <2>5, <2>6, Times
  <2>8. k * PAGE_SIZE \in Int /\ Span(t) * PAGE_SIZE \in Int /\ Span(t) - 0 = Span(t)
    BY <2>1, <2>5, <2>6
  <2> QED BY <1>2, <1>8, <2>2, <2>7, <2>8
<1>12. pagesOp.bytes # 0 /\ pagesOp'.bytes = 0
  BY <1>1, <1>2 DEF B!Idle
<1> HIDE DEF b
<1> QED BY <1>9, <1>10, <1>11, <1>12 DEF PageBlocks!Grant

(* What add_to_free_list writes into the orders leaves held blocks alone.  *)
LEMMA HeldOrders ==
  ASSUME PagesInv, Moving, NEW p \in B!Page, NEW o \in Nat,
         \A u \in B!Page : InBlock(u, p, o) => InBlock(u, pagesOp.page, pagesOp.order),
         B!add_to_free_list(p, o)
  PROVE  \A q \in HeldPages : order'[q] = order[q]
<1> SUFFICES ASSUME NEW q \in HeldPages PROVE order'[q] = order[q]
  OBVIOUS
<1>1. q \in B!Page /\ InBlock(q, q, order[q]) /\ p \in Int
  BY HeldFacts, Numbers DEF PagesInv
<1>2. ~ InBlock(q, p, o)
  BY <1>1, MovingFacts
<1>3. q \notin B!Block(p, o)
  BY <1>1, <1>2, BlockOf
<1> QED BY <1>1, <1>3 DEF B!add_to_free_list

LEMMA JoinedReleases ==
  ASSUME PagesInv, B!Joined
  PROVE  PageBlocks!Release \/ UNCHANGED << B!Held, pagesOp.bytes >>
<1>1. /\ pagesOp.at = "join" /\ B!add_to_free_list(pagesOp.page, pagesOp.order)
      /\ pagesUsed' = HeldPages
  BY DEF B!Joined, HeldPages
<1>2. Moving
  BY <1>1 DEF Moving
<1>3. \A q \in HeldPages : order'[q] = order[q]
  BY <1>1, <1>2, MovingFacts, HeldOrders
<1>4. B!Held' = {HeldPage(q) : q \in HeldPages}
  <2>1. B!Held' = {[at |-> q, len |-> Span(order'[q])] : q \in HeldPages}
    BY <1>1 DEF B!Held, Span
  <2> QED BY <1>3, <2>1 DEF HeldPage
<1>5. pagesOp.bytes = 0 /\ pagesOp'.bytes = 0
  BY <1>1 DEF PagesInv, PagesAsked, B!Joined, B!Idle
<1> DEFINE b == pagesOp.block
<1>6. CASE b \in pagesUsed
  <2>1. \A q \in pagesUsed : q # b => HeldPage(q) # HeldPage(b)
    BY DEF HeldPage
  <2>2. B!Held' = B!Held \ {HeldPage(b)} /\ HeldPage(b) \in B!Held
    <3> HIDE DEF b
    <3>1. HeldPages = pagesUsed \ {b}
      BY DEF HeldPages, b
    <3> QED BY <1>4, <1>6, <2>1, <3>1, HeldPagesAre
  <2> QED BY <1>5, <2>2 DEF PageBlocks!Release
<1>7. CASE b \notin pagesUsed
  <2>1. HeldPages = pagesUsed
    BY <1>7 DEF HeldPages
  <2> QED BY <1>4, <1>5, <2>1, HeldPagesAre
<1> QED BY <1>6, <1>7

LEMMA SplitBlockHolds ==
  ASSUME PagesInv, B!SplitBlock
  PROVE  UNCHANGED << B!Held, pagesOp.bytes >>
<1> DEFINE o == pagesOp.order - 1
           half == pagesOp.page + Span(o)
<1>1. /\ pagesOp.at = "split" /\ pagesOp.order > pagesOp.target
      /\ B!add_to_free_list(half, o)
      /\ pagesOp' = [pagesOp EXCEPT !.order = o]
      /\ pagesUsed' = pagesUsed
  BY DEF B!SplitBlock, Span
<1>2. Moving /\ pagesOp \in Calls /\ pagesOp.block = B!NoPage /\ pagesOp.target \in Nat
  BY <1>1 DEF Moving, PagesInv, CallTyped
<1>3. /\ pagesOp.page \in Nat /\ pagesOp.page \in Int /\ pagesOp.order \in Nat
      /\ pagesOp.page + Span(pagesOp.order) <= Added /\ Added \in Nat /\ Added <= Pages
  BY <1>2, MovingFacts, Numbers, AddedNat DEF Placed, PagesInv
<1>4. o \in Nat /\ o + 1 = pagesOp.order
  BY <1>1, <1>2, <1>3
<1> HIDE DEF o
<1>5. Span(o) \in Nat \ {0} /\ Span(pagesOp.order) = 2 * Span(o)
  BY <1>4, Spans
<1>6. half \in B!Page
  <2>1. half \in Nat /\ half < Pages /\ Pages \in Nat
    <3> DEFINE page == pagesOp.page
    <3>1. page \in Nat /\ page + 2 * Span(o) <= Added /\ half = page + Span(o)
      BY <1>3, <1>5
    <3> DEFINE d == Span(o)
    <3>2. d \in Nat \ {0} /\ Added \in Nat /\ Added <= Pages /\ Pages \in Nat
      BY <1>3, <1>5, Numbers
    <3>3. page \in Nat /\ page + 2 * d <= Added /\ half = page + d
      BY <3>1
    <3> HIDE DEF page, half, d
    <3> QED BY <3>2, <3>3
  <2>2. half \in 0 .. Pages - 1
    <3> HIDE DEF half
    <3> QED BY <2>1
  <2> QED BY <2>2, Numbers
<1>7. ASSUME NEW u \in B!Page, InBlock(u, half, o)
      PROVE  InBlock(u, pagesOp.page, pagesOp.order)
  BY <1>3, <1>5, <1>7, Numbers DEF InBlock
<1> HIDE DEF half
<1>8. \A q \in HeldPages : order'[q] = order[q]
  BY <1>1, <1>2, <1>4, <1>6, <1>7, HeldOrders
<1>9. HeldPages = pagesUsed
  <2>1. \A q \in pagesUsed : q \in Nat
    BY Numbers DEF PagesInv, PagesTyped
  <2> QED BY <1>2, <2>1 DEF HeldPages, B!NoPage
<1>10. B!Held' = B!Held
  BY <1>1, <1>8, <1>9 DEF B!Held
<1>11. pagesOp'.bytes = pagesOp.bytes
  BY <1>1, <1>2 DEF Calls
<1> QED BY <1>10, <1>11

LEMMA JoinHolds ==
  ASSUME PagesInv, B!Join
  PROVE  UNCHANGED << B!Held, pagesOp.bytes >>
<1>1. order' = order /\ pagesUsed' = pagesUsed
  BY DEF B!Join
<1>2. pagesOp \in Calls
  BY DEF PagesInv, CallTyped
<1>3. \E x, y : pagesOp' = [[pagesOp EXCEPT !.page = x] EXCEPT !.order = y]
  BY Zenon DEF B!Join
<1>4. pagesOp'.bytes = pagesOp.bytes
  BY <1>2, <1>3 DEF Calls
<1> QED BY <1>1, <1>4 DEF B!Held

LEMMA TakeBlockHolds ==
  ASSUME PagesInv, B!TakeBlock
  PROVE  UNCHANGED << B!Held, pagesOp.bytes >>
<1>1. order' = order /\ pagesUsed' = pagesUsed
  BY DEF B!TakeBlock
<1>2. pagesOp \in Calls
  BY DEF PagesInv, CallTyped
<1>3. \E x, y : pagesOp' = [[[pagesOp EXCEPT !.at = "split"] EXCEPT !.page = x] EXCEPT !.order = y]
  BY Zenon DEF B!TakeBlock
<1>4. pagesOp'.bytes = pagesOp.bytes
  BY <1>2, <1>3 DEF Calls
<1> QED BY <1>1, <1>4 DEF B!Held

LEMMA AddBlockHolds ==
  ASSUME PagesInv, B!AddBlock
  PROVE  UNCHANGED << B!Held, pagesOp.bytes >>
<1>1. order' = order /\ pagesUsed' = pagesUsed /\ pagesOp.at = "adding" /\ pagesOp'.bytes = 0
  BY DEF B!AddBlock, B!Idle
<1>2. pagesOp.bytes = 0
  BY <1>1 DEF PagesInv, PagesAsked
<1> QED BY <1>1, <1>2 DEF B!Held

LEMMA FreePagesHolds ==
  ASSUME PagesInv, NEW p \in pagesUsed, B!mm_free(p)
  PROVE  UNCHANGED << B!Held, pagesOp.bytes >>
<1>1. order' = order /\ pagesUsed' = pagesUsed /\ pagesOp.at = "idle" /\ pagesOp'.bytes = 0
  BY DEF B!mm_free, B!Idle
<1>2. pagesOp.bytes = 0
  BY <1>1 DEF PagesInv, PagesAsked
<1> QED BY <1>1, <1>2 DEF B!Held

LEMMA PagesStepImplements ==
  ASSUME PagesInv, NoPageWrap, [HeapNext]_heapVars
  PROVE  [PageBlocks!Next]_(PageBlocks!vars)
<1> USE DEF PageBlocks!Next, PageBlocks!vars
<1>1. CASE UNCHANGED buddyVars
  BY <1>1 DEF buddyVars, B!Held
<1>2. CASE \E bytes \in PageRequests : B!mm_alloc(bytes)
  <2>1. pagesOp.bytes = 0
    BY <1>2 DEF B!mm_alloc, PagesInv, PagesAsked
  <2>2. pagesOp'.bytes \in Nat \ {0} /\ UNCHANGED << order, pagesUsed >>
    BY <1>2, PageRequestsAssumption DEF B!mm_alloc, B!Idle
  <2> QED BY <2>1, <2>2 DEF PageBlocks!Ask, B!Held
<1>3. CASE B!NoPages
  <2>1. PageBlocks!Offers(pagesOp.bytes) = {}
    BY <1>3, NoPagesLeft
  <2>2. pagesOp.at = "request" /\ pagesOp'.bytes = 0 /\ UNCHANGED << order, pagesUsed >>
    BY <1>3 DEF B!NoPages, B!Idle
  <2>3. pagesOp.bytes # 0
    BY <2>2, Requested
  <2> QED BY <2>1, <2>2, <2>3 DEF PageBlocks!Refuse, B!Held
<1>4. CASE B!GrantPages
  BY <1>4, GrantPagesGrants
<1>5. CASE B!Joined
  BY <1>5, JoinedReleases
<1>6. CASE B!SplitBlock
  BY <1>6, SplitBlockHolds
<1>7. CASE B!Join \/ B!AddBlock \/ B!TakeBlock \/ \E p \in pagesUsed : B!mm_free(p)
  BY <1>7, JoinHolds, AddBlockHolds, TakeBlockHolds, FreePagesHolds
<1>8. UNCHANGED buddyVars \/ B!Next
  BY DEF HeapNext, heapVars, FirstFitRuns, BuddyRuns
<1> QED BY <1>1, <1>2, <1>3, <1>4, <1>5, <1>6, <1>7, <1>8 DEF B!Next, B!Loops

LEMMA PagesImplement == NoPageWrap => (HeapSpec => PageBlocks!Spec)
<1> SUFFICES ASSUME NoPageWrap PROVE HeapSpec => PageBlocks!Spec
  OBVIOUS
<1>1. HeapInit => PageBlocks!Init
  BY DEF HeapInit, B!Init, PageBlocks!Init, B!Held, B!Idle
<1>2. PagesInv /\ [HeapNext]_heapVars => [PageBlocks!Next]_(PageBlocks!vars)
  BY PagesStepImplements
<1> QED BY <1>1, <1>2, PagesInvariant, PTL DEF HeapSpec, PageBlocks!Spec

(* Heaps!HeapAllocates: each heap implements Allocator: it grants blocks   *)
(* that overlap no held one and have room, and refuses only when no block  *)
(* of the length is left.  The buddy heap does so for the requests that do *)
(* not wrap.                                                               *)
THEOREM HeapsAllocate == NoPageWrap => (HeapSpec => HeapAllocates)
<1> SUFFICES ASSUME NoPageWrap PROVE HeapSpec => HeapAllocates
  OBVIOUS
<1>1. HeapInit => Init
  BY DEF HeapInit
<1>2. [HeapNext]_heapVars => [Next]_vars
  BY DEF HeapNext, heapVars, FirstFitRuns, BuddyRuns
<1>3. HeapSpec => Spec
  BY <1>1, <1>2, PTL DEF HeapSpec, Spec
<1>4. HeapSpec => PageBlocks!Spec
  BY PagesImplement
<1> QED BY <1>3, <1>4, UnitsImplement DEF HeapAllocates
=============================================================================
