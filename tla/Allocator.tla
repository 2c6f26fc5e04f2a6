----------------------------- MODULE Allocator -----------------------------
(***************************************************************************)
(* What both heaps of the kernel promise: a block that is granted lies in  *)
(* the heap, overlaps no block that is held and has room for the request;  *)
(* a request is refused only when no place for it is free.                 *)
(***************************************************************************)
EXTENDS Naturals

CONSTANTS
  Places,           \* the addresses of the heap, in its unit
  UnitBytes,        \* bytes of a unit
  Header,           \* units of a block that its holder may not use
  Length(_),        \* units of the block for a request of r bytes
  Starts(_)         \* where it may begin

VARIABLES
  held,             \* the blocks that clients hold
  asked             \* the request that is being served, or 0

vars == << held, asked >>

Extent(b) == b.at .. b.at + b.len - 1

Apart(b, c) == Extent(b) \cap Extent(c) = {}

Vacant(b) == Extent(b) \subseteq Places /\ \A c \in held : Apart(b, c)

(* The blocks a request of r bytes may be given. *)
Offers(r) ==
  {b \in [at : Starts(r), len : {Length(r)}] : Vacant(b)}

Init == held = {} /\ asked = 0

Ask == asked = 0 /\ asked' \in Nat \ {0} /\ UNCHANGED held

Grant ==
  /\ asked # 0
  /\ \E b \in Offers(asked) : /\ (b.len - Header) * UnitBytes >= asked
                              /\ held' = held \cup {b}
  /\ asked' = 0

Refuse ==
  /\ asked # 0
  /\ Offers(asked) = {}
  /\ asked' = 0
  /\ UNCHANGED held

Release ==
  /\ asked = 0
  /\ \E b \in held : held' = held \ {b}
  /\ UNCHANGED asked

Next == Ask \/ Grant \/ Refuse \/ Release

Spec == Init /\ [][Next]_vars
=============================================================================
