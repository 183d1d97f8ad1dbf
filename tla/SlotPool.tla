------------------------------ MODULE SlotPool ------------------------------
(***************************************************************************)
(* What a user of the connection collection relies on, without the arrays: *)
(* a pool of numbered slots, of which some are held.  A slot is handed to  *)
(* one holder at a time, the pool grows only when every slot is held, it   *)
(* never grows past the capacity it was opened with, and releasing takes   *)
(* back one held slot and no other.                                        *)
(* Connections implements this specification (its property PoolImplemented).    *)
(***************************************************************************)
EXTENDS Naturals

VARIABLES
  open,   \* the pool has its memory
  size,   \* how many slots exist
  cap,    \* how many may exist
  held    \* the slots that are handed out

vars == <<open, size, cap, held>>

Init == open = FALSE /\ size = 0 /\ cap = 0 /\ held = {}

Open ==
  /\ ~open
  /\ open' = TRUE
  /\ size' \in Nat \ {0}
  /\ cap' \in Nat
  /\ size' <= cap'
  /\ held' = {}

Acquire ==
  /\ open
  /\ \E s \in (0 .. size - 1) \ held : held' = held \cup {s}
  /\ UNCHANGED <<open, size, cap>>

Extend ==
  /\ open
  /\ held = 0 .. size - 1
  /\ size < cap
  /\ size' = size + 1
  /\ held' = held \cup {size}
  /\ UNCHANGED <<open, cap>>

Release ==
  /\ open
  /\ \E s \in held : held' = held \ {s}
  /\ UNCHANGED <<open, size, cap>>

ReleaseAll ==
  /\ open
  /\ held' = {}
  /\ UNCHANGED <<open, size, cap>>

Close ==
  /\ open' = FALSE
  /\ size' = 0
  /\ cap' = 0
  /\ held' = {}

\* An allocation failed: the memory is gone and the pool is of no use.
Lose ==
  /\ open' = FALSE
  /\ held' = {}
  /\ size' \in Nat
  /\ cap' \in Nat

Next == Open \/ Acquire \/ Extend \/ Release \/ ReleaseAll \/ Close \/ Lose

Spec == Init /\ [][Next]_vars
=============================================================================
