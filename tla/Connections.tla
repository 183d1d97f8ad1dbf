---------------------------- MODULE Connections -----------------------------
(***************************************************************************)
(* The server's collection of connection states, connections.c: two arrays *)
(* of the same length, one of connection states and one of active flags.   *)
(* A caller is handed a slot, keeps its connection state there, and gives  *)
(* it back by the instance number that the slot carries.                   *)
(*                                                                         *)
(* Each operation is one step: this is the contract of the collection for  *)
(* one caller at a time.  No lock of the code makes it so for the threads  *)
(* of the server; module Server, which interleaves them, takes reset and   *)
(* dispose apart into their accesses.                                      *)
(*                                                                         *)
(* A connection state keeps what the callers of the collection read or     *)
(* write: the instance number, the peer whose socket is in target, the     *)
(* connected flag of target, and whether the exchange flag says that the   *)
(* session is established.  The ciphers, sequence counters and ratchet key *)
(* are erased and set together with the exchange flag and stand behind it. *)
(***************************************************************************)
EXTENDS Integers, FiniteSets

CONSTANTS
  Peers,      \* the remote hosts
  NoPeer,     \* the target of a slot that is all zeros
  MaxSlots    \* bound on the capacity the collection is initialized with

ASSUME PeersAssumption == NoPeer \notin Peers
ASSUME MaxSlotsAssumption == MaxSlots \in Nat \ {0}

VARIABLES
  alloc,      \* "none": no memory; "live": both arrays; "lost": an allocation failed
  conset,     \* the connection states
  active,     \* the flags
  length,     \* the length of both arrays
  maximum,    \* the length they may grow to
  ret         \* what qsmp_connections_next last returned: an index, or Null

poolVars == <<alloc, conset, active, length, maximum, ret>>

Null == -1

Slots == 0 .. length - 1

ConnectionState ==
  [instance : Nat, peer : Peers \cup {NoPeer}, up : BOOLEAN, established : BOOLEAN]

\* A state that was cleared and given its index as instance number.
Cleared(i) == [instance |-> i, peer |-> NoPeer, up |-> FALSE, established |-> FALSE]

Matching(n) == {i \in Slots : conset[i].instance = n}

\* qsmp_connections_get searches to the end and keeps the last match.
Get(n) ==
  IF Matching(n) = {} THEN Null
  ELSE CHOOSE i \in Matching(n) : \A j \in Matching(n) : j <= i

\* The slot qsmp_connections_reset acts on: its search stops at the first match.
ResetSlot(n) ==
  IF Matching(n) = {} THEN Null
  ELSE CHOOSE i \in Matching(n) : \A j \in Matching(n) : i <= j

-----------------------------------------------------------------------------
(* Mutants: each is a slip in the definition that follows the group.        *)

FullWhenOneIsActive == \E i \in Slots : active[i]
CanGrowPastMaximum == length <= maximum
CanGrowToOneLess == length + 1 < maximum
AddedUnnumbered == Cleared(0)
ReleasedUnerased(i) == [conset[i] EXCEPT !.instance = i]
ClearedUnnumbered == [i \in Slots |-> Cleared(0)]

-----------------------------------------------------------------------------
(* The operations.  After a failed allocation an array pointer is NULL and *)
(* the next operation dereferences it: none is modelled from "lost".       *)

\* qsmp_connections_full; an empty collection is full.
Full == \A i \in Slots : active[i]

\* The guard of qsmp_connections_add, the state it gives the new slot, the
\* state qsmp_connections_reset leaves in a slot, those of qsmp_connections_clear.
CanGrow == length + 1 <= maximum
Added == Cleared(length)
Released(i) == Cleared(i)
AllCleared == [i \in Slots |-> Cleared(i)]

Extended(f, x) == [i \in 0 .. length |-> IF i = length THEN x ELSE f[i]]

PoolInit ==
  /\ alloc = "none"
  /\ conset = [i \in {} |-> Cleared(i)]
  /\ active = [i \in {} |-> FALSE]
  /\ length = 0
  /\ maximum = 0
  /\ ret = Null

\* qsmp_connections_initialize: the callers pass a fresh or a disposed collection.
Initialize(count, max) ==
  /\ alloc = "none"
  /\ count # 0 /\ max # 0 /\ count <= max
  /\ length' = count
  /\ maximum' = max
  /\ \/ /\ alloc' = "live"
        /\ conset' = [i \in 0 .. count - 1 |-> Cleared(i)]
        /\ active' = [i \in 0 .. count - 1 |-> FALSE]
     \/ /\ alloc' = "lost"
        /\ UNCHANGED <<conset, active>>
  /\ UNCHANGED ret

\* qsmp_connections_add: the new slot is cleared, numbered and active.
Add ==
  IF CanGrow
  THEN \/ /\ length' = length + 1
          /\ conset' = Extended(conset, Added)
          /\ active' = Extended(active, TRUE)
          /\ ret' = length
          /\ UNCHANGED <<alloc, maximum>>
       \/ /\ alloc' = "lost"
          /\ ret' = Null
          /\ UNCHANGED <<conset, active, length, maximum>>
  ELSE ret' = Null /\ UNCHANGED <<alloc, conset, active, length, maximum>>

\* The first inactive slot becomes active; its state is not touched.
Claim ==
  \E i \in Slots :
    /\ ~active[i]
    /\ \A j \in 0 .. i - 1 : active[j]
    /\ active' = [active EXCEPT ![i] = TRUE]
    /\ ret' = i
    /\ UNCHANGED <<alloc, conset, length, maximum>>

\* qsmp_connections_next
NextSlot ==
  /\ alloc # "lost"
  /\ IF Full THEN Add ELSE Claim

\* qsmp_connections_reset, with no other caller between its search and its writes.
Reset(n) ==
  /\ alloc # "lost"
  /\ IF Matching(n) = {} THEN UNCHANGED <<conset, active>>
     ELSE /\ conset' = [conset EXCEPT ![ResetSlot(n)] = Released(ResetSlot(n))]
          /\ active' = [active EXCEPT ![ResetSlot(n)] = FALSE]
  /\ UNCHANGED <<alloc, length, maximum, ret>>

\* qsmp_connections_clear
Clear ==
  /\ alloc # "lost"
  /\ conset' = AllCleared
  /\ active' = [i \in Slots |-> FALSE]
  /\ UNCHANGED <<alloc, length, maximum, ret>>

\* qsmp_connections_dispose clears the states before it frees them.
Dispose ==
  /\ alloc # "lost"
  /\ alloc' = "none"
  /\ conset' = [i \in {} |-> Cleared(i)]
  /\ active' = [i \in {} |-> FALSE]
  /\ length' = 0
  /\ maximum' = 0
  /\ UNCHANGED ret

\* A holder of slot i accepts a peer into it and runs the exchange there.  The
\* collection's contract leaves the instance number alone; what the server's
\* threads do to it is in module Server.
Use(i, p, est) ==
  /\ alloc = "live"
  /\ active[i]
  /\ conset' = [conset EXCEPT ![i] = [@ EXCEPT !.peer = p, !.up = TRUE, !.established = est]]
  /\ UNCHANGED <<alloc, active, length, maximum, ret>>

Next ==
  \/ \E count, max \in 0 .. MaxSlots : Initialize(count, max)
  \/ NextSlot
  \/ \E n \in 0 .. MaxSlots : Reset(n)
  \/ Clear
  \/ Dispose
  \/ \E i \in Slots, p \in Peers, est \in BOOLEAN : Use(i, p, est)

Spec == PoolInit /\ [][Next]_poolVars

-----------------------------------------------------------------------------
(* Properties *)

\* Type correctness; an array that exists has exactly length entries.
TypeOK ==
  /\ alloc \in {"none", "live", "lost"}
  /\ length \in Nat
  /\ maximum \in Nat
  /\ length <= maximum
  /\ ret \in Nat \cup {Null}
  /\ alloc = "none" => length = 0 /\ maximum = 0
  /\ alloc # "lost" => /\ conset \in [Slots -> ConnectionState]
                       /\ active \in [Slots -> BOOLEAN]

\* Every slot carries its own index, through initialize, growth, reset and
\* clear: this is what makes the number a handle to one slot.
InstanceIsIndex == alloc # "lost" => \A i \in Slots : conset[i].instance = i

\* A slot that is free holds nothing of the connection that used it last, so
\* that qsmp_connections_next, which erases nothing, hands out an erased state.
FreeIsErased == alloc # "lost" => \A i \in Slots : ~active[i] => conset[i] = Cleared(i)

\* qsmp_connections_get searches for the last slot of an instance number and
\* qsmp_connections_reset for the first: a caller that finds its state with one
\* and releases it with the other must hit the same slot.
GetAgreesWithReset ==
  alloc # "lost" => \A n \in 0 .. length : Get(n) = ResetSlot(n)

\* qsmp_connections_next gives NULL only for an allocation failure or when
\* every slot the collection may ever have is held.
RefusesOnlyWhenExhausted ==
  [][(ret # Null /\ ret' = Null) =>
       alloc' = "lost" \/ (length = maximum /\ \A i \in Slots : active[i])]_poolVars

Held == IF alloc = "live" THEN {i \in Slots : active[i]} ELSE {}

Pool == INSTANCE SlotPool
          WITH open <- (alloc = "live"), size <- length, cap <- maximum, held <- Held

\* The collection implements SlotPool: exclusive slots, growth only when every
\* slot is held, release of one slot at a time.
PoolImplemented == Pool!Spec
=============================================================================
