---------------------------- MODULE ServerProofs -----------------------------
(***************************************************************************)
(* Proofs about the connection collection and about the server that uses   *)
(* it, for every set of peers, every capacity and whatever the application *)
(* calls.                                                                  *)
(*                                                                         *)
(* The collection alone: the inductive invariant is TypeOK,                *)
(* InstanceIsIndex and FreeIsErased together.  With the types alone        *)
(* nothing says which slot a reset acts on; with the numbering the search  *)
(* of reset and of get can only find the slot of that index (OneMatch).    *)
(*                                                                         *)
(* The server: its threads renumber the slots of the collection, so that   *)
(* invariant is lost.  What is left of the numbering is that slot 0        *)
(* carries 0 (SlotZeroIsFound), so that a search for 0 ends there          *)
(* (SearchInv); and every pointer in use is one to a slot or stale         *)
(* (PointersInv).  A reset is a search and three writes here, and all that *)
(* the other threads do falls between them.                                *)
(*                                                                         *)
(* The slots: how one is handed from the accept loop to a receiver thread. *)
(* As long as no thread has given its slot back, each running thread has   *)
(* an active slot of its own; the slot that the loop itself gives back     *)
(* after a failed accept is nobody's while it does (LoopGives).            *)
(***************************************************************************)
EXTENDS Server, TLAPS

-----------------------------------------------------------------------------
(* The collection *)

CollectionInv == TypeOK /\ InstanceIsIndex /\ FreeIsErased

\* A cleared state is a connection state that carries its index.
LEMMA ClearedType ==
  ASSUME NEW i \in Nat
  PROVE  Cleared(i) \in ConnectionState /\ Cleared(i).instance = i
BY DEF Cleared, ConnectionState

\* While every slot carries its index, the slots that match an instance number
\* are the slot of that index, or none.
LEMMA OneMatch ==
  ASSUME TypeOK, InstanceIsIndex, alloc # "lost", NEW n \in Nat
  PROVE  Matching(n) = IF n < length THEN {n} ELSE {}
BY DEF TypeOK, InstanceIsIndex, Matching, Slots

\* So reset acts on the slot of that index, and get finds the same one.
LEMMA MatchIsIndex ==
  ASSUME TypeOK, InstanceIsIndex, alloc # "lost", NEW n \in Nat
  PROVE  /\ n < length => Matching(n) # {} /\ ResetSlot(n) = n /\ Get(n) = n
         /\ n >= length => Matching(n) = {} /\ ResetSlot(n) = Null /\ Get(n) = Null
<1>1. CASE n < length
  <2>1. Matching(n) = {n}
    BY <1>1, OneMatch
  <2>2. \A i \in {n} : i = n
    OBVIOUS
  <2>3. QED
    BY <1>1, <2>1, <2>2 DEF TypeOK, ResetSlot, Get
<1>2. CASE n >= length
  <2>1. Matching(n) = {}
    BY <1>2, OneMatch DEF TypeOK
  <2>2. QED
    BY <1>2, <2>1 DEF TypeOK, ResetSlot, Get
<1>3. QED
  BY <1>1, <1>2 DEF TypeOK

\* What a step of qsmp_connections_next can be: a claim of a free slot, growth
\* of a full collection by one slot, a failed allocation, or a refusal.
LEMMA NextSlotCases ==
  ASSUME NextSlot
  PROVE  \/ Full /\ CanGrow /\ alloc' = "lost" /\ UNCHANGED <<length, maximum>> /\ ret' = Null
         \/ /\ Full /\ CanGrow
            /\ length' = length + 1
            /\ conset' = Extended(conset, Added)
            /\ active' = Extended(active, TRUE)
            /\ ret' = length
            /\ UNCHANGED <<alloc, maximum>>
         \/ Full /\ ~CanGrow /\ ret' = Null /\ UNCHANGED <<alloc, conset, active, length, maximum>>
         \/ ~Full /\ Claim
BY DEF NextSlot, Add

LEMMA InitCollectionInv == PoolInit => CollectionInv
BY DEF PoolInit, CollectionInv, TypeOK, InstanceIsIndex, FreeIsErased, Slots, ConnectionState, Null

LEMMA StepCollectionInv == CollectionInv /\ [Next]_poolVars => CollectionInv'
<1> SUFFICES ASSUME CollectionInv, [Next]_poolVars
             PROVE  CollectionInv'
  OBVIOUS
<1> USE DEF CollectionInv
<1>1. ASSUME NEW count \in 0 .. MaxSlots, NEW max \in 0 .. MaxSlots, Initialize(count, max)
      PROVE  CollectionInv'
  <2>1. count \in Nat /\ max \in Nat /\ count <= max
    BY <1>1, MaxSlotsAssumption DEF Initialize
  <2>2. CASE alloc' = "live" /\ conset' = [i \in 0 .. count - 1 |-> Cleared(i)]
                             /\ active' = [i \in 0 .. count - 1 |-> FALSE]
    BY <1>1, <2>1, <2>2, ClearedType
    DEF Initialize, TypeOK, InstanceIsIndex, FreeIsErased, Slots
  <2>3. CASE alloc' = "lost"
    BY <1>1, <2>1, <2>3 DEF Initialize, TypeOK, InstanceIsIndex, FreeIsErased
  <2>4. QED
    BY <1>1, <2>2, <2>3 DEF Initialize
<1>2. CASE NextSlot
  <2>1. CASE alloc' = "lost" /\ UNCHANGED <<length, maximum>> /\ ret' = Null
    BY <1>2, <2>1 DEF NextSlot, TypeOK, InstanceIsIndex, FreeIsErased
  <2>2. CASE /\ CanGrow
             /\ length' = length + 1
             /\ conset' = Extended(conset, Added)
             /\ active' = Extended(active, TRUE)
             /\ ret' = length
             /\ UNCHANGED <<alloc, maximum>>
    <3>1. alloc # "lost" /\ length \in Nat
      BY <1>2 DEF NextSlot, TypeOK
    <3>2. Cleared(length) \in ConnectionState /\ Cleared(length).instance = length
      BY <3>1, ClearedType
    <3>3. 0 .. length = Slots \cup {length} /\ Slots' = 0 .. length
      BY <2>2, <3>1 DEF Slots
    <3>4. TypeOK'
      <4>1. conset' \in [Slots' -> ConnectionState]
        BY <2>2, <3>1, <3>2, <3>3 DEF TypeOK, Extended, Added
      <4>2. active' \in [Slots' -> BOOLEAN]
        BY <2>2, <3>1, <3>3 DEF TypeOK, Extended
      <4>3. /\ length' \in Nat /\ maximum' \in Nat /\ length' <= maximum'
            /\ ret' \in Nat
            /\ alloc # "none"
        BY <2>2, <3>1 DEF TypeOK, CanGrow
      <4>4. QED
        BY <2>2, <4>1, <4>2, <4>3 DEF TypeOK
    <3>5. InstanceIsIndex'
      BY <2>2, <3>1, <3>2, <3>3 DEF TypeOK, InstanceIsIndex, Extended, Added, Slots
    <3>6. FreeIsErased'
      BY <2>2, <3>1, <3>3 DEF TypeOK, FreeIsErased, Extended, Added, Slots
    <3>7. QED
      BY <3>4, <3>5, <3>6
  <2>3. CASE ret' = Null /\ UNCHANGED <<alloc, conset, active, length, maximum>>
    BY <2>3 DEF TypeOK, InstanceIsIndex, FreeIsErased, Slots
  <2>4. CASE Claim
    BY <1>2, <2>4 DEF NextSlot, Claim, TypeOK, InstanceIsIndex, FreeIsErased, Slots
  <2>5. QED
    BY <1>2, <2>1, <2>2, <2>3, <2>4, NextSlotCases
<1>3. ASSUME NEW n \in 0 .. MaxSlots, Reset(n)
      PROVE  CollectionInv'
  <2>1. alloc # "lost" /\ n \in Nat
    BY <1>3, MaxSlotsAssumption DEF Reset
  <2>2. CASE n < length
    <3>1. Matching(n) # {} /\ ResetSlot(n) = n
      BY <2>1, <2>2, MatchIsIndex
    <3>2. /\ conset' = [conset EXCEPT ![n] = Cleared(n)]
          /\ active' = [active EXCEPT ![n] = FALSE]
          /\ UNCHANGED <<alloc, length, maximum, ret>>
      BY <1>3, <3>1 DEF Reset, Released
    <3>3. Cleared(n) \in ConnectionState /\ Cleared(n).instance = n
      BY <2>1, ClearedType
    <3>4. QED
      BY <2>1, <2>2, <3>2, <3>3 DEF TypeOK, InstanceIsIndex, FreeIsErased, Slots
  <2>3. CASE n >= length
    <3>1. Matching(n) = {}
      BY <2>1, <2>3, MatchIsIndex
    <3>2. UNCHANGED poolVars
      BY <1>3, <3>1 DEF Reset, poolVars
    <3>3. QED
      BY <3>2 DEF TypeOK, InstanceIsIndex, FreeIsErased, Slots, poolVars
  <2>4. QED
    BY <2>1, <2>2, <2>3 DEF TypeOK
<1>4. CASE Clear
  BY <1>4, ClearedType DEF Clear, AllCleared, TypeOK, InstanceIsIndex, FreeIsErased, Slots
<1>5. CASE Dispose
  BY <1>5 DEF Dispose, TypeOK, InstanceIsIndex, FreeIsErased, Slots
<1>6. ASSUME NEW i \in Slots, NEW p \in Peers, NEW est \in BOOLEAN, Use(i, p, est)
      PROVE  CollectionInv'
  <2> DEFINE used == [conset[i] EXCEPT !.peer = p, !.up = TRUE, !.established = est]
  <2>1. /\ alloc = "live" /\ active[i]
        /\ conset' = [conset EXCEPT ![i] = used]
        /\ UNCHANGED <<alloc, active, length, maximum, ret>>
    BY <1>6 DEF Use
  <2>2. conset \in [Slots -> ConnectionState] /\ conset[i] \in ConnectionState
    BY <2>1, <1>6 DEF TypeOK
  <2>3. used \in ConnectionState /\ used.instance = conset[i].instance
    BY <2>2 DEF ConnectionState
  <2> HIDE DEF used
  <2>4. QED
    BY <2>1, <2>2, <2>3 DEF TypeOK, InstanceIsIndex, FreeIsErased, Slots
<1>7. CASE UNCHANGED poolVars
  BY <1>7 DEF poolVars, TypeOK, InstanceIsIndex, FreeIsErased, Slots
<1>8. QED
  BY <1>1, <1>2, <1>3, <1>4, <1>5, <1>6, <1>7 DEF Next

\* The inductive invariant holds in every reachable state.
LEMMA AlwaysCollectionInv == Spec => []CollectionInv
BY InitCollectionInv, StepCollectionInv, PTL DEF Spec

\* The arrays of connections.c always have the length the collection records,
\* within the maximum, for every capacity and whichever allocation fails.
THEOREM TypeCorrect == Spec => []TypeOK
<1>1. CollectionInv => TypeOK
  BY DEF CollectionInv
<1>2. QED
  BY <1>1, AlwaysCollectionInv, PTL

\* Every slot of connections.c carries its own index as instance number.
THEOREM Numbering == Spec => []InstanceIsIndex
<1>1. CollectionInv => InstanceIsIndex
  BY DEF CollectionInv
<1>2. QED
  BY <1>1, AlwaysCollectionInv, PTL

\* A free slot of connections.c holds nothing of its last connection.
THEOREM ErasedBeforeReuse == Spec => []FreeIsErased
<1>1. CollectionInv => FreeIsErased
  BY DEF CollectionInv
<1>2. QED
  BY <1>1, AlwaysCollectionInv, PTL

\* The two searches of connections.c, get to the last match and reset to the
\* first, end at the same slot for every instance number.
THEOREM SearchesAgree == Spec => []GetAgreesWithReset
<1>1. CollectionInv => GetAgreesWithReset
  BY MatchIsIndex DEF CollectionInv, GetAgreesWithReset, TypeOK
<1>2. QED
  BY <1>1, AlwaysCollectionInv, PTL

\* qsmp_connections_next refuses only at the capacity or for want of memory.
THEOREM Refusals == Spec => RefusesOnlyWhenExhausted
<1>1. CollectionInv /\ [Next]_poolVars =>
        [(ret # Null /\ ret' = Null) =>
           alloc' = "lost" \/ (length = maximum /\ \A i \in Slots : active[i])]_poolVars
  <2> SUFFICES ASSUME CollectionInv, Next, ret # Null, ret' = Null, alloc' # "lost"
               PROVE  length = maximum /\ \A i \in Slots : active[i]
    OBVIOUS
  <2>1. NextSlot
    BY DEF Next, Initialize, Reset, Clear, Dispose, Use
  <2>2. Full /\ ~CanGrow
    <3>1. ~Claim
      BY DEF Claim, CollectionInv, TypeOK, Null, Slots
    <3>2. length \in Nat /\ length # Null
      BY DEF CollectionInv, TypeOK, Null
    <3>3. QED
      BY <2>1, <3>1, <3>2, NextSlotCases
  <2>3. QED
    BY <2>2 DEF Full, CanGrow, CollectionInv, TypeOK
<1>2. QED
  BY <1>1, AlwaysCollectionInv, PTL DEF Spec, RefusesOnlyWhenExhausted

\* Every step of the collection is a step of the abstract pool or leaves it be.
LEMMA StepPool == CollectionInv /\ CollectionInv' /\ [Next]_poolVars => [Pool!Next]_(Pool!vars)
<1> SUFFICES ASSUME CollectionInv, CollectionInv', [Next]_poolVars
             PROVE  [Pool!Next]_(Pool!vars)
  OBVIOUS
<1>1. ASSUME NEW count \in 0 .. MaxSlots, NEW max \in 0 .. MaxSlots, Initialize(count, max)
      PROVE  Pool!Next
  <2>1. count \in Nat \ {0} /\ max \in Nat /\ count <= max
    BY <1>1, MaxSlotsAssumption DEF Initialize
  <2>2. CASE alloc' = "live" /\ active' = [i \in 0 .. count - 1 |-> FALSE]
    <3>1. Held' = {}
      BY <1>1, <2>1, <2>2 DEF Initialize, Held, Slots
    <3>2. Pool!Open
      BY <1>1, <2>1, <2>2, <3>1 DEF Initialize, Pool!Open
    <3>3. QED
      BY <3>2 DEF Pool!Next
  <2>3. CASE alloc' = "lost"
    BY <1>1, <2>1, <2>3 DEF Initialize, Held, Pool!Lose, Pool!Next
  <2>4. QED
    BY <1>1, <2>2, <2>3 DEF Initialize
<1>2. CASE NextSlot
  <2>1. CASE alloc' = "lost" /\ UNCHANGED <<length, maximum>>
    BY <2>1 DEF CollectionInv, TypeOK, Held, Pool!Lose, Pool!Next
  <2>2. CASE /\ Full /\ CanGrow
             /\ length' = length + 1
             /\ active' = Extended(active, TRUE)
             /\ UNCHANGED <<alloc, maximum>>
    <3>1. alloc = "live" /\ length \in Nat /\ maximum \in Nat /\ length < maximum
      BY <1>2, <2>2 DEF NextSlot, CanGrow, CollectionInv, TypeOK
    <3>2. Held = 0 .. length - 1
      BY <2>2, <3>1 DEF Full, Held, Slots
    <3>3. Held' = 0 .. length
      <4>1. Slots' = 0 .. length
        BY <2>2, <3>1 DEF Slots
      <4>2. \A i \in 0 .. length : active'[i]
        BY <2>2, <3>1 DEF Full, Extended, Slots
      <4>3. QED
        BY <2>2, <3>1, <4>1, <4>2 DEF Held
    <3>4. Held' = Held \cup {length}
      BY <3>1, <3>2, <3>3
    <3>5. Pool!Extend
      BY <2>2, <3>1, <3>2, <3>4 DEF Pool!Extend
    <3>6. QED
      BY <3>5 DEF Pool!Next
  <2>3. CASE UNCHANGED <<alloc, conset, active, length, maximum>>
    BY <2>3 DEF Held, Slots, Pool!vars
  <2>4. CASE Claim
    <3>1. PICK i \in Slots : /\ ~active[i]
                             /\ active' = [active EXCEPT ![i] = TRUE]
                             /\ UNCHANGED <<alloc, conset, length, maximum>>
      BY <2>4 DEF Claim
    <3>2. alloc = "live" /\ active \in [Slots -> BOOLEAN]
      BY <1>2, <3>1 DEF NextSlot, CollectionInv, TypeOK, Slots
    <3>3. i \in (0 .. length - 1) \ Held /\ Held' = Held \cup {i}
      BY <3>1, <3>2 DEF Held, Slots
    <3>4. Pool!Acquire
      BY <3>1, <3>2, <3>3 DEF Pool!Acquire
    <3>5. QED
      BY <3>4 DEF Pool!Next
  <2>5. QED
    BY <1>2, <2>1, <2>2, <2>3, <2>4, NextSlotCases
<1>3. ASSUME NEW n \in 0 .. MaxSlots, Reset(n)
      PROVE  [Pool!Next]_(Pool!vars)
  <2>1. alloc # "lost" /\ n \in Nat
    BY <1>3, MaxSlotsAssumption DEF Reset
  <2>2. CASE n >= length
    <3>1. Matching(n) = {}
      BY <2>1, <2>2, MatchIsIndex DEF CollectionInv
    <3>2. QED
      BY <1>3, <3>1 DEF Reset, Held, Slots, Pool!vars
  <2>3. CASE n < length
    <3>1. Matching(n) # {} /\ ResetSlot(n) = n
      BY <2>1, <2>3, MatchIsIndex DEF CollectionInv
    <3>2. active' = [active EXCEPT ![n] = FALSE] /\ UNCHANGED <<alloc, length, maximum>>
      BY <1>3, <3>1 DEF Reset
    <3>3. alloc = "live" /\ n \in Slots /\ active \in [Slots -> BOOLEAN]
      BY <2>1, <2>3 DEF CollectionInv, TypeOK, Slots
    <3>4. Held' = Held \ {n}
      BY <3>2, <3>3 DEF Held, Slots
    <3>5. CASE n \in Held
      BY <3>2, <3>3, <3>4, <3>5 DEF Pool!Release, Pool!Next
    <3>6. CASE n \notin Held
      BY <3>2, <3>4, <3>6 DEF Pool!vars
    <3>7. QED
      BY <3>5, <3>6
  <2>4. QED
    BY <2>1, <2>2, <2>3 DEF CollectionInv, TypeOK
<1>4. CASE Clear
  <2>1. Held' = {} /\ UNCHANGED <<alloc, length, maximum>>
    BY <1>4 DEF Clear, Held, Slots
  <2>2. CASE alloc = "live"
    BY <2>1, <2>2 DEF Pool!ReleaseAll, Pool!Next
  <2>3. CASE alloc # "live"
    BY <2>1, <2>3 DEF Held, Pool!vars
  <2>4. QED
    BY <2>2, <2>3
<1>5. CASE Dispose
  BY <1>5 DEF Dispose, Held, Pool!Close, Pool!Next
<1>6. ASSUME NEW i \in Slots, NEW p \in Peers, NEW est \in BOOLEAN, Use(i, p, est)
      PROVE  UNCHANGED Pool!vars
  BY <1>6 DEF Use, Held, Slots, Pool!vars
<1>7. CASE UNCHANGED poolVars
  BY <1>7 DEF poolVars, Held, Slots, Pool!vars
<1>8. QED
  BY <1>1, <1>2, <1>3, <1>4, <1>5, <1>6, <1>7 DEF Next

\* The arrays, the two linear searches and the growth by one of connections.c
\* implement a pool with exclusive slots and a bounded size.
THEOREM Refinement == Spec => PoolImplemented
<1>1. PoolInit => Pool!Init
  BY DEF PoolInit, Pool!Init, Held
<1>2. QED
  BY <1>1, AlwaysCollectionInv, StepPool, PTL DEF Spec, PoolImplemented, Pool!Spec

-----------------------------------------------------------------------------
(* The server *)

\* The collection while the threads use it.
PoolInv ==
  /\ TypeOK
  /\ SlotZeroIsFound
  /\ alloc = "live" => length > 0

\* A pointer that is not stale is one to a slot.
InRange(ptr) == ptr.gen <= gen /\ (Valid(ptr) => ptr.slot \in Slots)

PointersInv ==
  /\ acc.at \in {"target", "accept", "pollReset"} => InRange(acc)
  /\ quit.at = "reset" => InRange(quit)
  /\ \A c \in Peers : Live(c) => InRange(thread[c])
  /\ acc.at = "start" => quit.at = "idle" /\ \A c \in Peers : ~Live(c)

\* A search for the number 0 ends at its first comparison.
SearchInv == \A a \in Callers : reset[a].at = "match" /\ reset[a].n = 0 => reset[a].i = 0

\* After a late join the accept loop is below its accept.  The pause keeps it from
\* coming round again; the disposed collection has no slot for it when it does.
LateInv ==
  /\ quit.at \in {"flag", "done"} => alloc = "none" /\ acc.at # "start"
  /\ late # 0 => /\ late = 1
                 /\ acc.at \in {"poll", "pollReset", "loop", "next", "ended"}
                 /\ (pause /\ acc.at # "next") \/ quit.at \in {"flag", "done"}

IInv == PoolInv /\ ServerTypeOK /\ PointersInv /\ SearchInv /\ LateInv

-----------------------------------------------------------------------------
(* The operations of the collection *)

\* A claim, and growth by one slot, leave the arrays in shape and slot 0 its number.
LEMMA NextSlotKeeps ==
  ASSUME PoolInv, NextSlot
  PROVE  PoolInv'
<1>1. alloc # "lost"
  BY DEF NextSlot
<1>2. CASE Full
  <2>1. CASE /\ CanGrow
             /\ length' = length + 1
             /\ conset' = Extended(conset, Added)
             /\ active' = Extended(active, TRUE)
             /\ ret' = length
             /\ UNCHANGED <<alloc, maximum>>
    <3>1. Added \in ConnectionState /\ Added.instance = length
      BY DEF Added, Cleared, ConnectionState, PoolInv, TypeOK
    <3>2. 0 .. length = Slots \cup {length} /\ Slots' = 0 .. length
      BY <2>1 DEF Slots, PoolInv, TypeOK
    <3>3. alloc = "live" /\ length \in Nat
      BY <1>1, <2>1 DEF CanGrow, PoolInv, TypeOK
    <3>4. conset' \in [Slots' -> ConnectionState] /\ active' \in [Slots' -> BOOLEAN]
      BY <1>1, <2>1, <3>1, <3>2 DEF PoolInv, TypeOK, Extended
    <3>5. conset'[0].instance = 0
      BY <2>1, <3>3 DEF PoolInv, SlotZeroIsFound, Extended
    <3>6. length' \in Nat /\ maximum' \in Nat /\ length' <= maximum' /\ ret' \in Nat
      BY <2>1, <3>3 DEF CanGrow, PoolInv, TypeOK
    <3>7. TypeOK'
      BY <2>1, <3>3, <3>4, <3>6 DEF TypeOK
    <3>8. QED
      BY <2>1, <3>3, <3>5, <3>7 DEF PoolInv, SlotZeroIsFound
  <2>2. CASE alloc' = "lost" /\ ret' = Null /\ UNCHANGED <<conset, active, length, maximum>>
    BY <2>2 DEF PoolInv, TypeOK, SlotZeroIsFound
  <2>3. CASE ret' = Null /\ UNCHANGED <<alloc, conset, active, length, maximum>>
    BY <2>3 DEF PoolInv, TypeOK, SlotZeroIsFound, Slots
  <2>4. QED
    BY <1>2, <2>1, <2>2, <2>3 DEF NextSlot, Add
<1>3. CASE ~Full
  <2>1. PICK i \in Slots : /\ active' = [active EXCEPT ![i] = TRUE]
                          /\ ret' = i
                          /\ UNCHANGED <<alloc, conset, length, maximum>>
    BY <1>1, <1>3 DEF NextSlot, Claim
  <2>2. active' \in [Slots -> BOOLEAN] /\ ret' \in Nat /\ Slots' = Slots
    BY <1>1, <2>1 DEF PoolInv, TypeOK, Slots
  <2>3. TypeOK'
    BY <2>1, <2>2 DEF PoolInv, TypeOK
  <2>4. QED
    BY <2>1, <2>3 DEF PoolInv, SlotZeroIsFound
<1>4. QED
  BY <1>2, <1>3

\* A slot of the collection exists only while its arrays do.
LEMMA SlotsAreLive ==
  ASSUME PoolInv, Running, NEW i \in Slots
  PROVE  alloc = "live"
BY DEF PoolInv, TypeOK, Running, Slots

\* A thread, the accept loop or a reset writes a state of the collection: the
\* number stays, becomes 0 or becomes the index.
LEMMA WriteKeeps ==
  ASSUME PoolInv, alloc = "live", NEW i, NEW s,
         i \in Slots => s \in ConnectionState /\ s.instance \in {conset[i].instance, 0, i},
         conset' = [conset EXCEPT ![i] = s],
         UNCHANGED <<alloc, active, length, maximum, ret>>
  PROVE  PoolInv'
<1>1. /\ length \in Nat /\ length > 0 /\ 0 \in Slots
      /\ conset \in [Slots -> ConnectionState]
      /\ active \in [Slots -> BOOLEAN]
  BY DEF PoolInv, TypeOK, Slots
<1>2. conset' \in [Slots -> ConnectionState]
  <2>1. CASE i \in Slots
    BY <1>1, <2>1
  <2>2. CASE i \notin Slots
    BY <1>1, <2>2
  <2>3. QED
    BY <2>1, <2>2
<1>3. conset'[0].instance = 0
  BY <1>1 DEF PoolInv, SlotZeroIsFound
<1>4. TypeOK'
  BY <1>2 DEF PoolInv, TypeOK, Slots
<1>5. QED
  BY <1>1, <1>3, <1>4 DEF PoolInv, SlotZeroIsFound

\* So does a step that leaves the collection alone.
LEMMA SameKeeps ==
  ASSUME PoolInv, UNCHANGED poolVars
  PROVE  PoolInv'
BY DEF PoolInv, TypeOK, SlotZeroIsFound, Slots, poolVars

\* The number alone can be written: the rest of the state stays as it is.
LEMMA NumberWritten ==
  ASSUME PoolInv, alloc = "live", NEW i \in Slots
  PROVE  /\ [conset[i] EXCEPT !.instance = i] \in ConnectionState
         /\ [conset[i] EXCEPT !.instance = i].instance = i
         /\ [conset EXCEPT ![i].instance = i] = [conset EXCEPT ![i] = [conset[i] EXCEPT !.instance = i]]
<1>1. i \in Nat /\ conset[i] \in ConnectionState
  BY DEF PoolInv, TypeOK, Slots
<1>2. QED
  BY <1>1 DEF ConnectionState

\* And a flag can be cleared.
LEMMA FlagKeeps ==
  ASSUME PoolInv, alloc = "live", NEW i,
         active' = [active EXCEPT ![i] = FALSE],
         UNCHANGED <<alloc, conset, length, maximum, ret>>
  PROVE  PoolInv'
<1>1. active' \in [Slots -> BOOLEAN]
  BY DEF PoolInv, TypeOK
<1>2. QED
  BY <1>1 DEF PoolInv, TypeOK, SlotZeroIsFound, Slots

\* Each step of a reset keeps the collection in shape, whatever slot it matched
\* and whatever the others have done to that slot since.
LEMMA ResetKeeps ==
  ASSUME PoolInv, Running, NEW a \in Callers, ResetStep(a)
  PROVE  PoolInv'
<1> DEFINE i == reset[a].i
<1>1. CASE Match(a)
  BY <1>1, SameKeeps DEF Match, ResetLeaves, poolVars
<1>2. CASE i \notin Slots /\ ~Match(a)
  BY <1>2, SameKeeps DEF ResetStep, Erase, Number, Free, OnMatched, ResetLeaves, poolVars
<1>3. CASE i \in Slots
  <2>1. alloc = "live"
    BY <1>3, SlotsAreLive
  <2>2. CASE Erase(a)
    <3>1. Cleared(0) \in ConnectionState /\ Cleared(0).instance = 0
      BY DEF Cleared, ConnectionState
    <3>2. QED
      BY <1>3, <2>1, <2>2, <3>1, WriteKeeps DEF Erase, OnMatched, ResetLeaves
  <2>3. CASE Number(a)
    <3> DEFINE s == [conset[i] EXCEPT !.instance = i]
    <3>1. s \in ConnectionState /\ s.instance = i /\ conset' = [conset EXCEPT ![i] = s]
      BY <1>3, <2>1, <2>3, NumberWritten DEF Number, OnMatched
    <3>2. UNCHANGED <<alloc, active, length, maximum, ret>>
      BY <1>3, <2>3 DEF Number, OnMatched, ResetLeaves
    <3> HIDE DEF s
    <3>3. QED
      BY <2>1, <3>1, <3>2, WriteKeeps
  <2>4. CASE Free(a)
    BY <1>3, <2>1, <2>4, FlagKeeps DEF Free, OnMatched, ResetLeaves
  <2>5. QED
    BY <1>1, <2>2, <2>3, <2>4 DEF ResetStep
<1>4. QED
  BY <1>1, <1>2, <1>3

\* The collection as server_start initializes it is in shape.
LEMMA InitializeKeeps ==
  ASSUME PoolInv, Initialize(InitCount, MaxSlots)
  PROVE  PoolInv'
<1>1. InitCount \in Nat /\ InitCount > 0 /\ MaxSlots \in Nat /\ InitCount <= MaxSlots
  BY InitCountAssumption, MaxSlotsAssumption
<1>2. \A i \in 0 .. InitCount - 1 : Cleared(i) \in ConnectionState /\ Cleared(i).instance = i
  BY <1>1 DEF Cleared, ConnectionState
<1>3. CASE alloc' = "live"
  BY <1>1, <1>2, <1>3 DEF Initialize, PoolInv, TypeOK, SlotZeroIsFound, Slots
<1>4. CASE alloc' = "lost"
  BY <1>1, <1>4 DEF Initialize, PoolInv, TypeOK, SlotZeroIsFound
<1>5. QED
  BY <1>3, <1>4 DEF Initialize

\* And so it is when quit has freed it.
LEMMA DisposeKeeps ==
  ASSUME PoolInv, Dispose
  PROVE  PoolInv'
BY DEF Dispose, PoolInv, TypeOK, SlotZeroIsFound, Slots


-----------------------------------------------------------------------------
(* The collection in a step of the server *)

\* The accept loop keeps the collection in shape.
LEMMA LoopPool ==
  ASSUME PoolInv, Running, LoopStep
  PROVE  PoolInv'
<1>1. CASE Start
  BY <1>1, InitializeKeeps DEF Start
<1>2. CASE LoopNext
  BY <1>2, NextSlotKeeps DEF LoopNext, ClaimSlot
<1>3. CASE TargetCleared
  <2>1. CASE Valid(acc)
    <3> DEFINE s == [conset[acc.slot] EXCEPT !.peer = NoPeer, !.up = FALSE]
    <3>1. acc.slot \in Slots => s \in ConnectionState /\ s.instance = conset[acc.slot].instance
      BY <2>1 DEF Valid, PoolInv, TypeOK, ConnectionState
    <3>2. conset' = [conset EXCEPT ![acc.slot] = s]
      BY <1>3, <2>1 DEF TargetCleared
    <3> HIDE DEF s
    <3>3. QED
      BY <1>3, <2>1, <3>1, <3>2, WriteKeeps DEF TargetCleared, Valid
  <2>2. CASE ~Valid(acc)
    BY <1>3, <2>2, SameKeeps DEF TargetCleared, poolVars
  <2>3. QED
    BY <2>1, <2>2
<1>4. CASE ResetStep("loop")
  BY <1>4, ResetKeeps DEF Callers
<1>5. CASE PollSlot \/ PollReset \/ PollDone \/ LoopAgain
  BY <1>5, SameKeeps DEF PollSlot, PollReset, PollDone, LoopAgain
<1>6. QED
  BY <1>1, <1>2, <1>3, <1>4, <1>5 DEF LoopStep

\* So does an accepted peer, written through the loop's pointer.
LEMMA AcceptPool ==
  ASSUME PoolInv, NEW c \in Peers, AcceptPeer(c)
  PROVE  PoolInv'
<1>1. CASE Valid(acc)
  <2> DEFINE s == [conset[acc.slot] EXCEPT !.peer = c, !.up = TRUE]
  <2>1. acc.slot \in Slots => s \in ConnectionState /\ s.instance = conset[acc.slot].instance
    BY <1>1 DEF Valid, PoolInv, TypeOK, ConnectionState
  <2>2. conset' = [conset EXCEPT ![acc.slot] = s]
    BY <1>1 DEF AcceptPeer
  <2> HIDE DEF s
  <2>3. QED
    BY <1>1, <2>1, <2>2, WriteKeeps DEF AcceptPeer, Valid
<1>2. CASE ~Valid(acc)
  BY <1>2, SameKeeps DEF AcceptPeer, poolVars
<1>3. QED
  BY <1>1, <1>2

\* So do the receiver threads, which zero the number of their slot.
LEMMA ThreadPool ==
  ASSUME PoolInv, Running, NEW c \in Peers, ThreadStep(c)
  PROVE  PoolInv'
<1> DEFINE i == thread[c].slot
<1>1. CASE ThreadBegins(c)
  <2>1. i \in Slots => Begun(conset[i]) \in ConnectionState /\ Begun(conset[i]).instance = 0
    BY <1>1 DEF ThreadBegins, Valid, Begun, PoolInv, TypeOK, ConnectionState
  <2>2. conset' = [conset EXCEPT ![i] = Begun(conset[i])]
    BY <1>1 DEF ThreadBegins
  <2>3. QED
    BY <1>1, <2>1, <2>2, WriteKeeps DEF ThreadBegins, Valid
<1>2. CASE Establish(c)
  <2> DEFINE s == [conset[i] EXCEPT !.established = TRUE]
  <2>1. i \in Slots => s \in ConnectionState /\ s.instance = conset[i].instance
    BY <1>2 DEF Establish, Valid, PoolInv, TypeOK, ConnectionState
  <2>2. conset' = [conset EXCEPT ![i] = s]
    BY <1>2 DEF Establish
  <2> HIDE DEF s
  <2>3. QED
    BY <1>2, <2>1, <2>2, WriteKeeps DEF Establish, Valid
<1>3. CASE ExchangeFails(c)
  <2>1. Cleared(0) \in ConnectionState /\ Cleared(0).instance = 0
    BY DEF Cleared, ConnectionState
  <2>2. QED
    BY <1>3, <2>1, WriteKeeps DEF ExchangeFails, Valid
<1>4. CASE ResetStep(c)
  BY <1>4, ResetKeeps DEF Callers
<1>5. CASE ThreadNoMemory(c) \/ LoopEnds(c) \/ ThreadExits(c) \/ ThreadStale(c)
  BY <1>5, SameKeeps DEF ThreadNoMemory, LoopEnds, ThreadExits, ThreadStale
<1>6. QED
  BY <1>1, <1>2, <1>3, <1>4, <1>5 DEF ThreadStep

\* So does quit: its resets, the erasure of all states, and the slot by slot
\* freeing and numbering that follows.
LEMMA QuitPool ==
  ASSUME PoolInv, Running, QuitStep
  PROVE  PoolInv'
<1>1. CASE ResetStep("quit")
  BY <1>1, ResetKeeps DEF Callers
<1>2. CASE QuitErase
  <2>1. Cleared(0) \in ConnectionState /\ Cleared(0).instance = 0
    BY DEF Cleared, ConnectionState
  <2>2. conset' = [i \in Slots |-> Cleared(0)] /\ UNCHANGED <<alloc, active, length, maximum, ret>>
    BY <1>2 DEF QuitErase
  <2>3. TypeOK'
    BY <2>1, <2>2 DEF PoolInv, TypeOK, Slots
  <2>4. QED
    BY <2>1, <2>2, <2>3 DEF PoolInv, TypeOK, SlotZeroIsFound, Slots
<1>3. CASE QuitFree
  <2>1. CASE alloc = "live"
    BY <1>3, <2>1, FlagKeeps DEF QuitFree
  <2>2. CASE alloc = "none"
    <3>1. active' \in [Slots -> BOOLEAN] /\ UNCHANGED <<alloc, conset, length, maximum, ret>>
      BY <1>3, <2>2 DEF QuitFree, PoolInv, TypeOK
    <3>2. QED
      BY <2>2, <3>1 DEF PoolInv, TypeOK, SlotZeroIsFound, Slots
  <2>3. QED
    BY <2>1, <2>2 DEF Running, PoolInv, TypeOK
<1>4. CASE QuitNumber
  <2> DEFINE i == quit.slot
  <2>1. CASE i \in Slots
    <3> DEFINE s == [conset[i] EXCEPT !.instance = i]
    <3>1. alloc = "live"
      BY <2>1, SlotsAreLive
    <3>2. s \in ConnectionState /\ s.instance = i /\ conset' = [conset EXCEPT ![i] = s]
      BY <1>4, <2>1, <3>1, NumberWritten DEF QuitNumber
    <3>3. UNCHANGED <<alloc, active, length, maximum, ret>>
      BY <1>4 DEF QuitNumber
    <3> HIDE DEF s
    <3>4. QED
      BY <3>1, <3>2, <3>3, WriteKeeps
  <2>2. CASE i \notin Slots
    <3>1. conset' = conset
      BY <1>4, <2>2 DEF QuitNumber, Running, PoolInv, TypeOK
    <3>2. QED
      BY <1>4, <3>1, SameKeeps DEF QuitNumber, poolVars
  <2>3. QED
    BY <2>1, <2>2
<1>5. CASE QuitDispose
  BY <1>5, DisposeKeeps DEF QuitDispose
<1>6. CASE QuitBegin \/ QuitSlot \/ QuitReset \/ QuitFlag
  BY <1>6, SameKeeps DEF QuitBegin, QuitSlot, QuitReset, QuitFlag
<1>7. QED
  BY <1>1, <1>2, <1>3, <1>4, <1>5, <1>6 DEF QuitStep

\* Together: every step of the server keeps the collection in shape.
LEMMA PoolStep ==
  ASSUME PoolInv, [ServerNext]_vars
  PROVE  PoolInv'
<1>1. CASE UNCHANGED vars
  BY <1>1, SameKeeps DEF vars
<1>2. CASE ServerNext
  <2>1. CASE LoopStep
    BY <1>2, <2>1, LoopPool DEF ServerNext
  <2>2. CASE AcceptFails
    BY <2>2, SameKeeps DEF AcceptFails
  <2>3. CASE QuitStep
    BY <1>2, <2>3, QuitPool DEF ServerNext
  <2>4. CASE Pause \/ Resume \/ CastBegin \/ CastSlot \/ CastDone
    BY <2>4, SameKeeps DEF Pause, Resume, CastBegin, CastSlot, CastDone
  <2>5. ASSUME NEW c \in Peers, AcceptPeer(c) \/ AcceptNoMemory(c) \/ ThreadStep(c)
        PROVE  PoolInv'
    BY <1>2, <2>5, AcceptPool, ThreadPool, SameKeeps DEF AcceptNoMemory, ServerNext
  <2>6. ASSUME NEW c \in Peers, PeerConnects(c) \/ PeerCloses(c) \/ PeerResets(c)
        PROVE  PoolInv'
    BY <2>6, SameKeeps DEF PeerConnects, PeerCloses, PeerResets, PeerMoves
  <2>7. QED
    BY <1>2, <2>1, <2>2, <2>3, <2>4, <2>5, <2>6 DEF ServerNext, CallStep
<1>3. QED
  BY <1>1, <1>2

-----------------------------------------------------------------------------
(* The server's own variables *)

AccType ==
  [at : {"start", "next", "target", "accept", "poll", "pollReset", "loop", "ended"},
   slot : {Null} \cup Nat, gen : Nat, i : Nat, clen : Nat]
ThreadType ==
  [at : {"none", "begin", "exchange", "receive", "exit", "done"}, slot : {Null} \cup Nat, gen : Nat]
ResetType == [at : {"idle", "match", "erase", "number", "free"}, n : Nat, i : Nat]
QuitType ==
  [at : {"idle", "slot", "reset", "clear", "number", "flag", "done"}, slot : Nat, gen : Nat, clen : Nat]
SockType == {"away", "queued", "open", "eof", "reset", "closed"}
Crashes == {"no", "stale", "broadcast"}

\* The caller of a reset passes a number, read through a pointer to a slot or
\* through a stale one.
LEMMA NumberRead ==
  ASSUME IInv, NEW a \in Callers, NEW ptr, InRange(ptr), ResetByNumber(a, ptr)
  PROVE  reset' \in [Callers -> ResetType] /\ SearchInv' /\ crash' \in Crashes
<1>1. reset \in [Callers -> ResetType] /\ crash \in Crashes
  BY DEF IInv, ServerTypeOK, ResetType, Crashes
<1>2. \E n \in Nat : reset' = [reset EXCEPT ![a] = FromFirst(n)]
  <2>1. CASE Valid(ptr)
    <3>1. conset[ptr.slot] \in ConnectionState
      BY <2>1 DEF InRange, Valid, IInv, PoolInv, TypeOK
    <3>2. conset[ptr.slot].instance \in Nat
      BY <3>1 DEF ConnectionState
    <3>3. QED
      BY <2>1, <3>2 DEF ResetByNumber
  <2>2. CASE ~Valid(ptr)
    BY <2>2, MaxSlotsAssumption DEF ResetByNumber
  <2>3. QED
    BY <2>1, <2>2
<1>3. PICK n \in Nat : reset' = [reset EXCEPT ![a] = FromFirst(n)]
  BY <1>2
<1>4. FromFirst(n) \in ResetType /\ FromFirst(n).i = 0
  BY DEF FromFirst, ResetType
<1>5. reset' \in [Callers -> ResetType]
  BY <1>1, <1>3, <1>4
<1>6. SearchInv'
  BY <1>1, <1>3, <1>4 DEF IInv, SearchInv
<1>7. crash' \in Crashes
  BY <1>1 DEF ResetByNumber, Crashes
<1>8. QED
  BY <1>5, <1>6, <1>7

\* The steps of a reset keep the types of its place and index; a search for 0
\* meets slot 0, which carries 0, at its first comparison.
LEMMA ResetStepType ==
  ASSUME IInv, Running, NEW a \in Callers, ResetStep(a)
  PROVE  reset' \in [Callers -> ResetType] /\ SearchInv' /\ crash' \in Crashes
<1>1. reset \in [Callers -> ResetType] /\ crash \in Crashes /\ reset[a] \in ResetType
  BY DEF IInv, ServerTypeOK, ResetType, Crashes
<1>2. crash' \in Crashes
  BY <1>1 DEF ResetStep, Match, Erase, Number, Free, OnMatched, Crashes
<1>3. PICK r : reset' = [reset EXCEPT ![a] = r] /\ r \in ResetType /\ (r.at = "match" /\ r.n = 0 => r.i = 0)
  <2> DEFINE Fits(r) == r \in ResetType /\ (r.at = "match" /\ r.n = 0 => r.i = 0)
  <2>1. Fits(NotCalling)
    BY DEF NotCalling, ResetType
  <2>2. \A at \in {"erase", "number", "free"} : Fits([reset[a] EXCEPT !.at = at])
    BY <1>1 DEF ResetType
  <2>3. Fits([at |-> "erase", n |-> 0, i |-> reset[a].i])
    BY <1>1 DEF ResetType
  <2>4. ASSUME reset[a].at = "match", reset[a].i < length, conset[reset[a].i].instance # reset[a].n
        PROVE  Fits([reset[a] EXCEPT !.i = reset[a].i + 1])
    <3>1. reset[a].n # 0
      <4>1. SUFFICES ASSUME reset[a].n = 0
                     PROVE  FALSE
        OBVIOUS
      <4>2. reset[a].i = 0
        BY <2>4, <4>1 DEF IInv, SearchInv
      <4>3. 0 \in Slots
        BY <2>4, <4>2 DEF Slots, IInv, PoolInv, TypeOK
      <4>4. alloc = "live"
        BY <4>3, SlotsAreLive DEF IInv
      <4>5. conset[0].instance = 0
        BY <4>4 DEF IInv, PoolInv, SlotZeroIsFound
      <4>6. QED
        BY <2>4, <4>1, <4>2, <4>5
    <3>2. QED
      BY <1>1, <3>1 DEF ResetType
  <2>5. ResetStep(a) => \E r : reset' = [reset EXCEPT ![a] = r] /\ Fits(r)
    <3> HIDE DEF Fits
    <3>1. CASE Match(a)
      BY <2>1, <2>3, <2>4, <3>1 DEF Match, ResetReturns
    <3>2. CASE Erase(a) \/ Number(a)
      BY <2>2, <3>2 DEF Erase, Number, ResetGoes
    <3>3. CASE Free(a)
      BY <2>1, <3>3 DEF Free, ResetReturns
    <3>4. QED
      BY <3>1, <3>2, <3>3 DEF ResetStep
  <2>6. QED
    BY <2>5
<1>4. reset' \in [Callers -> ResetType]
  BY <1>1, <1>3
<1>5. SearchInv'
  BY <1>1, <1>3 DEF IInv, SearchInv
<1>6. QED
  BY <1>2, <1>4, <1>5

\* The accept loop keeps the server's variables in their types.
LEMMA LoopType ==
  ASSUME IInv, PoolInv', Running, LoopStep
  PROVE  ServerTypeOK' /\ SearchInv'
<1> USE DEF IInv, ServerTypeOK, PoolInv, TypeOK
<1>1. CASE Start
  BY <1>1 DEF Start, SearchInv
<1>2. CASE LoopNext
  <2>1. gen' \in Nat
    BY <1>2 DEF LoopNext
  <2>2. \/ acc' = [acc EXCEPT !.at = "loop"]
        \/ acc' = [acc EXCEPT !.at = "target", !.slot = ret', !.gen = gen']
    BY <1>2 DEF LoopNext
  <2>3. QED
    BY <1>2, <2>1, <2>2 DEF LoopNext, SearchInv
<1>3. CASE TargetCleared
  BY <1>3 DEF TargetCleared, SearchInv
<1>4. CASE PollSlot \/ PollReset
  <2>1. acc.i \in Nat /\ acc.i + 1 \in Nat
    OBVIOUS
  <2>2. acc' \in AccType
    <3>1. acc \in AccType /\ gen \in Nat
      BY DEF AccType
    <3>2. acc' = Polled(acc.i) \/ acc' = [acc EXCEPT !.at = "pollReset", !.slot = acc.i, !.gen = gen]
      BY <1>4 DEF PollSlot, PollReset
    <3>3. Polled(acc.i) \in AccType
      BY ONLY <2>1, <3>1 DEF Polled, AccType
    <3>4. [acc EXCEPT !.at = "pollReset", !.slot = acc.i, !.gen = gen] \in AccType
      BY ONLY <2>1, <3>1 DEF AccType
    <3>5. QED
      BY <3>2, <3>3, <3>4
  <2>3. CASE PollSlot
    BY <2>2, <2>3 DEF PollSlot, SearchInv, AccType
  <2>4. CASE PollReset
    <3>1. reset' \in [Callers -> ResetType] /\ SearchInv' /\ crash' \in Crashes
      BY <2>4, NumberRead DEF PollReset, PointersInv, Callers
    <3>2. QED
      BY <2>2, <2>4, <3>1 DEF PollReset, AccType, ResetType, Crashes
  <2>5. QED
    BY <1>4, <2>3, <2>4
<1>5. CASE PollDone
  BY <1>5 DEF PollDone, AtLoop, SearchInv
<1>6. CASE LoopAgain
  BY <1>6 DEF LoopAgain, SearchInv
<1>7. CASE ResetStep("loop")
  <2>1. reset' \in [Callers -> ResetType] /\ SearchInv' /\ crash' \in Crashes
    BY <1>7, ResetStepType DEF Callers
  <2>2. QED
    BY <1>7, <2>1 DEF ResetStep, Match, Erase, Number, Free, ResetLeaves, ResetType, Crashes
<1>8. QED
  BY <1>1, <1>2, <1>3, <1>4, <1>5, <1>6, <1>7 DEF LoopStep

\* So does quit.
LEMMA QuitTypes ==
  ASSUME IInv, Running, QuitStep
  PROVE  ServerTypeOK' /\ SearchInv'
<1> USE DEF IInv, ServerTypeOK
<1>1. quit \in QuitType /\ length \in Nat
  BY DEF QuitType, PoolInv, TypeOK
<1>2. CASE ResetStep("quit")
  <2>1. reset' \in [Callers -> ResetType] /\ SearchInv' /\ crash' \in Crashes
    BY <1>2, ResetStepType DEF Callers
  <2>2. QED
    BY <1>2, <2>1 DEF ResetStep, Match, Erase, Number, Free, ResetLeaves, ResetType, Crashes
<1>3. CASE QuitReset
  <2>1. reset' \in [Callers -> ResetType] /\ SearchInv' /\ crash' \in Crashes
    BY <1>3, NumberRead DEF QuitReset, PointersInv, Callers
  <2>2. quit' \in QuitType
    <3>1. quit.slot + 1 \in Nat
      BY <1>1 DEF QuitType
    <3>2. QED
      BY <1>1, <1>3, <3>1 DEF QuitReset, QuitType
  <2>3. QED
    BY <1>3, <2>1, <2>2 DEF QuitReset, QuitType, ResetType, Crashes
<1>4. CASE QuitSlot
  <2>1. sock' \in [Peers -> SockType]
    BY <1>4 DEF QuitSlot, CloseSocketOf, SockType
  <2>2. quit' \in QuitType
    <3>1. quit' = [quit EXCEPT !.at = "reset", !.gen = gen] \/ quit' = [quit EXCEPT !.slot = quit.slot + 1]
      BY <1>4 DEF QuitSlot
    <3>2. quit.slot + 1 \in Nat /\ gen \in Nat
      BY <1>1 DEF QuitType
    <3>3. QED
      BY ONLY <1>1, <3>1, <3>2 DEF QuitType
  <2>3. QED
    BY <1>4, <2>1, <2>2 DEF QuitSlot, QuitType, SockType, SearchInv
<1>5. CASE QuitDispose
  BY <1>5 DEF QuitDispose, SearchInv
<1>6. CASE QuitFlag
  BY <1>6 DEF QuitFlag, SearchInv
<1>7. CASE QuitBegin \/ QuitErase \/ QuitFree \/ QuitNumber
  <2>1. quit' \in QuitType
    <3>1. quit.slot + 1 \in Nat
      BY <1>1 DEF QuitType
    <3>2. \/ quit' = [at |-> "slot", slot |-> 0, gen |-> 0, clen |-> length]
          \/ quit' = [quit EXCEPT !.at = "clear", !.slot = 0]
          \/ quit' = [quit EXCEPT !.at = "number"]
          \/ quit' = [quit EXCEPT !.at = "clear", !.slot = quit.slot + 1]
      BY <1>7 DEF QuitBegin, QuitErase, QuitFree, QuitNumber
    <3>3. [at |-> "slot", slot |-> 0, gen |-> 0, clen |-> length] \in QuitType
      BY <1>1 DEF QuitType
    <3>4. \A at \in {"clear", "number"}, s \in Nat :
            [quit EXCEPT !.at = at, !.slot = s] \in QuitType /\ [quit EXCEPT !.at = at] \in QuitType
      BY ONLY <1>1 DEF QuitType
    <3>5. QED
      BY ONLY <3>1, <3>2, <3>3, <3>4
  <2>2. UNCHANGED <<gen, run, pause, acc, thread, sock, reset, cast, stray, crash, late>>
    BY <1>7 DEF QuitBegin, QuitErase, QuitFree, QuitNumber, poolVars
  <2>3. QED
    BY <2>1, <2>2 DEF QuitType, SearchInv
<1>8. QED
  BY <1>2, <1>3, <1>4, <1>5, <1>6, <1>7 DEF QuitStep

\* So do the other calls of the application.
LEMMA CallType ==
  ASSUME IInv, Running, Pause \/ Resume \/ CastBegin \/ CastSlot \/ CastDone
  PROVE  ServerTypeOK' /\ SearchInv'
<1> USE DEF IInv, ServerTypeOK, PoolInv, TypeOK
<1>1. CASE Pause
  BY <1>1 DEF Pause, SearchInv
<1>2. CASE Resume
  BY <1>2 DEF Resume, SearchInv
<1>3. CASE CastBegin \/ CastDone
  BY <1>3 DEF CastBegin, CastDone, SearchInv
<1>4. CASE CastSlot
  <2>1. stray' \subseteq Peers
    <3>1. ASSUME NEW i \in Slots, active[i], SeenUp(i)
          PROVE  conset[i].peer \in Peers
      <4>1. conset[i] \in ConnectionState
        BY DEF Running
      <4>2. conset[i].peer # NoPeer
        BY <3>1 DEF SeenUp, SocketOf
      <4>3. QED
        BY <4>1, <4>2 DEF ConnectionState
    <3>2. QED
      BY <1>4, <3>1 DEF CastSlot
  <2>2. crash' \in {"no", "stale", "broadcast"}
    BY <1>4 DEF CastSlot
  <2>3. QED
    BY <1>4, <2>1, <2>2 DEF CastSlot, SearchInv
<1>5. QED
  BY <1>1, <1>2, <1>3, <1>4

\* A receiver thread keeps the server's variables in their types.
LEMMA ThreadTypes ==
  ASSUME IInv, Running, NEW c \in Peers, ThreadStep(c)
  PROVE  ServerTypeOK' /\ SearchInv'
<1> USE DEF IInv, ServerTypeOK
<1>1. CASE ResetStep(c)
  <2>1. reset' \in [Callers -> ResetType] /\ SearchInv' /\ crash' \in Crashes
    BY <1>1, ResetStepType DEF Callers
  <2>2. QED
    BY <1>1, <2>1 DEF ResetStep, Match, Erase, Number, Free, ResetLeaves, ResetType, Crashes
<1>2. CASE ThreadExits(c) \/ ThreadStale(c)
  <2>1. InRange(thread[c]) /\ ResetByNumber(c, thread[c])
    BY <1>2 DEF ThreadExits, ThreadStale, PointersInv, Live
  <2>2. reset' \in [Callers -> ResetType] /\ SearchInv' /\ crash' \in Crashes
    BY <2>1, NumberRead DEF Callers
  <2>3. thread' \in [Peers -> ThreadType]
    BY <1>2 DEF ThreadExits, ThreadStale, ThreadDone, NoThread, ThreadType
  <2>4. QED
    BY <1>2, <2>2, <2>3 DEF ThreadExits, ThreadStale, ThreadLeaves, ResetType, Crashes, ThreadType
<1>3. CASE ThreadBegins(c) \/ ThreadNoMemory(c) \/ Establish(c) \/ ExchangeFails(c) \/ LoopEnds(c)
  <2>1. thread' \in [Peers -> ThreadType]
    BY <1>3 DEF ThreadBegins, ThreadNoMemory, Establish, ExchangeFails, LoopEnds, Step, ThreadDone,
                NoThread, ThreadType
  <2>2. sock' \in [Peers -> SockType]
    BY <1>3 DEF ThreadBegins, ThreadNoMemory, Establish, ExchangeFails, LoopEnds, CloseSocketOf, SockType
  <2>3. ThreadLeaves /\ UNCHANGED <<reset, crash>>
    BY <1>3 DEF ThreadBegins, ThreadNoMemory, Establish, ExchangeFails, LoopEnds
  <2>4. QED
    BY <2>1, <2>2, <2>3 DEF ThreadLeaves, ThreadType, SockType, SearchInv
<1>4. QED
  BY <1>1, <1>2, <1>3 DEF ThreadStep

\* So do a peer that is accepted or not, and a peer's own step.
LEMMA PeerType ==
  ASSUME IInv, NEW c \in Peers,
         \/ AcceptPeer(c) \/ AcceptNoMemory(c) \/ AcceptFails
         \/ PeerConnects(c) \/ PeerCloses(c) \/ PeerResets(c)
  PROVE  ServerTypeOK' /\ SearchInv'
<1> USE DEF IInv, ServerTypeOK
<1>1. CASE AcceptPeer(c)
  BY <1>1 DEF AcceptPeer, ThreadStarted, PoolInv, TypeOK, SearchInv
<1>2. CASE AcceptNoMemory(c) \/ AcceptFails
  <2>1. reset' \in [Callers -> ResetType] /\ SearchInv' /\ crash' \in Crashes
    BY <1>2, NumberRead DEF AcceptNoMemory, AcceptFails, PointersInv, Callers
  <2>2. acc' \in AccType
    BY <1>2 DEF AcceptNoMemory, AcceptFails, AtLoop, AccType
  <2>3. sock' \in [Peers -> SockType]
    BY <1>2 DEF AcceptNoMemory, AcceptFails, SockType
  <2>4. QED
    BY <1>2, <2>1, <2>2, <2>3 DEF AcceptNoMemory, AcceptFails, AccType, SockType, ResetType, Crashes
<1>3. CASE PeerConnects(c) \/ PeerCloses(c) \/ PeerResets(c)
  BY <1>3 DEF PeerConnects, PeerCloses, PeerResets, PeerMoves, SearchInv
<1>4. QED
  BY <1>1, <1>2, <1>3

-----------------------------------------------------------------------------
(* Pointers and joins *)

\* Every step keeps the collection in shape and the variables in their types.
LEMMA StepTypes ==
  ASSUME IInv, [ServerNext]_vars
  PROVE  PoolInv' /\ ServerTypeOK' /\ SearchInv'
<1>1. PoolInv'
  BY PoolStep DEF IInv
<1>2. CASE UNCHANGED vars
  BY <1>1, <1>2 DEF vars, serverVars, IInv, ServerTypeOK, SearchInv
<1>3. CASE ServerNext
  <2>1. CASE LoopStep
    BY <1>1, <1>3, <2>1, LoopType DEF ServerNext
  <2>2. CASE QuitStep
    BY <1>1, <1>3, <2>2, QuitTypes DEF ServerNext
  <2>3. CASE Pause \/ Resume \/ CastBegin \/ CastSlot \/ CastDone
    BY <1>1, <1>3, <2>3, CallType DEF ServerNext
  <2>4. CASE AcceptFails
    <3>1. reset' \in [Callers -> ResetType] /\ SearchInv' /\ crash' \in Crashes
      BY <2>4, NumberRead DEF AcceptFails, PointersInv, Callers, IInv
    <3>2. QED
      BY <1>1, <2>4, <3>1 DEF AcceptFails, AtLoop, IInv, ServerTypeOK, ResetType, Crashes
  <2>5. ASSUME NEW c \in Peers,
               \/ AcceptPeer(c) \/ AcceptNoMemory(c) \/ ThreadStep(c)
               \/ PeerConnects(c) \/ PeerCloses(c) \/ PeerResets(c)
        PROVE  ServerTypeOK' /\ SearchInv'
    BY <1>3, <2>5, PeerType, ThreadTypes DEF ServerNext
  <2>6. QED
    BY <1>1, <1>3, <2>1, <2>2, <2>3, <2>4, <2>5 DEF ServerNext, CallStep
<1>4. QED
  BY <1>2, <1>3

\* What the steps of a reset, and of a receiver thread, leave to the others.
LEMMA ResetFrame ==
  ASSUME NEW a \in Callers, ResetStep(a)
  PROVE  ResetLeaves
BY DEF ResetStep, Match, Erase, Number, Free

LEMMA ThreadFrame ==
  ASSUME NEW c \in Peers, ThreadStep(c)
  PROVE  UNCHANGED <<alloc, length, maximum, ret, gen, run, pause, acc, quit, cast, stray, late>>
<1>1. CASE ResetStep(c)
  BY <1>1, ResetFrame DEF ResetLeaves, Callers
<1>2. CASE ~ResetStep(c)
  BY <1>2 DEF ThreadStep, ThreadBegins, ThreadNoMemory, Establish, ExchangeFails, LoopEnds,
              ThreadExits, ThreadStale, ThreadLeaves, poolVars
<1>3. QED
  BY <1>1, <1>2

\* Only the start, a claim and the dispose make, move or free the arrays.
LEMMA ArraysMove ==
  ASSUME [ServerNext]_vars
  PROVE  UNCHANGED <<gen, alloc, length>> \/ Start \/ LoopNext \/ QuitDispose
<1>1. CASE LoopStep
  BY <1>1, ResetFrame
  DEF LoopStep, TargetCleared, PollSlot, PollReset, PollDone, LoopAgain, poolVars, ResetLeaves, Callers
<1>2. CASE QuitStep
  BY <1>2, ResetFrame
  DEF QuitStep, QuitBegin, QuitSlot, QuitReset, QuitErase, QuitFree, QuitNumber, QuitFlag, poolVars,
      ResetLeaves, Callers
<1>3. CASE Pause \/ Resume \/ CastBegin \/ CastSlot \/ CastDone \/ AcceptFails \/ UNCHANGED vars
  BY <1>3 DEF Pause, Resume, CastBegin, CastSlot, CastDone, AcceptFails, poolVars, vars, serverVars
<1>4. ASSUME NEW c \in Peers,
             \/ AcceptPeer(c) \/ AcceptNoMemory(c) \/ ThreadStep(c)
             \/ PeerConnects(c) \/ PeerCloses(c) \/ PeerResets(c)
      PROVE  UNCHANGED <<gen, alloc, length>>
  BY <1>4, ThreadFrame DEF AcceptPeer, AcceptNoMemory, PeerConnects, PeerCloses, PeerResets, PeerMoves, poolVars
<1>5. QED
  BY <1>1, <1>2, <1>3, <1>4 DEF ServerNext, CallStep

\* The arrays of a live collection only grow, and move to a new generation.
LEMMA ArraysStay ==
  ASSUME IInv, [ServerNext]_vars, ~Start
  PROVE  gen <= gen' /\ (alloc' = "live" => alloc = "live" /\ Slots \subseteq Slots')
<1>1. gen \in Nat /\ length \in Nat
  BY DEF IInv, ServerTypeOK, PoolInv, TypeOK
<1>2. CASE UNCHANGED <<gen, alloc, length>>
  BY <1>1, <1>2 DEF Slots
<1>3. CASE LoopNext
  <2>1. gen <= gen'
    BY <1>1, <1>3 DEF LoopNext
  <2>2. alloc' = "live" => alloc = "live" /\ length' \in {length, length + 1}
    BY <1>3 DEF LoopNext, ClaimSlot, NextSlot, Add, Claim, CanGrow, IInv, PoolInv, TypeOK
  <2>3. QED
    BY <1>1, <2>1, <2>2 DEF Slots
<1>4. CASE QuitDispose
  BY <1>1, <1>4 DEF QuitDispose, Dispose
<1>5. QED
  BY <1>2, <1>3, <1>4, ArraysMove

\* So a pointer to a slot stays one, or becomes stale.
LEMMA StaysInRange ==
  ASSUME IInv, [ServerNext]_vars, ~Start, NEW ptr, ptr.gen \in Nat, InRange(ptr)
  PROVE  ptr.gen <= gen' /\ (alloc' = "live" /\ ptr.gen = gen' => ptr.slot \in Slots')
<1>1. gen \in Nat /\ gen' \in Nat
  BY StepTypes DEF IInv, ServerTypeOK
<1>2. QED
  BY <1>1, ArraysStay DEF InRange, Valid

\* What a step does to the accept loop.
LEMMA AccMoves ==
  ASSUME IInv, [ServerNext]_vars
  PROVE  \/ acc' = acc
         \/ Start \/ LoopNext \/ TargetCleared \/ PollSlot
         \/ acc'.at \in {"poll", "loop"}
         \/ MayGoOn /\ acc.at = "loop" /\ acc'.at \in {"next", "ended"}
<1> USE DEF IInv, ServerTypeOK
<1>1. CASE LoopStep
  <2>1. CASE PollReset \/ PollDone \/ LoopAgain
    <3>1. CASE PollReset \/ PollDone
      <4>1. Polled(acc.i).at = "poll" /\ AtLoop.at = "loop"
        BY DEF Polled, AtLoop
      <4>2. acc' = Polled(acc.i) \/ acc' = AtLoop
        BY <3>1 DEF PollReset, PollDone
      <4>3. QED
        BY ONLY <4>1, <4>2
    <3>2. CASE LoopAgain
      <4>1. /\ MayGoOn /\ acc.at = "loop"
            /\ acc' = [acc EXCEPT !.at = "next"] \/ acc' = [acc EXCEPT !.at = "ended"]
        BY <3>2 DEF LoopAgain
      <4>2. QED
        BY <4>1
    <3>3. QED
      BY <2>1, <3>1, <3>2
  <2>2. CASE ResetStep("loop")
    BY <2>2, ResetFrame DEF ResetLeaves, Callers
  <2>3. QED
    BY <1>1, <2>1, <2>2 DEF LoopStep
<1>2. CASE QuitStep
  BY <1>2, ResetFrame
  DEF QuitStep, QuitBegin, QuitSlot, QuitReset, QuitErase, QuitFree, QuitNumber, QuitDispose, QuitFlag,
      ResetLeaves, Callers
<1>3. CASE Pause \/ Resume \/ CastBegin \/ CastSlot \/ CastDone \/ AcceptFails \/ UNCHANGED vars
  BY <1>3 DEF Pause, Resume, CastBegin, CastSlot, CastDone, AcceptFails, AtLoop, vars, serverVars
<1>4. ASSUME NEW c \in Peers,
             \/ AcceptPeer(c) \/ AcceptNoMemory(c) \/ ThreadStep(c)
             \/ PeerConnects(c) \/ PeerCloses(c) \/ PeerResets(c)
      PROVE  acc' = acc \/ acc'.at \in {"poll", "loop"}
  BY <1>4, ThreadFrame
  DEF AcceptPeer, AcceptNoMemory, AtLoop, PeerConnects, PeerCloses, PeerResets, PeerMoves
<1>5. QED
  BY <1>1, <1>2, <1>3, <1>4 DEF ServerNext, CallStep

\* What a step does to quit.
LEMMA QuitMoves ==
  ASSUME IInv, [ServerNext]_vars
  PROVE  quit' = quit \/ (Returned("quit") /\ QuitStep)
<1>1. CASE LoopStep
  BY <1>1, ResetFrame
  DEF LoopStep, Start, LoopNext, TargetCleared, PollSlot, PollReset, PollDone, LoopAgain, ResetLeaves, Callers
<1>2. CASE QuitStep
  BY <1>2, ResetFrame DEF QuitStep, ResetLeaves, Callers
<1>3. CASE Pause \/ Resume \/ CastBegin \/ CastSlot \/ CastDone \/ AcceptFails \/ UNCHANGED vars
  BY <1>3 DEF Pause, Resume, CastBegin, CastSlot, CastDone, AcceptFails, vars, serverVars
<1>4. ASSUME NEW c \in Peers,
             \/ AcceptPeer(c) \/ AcceptNoMemory(c) \/ ThreadStep(c)
             \/ PeerConnects(c) \/ PeerCloses(c) \/ PeerResets(c)
      PROVE  quit' = quit
  BY <1>4, ThreadFrame DEF AcceptPeer, AcceptNoMemory, PeerConnects, PeerCloses, PeerResets, PeerMoves
<1>5. QED
  BY <1>1, <1>2, <1>3, <1>4 DEF ServerNext, CallStep

\* A running thread goes on with its pointer, or ends.
Goes(c) ==
  /\ Live(c)
  /\ \/ \E to \in {"exchange", "receive", "exit"} : Step(c, to)
     \/ ThreadDone(c)

LEMMA ThreadGoes ==
  ASSUME NEW c \in Peers, ThreadStep(c)
  PROVE  Goes(c) \/ (ResetStep(c) /\ thread' = thread)
<1>1. CASE ResetStep(c)
  BY <1>1, ResetFrame DEF ResetLeaves, Callers
<1>2. CASE ThreadBegins(c) \/ Establish(c) \/ ExchangeFails(c) \/ LoopEnds(c)
  BY <1>2 DEF ThreadBegins, Establish, ExchangeFails, LoopEnds, Goes, Live
<1>3. CASE ThreadNoMemory(c) \/ ThreadExits(c) \/ ThreadStale(c)
  BY <1>3 DEF ThreadNoMemory, ThreadExits, ThreadStale, Goes, Live
<1>4. QED
  BY <1>1, <1>2, <1>3 DEF ThreadStep

\* What a step does to a thread: it is started, or goes on.
LEMMA ThreadsMove ==
  ASSUME IInv, [ServerNext]_vars, NEW c \in Peers
  PROVE  thread'[c] = thread[c] \/ AcceptPeer(c) \/ (ThreadStep(c) /\ Goes(c))
<1> USE DEF IInv, ServerTypeOK
<1>1. CASE LoopStep
  BY <1>1, ResetFrame
  DEF LoopStep, Start, LoopNext, TargetCleared, PollSlot, PollReset, PollDone, LoopAgain, ResetLeaves, Callers
<1>2. CASE QuitStep
  BY <1>2, ResetFrame
  DEF QuitStep, QuitBegin, QuitSlot, QuitReset, QuitErase, QuitFree, QuitNumber, QuitDispose, QuitFlag,
      ResetLeaves, Callers
<1>3. CASE Pause \/ Resume \/ CastBegin \/ CastSlot \/ CastDone \/ AcceptFails \/ UNCHANGED vars
  BY <1>3 DEF Pause, Resume, CastBegin, CastSlot, CastDone, AcceptFails, vars, serverVars
<1>4. ASSUME NEW d \in Peers, AcceptPeer(d), d # c
      PROVE  thread'[c] = thread[c]
  BY <1>4 DEF AcceptPeer, ThreadStarted
<1>5. ASSUME NEW d \in Peers, ThreadStep(d), d # c
      PROVE  thread'[c] = thread[c]
  BY <1>5, ThreadGoes DEF Goes, Step, ThreadDone
<1>6. ThreadStep(c) => thread'[c] = thread[c] \/ Goes(c)
  BY ThreadGoes
<1>7. ASSUME NEW d \in Peers,
             AcceptNoMemory(d) \/ PeerConnects(d) \/ PeerCloses(d) \/ PeerResets(d)
      PROVE  thread'[c] = thread[c]
  BY <1>7 DEF AcceptNoMemory, PeerConnects, PeerCloses, PeerResets, PeerMoves
<1>8. QED
  BY <1>1, <1>2, <1>3, <1>4, <1>5, <1>6, <1>7 DEF ServerNext, CallStep

\* Every pointer in use is one to a slot, or stale.
LEMMA PointersStep ==
  ASSUME IInv, [ServerNext]_vars
  PROVE  PointersInv'
<1> USE DEF IInv, ServerTypeOK
<1>1. ServerTypeOK' /\ PoolInv'
  BY StepTypes
<1>2. CASE Start
  BY <1>2 DEF Start, PointersInv, Live
<1>3. CASE ~Start
  <2>1. ASSUME NEW ptr, ptr.gen \in Nat, InRange(ptr)
        PROVE  ptr.gen <= gen' /\ (alloc' = "live" /\ ptr.gen = gen' => ptr.slot \in Slots')
    BY <1>3, <2>1, StaysInRange
  <2>2. (acc'.at \in {"target", "accept", "pollReset"} => InRange(acc)')
    <3>1. CASE acc' = acc
      BY <2>1, <3>1 DEF PointersInv, InRange, Valid
    <3>2. CASE LoopNext
      <4>1. acc'.at = "target" => acc'.slot = ret' /\ acc'.gen = gen' /\ ret' # Null
        BY <3>2 DEF LoopNext
      <4>2. ret' # Null /\ alloc' = "live" => ret' \in Slots'
        <5>1. CASE Claim
          BY <5>1 DEF Claim, Slots
        <5>2. CASE length' = length + 1 /\ ret' = length
          BY <5>2 DEF Slots, PoolInv, TypeOK
        <5>3. QED
          BY <3>2, <5>1, <5>2, NextSlotCases DEF LoopNext, ClaimSlot
      <4>3. acc'.at \in {"loop", "target"}
        BY <3>2 DEF LoopNext
      <4>4. QED
        BY <1>1, <4>1, <4>2, <4>3 DEF InRange, Valid
    <3>3. CASE TargetCleared
      <4>1. InRange(acc) /\ acc'.slot = acc.slot /\ acc'.gen = acc.gen
        BY <3>3 DEF TargetCleared, PointersInv
      <4>2. QED
        BY <2>1, <4>1 DEF InRange, Valid
    <3>4. CASE PollSlot
      <4>1. \/ acc'.at = "poll"
            \/ acc.i \in Slots /\ acc'.slot = acc.i /\ acc'.gen = gen
        BY <3>4 DEF PollSlot, Polled
      <4>2. UNCHANGED <<gen, alloc, length>>
        BY <3>4 DEF PollSlot, poolVars
      <4>3. QED
        BY <4>1, <4>2 DEF InRange, Valid, Slots
    <3>5. QED
      BY <1>3, <3>1, <3>2, <3>3, <3>4, AccMoves
  <2>3. quit'.at = "reset" => InRange(quit)'
    <3>1. CASE quit' = quit
      BY <2>1, <3>1 DEF PointersInv, InRange, Valid
    <3>2. CASE QuitSlot
      <4>1. \/ quit.slot \in Slots /\ quit'.slot = quit.slot /\ quit'.gen = gen
            \/ quit'.at = "slot"
        BY <3>2 DEF QuitSlot
      <4>2. UNCHANGED <<gen, alloc, length>>
        BY <3>2 DEF QuitSlot, poolVars
      <4>3. QED
        BY <4>1, <4>2 DEF InRange, Valid, Slots
    <3>3. CASE QuitStep /\ ~QuitSlot /\ quit' # quit
      <4>1. ~ResetStep("quit")
        BY <3>3, ResetFrame DEF ResetLeaves, Callers
      <4>2. CASE QuitReset \/ QuitErase \/ QuitFree \/ QuitNumber \/ QuitFlag
        <5>1. \E at \in {"slot", "clear", "number", "done"} : \E s :
                quit' = [quit EXCEPT !.at = at, !.slot = s] \/ quit' = [quit EXCEPT !.at = at]
          BY <4>2 DEF QuitReset, QuitErase, QuitFree, QuitNumber, QuitFlag
        <5>2. QED
          BY <5>1
      <4>3. CASE QuitBegin \/ QuitDispose
        BY <4>3 DEF QuitBegin, QuitDispose
      <4>4. QED
        BY <3>3, <4>1, <4>2, <4>3 DEF QuitStep
    <3>4. QED
      BY <3>1, <3>2, <3>3, QuitMoves
  <2>4. ASSUME NEW c \in Peers, Live(c)'
        PROVE  InRange(thread[c])'
    <3>1. CASE thread'[c] = thread[c]
      BY <2>1, <2>4, <3>1 DEF PointersInv, InRange, Valid, Live
    <3>2. CASE AcceptPeer(c)
      <4>1. InRange(acc)
        BY <3>2 DEF AcceptPeer, PointersInv
      <4>2. thread'[c] = thread[c] \/ (thread'[c].slot = acc.slot /\ thread'[c].gen = acc.gen)
        BY <3>2 DEF AcceptPeer, ThreadStarted
      <4>3. QED
        BY <2>1, <3>1, <4>1, <4>2 DEF InRange, Valid
    <3>3. CASE Goes(c)
      <4>1. InRange(thread[c])
        BY <3>3 DEF Goes, PointersInv
      <4>2. thread'[c].slot = thread[c].slot /\ thread'[c].gen = thread[c].gen
        BY <2>4, <3>3 DEF Goes, Step, ThreadDone, NoThread, Live
      <4>3. QED
        BY <2>1, <4>1, <4>2 DEF InRange, Valid
    <3>4. QED
      BY <3>1, <3>2, <3>3, ThreadsMove
  <2>5. acc'.at = "start" => quit'.at = "idle" /\ \A c \in Peers : ~Live(c)'
    <3>1. SUFFICES ASSUME acc'.at = "start"
                   PROVE  quit'.at = "idle" /\ \A c \in Peers : ~Live(c)'
      OBVIOUS
    <3>2. acc.at = "start"
      BY <1>3, <3>1, AccMoves DEF LoopNext, TargetCleared, PollSlot, Polled
    <3>3. quit.at = "idle" /\ \A c \in Peers : ~Live(c)
      BY <3>2 DEF PointersInv
    <3>4. quit' = quit
      <4>1. ASSUME Returned("quit") /\ QuitStep
            PROVE  quit' = quit
        BY <3>2, <3>3, <4>1, ResetFrame
        DEF QuitStep, QuitBegin, QuitSlot, QuitReset, QuitErase, QuitFree, QuitNumber, QuitDispose, QuitFlag,
            ResetLeaves, Callers
      <4>2. QED
        BY <4>1, QuitMoves
    <3>5. \A c \in Peers : thread'[c] = thread[c]
      BY <3>2, <3>3, ThreadsMove DEF AcceptPeer, Goes
    <3>6. QED
      BY <3>3, <3>4, <3>5 DEF Live
  <2>6. QED
    BY <2>2, <2>3, <2>4, <2>5 DEF PointersInv
<1>4. QED
  BY <1>2, <1>3

\* Once the collection is disposed the accept loop gets no slot any more.
LEMMA NothingLeft ==
  ASSUME IInv, [ServerNext]_vars, alloc = "none", ~Start
  PROVE  alloc' = "none" /\ (LoopNext => acc'.at = "loop")
<1>1. length = 0 /\ maximum = 0
  BY DEF IInv, PoolInv, TypeOK
<1>2. ASSUME LoopNext
      PROVE  alloc' = alloc /\ acc'.at = "loop"
  <2>1. ~CanGrow /\ ~Claim
    BY <1>1 DEF CanGrow, Claim, Slots
  <2>2. alloc' = alloc /\ ret' = Null
    BY <1>2, <2>1, NextSlotCases DEF LoopNext, ClaimSlot
  <2>3. QED
    BY <1>2, <2>2 DEF LoopNext, IInv, ServerTypeOK
<1>3. QuitDispose => alloc' = "none" /\ ~LoopNext
  BY DEF QuitDispose, Dispose, LoopNext, IInv, ServerTypeOK
<1>4. QED
  BY <1>2, <1>3, ArraysMove

\* What a step does to the count of late joins and to the pause.
LEMMA LateMoves ==
  ASSUME [ServerNext]_vars
  PROVE  \/ late' = late /\ (pause => pause')
         \/ Start \/ Resume
         \/ \E c \in Peers : AcceptPeer(c)
<1>1. CASE LoopStep
  BY <1>1, ResetFrame
  DEF LoopStep, LoopNext, TargetCleared, PollSlot, PollReset, PollDone, LoopAgain, ResetLeaves, Callers
<1>2. CASE QuitStep
  BY <1>2, ResetFrame
  DEF QuitStep, QuitBegin, QuitSlot, QuitReset, QuitErase, QuitFree, QuitNumber, QuitDispose, QuitFlag,
      ResetLeaves, Callers
<1>3. CASE Pause \/ CastBegin \/ CastSlot \/ CastDone \/ AcceptFails \/ UNCHANGED vars
  BY <1>3 DEF Pause, CastBegin, CastSlot, CastDone, AcceptFails, vars, serverVars
<1>4. ASSUME NEW c \in Peers,
             AcceptNoMemory(c) \/ ThreadStep(c) \/ PeerConnects(c) \/ PeerCloses(c) \/ PeerResets(c)
      PROVE  late' = late /\ pause' = pause
  BY <1>4, ThreadFrame DEF AcceptNoMemory, PeerConnects, PeerCloses, PeerResets, PeerMoves
<1>5. QED
  BY <1>1, <1>2, <1>3, <1>4 DEF ServerNext, CallStep

\* A late join stays the only one: the pause stops the loop that made it at its
\* bottom, and the disposed collection gives it no slot for another.
LEMMA LateStep ==
  ASSUME IInv, [ServerNext]_vars
  PROVE  LateInv'
<1> USE DEF IInv, ServerTypeOK
<1>1. CASE Start
  <2>1. quit.at = "idle" /\ late = 0
    BY <1>1 DEF Start, PointersInv, LateInv
  <2>2. QED
    BY <1>1, <2>1 DEF Start, LateInv
<1>2. CASE ~Start
  <2>1. acc'.at = "start" => acc.at = "start"
    BY <1>2, AccMoves DEF LoopNext, TargetCleared, PollSlot, Polled
  <2>2. CASE quit.at \in {"flag", "done"}
    <3>1. alloc = "none" /\ acc.at # "start"
      BY <2>2 DEF LateInv
    <3>2. alloc' = "none" /\ acc'.at # "start" /\ (LoopNext => acc'.at = "loop")
      BY <1>2, <2>1, <3>1, NothingLeft
    <3>3. quit'.at \in {"flag", "done"}
      BY <2>2, QuitMoves, ResetFrame
      DEF QuitStep, QuitBegin, QuitSlot, QuitReset, QuitErase, QuitFree, QuitNumber, QuitDispose, QuitFlag,
          ResetLeaves, Callers
    <3>4. ASSUME late' # 0
          PROVE  late' = 1 /\ acc'.at \in {"poll", "pollReset", "loop", "next", "ended"}
      <4>1. ASSUME NEW c \in Peers, AcceptPeer(c)
            PROVE  late' = 1 /\ acc'.at = "poll"
        BY <3>4, <4>1 DEF AcceptPeer, LateInv
      <4>2. CASE late' = late
        <5>1. late = 1 /\ acc.at \in {"poll", "pollReset", "loop", "next", "ended"}
          BY <3>4, <4>2 DEF LateInv
        <5>2. PollSlot => acc'.at \in {"poll", "pollReset"}
          BY DEF PollSlot, Polled
        <5>3. ~TargetCleared
          BY <5>1 DEF TargetCleared
        <5>4. QED
          BY <1>2, <3>2, <4>2, <5>1, <5>2, <5>3, AccMoves
      <4>3. QED
        BY <1>2, <3>4, <4>1, <4>2, LateMoves DEF Resume
    <3>5. QED
      BY <3>2, <3>3, <3>4 DEF LateInv
  <2>3. CASE quit.at \notin {"flag", "done"}
    <3>1. quit'.at \in {"flag", "done"} => QuitDispose
      <4>1. CASE QuitBegin \/ QuitReset \/ QuitErase \/ QuitFree \/ QuitNumber \/ QuitFlag
        <5>1. ~QuitFlag
          BY <2>3 DEF QuitFlag
        <5>2. CASE QuitBegin
          BY <5>2 DEF QuitBegin
        <5>3. CASE QuitReset \/ QuitErase \/ QuitFree \/ QuitNumber
          <6>1. \E at \in {"slot", "clear", "number"} : \E s :
                  quit' = [quit EXCEPT !.at = at, !.slot = s] \/ quit' = [quit EXCEPT !.at = at]
            BY <5>3 DEF QuitReset, QuitErase, QuitFree, QuitNumber
          <6>2. QED
            BY <6>1
        <5>4. QED
          BY <4>1, <5>1, <5>2, <5>3
      <4>2. CASE QuitSlot
        BY <4>2 DEF QuitSlot
      <4>3. QED
        BY <2>3, <4>1, <4>2, QuitMoves, ResetFrame DEF QuitStep, ResetLeaves, Callers
    <3>2. QuitDispose => alloc' = "none" /\ acc'.at # "start"
      BY DEF QuitDispose, Dispose, PointersInv
    <3>3. ASSUME late' # 0
          PROVE  late' = 1 /\ pause' /\ acc'.at \in {"poll", "pollReset", "loop", "ended"}
      <4>1. ASSUME NEW c \in Peers, AcceptPeer(c)
            PROVE  late' = 1 /\ pause' /\ acc'.at = "poll"
        BY <2>3, <3>3, <4>1 DEF AcceptPeer, LateInv
      <4>2. CASE late' = late /\ (pause => pause')
        <5>1. late = 1 /\ pause /\ acc.at \in {"poll", "pollReset", "loop", "ended"}
          BY <2>3, <3>3, <4>2 DEF LateInv
        <5>2. PollSlot => acc'.at \in {"poll", "pollReset"}
          BY DEF PollSlot, Polled
        <5>3. ~TargetCleared /\ ~LoopNext /\ ~MayGoOn
          BY <5>1 DEF TargetCleared, LoopNext, MayGoOn
        <5>4. QED
          BY <1>2, <4>2, <5>1, <5>2, <5>3, AccMoves
      <4>3. QED
        BY <1>2, <3>3, <4>1, <4>2, LateMoves DEF Resume
    <3>4. QED
      BY <3>1, <3>2, <3>3 DEF LateInv
  <2>4. QED
    BY <2>2, <2>3
<1>3. QED
  BY <1>1, <1>2

-----------------------------------------------------------------------------
(* The theorems *)

\* The invariant holds before the server starts.
LEMMA InitIInv == Init => IInv
<1> SUFFICES ASSUME Init
             PROVE  IInv
  OBVIOUS
<1>1. PoolInv
  BY DEF Init, PoolInit, PoolInv, TypeOK, SlotZeroIsFound, Slots, ConnectionState, Null
<1>2. ServerTypeOK
  BY DEF Init, ServerTypeOK, Null, NotCalling
<1>3. PointersInv /\ SearchInv /\ LateInv
  BY DEF Init, PointersInv, SearchInv, LateInv, Live, NotCalling
<1>4. QED
  BY <1>1, <1>2, <1>3 DEF IInv

\* Every step of the server preserves the invariant.
LEMMA StepIInv == IInv /\ [ServerNext]_vars => IInv'
<1> SUFFICES ASSUME IInv, [ServerNext]_vars
             PROVE  IInv'
  OBVIOUS
<1>1. PoolInv' /\ ServerTypeOK' /\ SearchInv'
  BY StepTypes
<1>2. PointersInv' /\ LateInv'
  BY PointersStep, LateStep
<1>3. QED
  BY <1>1, <1>2 DEF IInv

\* The invariant holds in every reachable state of the server.
LEMMA AlwaysIInv == ServerSpec => []IInv
BY InitIInv, StepIInv, PTL DEF ServerSpec

\* Whatever the accept loop, the receiver threads and the application do at the
\* same time, the variables of qsmpserver.c keep their types.
THEOREM ServerTypeCorrect == ServerSpec => []ServerTypeOK
<1>1. IInv => ServerTypeOK
  BY DEF IInv
<1>2. QED
  BY <1>1, AlwaysIInv, PTL

\* The number of slot 0 is 0 in every interleaving of the threads, although they
\* write instance numbers without a lock.
THEOREM SlotZero == ServerSpec => []SlotZeroIsFound
<1>1. IInv => SlotZeroIsFound
  BY DEF IInv, PoolInv
<1>2. QED
  BY <1>1, AlwaysIInv, PTL

\* However many peers are queued, at most one joins while the server is paused, and
\* at most one once quit has freed the collection.
THEOREM OneLateJoin == ServerSpec => []AtMostOneLateJoin
<1>1. IInv => AtMostOneLateJoin
  BY DEF IInv, ServerTypeOK, LateInv, AtMostOneLateJoin
<1>2. QED
  BY <1>1, AlwaysIInv, PTL

\* What a step does to a reset in flight: one of its own, or its begin.
LEMMA ResetMoves ==
  ASSUME IInv, ServerNext, NEW a \in Callers
  PROVE  reset'[a] = reset[a] \/ ResetStep(a) \/ reset'[a].at = "match"
<1>1. reset \in [Callers -> ResetType]
  BY DEF IInv, ServerTypeOK, ResetType
<1>2. ASSUME NEW b \in Callers, NEW ptr, ResetByNumber(b, ptr)
      PROVE  reset'[a] = reset[a] \/ reset'[a].at = "match"
  BY <1>1, <1>2 DEF ResetByNumber, FromFirst
<1>3. ASSUME NEW b \in Callers, ResetStep(b), a # b
      PROVE  reset'[a] = reset[a]
  BY <1>1, <1>3 DEF ResetStep, Match, Erase, Number, Free, ResetGoes, ResetReturns
<1>4. CASE LoopStep
  BY <1>2, <1>3, <1>4
  DEF LoopStep, Start, LoopNext, TargetCleared, PollSlot, PollReset, PollDone, LoopAgain, Callers
<1>5. CASE QuitStep
  BY <1>2, <1>3, <1>5
  DEF QuitStep, QuitBegin, QuitSlot, QuitReset, QuitErase, QuitFree, QuitNumber, QuitDispose, QuitFlag, Callers
<1>6. CASE Pause \/ Resume \/ CastBegin \/ CastSlot \/ CastDone \/ AcceptFails
  BY <1>2, <1>6 DEF Pause, Resume, CastBegin, CastSlot, CastDone, AcceptFails, Callers
<1>7. ASSUME NEW c \in Peers, ThreadStep(c)
      PROVE  reset'[a] = reset[a] \/ ResetStep(a) \/ reset'[a].at = "match"
  BY <1>2, <1>3, <1>7
  DEF ThreadStep, ThreadBegins, ThreadNoMemory, Establish, ExchangeFails, LoopEnds, ThreadExits,
      ThreadStale, Callers
<1>8. ASSUME NEW c \in Peers,
             AcceptPeer(c) \/ AcceptNoMemory(c) \/ PeerConnects(c) \/ PeerCloses(c) \/ PeerResets(c)
      PROVE  reset'[a] = reset[a] \/ reset'[a].at = "match"
  BY <1>2, <1>8 DEF AcceptPeer, AcceptNoMemory, PeerConnects, PeerCloses, PeerResets, PeerMoves, Callers
<1>9. QED
  BY <1>4, <1>5, <1>6, <1>7, <1>8 DEF ServerNext, CallStep

\* A slot other than 0 with the number 0 is matched by no search: one for 0 ends
\* at slot 0.
LEMMA NeverMatched ==
  ASSUME IInv, ServerNext, NEW i \in Slots \ {0}, Leaked(i)
  PROVE  ~Matched(i)'
<1> SUFFICES ASSUME NEW a \in Callers,
                    reset'[a].at \in {"erase", "number", "free"}, reset'[a].i = i
             PROVE  FALSE
  BY DEF Matched
<1>1. reset \in [Callers -> ResetType] /\ reset[a] \in ResetType
  BY DEF IInv, ServerTypeOK, ResetType
<1>2. ~(reset[a].at \in {"erase", "number", "free"} /\ reset[a].i = i)
  BY DEF Leaked, Matched
<1>3. ResetStep(a)
  BY <1>2, ResetMoves
<1>4. CASE Match(a)
  <2>1. reset[a].at = "match" /\ reset[a].i = i /\ reset[a].n = conset[i].instance
    <3>1. CASE ResetReturns(a) \/ reset' = [reset EXCEPT ![a].i = reset[a].i + 1]
      <4>1. reset'[a].at \in {"idle", "match"}
        BY <1>1, <1>4, <3>1 DEF Match, ResetReturns, NotCalling, ResetType
      <4>2. QED
        BY <4>1
    <3>2. CASE /\ conset[reset[a].i].instance = reset[a].n
               /\ reset' = [reset EXCEPT ![a] = [at |-> "erase", n |-> 0, i |-> reset[a].i]]
      BY <1>1, <1>4, <3>2 DEF Match
    <3>3. QED
      BY <1>4, <3>1, <3>2 DEF Match
  <2>2. conset[i].instance = 0
    BY DEF Leaked
  <2>3. reset[a].i = 0
    BY <2>1, <2>2 DEF IInv, SearchInv
  <2>4. QED
    BY <2>1, <2>3
<1>5. CASE Erase(a) \/ Number(a)
  <2>1. reset[a].at \in {"erase", "number"} /\ reset'[a].i = reset[a].i
    BY <1>1, <1>5 DEF Erase, Number, ResetGoes, ResetType
  <2>2. QED
    BY <1>2, <2>1
<1>6. CASE Free(a)
  BY <1>1, <1>6 DEF Free, ResetReturns, NotCalling
<1>7. QED
  BY <1>3, <1>4, <1>5, <1>6 DEF ResetStep

\* The resets in flight pass over it.
LEMMA ResetPasses ==
  ASSUME IInv, NEW i \in Slots \ {0}, Leaked(i), NEW a \in Callers, ResetStep(a)
  PROVE  active'[i] /\ conset'[i].instance = 0
<1>1. active \in [Slots -> BOOLEAN] /\ conset \in [Slots -> ConnectionState]
  BY DEF Leaked, IInv, PoolInv, TypeOK
<1>2. active[i] /\ conset[i].instance = 0
  BY DEF Leaked
<1>3. CASE Match(a)
  BY <1>2, <1>3 DEF Match
<1>4. CASE Erase(a) \/ Number(a) \/ Free(a)
  <2>1. reset[a].i # i
    BY <1>4 DEF Erase, Number, Free, Leaked, Matched
  <2>2. \/ UNCHANGED <<conset, active>>
        \/ \E s : conset' = [conset EXCEPT ![reset[a].i] = s] /\ active' = active
        \/ active' = [active EXCEPT ![reset[a].i] = FALSE] /\ conset' = conset
    BY <1>4 DEF Erase, Number, Free, OnMatched
  <2>3. QED
    BY <1>1, <1>2, <2>1, <2>2
<1>5. QED
  BY <1>3, <1>4 DEF ResetStep

\* A write through a pointer leaves the number of another slot alone, and makes
\* 0 of that of its own at most.
LEMMA WritePassesBegun ==
  ASSUME PoolInv, alloc = "live", NEW i \in Slots, conset[i].instance = 0,
         NEW k, NEW s, conset' = [conset EXCEPT ![k] = s],
         k \in Slots => s.instance \in {conset[k].instance, 0}
  PROVE  conset'[i].instance = 0
BY DEF PoolInv, TypeOK

\* A claim or growth by one slot touches no active slot.
LEMMA NextSlotPassesBegun ==
  ASSUME PoolInv, NextSlot, alloc = "live", alloc' = "live",
         NEW i \in Slots, active[i], conset[i].instance = 0
  PROVE  active'[i] /\ conset'[i].instance = 0
<1>1. CASE Full
  <2>1. \/ conset' = Extended(conset, Added) /\ active' = Extended(active, TRUE)
        \/ UNCHANGED <<conset, active>>
    BY <1>1 DEF NextSlot, Add
  <2>2. i \in 0 .. length /\ i # length
    BY DEF Slots, PoolInv, TypeOK
  <2>3. QED
    BY <2>1, <2>2 DEF Extended
<1>2. CASE ~Full
  <2>1. PICK j \in Slots : active' = [active EXCEPT ![j] = TRUE] /\ UNCHANGED conset
    BY <1>2 DEF NextSlot, Claim
  <2>2. QED
    BY <2>1 DEF PoolInv, TypeOK
<1>3. QED
  BY <1>1, <1>2

\* A slot whose thread has begun, and that no reset had matched before, is held
\* until quit disposes of the collection, in every interleaving of the steps of all
\* resets: each connection on a slot other than 0 costs one for good.
THEOREM BegunSlotsLeak == ServerSpec => LeakedForGood
<1> DEFINE Kept(i) == active'[i] /\ conset'[i].instance = 0
<1>1. ASSUME IInv, ServerNext, alloc' = "live", quit.at \notin {"clear", "number"},
             NEW i \in Slots \ {0}, Leaked(i)
      PROVE  Kept(i)
  <2>1. PoolInv /\ alloc = "live" /\ active[i] /\ conset[i].instance = 0
    BY <1>1 DEF IInv, Leaked
  <2>2. ASSUME UNCHANGED <<active, conset>>
        PROVE  Kept(i)
    BY <2>1, <2>2
  <2>3. ASSUME NEW a \in Callers, ResetStep(a)
        PROVE  Kept(i)
    BY <1>1, <2>3, ResetPasses
  <2>4. ASSUME NEW k, NEW s, conset' = [conset EXCEPT ![k] = s], UNCHANGED active,
               k \in Slots => s.instance \in {conset[k].instance, 0}
        PROVE  Kept(i)
    BY <1>1, <2>1, <2>4, WritePassesBegun
  <2> HIDE DEF Kept
  <2>5. CASE LoopStep
    <3>1. ~Start
      BY <2>1 DEF Start, Initialize
    <3>2. CASE LoopNext
      BY <1>1, <2>1, <3>2, NextSlotPassesBegun DEF LoopNext, ClaimSlot, Kept
    <3>3. CASE TargetCleared
      <4>1. CASE Valid(acc)
        <5> DEFINE s == [conset[acc.slot] EXCEPT !.peer = NoPeer, !.up = FALSE]
        <5>1. acc.slot \in Slots => s.instance = conset[acc.slot].instance
          BY <1>1, <2>1 DEF PoolInv, TypeOK, ConnectionState
        <5>2. conset' = [conset EXCEPT ![acc.slot] = s] /\ UNCHANGED active
          BY <3>3, <4>1 DEF TargetCleared
        <5> HIDE DEF s
        <5>3. QED
          BY <2>4, <5>1, <5>2
      <4>2. CASE ~Valid(acc)
        BY <2>2, <3>3, <4>2 DEF TargetCleared
      <4>3. QED
        BY <4>1, <4>2
    <3>4. CASE ResetStep("loop")
      BY <2>3, <3>4 DEF Callers
    <3>5. CASE PollSlot \/ PollReset \/ PollDone \/ LoopAgain
      BY <2>2, <3>5 DEF PollSlot, PollReset, PollDone, LoopAgain, poolVars
    <3>6. QED
      BY <2>5, <3>1, <3>2, <3>3, <3>4, <3>5 DEF LoopStep
  <2>6. CASE QuitStep
    <3>1. ~QuitDispose
      BY <1>1 DEF QuitDispose, Dispose
    <3>2. ~QuitFree /\ ~QuitNumber
      BY <1>1 DEF QuitFree, QuitNumber
    <3>3. CASE QuitErase
      <4>1. conset' = [j \in Slots |-> Cleared(0)] /\ active' = active
        BY <3>3 DEF QuitErase
      <4>2. QED
        BY <1>1, <2>1, <4>1 DEF Cleared, Kept
    <3>4. CASE ResetStep("quit")
      BY <2>3, <3>4 DEF Callers
    <3>5. CASE QuitBegin \/ QuitSlot \/ QuitReset \/ QuitFlag
      BY <2>2, <3>5 DEF QuitBegin, QuitSlot, QuitReset, QuitFlag, poolVars
    <3>6. QED
      BY <2>6, <3>1, <3>2, <3>3, <3>4, <3>5 DEF QuitStep
  <2>7. CASE Pause \/ Resume \/ CastBegin \/ CastSlot \/ CastDone \/ AcceptFails
    BY <2>2, <2>7 DEF Pause, Resume, CastBegin, CastSlot, CastDone, AcceptFails, poolVars
  <2>8. ASSUME NEW c \in Peers, AcceptPeer(c)
        PROVE  Kept(i)
    <3>1. CASE Valid(acc)
      <4> DEFINE s == [conset[acc.slot] EXCEPT !.peer = c, !.up = TRUE]
      <4>1. acc.slot \in Slots => s.instance = conset[acc.slot].instance
        BY <1>1, <2>1 DEF PoolInv, TypeOK, ConnectionState
      <4>2. conset' = [conset EXCEPT ![acc.slot] = s] /\ UNCHANGED active
        BY <2>8, <3>1 DEF AcceptPeer
      <4> HIDE DEF s
      <4>3. QED
        BY <2>4, <4>1, <4>2
    <3>2. CASE ~Valid(acc)
      BY <2>2, <2>8, <3>2 DEF AcceptPeer
    <3>3. QED
      BY <3>1, <3>2
  <2>9. ASSUME NEW c \in Peers, ThreadStep(c)
        PROVE  Kept(i)
    <3> DEFINE k == thread[c].slot
    <3>1. CASE ThreadBegins(c)
      <4>1. k \in Slots => Begun(conset[k]).instance = 0
        BY <1>1, <2>1 DEF Begun, PoolInv, TypeOK, ConnectionState
      <4>2. conset' = [conset EXCEPT ![k] = Begun(conset[k])] /\ UNCHANGED active
        BY <3>1 DEF ThreadBegins
      <4>3. QED
        BY <2>4, <4>1, <4>2
    <3>2. CASE Establish(c)
      <4> DEFINE s == [conset[k] EXCEPT !.established = TRUE]
      <4>1. k \in Slots => s.instance = conset[k].instance
        BY <1>1, <2>1 DEF PoolInv, TypeOK, ConnectionState
      <4>2. conset' = [conset EXCEPT ![k] = s] /\ UNCHANGED active
        BY <3>2 DEF Establish
      <4> HIDE DEF s
      <4>3. QED
        BY <2>4, <4>1, <4>2
    <3>3. CASE ExchangeFails(c)
      <4>1. Cleared(0).instance = 0
        BY DEF Cleared
      <4>2. conset' = [conset EXCEPT ![k] = Cleared(0)] /\ UNCHANGED active
        BY <3>3 DEF ExchangeFails
      <4>3. QED
        BY <2>4, <4>1, <4>2
    <3>4. CASE ResetStep(c)
      BY <2>3, <3>4 DEF Callers
    <3>5. CASE ThreadNoMemory(c) \/ LoopEnds(c) \/ ThreadExits(c) \/ ThreadStale(c)
      BY <2>2, <3>5 DEF ThreadNoMemory, LoopEnds, ThreadExits, ThreadStale, poolVars
    <3>6. QED
      BY <2>9, <3>1, <3>2, <3>3, <3>4, <3>5 DEF ThreadStep
  <2>10. ASSUME NEW c \in Peers, AcceptNoMemory(c) \/ PeerConnects(c) \/ PeerCloses(c) \/ PeerResets(c)
         PROVE  Kept(i)
    BY <2>2, <2>10 DEF AcceptNoMemory, PeerConnects, PeerCloses, PeerResets, PeerMoves, poolVars
  <2>11. QED
    BY <1>1, <2>5, <2>6, <2>7, <2>8, <2>9, <2>10 DEF ServerNext, CallStep
<1>2. ASSUME IInv, ServerNext, alloc' = "live", quit.at \notin {"clear", "number"},
             NEW i \in Slots \ {0}, Leaked(i)
      PROVE  Leaked(i)'
  BY <1>1, <1>2, NeverMatched DEF Leaked
<1>3. IInv /\ [ServerNext]_vars =>
        [\A i \in Slots \ {0} :
           (Leaked(i) /\ quit.at \notin {"clear", "number"}) => Leaked(i)' \/ alloc' # "live"]_vars
  BY <1>2
<1>4. QED
  BY <1>3, AlwaysIInv, PTL DEF ServerSpec, LeakedForGood

-----------------------------------------------------------------------------
(* The slots *)

Holding == acc.at \in {"target", "accept"}

\* The slot the accept loop holds is its own and carries its index.
LoopHolds ==
  Holding => /\ Valid(acc) /\ acc.slot \in Slots
             /\ active[acc.slot] /\ conset[acc.slot].instance = acc.slot
             /\ \A c \in Peers : Live(c) => thread[c].slot # acc.slot

\* The accept loop is giving back the slot that it held: the one its reset looks
\* for, and then has matched.
Releasing == ~Returned("loop")
Given == IF reset["loop"].at = "match" THEN reset["loop"].n ELSE reset["loop"].i

LoopGives ==
  Releasing => /\ Given \in Slots /\ active[Given]
               /\ reset["loop"].at # "number" => conset[Given].instance = Given
               /\ reset["loop"].at = "match" => reset["loop"].i <= Given
               /\ \A c \in Peers : Live(c) => thread[c].slot # Given

\* A running thread has an active slot, and that slot has the thread's peer.
ThreadHolds(c) ==
  Live(c) => /\ thread[c].slot \in Slots /\ active[thread[c].slot]
             /\ conset[thread[c].slot].peer = c /\ conset[thread[c].slot].up

\* A slot is active because a peer was accepted into it or is waited for, or
\* because it is about to be freed.
ActiveHasPeer ==
  \A i \in Slots : active[i] => \/ conset[i].peer # NoPeer
                                \/ Holding /\ i = acc.slot
                                \/ Releasing /\ i = Given

\* Only a slot in use has lost its number.
NumberedOrBegun ==
  \A i \in Slots : conset[i].instance = i \/ (conset[i].instance = 0 /\ active[i])

HandedOver ==
  /\ acc.at # "pollReset"
  /\ acc.at = "start" => \A c \in Peers : thread[c].at = "none"
  /\ alloc = "none" => acc.at = "start"
  /\ alloc = "live" => /\ LoopHolds /\ LoopGives
                       /\ \A c \in Peers : ThreadHolds(c)
                       /\ ActiveHasPeer
                       /\ NumberedOrBegun

\* A peer that was not accepted yet has no thread.
QueueInv == \A c \in Peers : sock[c] \in {"away", "queued"} => thread[c].at = "none"

\* A thread gives its slot back when it is done, quit between two of its slots, and
\* the accept loop when it holds none.
CallersInv ==
  /\ \A c \in Peers : ~Returned(c) => thread[c].at = "done"
  /\ ~Returned("quit") => quit.at = "slot"
  /\ ~Returned("loop") => acc.at \in {"loop", "poll"}

SInv == IInv /\ QueueInv /\ CallersInv /\ (NoneGivenBack => HandedOver)

-----------------------------------------------------------------------------

\* What a step does to the sockets: accept, the peers, or a close.
LEMMA SocketsMove ==
  ASSUME IInv, [ServerNext]_vars, NEW c \in Peers
  PROVE  \/ sock'[c] = sock[c]
         \/ sock[c] = "away" /\ sock'[c] = "queued"
         \/ sock[c] = "queued" /\ sock'[c] = "open"
         \/ sock[c] = "open" /\ sock'[c] \in {"eof", "reset"}
         \/ sock'[c] = "closed"
<1> USE DEF IInv, ServerTypeOK
<1>1. CASE UNCHANGED vars
  BY <1>1 DEF vars, serverVars
<1>2. CASE LoopStep \/ AcceptFails
  BY <1>2, ResetFrame
  DEF LoopStep, Start, LoopNext, TargetCleared, PollSlot, PollReset, PollDone, LoopAgain, AcceptFails,
      ResetLeaves, Callers
<1>3. CASE CallStep
  <2>1. CASE QuitSlot
    BY <2>1 DEF QuitSlot, CloseSocketOf
  <2>2. CASE QuitStep /\ ~QuitSlot
    BY <2>2, ResetFrame
    DEF QuitStep, QuitBegin, QuitReset, QuitErase, QuitFree, QuitNumber, QuitDispose, QuitFlag,
        ResetLeaves, Callers
  <2>3. CASE Pause \/ Resume \/ CastBegin \/ CastSlot \/ CastDone
    BY <2>3 DEF Pause, Resume, CastBegin, CastSlot, CastDone
  <2>4. QED
    BY <1>3, <2>1, <2>2, <2>3 DEF CallStep
<1>4. ASSUME NEW d \in Peers, AcceptPeer(d) \/ AcceptNoMemory(d)
      PROVE  \/ sock'[c] = sock[c]
             \/ sock[c] = "queued" /\ sock'[c] = "open"
  BY <1>4 DEF AcceptPeer, AcceptNoMemory
<1>5. ASSUME NEW d \in Peers, ThreadStep(d)
      PROVE  sock'[c] = sock[c] \/ sock'[c] = "closed"
  <2>1. CASE ResetStep(d)
    BY <2>1, ResetFrame DEF ResetLeaves, Callers
  <2>2. CASE ~ResetStep(d)
    BY <1>5, <2>2 DEF ThreadStep, ThreadBegins, ThreadNoMemory, Establish, ExchangeFails, LoopEnds,
                      ThreadExits, ThreadStale, CloseSocketOf
  <2>3. QED
    BY <2>1, <2>2
<1>6. ASSUME NEW d \in Peers, PeerConnects(d) \/ PeerCloses(d) \/ PeerResets(d)
      PROVE  \/ sock'[c] = sock[c]
             \/ sock[c] = "away" /\ sock'[c] = "queued"
             \/ sock[c] = "open" /\ sock'[c] \in {"eof", "reset"}
  BY <1>6 DEF PeerConnects, PeerCloses, PeerResets, PeerMoves
<1>7. QED
  BY <1>1, <1>2, <1>3, <1>4, <1>5, <1>6 DEF ServerNext

\* A peer gets its thread when it is accepted, not before.
LEMMA QueueStep ==
  ASSUME IInv, QueueInv, [ServerNext]_vars
  PROVE  QueueInv'
<1> SUFFICES ASSUME NEW c \in Peers, sock'[c] \in {"away", "queued"}
             PROVE  thread'[c].at = "none"
  BY DEF QueueInv
<1>1. sock[c] \in {"away", "queued"}
  BY SocketsMove
<1>2. thread[c].at = "none"
  BY <1>1 DEF QueueInv
<1>3. ~AcceptPeer(c)
  BY DEF AcceptPeer, IInv, ServerTypeOK
<1>4. ~Goes(c)
  BY <1>2 DEF Goes, Live
<1>5. QED
  BY <1>2, <1>3, <1>4, ThreadsMove

\* A slot that was given back once stays so: what NoneGivenBack excludes is
\* never undone.
LEMMA GivenBackStays ==
  ASSUME IInv, QueueInv, [ServerNext]_vars, NoneGivenBack'
  PROVE  NoneGivenBack
<1>1. ASSUME NEW c \in Peers
      PROVE  thread[c].at # "done"
  <2>1. ~(thread[c].at = "done" /\ AcceptPeer(c))
    BY DEF AcceptPeer, QueueInv
  <2>2. ~(thread[c].at = "done" /\ Goes(c))
    BY DEF Goes, Live
  <2>3. QED
    BY <2>1, <2>2, ThreadsMove DEF NoneGivenBack
<1>2. ASSUME NEW c \in Peers
      PROVE  sock[c] \notin {"reset", "closed"}
  BY SocketsMove DEF NoneGivenBack
<1>3. quit.at = "idle"
  <2>1. CASE quit' = quit
    BY <2>1 DEF NoneGivenBack
  <2>2. CASE QuitStep
    <3>1. quit'.at # "idle" \/ quit' = quit
      <4>1. CASE QuitReset \/ QuitErase \/ QuitFree \/ QuitNumber \/ QuitFlag
        <5>1. \E at \in {"slot", "clear", "number", "done"} : \E s :
                quit' = [quit EXCEPT !.at = at, !.slot = s] \/ quit' = [quit EXCEPT !.at = at]
          BY <4>1 DEF QuitReset, QuitErase, QuitFree, QuitNumber, QuitFlag
        <5>2. QED
          BY <5>1 DEF IInv, ServerTypeOK
      <4>2. CASE QuitBegin \/ QuitDispose
        BY <4>2 DEF QuitBegin, QuitDispose
      <4>3. CASE QuitSlot
        BY <4>3 DEF QuitSlot, IInv, ServerTypeOK
      <4>4. QED
        BY <2>2, <4>1, <4>2, <4>3, ResetFrame DEF QuitStep, ResetLeaves, Callers
    <3>2. QED
      BY <2>1, <3>1 DEF NoneGivenBack
  <2>3. QED
    BY <2>1, <2>2, QuitMoves
<1>4. QED
  BY <1>1, <1>2, <1>3 DEF NoneGivenBack

\* Where a reset begins: at the exit of a thread, in quit, and in the accept loop.
LEMMA ResetBegins ==
  ASSUME IInv, ServerNext, NEW a \in Callers, Returned(a), ~Returned(a)'
  PROVE  /\ a \in Peers => ThreadExits(a) \/ ThreadStale(a)
         /\ a = "quit" => QuitReset
         /\ a = "loop" => PollReset \/ AcceptFails \/ \E c \in Peers : AcceptNoMemory(c)
<1>1. reset \in [Callers -> ResetType] /\ reset[a].at = "idle"
  BY DEF IInv, ServerTypeOK, ResetType, Returned
<1>2. ASSUME NEW b \in Callers, NEW ptr, ResetByNumber(b, ptr)
      PROVE  a = b
  BY <1>1, <1>2 DEF ResetByNumber, Returned
<1>3. ASSUME NEW b \in Callers, ResetStep(b)
      PROVE  FALSE
  <2>1. reset[b].at # "idle" /\ \E r : reset' = [reset EXCEPT ![b] = r]
    BY <1>1, <1>3 DEF ResetStep, Match, Erase, Number, Free, ResetGoes, ResetReturns
  <2>2. QED
    BY <1>1, <2>1 DEF Returned
<1>4. reset' # reset
  BY DEF Returned
<1>5. "loop" \notin Peers /\ "quit" \notin Peers /\ "loop" # "quit"
  BY CallersAssumption
<1>6. CASE LoopStep
  BY <1>2, <1>3, <1>4, <1>5, <1>6
  DEF LoopStep, Start, LoopNext, TargetCleared, PollSlot, PollReset, PollDone, LoopAgain, Callers
<1>7. CASE QuitStep
  BY <1>2, <1>3, <1>4, <1>5, <1>7
  DEF QuitStep, QuitBegin, QuitSlot, QuitReset, QuitErase, QuitFree, QuitNumber, QuitDispose, QuitFlag, Callers
<1>8. CASE Pause \/ Resume \/ CastBegin \/ CastSlot \/ CastDone
  BY <1>4, <1>8 DEF Pause, Resume, CastBegin, CastSlot, CastDone
<1>9. CASE AcceptFails
  BY <1>2, <1>5, <1>9 DEF AcceptFails, Callers
<1>10. ASSUME NEW c \in Peers, ThreadStep(c)
       PROVE  a = c /\ (ThreadExits(c) \/ ThreadStale(c))
  BY <1>2, <1>3, <1>4, <1>10
  DEF ThreadStep, ThreadBegins, ThreadNoMemory, Establish, ExchangeFails, LoopEnds, ThreadExits,
      ThreadStale, Callers
<1>11. ASSUME NEW c \in Peers, AcceptNoMemory(c)
       PROVE  a = "loop"
  BY <1>2, <1>11 DEF AcceptNoMemory, Callers
<1>12. ASSUME NEW c \in Peers, AcceptPeer(c) \/ PeerConnects(c) \/ PeerCloses(c) \/ PeerResets(c)
       PROVE  FALSE
  BY <1>4, <1>12 DEF AcceptPeer, PeerConnects, PeerCloses, PeerResets, PeerMoves
<1>13. QED
  BY <1>5, <1>6, <1>7, <1>8, <1>9, <1>10, <1>11, <1>12 DEF ServerNext, CallStep

\* The accept loop does not go on before its reset returns.
LEMMA LoopWaits ==
  ASSUME IInv, CallersInv, ServerNext, ~Returned("loop")
  PROVE  acc' = acc
<1>1. acc.at \in {"loop", "poll"}
  BY DEF CallersInv
<1>2. CASE LoopStep
  BY <1>2, ResetFrame DEF LoopStep, ResetLeaves, Callers
<1>3. CASE QuitStep
  BY <1>3, ResetFrame
  DEF QuitStep, QuitBegin, QuitSlot, QuitReset, QuitErase, QuitFree, QuitNumber, QuitDispose, QuitFlag,
      ResetLeaves, Callers
<1>4. CASE Pause \/ Resume \/ CastBegin \/ CastSlot \/ CastDone \/ AcceptFails
  BY <1>1, <1>4 DEF Pause, Resume, CastBegin, CastSlot, CastDone, AcceptFails
<1>5. ASSUME NEW c \in Peers,
             \/ AcceptPeer(c) \/ AcceptNoMemory(c) \/ ThreadStep(c)
             \/ PeerConnects(c) \/ PeerCloses(c) \/ PeerResets(c)
      PROVE  acc' = acc
  BY <1>1, <1>5, ThreadFrame DEF AcceptPeer, AcceptNoMemory, PeerConnects, PeerCloses, PeerResets, PeerMoves
<1>6. QED
  BY <1>2, <1>3, <1>4, <1>5 DEF ServerNext, CallStep

\* A reset is in flight only where its caller waits for it.
LEMMA CallersStep ==
  ASSUME IInv, QueueInv, CallersInv, ServerNext
  PROVE  CallersInv'
<1> USE DEF IInv, ServerTypeOK
<1>1. ASSUME NEW c \in Peers, ~Returned(c)'
      PROVE  thread'[c].at = "done"
  <2>1. CASE ~Returned(c)
    BY <2>1, ThreadsMove DEF CallersInv, AcceptPeer, QueueInv, Goes, Live
  <2>2. CASE Returned(c)
    <3>1. ThreadExits(c) \/ ThreadStale(c)
      BY <1>1, <2>2, ResetBegins DEF Callers
    <3>2. QED
      BY <3>1 DEF ThreadExits, ThreadStale, ThreadDone, NoThread
  <2>3. QED
    BY <2>1, <2>2
<1>2. ASSUME ~Returned("quit")'
      PROVE  quit'.at = "slot"
  <2>1. CASE ~Returned("quit")
    BY <2>1, QuitMoves DEF CallersInv
  <2>2. CASE Returned("quit")
    <3>1. QuitReset
      BY <1>2, <2>2, ResetBegins DEF Callers
    <3>2. QED
      BY <3>1 DEF QuitReset
  <2>3. QED
    BY <2>1, <2>2
<1>3. ASSUME ~Returned("loop")'
      PROVE  acc'.at \in {"loop", "poll"}
  <2>1. CASE ~Returned("loop")
    BY <2>1, LoopWaits DEF CallersInv
  <2>2. CASE Returned("loop")
    <3>1. PollReset \/ AcceptFails \/ \E c \in Peers : AcceptNoMemory(c)
      BY <1>3, <2>2, ResetBegins DEF Callers
    <3>2. Polled(acc.i).at = "poll" /\ AtLoop.at = "loop"
      BY DEF Polled, AtLoop
    <3>3. acc' = Polled(acc.i) \/ acc' = AtLoop
      BY <3>1 DEF PollReset, AcceptFails, AcceptNoMemory
    <3>4. QED
      BY ONLY <3>2, <3>3
  <2>3. QED
    BY <2>1, <2>2
<1>4. QED
  BY <1>1, <1>2, <1>3 DEF CallersInv

-----------------------------------------------------------------------------
(* One lemma for each way a step can disturb the hand-over *)

\* A step of somebody who neither holds nor writes a slot.
LEMMA SameHands ==
  ASSUME HandedOver, UNCHANGED <<poolVars, gen, acc, thread, reset>>
  PROVE  HandedOver'
BY DEF HandedOver, LoopHolds, LoopGives, ThreadHolds, ActiveHasPeer, NumberedOrBegun, Holding,
       Releasing, Given, Returned, Valid, Live, Slots, poolVars

\* The accept loop between two of its slots.
LEMMA LoopHands ==
  ASSUME HandedOver, ~Holding, ~Releasing, acc.at # "start",
         UNCHANGED <<poolVars, gen, thread, reset>>,
         acc'.at \in {"poll", "loop", "next", "ended"}
  PROVE  HandedOver'
<1>1. ~Holding' /\ ~Releasing'
  BY DEF Holding, Releasing, Returned
<1>2. alloc = "live" => ActiveHasPeer'
  BY <1>1 DEF HandedOver, ActiveHasPeer, Slots, poolVars
<1>3. QED
  BY <1>1, <1>2 DEF HandedOver, LoopHolds, LoopGives, ThreadHolds, NumberedOrBegun, Live, Slots, poolVars

\* A collection just initialized has no active slot and no thread.
LEMMA StartHands ==
  ASSUME IInv, HandedOver, ~Releasing, Start
  PROVE  HandedOver'
<1>1. acc'.at = "next" /\ ~Holding' /\ ~Releasing'
  BY DEF Start, IInv, ServerTypeOK, Holding, Releasing, Returned
<1>2. \A c \in Peers : ~Live(c)'
  BY DEF Start, HandedOver, Live
<1>3. alloc' # "none"
  BY DEF Start, Initialize
<1>4. alloc' = "live" => \A i \in Slots' : ~active'[i] /\ conset'[i].instance = i
  <2> SUFFICES ASSUME alloc' = "live"
               PROVE  \A i \in Slots' : ~active'[i] /\ conset'[i].instance = i
    OBVIOUS
  <2>1. /\ conset' = [i \in Slots' |-> Cleared(i)]
        /\ active' = [i \in Slots' |-> FALSE]
    BY DEF Start, Initialize, Slots
  <2>2. QED
    BY <2>1 DEF Cleared
<1>5. QED
  BY <1>1, <1>2, <1>3, <1>4
  DEF HandedOver, LoopHolds, LoopGives, ThreadHolds, ActiveHasPeer, NumberedOrBegun

\* The loop comes to hold a slot that was free or is new, with its own number.
LEMMA NextHands ==
  ASSUME IInv, HandedOver, ~Releasing, Running, LoopNext
  PROVE  HandedOver'
<1>0. ~Releasing' /\ LoopGives'
  BY DEF LoopNext, Releasing, Returned, LoopGives
<1>1. /\ alloc = "live" /\ acc.at = "next" /\ ~Holding
      /\ \A c \in Peers : ThreadHolds(c)
      /\ ActiveHasPeer /\ NumberedOrBegun
  BY DEF LoopNext, Running, HandedOver, Holding, IInv, PoolInv, TypeOK
<1>2. /\ length \in Nat /\ active \in [Slots -> BOOLEAN] /\ conset \in [Slots -> ConnectionState]
      /\ thread' = thread
  BY <1>1 DEF LoopNext, IInv, PoolInv, TypeOK
<1>3. CASE /\ ret' = Null
           /\ alloc' = "lost" \/ UNCHANGED <<alloc, conset, active, length>>
  <2>1. acc'.at = "loop" /\ ~Holding'
    BY <1>3 DEF LoopNext, IInv, ServerTypeOK, Holding
  <2>2. alloc' = "live" => /\ Slots' = Slots
                           /\ \A i \in Slots : active[i] => conset[i].peer # NoPeer
    BY <1>1, <1>3 DEF ActiveHasPeer, Slots
  <2>3. QED
    BY <1>0, <1>1, <1>2, <1>3, <2>1, <2>2
    DEF HandedOver, LoopHolds, ThreadHolds, ActiveHasPeer, NumberedOrBegun, Live
<1>4. ASSUME NEW i, ret' = i, i \in Slots', i # Null, alloc' = "live",
             \A j \in Slots : j \in Slots',
             \A j \in Slots' \ {i} : /\ j \in Slots
                                     /\ conset'[j] = conset[j] /\ active'[j] = active[j],
             active'[i], conset'[i].instance = i,
             i \in Slots => ~active[i]
      PROVE  HandedOver'
  <2>1. /\ acc'.at = "target" /\ acc'.slot = i /\ acc'.gen = gen' /\ Holding'
    BY <1>4 DEF LoopNext, IInv, ServerTypeOK, Holding
  <2>2. \A c \in Peers : Live(c)' => Live(c) /\ thread[c].slot # i
    BY <1>1, <1>2, <1>4 DEF ThreadHolds, Live
  <2>3. LoopHolds'
    BY <1>2, <1>4, <2>1, <2>2 DEF LoopHolds, Valid
  <2>4. \A c \in Peers : ThreadHolds(c)'
    BY <1>1, <1>2, <1>4, <2>2 DEF ThreadHolds
  <2>5. ActiveHasPeer'
    BY <1>1, <1>4, <2>1 DEF ActiveHasPeer
  <2>6. NumberedOrBegun'
    BY <1>1, <1>4 DEF NumberedOrBegun
  <2>7. QED
    BY <1>0, <1>4, <2>1, <2>3, <2>4, <2>5, <2>6 DEF HandedOver
<1>5. CASE Full /\ CanGrow /\ length' = length + 1 /\ alloc' = alloc
           /\ conset' = Extended(conset, Added) /\ active' = Extended(active, TRUE)
           /\ ret' = length
  <2>1. Slots = 0 .. length - 1 /\ Slots' = 0 .. length /\ length # Null
    BY <1>2, <1>5 DEF Slots, Null
  <2>2. /\ active'[length] /\ conset'[length].instance = length
        /\ \A j \in Slots : conset'[j] = conset[j] /\ active'[j] = active[j]
    <3>1. length \in 0 .. length /\ \A j \in Slots : j \in 0 .. length /\ j # length
      BY <1>2, <2>1
    <3>2. Added.instance = length
      BY DEF Added, Cleared
    <3>3. QED
      BY <1>5, <3>1, <3>2 DEF Extended
  <2>3. /\ length \in Slots' /\ length \notin Slots
        /\ \A j \in Slots : j \in Slots'
        /\ \A j \in Slots' \ {length} : j \in Slots
    BY <1>2, <2>1
  <2>4. QED
    BY <1>1, <1>4, <1>5, <2>1, <2>2, <2>3
<1>6. CASE ~Full /\ Claim
  <2>1. PICK i \in Slots : /\ ~active[i]
                          /\ active' = [active EXCEPT ![i] = TRUE]
                          /\ ret' = i
                          /\ UNCHANGED <<alloc, conset, length, maximum>>
    BY <1>6 DEF Claim
  <2>2. Slots' = Slots /\ i # Null
    BY <1>2, <2>1 DEF Slots, Null
  <2>3. conset[i].instance = i
    BY <1>1, <2>1 DEF NumberedOrBegun
  <2>4. QED
    BY <1>1, <1>2, <1>4, <2>1, <2>2, <2>3
<1>7. QED
  BY <1>3, <1>5, <1>6 DEF LoopNext, ClaimSlot, NextSlot, Add

\* Accept clears the target of the loop's slot and of no thread's.
LEMMA TargetHands ==
  ASSUME IInv, HandedOver, ~Releasing, Running, TargetCleared
  PROVE  HandedOver'
<1>0. ~Releasing' /\ LoopGives'
  BY DEF TargetCleared, Releasing, Returned, LoopGives
<1>1. /\ alloc = "live" /\ acc.at = "target" /\ Holding
      /\ LoopHolds /\ (\A c \in Peers : ThreadHolds(c)) /\ ActiveHasPeer /\ NumberedOrBegun
  BY DEF TargetCleared, Running, HandedOver, Holding, IInv, PoolInv, TypeOK
<1>2. /\ Valid(acc) /\ acc.slot \in Slots
      /\ conset' = [conset EXCEPT ![acc.slot] = [@ EXCEPT !.peer = NoPeer, !.up = FALSE]]
      /\ UNCHANGED <<alloc, active, length, gen, thread>>
      /\ Slots' = Slots
  BY <1>1 DEF LoopHolds, TargetCleared, Slots
<1>3. acc'.at = "accept" /\ acc'.slot = acc.slot /\ acc'.gen = acc.gen /\ Holding'
  BY DEF TargetCleared, IInv, ServerTypeOK, Holding
<1>4. conset \in [Slots -> ConnectionState]
  BY <1>1 DEF IInv, PoolInv, TypeOK
<1>5. conset'[acc.slot].instance = conset[acc.slot].instance
  BY <1>2, <1>4 DEF ConnectionState
<1>6. \A j \in Slots \ {acc.slot} : conset'[j] = conset[j]
  BY <1>2, <1>4
<1>7. LoopHolds'
  BY <1>1, <1>2, <1>3, <1>5 DEF LoopHolds, Valid, Live
<1>8. \A c \in Peers : ThreadHolds(c)'
  BY <1>1, <1>2, <1>6 DEF LoopHolds, ThreadHolds, Live
<1>9. ActiveHasPeer'
  BY <1>1, <1>2, <1>3, <1>6 DEF ActiveHasPeer
<1>10. NumberedOrBegun'
  BY <1>1, <1>2, <1>5, <1>6 DEF NumberedOrBegun
<1>11. QED
  BY <1>0, <1>1, <1>2, <1>3, <1>7, <1>8, <1>9, <1>10 DEF HandedOver

\* With the peer the slot goes over to the thread, or to none if it was not created.
LEMMA AcceptHands ==
  ASSUME IInv, QueueInv, HandedOver, ~Releasing, Running, NEW p \in Peers, AcceptPeer(p)
  PROVE  HandedOver'
<1>0. ~Releasing' /\ LoopGives'
  BY DEF AcceptPeer, Releasing, Returned, LoopGives
<1>1. /\ alloc = "live" /\ acc.at = "accept" /\ Holding
      /\ LoopHolds /\ (\A c \in Peers : ThreadHolds(c)) /\ ActiveHasPeer /\ NumberedOrBegun
  BY DEF AcceptPeer, Running, HandedOver, Holding, IInv, PoolInv, TypeOK
<1>2. /\ Valid(acc) /\ acc.slot \in Slots
      /\ conset' = [conset EXCEPT ![acc.slot] = [@ EXCEPT !.peer = p, !.up = TRUE]]
      /\ UNCHANGED <<alloc, active, length, gen>>
      /\ Slots' = Slots
  BY <1>1 DEF LoopHolds, AcceptPeer, Slots
<1>3. acc'.at = "poll" /\ ~Holding'
  BY DEF AcceptPeer, Holding
<1>4. conset \in [Slots -> ConnectionState]
  BY <1>1 DEF IInv, PoolInv, TypeOK
<1>5. /\ conset'[acc.slot].instance = conset[acc.slot].instance
      /\ conset'[acc.slot].peer = p /\ conset'[acc.slot].up
  BY <1>2, <1>4 DEF ConnectionState
<1>6. \A j \in Slots \ {acc.slot} : conset'[j] = conset[j]
  BY <1>2, <1>4
<1>7. thread[p].at = "none"
  BY DEF AcceptPeer, QueueInv
<1>8. /\ thread'[p] = thread[p] \/ thread'[p].slot = acc.slot
      /\ \A c \in Peers \ {p} : thread'[c] = thread[c]
  BY DEF AcceptPeer, ThreadStarted, IInv, ServerTypeOK
<1>9. \A c \in Peers : ThreadHolds(c)'
  <2>1. ThreadHolds(p)'
    BY <1>1, <1>2, <1>5, <1>7, <1>8 DEF LoopHolds, ThreadHolds, Live
  <2>2. ASSUME NEW c \in Peers \ {p}
        PROVE  ThreadHolds(c)'
    BY <1>1, <1>2, <1>6, <1>8 DEF LoopHolds, ThreadHolds, Live
  <2>3. QED
    BY <2>1, <2>2
<1>10. ActiveHasPeer'
  BY <1>1, <1>2, <1>5, <1>6, PeersAssumption DEF ActiveHasPeer
<1>11. NumberedOrBegun'
  BY <1>1, <1>2, <1>5, <1>6 DEF NumberedOrBegun
<1>12. QED
  BY <1>0, <1>1, <1>2, <1>3, <1>9, <1>10, <1>11 DEF HandedOver, LoopHolds

\* A failed accept asks for the very slot the loop holds: its number is its index.
LEMMA GiveHands ==
  ASSUME IInv, HandedOver, ~Releasing, Running, acc.at = "accept", ResetByNumber("loop", acc),
         acc' = AtLoop, UNCHANGED <<poolVars, gen, thread>>
  PROVE  HandedOver'
<1>1. /\ alloc = "live" /\ Holding /\ Slots' = Slots
      /\ LoopHolds /\ (\A c \in Peers : ThreadHolds(c)) /\ ActiveHasPeer /\ NumberedOrBegun
  BY DEF Running, HandedOver, Holding, IInv, PoolInv, TypeOK, Slots, poolVars
<1> DEFINE i == acc.slot
<1>2. /\ Valid(acc) /\ i \in Slots /\ active[i] /\ conset[i].instance = i
      /\ \A c \in Peers : Live(c) => thread[c].slot # i
  BY <1>1 DEF LoopHolds
<1>3. acc'.at = "loop" /\ ~Holding'
  BY DEF AtLoop, Holding
<1>4. reset'["loop"] = [at |-> "match", n |-> i, i |-> 0]
  BY <1>2 DEF ResetByNumber, FromFirst, IInv, ServerTypeOK, Callers
<1>5. Releasing' /\ Given' = i
  BY <1>4 DEF Releasing, Given, Returned
<1> HIDE DEF i
<1>6. LoopGives'
  BY <1>1, <1>2, <1>4, <1>5 DEF LoopGives, Live, Slots, poolVars, IInv, PoolInv, TypeOK
<1>7. ActiveHasPeer'
  BY <1>1, <1>5 DEF ActiveHasPeer, Holding, poolVars, i
<1>8. \A c \in Peers : ThreadHolds(c)'
  BY <1>1 DEF ThreadHolds, Live, poolVars
<1>9. NumberedOrBegun'
  BY <1>1 DEF NumberedOrBegun, poolVars
<1>10. QED
  BY <1>1, <1>3, <1>6, <1>7, <1>8, <1>9 DEF HandedOver, LoopHolds, poolVars

\* What the search of the loop passes over is another slot, and what it matches is
\* the slot of the number.
LEMMA MatchHands ==
  ASSUME IInv, HandedOver, ~Holding, Running, Match("loop")
  PROVE  HandedOver'
<1>1. Releasing /\ UNCHANGED <<alloc, conset, active, length, gen, thread, acc>> /\ Slots' = Slots
  BY DEF Match, Releasing, Returned, ResetLeaves, Slots
<1>2. CASE alloc # "live"
  BY <1>1, <1>2 DEF HandedOver
<1>3. CASE alloc = "live"
  <2> DEFINE r == reset["loop"]
  <2>1. LoopGives /\ (\A c \in Peers : ThreadHolds(c)) /\ ActiveHasPeer /\ NumberedOrBegun
    BY <1>3 DEF HandedOver
  <2>2. r.at = "match" /\ r \in ResetType /\ length \in Nat /\ reset \in [Callers -> ResetType]
    BY DEF Match, IInv, PoolInv, TypeOK, ServerTypeOK, ResetType, Callers
  <2>3. /\ Given = r.n /\ r.n \in Slots /\ active[r.n] /\ conset[r.n].instance = r.n /\ r.i <= r.n
        /\ \A c \in Peers : Live(c) => thread[c].slot # r.n
    BY <1>1, <2>1, <2>2 DEF LoopGives, Given
  <2>4. r.i \in Slots /\ r.i < length
    BY <2>2, <2>3 DEF Slots, ResetType
  <2>5. CASE conset[r.i].instance = r.n
    <3>1. reset'["loop"] = [at |-> "erase", n |-> 0, i |-> r.i]
      <4>1. reset' = [reset EXCEPT !["loop"] = [at |-> "erase", n |-> 0, i |-> r.i]]
        BY <2>2, <2>4, <2>5 DEF Match, ResetType
      <4>2. QED
        BY <2>2, <4>1 DEF Callers
    <3>2. r.i = r.n
      BY <2>1, <2>2, <2>3, <2>4, <2>5 DEF NumberedOrBegun, ResetType
    <3>3. Releasing' /\ Given' = r.n /\ reset'["loop"].at = "erase"
      BY <3>1, <3>2 DEF Releasing, Given, Returned
    <3>4. LoopGives'
      BY <1>1, <2>3, <3>3 DEF LoopGives, Live
    <3>5. ActiveHasPeer'
      BY <1>1, <2>1, <2>3, <3>3 DEF ActiveHasPeer
    <3>6. QED
      BY <1>1, <2>1, <3>4, <3>5
      DEF HandedOver, LoopHolds, ThreadHolds, NumberedOrBegun, Holding, Live
  <2>6. CASE conset[r.i].instance # r.n
    <3>1. reset' = [reset EXCEPT !["loop"].i = r.i + 1]
      BY <2>4, <2>6, <2>2 DEF Match, ResetType
    <3>2. reset'["loop"].at = "match" /\ reset'["loop"].n = r.n /\ reset'["loop"].i = r.i + 1
      BY <2>2, <3>1 DEF ResetType, Callers
    <3>3. r.i + 1 <= r.n
      BY <2>2, <2>3, <2>6 DEF ResetType, Slots
    <3>4. Releasing' /\ Given' = r.n
      BY <3>2 DEF Releasing, Given, Returned
    <3>5. LoopGives'
      BY <1>1, <2>3, <3>2, <3>3, <3>4 DEF LoopGives, Live
    <3>6. ActiveHasPeer'
      BY <1>1, <2>1, <2>3, <3>4 DEF ActiveHasPeer
    <3>7. QED
      BY <1>1, <2>1, <3>5, <3>6
      DEF HandedOver, LoopHolds, ThreadHolds, NumberedOrBegun, Holding, Live
  <2>7. QED
    BY <2>5, <2>6
<1>4. QED
  BY <1>2, <1>3

\* The three writes of the reset go to that slot, on which no thread runs.
LEMMA WriteHands ==
  ASSUME IInv, HandedOver, ~Holding, Running, Erase("loop") \/ Number("loop") \/ Free("loop")
  PROVE  HandedOver'
<1>1. Releasing /\ UNCHANGED <<alloc, length, gen, thread, acc>> /\ Slots' = Slots /\ ~Holding'
  BY DEF Erase, Number, Free, Releasing, Returned, ResetLeaves, Slots, Holding
<1>2. CASE alloc # "live"
  BY <1>1, <1>2 DEF HandedOver
<1>3. CASE alloc = "live"
  <2> DEFINE i == reset["loop"].i
  <2>1. LoopGives /\ (\A c \in Peers : ThreadHolds(c)) /\ ActiveHasPeer /\ NumberedOrBegun
    BY <1>3 DEF HandedOver
  <2>2. reset \in [Callers -> ResetType] /\ "loop" \in Callers
    BY DEF IInv, ServerTypeOK, ResetType, Callers
  <2>3. active \in [Slots -> BOOLEAN] /\ conset \in [Slots -> ConnectionState]
    BY <1>3 DEF IInv, PoolInv, TypeOK
  <2>4. /\ Given = i /\ i \in Slots /\ active[i] /\ (reset["loop"].at # "number" => conset[i].instance = i)
        /\ \A c \in Peers : Live(c) => thread[c].slot # i
    BY <1>1, <2>1 DEF LoopGives, Given, Erase, Number, Free
  <2>5. ASSUME \A j \in Slots \ {i} : conset'[j] = conset[j] /\ active'[j] = active[j]
        PROVE  \A c \in Peers : ThreadHolds(c)'
    BY <1>1, <2>1, <2>4, <2>5 DEF ThreadHolds, Live
  <2>6. ASSUME \A j \in Slots \ {i} : conset'[j] = conset[j] /\ active'[j] = active[j],
               ~active'[i] \/ (Releasing' /\ Given' = i)
        PROVE  ActiveHasPeer'
    BY <1>1, <2>1, <2>4, <2>6 DEF ActiveHasPeer
  <2>7. ASSUME \A j \in Slots \ {i} : conset'[j] = conset[j] /\ active'[j] = active[j],
               conset'[i].instance = i \/ (conset'[i].instance = 0 /\ active'[i])
        PROVE  NumberedOrBegun'
    BY <1>1, <2>1, <2>7 DEF NumberedOrBegun
  <2>8. ASSUME NEW at \in {"number", "free"}, ResetGoes("loop", at), active' = active,
               at # "number" => conset'[i].instance = i
        PROVE  LoopGives' /\ Releasing' /\ Given' = i
    <3>1. reset'["loop"].at = at /\ reset'["loop"].i = i
      BY <2>2, <2>8 DEF ResetGoes, ResetType
    <3>2. Releasing' /\ Given' = i
      BY <3>1, <2>8 DEF Releasing, Given, Returned
    <3>3. QED
      BY <1>1, <2>4, <2>8, <3>1, <3>2 DEF LoopGives, Live
  <2> HIDE DEF i
  <2>9. CASE Erase("loop")
    <3>1. conset' = [conset EXCEPT ![i] = Cleared(0)] /\ active' = active /\ ResetGoes("loop", "number")
      BY <2>4, <2>9 DEF Erase, OnMatched, i
    <3>2. /\ conset'[i].instance = 0 /\ active'[i]
          /\ \A j \in Slots \ {i} : conset'[j] = conset[j] /\ active'[j] = active[j]
      BY <2>3, <2>4, <3>1 DEF Cleared
    <3>3. LoopGives' /\ Releasing' /\ Given' = i
      BY <2>8, <3>1
    <3>4. QED
      BY <1>1, <2>5, <2>6, <2>7, <3>2, <3>3 DEF HandedOver, LoopHolds
  <2>10. CASE Number("loop")
    <3>1. conset' = [conset EXCEPT ![i].instance = i] /\ active' = active /\ ResetGoes("loop", "free")
      BY <2>4, <2>10 DEF Number, OnMatched, i
    <3>2. conset[i] \in ConnectionState
      BY <2>3, <2>4
    <3>3. /\ conset'[i].instance = i
          /\ \A j \in Slots \ {i} : conset'[j] = conset[j] /\ active'[j] = active[j]
      BY <2>3, <2>4, <3>1, <3>2 DEF ConnectionState
    <3>4. LoopGives' /\ Releasing' /\ Given' = i
      BY <2>8, <3>1, <3>3
    <3>5. QED
      BY <1>1, <2>5, <2>6, <2>7, <3>3, <3>4 DEF HandedOver, LoopHolds
  <2>11. CASE Free("loop")
    <3>1. active' = [active EXCEPT ![i] = FALSE] /\ conset' = conset /\ ~Releasing'
      BY <2>2, <2>4, <2>11 DEF Free, OnMatched, ResetReturns, NotCalling, Releasing, Returned, i
    <3>2. reset["loop"].at = "free"
      BY <2>11 DEF Free
    <3>3. /\ conset'[i].instance = i /\ ~active'[i]
          /\ \A j \in Slots \ {i} : conset'[j] = conset[j] /\ active'[j] = active[j]
      BY <2>3, <2>4, <3>1, <3>2
    <3>4. QED
      BY <1>1, <2>5, <2>6, <2>7, <3>1, <3>3 DEF HandedOver, LoopHolds, LoopGives
  <2>12. QED
    BY <2>9, <2>10, <2>11
<1>4. QED
  BY <1>2, <1>3

\* The poll finds no slot to reset: every active one has a peer whose socket is
\* neither reset nor closed.
LEMMA PollHands ==
  ASSUME IInv, HandedOver, ~Releasing, NoneGivenBack, Running, PollSlot
  PROVE  HandedOver'
<1>1. /\ alloc = "live" /\ acc.at = "poll" /\ ~Holding /\ ActiveHasPeer
  BY DEF PollSlot, Running, HandedOver, Holding, IInv, PoolInv, TypeOK
<1>2. ASSUME acc.i \in Slots, active[acc.i]
      PROVE  ~SeenDown(acc.i)
  <2>1. conset[acc.i].peer \in Peers
    BY <1>1, <1>2 DEF ActiveHasPeer, IInv, PoolInv, TypeOK, ConnectionState
  <2>2. conset[acc.i].peer # NoPeer
    BY <1>1, <1>2 DEF ActiveHasPeer
  <2>3. QED
    BY <2>1, <2>2 DEF SeenDown, SocketOf, NoneGivenBack
<1>3. acc' = Polled(acc.i)
  BY <1>2 DEF PollSlot
<1>4. acc'.at = "poll" /\ UNCHANGED <<poolVars, gen, thread, reset>>
  BY <1>3 DEF PollSlot, Polled, IInv, ServerTypeOK
<1>5. QED
  BY <1>1, <1>4, LoopHands

\* A thread that goes on without ending only writes its own slot.
LEMMA ThreadHands ==
  ASSUME IInv, HandedOver, NoneGivenBack, NoneGivenBack', Running,
         NEW p \in Peers, ThreadStep(p), ~ResetStep(p)
  PROVE  HandedOver'
<1>1. /\ Live(p) /\ acc.at # "start" /\ alloc = "live"
      /\ LoopHolds /\ LoopGives /\ (\A c \in Peers : ThreadHolds(c)) /\ ActiveHasPeer /\ NumberedOrBegun
  <2>1. Live(p)
    BY ThreadGoes DEF Goes
  <2>2. acc.at # "start"
    BY <2>1 DEF HandedOver, Live
  <2>3. alloc = "live"
    BY <2>2 DEF Running, HandedOver, IInv, PoolInv, TypeOK
  <2>4. QED
    BY <2>1, <2>2, <2>3 DEF HandedOver
<1> DEFINE i == thread[p].slot
<1>2. i \in Slots /\ active[i] /\ conset[i].peer = p /\ conset[i].up
  BY <1>1 DEF ThreadHolds
<1>3. /\ conset \in [Slots -> ConnectionState]
      /\ thread \in [Peers -> [at : {"none", "begin", "exchange", "receive", "exit", "done"},
                               slot : {Null} \cup Nat, gen : Nat]]
      /\ sock \in [Peers -> {"away", "queued", "open", "eof", "reset", "closed"}]
  BY <1>1 DEF IInv, PoolInv, TypeOK, ServerTypeOK
<1>4. p # NoPeer
  BY PeersAssumption
<1>5. thread'[p].at # "done" /\ sock'[p] # "closed" /\ sock[p] # "reset"
  BY DEF NoneGivenBack
<1>6. ~(ThreadNoMemory(p) \/ ThreadExits(p) \/ ThreadStale(p))
  BY <1>3, <1>5 DEF ThreadNoMemory, ThreadExits, ThreadStale, ThreadDone, NoThread
<1>7. sock' # [sock EXCEPT ![p] = "closed"]
  BY <1>3, <1>5
<1>8. ~ExchangeFails(p)
  BY <1>2, <1>4, <1>7 DEF ExchangeFails, CloseSocketOf
<1>9. ~LoopEnds(p)
  BY <1>2, <1>4, <1>5, <1>7 DEF LoopEnds, CloseSocketOf, SocketOf
<1>10. ASSUME NEW s, conset' = [conset EXCEPT ![i] = s], s.peer = p, s.up,
              s.instance = conset[i].instance \/ s.instance = 0,
              NEW to, Step(p, to),
              UNCHANGED <<alloc, active, length, gen, acc, reset>>
       PROVE  HandedOver'
  <2>1. Slots' = Slots /\ (Holding' <=> Holding) /\ (Releasing' <=> Releasing) /\ Given' = Given
    BY <1>10 DEF Slots, Holding, Releasing, Given, Returned
  <2>2. conset'[i] = s /\ \A j \in Slots \ {i} : conset'[j] = conset[j]
    BY <1>2, <1>3, <1>10
  <2>3. /\ thread'[p].slot = i
        /\ \A c \in Peers \ {p} : thread'[c] = thread[c]
    BY <1>3, <1>10 DEF Step
  <2>4. \A c \in Peers : Live(c)' => Live(c)
    BY <1>1, <2>3 DEF Live
  <2>5. LoopHolds'
    <3>1. Holding => acc.slot # i
      BY <1>1 DEF LoopHolds
    <3>2. QED
      BY <1>1, <1>10, <2>1, <2>2, <2>3, <2>4, <3>1 DEF LoopHolds, Valid
  <2>6. \A c \in Peers : ThreadHolds(c)'
    BY <1>1, <1>2, <1>10, <2>1, <2>2, <2>3, <2>4 DEF ThreadHolds
  <2>7. ActiveHasPeer'
    BY <1>1, <1>4, <1>10, <2>1, <2>2 DEF ActiveHasPeer
  <2>8. NumberedOrBegun'
    BY <1>1, <1>2, <1>10, <2>1, <2>2 DEF NumberedOrBegun
  <2>9. LoopGives'
    <3>1. Releasing => Given # i
      BY <1>1 DEF LoopGives
    <3>2. QED
      BY <1>1, <1>10, <2>1, <2>2, <2>3, <2>4, <3>1 DEF LoopGives
  <2>10. QED
    BY <1>1, <1>10, <2>5, <2>6, <2>7, <2>8, <2>9 DEF HandedOver
<1>11. CASE ThreadBegins(p)
  <2>1. Begun(conset[i]).peer = p /\ Begun(conset[i]).up /\ Begun(conset[i]).instance = 0
    BY <1>2, <1>3 DEF Begun, ConnectionState
  <2>2. /\ conset' = [conset EXCEPT ![i] = Begun(conset[i])]
        /\ Step(p, "exchange")
        /\ UNCHANGED <<alloc, active, length, gen, acc, reset>>
    BY <1>11 DEF ThreadBegins, ThreadLeaves
  <2>3. QED
    BY <1>10, <2>1, <2>2
<1>12. CASE Establish(p)
  <2> DEFINE s == [conset[i] EXCEPT !.established = TRUE]
  <2>1. s.peer = p /\ s.up /\ s.instance = conset[i].instance
    BY <1>2, <1>3 DEF ConnectionState
  <2>2. /\ conset' = [conset EXCEPT ![i] = s]
        /\ Step(p, "receive")
        /\ UNCHANGED <<alloc, active, length, gen, acc, reset>>
    BY <1>12 DEF Establish, ThreadLeaves
  <2> HIDE DEF s
  <2>3. QED
    BY <1>10, <2>1, <2>2
<1>13. QED
  BY <1>6, <1>8, <1>9, <1>11, <1>12 DEF ThreadStep

-----------------------------------------------------------------------------
(* The theorem *)

\* Every step of the server preserves the invariant of the hand-over.
LEMMA StepSInv == SInv /\ [ServerNext]_vars => SInv'
<1> SUFFICES ASSUME SInv, [ServerNext]_vars
             PROVE  SInv'
  OBVIOUS
<1>1. IInv' /\ QueueInv'
  BY StepIInv, QueueStep DEF SInv
<1>2. CallersInv'
  <2>1. CASE UNCHANGED vars
    BY <2>1 DEF SInv, CallersInv, Returned, vars, serverVars
  <2>2. CASE ServerNext
    BY <2>2, CallersStep DEF SInv
  <2>3. QED
    BY <2>1, <2>2
<1>3. ASSUME NoneGivenBack'
      PROVE  HandedOver'
  <2>1. IInv /\ QueueInv /\ CallersInv /\ NoneGivenBack /\ HandedOver
    BY <1>3, GivenBackStays DEF SInv
  <2>2. /\ \A c \in Peers : ~ResetStep(c)
        /\ ~ResetStep("quit")
        /\ ~ResetStep("loop") => Returned("loop") \/ ~LoopStep
    <3>1. (\A c \in Peers : Returned(c)) /\ Returned("quit")
      BY <2>1 DEF CallersInv, NoneGivenBack
    <3>2. \A a : ResetStep(a) => ~Returned(a)
      BY DEF ResetStep, Match, Erase, Number, Free, Returned
    <3>3. QED
      BY <3>1, <3>2 DEF LoopStep
  <2>3. Releasing => ~Holding
    BY <2>1 DEF CallersInv, Releasing, Holding
  <2>4. CASE UNCHANGED vars
    BY <2>1, <2>4, SameHands DEF vars, serverVars
  <2>5. CASE Running /\ ResetStep("loop")
    <3>1. ~Holding
      BY <2>3, <2>5 DEF ResetStep, Match, Erase, Number, Free, Releasing, Returned
    <3>2. QED
      BY <2>1, <2>5, <3>1, MatchHands, WriteHands DEF ResetStep
  <2>6. CASE Running /\ LoopStep /\ ~ResetStep("loop")
    <3>1. ~Releasing /\ ~PollReset
      BY <2>1, <2>2, <2>6 DEF Releasing, PollReset, HandedOver
    <3>2. CASE PollDone \/ LoopAgain
      <4>1. /\ ~Holding /\ acc.at # "start" /\ UNCHANGED <<poolVars, gen, thread, reset>>
            /\ acc'.at \in {"loop", "next", "ended"}
        BY <2>1, <3>2 DEF PollDone, LoopAgain, AtLoop, Holding, IInv, ServerTypeOK
      <4>2. QED
        BY <2>1, <3>1, <4>1, LoopHands
    <3>3. QED
      BY <2>1, <2>6, <3>1, <3>2, StartHands, NextHands, TargetHands, PollHands DEF LoopStep
  <2>7. CASE Running /\ (AcceptFails \/ \E c \in Peers : AcceptNoMemory(c))
    <3>1. ~Releasing
      BY <2>3, <2>7 DEF AcceptFails, AcceptNoMemory, Holding
    <3>2. /\ acc.at = "accept" /\ ResetByNumber("loop", acc) /\ acc' = AtLoop
          /\ UNCHANGED <<poolVars, gen, thread>>
      BY <2>7 DEF AcceptFails, AcceptNoMemory
    <3>3. QED
      BY <2>1, <2>7, <3>1, <3>2, GiveHands
  <2>8. CASE QuitStep
    <3>1. quit.at = "idle" /\ quit'.at = "idle"
      BY <1>3, <2>1 DEF NoneGivenBack
    <3>2. FALSE
      BY <2>2, <2>8, <3>1
      DEF QuitStep, QuitBegin, QuitSlot, QuitReset, QuitErase, QuitFree, QuitNumber, QuitDispose, QuitFlag
    <3>3. QED
      BY <3>2
  <2>9. CASE Pause \/ Resume \/ CastBegin \/ CastSlot \/ CastDone
    BY <2>1, <2>9, SameHands DEF Pause, Resume, CastBegin, CastSlot, CastDone
  <2>10. ASSUME NEW c \in Peers, Running, AcceptPeer(c)
         PROVE  HandedOver'
    <3>1. ~Releasing
      BY <2>3, <2>10 DEF AcceptPeer, Holding
    <3>2. QED
      BY <2>1, <2>10, <3>1, AcceptHands
  <2>11. ASSUME NEW c \in Peers, Running, ThreadStep(c)
         PROVE  HandedOver'
    BY <1>3, <2>1, <2>2, <2>11, ThreadHands
  <2>12. ASSUME NEW c \in Peers, PeerConnects(c) \/ PeerCloses(c) \/ PeerResets(c)
         PROVE  HandedOver'
    BY <2>1, <2>12, SameHands DEF PeerConnects, PeerCloses, PeerResets, PeerMoves
  <2>13. QED
    BY <2>4, <2>5, <2>6, <2>7, <2>8, <2>9, <2>10, <2>11, <2>12 DEF ServerNext, CallStep
<1>4. QED
  BY <1>1, <1>2, <1>3 DEF SInv

\* Until the first slot is given back, each running receiver thread has an active
\* slot of its own, for any number of peers and slots, and also when the arrays
\* move as they grow.
THEOREM HandOver == ServerSpec => []ExclusiveUntilGivenBack
<1>1. Init => SInv
  <2> SUFFICES ASSUME Init
               PROVE  SInv
    OBVIOUS
  <2>1. IInv
    BY InitIInv
  <2>2. QueueInv /\ CallersInv /\ HandedOver
    BY DEF Init, PoolInit, QueueInv, CallersInv, Returned, NotCalling, Callers, HandedOver
  <2>3. QED
    BY <2>1, <2>2 DEF SInv
<1>2. SInv => ExclusiveUntilGivenBack
  <2> SUFFICES ASSUME SInv, NoneGivenBack, NEW c \in Peers, Live(c), Valid(thread[c])
               PROVE  /\ active[thread[c].slot]
                      /\ \A d \in Peers \ {c} : Live(d) => thread[d].slot # thread[c].slot
    BY DEF ExclusiveUntilGivenBack, OwnSlot
  <2>1. \A d \in Peers : ThreadHolds(d)
    BY DEF SInv, HandedOver, Valid
  <2>2. QED
    BY <2>1 DEF ThreadHolds
<1>3. QED
  BY <1>1, <1>2, StepSInv, PTL DEF ServerSpec
=============================================================================
