-------------------------- MODULE StreamingProofs ---------------------------
(***************************************************************************)
(* The hashes, MACs and generators for every block size, every length and  *)
(* every way to cut a message or to ask for output.                        *)
(***************************************************************************)
EXTENDS Streaming, SequenceTheorems, TLAPS

-----------------------------------------------------------------------------
(* Division *)

LEMMA DivUnique ==
  ASSUME NEW n \in Nat, NEW d \in Nat \ {0}, NEW q \in Nat, NEW r \in 0..(d - 1), n = d * q + r
  PROVE  n \div d = q /\ n % d = r
<1>1. n \div d = q
  OBVIOUS
<1>2. n % d = r
  OBVIOUS
<1> QED
  BY <1>1, <1>2

LEMMA DivMod ==
  ASSUME NEW n \in Nat, NEW d \in Nat \ {0}
  PROVE  \E q \in Nat, r \in 0..(d - 1) : n = d * q + r /\ n \div d = q /\ n % d = r
<1>1. n \div d \in Nat
  <2>1. n \div d \in Int
    OBVIOUS
  <2>2. n \div d >= 0
    OBVIOUS
  <2> QED
    BY <2>1, <2>2
<1>2. n - d * (n \div d) < d
  OBVIOUS
<1>3. n - d * (n \div d) >= 0
  OBVIOUS
<1>4. PICK q \in Nat : q = n \div d
  BY <1>1
<1>5. d * q \in Int
  OBVIOUS
<1>6. PICK r \in Int : r = n - d * q
  BY <1>5
<1>7. r < d /\ r >= 0
  BY <1>2, <1>3, <1>4, <1>6
<1>8. r \in 0..(d - 1)
  BY <1>7
<1>9. n = d * q + r
  BY <1>5, <1>6
<1> QED
  BY <1>8, <1>9, DivUnique

LEMMA RateNat == /\ Rate \in Nat \ {0} /\ Word \in Nat \ {0} /\ LenField \in Nat \ {0} /\ CodeLen \in Nat \ {0}
                 /\ ReseedAt \in Nat \ {0} /\ MaxBytes \in Nat \ {0} /\ MaxOut \in Nat \ {0} /\ MaxSeeds \in Nat \ {0}
                 /\ Rate % Word = 0 /\ LenField < Rate /\ CodeLen < Rate
  BY StreamingAssumption

-----------------------------------------------------------------------------
(* Blocks *)

Block == [Places -> SUBSET Int]
State == [buf : Block, pos : 0..Rate, lanes : Block, blocks : Seq(Block), count : Nat]

\* The first m blocks of the message.
BlocksOf(k, m) == [j \in 1..m |-> Whole(k, (j - 1) * Rate + 1)]

LEMMA SegmentType ==
  ASSUME NEW at \in Nat, NEW from \in Int, NEW len \in Nat
  PROVE  Segment(at, from, len) \in Block
BY RateNat DEF Segment, Block, Places

LEMMA WholeType ==
  ASSUME NEW k, NEW from \in Int
  PROVE  Whole(k, from) \in Block
<1>1. Segment(0, from, Rate) \in Block
  <2>1. 0 \in Nat /\ Rate \in Nat
    BY RateNat
  <2> QED
    BY <2>1, SegmentType
<1>2. Marker \subseteq Int
  BY DEF Marker
<1> QED
  BY <1>1, <1>2 DEF Whole, Block

LEMMA BlankType == Blank \in Block /\ \A i \in Places : Blank[i] = {}
BY DEF Blank, Block

LEMMA SumType ==
  ASSUME NEW b \in Block, NEW c \in Block
  PROVE  Sum(b, c) \in Block /\ \A i \in Places : Sum(b, c)[i] = SymDiff(b[i], c[i])
<1>1. \A i \in Places : SymDiff(b[i], c[i]) \subseteq Int
  BY DEF Block, SymDiff
<1> QED
  BY <1>1 DEF Sum, Block

LEMMA SumBlank ==
  ASSUME NEW b \in Block
  PROVE  Sum(Blank, b) = b
<1>1. \A i \in Places : SymDiff(Blank[i], b[i]) = b[i]
  BY BlankType DEF SymDiff
<1>2. Sum(Blank, b) \in Block
  BY BlankType, SumType
<1> QED
  BY <1>1, <1>2, BlankType, SumType DEF Block

LEMMA CompressIs ==
  ASSUME NEW h \in State, NEW b \in Block
  PROVE  /\ Compress(h, b) \in State
         /\ Compress(h, b).blocks = Append(h.blocks, Sum(h.lanes, b))
         /\ Compress(h, b).lanes = Blank
         /\ Compress(h, b).buf = h.buf /\ Compress(h, b).pos = h.pos /\ Compress(h, b).count = h.count
<1>1. Sum(h.lanes, b) \in Block
  BY SumType DEF State
<1>2. Xor(h, b) = [h EXCEPT !.lanes = Sum(h.lanes, b)]
  BY DEF Xor
<1>3. Append(h.blocks, Sum(h.lanes, b)) \in Seq(Block)
  BY <1>1, AppendProperties DEF State
<1>4. Compress(h, b) = [[h EXCEPT !.lanes = Sum(h.lanes, b)] EXCEPT
                          !.blocks = Append(h.blocks, Sum(h.lanes, b)), !.lanes = Blank]
  BY <1>2 DEF Compress, Permute, State
<1> QED
  BY <1>1, <1>3, <1>4, BlankType DEF State

LEMMA StoreIs ==
  ASSUME NEW h \in State, NEW at \in Nat, NEW from \in Int, NEW len \in Nat, at + len <= Rate
  PROVE  /\ Store(h, at, from, len) \in State
         /\ Store(h, at, from, len).pos = at + len
         /\ \A i \in Places : Store(h, at, from, len).buf[i] =
              IF i \in at..(at + len - 1) THEN {from + i - at} ELSE h.buf[i]
         /\ Store(h, at, from, len).lanes = h.lanes /\ Store(h, at, from, len).blocks = h.blocks
         /\ Store(h, at, from, len).count = h.count
<1>1. PICK b : b = [i \in Places |-> IF i \in at..(at + len - 1) THEN {from + i - at} ELSE h.buf[i]]
  OBVIOUS
<1>2. b \in Block
  BY <1>1, RateNat DEF Block, State, Places
<1>3. Store(h, at, from, len) = [h EXCEPT !.buf = b, !.pos = at + len]
  BY <1>1 DEF Store, State
<1>4. at + len \in 0..Rate
  BY RateNat
<1>5. [h EXCEPT !.buf = b, !.pos = at + len] \in State
  BY <1>2, <1>4 DEF State
<1>6. /\ [h EXCEPT !.buf = b, !.pos = at + len].pos = at + len
      /\ [h EXCEPT !.buf = b, !.pos = at + len].buf = b
      /\ [h EXCEPT !.buf = b, !.pos = at + len].lanes = h.lanes
      /\ [h EXCEPT !.buf = b, !.pos = at + len].blocks = h.blocks
      /\ [h EXCEPT !.buf = b, !.pos = at + len].count = h.count
  BY DEF State
<1> QED
  BY <1>1, <1>3, <1>5, <1>6

LEMMA StoreCount ==
  ASSUME NEW h \in State, NEW at, NEW from, NEW len
  PROVE  Store(h, at, from, len).count = h.count
BY DEF Store, State

LEMMA CompressWholeIs ==
  ASSUME NEW k, NEW h \in State, NEW from \in Int, NEW n \in Nat, h.lanes = Blank
  PROVE  /\ CompressWhole(k, h, from, n) \in State
         /\ CompressWhole(k, h, from, n).blocks
              = h.blocks \o [j \in 1..n |-> Whole(k, from + (j - 1) * Rate)]
         /\ CompressWhole(k, h, from, n).lanes = Blank /\ CompressWhole(k, h, from, n).buf = h.buf
         /\ CompressWhole(k, h, from, n).pos = h.pos /\ CompressWhole(k, h, from, n).count = h.count
<1> DEFINE B(j) == Whole(k, from + (j - 1) * Rate)
           new == [j \in 1..n |-> B(j)]
<1>1. \A j \in 1..n : B(j) \in Block
  BY WholeType, RateNat
<1>2. new \in Seq(Block)
  BY <1>1
<1>3. [j \in 1..n |-> IF j = 1 THEN Sum(h.lanes, B(1)) ELSE B(j)] = new
  BY <1>1, SumBlank
<1>4. CASE n = 0
  <2>1. CompressWhole(k, h, from, n) = h
    BY <1>4 DEF CompressWhole
  <2>2. new = <<>>
    BY <1>4
  <2>3. h.blocks \o <<>> = h.blocks
    BY ConcatEmptySeq DEF State
  <2> QED
    BY <2>1, <2>2, <2>3
<1>5. CASE n # 0
  <2>1. CompressWhole(k, h, from, n) = [h EXCEPT !.blocks = h.blocks \o new, !.lanes = Blank]
    BY <1>3, <1>5 DEF CompressWhole
  <2>2. h.blocks \o new \in Seq(Block)
    BY <1>2 DEF State
  <2> HIDE DEF new
  <2>3. QED
    BY <2>1, <2>2, BlankType DEF State, new
<1> QED
  BY <1>4, <1>5

LEMMA CompressWholeKeeps ==
  ASSUME NEW k, NEW h \in State, NEW from \in Int, NEW n \in Nat, h.lanes = Blank
  PROVE  /\ CompressWhole(k, h, from, n) \in State
         /\ CompressWhole(k, h, from, n).lanes = Blank /\ CompressWhole(k, h, from, n).buf = h.buf
         /\ CompressWhole(k, h, from, n).pos = h.pos /\ CompressWhole(k, h, from, n).count = h.count
BY CompressWholeIs, Zenon

LEMMA CompressWholeCount ==
  ASSUME NEW k, NEW h \in State, NEW from, NEW n
  PROVE  CompressWhole(k, h, from, n).count = h.count
<1>1. CASE n = 0
  BY <1>1 DEF CompressWhole
<1>2. CASE n # 0
  BY <1>2 DEF CompressWhole, State
<1> QED
  BY <1>1, <1>2

LEMMA BlocksOfType ==
  ASSUME NEW k, NEW m \in Nat
  PROVE  /\ BlocksOf(k, m) \in Seq(Block) /\ Len(BlocksOf(k, m)) = m
         /\ \A j \in 1..m : BlocksOf(k, m)[j] = Whole(k, (j - 1) * Rate + 1)
<1>1. \A j \in 1..m : Whole(k, (j - 1) * Rate + 1) \in Block
  BY WholeType, RateNat
<1>2. BlocksOf(k, m) \in [1..m -> Block]
  BY <1>1 DEF BlocksOf
<1> QED
  BY <1>2 DEF BlocksOf

LEMMA BlocksOfConcat ==
  ASSUME NEW k, NEW m \in Nat, NEW n \in Nat
  PROVE  BlocksOf(k, m) \o [j \in 1..n |-> Whole(k, m * Rate + 1 + (j - 1) * Rate)] = BlocksOf(k, m + n)
<1> DEFINE new == [j \in 1..n |-> Whole(k, m * Rate + 1 + (j - 1) * Rate)]
           all == BlocksOf(k, m) \o new
<1>1. m * Rate \in Int /\ \A j \in 1..n : (j - 1) * Rate \in Int
  BY RateNat
<1>2. \A j \in 1..n : Whole(k, m * Rate + 1 + (j - 1) * Rate) \in Block
  BY <1>1, WholeType
<1>3. new \in Seq(Block) /\ Len(new) = n
  BY <1>2
<1>4. BlocksOf(k, m) \in Seq(Block) /\ Len(BlocksOf(k, m)) = m
  BY BlocksOfType
<1>5. BlocksOf(k, m + n) \in Seq(Block) /\ Len(BlocksOf(k, m + n)) = m + n
  BY BlocksOfType
<1>6. /\ all \in Seq(Block) /\ Len(all) = m + n
      /\ \A j \in 1..(m + n) : all[j] = IF j <= m THEN BlocksOf(k, m)[j] ELSE new[j - m]
  BY <1>3, <1>4, ConcatProperties
<1> HIDE DEF all, new
<1>7. ASSUME NEW j \in 1..(m + n) PROVE all[j] = BlocksOf(k, m + n)[j]
  <2>1. BlocksOf(k, m + n)[j] = Whole(k, (j - 1) * Rate + 1)
    BY BlocksOfType
  <2>2. CASE j <= m
    <3>1. BlocksOf(k, m)[j] = Whole(k, (j - 1) * Rate + 1)
      BY <2>2, BlocksOfType
    <3> QED
      BY <1>6, <2>1, <2>2, <3>1
  <2>3. CASE j > m
    <3>1. j - m \in 1..n
      BY <2>3
    <3>2. new[j - m] = Whole(k, m * Rate + 1 + ((j - m) - 1) * Rate)
      BY <3>1 DEF new
    <3>3. m * Rate + 1 + ((j - m) - 1) * Rate = (j - 1) * Rate + 1
      BY RateNat
    <3>4. all[j] = new[j - m]
      BY <1>6, <2>3
    <3> QED
      BY <2>1, <3>2, <3>3, <3>4
  <2> QED
    BY <2>2, <2>3
<1>8. all = BlocksOf(k, m + n)
  BY <1>5, <1>6, <1>7, SeqEqual
<1> QED
  BY <1>8 DEF all, new

LEMMA BlocksOfAppend ==
  ASSUME NEW k, NEW m \in Nat
  PROVE  Append(BlocksOf(k, m), Whole(k, m * Rate + 1)) = BlocksOf(k, m + 1)
<1> DEFINE b == Whole(k, m * Rate + 1)
<1>1. b \in Block
  BY WholeType, RateNat
<1>2. BlocksOf(k, m) \in Seq(Block)
  BY BlocksOfType
<1>3. Append(BlocksOf(k, m), b) = BlocksOf(k, m) \o <<b>>
  BY <1>1, <1>2, AppendIsConcat
<1>4. [j \in 1..1 |-> Whole(k, m * Rate + 1 + (j - 1) * Rate)] = <<b>>
  <2>1. \A j \in 1..1 : m * Rate + 1 + (j - 1) * Rate = m * Rate + 1
    BY RateNat
  <2> QED
    BY <2>1
<1> QED
  BY <1>3, <1>4, BlocksOfConcat

-----------------------------------------------------------------------------
(* What a state holds when it has been given m blocks and p bytes more:     *)
(* the blocks have been compressed, and the bytes are in the buffer or, of  *)
(* the incremental functions, in the lanes.                                 *)

Holds(k, h, m, p) ==
  /\ h \in State /\ h.pos = p /\ h.blocks = BlocksOf(k, m)
  /\ h.lanes = IF k = "incremental" THEN Segment(0, m * Rate + 1, p) ELSE Blank
  /\ k # "incremental" => Kept(h) = Segment(0, m * Rate + 1, p)

LEMMA EmptySegment ==
  ASSUME NEW at \in Nat, NEW from \in Int
  PROVE  Segment(at, from, 0) = Blank
BY DEF Segment, Blank

LEMMA StartHolds ==
  ASSUME NEW k
  PROVE  Holds(k, Start, 0, 0)
<1>1. Start \in State
  BY BlankType, RateNat DEF Start, State
<1>2. 0 * Rate + 1 = 1
  BY RateNat
<1>3. Segment(0, 1, 0) = Blank
  BY EmptySegment
<1>4. BlocksOf(k, 0) = <<>>
  BY DEF BlocksOf
<1>5. Kept(Start) = Blank
  BY RateNat DEF Kept, Start, Blank, Places
<1> QED
  BY <1>1, <1>2, <1>3, <1>4, <1>5 DEF Holds, Start

\* Bytes that follow, while they fit.
LEMMA StoreHolds ==
  ASSUME NEW k, k # "incremental", NEW h, NEW m \in Nat, NEW p \in 0..Rate, NEW len \in Nat,
         NEW from \in Int, from = m * Rate + 1 + p, Holds(k, h, m, p), p + len <= Rate
  PROVE  Holds(k, Store(h, p, from, len), m, p + len)
<1>0. PICK s \in Int : s = m * Rate + 1
  BY RateNat
<1>1. h \in State /\ h.pos = p /\ Kept(h) = Segment(0, s, p) /\ h.blocks = BlocksOf(k, m) /\ h.lanes = Blank
  BY <1>0 DEF Holds
<1>2. from = s + p /\ p \in Nat
  BY <1>0
<1>3. PICK g : g = Store(h, p, from, len)
  OBVIOUS
<1>4. /\ g \in State /\ g.pos = p + len /\ g.lanes = h.lanes /\ g.blocks = h.blocks /\ g.count = h.count
      /\ \A i \in Places : g.buf[i] = IF i \in p..(p + len - 1) THEN {from + i - p} ELSE h.buf[i]
  <2>1. h \in State /\ p \in Nat /\ from \in Int /\ len \in Nat /\ p + len <= Rate
    BY <1>1, <1>2
  <2>2. /\ Store(h, p, from, len) \in State
        /\ Store(h, p, from, len).pos = p + len
        /\ Store(h, p, from, len).lanes = h.lanes /\ Store(h, p, from, len).blocks = h.blocks
        /\ Store(h, p, from, len).count = h.count
    BY <2>1, StoreIs
  <2>3. \A i \in Places : Store(h, p, from, len).buf[i] = IF i \in p..(p + len - 1) THEN {from + i - p} ELSE h.buf[i]
    BY <2>1, StoreIs
  <2> QED
    BY <1>3, <2>2, <2>3, Zenon
<1>5. \A i \in Places : i < p => h.buf[i] = {s + i}
  <2>1. \A i \in Places : i < p => Kept(h)[i] = h.buf[i]
    BY <1>1 DEF Kept
  <2>2. \A i \in Places : i < p => Segment(0, s, p)[i] = {s + i}
    BY <1>2, RateNat DEF Segment, Places
  <2> QED
    BY <1>1, <2>1, <2>2
<1>6. ASSUME NEW i \in Places
      PROVE  (IF i < p + len THEN g.buf[i] ELSE {})
               = IF i \in 0..(0 + (p + len) - 1) THEN {s + i - 0} ELSE {}
  <2>1. i \in Nat
    BY RateNat DEF Places
  <2>2. CASE i < p
    <3>1. i \notin p..(p + len - 1) /\ i < p + len /\ i \in 0..(0 + (p + len) - 1)
      BY <1>2, <2>1, <2>2
    <3>2. g.buf[i] = {s + i} /\ s + i - 0 = s + i
      <4>1. g.buf[i] = h.buf[i]
        BY <1>4, <3>1
      <4> QED
        BY <1>5, <2>1, <2>2, <4>1
    <3> QED
      BY <3>1, <3>2
  <2>3. CASE i >= p /\ i < p + len
    <3>1. from + i - p = s + i - 0
      BY <1>2, <2>1
    <3>2. i \in p..(p + len - 1) /\ i < p + len /\ i \in 0..(0 + (p + len) - 1)
      BY <1>2, <2>1, <2>3
    <3>3. g.buf[i] = {s + i - 0}
      BY <1>4, <3>1, <3>2
    <3> QED
      BY <3>2, <3>3
  <2>4. CASE i >= p + len
    BY <1>2, <2>1, <2>4
  <2> QED
    BY <1>2, <2>1, <2>2, <2>3, <2>4
<1>7. Kept(g) = Segment(0, s, p + len)
  BY <1>4, <1>6 DEF Kept, Segment
<1> QED
  BY <1>0, <1>1, <1>3, <1>4, <1>7 DEF Holds

\* Whole blocks from the message.
LEMMA WholesHold ==
  ASSUME NEW k, NEW h, NEW m \in Nat, NEW n \in Nat, NEW from \in Int, from = m * Rate + 1, Holds(k, h, m, 0)
  PROVE  /\ Holds(k, CompressWhole(k, h, from, n), m + n, 0)
         /\ CompressWhole(k, h, from, n).count = h.count
<1>1. (m + n) * Rate + 1 \in Int /\ m + n \in Nat
  BY RateNat
<1>2. h \in State /\ h.lanes = Blank /\ h.pos = 0 /\ h.blocks = BlocksOf(k, m)
  BY EmptySegment DEF Holds
<1>3. PICK g : g = CompressWhole(k, h, from, n)
  OBVIOUS
<1>4. /\ g \in State /\ g.lanes = Blank /\ g.pos = 0 /\ g.count = h.count
      /\ g.blocks = h.blocks \o [j \in 1..n |-> Whole(k, from + (j - 1) * Rate)]
  <2>1. /\ CompressWhole(k, h, from, n) \in State
        /\ CompressWhole(k, h, from, n).lanes = Blank
        /\ CompressWhole(k, h, from, n).pos = h.pos /\ CompressWhole(k, h, from, n).count = h.count
    BY <1>2, CompressWholeKeeps
  <2>2. CompressWhole(k, h, from, n).blocks = h.blocks \o [j \in 1..n |-> Whole(k, from + (j - 1) * Rate)]
    BY <1>2, CompressWholeIs
  <2> QED
    BY <1>2, <1>3, <2>1, <2>2, Zenon
<1>5. g.blocks = BlocksOf(k, m + n)
  BY <1>2, <1>4, BlocksOfConcat
<1>6. Segment(0, (m + n) * Rate + 1, 0) = Blank
  BY <1>1, EmptySegment
<1>7. Kept(g) = Blank
  BY <1>4, RateNat DEF Kept, Blank, Places
<1> QED
  BY <1>3, <1>4, <1>5, <1>6, <1>7 DEF Holds

\* A full buffer is the next block.
LEMMA HeldIsWhole ==
  ASSUME NEW k, k # "incremental", NEW h, NEW m \in Nat, Holds(k, h, m, Rate)
  PROVE  Held(k, h) = Whole(k, m * Rate + 1)
<1> DEFINE top == IF k = "poly1305" THEN Marker ELSE {}
<1>1. h.buf \in Block /\ Kept(h) = Segment(0, m * Rate + 1, Rate) /\ h.pos = Rate /\ m * Rate + 1 \in Int
  BY RateNat DEF Holds, State
<1>2. Segment(0, m * Rate + 1, Rate) \in Block
  <2>1. 0 \in Nat /\ Rate \in Nat
    BY RateNat
  <2> QED
    BY <1>1, <2>1, SegmentType
<1>3. \A i \in Places : i # Rate => h.buf[i] = Segment(0, m * Rate + 1, Rate)[i]
  <2>1. \A i \in Places : i # Rate => Kept(h)[i] = h.buf[i]
    BY <1>1, RateNat DEF Kept, Places
  <2> QED
    BY <1>1, <2>1
<1>4. Held(k, h) = [h.buf EXCEPT ![Rate] = top]
  BY DEF Held
<1>5. Whole(k, m * Rate + 1) = [Segment(0, m * Rate + 1, Rate) EXCEPT ![Rate] = top]
  BY DEF Whole
<1> HIDE DEF top
<1> QED
  BY <1>1, <1>2, <1>3, <1>4, <1>5 DEF Block

\* A block more, when what is left over does not matter any more.
LEMMA BlockHolds ==
  ASSUME NEW k, NEW h \in State, NEW g \in State, NEW m \in Nat, NEW b,
         NEW c \in Block,
         h.blocks = BlocksOf(k, m), b = Whole(k, m * Rate + 1), Sum(h.lanes, c) = b,
         g.blocks = Compress(h, c).blocks, g.lanes = Compress(h, c).lanes, g.pos = 0
  PROVE  Holds(k, g, m + 1, 0)
<1>1. (m + 1) * Rate + 1 \in Int /\ m + 1 \in Nat
  BY RateNat
<1>2. Compress(h, c).blocks = Append(BlocksOf(k, m), Whole(k, m * Rate + 1)) /\ Compress(h, c).lanes = Blank
  BY CompressIs
<1>5. g.blocks = BlocksOf(k, m + 1) /\ g.lanes = Blank
  BY <1>2, BlocksOfAppend
<1>3. Segment(0, (m + 1) * Rate + 1, 0) = Blank
  BY <1>1, EmptySegment
<1>4. Kept(g) = Blank
  BY RateNat DEF Kept, Blank, Places
<1> QED
  BY <1>3, <1>4, <1>5 DEF Holds

\* The count is of no concern to what is held.
LEMMA CountHolds ==
  ASSUME NEW k, NEW h, NEW m \in Nat, NEW p \in 0..Rate, NEW c \in Nat, Holds(k, h, m, p)
  PROVE  /\ Holds(k, [h EXCEPT !.count = c], m, p)
         /\ [h EXCEPT !.count = c].count = c /\ [h EXCEPT !.count = c].pos = p
<1>1. h \in State /\ h.pos = p
  BY DEF Holds
<1>2. PICK g : g = [h EXCEPT !.count = c]
  OBVIOUS
<1>3. /\ g \in State /\ g.buf = h.buf /\ g.pos = p /\ g.lanes = h.lanes /\ g.blocks = h.blocks
      /\ g.count = c
  BY <1>1, <1>2 DEF State
<1>4. Kept(g) = Kept(h)
  BY <1>1, <1>3 DEF Kept
<1> QED
  BY <1>2, <1>3, <1>4 DEF Holds

\* Whole blocks come when nothing is begun.
LEMMA WholesOrNone ==
  ASSUME NEW k, NEW h, NEW m \in Nat, NEW p \in 0..Rate, NEW n \in Nat, NEW from \in Int,
         Holds(k, h, m, p), n = 0 \/ (p = 0 /\ from = m * Rate + 1)
  PROVE  /\ Holds(k, CompressWhole(k, h, from, n), m + n, p)
         /\ CompressWhole(k, h, from, n).count = h.count
<1>1. CASE n = 0
  <2>1. CompressWhole(k, h, from, n) = h /\ m + n = m
    BY <1>1 DEF CompressWhole
  <2> QED
    BY <2>1
<1>2. CASE p = 0 /\ from = m * Rate + 1
  BY <1>2, WholesHold
<1> QED
  BY <1>1, <1>2

\* What is left of a piece is kept.
LEMMA RestHolds ==
  ASSUME NEW k, k # "incremental", NEW h, NEW m \in Nat, NEW p \in 0..Rate, NEW len \in Nat,
         NEW from \in Int, from = m * Rate + 1 + p, Holds(k, h, m, p), p + len <= Rate
  PROVE  /\ Holds(k, IF len = 0 THEN h ELSE Store(h, h.pos, from, len), m, p + len)
         /\ (IF len = 0 THEN h ELSE Store(h, h.pos, from, len)).count = h.count
<1>1. h.pos = p
  BY DEF Holds
<1>2. CASE len = 0
  BY <1>2
<1>3. CASE len # 0
  <2>1. (IF len = 0 THEN h ELSE Store(h, h.pos, from, len)) = Store(h, p, from, len)
    BY <1>1, <1>3
  <2>2. Holds(k, Store(h, p, from, len), m, p + len)
    BY StoreHolds
  <2>3. Store(h, p, from, len).count = h.count
    <3>1. h \in State
      BY DEF Holds
    <3> QED
      BY <3>1, StoreCount
  <2> QED
    BY <2>1, <2>2, <2>3
<1> QED
  BY <1>2, <1>3

LEMMA NextBlock ==
  ASSUME NEW m \in Nat
  PROVE  m * Rate \in Nat /\ (m + 1) * Rate = m * Rate + Rate
<1>1. PICK d \in Nat : d = Rate
  BY RateNat
<1>2. m * d \in Nat /\ (m + 1) * d = m * d + d
  OBVIOUS
<1> QED
  BY <1>1, <1>2

LEMMA LaterBlock ==
  ASSUME NEW m \in Nat, NEW n \in Nat
  PROVE  n * Rate \in Nat /\ (m + n) * Rate = m * Rate + n * Rate
<1>1. PICK d \in Nat : d = Rate
  BY RateNat
<1>2. n * d \in Nat /\ (m + n) * d = m * d + n * d
  OBVIOUS
<1> QED
  BY <1>1, <1>2

LEMMA CutIn ==
  ASSUME NEW len \in Nat
  PROVE  \E n \in Nat, r \in 0..(Rate - 1) :
           len = n * Rate + r /\ len \div Rate = n /\ len % Rate = r
<1>1. PICK d \in Nat \ {0} : d = Rate
  BY RateNat
<1>2. PICK n \in Nat, r \in 0..(d - 1) : len = d * n + r /\ len \div d = n /\ len % d = r
  BY DivMod
<1>3. len = n * d + r
  BY <1>2
<1> QED
  BY <1>1, <1>2, <1>3

\* The buffer has been filled up and is compressed.
LEMMA FullHolds ==
  ASSUME NEW k, k # "incremental", NEW e \in State, NEW f, NEW m \in Nat, NEW buf \in Block,
         e.blocks = BlocksOf(k, m), e.lanes = Blank, Holds(k, f, m, Rate)
  PROVE  /\ Holds(k, [Compress(e, Held(k, f)) EXCEPT !.buf = buf, !.pos = 0], m + 1, 0)
         /\ [Compress(e, Held(k, f)) EXCEPT !.buf = buf, !.pos = 0].count = e.count
<1>1. PICK c : c = Held(k, f)
  OBVIOUS
<1>2. c = Whole(k, m * Rate + 1)
  BY <1>1, HeldIsWhole
<1>3. c \in Block
  BY <1>2, NextBlock, WholeType
<1>4. Sum(e.lanes, c) = c
  BY <1>3, SumBlank
<1>5. PICK d : d = Compress(e, c)
  OBVIOUS
<1>6. d \in State /\ d.count = e.count
  BY <1>3, <1>5, CompressIs
<1>7. PICK g : g = [d EXCEPT !.buf = buf, !.pos = 0]
  OBVIOUS
<1>8. g \in State /\ g.blocks = d.blocks /\ g.lanes = d.lanes /\ g.pos = 0 /\ g.count = d.count
  <2>1. 0 \in 0..Rate
    BY RateNat
  <2>2. g \in State
    BY <1>6, <1>7, <2>1 DEF State
  <2> QED
    BY <1>6, <1>7, <2>2 DEF State
<1>9. Holds(k, g, m + 1, 0)
  BY <1>2, <1>3, <1>4, <1>5, <1>8, BlockHolds
<1> QED
  BY <1>1, <1>5, <1>6, <1>7, <1>8, <1>9

\* SHA-2, SHA-3, KMAC and KPA: a piece of the message is held after what was
\* held before, and the whole blocks have been counted.
LEMMA BlockUpdateHolds ==
  ASSUME NEW k, k # "incremental", NEW h, NEW m \in Nat, NEW p \in 0..(Rate - 1),
         NEW from \in Nat, NEW len \in Nat, Holds(k, h, m, p), h.count = m * Rate,
         from = m * Rate + 1 + p
  PROVE  \E q \in Nat, r \in 0..(Rate - 1) :
           /\ m * Rate + p + len = q * Rate + r
           /\ Holds(k, BlockUpdate(k, h, from, len), q, r)
           /\ BlockUpdate(k, h, from, len).count = q * Rate
<1> DEFINE fills == h.pos # 0 /\ h.pos + len >= Rate
           used  == IF fills THEN Rate - h.pos ELSE 0
           full  == Store(h, h.pos, from, used)
           first == IF fills
                    THEN [Compress(h, Held(k, full)) EXCEPT !.buf = full.buf, !.pos = 0]
                    ELSE h
           n     == (len - used) \div Rate
           rest  == (len - used) % Rate
           done  == [CompressWhole(k, first, from + used, n)
                       EXCEPT !.count = @ + Rate * (n + (IF fills THEN 1 ELSE 0))]
           last  == IF rest = 0 THEN done ELSE Store(done, done.pos, from + used + n * Rate, rest)
<1>1. BlockUpdate(k, h, from, len) = last
  BY DEF BlockUpdate
<1>2. h \in State /\ h.pos = p /\ h.lanes = Blank /\ h.blocks = BlocksOf(k, m) /\ p \in 0..Rate
  BY RateNat DEF Holds
<1>3. m * Rate \in Nat /\ (m + 1) * Rate = m * Rate + Rate /\ Rate \in Nat \ {0}
  BY NextBlock, RateNat
<1>4. used \in Nat /\ len - used \in Nat
  BY <1>2, <1>3
<1>5. PICK N \in Nat, R \in 0..(Rate - 1) : len - used = N * Rate + R /\ n = N /\ rest = R
  BY <1>4, CutIn
<1>6. \E M \in Nat, P \in 0..(Rate - 1) :
        /\ Holds(k, first, M, P) /\ first.count = m * Rate
        /\ M * Rate + P = m * Rate + p + used
        /\ N = 0 \/ P = 0
        /\ P + R < Rate
        /\ M = m + (IF fills THEN 1 ELSE 0)
  <2>1. CASE fills
    <3>1. PICK f : f = full
      OBVIOUS
    <3>2. p + used = Rate /\ used \in Nat /\ h.pos = p
      <4>1. used = Rate - h.pos
        BY <2>1
      <4> HIDE DEF used
      <4> QED
        BY <1>2, RateNat, <4>1
    <3>3. Holds(k, f, m, p + used)
      <4>1. PICK u \in Nat : u = used
        BY <3>2
      <4> HIDE DEF used
      <4>2. f = Store(h, p, from, u)
        BY <3>1, <3>2, <4>1
      <4>3. p \in 0..Rate /\ from \in Int /\ p + u <= Rate
        BY <1>2, <3>2, <4>1, RateNat
      <4>4. Holds(k, Store(h, p, from, u), m, p + u)
        BY <4>3, StoreHolds
      <4> QED
        BY <4>1, <4>2, <4>4
    <3>4. Holds(k, f, m, Rate)
      BY <3>2, <3>3
    <3>5. f.buf \in Block
      BY <3>4 DEF Holds, State
    <3>6. first = [Compress(h, Held(k, f)) EXCEPT !.buf = f.buf, !.pos = 0]
      BY <2>1, <3>1
    <3> HIDE DEF first, full
    <3>7. Holds(k, first, m + 1, 0) /\ first.count = h.count
      <4>1. PICK buf \in Block : buf = f.buf
        BY <3>5
      <4>2. Holds(k, [Compress(h, Held(k, f)) EXCEPT !.buf = buf, !.pos = 0], m + 1, 0)
        BY <1>2, <3>4, FullHolds
      <4>3. [Compress(h, Held(k, f)) EXCEPT !.buf = buf, !.pos = 0].count = h.count
        <5>1. Held(k, f) \in Block
          BY <3>4, HeldIsWhole, NextBlock, WholeType
        <5>2. Compress(h, Held(k, f)) \in State /\ Compress(h, Held(k, f)).count = h.count
          BY <1>2, <5>1, CompressIs
        <5> QED
          BY <5>2 DEF State
      <4> QED
        BY <3>6, <4>1, <4>2, <4>3, Zenon
    <3> HIDE DEF first, used, fills
    <3>8. (m + 1) * Rate + 0 = m * Rate + p + used
      BY <1>2, <1>3, <3>2
    <3> QED
      BY <1>3, <2>1, <3>7, <3>8
  <2>2. CASE ~fills
    <3>1. first = h /\ used = 0
      BY <2>2
    <3>2. len = N * Rate + R
      BY <1>5, <3>1
    <3>3. CASE p = 0
      BY <1>2, <1>3, <2>2, <3>1, <3>3
    <3>4. CASE p # 0
      <4>1. p + len < Rate
        BY <1>2, <1>3, <2>2, <3>4
      <4>2. N = 0
        <5>1. SUFFICES ASSUME N # 0 PROVE FALSE
          OBVIOUS
        <5>2. N * Rate >= Rate
          BY <1>3, <5>1
        <5> QED
          BY <1>3, <3>2, <4>1, <5>2
      <4>3. N * Rate = 0
        BY <1>3, <4>2
      <4>4. R = len
        BY <1>3, <3>2, <4>3
      <4> QED
        BY <1>2, <1>3, <2>2, <3>1, <4>1, <4>2, <4>4
    <3> QED
      BY <3>3, <3>4
  <2> QED
    BY <2>1, <2>2
<1>7. PICK M \in Nat, P \in 0..(Rate - 1) :
        /\ Holds(k, first, M, P) /\ first.count = m * Rate
        /\ M * Rate + P = m * Rate + p + used
        /\ N = 0 \/ P = 0
        /\ P + R < Rate
        /\ M = m + (IF fills THEN 1 ELSE 0)
  BY <1>6
<1> HIDE DEF first, used, fills, n, rest
<1>8. PICK g : g = CompressWhole(k, first, from + used, n)
  OBVIOUS
<1>9. /\ N * Rate \in Nat /\ (M + N) * Rate = M * Rate + N * Rate /\ M * Rate \in Nat
      /\ m * Rate + Rate * (N + (IF fills THEN 1 ELSE 0)) = (M + N) * Rate
  <2>1. N * Rate \in Nat /\ (M + N) * Rate = M * Rate + N * Rate /\ M * Rate \in Nat
    BY LaterBlock
  <2>2. PICK d \in Nat : d = Rate
    BY RateNat
  <2>3. PICK x \in Nat : x = IF fills THEN 1 ELSE 0
    OBVIOUS
  <2>4. m * d + d * (N + x) = (m + x + N) * d
    OBVIOUS
  <2>5. M = m + x
    BY <1>7, <2>3
  <2>6. m * Rate + Rate * (N + x) = (M + N) * Rate
    BY <2>2, <2>4, <2>5
  <2>7. m * Rate + Rate * (N + (IF fills THEN 1 ELSE 0)) = (M + N) * Rate
    BY <2>3, <2>6
  <2> QED
    BY <2>1, <2>7
<1>10. from + used = M * Rate + 1 + P
  BY <1>3, <1>4, <1>7, <1>9
<1>11. Holds(k, g, M + N, P) /\ g.count = m * Rate
  <2>1. P \in 0..Rate /\ from + used \in Int
    BY <1>3, <1>4
  <2>2. N = 0 \/ (P = 0 /\ from + used = M * Rate + 1)
    BY <1>7, <1>9, <1>10
  <2>3. g = CompressWhole(k, first, from + used, N)
    BY <1>5, <1>8
  <2>4. PICK f \in Int : f = from + used
    BY <2>1
  <2>5. Holds(k, CompressWhole(k, first, f, N), M + N, P)
    BY <1>7, <2>1, <2>2, <2>4, WholesOrNone
  <2>6. CompressWhole(k, first, f, N).count = first.count
    BY <1>7, CompressWholeCount DEF Holds
  <2> QED
    BY <1>7, <2>3, <2>4, <2>5, <2>6
<1>12. PICK e : e = [g EXCEPT !.count = (M + N) * Rate]
  OBVIOUS
<1>13. Holds(k, e, M + N, P) /\ e.count = (M + N) * Rate
  <2>1. P \in 0..Rate /\ (M + N) * Rate \in Nat /\ M + N \in Nat
    BY <1>3, <1>9
  <2> QED
    BY <1>11, <1>12, <2>1, CountHolds
<1>14. done = e
  <2>1. g \in State
    BY <1>11 DEF Holds
  <2>2. done = [g EXCEPT !.count = g.count + Rate * (N + (IF fills THEN 1 ELSE 0))]
    BY <1>5, <1>8, <2>1 DEF State
  <2> QED
    BY <1>9, <1>11, <1>12, <2>2
<1> HIDE DEF done
<1>15. last = IF R = 0 THEN e ELSE Store(e, e.pos, from + used + N * Rate, R)
  BY <1>5, <1>14
<1>16. from + used + N * Rate = (M + N) * Rate + 1 + P /\ from + used + N * Rate \in Int
  BY <1>9, <1>10
<1>17. Holds(k, last, M + N, P + R) /\ last.count = (M + N) * Rate
  <2>1. P \in 0..Rate /\ M + N \in Nat /\ R \in Nat /\ P + R <= Rate
    BY <1>3, <1>7
  <2>2. PICK t \in Int : t = from + used + N * Rate
    BY <1>16
  <2>3. t = (M + N) * Rate + 1 + P
    BY <1>16, <2>2
  <2>4. PICK x : x = IF R = 0 THEN e ELSE Store(e, e.pos, t, R)
    OBVIOUS
  <2>5. Holds(k, x, M + N, P + R)
    BY <1>13, <2>1, <2>3, <2>4, RestHolds
  <2>6. x.count = e.count
    BY <1>13, <2>1, <2>3, <2>4, RestHolds
  <2> QED
    BY <1>13, <1>15, <2>2, <2>4, <2>5, <2>6
<1>18. m * Rate + p + len = (M + N) * Rate + (P + R) /\ P + R \in 0..(Rate - 1) /\ M + N \in Nat
  BY <1>3, <1>4, <1>5, <1>7, <1>9
<1> QED
  BY <1>1, <1>17, <1>18

\* Less than a block has no whole block in it.
LEMMA NoWhole ==
  ASSUME NEW len \in Nat, NEW n \in Nat, NEW r \in 0..(Rate - 1), len = n * Rate + r, len < Rate
  PROVE  n = 0 /\ r = len
<1>1. n = 0
  <2>1. SUFFICES ASSUME n # 0 PROVE FALSE
    OBVIOUS
  <2>2. PICK d \in Nat \ {0} : d = Rate
    BY RateNat
  <2>3. n * d >= d
    BY <2>1
  <2> QED
    BY <2>2, <2>3
<1>2. n * Rate = 0
  BY <1>1, RateNat
<1> QED
  BY <1>1, <1>2

\* Whole blocks from the message, and what is left is kept.
LEMMA WholesAndRest ==
  ASSUME NEW k, k # "incremental", NEW h, NEW m \in Nat, NEW p \in 0..(Rate - 1), NEW n \in Nat,
         NEW r \in 0..(Rate - 1), NEW from \in Nat, from = m * Rate + 1 + p, NEW at, at = from + n * Rate,
         Holds(k, h, m, p), n = 0 \/ p = 0, p + r < Rate, NEW done, done = CompressWhole(k, h, from, n)
  PROVE  Holds(k, IF r = 0 THEN done ELSE Store(done, done.pos, at, r), m + n, p + r)
<1>1. n * Rate \in Nat /\ (m + n) * Rate = m * Rate + n * Rate /\ m * Rate \in Nat /\ Rate \in Nat \ {0}
  BY LaterBlock, NextBlock, RateNat
<1>2. p \in 0..Rate /\ from \in Int /\ (n = 0 \/ (p = 0 /\ from = m * Rate + 1))
  BY <1>1
<1>3. Holds(k, CompressWhole(k, h, from, n), m + n, p)
  BY <1>2, WholesOrNone
<1>4. Holds(k, done, m + n, p)
  BY <1>3
<1>5. PICK t \in Int : t = at
  BY <1>1
<1>6. t = (m + n) * Rate + 1 + p
  BY <1>1, <1>5
<1>7. p + r <= Rate /\ r \in Nat /\ m + n \in Nat
  BY <1>1
<1>8. Holds(k, IF r = 0 THEN done ELSE Store(done, done.pos, t, r), m + n, p + r)
  BY <1>2, <1>4, <1>6, <1>7, RestHolds
<1> QED
  BY <1>1, <1>5, <1>8

\* Poly1305: a piece of the message is held after what was held before.
LEMMA PolyUpdateHolds ==
  ASSUME NEW h, NEW m \in Nat, NEW p \in 0..(Rate - 1), NEW from \in Nat, NEW len \in Nat,
         Holds("poly1305", h, m, p), from = m * Rate + 1 + p
  PROVE  \E q \in Nat, r \in 0..(Rate - 1) :
           /\ m * Rate + p + len = q * Rate + r
           /\ Holds("poly1305", PolyUpdate(h, from, len), q, r)
<1> DEFINE used  == IF h.pos # 0 THEN Smaller(Rate - h.pos, len) ELSE 0
           fill  == Store(h, h.pos, from, used)
           first == IF fill.pos = Rate
                    THEN [Compress(fill, Held("poly1305", fill)) EXCEPT !.pos = 0]
                    ELSE fill
           n     == (len - used) \div Rate
           rest  == (len - used) % Rate
           done  == CompressWhole("poly1305", first, from + used, n)
           last  == IF rest = 0 THEN done ELSE Store(done, done.pos, from + used + n * Rate, rest)
<1>1. PolyUpdate(h, from, len) = last
  BY DEF PolyUpdate
<1>2. h \in State /\ h.pos = p
  BY DEF Holds
<1>3. m * Rate \in Nat /\ (m + 1) * Rate = m * Rate + Rate /\ Rate \in Nat \ {0}
  BY NextBlock, RateNat
<1>4. PICK u \in Nat : u = used
  <2>1. CASE p = 0
    BY <1>2, <2>1
  <2>2. CASE p # 0
    <3>1. used = IF Rate - p <= len THEN Rate - p ELSE len
      BY <1>2, <1>3, <2>2 DEF Smaller
    <3> HIDE DEF used
    <3> QED
      BY <1>3, <3>1
  <2> QED
    BY <2>1, <2>2
<1>5. len - u \in Nat /\ p + u <= Rate /\ (p = 0 => u = 0) /\ (p # 0 => p + u = Rate \/ u = len)
  BY <1>2, <1>3, <1>4 DEF Smaller
<1> HIDE DEF used
<1>6. PICK N \in Nat, R \in 0..(Rate - 1) : len - u = N * Rate + R /\ n = N /\ rest = R
  BY <1>4, <1>5, CutIn
<1>7. PICK f : f = fill
  OBVIOUS
<1>8. Holds("poly1305", f, m, p + u)
  <2>1. p \in 0..Rate /\ from \in Int /\ p + u <= Rate
    BY <1>3, <1>5
  <2>2. Holds("poly1305", Store(h, p, from, u), m, p + u)
    BY <2>1, StoreHolds
  <2> QED
    BY <1>2, <1>4, <1>7, <2>2
<1>9. f \in State /\ f.pos = p + u /\ f.lanes = Blank /\ f.blocks = BlocksOf("poly1305", m)
  BY <1>8 DEF Holds
<1> HIDE DEF fill
<1>10. \E M \in Nat, P \in 0..(Rate - 1) :
         /\ Holds("poly1305", first, M, P)
         /\ M * Rate + P = m * Rate + p + u
         /\ N = 0 \/ P = 0
         /\ P + R < Rate
  <2>1. CASE p + u = Rate
    <3>1. Holds("poly1305", f, m, Rate)
      BY <1>8, <2>1
    <3>2. Held("poly1305", f) \in Block
      BY <3>1, HeldIsWhole, NextBlock, WholeType
    <3>3. PICK d \in State : d = Compress(f, Held("poly1305", f))
      BY <1>9, <3>2, CompressIs
    <3>4. d.buf = f.buf
      BY <1>9, <3>2, <3>3, CompressIs
    <3>5. [d EXCEPT !.pos = 0] = [d EXCEPT !.buf = f.buf, !.pos = 0]
      BY <3>4 DEF State
    <3>6. first = [Compress(f, Held("poly1305", f)) EXCEPT !.buf = f.buf, !.pos = 0]
      BY <1>7, <1>9, <2>1, <3>3, <3>5
    <3>7. PICK buf \in Block : buf = f.buf
      BY <1>9 DEF State
    <3>8. Holds("poly1305", [Compress(f, Held("poly1305", f)) EXCEPT !.buf = buf, !.pos = 0], m + 1, 0)
      BY <1>9, <3>1, FullHolds
    <3>9. Holds("poly1305", first, m + 1, 0)
      BY <3>6, <3>7, <3>8
    <3> HIDE DEF first
    <3> QED
      BY <1>3, <2>1, <3>9
  <2>2. CASE p + u # Rate
    <3>1. first = f
      BY <1>7, <1>9, <2>2
    <3>2. p + u \in 0..(Rate - 1)
      BY <1>3, <1>5, <2>2
    <3>3. CASE p = 0
      <4>1. u = 0
        BY <1>5, <3>3
      <4> HIDE DEF first
      <4> QED
        BY <1>3, <1>8, <3>1, <3>3, <4>1
    <3>4. CASE p # 0
      <4>1. u = len
        BY <1>5, <2>2, <3>4
      <4>2. len - u \in Nat /\ len - u < Rate
        BY <1>3, <4>1
      <4>3. N = 0 /\ R = len - u
        BY <1>6, <4>2, NoWhole
      <4> HIDE DEF first
      <4> QED
        BY <1>3, <1>8, <3>1, <3>2, <4>1, <4>3
    <3> QED
      BY <3>3, <3>4
  <2> QED
    BY <2>1, <2>2
<1>11. PICK M \in Nat, P \in 0..(Rate - 1) :
         /\ Holds("poly1305", first, M, P)
         /\ M * Rate + P = m * Rate + p + u
         /\ N = 0 \/ P = 0
         /\ P + R < Rate
  BY <1>10
<1> HIDE DEF first, n, rest
<1>12. PICK t \in Nat : t = from + u
  OBVIOUS
<1>13. M * Rate \in Nat /\ t = M * Rate + 1 + P
  BY <1>3, <1>11, <1>12, NextBlock
<1>14. done = CompressWhole("poly1305", first, t, N)
  BY <1>4, <1>6, <1>12
<1>15. last = IF R = 0 THEN done ELSE Store(done, done.pos, t + N * Rate, R)
  BY <1>4, <1>6, <1>12
<1> HIDE DEF done, last
<1>16. Holds("poly1305", last, M + N, P + R)
  <2>1. PICK x : x = t + N * Rate
    OBVIOUS
  <2>2. PICK k : k = "poly1305"
    OBVIOUS
  <2>3. k # "incremental"
    BY <2>2
  <2>4. Holds(k, first, M, P) /\ done = CompressWhole(k, first, t, N)
    BY <1>11, <1>14, <2>2
  <2>5. Holds(k, IF R = 0 THEN done ELSE Store(done, done.pos, x, R), M + N, P + R)
    BY <1>11, <1>13, <2>1, <2>3, <2>4, WholesAndRest
  <2> QED
    BY <1>15, <2>1, <2>2, <2>5
<1>17. (M + N) * Rate + (P + R) = M * Rate + P + N * Rate + R
  BY <1>3, <1>13, LaterBlock
<1>18. m * Rate + p + len = (M + N) * Rate + (P + R) /\ P + R \in 0..(Rate - 1) /\ M + N \in Nat
  <2>1. N * Rate \in Nat
    BY LaterBlock
  <2> QED
    BY <1>3, <1>5, <1>6, <1>11, <1>13, <1>17, <2>1
<1> QED
  BY <1>1, <1>16, <1>18

\* A begun lane ends inside the block.
LEMMA LaneFits ==
  ASSUME NEW p \in 0..(Rate - 1)
  PROVE  (p % Word) \in 0..(Word - 1) /\ p + (Word - (p % Word)) <= Rate
<1>1. PICK w \in Nat \ {0} : w = Word
  BY RateNat
<1>2. Rate \in Nat \ {0} /\ Rate % w = 0
  BY <1>1, RateNat
<1> p \in Nat /\ w \in Nat \ {0} /\ Rate \in Nat
  BY <1>2
<1>3. PICK i \in Nat, j \in 0..(w - 1) : p = w * i + j /\ p \div w = i /\ p % w = j
  BY DivMod
<1>4. PICK x \in Nat, y \in 0..(w - 1) : Rate = w * x + y /\ Rate \div w = x /\ Rate % w = y
  BY DivMod
<1>5. y = 0
  BY <1>2, <1>4
<1>6. i < x
  <2>1. SUFFICES ASSUME i >= x PROVE FALSE
    OBVIOUS
  <2>2. w * i >= w * x
    BY <2>1
  <2> QED
    BY <1>2, <1>3, <1>4, <1>5, <2>2
<1>7. w * (i + 1) <= w * x /\ w * (i + 1) = w * i + w
  BY <1>6
<1>8. p + (w - j) <= Rate
  <2>1. PICK a \in Int : a = w * i
    OBVIOUS
  <2>2. PICK b \in Int : b = w * x
    OBVIOUS
  <2>3. p = a + j /\ Rate = b /\ a + w <= b
    BY <1>3, <1>4, <1>5, <1>7, <2>1, <2>2
  <2> QED
    BY <2>3
<1>9. (p % w) \in 0..(w - 1) /\ p + (w - (p % w)) <= Rate
  BY <1>3, <1>8, Zenon
<1> QED
  BY <1>1, <1>9, Zenon

LEMMA SegmentJoin ==
  ASSUME NEW s \in Int, NEW p \in Nat, NEW len \in Nat, NEW from \in Int, from = s + p
  PROVE  Sum(Segment(0, s, p), Segment(p, from, len)) = Segment(0, s, p + len)
<1>1. ASSUME NEW i \in Places
      PROVE  SymDiff(Segment(0, s, p)[i], Segment(p, from, len)[i]) = Segment(0, s, p + len)[i]
  <2>1. i \in Nat
    BY RateNat DEF Places
  <2>2. PICK a : a = Segment(0, s, p)[i]
    OBVIOUS
  <2>3. PICK b : b = Segment(p, from, len)[i]
    OBVIOUS
  <2>4. PICK c : c = Segment(0, s, p + len)[i]
    OBVIOUS
  <2>5. a = (IF i < p THEN {s + i} ELSE {})
    BY <2>1, <2>2 DEF Segment
  <2>6. b = (IF i >= p /\ i < p + len THEN {s + i} ELSE {})
    BY <2>1, <2>3 DEF Segment
  <2>7. c = (IF i < p + len THEN {s + i} ELSE {})
    BY <2>1, <2>4 DEF Segment
  <2>8. SymDiff(a, b) = c
    <3>1. CASE i < p
      <4>1. a = {s + i} /\ b = {} /\ c = {s + i}
        BY <2>1, <2>5, <2>6, <2>7, <3>1
      <4> QED
        BY <4>1 DEF SymDiff
    <3>2. CASE i >= p /\ i < p + len
      <4>1. a = {} /\ b = {s + i} /\ c = {s + i}
        BY <2>1, <2>5, <2>6, <2>7, <3>2
      <4> QED
        BY <4>1 DEF SymDiff
    <3>3. CASE i >= p + len
      <4>1. a = {} /\ b = {} /\ c = {}
        BY <2>1, <2>5, <2>6, <2>7, <3>3
      <4> QED
        BY <4>1 DEF SymDiff
    <3> QED
      BY <2>1, <3>1, <3>2, <3>3
  <2> QED
    BY <2>2, <2>3, <2>4, <2>8
<1>2. Sum(Segment(0, s, p), Segment(p, from, len)) = [i \in Places |-> Segment(0, s, p + len)[i]]
  BY <1>1 DEF Sum
<1> QED
  BY <1>2 DEF Segment

\* The incremental functions: bytes that follow go into the lanes.
LEMMA XorHolds ==
  ASSUME NEW h, NEW m \in Nat, NEW p \in 0..Rate, NEW len \in Nat, NEW from \in Nat,
         from = m * Rate + 1 + p, Holds("incremental", h, m, p), p + len <= Rate
  PROVE  Holds("incremental", [Xor(h, Segment(h.pos, from, len)) EXCEPT !.pos = @ + len], m, p + len)
<1>1. PICK s \in Nat : s = m * Rate + 1
  BY NextBlock
<1>2. /\ h \in State /\ h.pos = p /\ h.lanes = Segment(0, s, p) /\ h.blocks = BlocksOf("incremental", m)
      /\ p \in Nat /\ from \in Int /\ from = s + p
  BY <1>1, RateNat DEF Holds
<1>3. Sum(h.lanes, Segment(h.pos, from, len)) = Segment(0, s, p + len)
  <2>1. Sum(Segment(0, s, p), Segment(p, from, len)) = Segment(0, s, p + len)
    <3>1. PICK t \in Int : t = from
      BY <1>2
    <3>2. s \in Int /\ p \in Nat /\ len \in Nat /\ t = s + p
      BY <1>2, <3>1
    <3>3. Sum(Segment(0, s, p), Segment(p, t, len)) = Segment(0, s, p + len)
      BY <3>2, SegmentJoin
    <3> QED
      BY <3>1, <3>3
  <2> QED
    BY <1>2, <2>1
<1>4. PICK b \in Block : b = Segment(0, s, p + len)
  <2>1. 0 \in Nat /\ s \in Int /\ p + len \in Nat
    BY <1>2
  <2> QED
    BY <2>1, SegmentType
<1>5. [Xor(h, Segment(h.pos, from, len)) EXCEPT !.pos = @ + len] = [h EXCEPT !.lanes = b, !.pos = p + len]
  BY <1>2, <1>3, <1>4 DEF Xor, State
<1>6. PICK g : g = [h EXCEPT !.lanes = b, !.pos = p + len]
  OBVIOUS
<1>7. p + len \in 0..Rate
  BY <1>2, RateNat
<1>8. g \in State
  BY <1>2, <1>6, <1>7 DEF State
<1>9. g.pos = p + len /\ g.blocks = h.blocks /\ g.lanes = b
  BY <1>2, <1>6 DEF State
<1> QED
  BY <1>1, <1>2, <1>4, <1>5, <1>6, <1>8, <1>9 DEF Holds

\* A begun block that is filled up is the next block.
LEMMA LanesFull ==
  ASSUME NEW h, NEW m \in Nat, NEW p \in 0..Rate, NEW len \in Nat, NEW from \in Nat,
         from = m * Rate + 1 + p, Holds("incremental", h, m, p), p + len = Rate
  PROVE  Holds("incremental", [Compress(h, Segment(h.pos, from, len)) EXCEPT !.pos = 0], m + 1, 0)
<1>1. PICK s \in Nat : s = m * Rate + 1
  BY NextBlock
<1>2. /\ h \in State /\ h.pos = p /\ h.lanes = Segment(0, s, p) /\ h.blocks = BlocksOf("incremental", m)
      /\ p \in Nat /\ from \in Int /\ from = s + p
  BY <1>1, RateNat DEF Holds
<1>3. PICK c \in Block : c = Segment(p, from, len)
  BY <1>2, SegmentType
<1>4. Sum(h.lanes, c) = Segment(0, s, Rate)
  <2>1. Sum(Segment(0, s, p), Segment(p, from, len)) = Segment(0, s, p + len)
    <3>1. PICK t \in Int : t = from
      BY <1>2
    <3>2. s \in Int /\ p \in Nat /\ len \in Nat /\ t = s + p
      BY <1>2, <3>1
    <3>3. Sum(Segment(0, s, p), Segment(p, t, len)) = Segment(0, s, p + len)
      BY <3>2, SegmentJoin
    <3> QED
      BY <3>1, <3>3
  <2> QED
    BY <1>2, <1>3, <2>1
<1>5. Whole("incremental", s) = Segment(0, s, Rate)
  <2>1. Segment(0, s, Rate)[Rate] = {}
    BY RateNat DEF Segment, Places
  <2>2. Segment(0, s, Rate) \in Block
    <3>1. 0 \in Nat /\ Rate \in Nat /\ s \in Int
      BY RateNat
    <3> QED
      BY <3>1, SegmentType
  <2>3. PICK b \in Block : b = Segment(0, s, Rate)
    BY <2>2
  <2>4. [b EXCEPT ![Rate] = {}] = b
    BY <2>1, <2>3 DEF Block
  <2>5. Whole("incremental", s) = [b EXCEPT ![Rate] = {}]
    BY <2>3 DEF Whole
  <2> QED
    BY <2>3, <2>4, <2>5
<1>6. PICK d \in State : d = Compress(h, c)
  BY <1>2, CompressIs
<1>7. PICK g : g = [d EXCEPT !.pos = 0]
  OBVIOUS
<1>8. g \in State /\ g.blocks = d.blocks /\ g.lanes = d.lanes /\ g.pos = 0
  <2>1. 0 \in 0..Rate
    BY RateNat
  <2>2. g \in State
    BY <1>7, <2>1 DEF State
  <2> QED
    BY <1>7, <2>2 DEF State
<1>9. PICK w : w = Whole("incremental", m * Rate + 1)
  OBVIOUS
<1>10. Sum(h.lanes, c) = w
  BY <1>1, <1>4, <1>5, <1>9
<1>11. Holds("incremental", g, m + 1, 0)
  BY <1>2, <1>6, <1>8, <1>9, <1>10, BlockHolds
<1> QED
  BY <1>2, <1>3, <1>6, <1>7, <1>11

\* The incremental functions: a piece of the message is held after what was
\* held before.
LEMMA IncrementalUpdateHolds ==
  ASSUME NEW h, NEW m \in Nat, NEW p \in 0..(Rate - 1), NEW from \in Nat, NEW len \in Nat,
         Holds("incremental", h, m, p), from = m * Rate + 1 + p
  PROVE  \E q \in Nat, r \in 0..(Rate - 1) :
           /\ m * Rate + p + len = q * Rate + r
           /\ Holds("incremental", IncrementalUpdate(h, from, len), q, r)
<1> DEFINE a     == IF (h.pos % Word) > 0 THEN Smaller(Word - (h.pos % Word), len) ELSE 0
           lane  == [Xor(h, Segment(h.pos, from, a)) EXCEPT !.pos = @ + a]
           fills == lane.pos # 0 /\ len - a >= Rate - lane.pos
           b     == IF fills THEN Rate - lane.pos ELSE 0
           block == IF fills
                    THEN [Compress(lane, Segment(lane.pos, from + a, b)) EXCEPT !.pos = 0]
                    ELSE lane
           n     == (len - a - b) \div Rate
           rest  == (len - a - b) % Rate
           done  == CompressWhole("incremental", block, from + a + b, n)
           last  == [Xor(done, Segment(done.pos, from + a + b + n * Rate, rest)) EXCEPT !.pos = @ + rest]
<1>1. IncrementalUpdate(h, from, len) = last
  BY DEF IncrementalUpdate
<1>2. h \in State /\ h.pos = p
  BY DEF Holds
<1>3. m * Rate \in Nat /\ (m + 1) * Rate = m * Rate + Rate /\ Rate \in Nat \ {0}
  BY NextBlock, RateNat
<1>4. a \in Nat /\ a <= len /\ p + a <= Rate
  <2>1. PICK z \in 0..(Word - 1) : z = p % Word
    BY LaneFits
  <2>2. p + (Word - z) <= Rate /\ Word \in Nat \ {0}
    BY <2>1, LaneFits, RateNat
  <2>3. a = IF z > 0 THEN (IF Word - z <= len THEN Word - z ELSE len) ELSE 0
    BY <1>2, <2>1, <2>2 DEF Smaller
  <2> HIDE DEF a
  <2> QED
    BY <1>3, <2>2, <2>3
<1> HIDE DEF a
<1>5. PICK l : l = lane
  OBVIOUS
<1>6. Holds("incremental", l, m, p + a)
  <2>1. p \in 0..Rate /\ p + a <= Rate
    BY <1>3, <1>4
  <2>2. PICK u \in Nat : u = a
    BY <1>4
  <2>3. Holds("incremental", [Xor(h, Segment(h.pos, from, u)) EXCEPT !.pos = @ + u], m, p + u)
    BY <2>1, <2>2, XorHolds
  <2> QED
    BY <1>5, <2>2, <2>3
<1>7. l \in State /\ l.pos = p + a
  BY <1>6 DEF Holds
<1> HIDE DEF lane
<1>8. b \in Nat /\ b <= len - a
  <2>1. CASE fills
    <3>1. b = Rate - (p + a) /\ len - a >= Rate - (p + a)
      BY <1>5, <1>7, <2>1
    <3> HIDE DEF b, fills
    <3> QED
      BY <1>3, <1>4, <3>1
  <2>2. CASE ~fills
    <3>1. b = 0
      BY <2>2
    <3> HIDE DEF b, fills
    <3> QED
      BY <1>4, <3>1
  <2> QED
    BY <2>1, <2>2
<1>9. PICK B \in Nat : B = b
  BY <1>8
<1>10. PICK A \in Nat : A = a
  BY <1>4
<1>11. len - A - B \in Nat /\ p + A <= Rate /\ A <= len
  BY <1>4, <1>8, <1>9, <1>10
<1>12. PICK N \in Nat, R \in 0..(Rate - 1) : len - A - B = N * Rate + R /\ n = N /\ rest = R
  BY <1>9, <1>10, <1>11, CutIn
<1>13. \E M \in Nat, P \in 0..(Rate - 1) :
         /\ Holds("incremental", block, M, P)
         /\ M * Rate + P = m * Rate + p + A + B
         /\ N = 0 \/ P = 0
         /\ P + R < Rate
  <2>1. CASE fills
    <3>1. B = Rate - (p + A)
      BY <1>5, <1>7, <1>9, <1>10, <2>1
    <3>2. p + A + B = Rate /\ p + A \in 0..Rate
      BY <1>3, <1>11, <3>1
    <3>3. PICK f \in Nat : f = from + A
      OBVIOUS
    <3>4. f = m * Rate + 1 + (p + A)
      BY <1>3, <3>3
    <3>5. Holds("incremental", l, m, p + A)
      BY <1>6, <1>10
    <3>6. PICK P0 \in 0..Rate : P0 = p + A
      BY <3>2
    <3>7. Holds("incremental", [Compress(l, Segment(l.pos, f, B)) EXCEPT !.pos = 0], m + 1, 0)
      <4>1. Holds("incremental", l, m, P0) /\ f = m * Rate + 1 + P0 /\ P0 + B = Rate
        BY <3>2, <3>4, <3>5, <3>6
      <4> QED
        BY <4>1, LanesFull
    <3>8. Holds("incremental", block, m + 1, 0)
      BY <1>5, <1>9, <1>10, <2>1, <3>3, <3>7
    <3> HIDE DEF block, b, fills
    <3>9. (m + 1) * Rate + 0 = m * Rate + p + A + B
      BY <1>3, <3>2
    <3> QED
      BY <1>3, <3>8, <3>9
  <2>2. CASE ~fills
    <3>1. block = l /\ B = 0
      BY <1>5, <1>9, <2>2
    <3>2. p + A = 0 \/ len - A < Rate - (p + A)
      BY <1>3, <1>5, <1>7, <1>10, <2>2
    <3> HIDE DEF block, b, fills
    <3>3. p + A \in 0..(Rate - 1)
      BY <1>3, <1>11, <3>2
    <3>4. Holds("incremental", block, m, p + A)
      BY <1>6, <1>10, <3>1
    <3>5. CASE p + A = 0
      BY <1>3, <3>1, <3>3, <3>4, <3>5
    <3>6. CASE len - A < Rate - (p + A)
      <4>1. len - A - B \in Nat /\ len - A - B < Rate /\ p + A + (len - A - B) < Rate
        BY <1>3, <1>11, <3>1, <3>3, <3>6
      <4>2. N = 0 /\ R = len - A - B
        BY <1>12, <4>1, NoWhole
      <4> QED
        BY <1>3, <3>1, <3>3, <3>4, <4>1, <4>2
    <3> QED
      BY <3>2, <3>5, <3>6
  <2> QED
    BY <2>1, <2>2
<1>14. PICK M \in Nat, P \in 0..(Rate - 1) :
         /\ Holds("incremental", block, M, P)
         /\ M * Rate + P = m * Rate + p + A + B
         /\ N = 0 \/ P = 0
         /\ P + R < Rate
  BY <1>13
<1> HIDE DEF block, n, rest, b, fills
<1>15. PICK t \in Nat : t = from + A + B
  OBVIOUS
<1>16. /\ M * Rate \in Nat /\ N * Rate \in Nat /\ (M + N) * Rate = M * Rate + N * Rate
       /\ t = M * Rate + 1 + P /\ P \in 0..Rate
  BY <1>3, <1>14, <1>15, LaterBlock, NextBlock
<1>17. done = CompressWhole("incremental", block, t, N)
  BY <1>9, <1>10, <1>12, <1>15
<1>18. Holds("incremental", done, M + N, P)
  <2>1. t \in Int /\ (N = 0 \/ (P = 0 /\ t = M * Rate + 1))
    BY <1>14, <1>16
  <2>2. Holds("incremental", CompressWhole("incremental", block, t, N), M + N, P)
    BY <1>14, <1>16, <2>1, WholesOrNone
  <2> QED
    BY <1>17, <2>2
<1> HIDE DEF done
<1>19. PICK x \in Nat : x = t + N * Rate
  BY <1>16
<1>20. last = [Xor(done, Segment(done.pos, x, R)) EXCEPT !.pos = @ + R]
  BY <1>9, <1>10, <1>12, <1>15, <1>19
<1> HIDE DEF last
<1>21. Holds("incremental", last, M + N, P + R)
  <2>1. x = (M + N) * Rate + 1 + P /\ P + R <= Rate /\ R \in Nat /\ M + N \in Nat
    BY <1>3, <1>14, <1>16, <1>19
  <2>2. Holds("incremental", [Xor(done, Segment(done.pos, x, R)) EXCEPT !.pos = @ + R], M + N, P + R)
    BY <1>16, <1>18, <2>1, XorHolds
  <2> QED
    BY <1>20, <2>2
<1>22. m * Rate + p + len = (M + N) * Rate + (P + R) /\ P + R \in 0..(Rate - 1) /\ M + N \in Nat
  BY <1>3, <1>11, <1>12, <1>14, <1>16
<1> QED
  BY <1>1, <1>21, <1>22

-----------------------------------------------------------------------------
(* All of them *)

Counting == {"sha2", "sha3", "kmac", "kpa"}

\* h is what k makes of the first n bytes of the message.
Canon(k, h, n) ==
  \E m \in Nat, p \in 0..(Rate - 1) :
    n = m * Rate + p /\ Holds(k, h, m, p) /\ (k \in Counting => h.count = m * Rate)

LEMMA UpdateCanon ==
  ASSUME NEW k \in Hashes, NEW h, NEW n \in Nat, NEW len \in Nat, Canon(k, h, n)
  PROVE  Canon(k, Update(k, h, n + 1, len), n + len)
<1>1. PICK m \in Nat, p \in 0..(Rate - 1) :
        n = m * Rate + p /\ Holds(k, h, m, p) /\ (k \in Counting => h.count = m * Rate)
  BY DEF Canon
<1>2. PICK from \in Nat : from = n + 1
  OBVIOUS
<1>3. from = m * Rate + 1 + p /\ m * Rate \in Nat /\ p \in Nat
  BY <1>1, <1>2, NextBlock, RateNat
<1>4. CASE len = 0
  <2>1. Update(k, h, n + 1, len) = h /\ n + len = n
    BY <1>4 DEF Update
  <2> QED
    BY <2>1
<1>5. CASE len # 0 /\ k = "poly1305"
  <2>1. Update(k, h, from, len) = PolyUpdate(h, from, len) /\ k \notin Counting
    BY <1>5 DEF Update, Counting
  <2>2. PICK q \in Nat, r \in 0..(Rate - 1) :
          m * Rate + p + len = q * Rate + r /\ Holds("poly1305", PolyUpdate(h, from, len), q, r)
    BY <1>1, <1>3, <1>5, PolyUpdateHolds
  <2> QED
    BY <1>1, <1>2, <1>5, <2>1, <2>2 DEF Canon
<1>6. CASE len # 0 /\ k = "incremental"
  <2>1. Update(k, h, from, len) = IncrementalUpdate(h, from, len) /\ k \notin Counting
    BY <1>6 DEF Update, Counting
  <2>2. PICK q \in Nat, r \in 0..(Rate - 1) :
          m * Rate + p + len = q * Rate + r /\ Holds("incremental", IncrementalUpdate(h, from, len), q, r)
    BY <1>1, <1>3, <1>6, IncrementalUpdateHolds
  <2> QED
    BY <1>1, <1>2, <1>6, <2>1, <2>2 DEF Canon
<1>7. CASE len # 0 /\ k \in Counting
  <2>1. Update(k, h, from, len) = BlockUpdate(k, h, from, len) /\ k # "incremental"
    BY <1>7 DEF Update, Counting
  <2>2. PICK q \in Nat, r \in 0..(Rate - 1) :
          /\ m * Rate + p + len = q * Rate + r /\ Holds(k, BlockUpdate(k, h, from, len), q, r)
          /\ BlockUpdate(k, h, from, len).count = q * Rate
    BY <1>1, <1>3, <1>7, <2>1, BlockUpdateHolds
  <2> QED
    BY <1>1, <1>2, <2>1, <2>2 DEF Canon
<1> QED
  BY <1>4, <1>5, <1>6, <1>7 DEF Hashes, Counting

LEMMA StartCanon ==
  ASSUME NEW k
  PROVE  Canon(k, Start, 0)
<1>1. 0 = 0 * Rate + 0 /\ 0 \in 0..(Rate - 1) /\ Start.count = 0 * Rate
  BY RateNat DEF Start
<1> QED
  BY <1>1, StartHolds DEF Canon

-----------------------------------------------------------------------------
(* The end of the message: the blocks that each primitive adds to those of  *)
(* the message.                                                             *)

LEMMA Compressed ==
  ASSUME NEW h \in State, NEW b \in Block, h.lanes = Blank
  PROVE  /\ Compress(h, b) \in State
         /\ Compress(h, b).blocks = Append(h.blocks, b) /\ Compress(h, b).lanes = Blank
<1>1. Compress(h, b) \in State /\ Compress(h, b).lanes = Blank
  BY CompressIs
<1>2. Compress(h, b).blocks = Append(h.blocks, Sum(h.lanes, b))
  BY CompressIs
<1> QED
  BY <1>1, <1>2, SumBlank

LEMMA AppendTwo ==
  ASSUME NEW B \in Seq(Block), NEW b \in Block, NEW c \in Block
  PROVE  Append(B, b) = B \o <<b>> /\ Append(Append(B, b), c) = B \o <<b, c>>
OBVIOUS

\* The byte that the marker is put in is zero.
LEMMA MarkIs ==
  ASSUME NEW s \in Int, NEW p \in 0..(Rate - 1)
  PROVE  /\ [Segment(0, s, p) EXCEPT ![p] = Marker] = [Segment(0, s, p) EXCEPT ![p] = @ \cup Marker]
         /\ [Segment(0, s, p) EXCEPT ![p] = Marker] \in Block
         /\ Segment(0, s, p) \in Block /\ Segment(0, s, p)[p] = {}
<1>1. p \in Nat /\ p \in Places /\ 0 \in Nat
  BY RateNat DEF Places
<1>2. Segment(0, s, p) \in Block
  BY <1>1, SegmentType
<1>3. Segment(0, s, p)[p] = {}
  BY <1>1 DEF Segment
<1>4. Marker \subseteq Int
  BY DEF Marker
<1>5. [Segment(0, s, p) EXCEPT ![p] = Marker] \in Block
  BY <1>2, <1>4 DEF Block
<1>6. {} \cup Marker = Marker
  OBVIOUS
<1> QED
  BY <1>2, <1>3, <1>5, <1>6

Field(n) == [i \in Places |-> IF i \in (Rate - LenField)..(Rate - 1) THEN Length(n) ELSE {}]
Or(b, c) == [i \in Places |-> b[i] \cup c[i]]
Mark(b, i) == [b EXCEPT ![i] = @ \cup Marker]
End(b) == [b EXCEPT ![Rate - 1] = @ \cup EndMark]
Root(n) == End([Blank EXCEPT ![0] = Length(n), ![1] = Marker])
CodeAt(at) == [i \in Places |-> IF i \in at..(at + CodeLen - 1) THEN Code(i - at) ELSE {}]
\* KMAC has no room for the code: what is over it is what the message left.
Over(b) == [i \in Places |-> IF i \in 0..(CodeLen - 1) THEN Code(i)
                            ELSE IF i = CodeLen THEN Marker ELSE b[i]]

LEMMA ShapeTypes ==
  ASSUME NEW b \in Block, NEW c \in Block, NEW n \in Nat, NEW i \in Places, NEW at \in Nat
  PROVE  /\ Field(n) \in Block /\ Or(b, c) \in Block /\ Mark(b, i) \in Block /\ End(b) \in Block
         /\ Root(n) \in Block /\ CodeAt(at) \in Block /\ Over(b) \in Block
<1>1. Marker \subseteq Int /\ EndMark \subseteq Int /\ Length(n) \subseteq Int
  BY DEF Marker, EndMark, Length
<1>2. \A j \in Nat : Code(j) \subseteq Int
  BY DEF Code
<1>3. Rate - 1 \in Places /\ 0 \in Places /\ 1 \in Places /\ \A j \in Places : j \in Nat
  BY RateNat DEF Places
<1>4. Field(n) \in Block
  BY <1>1 DEF Field, Block
<1>5. Or(b, c) \in Block
  BY DEF Or, Block
<1>6. Mark(b, i) \in Block
  BY <1>1 DEF Mark, Block
<1>7. \A d \in Block : End(d) \in Block
  BY <1>1, <1>3 DEF End, Block
<1>8. [Blank EXCEPT ![0] = Length(n), ![1] = Marker] \in Block
  BY <1>1, <1>3, BlankType DEF Block
<1>9. Root(n) \in Block
  BY <1>7, <1>8 DEF Root
<1>10. CodeAt(at) \in Block
  <2>1. ASSUME NEW j \in Places, j \in at..(at + CodeLen - 1) PROVE Code(j - at) \subseteq Int
    <3>1. j - at \in Nat
      BY <1>3, <2>1
    <3> QED
      BY <1>2, <3>1
  <2> QED
    BY <2>1 DEF CodeAt, Block
<1>11. Over(b) \in Block
  <2>1. \A j \in Places : Code(j) \subseteq Int
    BY <1>2, <1>3
  <2> QED
    BY <1>1, <2>1 DEF Over, Block
<1> QED
  BY <1>4, <1>5, <1>6, <1>7, <1>9, <1>10, <1>11

\* What k adds to m blocks when p bytes are begun.
Ending(k, m, p) ==
  LET n == m * Rate + p
      begun == Segment(0, m * Rate + 1, p)
  IN CASE k = "sha2" -> IF p + 1 + LenField <= Rate THEN <<Or(Mark(begun, p), Field(n))>>
                        ELSE <<Mark(begun, p), Field(n)>>
       [] k \in {"sha3", "incremental"} -> <<End(Mark(begun, p))>>
       [] k = "kmac" -> IF p + CodeLen < Rate THEN <<End(Mark(Or(begun, CodeAt(p)), p + CodeLen))>>
                        ELSE <<begun, End(Over(begun))>>
       [] k = "kpa" -> (IF p = 0 THEN <<>> ELSE <<begun>>) \o <<Root(n)>>
       [] k = "poly1305" -> IF p = 0 THEN <<>> ELSE <<Mark(begun, p)>>

\* A state at the end of the message.
Ended(k, g, m, p) ==
  /\ g \in State
  /\ (IF k = "incremental" THEN Append(g.blocks, g.lanes) ELSE g.blocks) = BlocksOf(k, m) \o Ending(k, m, p)
  /\ k = "incremental" => g.blocks = BlocksOf(k, m)
  /\ k # "incremental" => g.lanes = Blank

LEMMA AtEnd ==
  ASSUME NEW k \in Hashes, k # "incremental", NEW h, NEW m \in Nat, NEW p \in 0..(Rate - 1), Holds(k, h, m, p)
  PROVE  /\ h \in State /\ h.pos = p /\ h.lanes = Blank /\ h.blocks = BlocksOf(k, m) /\ h.blocks \in Seq(Block)
         /\ Kept(h) = Segment(0, m * Rate + 1, p) /\ Segment(0, m * Rate + 1, p) \in Block
         /\ m * Rate + p \in Nat /\ m * Rate + 1 \in Int /\ p \in Places
<1>1. m * Rate \in Nat
  BY NextBlock
<1>2. m * Rate + p \in Nat /\ m * Rate + 1 \in Int /\ p \in Places
  BY <1>1, RateNat DEF Places
<1>3. Segment(0, m * Rate + 1, p) \in Block
  BY <1>2, MarkIs
<1> QED
  BY <1>2, <1>3 DEF Holds, State

LEMMA OneMore ==
  ASSUME NEW k, k # "incremental", NEW h \in State, NEW m \in Nat, NEW p, NEW b \in Block,
         h.lanes = Blank, h.blocks = BlocksOf(k, m), Ending(k, m, p) = <<b>>
  PROVE  Ended(k, Compress(h, b), m, p)
<1>1. PICK x \in State : x = Compress(h, b)
  BY Compressed
<1>2. x.blocks = Append(h.blocks, b) /\ x.lanes = Blank
  BY <1>1, Compressed
<1>3. h.blocks \in Seq(Block)
  BY DEF State
<1>4. x.blocks = BlocksOf(k, m) \o <<b>>
  BY <1>2, <1>3, AppendTwo
<1> QED
  BY <1>1, <1>2, <1>4 DEF Ended

LEMMA TwoMore ==
  ASSUME NEW k, k # "incremental", NEW h \in State, NEW m \in Nat, NEW p, NEW b \in Block, NEW c \in Block,
         h.lanes = Blank, h.blocks = BlocksOf(k, m), Ending(k, m, p) = <<b, c>>
  PROVE  Ended(k, Compress(Compress(h, b), c), m, p)
<1>1. PICK x \in State : x = Compress(h, b)
  BY Compressed
<1>2. x.blocks = Append(h.blocks, b) /\ x.lanes = Blank
  BY <1>1, Compressed
<1>3. PICK y \in State : y = Compress(x, c)
  BY <1>2, Compressed
<1>4. y.blocks = Append(x.blocks, c) /\ y.lanes = Blank
  BY <1>2, <1>3, Compressed
<1>5. h.blocks \in Seq(Block)
  BY DEF State
<1>6. y.blocks = BlocksOf(k, m) \o <<b, c>>
  BY <1>2, <1>4, <1>5, AppendTwo
<1> QED
  BY <1>1, <1>3, <1>4, <1>6 DEF Ended

LEMMA Sha2Ended ==
  ASSUME NEW h, NEW m \in Nat, NEW p \in 0..(Rate - 1), Holds("sha2", h, m, p), h.count = m * Rate
  PROVE  Ended("sha2", Sha2Finalize(h), m, p)
<1>1. PICK k \in Hashes : k = "sha2"
  BY DEF Hashes
<1>2. PICK n \in Nat : n = m * Rate + p
  BY <1>1, AtEnd
<1>3. PICK s \in Int : s = m * Rate + 1
  BY <1>1, AtEnd
<1>4. /\ h \in State /\ h.pos = p /\ h.lanes = Blank /\ h.blocks = BlocksOf(k, m)
      /\ h.blocks \in Seq(Block) /\ Kept(h) = Segment(0, s, p) /\ p \in Places
  BY <1>1, <1>3, AtEnd
<1>5. PICK b \in Block : b = Segment(0, s, p)
  BY MarkIs
<1>6. PICK c \in Block : c = Mark(b, p)
  BY <1>2, <1>4, ShapeTypes
<1>7. [Kept(h) EXCEPT ![h.pos] = Marker] = c
  BY <1>4, <1>5, <1>6, MarkIs DEF Mark
<1>8. PICK d \in Block : d = Field(n)
  BY <1>4, ShapeTypes
<1>9. PICK e \in Block : e = Or(c, d)
  BY <1>2, <1>4, ShapeTypes
<1>10. [i \in Places |-> IF i \in (Rate - LenField)..(Rate - 1) THEN Length(h.count + h.pos) ELSE {}] = d
  BY <1>2, <1>4, <1>8 DEF Field
<1>11. Sha2Finalize(h) = IF p + 1 > Rate - LenField THEN Compress(Compress(h, c), d) ELSE Compress(h, e)
  BY <1>4, <1>7, <1>9, <1>10 DEF Sha2Finalize, Or
<1>12. Ending("sha2", m, p) = IF p + 1 + LenField <= Rate THEN <<e>> ELSE <<c, d>>
  BY <1>2, <1>3, <1>5, <1>6, <1>8, <1>9 DEF Ending
<1>13. CASE p + 1 > Rate - LenField
  <2>1. Ending(k, m, p) = <<c, d>>
    BY <1>1, <1>12, <1>13, RateNat
  <2>2. Ended(k, Compress(Compress(h, c), d), m, p)
    BY <1>1, <1>4, <2>1, TwoMore
  <2> QED
    BY <1>1, <1>11, <1>13, <2>2
<1>14. CASE ~(p + 1 > Rate - LenField)
  <2>1. Ending(k, m, p) = <<e>>
    BY <1>1, <1>12, <1>14, RateNat
  <2>2. Ended(k, Compress(h, e), m, p)
    BY <1>1, <1>4, <2>1, OneMore
  <2> QED
    BY <1>1, <1>11, <1>14, <2>2
<1> QED
  BY <1>13, <1>14

LEMMA Sha3Ended ==
  ASSUME NEW h, NEW m \in Nat, NEW p \in 0..(Rate - 1), Holds("sha3", h, m, p)
  PROVE  Ended("sha3", Sha3Finalize(h), m, p)
<1>1. PICK k \in Hashes : k = "sha3"
  BY DEF Hashes
<1>2. PICK s \in Int : s = m * Rate + 1
  BY <1>1, AtEnd
<1>3. /\ h \in State /\ h.pos = p /\ h.lanes = Blank /\ h.blocks = BlocksOf(k, m)
      /\ Kept(h) = Segment(0, s, p) /\ p \in Places
  BY <1>1, <1>2, AtEnd
<1>4. PICK b \in Block : b = Segment(0, s, p)
  BY MarkIs
<1>5. PICK c \in Block : c = Mark(b, p)
  <2>1. 0 \in Nat
    OBVIOUS
  <2> QED
    BY <1>3, <2>1, ShapeTypes
<1>6. [Kept(h) EXCEPT ![h.pos] = Marker] = c
  BY <1>3, <1>4, <1>5, MarkIs DEF Mark
<1>7. PICK d \in Block : d = End(c)
  <2>1. 0 \in Nat
    OBVIOUS
  <2> QED
    BY <1>3, <2>1, ShapeTypes
<1>8. Sha3Finalize(h) = Compress(h, d)
  BY <1>6, <1>7 DEF Sha3Finalize, End
<1>9. Ending(k, m, p) = <<d>>
  BY <1>1, <1>2, <1>4, <1>5, <1>7 DEF Ending
<1>10. Ended(k, Compress(h, d), m, p)
  BY <1>1, <1>3, <1>9, OneMore
<1> QED
  BY <1>1, <1>8, <1>10

LEMMA PolyEnded ==
  ASSUME NEW h, NEW m \in Nat, NEW p \in 0..(Rate - 1), Holds("poly1305", h, m, p)
  PROVE  Ended("poly1305", PolyFinalize(h), m, p)
<1>1. PICK k \in Hashes : k = "poly1305"
  BY DEF Hashes
<1>2. PICK s \in Int : s = m * Rate + 1
  BY <1>1, AtEnd
<1>3. /\ h \in State /\ h.pos = p /\ h.lanes = Blank /\ h.blocks = BlocksOf(k, m)
      /\ Kept(h) = Segment(0, s, p) /\ p \in Places /\ h.blocks \in Seq(Block)
  BY <1>1, <1>2, AtEnd
<1>4. PICK b \in Block : b = Segment(0, s, p)
  BY MarkIs
<1>5. PICK c \in Block : c = Mark(b, p)
  <2>1. 0 \in Nat
    OBVIOUS
  <2> QED
    BY <1>3, <2>1, ShapeTypes
<1>6. [Kept(h) EXCEPT ![h.pos] = Marker] = c
  BY <1>3, <1>4, <1>5, MarkIs DEF Mark
<1>7. CASE p = 0
  <2>1. PolyFinalize(h) = h
    BY <1>3, <1>7 DEF PolyFinalize
  <2>2. Ending(k, m, p) = <<>>
    BY <1>1, <1>7 DEF Ending
  <2>3. h.blocks \o <<>> = h.blocks
    BY <1>3, ConcatEmptySeq
  <2> QED
    BY <1>1, <1>3, <2>1, <2>2, <2>3 DEF Ended
<1>8. CASE p # 0
  <2>1. PolyFinalize(h) = Compress(h, c)
    BY <1>3, <1>6, <1>8 DEF PolyFinalize
  <2>2. Ending(k, m, p) = <<c>>
    BY <1>1, <1>2, <1>4, <1>5, <1>8 DEF Ending
  <2>3. Ended(k, Compress(h, c), m, p)
    BY <1>1, <1>3, <2>2, OneMore
  <2> QED
    BY <1>1, <2>1, <2>3
<1> QED
  BY <1>7, <1>8

LEMMA KpaEnded ==
  ASSUME NEW h, NEW m \in Nat, NEW p \in 0..(Rate - 1), Holds("kpa", h, m, p), h.count = m * Rate
  PROVE  Ended("kpa", KpaFinalize(h), m, p)
<1>1. PICK k \in Hashes : k = "kpa"
  BY DEF Hashes
<1>2. PICK n \in Nat : n = m * Rate + p
  BY <1>1, AtEnd
<1>3. PICK s \in Int : s = m * Rate + 1
  BY <1>1, AtEnd
<1>4. /\ h \in State /\ h.pos = p /\ h.lanes = Blank /\ h.blocks = BlocksOf(k, m)
      /\ Kept(h) = Segment(0, s, p) /\ p \in Places /\ h.blocks \in Seq(Block)
  BY <1>1, <1>3, AtEnd
<1>5. PICK b \in Block : b = Segment(0, s, p)
  BY MarkIs
<1>6. PICK d \in Block : d = Root(n)
  BY <1>4, ShapeTypes, BlankType
<1>7. [[Blank EXCEPT ![0] = Length(h.count + h.pos), ![1] = Marker] EXCEPT ![Rate - 1] = @ \cup EndMark] = d
  BY <1>2, <1>4, <1>6 DEF Root, End
<1>8. KpaFinalize(h) = Compress(IF p # 0 THEN Compress(h, b) ELSE h, d)
  BY <1>4, <1>5, <1>7 DEF KpaFinalize
<1>9. Ending(k, m, p) = (IF p = 0 THEN <<>> ELSE <<b>>) \o <<d>>
  BY <1>1, <1>2, <1>3, <1>5, <1>6 DEF Ending
<1>10. CASE p = 0
  <2>1. <<>> \o <<d>> = <<d>>
    OBVIOUS
  <2>2. Ending(k, m, p) = <<d>>
    BY <1>9, <1>10, <2>1
  <2>3. Ended(k, Compress(h, d), m, p)
    BY <1>1, <1>4, <2>2, OneMore
  <2> QED
    BY <1>1, <1>8, <1>10, <2>3
<1>11. CASE p # 0
  <2>1. <<b>> \o <<d>> = <<b, d>>
    <3>1. <<b>> \in Seq(Block) /\ <<d>> \in Seq(Block) /\ Len(<<b>>) = 1 /\ Len(<<d>>) = 1
      OBVIOUS
    <3>2. <<b, d>> \in Seq(Block) /\ Len(<<b, d>>) = 2 /\ <<b, d>>[1] = b /\ <<b, d>>[2] = d
      OBVIOUS
    <3>3. PICK x : x = <<b>> \o <<d>>
      OBVIOUS
    <3>4. /\ x \in Seq(Block) /\ Len(x) = 2
          /\ \A i \in 1..2 : x[i] = IF i <= 1 THEN <<b>>[i] ELSE <<d>>[i - 1]
      BY <3>1, <3>3, ConcatProperties
    <3>5. x[1] = b /\ x[2] = d
      BY <3>4
    <3>6. PICK y \in Seq(Block) : y = <<b, d>>
      BY <3>2
    <3>7. x = y
      <4>1. Len(y) = 2 /\ y[1] = b /\ y[2] = d
        BY <3>2, <3>6
      <4>2. \A i \in 1..2 : i = 1 \/ i = 2
        OBVIOUS
      <4> QED
        BY <3>4, <3>5, <4>1, <4>2, SeqEqual
    <3> QED
      BY <3>3, <3>6, <3>7
  <2>2. Ending(k, m, p) = <<b, d>>
    BY <1>9, <1>11, <2>1
  <2>3. Ended(k, Compress(Compress(h, b), d), m, p)
    BY <1>1, <1>4, <2>2, TwoMore
  <2> QED
    BY <1>1, <1>8, <1>11, <2>3
<1> QED
  BY <1>10, <1>11

LEMMA KmacEnded ==
  ASSUME NEW h, NEW m \in Nat, NEW p \in 0..(Rate - 1), Holds("kmac", h, m, p)
  PROVE  Ended("kmac", KmacFinalize(h), m, p)
<1>1. PICK k \in Hashes : k = "kmac"
  BY DEF Hashes
<1>2. PICK s \in Int : s = m * Rate + 1
  BY <1>1, AtEnd
<1>3. /\ h \in State /\ h.pos = p /\ h.lanes = Blank /\ h.blocks = BlocksOf(k, m)
      /\ Kept(h) = Segment(0, s, p) /\ p \in Places /\ p \in Nat
  <2>1. p \in Nat
    BY RateNat
  <2> QED
    BY <1>1, <1>2, <2>1, AtEnd
<1>4. PICK b \in Block : b = Segment(0, s, p)
  BY MarkIs
<1>5. Kept(h) = b
  BY <1>3, <1>4
<1>6. CASE p + CodeLen >= Rate
  <2>1. PICK c \in Block : c = Over(b)
    BY <1>3, ShapeTypes
  <2>2. PICK d \in Block : d = End(c)
    BY <1>3, ShapeTypes
  <2>3. [i \in Places |-> IF i \in 0..(0 + CodeLen - 1) THEN Code(i - 0)
                          ELSE IF i = 0 + CodeLen THEN Marker ELSE Kept(h)[i]] = c
    <3>1. 0 + CodeLen - 1 = CodeLen - 1 /\ 0 + CodeLen = CodeLen /\ \A i \in Places : i - 0 = i
      BY RateNat DEF Places
    <3> QED
      BY <1>5, <2>1, <3>1 DEF Over
  <2>4. KmacFinalize(h) = Compress(Compress(h, b), d)
    BY <1>3, <1>5, <1>6, <2>2, <2>3 DEF KmacFinalize, End
  <2>5. Ending(k, m, p) = <<b, d>>
    BY <1>1, <1>2, <1>4, <1>6, <2>1, <2>2, RateNat DEF Ending
  <2>6. Ended(k, Compress(Compress(h, b), d), m, p)
    BY <1>1, <1>3, <2>5, TwoMore
  <2> QED
    BY <1>1, <2>4, <2>6
<1>7. CASE p + CodeLen < Rate
  <2>1. p + CodeLen \in Places
    BY <1>3, <1>7, RateNat DEF Places
  <2>2. PICK e \in Block : e = CodeAt(p)
    BY <1>3, ShapeTypes
  <2>3. PICK f \in Block : f = Or(b, e)
    BY <1>3, ShapeTypes
  <2>4. PICK c \in Block : c = Mark(f, p + CodeLen)
    BY <1>3, <2>1, ShapeTypes
  <2>5. PICK d \in Block : d = End(c)
    BY <1>3, ShapeTypes
  <2>6. ASSUME NEW i \in Places
        PROVE  (IF i \in p..(p + CodeLen - 1) THEN Code(i - p)
                ELSE IF i = p + CodeLen THEN Marker ELSE Kept(h)[i]) = c[i]
    <3>1. i \in Nat /\ CodeLen \in Nat \ {0}
      BY RateNat DEF Places
    <3>2. f[i] = b[i] \cup e[i]
      BY <2>3 DEF Or
    <3>3. e[i] = IF i \in p..(p + CodeLen - 1) THEN Code(i - p) ELSE {}
      BY <2>2 DEF CodeAt
    <3>4. b[i] = IF i < p THEN {s + i} ELSE {}
      BY <1>3, <1>4, <3>1 DEF Segment
    <3>5. c[i] = IF i = p + CodeLen THEN f[i] \cup Marker ELSE f[i]
      BY <2>1, <2>4 DEF Mark, Block
    <3>6. CASE i \in p..(p + CodeLen - 1)
      <4>1. b[i] = {} /\ i # p + CodeLen
        BY <1>3, <3>1, <3>4, <3>6
      <4> QED
        BY <3>2, <3>3, <3>5, <3>6, <4>1
    <3>7. CASE i = p + CodeLen
      <4>1. b[i] = {} /\ i \notin p..(p + CodeLen - 1)
        BY <1>3, <3>1, <3>4, <3>7
      <4> QED
        BY <3>2, <3>3, <3>5, <3>7, <4>1
    <3>8. CASE i \notin p..(p + CodeLen - 1) /\ i # p + CodeLen
      BY <1>5, <3>2, <3>3, <3>5, <3>8
    <3> QED
      BY <3>6, <3>7, <3>8
  <2>7. [i \in Places |-> IF i \in p..(p + CodeLen - 1) THEN Code(i - p)
                          ELSE IF i = p + CodeLen THEN Marker ELSE Kept(h)[i]] = c
    BY <2>6 DEF Block
  <2>8. KmacFinalize(h) = Compress(h, d)
    <3>1. ~(p + CodeLen >= Rate)
      BY <1>3, <1>7, RateNat
    <3> QED
      BY <1>3, <2>5, <2>7, <3>1 DEF KmacFinalize, End
  <2>9. Ending(k, m, p) = <<d>>
    BY <1>1, <1>2, <1>4, <1>7, <2>2, <2>3, <2>4, <2>5 DEF Ending
  <2>10. Ended(k, Compress(h, d), m, p)
    BY <1>1, <1>3, <2>9, OneMore
  <2> QED
    BY <1>1, <2>8, <2>10
<1> QED
  BY <1>3, <1>6, <1>7, RateNat

LEMMA IncrementalEnded ==
  ASSUME NEW h, NEW m \in Nat, NEW p \in 0..(Rate - 1), Holds("incremental", h, m, p)
  PROVE  Ended("incremental", IncrementalFinalize(h), m, p)
<1>1. PICK s \in Nat : s = m * Rate + 1
  BY NextBlock
<1>2. /\ h \in State /\ h.pos = p /\ h.lanes = Segment(0, s, p) /\ h.blocks = BlocksOf("incremental", m)
      /\ p \in Places /\ p \in Nat /\ Rate - 1 \in Places /\ 0 \in 0..Rate
  BY <1>1, RateNat DEF Holds, Places
<1> s \in Int
  OBVIOUS
<1> Marker \subseteq Int /\ EndMark \subseteq Int
  BY DEF Marker, EndMark
<1>3. PICK b \in Block : b = Segment(0, s, p)
  BY MarkIs
<1>4. PICK c \in Block : c = Mark(b, p)
  BY <1>2, ShapeTypes
<1>5. PICK d \in Block : d = End(c)
  BY <1>2, ShapeTypes
<1>6. PICK u \in Block : u = [Blank EXCEPT ![p] = Marker]
  BY <1>2, BlankType DEF Block
<1>7. PICK v \in Block : v = [Blank EXCEPT ![Rate - 1] = EndMark]
  BY <1>2, BlankType DEF Block
<1>8. \A i \in Places : /\ u[i] = IF i = p THEN Marker ELSE {}
                        /\ v[i] = IF i = Rate - 1 THEN EndMark ELSE {}
  BY <1>6, <1>7, BlankType DEF Block
<1>9. /\ b[p] = {} /\ \A i \in Places : c[i] = IF i = p THEN b[p] \cup Marker ELSE b[i]
      /\ \A i \in Places : d[i] = IF i = Rate - 1 THEN c[i] \cup EndMark ELSE c[i]
  <2>1. b[p] = {}
    BY <1>3, MarkIs
  <2>2. \A i \in Places : c[i] = IF i = p THEN b[p] \cup Marker ELSE b[i]
    BY <1>2, <1>4 DEF Mark, Block
  <2>3. \A i \in Places : d[i] = IF i = Rate - 1 THEN c[i] \cup EndMark ELSE c[i]
    BY <1>2, <1>5 DEF End, Block
  <2> QED
    BY <2>1, <2>2, <2>3
<1>10. \A i \in Places : -2 \notin b[i]
  <2>1. \A i \in Places : i \in Nat /\ s + i # -2
    BY <1>2, RateNat DEF Places
  <2>2. \A i \in Places : b[i] = {} \/ b[i] = {s + i}
    BY <1>2, <1>3, RateNat DEF Segment, Places
  <2> QED
    BY <2>1, <2>2
<1>11. ASSUME NEW i \in Places
       PROVE  SymDiff(SymDiff(b[i], u[i]), v[i]) = d[i]
  <2>1. PICK x : x = SymDiff(b[i], u[i])
    OBVIOUS
  <2>2. x = c[i]
    BY <1>8, <1>9, <2>1 DEF SymDiff
  <2>3. -2 \notin c[i]
    BY <1>9, <1>10 DEF Marker
  <2>4. SymDiff(c[i], v[i]) = d[i]
    BY <1>8, <1>9, <2>3 DEF SymDiff, EndMark
  <2> QED
    BY <2>1, <2>2, <2>4
<1>12. Sum(Sum(b, u), v) = d
  <2>1. PICK x \in Block : x = Sum(b, u)
    BY SumType
  <2>2. \A i \in Places : x[i] = SymDiff(b[i], u[i])
    BY <2>1, SumType
  <2>3. PICK y \in Block : y = Sum(x, v)
    BY SumType
  <2>4. \A i \in Places : y[i] = SymDiff(x[i], v[i])
    BY <2>3, SumType
  <2>5. \A i \in Places : y[i] = d[i]
    BY <1>11, <2>2, <2>4
  <2>6. y = d
    BY <2>5 DEF Block
  <2> QED
    BY <2>1, <2>3, <2>6
<1>13. IncrementalFinalize(h) = [h EXCEPT !.lanes = d, !.pos = 0]
  <2>1. Xor(h, u) = [h EXCEPT !.lanes = Sum(b, u)]
    BY <1>2, <1>3 DEF Xor
  <2>2. PICK x : x = Sum(b, u)
    OBVIOUS
  <2>3. Xor([h EXCEPT !.lanes = x], v) = [h EXCEPT !.lanes = Sum(x, v)]
    BY <1>2 DEF Xor, State
  <2>4. IncrementalFinalize(h) = [Xor(Xor(h, u), v) EXCEPT !.pos = 0]
    BY <1>2, <1>6, <1>7 DEF IncrementalFinalize
  <2>5. IncrementalFinalize(h) = [[h EXCEPT !.lanes = d] EXCEPT !.pos = 0]
    BY <1>12, <2>1, <2>2, <2>3, <2>4
  <2> QED
    BY <1>2, <2>5 DEF State
<1>14. PICK g : g = [h EXCEPT !.lanes = d, !.pos = 0]
  OBVIOUS
<1>15. g \in State
  BY <1>2, <1>14 DEF State
<1>16. g.blocks = BlocksOf("incremental", m) /\ g.lanes = d
  BY <1>2, <1>14 DEF State
<1>17. Ending("incremental", m, p) = <<d>>
  BY <1>1, <1>3, <1>4, <1>5 DEF Ending
<1>18. Append(g.blocks, g.lanes) = BlocksOf("incremental", m) \o <<d>>
  BY <1>15, <1>16, AppendTwo DEF State
<1> QED
  BY <1>13, <1>14, <1>15, <1>16, <1>17, <1>18 DEF Ended

LEMMA FinalizedEnded ==
  ASSUME NEW k \in Hashes, NEW h, NEW m \in Nat, NEW p \in 0..(Rate - 1), Holds(k, h, m, p),
         k \in Counting => h.count = m * Rate
  PROVE  Ended(k, Finalized(k, h), m, p)
<1>1. CASE k = "sha2"
  BY <1>1, Sha2Ended DEF Finalized, Counting
<1>2. CASE k = "sha3"
  BY <1>2, Sha3Ended DEF Finalized
<1>3. CASE k = "kmac"
  BY <1>3, KmacEnded DEF Finalized
<1>4. CASE k = "kpa"
  BY <1>4, KpaEnded DEF Finalized, Counting
<1>5. CASE k = "poly1305"
  BY <1>5, PolyEnded DEF Finalized
<1>6. CASE k = "incremental"
  BY <1>6, IncrementalEnded DEF Finalized
<1> QED
  BY <1>1, <1>2, <1>3, <1>4, <1>5, <1>6 DEF Hashes

LEMMA CutIs ==
  ASSUME NEW n \in Nat, NEW m \in Nat, NEW p \in 0..(Rate - 1), n = m * Rate + p
  PROVE  n \div Rate = m /\ n % Rate = p
<1>1. PICK d \in Nat \ {0} : d = Rate
  BY RateNat
<1>2. n = d * m + p
  BY <1>1
<1>3. n \div d = m /\ n % d = p
  BY <1>1, <1>2, DivUnique
<1> QED
  BY <1>1, <1>3

\* The padded message is its whole blocks and what is added to them.
LEMMA PaddedIs ==
  ASSUME NEW k \in Hashes, NEW n \in Nat, NEW m \in Nat, NEW p \in 0..(Rate - 1), n = m * Rate + p,
         k = "kmac" => p + CodeLen < Rate
  PROVE  Padded(k, n) = BlocksOf(k, m) \o Ending(k, m, p)
<1>1. n \div Rate = m /\ n % Rate = p
  BY CutIs
<1>2. PICK s \in Int : s = m * Rate + 1
  BY NextBlock
<1>3. n - p + 1 = s
  BY <1>2, NextBlock
<1>4. PICK b : b = Segment(0, s, p)
  OBVIOUS
<1>5. CASE k = "sha2"
  <2>1. Ending(k, m, p) = IF p + 1 + LenField <= Rate THEN <<Or(Mark(b, p), Field(n))>>
                        ELSE <<Mark(b, p), Field(n)>>
    BY <1>2, <1>4, <1>5 DEF Ending
  <2>2. Padded(k, n) = BlocksOf(k, m) \o IF p + 1 + LenField <= Rate THEN <<Or(Mark(b, p), Field(n))>>
                                         ELSE <<Mark(b, p), Field(n)>>
    BY <1>1, <1>3, <1>4, <1>5 DEF Padded, BlocksOf, Or, Mark, Field
  <2> QED
    BY <2>1, <2>2
<1>6. CASE k \in {"sha3", "incremental"}
  <2>1. Ending(k, m, p) = <<End(Mark(b, p))>>
    BY <1>2, <1>4, <1>6 DEF Ending
  <2>2. Padded(k, n) = BlocksOf(k, m) \o <<End(Mark(b, p))>>
    BY <1>1, <1>3, <1>4, <1>6 DEF Padded, BlocksOf, Mark, End
  <2> QED
    BY <2>1, <2>2
<1>7. CASE k = "kmac"
  <2>1. Ending(k, m, p) = <<End(Mark(Or(b, CodeAt(p)), p + CodeLen))>>
    BY <1>2, <1>4, <1>7 DEF Ending
  <2>2. Padded(k, n) = BlocksOf(k, m) \o <<End(Mark(Or(b, CodeAt(p)), p + CodeLen))>>
    BY <1>1, <1>3, <1>4, <1>7 DEF Padded, BlocksOf, Mark, End, Or, CodeAt
  <2> QED
    BY <2>1, <2>2
<1>8. CASE k = "kpa"
  <2>1. Ending(k, m, p) = (IF p = 0 THEN <<>> ELSE <<b>>) \o <<Root(n)>>
    BY <1>2, <1>4, <1>8 DEF Ending
  <2>2. Padded(k, n) = BlocksOf(k, m) \o ((IF p = 0 THEN <<>> ELSE <<b>>) \o <<Root(n)>>)
    BY <1>1, <1>3, <1>4, <1>8 DEF Padded, BlocksOf, Root, End
  <2> QED
    BY <2>1, <2>2
<1>9. CASE k = "poly1305"
  <2>1. Ending(k, m, p) = IF p = 0 THEN <<>> ELSE <<Mark(b, p)>>
    BY <1>2, <1>4, <1>9 DEF Ending
  <2>2. Padded(k, n) = BlocksOf(k, m) \o IF p = 0 THEN <<>> ELSE <<Mark(b, p)>>
    BY <1>1, <1>3, <1>4, <1>9 DEF Padded, BlocksOf, Mark
  <2> QED
    BY <2>1, <2>2
<1> QED
  BY <1>5, <1>6, <1>7, <1>8, <1>9 DEF Hashes

-----------------------------------------------------------------------------
(* The output *)

Byte == Nat \X Nat \X Nat

\* The bytes t have been given, in order, and N can be the next one; z says that
\* the first key is still in use.
Ready(t, N, z) ==
  /\ t \in Seq(Byte) /\ N \in Byte
  /\ \A i \in 1..(Len(t) - 1) : Follows(t[i], t[i + 1])
  /\ t # <<>> => Follows(t[Len(t)], N)
  /\ LET f == IF t = <<>> THEN N ELSE t[1] IN f[3] = 0 /\ (z => f[2] = 1)

LEMMA ByteIs ==
  ASSUME NEW a \in Nat, NEW b \in Nat, NEW c \in Nat
  PROVE  <<a, b, c>> \in Byte /\ <<a, b, c>>[1] = a /\ <<a, b, c>>[2] = b /\ <<a, b, c>>[3] = c
BY DEF Byte

\* A piece of output that begins with the byte it should.
LEMMA MoreReady ==
  ASSUME NEW t, NEW N, NEW z \in BOOLEAN, Ready(t, N, z), NEW s \in Seq(Byte), NEW M \in Byte,
         \A i \in 1..(Len(s) - 1) : Follows(s[i], s[i + 1]),
         IF s = <<>> THEN M = N ELSE s[1] = N /\ Follows(s[Len(s)], M)
  PROVE  Ready(t \o s, M, z)
<1>1. t \in Seq(Byte) /\ N \in Byte
  BY DEF Ready
<1>2. CASE s = <<>>
  <2>1. t \o s = t
    BY <1>1, <1>2, ConcatEmptySeq
  <2> QED
    BY <1>2, <2>1
<1>3. CASE s # <<>>
  <2>1. Len(s) \in Nat \ {0} /\ Len(t) \in Nat
    BY <1>1, <1>3, EmptySeq, LenProperties
  <2>2. PICK u : u = t \o s
    OBVIOUS
  <2>3. /\ u \in Seq(Byte) /\ Len(u) = Len(t) + Len(s)
        /\ \A i \in 1..(Len(t) + Len(s)) : u[i] = IF i <= Len(t) THEN t[i] ELSE s[i - Len(t)]
    BY <1>1, <2>2, ConcatProperties
  <2>4. u # <<>> /\ u[Len(u)] = s[Len(s)]
    BY <2>1, <2>3
  <2>5. Follows(u[Len(u)], M)
    BY <1>3, <2>4
  <2>6. ASSUME NEW i \in 1..(Len(u) - 1) PROVE Follows(u[i], u[i + 1])
    <3>1. CASE i < Len(t)
      <4>1. u[i] = t[i] /\ u[i + 1] = t[i + 1] /\ i \in 1..(Len(t) - 1)
        BY <2>1, <2>3, <3>1
      <4> QED
        BY <4>1 DEF Ready
    <3>2. CASE i = Len(t)
      <4>1. u[i] = t[Len(t)] /\ u[i + 1] = s[1] /\ t # <<>>
        BY <2>1, <2>3, <3>2
      <4> QED
        BY <1>3, <4>1 DEF Ready
    <3>3. CASE i > Len(t)
      <4>1. u[i] = s[i - Len(t)] /\ u[i + 1] = s[i - Len(t) + 1] /\ i - Len(t) \in 1..(Len(s) - 1)
        BY <2>1, <2>3, <3>3
      <4> QED
        BY <4>1
    <3> QED
      BY <2>1, <2>3, <3>1, <3>2, <3>3
  <2>7. u[1][3] = 0 /\ (z => u[1][2] = 1)
    <3>1. CASE t = <<>>
      <4>1. Len(t) = 0 /\ u[1] = s[1]
        BY <2>1, <2>3, <3>1
      <4> QED
        BY <1>3, <3>1, <4>1 DEF Ready
    <3>2. CASE t # <<>>
      <4>1. Len(t) \in Nat \ {0}
        BY <1>1, <3>2, EmptySeq
      <4>2. u[1] = t[1]
        BY <2>1, <2>3, <4>1
      <4> QED
        BY <3>2, <4>2 DEF Ready
    <3> QED
      BY <3>1, <3>2
  <2> QED
    BY <2>2, <2>3, <2>4, <2>5, <2>6, <2>7 DEF Ready
<1> QED
  BY <1>2, <1>3

LEMMA RunIs ==
  ASSUME NEW key \in Nat, NEW b \in Nat, NEW at \in Nat, NEW len \in Nat
  PROVE  /\ Run(key, b, at, len) \in Seq(Byte) /\ Len(Run(key, b, at, len)) = len
         /\ \A i \in 1..len : Run(key, b, at, len)[i] = <<key, b, at + i - 1>>
<1> DEFINE E(i) == <<key, b, at + i - 1>>
<1>1. \A i \in 1..len : at + i - 1 \in Nat /\ E(i) \in Byte
  BY ByteIs
<1>2. Run(key, b, at, len) = [i \in 1..len |-> E(i)]
  BY DEF Run
<1> HIDE DEF E
<1>3. PICK s : s = [i \in 1..len |-> E(i)]
  OBVIOUS
<1>4. s \in Seq(Byte) /\ Len(s) = len /\ \A i \in 1..len : s[i] = E(i)
  BY <1>1, <1>3
<1> QED
  BY <1>2, <1>3, <1>4 DEF E

LEMMA RunType ==
  ASSUME NEW key \in Nat, NEW b \in Nat, NEW at \in Nat, NEW len \in Nat
  PROVE  Run(key, b, at, len) \in Seq(Byte)
BY RunIs

LEMMA RunLen ==
  ASSUME NEW key \in Nat, NEW b \in Nat, NEW at \in Nat, NEW len \in Nat
  PROVE  Len(Run(key, b, at, len)) = len
BY RunIs

\* Bytes of one block.
LEMMA RunReady ==
  ASSUME NEW t, NEW z \in BOOLEAN, NEW key \in Nat, NEW b \in Nat, NEW at \in Nat, NEW len \in Nat,
         Ready(t, <<key, b, at>>, z)
  PROVE  Ready(t \o Run(key, b, at, len), <<key, b, at + len>>, z)
<1>1. PICK s : s = Run(key, b, at, len)
  OBVIOUS
<1>3. s \in Seq(Byte) /\ Len(s) = len /\ \A i \in 1..len : s[i] = <<key, b, at + i - 1>>
  <2>1. s \in Seq(Byte)
    BY <1>1, RunType
  <2>2. Len(s) = len
    BY <1>1, RunLen
  <2>3. \A i \in 1..len : s[i] = <<key, b, at + i - 1>>
    BY <1>1 DEF Run
  <2> QED
    BY <2>1, <2>2, <2>3
<1>4. \A i \in Nat, j \in Nat : j = i + 1 => Follows(<<key, b, i>>, <<key, b, j>>)
  BY DEF Follows
<1>5. ASSUME NEW i \in 1..(Len(s) - 1) PROVE Follows(s[i], s[i + 1])
  <2>1. s[i] = <<key, b, at + i - 1>> /\ s[i + 1] = <<key, b, at + (i + 1) - 1>>
    BY <1>3
  <2>2. at + (i + 1) - 1 = (at + i - 1) + 1 /\ at + i - 1 \in Nat /\ at + (i + 1) - 1 \in Nat
    OBVIOUS
  <2> QED
    BY <1>4, <2>1, <2>2
<1>6. <<key, b, at + len>> \in Byte
  BY ByteIs
<1>7. IF s = <<>> THEN <<key, b, at + len>> = <<key, b, at>>
      ELSE s[1] = <<key, b, at>> /\ Follows(s[Len(s)], <<key, b, at + len>>)
  <2>1. CASE len = 0
    <3>1. s = <<>> /\ at + len = at
      BY <1>3, <2>1, EmptySeq
    <3> QED
      BY <3>1
  <2>2. CASE len # 0
    <3>1. s # <<>> /\ s[1] = <<key, b, at + 1 - 1>> /\ s[Len(s)] = <<key, b, at + len - 1>>
      BY <1>3, <2>2
    <3>2. at + 1 - 1 = at /\ at + len = (at + len - 1) + 1 /\ at + len - 1 \in Nat /\ at + len \in Nat
      BY <2>2
    <3> QED
      BY <1>4, <3>1, <3>2
  <2> QED
    BY <2>1, <2>2
<1>8. Ready(t \o s, <<key, b, at + len>>, z)
  BY <1>3, <1>5, <1>6, <1>7, MoreReady
<1> QED
  BY <1>1, <1>3, <1>8

\* The end of a block is the beginning of the next.
LEMMA WrapReady ==
  ASSUME NEW t, NEW z \in BOOLEAN, NEW key \in Nat, NEW b \in Nat, NEW later \in Nat, key <= later,
         Ready(t, <<key, b, Rate>>, z)
  PROVE  Ready(t, <<later, b + 1, 0>>, z)
<1>1. Rate \in Nat \ {0} /\ <<key, b, Rate>>[3] = Rate
  BY RateNat
<1>2. t # <<>>
  BY <1>1 DEF Ready
<1>3. <<later, b + 1, 0>> \in Byte
  BY ByteIs
<1>4. PICK L \in Byte : L = t[Len(t)]
  BY <1>2, EmptySeq, ElementOfSeq DEF Ready
<1>5. PICK x \in Nat, y \in Nat, w \in Nat : L = <<x, y, w>>
  BY <1>4 DEF Byte
<1>6. Follows(<<x, y, w>>, <<key, b, Rate>>)
  BY <1>2, <1>4, <1>5 DEF Ready
<1>7. x = key /\ y = b /\ w + 1 = Rate
  BY <1>1, <1>6 DEF Follows
<1>8. Follows(<<x, y, w>>, <<later, b + 1, 0>>)
  BY <1>1, <1>7 DEF Follows
<1> QED
  BY <1>2, <1>3, <1>4, <1>5, <1>8 DEF Ready

\* The first byte of a block may be of a later key instead.
LEMMA KeyReady ==
  ASSUME NEW t, NEW z \in BOOLEAN, NEW key \in Nat, NEW b \in Nat, NEW later \in Nat, key <= later,
         Ready(t, <<key, b, 0>>, z)
  PROVE  Ready(t, <<later, b, 0>>, z)
<1>1. <<later, b, 0>> \in Byte
  BY ByteIs
<1>2. CASE t = <<>>
  BY <1>1, <1>2 DEF Ready
<1>3. CASE t # <<>>
  <2>1. PICK L \in Byte : L = t[Len(t)]
    BY <1>3, EmptySeq, ElementOfSeq DEF Ready
  <2>2. PICK x \in Nat, y \in Nat, w \in Nat : L = <<x, y, w>>
    BY <2>1 DEF Byte
  <2>3. Follows(<<x, y, w>>, <<key, b, 0>>)
    BY <1>3, <2>1, <2>2 DEF Ready
  <2>4. Follows(<<x, y, w>>, <<later, b, 0>>)
    BY <2>3, RateNat DEF Follows
  <2> QED
    BY <1>1, <1>3, <2>1, <2>2, <2>4 DEF Ready
<1> QED
  BY <1>2, <1>3

\* Another key takes a new block at any time.
LEMMA NewKeyReady ==
  ASSUME NEW t, NEW z \in BOOLEAN, NEW key \in Nat, NEW b \in Nat, NEW at \in Nat,
         NEW later \in Nat, NEW next \in Nat, key < later, b <= next,
         Ready(t, <<key, b, at>>, z)
  PROVE  Ready(t, <<later, next + 1, 0>>, FALSE)
<1>1. <<later, next + 1, 0>> \in Byte /\ <<later, next + 1, 0>>[3] = 0
  BY ByteIs
<1>2. CASE t = <<>>
  BY <1>1, <1>2 DEF Ready
<1>3. CASE t # <<>>
  <2>1. PICK L \in Byte : L = t[Len(t)]
    BY <1>3, EmptySeq, ElementOfSeq DEF Ready
  <2>2. PICK x \in Nat, y \in Nat, w \in Nat : L = <<x, y, w>>
    BY <2>1 DEF Byte
  <2>3. Follows(<<x, y, w>>, <<key, b, at>>)
    BY <1>3, <2>1, <2>2 DEF Ready
  <2>4. x <= key /\ y <= b
    BY <2>3 DEF Follows
  <2>5. Follows(<<x, y, w>>, <<later, next + 1, 0>>)
    BY <2>4 DEF Follows
  <2> QED
    BY <1>1, <1>3, <2>1, <2>2, <2>5 DEF Ready
<1> QED
  BY <1>2, <1>3

\* Bytes of whole blocks and of the beginning of one more.
LEMMA BlocksReady ==
  ASSUME NEW t, NEW z \in BOOLEAN, NEW key \in Nat, NEW b \in Nat, NEW len \in Nat,
         Ready(t, <<key, b, 0>>, z)
  PROVE  /\ Blocks(key, b, len) \in Seq(Byte)
         /\ Ready(t \o Blocks(key, b, len), <<key, b + (len \div Rate), len % Rate>>, z)
         /\ len > 0 => Ready(t \o Blocks(key, b, len),
                             <<key, b + ((len - 1) \div Rate), ((len - 1) % Rate) + 1>>, z)
<1>0. PICK d \in Nat \ {0} : d = Rate
  BY RateNat
<1>1. \A i \in Nat : \E q \in Nat, r \in 0..(d - 1) : i = q * d + r /\ i \div Rate = q /\ i % Rate = r
  BY <1>0, CutIn
<1>2. PICK s : s = Blocks(key, b, len)
  OBVIOUS
<1> DEFINE E(i) == <<key, b + (i \div Rate), i % Rate>>
<1>3. ASSUME NEW i \in Nat PROVE E(i) \in Byte
  <2>1. PICK q \in Nat, r \in 0..(d - 1) : i \div Rate = q /\ i % Rate = r
    BY <1>1
  <2>2. E(i) = <<key, b + q, r>> /\ r \in Nat /\ b + q \in Nat
    BY <2>1
  <2> HIDE DEF E
  <2> QED
    BY <2>2, ByteIs
<1>4. s = [i \in 1..len |-> E(i - 1)]
  BY <1>2 DEF Blocks
<1>5. \A i \in 1..len : E(i - 1) \in Byte
  BY <1>3
<1>6. ASSUME NEW i \in Nat PROVE Follows(E(i), E(i + 1))
  <2>1. PICK q \in Nat, r \in 0..(d - 1) : i = q * d + r /\ i \div Rate = q /\ i % Rate = r
    BY <1>1
  <2>2. E(i) = <<key, b + q, r>>
    BY <2>1
  <2>3. CASE r < d - 1
    <3>1. PICK j \in Nat : j = i + 1
      OBVIOUS
    <3>2. j = q * Rate + (r + 1) /\ r + 1 \in 0..(Rate - 1)
      BY <1>0, <2>1, <2>3, <3>1
    <3>3. j \div Rate = q /\ j % Rate = r + 1
      <4>1. PICK r1 \in 0..(Rate - 1) : r1 = r + 1
        BY <3>2
      <4>2. j = q * Rate + r1
        BY <3>2, <4>1
      <4> QED
        BY <4>1, <4>2, CutIs
    <3>4. E(i + 1) = <<key, b + q, r + 1>>
      BY <3>1, <3>3
    <3> HIDE DEF E
    <3> QED
      BY <2>2, <3>4 DEF Follows
  <2>4. CASE r = d - 1
    <3>1. PICK j \in Nat : j = i + 1
      OBVIOUS
    <3>2. j = (q + 1) * Rate + 0
      <4>1. (q + 1) * d = q * d + d
        OBVIOUS
      <4> QED
        BY <1>0, <2>1, <2>4, <3>1, <4>1
    <3>3. j \div Rate = q + 1 /\ j % Rate = 0
      <4>1. q + 1 \in Nat /\ 0 \in 0..(Rate - 1)
        BY <1>0
      <4> QED
        BY <3>2, <4>1, CutIs
    <3>4. E(i + 1) = <<key, b + (q + 1), 0>>
      BY <3>1, <3>3
    <3> HIDE DEF E
    <3> QED
      BY <1>0, <2>2, <2>4, <3>4 DEF Follows
  <2> QED
    BY <2>3, <2>4
<1> HIDE DEF E
<1>7. s \in Seq(Byte) /\ Len(s) = len /\ \A i \in 1..len : s[i] = E(i - 1)
  BY <1>4, <1>5
<1>8. ASSUME NEW i \in 1..(Len(s) - 1) PROVE Follows(s[i], s[i + 1])
  <2>1. s[i] = E(i - 1) /\ s[i + 1] = E((i + 1) - 1)
    BY <1>7
  <2>2. PICK j \in Nat : j = i - 1
    BY <1>7
  <2>3. (i + 1) - 1 = j + 1
    BY <2>2
  <2> QED
    BY <1>6, <2>1, <2>2, <2>3
<1>9. E(0) = <<key, b, 0>>
  <2>1. 0 = 0 * Rate + 0 /\ 0 \in 0..(Rate - 1)
    BY <1>0
  <2>2. 0 \div Rate = 0 /\ 0 % Rate = 0
    BY <2>1, CutIs
  <2>3. b + 0 = b
    OBVIOUS
  <2> QED
    BY <2>2, <2>3 DEF E
<1>10. IF s = <<>> THEN E(len) = <<key, b, 0>> ELSE s[1] = <<key, b, 0>> /\ Follows(s[Len(s)], E(len))
  <2>1. CASE len = 0
    BY <1>7, <1>9, <2>1, EmptySeq
  <2>2. CASE len # 0
    <3>1. PICK j \in Nat : j = len - 1
      BY <2>2
    <3>2. s # <<>> /\ s[1] = E(1 - 1) /\ s[Len(s)] = E(j) /\ 1 - 1 = 0 /\ len = j + 1
      BY <1>7, <2>2, <3>1
    <3> QED
      BY <1>6, <1>9, <3>2
  <2> QED
    BY <2>1, <2>2
<1>11. E(len) \in Byte
  BY <1>3
<1>12. Ready(t \o s, E(len), z)
  BY <1>7, <1>8, <1>10, <1>11, MoreReady
<1>13. ASSUME len > 0
       PROVE  Ready(t \o s, <<key, b + ((len - 1) \div Rate), ((len - 1) % Rate) + 1>>, z)
  <2>1. PICK j \in Nat : j = len - 1
    BY <1>13
  <2>2. PICK q \in Nat, r \in 0..(d - 1) : j \div Rate = q /\ j % Rate = r
    BY <1>1
  <2>3. E(j) = <<key, b + q, r>> /\ r \in Nat /\ r + 1 \in Nat /\ b + q \in Nat
    BY <2>2 DEF E
  <2>4. PICK M \in Byte : M = <<key, b + q, r + 1>>
    BY <2>3, ByteIs
  <2>5. Follows(E(j), M)
    BY <2>3, <2>4 DEF Follows
  <2>6. s # <<>> /\ s[1] = E(1 - 1) /\ s[Len(s)] = E(j) /\ 1 - 1 = 0
    BY <1>7, <1>13, <2>1
  <2>7. s[1] = <<key, b, 0>> /\ Follows(s[Len(s)], M)
    BY <1>9, <2>5, <2>6
  <2>8. Ready(t \o s, M, z)
    BY <1>7, <1>8, <2>6, <2>7, MoreReady
  <2> QED
    BY <2>1, <2>2, <2>4, <2>8
<1> QED
  BY <1>2, <1>7, <1>12, <1>13 DEF E

-----------------------------------------------------------------------------
(* A generator, its kept block and what it has given *)

GenState == [cache : [0..(Rate - 1) -> Byte], cpos : 0..Rate, crmd : 0..Rate, next : Nat,
             key : Nat, bctr : Nat, pres : BOOLEAN]

\* What g still keeps is the rest of its last block, of a key not later than
\* its own, and this is what follows the bytes t.
Keeps(k, g, t) ==
  /\ g \in GenState /\ g.crmd = Rate - g.cpos
  /\ \E key \in 0..g.key :
       /\ k = "csg" => key = g.key
       /\ \A i \in g.cpos..(Rate - 1) : g.cache[i] = <<key, g.next, i>>
       /\ Ready(t, <<key, g.next, g.cpos>>, g.key = 0)

LEMMA FilledIs ==
  ASSUME NEW g \in GenState
  PROVE  /\ Filled(g) \in GenState /\ Filled(g).cpos = 0 /\ Filled(g).crmd = Rate
         /\ Filled(g).next = g.next + 1 /\ Filled(g).key = g.key
         /\ \A i \in 0..(Rate - 1) : Filled(g).cache[i] = <<g.key, g.next + 1, i>>
<1> DEFINE E(i) == <<g.key, g.next + 1, i>>
<1>1. ASSUME NEW i \in 0..(Rate - 1) PROVE E(i) \in Byte
  <2>1. g.key \in Nat /\ g.next + 1 \in Nat /\ i \in Nat
    BY RateNat DEF GenState
  <2> QED
    BY <2>1, ByteIs
<1>2. PICK c : c = [i \in 0..(Rate - 1) |-> E(i)]
  OBVIOUS
<1> HIDE DEF E
<1>3. c \in [0..(Rate - 1) -> Byte] /\ \A i \in 0..(Rate - 1) : c[i] = E(i)
  BY <1>1, <1>2
<1>4. Filled(g) = [g EXCEPT !.next = g.next + 1, !.cpos = 0, !.crmd = Rate, !.cache = c]
  BY <1>2 DEF Filled, GenState, E
<1>5. 0 \in 0..Rate /\ Rate \in 0..Rate /\ g.next + 1 \in Nat
  BY RateNat DEF GenState
<1>6. PICK f : f = [g EXCEPT !.next = g.next + 1, !.cpos = 0, !.crmd = Rate, !.cache = c]
  OBVIOUS
<1>7. f \in GenState
  BY <1>3, <1>5, <1>6 DEF GenState
<1>8. f.cpos = 0 /\ f.crmd = Rate /\ f.next = g.next + 1 /\ f.key = g.key /\ f.cache = c
  BY <1>6 DEF GenState
<1> QED
  BY <1>3, <1>4, <1>6, <1>7, <1>8 DEF E

LEMMA RekeyedIs ==
  ASSUME NEW g \in GenState
  PROVE  /\ Rekeyed(g) \in GenState /\ Rekeyed(g).key = g.key + 1 /\ Rekeyed(g).next = g.next
         /\ Rekeyed(g).cpos = g.cpos /\ Rekeyed(g).crmd = g.crmd /\ Rekeyed(g).cache = g.cache
BY DEF Rekeyed, GenState

LEMMA ReadyWeaker ==
  ASSUME NEW t, NEW N, NEW z, Ready(t, N, z)
  PROVE  Ready(t, N, FALSE)
BY DEF Ready

\* A new key with a new block: what was kept is dropped.
LEMMA NewKeyKeeps ==
  ASSUME NEW k, NEW g, NEW t, Keeps(k, g, t)
  PROVE  Keeps(k, Filled(Rekeyed(g)), t)
<1>1. g \in GenState
  BY DEF Keeps
<1>2. PICK key \in 0..g.key : Ready(t, <<key, g.next, g.cpos>>, g.key = 0)
  BY DEF Keeps
<1>3. g.key \in Nat /\ g.next \in Nat /\ g.cpos \in Nat
  BY <1>1, RateNat DEF GenState
<1>4. PICK r : r = Rekeyed(g)
  OBVIOUS
<1>5. r \in GenState /\ r.key = g.key + 1 /\ r.next = g.next
  BY <1>1, <1>4, RekeyedIs
<1>6. PICK f : f = Filled(r)
  OBVIOUS
<1>7. /\ f \in GenState /\ f.cpos = 0 /\ f.crmd = Rate /\ f.next = r.next + 1 /\ f.key = r.key
      /\ \A i \in 0..(Rate - 1) : f.cache[i] = <<r.key, r.next + 1, i>>
  BY <1>5, <1>6, FilledIs, Zenon
<1>8. Ready(t, <<g.key + 1, g.next + 1, 0>>, FALSE)
  <2>1. PICK a \in Nat : a = g.key + 1
    BY <1>3
  <2>2. PICK z \in BOOLEAN : z = (g.key = 0)
    OBVIOUS
  <2>3. Ready(t, <<key, g.next, g.cpos>>, z)
    BY <1>2, <2>2
  <2>4. PICK n \in Nat, c \in Nat : n = g.next /\ c = g.cpos
    BY <1>3
  <2>5. key \in Nat /\ key < a
    BY <1>3, <2>1
  <2>6. Ready(t, <<key, n, c>>, z)
    BY <2>3, <2>4
  <2>7. n <= n
    OBVIOUS
  <2>8. Ready(t, <<a, n + 1, 0>>, FALSE)
    BY <2>5, <2>6, <2>7, NewKeyReady, Zenon
  <2> QED
    BY <2>1, <2>4, <2>8
<1>9. (f.key = 0) = FALSE /\ f.crmd = Rate - f.cpos /\ f.key \in 0..f.key
  BY <1>3, <1>5, <1>7, RateNat
<1>10. Ready(t, <<f.key, f.next, f.cpos>>, f.key = 0)
  BY <1>5, <1>7, <1>8, <1>9
<1>11. \A i \in f.cpos..(Rate - 1) : f.cache[i] = <<f.key, f.next, i>>
  BY <1>7
<1>12. Keeps(k, f, t)
  BY <1>7, <1>9, <1>10, <1>11 DEF Keeps
<1> QED
  BY <1>4, <1>6, <1>12

\* HCG goes on with the block it keeps.
LEMMA RekeyedKeeps ==
  ASSUME NEW g, NEW t, Keeps("hcg", g, t)
  PROVE  Keeps("hcg", Rekeyed(g), t)
<1>1. g \in GenState /\ g.crmd = Rate - g.cpos
  BY DEF Keeps
<1>2. PICK key \in 0..g.key :
        /\ \A i \in g.cpos..(Rate - 1) : g.cache[i] = <<key, g.next, i>>
        /\ Ready(t, <<key, g.next, g.cpos>>, g.key = 0)
  BY DEF Keeps
<1>3. PICK r : r = Rekeyed(g)
  OBVIOUS
<1>4. /\ r \in GenState /\ r.key = g.key + 1 /\ r.next = g.next
      /\ r.cpos = g.cpos /\ r.crmd = g.crmd /\ r.cache = g.cache
  BY <1>1, <1>3, RekeyedIs
<1>5. Ready(t, <<key, g.next, g.cpos>>, FALSE)
  BY <1>2, ReadyWeaker
<1>6. g.key \in Nat
  BY <1>1 DEF GenState
<1>7. (r.key = 0) = FALSE /\ key \in 0..r.key
  BY <1>4, <1>6
<1>8. Ready(t, <<key, r.next, r.cpos>>, r.key = 0)
  BY <1>4, <1>5, <1>7
<1> QED
  BY <1>1, <1>2, <1>3, <1>4, <1>7, <1>8 DEF Keeps

\* The bytes before the position, and the number of bytes since the last new
\* seed, are of no concern to what is kept.
LEMMA SameRestKeeps ==
  ASSUME NEW k, NEW g, NEW f \in GenState, NEW t, Keeps(k, g, t),
         f.cpos = g.cpos, f.crmd = g.crmd, f.next = g.next, f.key = g.key,
         \A i \in g.cpos..(Rate - 1) : f.cache[i] = g.cache[i]
  PROVE  Keeps(k, f, t)
<1>1. PICK key \in 0..g.key :
        /\ k = "csg" => key = g.key
        /\ \A i \in g.cpos..(Rate - 1) : g.cache[i] = <<key, g.next, i>>
        /\ Ready(t, <<key, g.next, g.cpos>>, g.key = 0)
  BY DEF Keeps
<1>2. g.crmd = Rate - g.cpos
  BY DEF Keeps
<1>3. key \in 0..f.key /\ (k = "csg" => key = f.key) /\ f.crmd = Rate - f.cpos
  BY <1>1, <1>2
<1>4. \A i \in f.cpos..(Rate - 1) : f.cache[i] = <<key, f.next, i>>
  BY <1>1
<1>5. Ready(t, <<key, f.next, f.cpos>>, f.key = 0)
  BY <1>1
<1> QED
  BY <1>3, <1>4, <1>5 DEF Keeps

LEMMA ClearedKeeps ==
  ASSUME NEW k, NEW g, NEW t, Keeps(k, g, t)
  PROVE  Keeps(k, Cleared(k, g), t)
<1>1. g \in GenState
  BY DEF Keeps
<1>2. CASE ~(k = "csg" /\ g.crmd # 0)
  <2>1. Cleared(k, g) = g
    BY <1>2 DEF Cleared
  <2> QED
    BY <2>1
<1>3. CASE k = "csg" /\ g.crmd # 0
  <2> DEFINE E(i) == IF i < g.cpos THEN NoByte ELSE g.cache[i]
  <2>1. NoByte \in Byte
    BY ByteIs DEF NoByte
  <2>2. \A i \in 0..(Rate - 1) : E(i) \in Byte
    BY <1>1, <2>1 DEF GenState
  <2>3. \A i \in g.cpos..(Rate - 1) : E(i) = g.cache[i] /\ i \in 0..(Rate - 1)
    BY <1>1, RateNat DEF GenState
  <2>4. DOMAIN g.cache = 0..(Rate - 1)
    BY <1>1 DEF GenState
  <2>5. PICK c : c = [i \in 0..(Rate - 1) |-> E(i)]
    OBVIOUS
  <2>6. Cleared(k, g) = [g EXCEPT !.cache = c]
    BY <1>1, <1>3, <2>4, <2>5 DEF Cleared, GenState
  <2> HIDE DEF E
  <2>7. c \in [0..(Rate - 1) -> Byte] /\ \A i \in 0..(Rate - 1) : c[i] = E(i)
    BY <2>2, <2>5
  <2>8. PICK f : f = [g EXCEPT !.cache = c]
    OBVIOUS
  <2>9. f \in GenState
    BY <1>1, <2>7, <2>8 DEF GenState
  <2>10. f.cpos = g.cpos /\ f.crmd = g.crmd /\ f.next = g.next /\ f.key = g.key /\ f.cache = c
    BY <1>1, <2>8 DEF GenState
  <2>11. \A i \in g.cpos..(Rate - 1) : f.cache[i] = g.cache[i]
    BY <2>3, <2>7, <2>10
  <2>12. Keeps(k, f, t)
    BY <2>9, <2>10, <2>11, SameRestKeeps
  <2> QED
    BY <2>6, <2>8, <2>12
<1> QED
  BY <1>2, <1>3

LEMMA AutoReseedKeeps ==
  ASSUME NEW k, NEW g, NEW t, Keeps(k, g, t)
  PROVE  Keeps(k, AutoReseed(g), t)
<1>1. CASE ~(g.pres /\ g.bctr >= ReseedAt)
  <2>1. AutoReseed(g) = g
    BY <1>1 DEF AutoReseed
  <2> QED
    BY <2>1
<1>2. CASE g.pres /\ g.bctr >= ReseedAt
  <2>1. PICK r : r = Filled(Rekeyed(g))
    OBVIOUS
  <2>2. Keeps(k, r, t)
    BY <2>1, NewKeyKeeps
  <2>3. r \in GenState
    BY <2>2 DEF Keeps
  <2>4. PICK f : f = [r EXCEPT !.bctr = 0]
    OBVIOUS
  <2>5. f \in GenState
    BY <2>3, <2>4 DEF GenState
  <2>6. f.cpos = r.cpos /\ f.crmd = r.crmd /\ f.next = r.next /\ f.key = r.key /\ f.cache = r.cache
    BY <2>3, <2>4 DEF GenState
  <2>7. Keeps(k, f, t)
    BY <2>2, <2>5, <2>6, SameRestKeeps
  <2>8. AutoReseed(g) = f
    BY <1>2, <2>1, <2>4 DEF AutoReseed
  <2> QED
    BY <2>7, <2>8
<1> QED
  BY <1>1, <1>2

\* Of a kept block used bytes are given.
LEMMA GivenKeeps ==
  ASSUME NEW k, NEW g \in GenState, NEW used \in Nat, NEW len \in Nat, NEW t, NEW key \in 0..g.key,
         NEW a \in GenState,
         a = [g EXCEPT !.cpos = @ + used, !.crmd = @ - used, !.bctr = @ + len],
         g.crmd = Rate - g.cpos, k = "csg" => key = g.key,
         \A i \in g.cpos..(Rate - 1) : g.cache[i] = <<key, g.next, i>>,
         Ready(t, <<key, g.next, g.cpos + used>>, g.key = 0)
  PROVE  Keeps(k, a, t)
<1>1. /\ a.cpos = g.cpos + used /\ a.crmd = g.crmd - used /\ a.key = g.key /\ a.next = g.next
      /\ a.cache = g.cache
  BY DEF GenState
<1>2. g.cpos \in Nat /\ g.crmd \in Int /\ Rate \in Nat
  BY RateNat DEF GenState
<1>3. a.crmd = Rate - a.cpos /\ key \in 0..a.key
  BY <1>1, <1>2
<1>4. \A i \in a.cpos..(Rate - 1) : i \in g.cpos..(Rate - 1)
  BY <1>1, <1>2
<1>5. \A i \in a.cpos..(Rate - 1) : a.cache[i] = <<key, a.next, i>>
  BY <1>1, <1>4
<1>6. Ready(t, <<key, a.next, a.cpos>>, a.key = 0)
  BY <1>1
<1>7. k = "csg" => key = a.key
  BY <1>1
<1> QED
  BY <1>3, <1>5, <1>6, <1>7 DEF Keeps

LEMMA GivenType ==
  ASSUME NEW g \in GenState, NEW used \in Nat, NEW len \in Nat, used <= g.crmd, g.crmd = Rate - g.cpos
  PROVE  [g EXCEPT !.cpos = @ + used, !.crmd = @ - used, !.bctr = @ + len] \in GenState
<1>1. PICK c \in 0..Rate, d \in 0..Rate, b \in Nat : c = g.cpos + used /\ d = g.crmd - used /\ b = g.bctr + len
  BY RateNat DEF GenState
<1>2. [g EXCEPT !.cpos = c, !.crmd = d, !.bctr = b] \in GenState
  BY DEF GenState
<1> QED
  BY <1>1, <1>2

LEMMA CachedIs ==
  ASSUME NEW g \in GenState, NEW key \in Nat, NEW len \in Nat, len <= g.crmd, g.crmd = Rate - g.cpos,
         \A i \in g.cpos..(Rate - 1) : g.cache[i] = <<key, g.next, i>>
  PROVE  Cached(g, len) = Run(key, g.next, g.cpos, len)
<1>1. ASSUME NEW i \in 1..len PROVE g.cache[g.cpos + i - 1] = <<key, g.next, g.cpos + i - 1>>
  <2>1. g.cpos + i - 1 \in g.cpos..(Rate - 1)
    BY RateNat DEF GenState
  <2> QED
    BY <2>1
<1> QED
  BY <1>1 DEF Cached, Run

\* Whatever is asked for, it follows what has been given, and what is kept then
\* follows it.
LEMMA GeneratedKeeps ==
  ASSUME NEW k, NEW g, NEW t, NEW len \in Nat \ {0}, Keeps(k, g, t)
  PROVE  /\ Generated(k, g, len).bytes \in Seq(Byte) /\ Len(Generated(k, g, len).bytes) = len
         /\ Keeps(k, Generated(k, g, len).gen, t \o Generated(k, g, len).bytes)
<1> DEFINE short == g.crmd < len
           need  == IF short THEN len - g.crmd ELSE 0
           fills == (need + Rate - 1) \div Rate
           last  == IF fills = 0 THEN g ELSE Filled([g EXCEPT !.next = @ + fills - 1])
           used  == IF short THEN need - Rate * (fills - 1) ELSE len
           after == [last EXCEPT !.cpos = @ + used, !.crmd = @ - used, !.bctr = @ + len]
           bytes == IF short THEN Cached(g, g.crmd) \o Blocks(g.key, g.next + 1, need)
                    ELSE Cached(g, len)
<1>1. Generated(k, g, len) = [bytes |-> bytes, gen |-> AutoReseed(Cleared(k, after))]
  BY DEF Generated
<1>2. g \in GenState /\ g.crmd = Rate - g.cpos
  BY DEF Keeps
<1>3. PICK key \in 0..g.key :
        /\ k = "csg" => key = g.key
        /\ \A i \in g.cpos..(Rate - 1) : g.cache[i] = <<key, g.next, i>>
        /\ Ready(t, <<key, g.next, g.cpos>>, g.key = 0)
  BY DEF Keeps
<1>4. /\ g.cpos \in Nat /\ g.crmd \in Nat /\ g.next \in Nat /\ g.key \in Nat /\ key \in Nat
      /\ Rate \in Nat \ {0} /\ g.cpos + g.crmd = Rate /\ key <= g.key
  BY <1>2, <1>3, RateNat DEF GenState
<1>5. PICK z \in BOOLEAN : z = (g.key = 0)
  OBVIOUS
<1>6. PICK next \in Nat, at \in Nat : next = g.next /\ at = g.cpos
  BY <1>4
<1>7. Ready(t, <<key, next, at>>, z)
  BY <1>3, <1>5, <1>6
<1>8. t \in Seq(Byte)
  BY <1>7 DEF Ready
<1>9. bytes \in Seq(Byte) /\ Len(bytes) = len /\ Keeps(k, after, t \o bytes)
  <2>1. CASE ~short
    <3>1. len <= g.crmd
      BY <1>4, <2>1
    <3>2. fills = 0
      <4>1. Rate - 1 = 0 * Rate + (Rate - 1) /\ Rate - 1 \in Nat /\ Rate - 1 \in 0..(Rate - 1)
        BY <1>4
      <4>2. (Rate - 1) \div Rate = 0
        BY <4>1, CutIs
      <4>3. need + Rate - 1 = Rate - 1
        BY <1>4, <2>1
      <4> QED
        BY <4>2, <4>3
    <3>3. after = [g EXCEPT !.cpos = @ + len, !.crmd = @ - len, !.bctr = @ + len]
      BY <2>1, <3>2
    <3>4. after \in GenState
      BY <1>2, <3>1, <3>3, GivenType
    <3>5. bytes = Run(key, next, at, len)
      BY <1>2, <1>3, <1>4, <1>6, <2>1, <3>1, CachedIs
    <3> HIDE DEF bytes, after, short
    <3>6. bytes \in Seq(Byte)
      BY <1>4, <3>5, RunType
    <3>7. Len(bytes) = len
      BY <1>4, <3>5, RunLen
    <3>8. Ready(t \o bytes, <<key, next, at + len>>, z)
      BY <1>7, <3>5, RunReady
    <3>9. Ready(t \o bytes, <<key, g.next, g.cpos + len>>, g.key = 0)
      BY <1>5, <1>6, <3>8
    <3>10. Keeps(k, after, t \o bytes)
      BY <1>2, <1>3, <3>3, <3>4, <3>9, GivenKeeps
    <3> QED
      BY <3>6, <3>7, <3>10
  <2>2. CASE short
    <3>1. PICK n \in Nat \ {0} : n = need
      BY <1>4, <2>2
    <3>2. n = len - g.crmd
      BY <2>2, <3>1
    <3>3. n - 1 \in Nat
      OBVIOUS
    <3>4. PICK q \in Nat, r \in 0..(Rate - 1) :
            n - 1 = q * Rate + r /\ (n - 1) \div Rate = q /\ (n - 1) % Rate = r
      BY <3>3, CutIn
    <3>5. fills = q + 1
      <4>1. PICK x \in Nat : x = n + Rate - 1
        BY <1>4
      <4>2. x = (q + 1) * Rate + r /\ q + 1 \in Nat
        BY <1>4, <3>4, <4>1, NextBlock
      <4>3. x \div Rate = q + 1
        BY <4>2, CutIs
      <4> QED
        BY <3>1, <4>1, <4>3
    <3>6. used = r + 1
      <4>1. PICK d \in Nat : d = Rate
        BY <1>4
      <4>2. used = n - d * (fills - 1)
        BY <2>2, <3>1, <4>1
      <4> HIDE DEF used, fills
      <4>3. fills - 1 = q
        BY <3>5
      <4>4. d * q = q * d
        OBVIOUS
      <4> QED
        BY <3>4, <4>1, <4>2, <4>3, <4>4
    <3>7. PICK f : f = [g EXCEPT !.next = g.next + q]
      OBVIOUS
    <3>8. f \in GenState /\ f.next = next + q /\ f.key = g.key
      <4>1. PICK a \in Nat : a = g.next + q
        BY <1>4
      <4>2. f = [g EXCEPT !.next = a]
        BY <3>7, <4>1
      <4>3. f \in GenState /\ f.next = a /\ f.key = g.key
        BY <1>2, <4>2 DEF GenState
      <4> QED
        BY <1>6, <4>1, <4>3
    <3>9. PICK l : l = Filled(f)
      OBVIOUS
    <3>10. /\ l \in GenState /\ l.cpos = 0 /\ l.crmd = Rate /\ l.next = f.next + 1 /\ l.key = f.key
           /\ \A i \in 0..(Rate - 1) : l.cache[i] = <<f.key, f.next + 1, i>>
      BY <3>8, <3>9, FilledIs, Zenon
    <3>11. last = l
      <4> HIDE DEF fills
      <4>1. fills # 0 /\ g.next + fills - 1 = g.next + q
        BY <1>4, <3>5
      <4>2. [g EXCEPT !.next = @ + fills - 1] = f
        BY <1>2, <3>7, <4>1 DEF GenState
      <4> QED
        BY <3>9, <4>1, <4>2
    <3> HIDE DEF last, used, fills
    <3>12. PICK u \in Nat : u = used /\ u = r + 1 /\ u <= Rate
      BY <1>4, <3>6
    <3>13. after = [l EXCEPT !.cpos = @ + u, !.crmd = @ - u, !.bctr = @ + len]
      BY <3>11, <3>12
    <3>14. after \in GenState
      <4>1. l.crmd = Rate - l.cpos /\ u <= l.crmd
        BY <1>4, <3>10, <3>12
      <4> QED
        BY <3>10, <3>13, <4>1, GivenType
    <3>15. PICK x : x = Run(key, next, at, g.crmd)
      OBVIOUS
    <3>16. PICK y : y = Blocks(g.key, next + 1, n)
      OBVIOUS
    <3>17. bytes = x \o y
      <4>1. Cached(g, g.crmd) = Run(key, g.next, g.cpos, g.crmd)
        <5>1. g.crmd <= g.crmd
          BY <1>4
        <5> QED
          BY <1>2, <1>3, <1>4, <5>1, CachedIs
      <4> QED
        BY <1>6, <2>2, <3>1, <3>15, <3>16, <4>1
    <3> HIDE DEF bytes, after, short, need
    <3>18. PICK rest \in Nat : rest = g.crmd /\ at + rest = Rate
      BY <1>4, <1>6
    <3>19. x \in Seq(Byte) /\ Len(x) = rest
      <4>1. x = Run(key, next, at, rest)
        BY <3>15, <3>18
      <4>2. x \in Seq(Byte)
        BY <1>4, <4>1, RunType
      <4>3. Len(x) = rest
        BY <1>4, <4>1, RunLen
      <4> QED
        BY <4>2, <4>3
    <3>20. Ready(t \o x, <<key, next, Rate>>, z)
      <4>1. Ready(t \o Run(key, next, at, rest), <<key, next, at + rest>>, z)
        BY <1>7, RunReady
      <4> QED
        BY <3>15, <3>18, <4>1
    <3>21. PICK own \in Nat : own = g.key /\ key <= own
      BY <1>4
    <3>22. PICK b \in Nat : b = next + 1
      OBVIOUS
    <3>23. Ready(t \o x, <<own, b, 0>>, z)
      BY <3>20, <3>21, <3>22, WrapReady
    <3>24. y \in Seq(Byte) /\ Len(y) = n
      <4>1. y \in Seq(Byte)
        BY <3>16, <3>21, <3>22, <3>23, BlocksReady
      <4> QED
        BY <3>16, <4>1 DEF Blocks
    <3>25. Ready((t \o x) \o y, <<own, b + q, r + 1>>, z)
      <4>1. y = Blocks(own, b, n) /\ n > 0
        BY <3>16, <3>21, <3>22
      <4>2. Ready((t \o x) \o Blocks(own, b, n), <<own, b + ((n - 1) \div Rate), ((n - 1) % Rate) + 1>>, z)
        BY <3>23, <4>1, BlocksReady
      <4> QED
        BY <3>4, <4>1, <4>2
    <3>26. (t \o x) \o y = t \o bytes
      BY <1>8, <3>17, <3>19, <3>24, ConcatAssociative
    <3>27. bytes \in Seq(Byte) /\ Len(bytes) = len
      <4>1. bytes \in Seq(Byte) /\ Len(bytes) = rest + n
        BY <3>17, <3>19, <3>24, ConcatProperties
      <4> QED
        BY <1>4, <3>2, <3>18, <4>1
    <3>28. Ready(t \o bytes, <<l.key, l.next, l.cpos + u>>, l.key = 0)
      <4>1. l.key = own /\ l.next = b + q /\ l.cpos + u = r + 1 /\ (l.key = 0) = z
        BY <1>4, <1>5, <1>6, <3>8, <3>10, <3>12, <3>21, <3>22
      <4> QED
        BY <3>25, <3>26, <4>1
    <3>29. /\ l.key \in 0..l.key /\ l.crmd = Rate - l.cpos
           /\ \A i \in l.cpos..(Rate - 1) : l.cache[i] = <<l.key, l.next, i>>
      BY <1>4, <3>8, <3>10
    <3>30. Keeps(k, after, t \o bytes)
      <4>1. PICK own2 \in 0..l.key : own2 = l.key
        BY <3>29
      <4> QED
        BY <3>10, <3>13, <3>14, <3>28, <3>29, <4>1, GivenKeeps
    <3> QED
      BY <3>27, <3>30
  <2> QED
    BY <2>1, <2>2
<1> HIDE DEF bytes, after
<1>10. Keeps(k, AutoReseed(Cleared(k, after)), t \o bytes)
  BY <1>9, ClearedKeeps, AutoReseedKeeps
<1> QED
  BY <1>1, <1>9, <1>10

-----------------------------------------------------------------------------
(* The incremental functions give their output in the same order *)

\* pos bytes of block next have been given, or all of it.
Upto(t, next, pos) == Ready(t, IF pos > 0 THEN <<0, next, pos>> ELSE <<0, next + 1, 0>>, TRUE)

LEMMA TwoPieces ==
  ASSUME NEW t \in Seq(Byte), NEW a \in Seq(Byte), NEW b \in Seq(Byte)
  PROVE  a \o b \in Seq(Byte) /\ Len(a \o b) = Len(a) + Len(b) /\ t \o (a \o b) = (t \o a) \o b
<1>1. a \o b \in Seq(Byte) /\ Len(a \o b) = Len(a) + Len(b)
  BY ConcatProperties
<1>2. t \o (a \o b) = (t \o a) \o b
  BY ConcatAssociative
<1> QED
  BY <1>1, <1>2

LEMMA TwoJoin ==
  ASSUME NEW t \in Seq(Byte), NEW a \in Seq(Byte), NEW b \in Seq(Byte)
  PROVE  t \o (a \o b) = (t \o a) \o b
BY TwoPieces

LEMMA FourType ==
  ASSUME NEW a \in Seq(Byte), NEW b \in Seq(Byte), NEW c \in Seq(Byte), NEW d \in Seq(Byte)
  PROVE  a \o b \o c \o d \in Seq(Byte)
<1>1. a \o b \in Seq(Byte)
  BY ConcatProperties
<1>2. a \o b \o c \in Seq(Byte)
  BY <1>1, ConcatProperties
<1> QED
  BY <1>2, ConcatProperties

LEMMA FourLen ==
  ASSUME NEW a \in Seq(Byte), NEW b \in Seq(Byte), NEW c \in Seq(Byte), NEW d \in Seq(Byte)
  PROVE  Len(a \o b \o c \o d) = Len(a) + Len(b) + Len(c) + Len(d)
<1>1. a \o b \in Seq(Byte) /\ Len(a \o b) = Len(a) + Len(b)
  BY TwoPieces
<1>2. (a \o b) \o c \in Seq(Byte) /\ Len((a \o b) \o c) = Len(a \o b) + Len(c)
  BY <1>1, TwoPieces
<1>3. Len(((a \o b) \o c) \o d) = Len((a \o b) \o c) + Len(d)
  BY <1>2, TwoPieces
<1> QED
  BY <1>1, <1>2, <1>3

LEMMA NoRun ==
  ASSUME NEW key \in Nat, NEW b \in Nat, NEW at \in Nat
  PROVE  Run(key, b, at, 0) = <<>> /\ Blocks(key, b, 0) = <<>>
BY DEF Run, Blocks

LEMMA SqueezedUpto ==
  ASSUME NEW h, NEW g, NEW t, NEW len \in Nat \ {0}, h.pos \in 0..(Rate - 1), g.next \in Nat,
         Upto(t, g.next, h.pos)
  PROVE  /\ Squeezed(h, g, len).bytes \in Seq(Byte) /\ Len(Squeezed(h, g, len).bytes) = len
         /\ Squeezed(h, g, len).next \in Nat /\ Squeezed(h, g, len).pos \in 0..(Rate - 1)
         /\ Upto(t \o Squeezed(h, g, len).bytes, Squeezed(h, g, len).next, Squeezed(h, g, len).pos)
<1> DEFINE a     == IF (h.pos % Word) > 0 THEN Smaller(Word - (h.pos % Word), len) ELSE 0
           p     == h.pos + a
           fills == p # 0 /\ len - a >= Rate - p
           b     == IF fills THEN Rate - p ELSE 0
           q     == IF fills THEN 0 ELSE p
           n     == (len - a - b) \div Rate
           rest  == (len - a - b) % Rate
           next  == g.next + n + (IF rest > 0 /\ q = 0 THEN 1 ELSE 0)
           bytes == Run(0, g.next, h.pos, a) \o Run(0, g.next, p, b)
                      \o Blocks(0, g.next + 1, n * Rate) \o Run(0, next, q, rest)
<1>1. Squeezed(h, g, len) = [bytes |-> bytes, next |-> next, pos |-> q + rest]
  BY DEF Squeezed
<1>0. /\ Squeezed(h, g, len).bytes = bytes /\ Squeezed(h, g, len).next = next
      /\ Squeezed(h, g, len).pos = q + rest
  <2>1. PICK x : x = bytes
    OBVIOUS
  <2>2. PICK y : y = next
    OBVIOUS
  <2>3. PICK z : z = q + rest
    OBVIOUS
  <2> HIDE DEF bytes, next, q, rest
  <2>4. Squeezed(h, g, len) = [bytes |-> x, next |-> y, pos |-> z]
    BY <1>1, <2>1, <2>2, <2>3
  <2> QED
    BY <2>1, <2>2, <2>3, <2>4
<1>2. PICK at \in 0..(Rate - 1), blk \in Nat : at = h.pos /\ blk = g.next
  OBVIOUS
<1>3. Rate \in Nat \ {0} /\ Word \in Nat \ {0} /\ at \in Nat
  BY RateNat
<1>4. a \in Nat /\ a <= len /\ at + a <= Rate /\ (at = 0 => a = 0)
  <2>1. PICK z \in 0..(Word - 1) : z = at % Word
    BY LaneFits
  <2>2. at + (Word - z) <= Rate
    BY <2>1, LaneFits
  <2>3. a = IF z > 0 THEN (IF Word - z <= len THEN Word - z ELSE len) ELSE 0
    <3>1. h.pos % Word = z
      BY <1>2, <2>1
    <3>2. a = IF z > 0 THEN Smaller(Word - z, len) ELSE 0
      BY <3>1
    <3> HIDE DEF a
    <3>3. CASE z > 0
      <4>1. a = Smaller(Word - z, len)
        BY <3>2, <3>3
      <4> QED
        BY <1>3, <2>1, <3>3, <4>1 DEF Smaller
    <3>4. CASE ~(z > 0)
      BY <3>2, <3>4
    <3> QED
      BY <3>3, <3>4
  <2>4. at = 0 => z = 0
    <3>1. 0 = Word * 0 + 0 /\ 0 \in 0..(Word - 1)
      BY <1>3
    <3>2. 0 % Word = 0
      BY <1>3, <3>1, DivUnique
    <3> QED
      BY <2>1, <3>2
  <2> HIDE DEF a
  <2> QED
    BY <1>3, <2>2, <2>3, <2>4
<1> HIDE DEF a
<1>5. PICK A \in Nat, P \in Nat : A = a /\ P = p /\ P = at + A /\ P <= Rate
  BY <1>2, <1>3, <1>4
<1> HIDE DEF p
<1>6. fills <=> (P # 0 /\ len - A >= Rate - P)
  BY <1>5
<1>7. b = (IF fills THEN Rate - P ELSE 0) /\ q = IF fills THEN 0 ELSE P
  BY <1>5
<1> HIDE DEF fills, b, q
<1>8. PICK B \in Nat, Q \in Nat : B = b /\ Q = q /\ B <= len - A
  BY <1>3, <1>4, <1>5, <1>6, <1>7
<1>9. len - A - B \in Nat /\ A <= len
  BY <1>4, <1>5, <1>8
<1>10. PICK N \in Nat, R \in 0..(Rate - 1) : len - A - B = N * Rate + R /\ n = N /\ rest = R
  BY <1>5, <1>8, <1>9, CutIn
<1>11. PICK Next1 \in Nat : Next1 = next /\ Next1 = blk + N + (IF R > 0 /\ Q = 0 THEN 1 ELSE 0)
  BY <1>2, <1>8, <1>10
<1> HIDE DEF n, rest, next
<1>12. PICK C \in Nat, D \in Nat : C = N * Rate /\ D = blk + 1
  BY NextBlock
<1> DEFINE r1 == Run(0, blk, at, A)
           r2 == Run(0, blk, P, B)
           r3 == Blocks(0, D, C)
           r4 == Run(0, Next1, Q, R)
<1>13. bytes = r1 \o r2 \o r3 \o r4
  BY <1>2, <1>5, <1>8, <1>10, <1>11, <1>12
<1>14. R \in Nat /\ 0 \in Nat
  BY <1>3
<1>15. /\ r1 \in Seq(Byte) /\ Len(r1) = A /\ r2 \in Seq(Byte) /\ Len(r2) = B
       /\ r4 \in Seq(Byte) /\ Len(r4) = R
  <2>1. r1 \in Seq(Byte) /\ r2 \in Seq(Byte) /\ r4 \in Seq(Byte)
    BY <1>3, <1>14, RunType
  <2>2. Len(r1) = A
    BY <1>3, <1>14, RunLen
  <2>3. Len(r2) = B
    BY <1>3, <1>14, RunLen
  <2>4. Len(r4) = R
    BY <1>3, <1>14, RunLen
  <2> QED
    BY <2>1, <2>2, <2>3, <2>4
<1>16. t \in Seq(Byte)
  BY DEF Upto, Ready
<1>17. CASE at > 0 /\ ~fills
  <2>1. B = 0 /\ Q = P /\ P > 0 /\ len - A < Rate - P
    BY <1>3, <1>5, <1>6, <1>7, <1>8, <1>17
  <2>2. len - A - B < Rate
    BY <1>3, <1>5, <1>9, <2>1
  <2>3. N = 0 /\ R = len - A
    <3>1. N = 0 /\ R = len - A - B
      BY <1>9, <1>10, <2>2, NoWhole
    <3> QED
      BY <1>9, <2>1, <3>1
  <2>4. C = 0
    BY <1>3, <1>12, <2>3
  <2>5. r2 = <<>> /\ r3 = <<>>
    BY <1>14, <2>1, <2>4, NoRun
  <2>6. Next1 = blk
    BY <1>11, <2>1, <2>3
  <2> HIDE DEF r1, r2, r3, r4
  <2>7. r3 \in Seq(Byte) /\ Len(r3) = 0
    BY <2>5, EmptySeq
  <2>8. Ready(t, <<0, blk, at>>, TRUE)
    BY <1>2, <1>17 DEF Upto
  <2>9. Ready(t \o r1, <<0, blk, P>>, TRUE)
    BY <1>3, <1>5, <1>14, <2>8, RunReady DEF r1
  <2>10. Ready((t \o r1) \o r4, <<0, blk, P + R>>, TRUE)
    <3>1. r4 = Run(0, blk, P, R)
      BY <2>1, <2>6 DEF r4
    <3> QED
      BY <1>14, <2>9, <3>1, RunReady
  <2>11. t \o r1 \in Seq(Byte)
    BY <1>15, <1>16, ConcatProperties
  <2>12. ((t \o r1) \o r2) \o r3 = t \o r1
    BY <2>5, <2>11, ConcatEmptySeq
  <2>13. bytes \in Seq(Byte) /\ Len(bytes) = A + B + 0 + R /\ t \o bytes = (((t \o r1) \o r2) \o r3) \o r4
    <3>1. /\ r1 \o r2 \o r3 \o r4 \in Seq(Byte)
          /\ Len(r1 \o r2 \o r3 \o r4) = Len(r1) + Len(r2) + Len(r3) + Len(r4)
          /\ t \o (r1 \o r2 \o r3 \o r4) = (((t \o r1) \o r2) \o r3) \o r4
      <4>1. t \in Seq(Byte) /\ r1 \in Seq(Byte) /\ r2 \in Seq(Byte) /\ r3 \in Seq(Byte) /\ r4 \in Seq(Byte)
        BY <1>15, <1>16, <2>7
      <4>2. PICK u1 \in Seq(Byte), u2 \in Seq(Byte), u3 \in Seq(Byte), u4 \in Seq(Byte) :
              u1 = r1 /\ u2 = r2 /\ u3 = r3 /\ u4 = r4
        BY <4>1
      <4>3. /\ u1 \o u2 \o u3 \o u4 \in Seq(Byte)
            /\ Len(u1 \o u2 \o u3 \o u4) = Len(u1) + Len(u2) + Len(u3) + Len(u4)
            /\ t \o (u1 \o u2 \o u3 \o u4) = (((t \o u1) \o u2) \o u3) \o u4
        <5>1. u1 \o u2 \o u3 \o u4 \in Seq(Byte)
          BY FourType
        <5>2. Len(u1 \o u2 \o u3 \o u4) = Len(u1) + Len(u2) + Len(u3) + Len(u4)
          BY FourLen
        <5>3. t \o (u1 \o u2 \o u3 \o u4) = (((t \o u1) \o u2) \o u3) \o u4
          <6>0. PICK u \in Seq(Byte) : u = t
            BY <4>1
          <6>1. (u1 \o u2) \o u3 \in Seq(Byte)
            <7>1. u1 \o u2 \in Seq(Byte)
              BY TwoPieces
            <7> QED
              BY <7>1, TwoPieces
          <6>2. u \o ((u1 \o u2) \o u3) = ((u \o u1) \o u2) \o u3
            <7>1. u1 \o u2 \in Seq(Byte)
              BY TwoPieces
            <7>2. u \o ((u1 \o u2) \o u3) = (u \o (u1 \o u2)) \o u3
              BY <7>1, TwoJoin
            <7>3. u \o (u1 \o u2) = (u \o u1) \o u2
              BY TwoJoin
            <7> QED
              BY <7>2, <7>3
          <6>3. u \o (((u1 \o u2) \o u3) \o u4) = (u \o ((u1 \o u2) \o u3)) \o u4
            BY <6>1, TwoJoin
          <6> QED
            BY <6>0, <6>2, <6>3
        <5> QED
          BY <5>1, <5>2, <5>3
      <4> QED
        BY <4>2, <4>3
    <3> HIDE DEF bytes
    <3>2. bytes \in Seq(Byte)
      BY <1>13, <3>1
    <3>3. Len(bytes) = Len(r1) + Len(r2) + Len(r3) + Len(r4)
      BY <1>13, <3>1
    <3>4. t \o bytes = (((t \o r1) \o r2) \o r3) \o r4
      BY <1>13, <3>1
    <3>5. Len(bytes) = A + B + 0 + R
      BY <1>15, <2>7, <3>3
    <3> QED
      BY <3>2, <3>4, <3>5
  <2> HIDE DEF bytes
  <2>14. Len(bytes) = len /\ q + rest = P + R /\ P + R \in 0..(Rate - 1) /\ P + R > 0
    BY <1>3, <1>5, <1>8, <1>9, <1>10, <2>1, <2>3, <2>13
  <2>15. Upto(t \o bytes, next, q + rest)
    BY <1>11, <2>6, <2>10, <2>12, <2>13, <2>14 DEF Upto
  <2> QED
    BY <1>0, <1>11, <2>13, <2>14, <2>15, Zenon
<1>18. CASE at = 0 \/ fills
  <2>1. Q = 0 /\ Ready((t \o r1) \o r2, <<0, D, 0>>, TRUE)
    <3>1. CASE at = 0
      <4>1. A = 0 /\ P = 0 /\ B = 0 /\ Q = 0
        BY <1>4, <1>5, <1>6, <1>7, <1>8, <3>1
      <4>2. r1 = <<>> /\ r2 = <<>>
        BY <1>3, <1>14, <4>1, NoRun
      <4> HIDE DEF r1, r2, r3, r4
      <4>3. (t \o r1) \o r2 = t
        BY <1>16, <4>2, ConcatEmptySeq
      <4>4. Ready(t, <<0, D, 0>>, TRUE)
        <5>1. ~(h.pos > 0)
          BY <1>2, <3>1
        <5>2. Ready(t, <<0, g.next + 1, 0>>, TRUE)
          BY <5>1 DEF Upto
        <5> QED
          BY <1>2, <1>12, <5>2
      <4> QED
        BY <4>1, <4>3, <4>4
    <3>2. CASE at > 0 /\ fills
      <4>1. Q = 0 /\ P + B = Rate
        BY <1>3, <1>5, <1>7, <1>8, <3>2
      <4> HIDE DEF r1, r2, r3, r4
      <4>2. Ready(t, <<0, blk, at>>, TRUE)
        BY <1>2, <3>2 DEF Upto
      <4>3. Ready(t \o r1, <<0, blk, P>>, TRUE)
        BY <1>3, <1>5, <1>14, <4>2, RunReady DEF r1
      <4>4. Ready((t \o r1) \o r2, <<0, blk, P + B>>, TRUE)
        BY <1>14, <4>3, RunReady DEF r2
      <4>5. Ready((t \o r1) \o r2, <<0, blk, Rate>>, TRUE)
        BY <4>1, <4>4
      <4>6. 0 <= 0
        OBVIOUS
      <4> QED
        BY <1>12, <1>14, <4>1, <4>5, <4>6, WrapReady
    <3>3. at = 0 \/ (at > 0 /\ fills)
      BY <1>3, <1>18
    <3> QED
      BY <3>1, <3>2, <3>3
  <2>2. C \div Rate = N /\ C % Rate = 0
    <3>1. C = N * Rate + 0 /\ 0 \in 0..(Rate - 1)
      BY <1>3, <1>12
    <3> QED
      BY <3>1, CutIs
  <2>3. r3 \in Seq(Byte) /\ Len(r3) = C
    <3>1. r3 \in Seq(Byte)
      BY <1>14, <2>1, BlocksReady
    <3> QED
      BY <3>1 DEF Blocks
  <2>4. Ready(((t \o r1) \o r2) \o r3, <<0, D + N, 0>>, TRUE)
    <3>1. Ready(((t \o r1) \o r2) \o r3, <<0, D + (C \div Rate), C % Rate>>, TRUE)
      BY <1>14, <2>1, BlocksReady
    <3> QED
      BY <2>2, <3>1
  <2> HIDE DEF r1, r2, r3, r4
  <2>5. bytes \in Seq(Byte) /\ Len(bytes) = A + B + C + R /\ t \o bytes = (((t \o r1) \o r2) \o r3) \o r4
    <3>1. /\ r1 \o r2 \o r3 \o r4 \in Seq(Byte)
          /\ Len(r1 \o r2 \o r3 \o r4) = Len(r1) + Len(r2) + Len(r3) + Len(r4)
          /\ t \o (r1 \o r2 \o r3 \o r4) = (((t \o r1) \o r2) \o r3) \o r4
      <4>1. t \in Seq(Byte) /\ r1 \in Seq(Byte) /\ r2 \in Seq(Byte) /\ r3 \in Seq(Byte) /\ r4 \in Seq(Byte)
        BY <1>15, <1>16, <2>3
      <4>2. PICK u1 \in Seq(Byte), u2 \in Seq(Byte), u3 \in Seq(Byte), u4 \in Seq(Byte) :
              u1 = r1 /\ u2 = r2 /\ u3 = r3 /\ u4 = r4
        BY <4>1
      <4>3. /\ u1 \o u2 \o u3 \o u4 \in Seq(Byte)
            /\ Len(u1 \o u2 \o u3 \o u4) = Len(u1) + Len(u2) + Len(u3) + Len(u4)
            /\ t \o (u1 \o u2 \o u3 \o u4) = (((t \o u1) \o u2) \o u3) \o u4
        <5>1. u1 \o u2 \o u3 \o u4 \in Seq(Byte)
          BY FourType
        <5>2. Len(u1 \o u2 \o u3 \o u4) = Len(u1) + Len(u2) + Len(u3) + Len(u4)
          BY FourLen
        <5>3. t \o (u1 \o u2 \o u3 \o u4) = (((t \o u1) \o u2) \o u3) \o u4
          <6>0. PICK u \in Seq(Byte) : u = t
            BY <4>1
          <6>1. (u1 \o u2) \o u3 \in Seq(Byte)
            <7>1. u1 \o u2 \in Seq(Byte)
              BY TwoPieces
            <7> QED
              BY <7>1, TwoPieces
          <6>2. u \o ((u1 \o u2) \o u3) = ((u \o u1) \o u2) \o u3
            <7>1. u1 \o u2 \in Seq(Byte)
              BY TwoPieces
            <7>2. u \o ((u1 \o u2) \o u3) = (u \o (u1 \o u2)) \o u3
              BY <7>1, TwoJoin
            <7>3. u \o (u1 \o u2) = (u \o u1) \o u2
              BY TwoJoin
            <7> QED
              BY <7>2, <7>3
          <6>3. u \o (((u1 \o u2) \o u3) \o u4) = (u \o ((u1 \o u2) \o u3)) \o u4
            BY <6>1, TwoJoin
          <6> QED
            BY <6>0, <6>2, <6>3
        <5> QED
          BY <5>1, <5>2, <5>3
      <4> QED
        BY <4>2, <4>3
    <3> HIDE DEF bytes
    <3>2. bytes \in Seq(Byte)
      BY <1>13, <3>1
    <3>3. Len(bytes) = Len(r1) + Len(r2) + Len(r3) + Len(r4)
      BY <1>13, <3>1
    <3>4. t \o bytes = (((t \o r1) \o r2) \o r3) \o r4
      BY <1>13, <3>1
    <3>5. Len(bytes) = A + B + C + R
      BY <1>15, <2>3, <3>3
    <3> QED
      BY <3>2, <3>4, <3>5
  <2> HIDE DEF bytes
  <2>6. Len(bytes) = len /\ q + rest = R
    BY <1>3, <1>8, <1>9, <1>10, <1>12, <2>1, <2>5
  <2>7. Upto(t \o bytes, next, R)
    <3>1. CASE R = 0
      <4>1. r4 = <<>>
        BY <1>14, <3>1, NoRun DEF r4
      <4>2. Next1 + 1 = D + N
        BY <1>11, <1>12, <3>1
      <4>3. ((t \o r1) \o r2) \o r3 \in Seq(Byte)
        BY <2>4 DEF Ready
      <4>4. t \o bytes = ((t \o r1) \o r2) \o r3
        BY <2>5, <4>1, <4>3, ConcatEmptySeq
      <4>5. Ready(t \o bytes, <<0, Next1 + 1, 0>>, TRUE)
        BY <2>4, <4>2, <4>4
      <4> QED
        <5>1. ~(R > 0) /\ next = Next1
          BY <1>11, <3>1
        <5> HIDE DEF next
        <5>2. Ready(t \o bytes, <<0, next + 1, 0>>, TRUE)
          BY <4>5, <5>1
        <5> QED
          BY <5>1, <5>2 DEF Upto
    <3>2. CASE R > 0
      <4>1. Next1 = D + N
        BY <1>11, <1>12, <2>1, <3>2
      <4>2. r4 = Run(0, Next1, 0, R)
        BY <2>1 DEF r4
      <4>3. Ready(((t \o r1) \o r2) \o r3, <<0, Next1, 0>>, TRUE)
        BY <2>4, <4>1
      <4>4. Ready((((t \o r1) \o r2) \o r3) \o r4, <<0, Next1, 0 + R>>, TRUE)
        BY <1>14, <4>2, <4>3, RunReady
      <4>5. 0 + R = R
        BY <1>14
      <4> QED
        BY <1>11, <2>5, <3>2, <4>4, <4>5 DEF Upto
    <3> QED
      BY <1>14, <3>1, <3>2
  <2> QED
    BY <1>0, <1>11, <2>5, <2>6, <2>7, Zenon
<1> QED
  BY <1>3, <1>17, <1>18
-----------------------------------------------------------------------------
(* The invariant *)

TypeInv ==
  /\ kind \in Hashes \cup Generators /\ phase \in {"absorbing", "squeezing", "done"}
  /\ taken \in 0..MaxBytes /\ hash \in State /\ gen \in GenState
  /\ out \in Seq(Byte) /\ Len(out) <= MaxOut

\* What a hash has made of the message, and what it is when the message has ended.
HashInv ==
  kind \in Hashes =>
    /\ phase = "absorbing" => Canon(kind, hash, taken) /\ out = <<>> /\ gen.next = 0
    /\ phase # "absorbing" =>
         \E m \in Nat, p \in 0..(Rate - 1) : taken = m * Rate + p /\ Ended(kind, hash, m, p)

\* Where the output is.
OutInv ==
  /\ kind \in Generators => phase = "squeezing" /\ Keeps(kind, gen, out)
  /\ kind \in Hashes => gen.key = 0
  /\ kind \in Hashes /\ phase = "squeezing" =>
       kind = "incremental" /\ hash.pos \in 0..(Rate - 1) /\ Upto(out, gen.next, hash.pos)
  /\ kind \in Hashes /\ phase # "squeezing" => out = <<>>

IInv == TypeInv /\ HashInv /\ OutInv

LEMMA EmptyReady == Ready(<<>>, <<0, 1, 0>>, TRUE)
<1>1. <<0, 1, 0>> \in Byte /\ <<0, 1, 0>>[2] = 1 /\ <<0, 1, 0>>[3] = 0
  BY DEF Byte
<1> QED
  BY <1>1, EmptySeq DEF Ready

LEMMA KindsApart == \A k \in Generators : k \notin Hashes
BY DEF Hashes, Generators

LEMMA StartType == Start \in State
BY RateNat, BlankType DEF Start, State

LEMMA UnusedType == Unused \in GenState /\ Unused.key = 0 /\ Unused.next = 0
<1>1. NoByte \in Byte
  BY DEF NoByte, Byte
<1>2. [i \in 0..(Rate - 1) |-> NoByte] \in [0..(Rate - 1) -> Byte]
  BY <1>1
<1>3. 0 \in 0..Rate
  BY RateNat
<1> QED
  BY <1>2, <1>3 DEF Unused, GenState

LEMMA InitInv == Init => IInv
<1> SUFFICES ASSUME Init PROVE IInv
  OBVIOUS
<1>1. taken = 0 /\ hash = Start /\ out = <<>> /\ kind \in Hashes \cup Generators
  BY DEF Init
<1>2. out \in Seq(Byte) /\ Len(out) = 0 /\ taken \in 0..MaxBytes /\ Len(out) <= MaxOut
  BY <1>1, EmptySeq, RateNat
<1>3. CASE kind \in Hashes
  <2>1. phase = "absorbing" /\ gen = Unused
    BY <1>3 DEF Init
  <2>2. TypeInv
    BY <1>1, <1>2, <2>1, StartType, UnusedType DEF TypeInv
  <2>3. HashInv
    BY <1>1, <2>1, StartCanon, UnusedType DEF HashInv
  <2>4. OutInv
    BY <1>1, <1>3, <2>1, UnusedType, KindsApart DEF OutInv
  <2> QED
    BY <2>2, <2>3, <2>4 DEF IInv
<1>4. CASE kind \in Generators
  <2>1. phase = "squeezing"
    BY <1>4, KindsApart DEF Init
  <2>2. PICK pres \in BOOLEAN : gen = Filled([Unused EXCEPT !.pres = pres])
    BY <1>4, KindsApart DEF Init
  <2>3. PICK u : u = [Unused EXCEPT !.pres = pres]
    OBVIOUS
  <2>4. u \in GenState /\ u.key = 0 /\ u.next = 0
    BY <2>3, UnusedType DEF GenState
  <2>5. gen = Filled(u)
    BY <2>2, <2>3
  <2>6. /\ gen \in GenState /\ gen.cpos = 0 /\ gen.crmd = Rate /\ gen.next = 0 + 1 /\ gen.key = 0
        /\ \A i \in 0..(Rate - 1) : gen.cache[i] = <<0, 0 + 1, i>>
    BY <2>4, <2>5, FilledIs
  <2>7. Keeps(kind, gen, out)
    <3>1. Ready(out, <<0, gen.next, gen.cpos>>, gen.key = 0)
      <4>1. gen.next = 1 /\ gen.cpos = 0 /\ (gen.key = 0) = TRUE
        BY <2>6
      <4> QED
        BY <1>1, <4>1, EmptyReady
    <3>2. 0 \in 0..gen.key /\ gen.crmd = Rate - gen.cpos
      BY <2>6, RateNat
    <3>3. \A i \in gen.cpos..(Rate - 1) : gen.cache[i] = <<0, gen.next, i>>
      BY <2>6
    <3> QED
      BY <2>6, <3>1, <3>2, <3>3 DEF Keeps
  <2>8. TypeInv
    BY <1>1, <1>2, <2>1, <2>6, StartType DEF TypeInv
  <2> QED
    BY <1>4, <2>1, <2>7, <2>8, KindsApart DEF IInv, HashInv, OutInv
<1> QED
  BY <1>1, <1>3, <1>4

LEMMA AbsorbInv ==
  ASSUME IInv, NEW len \in Nat, Absorb(len)
  PROVE  IInv'
<1>1. /\ phase = "absorbing" /\ taken + len <= MaxBytes /\ taken' = taken + len
      /\ hash' = Update(kind, hash, taken + 1, len)
      /\ kind' = kind /\ phase' = phase /\ gen' = gen /\ out' = out
  BY DEF Absorb
<1>2. TypeInv /\ HashInv /\ OutInv
  BY DEF IInv
<1>3. kind \in Hashes /\ kind \notin Generators
  BY <1>1, <1>2, KindsApart DEF TypeInv, OutInv
<1>4. Canon(kind, hash, taken) /\ out = <<>> /\ gen.next = 0 /\ taken \in Nat /\ taken + len \in 0..MaxBytes
  BY <1>1, <1>2, <1>3, RateNat DEF TypeInv, HashInv
<1>5. Canon(kind, hash', taken')
  BY <1>1, <1>3, <1>4, UpdateCanon
<1>6. hash' \in State
  BY <1>5 DEF Canon, Holds
<1>7. TypeInv'
  BY <1>1, <1>2, <1>4, <1>6 DEF TypeInv
<1>8. HashInv'
  BY <1>1, <1>4, <1>5 DEF HashInv
<1>9. OutInv'
  BY <1>1, <1>2, <1>3, <1>4 DEF OutInv
<1> QED
  BY <1>7, <1>8, <1>9 DEF IInv

LEMMA FinalizeInv ==
  ASSUME IInv, Finalize
  PROVE  IInv'
<1>1. /\ phase = "absorbing" /\ hash' = Finalized(kind, hash)
      /\ phase' = (IF kind = "incremental" THEN "squeezing" ELSE "done")
      /\ kind' = kind /\ taken' = taken /\ gen' = gen /\ out' = out
  BY DEF Finalize
<1>2. TypeInv /\ HashInv /\ OutInv
  BY DEF IInv
<1>3. kind \in Hashes /\ kind \notin Generators
  BY <1>1, <1>2, KindsApart DEF TypeInv, OutInv
<1>4. Canon(kind, hash, taken) /\ out = <<>> /\ gen.next = 0 /\ gen.key = 0
  BY <1>1, <1>2, <1>3 DEF HashInv, OutInv
<1>5. PICK m \in Nat, p \in 0..(Rate - 1) :
        taken = m * Rate + p /\ Holds(kind, hash, m, p) /\ (kind \in Counting => hash.count = m * Rate)
  BY <1>4 DEF Canon
<1>6. Ended(kind, hash', m, p)
  BY <1>1, <1>3, <1>5, FinalizedEnded
<1>7. hash' \in State
  BY <1>6 DEF Ended
<1>8. TypeInv'
  BY <1>1, <1>2, <1>7 DEF TypeInv
<1>9. HashInv'
  BY <1>1, <1>5, <1>6 DEF HashInv
<1>10. OutInv'
  <2>1. CASE kind = "incremental"
    <3>1. hash'.pos = 0
      <4>1. hash' = IncrementalFinalize(hash)
        BY <1>1, <2>1 DEF Finalized
      <4>2. PICK x : x = Xor(Xor(hash, [Blank EXCEPT ![hash.pos] = Marker]), [Blank EXCEPT ![Rate - 1] = EndMark])
        OBVIOUS
      <4>3. x \in [buf : {hash.buf}, pos : {hash.pos}, lanes : {x.lanes}, blocks : {hash.blocks}, count : {hash.count}]
        BY <1>2, <4>2 DEF Xor, TypeInv, State
      <4>4. hash' = [x EXCEPT !.pos = 0]
        BY <4>1, <4>2 DEF IncrementalFinalize
      <4> QED
        BY <4>3, <4>4
    <3>2. Upto(out, gen.next, 0)
      <4>1. ~(0 > 0) /\ gen.next + 1 = 1
        BY <1>4
      <4>2. Ready(out, <<0, gen.next + 1, 0>>, TRUE)
        BY <1>4, <4>1, EmptyReady
      <4> QED
        BY <4>1, <4>2 DEF Upto
    <3>3. 0 \in 0..(Rate - 1) /\ phase' = "squeezing"
      BY <1>1, <2>1, RateNat
    <3> QED
      BY <1>1, <1>3, <1>4, <2>1, <3>1, <3>2, <3>3 DEF OutInv
  <2>2. CASE kind # "incremental"
    BY <1>1, <1>3, <1>4, <2>2 DEF OutInv
  <2> QED
    BY <2>1, <2>2
<1> QED
  BY <1>8, <1>9, <1>10 DEF IInv

LEMMA SqueezeInv ==
  ASSUME IInv, NEW len \in Nat \ {0}, Squeeze(len)
  PROVE  IInv'
<1>1. PICK s : s = Squeezed(hash, gen, len)
  OBVIOUS
<1>2. /\ phase = "squeezing" /\ kind = "incremental" /\ Len(out) + len <= MaxOut
      /\ out' = out \o s.bytes /\ hash' = [hash EXCEPT !.pos = s.pos] /\ gen' = [gen EXCEPT !.next = s.next]
      /\ kind' = kind /\ phase' = phase /\ taken' = taken
  BY <1>1 DEF Squeeze
<1>3. TypeInv /\ HashInv /\ OutInv
  BY DEF IInv
<1>4. kind \in Hashes /\ kind \notin Generators
  BY <1>2, KindsApart DEF Hashes
<1>5. hash.pos \in 0..(Rate - 1) /\ Upto(out, gen.next, hash.pos) /\ gen.key = 0 /\ gen.next \in Nat
  BY <1>2, <1>3, <1>4 DEF OutInv, TypeInv, GenState
<1>6. /\ s.bytes \in Seq(Byte) /\ Len(s.bytes) = len /\ s.next \in Nat /\ s.pos \in 0..(Rate - 1)
      /\ Upto(out \o s.bytes, s.next, s.pos)
  BY <1>1, <1>5, SqueezedUpto, Zenon
<1>7. /\ hash' \in State /\ hash'.pos = s.pos /\ hash'.blocks = hash.blocks /\ hash'.lanes = hash.lanes
      /\ gen' \in GenState /\ gen'.next = s.next /\ gen'.key = 0
  <2>1. s.pos \in 0..Rate
    BY <1>6, RateNat
  <2>2. PICK a \in 0..Rate, b \in Nat : a = s.pos /\ b = s.next
    BY <1>6, <2>1
  <2>3. hash' = [hash EXCEPT !.pos = a] /\ gen' = [gen EXCEPT !.next = b]
    BY <1>2, <2>2
  <2>4. hash' \in State /\ hash'.pos = a /\ hash'.blocks = hash.blocks /\ hash'.lanes = hash.lanes
    BY <1>3, <2>3 DEF TypeInv, State
  <2>5. gen' \in GenState /\ gen'.next = b /\ gen'.key = 0
    BY <1>3, <1>5, <2>3 DEF TypeInv, GenState
  <2> QED
    BY <2>2, <2>4, <2>5
<1>8. out' \in Seq(Byte) /\ Len(out') <= MaxOut
  BY <1>2, <1>3, <1>6, ConcatProperties DEF TypeInv
<1>9. TypeInv'
  BY <1>2, <1>3, <1>7, <1>8 DEF TypeInv
<1>10. HashInv'
  <2>1. PICK m \in Nat, p \in 0..(Rate - 1) : taken = m * Rate + p /\ Ended(kind, hash, m, p)
    BY <1>2, <1>3, <1>4 DEF HashInv
  <2>2. Ended(kind, hash', m, p)
    BY <1>7, <2>1 DEF Ended
  <2> QED
    BY <1>2, <2>1, <2>2 DEF HashInv
<1>11. OutInv'
  <2>1. Upto(out', gen'.next, hash'.pos)
    BY <1>2, <1>6, <1>7
  <2> QED
    BY <1>2, <1>4, <1>6, <1>7, <2>1 DEF OutInv
<1> QED
  BY <1>9, <1>10, <1>11 DEF IInv

LEMMA GenerateInv ==
  ASSUME IInv, NEW len \in Nat \ {0}, Generate(len)
  PROVE  IInv'
<1>1. PICK s : s = Generated(kind, gen, len)
  OBVIOUS
<1>2. /\ phase = "squeezing" /\ kind \in Generators /\ Len(out) + len <= MaxOut
      /\ out' = out \o s.bytes /\ gen' = s.gen
      /\ kind' = kind /\ phase' = phase /\ taken' = taken /\ hash' = hash
  BY <1>1 DEF Generate
<1>3. TypeInv /\ OutInv /\ kind \notin Hashes
  BY <1>2, KindsApart DEF IInv
<1>4. Keeps(kind, gen, out)
  BY <1>2, <1>3 DEF OutInv
<1>5. s.bytes \in Seq(Byte) /\ Len(s.bytes) = len /\ Keeps(kind, s.gen, out \o s.bytes)
  BY <1>1, <1>4, GeneratedKeeps, Zenon
<1>6. out' \in Seq(Byte) /\ Len(out') <= MaxOut
  BY <1>2, <1>3, <1>5, ConcatProperties DEF TypeInv
<1>7. Keeps(kind, gen', out') /\ gen' \in GenState
  BY <1>2, <1>5 DEF Keeps
<1>8. TypeInv'
  BY <1>2, <1>3, <1>6, <1>7 DEF TypeInv
<1> QED
  BY <1>2, <1>3, <1>7, <1>8 DEF IInv, HashInv, OutInv

LEMMA UpdateSeedInv ==
  ASSUME IInv, UpdateSeed
  PROVE  IInv'
<1>1. /\ phase = "squeezing" /\ kind \in Generators
      /\ gen' = (IF kind = "csg" THEN Filled(Rekeyed(gen)) ELSE Rekeyed(gen))
      /\ kind' = kind /\ phase' = phase /\ taken' = taken /\ hash' = hash /\ out' = out
  BY DEF UpdateSeed
<1>2. TypeInv /\ OutInv /\ kind \notin Hashes
  BY <1>1, KindsApart DEF IInv
<1>3. Keeps(kind, gen, out)
  BY <1>1, <1>2 DEF OutInv
<1>4. Keeps(kind, gen', out)
  <2>1. CASE kind = "csg"
    BY <1>1, <1>3, <2>1, NewKeyKeeps
  <2>2. CASE kind = "hcg"
    BY <1>1, <1>3, <2>2, RekeyedKeeps
  <2> QED
    BY <1>1, <2>1, <2>2 DEF Generators
<1>5. gen' \in GenState
  BY <1>4 DEF Keeps
<1>6. TypeInv'
  BY <1>1, <1>2, <1>5 DEF TypeInv
<1> QED
  BY <1>1, <1>2, <1>4, <1>6 DEF IInv, HashInv, OutInv

LEMMA NextInv ==
  ASSUME IInv, [Next]_vars
  PROVE  IInv'
<1>1. ASSUME NEW len \in 0..MaxBytes, Absorb(len) PROVE IInv'
  <2>1. len \in Nat
    BY RateNat
  <2> QED
    BY <1>1, <2>1, AbsorbInv
<1>2. CASE Finalize
  BY <1>2, FinalizeInv
<1>3. ASSUME NEW len \in 1..MaxOut, Squeeze(len) \/ Generate(len) PROVE IInv'
  <2>1. len \in Nat \ {0}
    BY RateNat
  <2> QED
    BY <1>3, <2>1, SqueezeInv, GenerateInv
<1>4. CASE UpdateSeed
  BY <1>4, UpdateSeedInv
<1>5. CASE UNCHANGED vars
  BY <1>5 DEF vars, IInv, TypeInv, HashInv, OutInv
<1> QED
  BY <1>1, <1>2, <1>3, <1>4, <1>5 DEF Next

LEMMA Invariant == Spec => []IInv
<1>1. IInv /\ [Next]_vars => IInv'
  BY NextInv
<1> QED
  BY InitInv, <1>1, PTL DEF Spec

-----------------------------------------------------------------------------
(* The theorems *)

\* The position of a hash is always how far the message reaches into its block,
\* whatever pieces it came in, and the block that a generator keeps is split
\* between what it has given and what it will give.
THEOREM TypeCorrect == Spec => []TypeOK
<1>1. IInv => TypeOK
  <2> SUFFICES ASSUME IInv PROVE TypeOK
    OBVIOUS
  <2>1. TypeInv /\ HashInv /\ OutInv
    BY DEF IInv
  <2>2. /\ kind \in Hashes \cup Generators /\ phase \in {"absorbing", "squeezing", "done"}
        /\ taken \in 0..MaxBytes /\ hash.pos \in 0..Rate
        /\ DOMAIN hash.buf = Places /\ DOMAIN hash.lanes = Places
        /\ gen.key \in Nat /\ gen.next \in Nat /\ Len(out) <= MaxOut
    BY <2>1 DEF TypeInv, State, GenState, Block
  <2>3. ASSUME phase = "absorbing" PROVE hash.pos = taken % Rate
    <3>1. Canon(kind, hash, taken)
      BY <2>1, <2>3 DEF TypeInv, HashInv, OutInv
    <3>2. PICK m \in Nat, p \in 0..(Rate - 1) : taken = m * Rate + p /\ Holds(kind, hash, m, p)
      BY <3>1 DEF Canon
    <3>3. taken \in Nat
      BY <2>2, RateNat
    <3>4. taken % Rate = p
      BY <3>2, <3>3, CutIs
    <3> QED
      BY <3>2, <3>4 DEF Holds
  <2>4. ASSUME kind \in Generators PROVE gen.cpos \in 0..Rate /\ gen.crmd = Rate - gen.cpos
    BY <2>1, <2>4 DEF OutInv, Keeps, GenState
  <2> QED
    BY <2>2, <2>3, <2>4 DEF TypeOK
<1> QED
  BY Invariant, <1>1, PTL

\* There is one way to cut a number into blocks.
LEMMA OneCut ==
  ASSUME NEW n \in Nat, NEW m \in Nat, NEW p \in 0..(Rate - 1), NEW m2 \in Nat, NEW p2 \in 0..(Rate - 1),
         n = m * Rate + p, n = m2 * Rate + p2
  PROVE  m = m2 /\ p = p2
<1>1. n \div Rate = m /\ n % Rate = p
  BY CutIs
<1>2. n \div Rate = m2 /\ n % Rate = p2
  BY CutIs
<1> QED
  BY <1>1, <1>2

LEMMA AppendSame ==
  ASSUME NEW s \in Seq(Block), NEW b \in Block, NEW c \in Block, Append(s, b) = Append(s, c)
  PROVE  b = c
<1>1. Append(s, b)[Len(s) + 1] = b
  BY AppendProperties
<1>2. Append(s, c)[Len(s) + 1] = c
  BY AppendProperties
<1> QED
  BY <1>1, <1>2

\* Whatever pieces a message comes in - empty ones, some that end inside a lane
\* or a block, some of many blocks - SHA-2, SHA-3, KMAC, KPA, Poly1305 and the
\* incremental functions give the block function the blocks that one call with
\* the whole message gives it.
THEOREM CutsAreIndifferent == Spec => []CutsDoNotMatter
<1>1. IInv => CutsDoNotMatter
  <2> SUFFICES ASSUME IInv, Absorbed
               PROVE  /\ hash.blocks = Finalized(kind, Update(kind, Start, 1, taken)).blocks
                      /\ hash.lanes = Finalized(kind, Update(kind, Start, 1, taken)).lanes
    BY DEF CutsDoNotMatter
  <2>1. kind \in Hashes /\ taken \in Nat
    BY RateNat DEF Absorbed, IInv, TypeInv
  <2>2. PICK m \in Nat, p \in 0..(Rate - 1) : taken = m * Rate + p /\ Ended(kind, hash, m, p)
    BY <2>1 DEF Absorbed, IInv, HashInv
  <2>3. PICK u : u = Update(kind, Start, 1, taken)
    OBVIOUS
  <2>4. Canon(kind, u, taken)
    <3>1. Canon(kind, Start, 0) /\ 0 \in Nat
      BY StartCanon
    <3>2. Canon(kind, Update(kind, Start, 0 + 1, taken), 0 + taken)
      BY <2>1, <3>1, UpdateCanon
    <3>3. 0 + 1 = 1 /\ 0 + taken = taken
      BY <2>1
    <3> QED
      BY <2>3, <3>2, <3>3
  <2>5. PICK m2 \in Nat, p2 \in 0..(Rate - 1) :
          taken = m2 * Rate + p2 /\ Holds(kind, u, m2, p2) /\ (kind \in Counting => u.count = m2 * Rate)
    BY <2>4 DEF Canon
  <2>6. PICK w : w = Finalized(kind, u)
    OBVIOUS
  <2>7. Ended(kind, w, m2, p2)
    BY <2>1, <2>5, <2>6, FinalizedEnded
  <2>8. m = m2 /\ p = p2
    BY <2>1, <2>2, <2>5, OneCut
  <2>9. Ended(kind, w, m, p)
    BY <2>7, <2>8
  <2>10. hash.blocks = w.blocks /\ hash.lanes = w.lanes
    <3>1. CASE kind # "incremental"
      BY <2>2, <2>9, <3>1 DEF Ended
    <3>2. CASE kind = "incremental"
      <4>1. hash.blocks = w.blocks /\ Append(hash.blocks, hash.lanes) = Append(w.blocks, w.lanes)
        BY <2>2, <2>9, <3>2 DEF Ended
      <4>2. hash.blocks \in Seq(Block) /\ hash.lanes \in Block /\ w.lanes \in Block
        BY <2>2, <2>9 DEF Ended, State
      <4>3. Append(hash.blocks, hash.lanes) = Append(hash.blocks, w.lanes)
        BY <4>1
      <4>4. hash.lanes = w.lanes
        BY <4>2, <4>3, AppendSame
      <4> QED
        BY <4>1, <4>4
    <3> QED
      BY <3>1, <3>2
  <2> QED
    BY <2>3, <2>6, <2>10
<1> QED
  BY Invariant, <1>1, PTL

\* The blocks are the message in order, every byte once, and the padding that
\* the primitive is defined with: the marker, the length of SHA-2 with or without
\* a block of its own, the length code of KMAC, the root block of KPA, and nothing
\* for Poly1305 when the message fills its blocks.  This is for every length but
\* those of KMAC where the code does not fit in the block the message ends in: there
\* sha3.c pads otherwise (1289-1300), and nothing is said.
THEOREM PaddingIsDefined == Spec => []PaddedAsDefined
<1>1. IInv => PaddedAsDefined
  <2> SUFFICES ASSUME IInv, Absorbed, kind = "kmac" => (taken % Rate) + CodeLen < Rate
               PROVE  Given = Padded(kind, taken)
    BY DEF PaddedAsDefined
  <2>1. kind \in Hashes /\ taken \in Nat
    BY RateNat DEF Absorbed, IInv, TypeInv
  <2>2. PICK m \in Nat, p \in 0..(Rate - 1) : taken = m * Rate + p /\ Ended(kind, hash, m, p)
    BY <2>1 DEF Absorbed, IInv, HashInv
  <2>3. taken % Rate = p
    BY <2>1, <2>2, CutIs
  <2>4. kind = "kmac" => p + CodeLen < Rate
    BY <2>3
  <2>5. Padded(kind, taken) = BlocksOf(kind, m) \o Ending(kind, m, p)
    BY <2>1, <2>2, <2>4, PaddedIs
  <2>6. Given = BlocksOf(kind, m) \o Ending(kind, m, p)
    BY <2>2 DEF Given, Ended
  <2> QED
    BY <2>5, <2>6
<1> QED
  BY Invariant, <1>1, PTL

\* The output of CSG, HCG and the incremental functions is one stream of bytes
\* for every way to ask for it, with new seeds and the automatic reseeding in
\* between: nothing is given twice, nothing is skipped under one key, nothing that
\* has been cleared is given, and CSG gives nothing of an earlier key after a new
\* seed.
THEOREM StreamIsInOrder == Spec => []StreamInOrder
<1>1. ASSUME NEW N, NEW z \in BOOLEAN, Ready(out, N, z)
      PROVE  /\ \A i \in 1..(Len(out) - 1) : Follows(out[i], out[i + 1])
             /\ out # <<>> => out[1][3] = 0 /\ (z => out[1][2] = 1)
  BY <1>1 DEF Ready
<1>2. IInv => StreamInOrder
  <2> SUFFICES ASSUME IInv PROVE StreamInOrder
    OBVIOUS
  <2>1. TypeInv /\ OutInv
    BY DEF IInv
  <2>2. CASE kind \in Generators
    <3>1. Keeps(kind, gen, out)
      BY <2>1, <2>2 DEF OutInv
    <3>2. PICK key \in 0..gen.key :
            /\ kind = "csg" => key = gen.key
            /\ \A i \in gen.cpos..(Rate - 1) : gen.cache[i] = <<key, gen.next, i>>
            /\ Ready(out, <<key, gen.next, gen.cpos>>, gen.key = 0)
      BY <3>1 DEF Keeps
    <3>3. PICK z \in BOOLEAN : z = (gen.key = 0)
      OBVIOUS
    <3>4. Ready(out, <<key, gen.next, gen.cpos>>, z)
      BY <3>2, <3>3
    <3>5. /\ \A i \in 1..(Len(out) - 1) : Follows(out[i], out[i + 1])
          /\ out # <<>> => out[1][3] = 0 /\ (z => out[1][2] = 1)
      BY <1>1, <3>4
    <3> QED
      BY <3>2, <3>3, <3>5 DEF StreamInOrder
  <2>3. CASE kind \in Hashes /\ phase = "squeezing"
    <3>1. Upto(out, gen.next, hash.pos) /\ kind # "csg"
      BY <2>1, <2>3 DEF OutInv
    <3>2. PICK N : Ready(out, N, TRUE)
      BY <3>1 DEF Upto
    <3>3. /\ \A i \in 1..(Len(out) - 1) : Follows(out[i], out[i + 1])
          /\ out # <<>> => out[1][3] = 0 /\ (TRUE => out[1][2] = 1)
      BY <1>1, <3>2
    <3> QED
      BY <3>1, <3>3 DEF StreamInOrder
  <2>4. CASE kind \in Hashes /\ phase # "squeezing"
    <3>1. out = <<>> /\ Len(out) = 0 /\ kind # "csg"
      BY <2>1, <2>4, EmptySeq, KindsApart DEF OutInv, Generators
    <3> QED
      BY <3>1 DEF StreamInOrder
  <2> QED
    BY <2>1, <2>2, <2>3, <2>4 DEF TypeInv
<1> QED
  BY Invariant, <1>2, PTL

=============================================================================
