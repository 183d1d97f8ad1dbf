----------------------------- MODULE Streaming -----------------------------
(***************************************************************************)
(* The primitives of the QSC library that work in blocks on a message, or  *)
(* on an output, that is handed over in pieces: the hashes and MACs SHA-2, *)
(* SHA-3, KMAC, KPA and Poly1305, the incremental Keccak functions that    *)
(* the signature schemes use, and the byte generators CSG and HCG.  They   *)
(* keep the unfinished block and a position in it.                         *)
(*                                                                         *)
(* A byte of a block is a set of values: the number of the message's byte  *)
(* it holds, or a mark that the padding puts there.  Nothing is the zero   *)
(* byte, and XOR is the symmetric difference.  What a block function makes *)
(* of the blocks is left out: the model keeps the blocks it was given.     *)
(***************************************************************************)
EXTENDS Integers, Sequences, FiniteSetsExt

CONSTANTS
  Rate,     \* bytes of a block
  Word,     \* bytes of a Keccak lane
  LenField, \* bytes of the length at the end of the padding of SHA-2
  CodeLen,  \* bytes of the encoded output length in KMAC
  ReseedAt, \* bytes after which a predictive-resistant generator reseeds
  MaxBytes, \* bound on the message
  MaxOut,   \* bound on the output
  MaxSeeds  \* bound on the times a generator gets a new key

ASSUME StreamingAssumption ==
  /\ {Rate, Word, LenField, CodeLen, ReseedAt, MaxBytes, MaxOut, MaxSeeds} \subseteq Nat \ {0}
  /\ Rate % Word = 0
  /\ LenField < Rate /\ CodeLen < Rate

VARIABLES
  kind,   \* the primitive
  phase,  \* it absorbs, it squeezes or generates, it is done
  hash,   \* the state of a hash or MAC
  taken,  \* how many bytes of the message it has been given
  gen,    \* the state of a generator
  out     \* history: the bytes that have been generated

vars == <<kind, phase, hash, taken, gen, out>>

Hashes == {"sha2", "sha3", "kmac", "kpa", "poly1305", "incremental"}
Generators == {"csg", "hcg"}

Smaller(a, b) == IF a < b THEN a ELSE b

-----------------------------------------------------------------------------
(* Blocks *)

Marker == {-1}           \* 0x80, 0x01 or the domain identifier
EndMark == {-2}          \* the bit that ends the padding of Keccak
Code(i) == {-10 - i}     \* byte i of the encoded output length
Length(n) == {-100 - n}  \* a byte of the encoded message length

\* Byte Rate of a block is the bit above it: only Poly1305 has one.
Places == 0..Rate
Blank == [i \in Places |-> {}]

Sum(lanes, block) == [i \in Places |-> SymDiff(lanes[i], block[i])]

Xor(h, block) == [h EXCEPT !.lanes = Sum(@, block)]

Permute(h) == [h EXCEPT !.blocks = Append(@, h.lanes), !.lanes = Blank]

Compress(h, block) == Permute(Xor(h, block))

\* The bytes from .. from+len-1 of the message, put at the place `at`.
Segment(at, from, len) ==
  [i \in Places |-> IF i \in at..(at + len - 1) THEN {from + i - at} ELSE {}]

\* A whole block of the message; Poly1305 sets the bit above it.
Whole(k, from) ==
  [Segment(0, from, Rate) EXCEPT ![Rate] = IF k = "poly1305" THEN Marker ELSE {}]

Held(k, h) ==
  [h.buf EXCEPT ![Rate] = IF k = "poly1305" THEN Marker ELSE {}]

\* n of them: what was in the lanes goes into the first.
CompressWhole(k, h, from, n) ==
  LET Block(j) == Whole(k, from + (j - 1) * Rate)
      blocks == [j \in 1..n |-> IF j = 1 THEN Sum(h.lanes, Block(1)) ELSE Block(j)]
  IN IF n = 0 THEN h ELSE [h EXCEPT !.blocks = @ \o blocks, !.lanes = Blank]

Store(h, at, from, len) ==
  [h EXCEPT !.buf = [i \in Places |-> IF i \in at..(at + len - 1) THEN {from + i - at} ELSE @[i]],
            !.pos = at + len]

Start == [buf |-> Blank, pos |-> 0, lanes |-> Blank, blocks |-> <<>>, count |-> 0]

-----------------------------------------------------------------------------
(* A piece of the message: len bytes, the first of which is number from *)

\* Mutant: what follows the buffered part is stored from the wrong byte.
BlockUpdateUnmoved(k, h, from, len) ==
  LET fills == h.pos # 0 /\ h.pos + len >= Rate
      used  == IF fills THEN Rate - h.pos ELSE 0
      first == IF fills
               THEN [Compress(h, Held(k, Store(h, h.pos, from, used))) EXCEPT !.pos = 0]
               ELSE h
      n     == (len - used) \div Rate
      rest  == (len - used) % Rate
      done  == CompressWhole(k, first, from + used, n)
  IN IF rest = 0 THEN done ELSE Store(done, done.pos, from + n * Rate, rest)

\* SHA-2, SHA-3, KMAC and KPA: a piece that fills the buffer empties it, whole
\* blocks are taken from the message itself, the rest is kept.
BlockUpdate(k, h, from, len) ==
  LET fills == h.pos # 0 /\ h.pos + len >= Rate
      used  == IF fills THEN Rate - h.pos ELSE 0
      first == IF fills
               THEN [Compress(h, Held(k, Store(h, h.pos, from, used)))
                       EXCEPT !.buf = Store(h, h.pos, from, used).buf, !.pos = 0]
               ELSE h
      n     == (len - used) \div Rate
      rest  == (len - used) % Rate
      done  == [CompressWhole(k, first, from + used, n)
                  EXCEPT !.count = @ + Rate * (n + (IF fills THEN 1 ELSE 0))]
  IN IF rest = 0 THEN done ELSE Store(done, done.pos, from + used + n * Rate, rest)

\* Mutant: a buffer that has been filled up is not emptied.
PolyUpdateUnemptied(h, from, len) ==
  LET used == IF h.pos # 0 THEN Smaller(Rate - h.pos, len) ELSE 0
      fill == Store(h, h.pos, from, used)
      n    == (len - used) \div Rate
      rest == (len - used) % Rate
      done == CompressWhole("poly1305", fill, from + used, n)
  IN IF rest = 0 THEN done ELSE Store(done, done.pos % Rate, from + used + n * Rate, rest)

\* Poly1305: what is kept is filled up first.
PolyUpdate(h, from, len) ==
  LET used  == IF h.pos # 0 THEN Smaller(Rate - h.pos, len) ELSE 0
      fill  == Store(h, h.pos, from, used)
      first == IF fill.pos = Rate
               THEN [Compress(fill, Held("poly1305", fill)) EXCEPT !.pos = 0]
               ELSE fill
      n     == (len - used) \div Rate
      rest  == (len - used) % Rate
      done  == CompressWhole("poly1305", first, from + used, n)
  IN IF rest = 0 THEN done ELSE Store(done, done.pos, from + used + n * Rate, rest)

\* The incremental functions have no buffer: they XOR each byte into the lane
\* it belongs to, first to the end of a begun lane, then to the end of a begun
\* block, then whole blocks, whole lanes and the bytes that are left.
IncrementalUpdate(h, from, len) ==
  LET a     == IF (h.pos % Word) > 0 THEN Smaller(Word - (h.pos % Word), len) ELSE 0
      lane  == [Xor(h, Segment(h.pos, from, a)) EXCEPT !.pos = @ + a]
      fills == lane.pos # 0 /\ len - a >= Rate - lane.pos
      b     == IF fills THEN Rate - lane.pos ELSE 0
      block == IF fills
               THEN [Compress(lane, Segment(lane.pos, from + a, b)) EXCEPT !.pos = 0]
               ELSE lane
      n     == (len - a - b) \div Rate
      rest  == (len - a - b) % Rate
      done  == CompressWhole("incremental", block, from + a + b, n)
  IN [Xor(done, Segment(done.pos, from + a + b + n * Rate, rest)) EXCEPT !.pos = @ + rest]

Update(k, h, from, len) ==
  IF len = 0 THEN h
  ELSE CASE k = "poly1305"    -> PolyUpdate(h, from, len)
         [] k = "incremental" -> IncrementalUpdate(h, from, len)
         [] OTHER             -> BlockUpdate(k, h, from, len)

-----------------------------------------------------------------------------
(* The end of the message *)

\* What the buffer holds, and zeros.
Kept(h) == [i \in Places |-> IF i < h.pos THEN h.buf[i] ELSE {}]

\* Mutant: the marker is not counted when room is made for the length.
Sha2FinalizeTight(h) ==
  LET pad   == [Kept(h) EXCEPT ![h.pos] = Marker]
      bits  == Length(h.count + h.pos)
      field == [i \in Places |-> IF i \in (Rate - LenField)..(Rate - 1) THEN bits ELSE {}]
  IN IF h.pos > Rate - LenField
     THEN Compress(Compress(h, pad), field)
     ELSE Compress(h, [i \in Places |-> pad[i] \cup field[i]])

\* The length has its own place at the end of a block: when the marker leaves
\* no room for it, it gets a block of its own.
Sha2Finalize(h) ==
  LET pad   == [Kept(h) EXCEPT ![h.pos] = Marker]
      bits  == Length(h.count + h.pos)
      field == [i \in Places |-> IF i \in (Rate - LenField)..(Rate - 1) THEN bits ELSE {}]
  IN IF h.pos + 1 > Rate - LenField
     THEN Compress(Compress(h, pad), field)
     ELSE Compress(h, [i \in Places |-> pad[i] \cup field[i]])

Sha3Finalize(h) ==
  Compress(h, [[Kept(h) EXCEPT ![h.pos] = Marker] EXCEPT ![Rate - 1] = @ \cup EndMark])

\* The encoded output length goes after the message; when it and the marker do
\* not fit the message is absorbed first, and what it was is still in the block
\* that the code is put in.
KmacFinalize(h) ==
  LET full == h.pos + CodeLen >= Rate
      at   == IF full THEN 0 ELSE h.pos
      pad  == [i \in Places |-> IF i \in at..(at + CodeLen - 1) THEN Code(i - at)
                                ELSE IF i = at + CodeLen THEN Marker ELSE Kept(h)[i]]
      last == [pad EXCEPT ![Rate - 1] = @ \cup EndMark]
  IN Compress(IF full THEN Compress(h, Kept(h)) ELSE h, last)

\* A begun block is absorbed with zeros; the length goes to the root.
KpaFinalize(h) ==
  LET leaves == IF h.pos # 0 THEN Compress(h, Kept(h)) ELSE h
      root   == [[Blank EXCEPT ![0] = Length(h.count + h.pos), ![1] = Marker]
                   EXCEPT ![Rate - 1] = @ \cup EndMark]
  IN Compress(leaves, root)

\* A begun block gets its marker inside, and no bit above it.
PolyFinalize(h) ==
  IF h.pos = 0 THEN h ELSE Compress(h, [Kept(h) EXCEPT ![h.pos] = Marker])

IncrementalFinalize(h) ==
  [Xor(Xor(h, [Blank EXCEPT ![h.pos] = Marker]), [Blank EXCEPT ![Rate - 1] = EndMark])
     EXCEPT !.pos = 0]

Finalized(k, h) ==
  CASE k = "sha2"        -> Sha2Finalize(h)
    [] k = "sha3"        -> Sha3Finalize(h)
    [] k = "kmac"        -> KmacFinalize(h)
    [] k = "kpa"         -> KpaFinalize(h)
    [] k = "poly1305"    -> PolyFinalize(h)
    [] k = "incremental" -> IncrementalFinalize(h)

-----------------------------------------------------------------------------
(* The output *)

\* A byte of output: of which key, block and place in the block it comes.
Run(key, block, at, len) == [i \in 1..len |-> <<key, block, at + i - 1>>]
Blocks(key, block, len) ==
  [i \in 1..len |-> <<key, block + ((i - 1) \div Rate), (i - 1) % Rate>>]

\* What the incremental squeeze gives: the end of a begun lane, of a begun
\* block, whole blocks, and from a block that is begun or new what is left.
Squeezed(h, g, len) ==
  LET a     == IF (h.pos % Word) > 0 THEN Smaller(Word - (h.pos % Word), len) ELSE 0
      p     == h.pos + a
      fills == p # 0 /\ len - a >= Rate - p
      b     == IF fills THEN Rate - p ELSE 0
      q     == IF fills THEN 0 ELSE p
      n     == (len - a - b) \div Rate
      rest  == (len - a - b) % Rate
      next  == g.next + n + (IF rest > 0 /\ q = 0 THEN 1 ELSE 0)
  IN [bytes |-> Run(0, g.next, h.pos, a) \o Run(0, g.next, p, b)
                  \o Blocks(0, g.next + 1, n * Rate) \o Run(0, next, q, rest),
      next |-> next, pos |-> q + rest]

\* A generator keeps a block that it gives bytes of.
Filled(g) ==
  [g EXCEPT !.next = @ + 1, !.cpos = 0, !.crmd = Rate,
            !.cache = [i \in 0..(Rate - 1) |-> <<g.key, g.next + 1, i>>]]

Rekeyed(g) == [g EXCEPT !.key = @ + 1]

NoByte == <<0, 0, 0>>
Unused == [cache |-> [i \in 0..(Rate - 1) |-> NoByte], cpos |-> 0, crmd |-> 0,
           next |-> 0, key |-> 0, bctr |-> 0, pres |-> FALSE]

\* Mutant: the position in the kept block is forgotten.
CachedFromStart(g, len) == [i \in 1..len |-> g.cache[i - 1]]

Cached(g, len) == [i \in 1..len |-> g.cache[g.cpos + i - 1]]

\* CSG clears what it has given of a block that it goes on with.
Cleared(k, g) ==
  IF k = "csg" /\ g.crmd # 0
  THEN [g EXCEPT !.cache = [i \in DOMAIN @ |-> IF i < g.cpos THEN NoByte ELSE @[i]]]
  ELSE g

AutoReseed(g) ==
  IF g.pres /\ g.bctr >= ReseedAt
  THEN [Filled(Rekeyed(g)) EXCEPT !.bctr = 0]
  ELSE g

\* The rest of the kept block, and of new blocks as many as it takes.
Generated(k, g, len) ==
  LET short == g.crmd < len
      need  == IF short THEN len - g.crmd ELSE 0
      fills == (need + Rate - 1) \div Rate
      last  == IF fills = 0 THEN g ELSE Filled([g EXCEPT !.next = @ + fills - 1])
      used  == IF short THEN need - Rate * (fills - 1) ELSE len
      after == [last EXCEPT !.cpos = @ + used, !.crmd = @ - used, !.bctr = @ + len]
  IN [bytes |-> IF short THEN Cached(g, g.crmd) \o Blocks(g.key, g.next + 1, need)
                ELSE Cached(g, len),
      gen |-> AutoReseed(Cleared(k, after))]

-----------------------------------------------------------------------------
(* The callers: any pieces, then the end, then any requests *)

Init ==
  /\ kind \in Hashes \cup Generators
  /\ phase = IF kind \in Hashes THEN "absorbing" ELSE "squeezing"
  /\ hash = Start
  /\ taken = 0
  /\ gen \in IF kind \in Hashes THEN {Unused}
             ELSE {Filled([Unused EXCEPT !.pres = p]) : p \in BOOLEAN}
  /\ out = <<>>

Absorb(len) ==
  /\ phase = "absorbing"
  /\ taken + len <= MaxBytes
  /\ hash' = Update(kind, hash, taken + 1, len)
  /\ taken' = taken + len
  /\ UNCHANGED <<kind, phase, gen, out>>

Finalize ==
  /\ phase = "absorbing"
  /\ hash' = Finalized(kind, hash)
  /\ phase' = IF kind = "incremental" THEN "squeezing" ELSE "done"
  /\ UNCHANGED <<kind, taken, gen, out>>

Squeeze(len) ==
  /\ phase = "squeezing" /\ kind = "incremental"
  /\ Len(out) + len <= MaxOut
  /\ LET s == Squeezed(hash, gen, len)
     IN /\ out' = out \o s.bytes
        /\ hash' = [hash EXCEPT !.pos = s.pos]
        /\ gen' = [gen EXCEPT !.next = s.next]
  /\ UNCHANGED <<kind, phase, taken>>

Generate(len) ==
  /\ phase = "squeezing" /\ kind \in Generators
  /\ Len(out) + len <= MaxOut
  /\ LET s == Generated(kind, gen, len)
     IN /\ out' = out \o s.bytes
        /\ gen' = s.gen
  /\ UNCHANGED <<kind, phase, hash, taken>>

\* CSG takes a new block with the new key at once; HCG goes on with the block
\* that it keeps.
UpdateSeed ==
  /\ phase = "squeezing" /\ kind \in Generators
  /\ gen.key < MaxSeeds
  /\ gen' = IF kind = "csg" THEN Filled(Rekeyed(gen)) ELSE Rekeyed(gen)
  /\ UNCHANGED <<kind, phase, hash, taken, out>>

Next ==
  \/ \E len \in 0..MaxBytes : Absorb(len)
  \/ Finalize
  \/ \E len \in 1..MaxOut : Squeeze(len) \/ Generate(len)
  \/ UpdateSeed

Spec == Init /\ [][Next]_vars

-----------------------------------------------------------------------------
(* Properties *)

\* The position is inside the block, and a generator's block is split between
\* what it has given and what it will give.
TypeOK ==
  /\ kind \in Hashes \cup Generators
  /\ phase \in {"absorbing", "squeezing", "done"}
  /\ taken \in 0..MaxBytes
  /\ hash.pos \in 0..Rate
  /\ phase = "absorbing" => hash.pos = taken % Rate
  /\ DOMAIN hash.buf = Places /\ DOMAIN hash.lanes = Places
  /\ gen.key \in Nat /\ gen.next \in Nat
  /\ kind \in Generators => gen.cpos \in 0..Rate /\ gen.crmd = Rate - gen.cpos
  /\ Len(out) <= MaxOut

\* The bytes from 1 to n with the padding of each primitive, cut into blocks.
Padded(k, n) ==
  LET tail  == n % Rate
      whole == [j \in 1..(n \div Rate) |-> Whole(k, (j - 1) * Rate + 1)]
      begun == Segment(0, n - tail + 1, tail)
      bits  == [i \in Places |-> IF i \in (Rate - LenField)..(Rate - 1) THEN Length(n) ELSE {}]
      Mark(b, i) == [b EXCEPT ![i] = @ \cup Marker]
      End(b) == [b EXCEPT ![Rate - 1] = @ \cup EndMark]
      Or(b, c) == [i \in Places |-> b[i] \cup c[i]]
      code(at) == [i \in Places |-> IF i \in at..(at + CodeLen - 1) THEN Code(i - at) ELSE {}]
  IN whole \o
     CASE k = "sha2" -> IF tail + 1 + LenField <= Rate THEN <<Or(Mark(begun, tail), bits)>>
                        ELSE <<Mark(begun, tail), bits>>
       [] k \in {"sha3", "incremental"} -> <<End(Mark(begun, tail))>>
       [] k = "kmac" -> <<End(Mark(Or(begun, code(tail)), tail + CodeLen))>>
       [] k = "kpa" -> (IF tail = 0 THEN <<>> ELSE <<begun>>)
                         \o <<End([Blank EXCEPT ![0] = Length(n), ![1] = Marker])>>
       [] k = "poly1305" -> IF tail = 0 THEN <<>> ELSE <<Mark(begun, tail)>>

\* What the block function was given; the incremental functions apply it to the
\* last block when the output begins.
Given == IF kind = "incremental" THEN Append(hash.blocks, hash.lanes) ELSE hash.blocks

Absorbed == kind \in Hashes /\ phase # "absorbing"

\* A digest depends on the message alone: whatever pieces the message came in,
\* the block function was given what one call with all of it gives it.
CutsDoNotMatter ==
  Absorbed => LET whole == Finalized(kind, Update(kind, Start, 1, taken))
              IN hash.blocks = whole.blocks /\ hash.lanes = whole.lanes

\* Every byte of the message is in the blocks once, in order, and the padding
\* that the primitive is defined with ends them.  KMAC is left out where the
\* encoded length does not fit in the block the message ends in.
PaddedAsDefined ==
  Absorbed /\ (kind = "kmac" => (taken % Rate) + CodeLen < Rate)
    => Given = Padded(kind, taken)

\* One byte of output follows the other: the next of the block, the first of the
\* next block, or the first of a later block of a later key.  A key is never
\* gone back to.
Follows(a, b) ==
  \/ b = <<a[1], a[2], a[3] + 1>>
  \/ a[3] = Rate - 1 /\ b[1] >= a[1] /\ b[2] = a[2] + 1 /\ b[3] = 0
  \/ b[1] > a[1] /\ b[2] > a[2] /\ b[3] = 0

\* The output is one stream however it is asked for: no byte of it is given
\* twice, skipped or taken from what has been cleared, and it changes over to
\* another key at the beginning of a block only, where the rest of the last block
\* may be dropped.  What CSG still keeps is of its present key: nothing that it
\* gives after a new seed comes from before it.  HCG may keep its block.
StreamInOrder ==
  /\ \A i \in 1..(Len(out) - 1) : Follows(out[i], out[i + 1])
  /\ out # <<>> => out[1][3] = 0 /\ (gen.key = 0 => out[1][2] = 1)
  /\ kind = "csg" => \A i \in gen.cpos..(Rate - 1) : gen.cache[i] = <<gen.key, gen.next, i>>

=============================================================================
