--------------------------- MODULE FramingProofs ---------------------------
(***************************************************************************)
(* What the receive loops deliver, for every number of packets and every   *)
(* length of a message.  The invariant counts: the number the receiver     *)
(* expects is one more than what it has delivered.                         *)
(***************************************************************************)
EXTENDS Framing, SequenceTheorems, TLAPS

UnitsOf(m) == [packet : 1..m, part : 1..(PacketLen + TerminatorLen)]
Delivery == [packet : Nat, whole : BOOLEAN]

StreamInv ==
  /\ sent \in 0..MaxPackets
  /\ way \in Seq(UnitsOf(sent))
  /\ arrived \in Seq(UnitsOf(sent))

ReceiverInv ==
  /\ rxseq \in 0..sent
  /\ delivered \in Seq(Delivery)
  /\ rxseq = Len(delivered)
  /\ DeliveredIsPrefix

IInv ==
  /\ loop \in {"client", "server"} /\ open \in BOOLEAN /\ calm \in BOOLEAN
  /\ StreamInv
  /\ ReceiverInv

\* Part of a sequence of units is a sequence of units.
LEMMA PartOf ==
  ASSUME NEW S, NEW s \in Seq(S), NEW j \in Nat \ {0}, NEW k \in 0..Len(s)
  PROVE  SubSeq(s, j, k) \in Seq(S)
  OBVIOUS

\* What the sender writes are units of packets sent so far.
LEMMA WrittenUnits ==
  ASSUME NEW n \in Nat \ {0}
  PROVE  Written(n) \in Seq(UnitsOf(n))
<1>1. PacketLen \in Nat /\ TerminatorLen \in Nat
  BY FramingAssumption DEF PacketLen, HeaderLen, TerminatorLen
<1> QED
  BY <1>1 DEF Written, UnitsOf, Unit

LEMMA MoreUnits ==
  ASSUME NEW m \in Nat
  PROVE  Seq(UnitsOf(m)) \subseteq Seq(UnitsOf(m + 1))
<1>1. UnitsOf(m) \subseteq UnitsOf(m + 1)
  BY DEF UnitsOf
<1> QED
  BY <1>1

\* A packet that is accepted is the next and whole; any other closes.
LEMMA ReceiveKeeps ==
  ASSUME IInv, NEW n \in 1..sent, NEW s, Receive(n, s), sent' = sent
  PROVE  open' \in BOOLEAN /\ ReceiverInv'
<1>1. CASE Accepts(n, s)
  <2>1. rxseq' = n /\ open' = open
    BY <1>1 DEF Receive
  <2>2. delivered' = Append(delivered, [packet |-> n, whole |-> Begins(Packet(n), s)])
    BY <1>1 DEF Receive
  <2>3. n = rxseq + 1 /\ Begins(Packet(n), s)
    BY <1>1 DEF Accepts, InSequence, MacPasses
  <2>4. delivered' = Append(delivered, [packet |-> rxseq + 1, whole |-> TRUE])
    BY <2>2, <2>3
  <2>5. [packet |-> rxseq + 1, whole |-> TRUE] \in Delivery
    BY DEF Delivery, IInv, ReceiverInv, StreamInv
  <2>6. DeliveredIsPrefix'
    <3>1. /\ delivered \in Seq(Delivery) /\ rxseq = Len(delivered)
          /\ \A i \in 1..Len(delivered) : delivered[i] = [packet |-> i, whole |-> TRUE]
      <4>1. delivered \in Seq(Delivery) /\ rxseq = Len(delivered) /\ DeliveredIsPrefix
        BY DEF IInv, ReceiverInv
      <4>2. DOMAIN delivered = 1..Len(delivered)
        BY <4>1, LenProperties
      <4> QED
        BY <4>1, <4>2 DEF DeliveredIsPrefix
    <3>2. /\ DOMAIN delivered' = 1..(Len(delivered) + 1)
          /\ delivered'[Len(delivered) + 1] = [packet |-> rxseq + 1, whole |-> TRUE]
          /\ \A i \in 1..Len(delivered) : delivered'[i] = delivered[i]
      BY <2>4, <2>5, <3>1, AppendProperties
    <3>3. ASSUME NEW i \in DOMAIN delivered'
          PROVE  delivered'[i] = [packet |-> i, whole |-> TRUE]
      <4>1. CASE i = Len(delivered) + 1
        BY <4>1, <3>1, <3>2
      <4>2. CASE i \in 1..Len(delivered)
        BY <4>2, <3>1, <3>2
      <4> QED
        BY <3>1, <3>2, <4>1, <4>2, LenProperties
    <3> QED
      BY <3>3 DEF DeliveredIsPrefix
  <2> QED
    BY <2>1, <2>3, <2>4, <2>5, <2>6 DEF IInv, ReceiverInv, StreamInv
<1>2. CASE ~Accepts(n, s)
  <2>1. open' = FALSE /\ rxseq' = rxseq /\ delivered' = delivered
    BY <1>2 DEF Receive
  <2> QED
    BY <2>1 DEF IInv, ReceiverInv, DeliveredIsPrefix
<1> QED
  BY <1>1, <1>2

LEMMA ReadKeeps ==
  ASSUME IInv, NEW k \in 0..Len(arrived), Read(k)
  PROVE  arrived' \in Seq(UnitsOf(sent))
  BY PartOf DEF Read, IInv, StreamInv

LEMMA InitInv == Init => IInv
  BY FramingAssumption
  DEF Init, IInv, StreamInv, ReceiverInv, DeliveredIsPrefix

LEMMA NextInv == IInv /\ [Next]_vars => IInv'
<1> SUFFICES ASSUME IInv, [Next]_vars PROVE IInv'
  OBVIOUS
<1> USE FramingAssumption
<1>1. CASE Send
  <2>1. sent \in Nat /\ sent + 1 \in 0..MaxPackets
    BY <1>1 DEF Send, IInv, StreamInv
  <2>2. way' \in Seq(UnitsOf(sent + 1)) /\ arrived' \in Seq(UnitsOf(sent + 1))
    BY <1>1, <2>1, WrittenUnits, MoreUnits DEF Send, IInv, StreamInv
  <2>3. calm' \in BOOLEAN
    BY <1>1 DEF Send, AllRead, IInv
  <2>4. ReceiverInv'
    BY <1>1, <2>1 DEF Send, IInv, ReceiverInv, DeliveredIsPrefix
  <2> QED
    BY <1>1, <2>1, <2>2, <2>3, <2>4 DEF Send, IInv, StreamInv
<1>2. ASSUME NEW k \in 1..Len(way), Arrive(k) PROVE IInv'
  <2>1. /\ SubSeq(way, 1, k) \in Seq(UnitsOf(sent))
        /\ SubSeq(way, k + 1, Len(way)) \in Seq(UnitsOf(sent))
    BY PartOf DEF IInv, StreamInv
  <2>2. StreamInv'
    BY <1>2, <2>1 DEF Arrive, IInv, StreamInv
  <2> QED
    BY <1>2, <2>2 DEF Arrive, IInv, ReceiverInv, DeliveredIsPrefix
<1>3. CASE PeekAndRead
  <2>1. PICK n \in HeaderOf(arrived) :
          LET k == Least(ReadLen, Len(arrived))
          IN Read(k) /\ Receive(n, SubSeq(arrived, 1, k))
    BY <1>3 DEF PeekAndRead
  <2>2. n \in 1..sent
    BY DEF HeaderOf
  <2>3. Least(ReadLen, Len(arrived)) \in 0..Len(arrived)
    BY DEF Least, ReadLen, PacketLen, HeaderLen, TerminatorLen, IInv, StreamInv
  <2>4. arrived' \in Seq(UnitsOf(sent))
    BY <2>1, <2>3, ReadKeeps
  <2>5. sent' = sent /\ way' = way /\ loop' = loop /\ calm' = calm
    BY <1>3 DEF PeekAndRead
  <2>6. open' \in BOOLEAN /\ ReceiverInv'
    BY <2>1, <2>2, <2>5, ReceiveKeeps
  <2> QED
    BY <2>4, <2>5, <2>6 DEF IInv, StreamInv
<1>4. CASE PeekGarbage
  <2>1. PICK k \in HeaderLen..Len(arrived) : Read(k)
    BY <1>4 DEF PeekGarbage
  <2>2. arrived' \in Seq(UnitsOf(sent))
    BY <2>1, ReadKeeps DEF HeaderLen, IInv, StreamInv
  <2> QED
    BY <1>4, <2>2 DEF PeekGarbage, IInv, StreamInv, ReceiverInv, DeliveredIsPrefix
<1>5. CASE ReadOnce
  <2>1. sent' = sent /\ way' = way /\ loop' = loop /\ calm' = calm /\ Read(Len(arrived))
    BY <1>5 DEF ReadOnce
  <2>2. arrived' \in Seq(UnitsOf(sent))
    BY <2>1, ReadKeeps DEF IInv, StreamInv
  <2>3. CASE \E n \in HeaderOf(arrived) : Receive(n, arrived)
    <3>1. PICK n \in HeaderOf(arrived) : Receive(n, arrived)
      BY <2>3
    <3>2. n \in 1..sent
      BY DEF HeaderOf
    <3>3. open' \in BOOLEAN /\ ReceiverInv'
      BY <2>1, <3>1, <3>2, ReceiveKeeps
    <3> QED
      BY <2>1, <2>2, <3>3 DEF IInv, StreamInv
  <2>4. CASE open' = FALSE /\ UNCHANGED <<rxseq, delivered>>
    BY <2>1, <2>2, <2>4 DEF IInv, StreamInv, ReceiverInv, DeliveredIsPrefix
  <2> QED
    BY <1>5, <2>3, <2>4 DEF ReadOnce
<1>6. CASE UNCHANGED vars
  BY <1>6 DEF vars, IInv, StreamInv, ReceiverInv, DeliveredIsPrefix
<1> QED
  BY <1>1, <1>2, <1>3, <1>4, <1>5, <1>6 DEF Next, Network, Receiver

\* The types hold, and the receiver never counts past the sender, for every
\* number of packets and every length of a message.
THEOREM FramingTypeCorrect == Spec => []TypeOK
<1>1. IInv => TypeOK
  <2> SUFFICES ASSUME IInv PROVE TypeOK
    OBVIOUS
  <2>1. \A s \in {way, arrived} : \A i \in DOMAIN s : s[i] \in UnitsOf(sent)
    BY DEF IInv, StreamInv
  <2> QED
    BY <2>1 DEF IInv, StreamInv, ReceiverInv, TypeOK, UnitsOf
<1> QED
  BY <1>1, InitInv, NextInv, PTL DEF Spec

\* However TCP cuts the stream, both receive loops deliver whole packets, in
\* order, none left out before the last one delivered.
THEOREM DeliveryIsPrefix == Spec => []DeliveredIsPrefix
<1>1. IInv => DeliveredIsPrefix
  BY DEF IInv, ReceiverInv
<1> QED
  BY <1>1, InitInv, NextInv, PTL DEF Spec
=============================================================================
