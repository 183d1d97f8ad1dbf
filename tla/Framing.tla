------------------------------ MODULE Framing -------------------------------
(***************************************************************************)
(* How the receive loops cut a TCP stream into packets.  The sender writes *)
(* a header, a message and one byte more; the stream may arrive in pieces  *)
(* and two packets may arrive together.  The receive loops of the client   *)
(* library peek at a header and then read, without waiting, what the       *)
(* header asks for and two bytes more; the receive loop of the server      *)
(* reads once, as much as there is, and makes one packet of it.            *)
(*                                                                         *)
(* A packet is a sequence of units: two for the header (so that it can     *)
(* arrive in pieces, and lose its first byte), BodyLen for the message,    *)
(* one for the byte more.  A header that is not the beginning of a packet  *)
(* may say anything.                                                       *)
(***************************************************************************)
EXTENDS Naturals, Sequences

CONSTANTS
  MaxPackets, \* bound on the packets sent
  BodyLen     \* units of a message

ASSUME FramingAssumption == MaxPackets \in Nat /\ BodyLen \in Nat \ {0}

VARIABLES
  loop,      \* the receive loop: of the client library or of the server
  sent,      \* how many packets have been sent
  way,       \* the units on their way
  arrived,   \* the units that have arrived and have not been read
  open,      \* whether the receiver still receives
  rxseq,     \* the counter of the receiver
  delivered, \* history: what the callback was given
  calm       \* history: every packet arrived in one piece, alone

vars == <<loop, sent, way, arrived, open, rxseq, delivered, calm>>

HeaderLen == 2
TerminatorLen == 1

Unit(n, i) == [packet |-> n, part |-> i]
PacketLen == HeaderLen + BodyLen
Packet(n) == [i \in 1..PacketLen |-> Unit(n, i)]
Written(n) == [i \in 1..(PacketLen + TerminatorLen) |-> Unit(n, i)]

Init ==
  /\ loop \in {"client", "server"}
  /\ sent = 0
  /\ way = <<>> /\ arrived = <<>>
  /\ open = TRUE
  /\ rxseq = 0
  /\ delivered = <<>>
  /\ calm = TRUE

-----------------------------------------------------------------------------
(* The sender and the network *)

\* No packet sent before is still to be read.
AllRead == way = <<>> /\ \A i \in DOMAIN arrived : arrived[i].part # 1

Send ==
  /\ sent < MaxPackets
  /\ sent' = sent + 1
  /\ way' = way \o Written(sent + 1)
  /\ calm' = (calm /\ AllRead)
  /\ UNCHANGED <<loop, arrived, open, rxseq, delivered>>

Arrive(k) ==
  /\ arrived' = arrived \o SubSeq(way, 1, k)
  /\ way' = SubSeq(way, k + 1, Len(way))
  /\ calm' = (calm /\ k = Len(way))
  /\ UNCHANGED <<loop, sent, open, rxseq, delivered>>

-----------------------------------------------------------------------------
(* The receiver *)

Begins(s, t) == Len(s) <= Len(t) /\ SubSeq(t, 1, Len(s)) = s

\* The packet whose header stands first, if one does.
HeaderOf(s) ==
  {n \in 1..sent : Begins(SubSeq(Packet(n), 1, HeaderLen), s)}

\* (The mutants: a number that is only greater, no test of the MAC, and below a
\* read that leaves the byte more in the stream.)
\* qsmp_decrypt_packet: the number is the next, and the whole message is there.
MacPasses(n, s) == Begins(Packet(n), s)
InSequenceOrLater(n) == n > rxseq
InSequence(n) == n = rxseq + 1
AcceptsCut(n, s) == InSequence(n)
Accepts(n, s) == InSequence(n) /\ MacPasses(n, s)

Read(k) == arrived' = SubSeq(arrived, k + 1, Len(arrived))

Receive(n, s) ==
  IF Accepts(n, s)
  THEN /\ rxseq' = n
       /\ delivered' = Append(delivered, [packet |-> n, whole |-> Begins(Packet(n), s)])
       /\ UNCHANGED open
  ELSE /\ open' = FALSE
       /\ UNCHANGED <<rxseq, delivered>>

Least(a, b) == IF a <= b THEN a ELSE b

\* What the client library asks recv for.
ReadLenExact == PacketLen
ReadLen == PacketLen + 2 * TerminatorLen

PeekAndRead ==
  /\ loop = "client" /\ open
  /\ \E n \in HeaderOf(arrived) :
       LET k == Least(ReadLen, Len(arrived))
       IN Read(k) /\ Receive(n, SubSeq(arrived, 1, k))
  /\ UNCHANGED <<loop, sent, way, calm>>

\* The header is none: its flag may close the session, its length any.
PeekGarbage ==
  /\ loop = "client" /\ open
  /\ Len(arrived) >= HeaderLen /\ HeaderOf(arrived) = {}
  /\ \E k \in HeaderLen..Len(arrived) : Read(k)
  /\ open' \in BOOLEAN
  /\ UNCHANGED <<loop, sent, way, rxseq, delivered, calm>>

\* One read, one packet; what follows it in the buffer is cleared.
ReadOnce ==
  /\ loop = "server" /\ open
  /\ arrived # <<>>
  /\ Read(Len(arrived))
  /\ \/ \E n \in HeaderOf(arrived) : Receive(n, arrived)
     \/ HeaderOf(arrived) = {} /\ open' = FALSE /\ UNCHANGED <<rxseq, delivered>>
  /\ UNCHANGED <<loop, sent, way, calm>>

Receiver == PeekAndRead \/ PeekGarbage \/ ReadOnce
Network == \E k \in 1..Len(way) : Arrive(k)

Next == Send \/ Network \/ Receiver

\* What is sent arrives, and the receive thread is scheduled.
Fairness == WF_vars(Network) /\ WF_vars(Receiver)

Spec == Init /\ [][Next]_vars /\ Fairness

-----------------------------------------------------------------------------
(* Properties *)

\* The variables have their types; the receiver never counts past the sender.
TypeOK ==
  /\ loop \in {"client", "server"}
  /\ sent \in 0..MaxPackets
  /\ \A s \in {way, arrived} :
       \A i \in DOMAIN s : s[i] \in [packet : 1..sent, part : 1..(PacketLen + TerminatorLen)]
  /\ open \in BOOLEAN /\ calm \in BOOLEAN
  /\ rxseq \in 0..sent /\ rxseq = Len(delivered)

\* However the stream is cut, the callback is given the packets that were sent,
\* whole, in order, and none left out before the last one given.
DeliveredIsPrefix ==
  \A i \in DOMAIN delivered : delivered[i] = [packet |-> i, whole |-> TRUE]

\* Packets that arrive in one piece and one at a time are all delivered, the one
\* byte more that the sender writes and the two more that the reader asks for
\* notwithstanding.
CalmPacketsArrive ==
  \A n \in 1..MaxPackets : sent = n /\ calm ~> Len(delivered) >= n \/ ~calm
=============================================================================
