--------------------------- MODULE KexWireProofs ----------------------------
(***************************************************************************)
(* What the steps that both exchanges share do to the connection, for any  *)
(* kinds of packets.  The two hosts take turns: there is never more than   *)
(* one packet of the exchange under way, and never one while a host is     *)
(* about to send (Turns); and it carries the number that is expected       *)
(* (Counts).  SimplexKexProofs and DuplexKexProofs say what is in it.      *)
(***************************************************************************)
EXTENDS KexWire, SequenceTheorems, TLAPS

\* The errors of an exchange, and what an error packet carries.
Codes ==
  {"transmit_failure", "receive_failure", "packet_unsequenced", "connect_failure",
   "exchange_failure", "establish_failure", "authentication_failure", "hash_invalid",
   "key_expired", "key_unrecognized", "unknown_protocol", "invalid_request",
   "decapsulation_failure"}

\* P[r] is what may be on its way to r: packets that stay such when a field is
\* corrupted, and error packets with any error.
PacketKinds(P) ==
  \A r \in Roles :
    /\ \A p \in P[r] : DOMAIN p = {"flag", "seq", "body"}
    /\ \A p \in P[r] : p.flag # "error_condition" => GarbledForms(p) \subseteq P[r]
    /\ \A c \in Codes : [flag |-> "error_condition", seq |-> Terminator, body |-> c] \in P[r]
    /\ \A p \in P[r] : p.flag = "error_condition" => p.body \in Codes

\* The first packet is one of the exchange.
Data(w) == w # <<>> /\ Head(w).flag # "error_condition"

\* It is this host's turn to make or to send a packet.
Holds(r) == at[r] \in {"start", "send"}

\* The state of a host in its exchange.
Stands(r, flag, tx, rx) == exflag[r] = flag /\ txseq[r] = tx /\ rxseq[r] = rx

\* A host another one's step does not touch.
Untouched(r) ==
  /\ at'[r] = at[r] /\ exflag'[r] = exflag[r] /\ txseq'[r] = txseq[r] /\ rxseq'[r] = rxseq[r]
  /\ want'[r] = want[r] /\ out'[r] = out[r] /\ kex'[r] = kex[r] /\ channel'[r] = channel[r]

KexTypes ==
  /\ at \in [Roles -> Places] /\ exflag \in [Roles -> Flags]
  /\ txseq \in [Roles -> Nat] /\ rxseq \in [Roles -> Nat]
  /\ DOMAIN out = Roles /\ DOMAIN want = Roles /\ DOMAIN kex = Roles /\ DOMAIN channel = Roles
  /\ err \in [Roles -> Codes \cup {"none"}] /\ \A r \in Roles : at[r] = "failing" => err[r] \in Codes
  /\ ended \subseteq Roles /\ link \in {"up", "down"} /\ garbled \in 0 .. MaxGarbled

Wires(P) ==
  /\ DOMAIN wire = Roles
  /\ \A r \in Roles : wire[r] \in Seq(P[r])
  /\ \A r \in Roles : at[r] = "send" => out[r] \in P[Other(r)]

Turns ==
  \A r \in Roles :
    /\ Holds(r) => ~Holds(Other(r)) /\ ~Data(wire[r]) /\ wire[Other(r)] = <<>>
    /\ Data(wire[r]) => ~Data(wire[Other(r)])
    /\ Len(wire[r]) <= 2
    /\ Len(wire[r]) = 2 => wire[r][2].flag = "error_condition"
    /\ at[Other(r)] # "failed" => Len(wire[r]) <= 1 /\ (wire[r] # <<>> => Data(wire[r]))

Counts ==
  \A r \in Roles :
    /\ at[r] = "send" => out[r].seq = txseq[r] /\ out[r].flag # "error_condition"
    /\ ~Down(r) /\ Data(wire[r]) => Head(wire[r]).seq \in {Garbled, rxseq[r]}
    /\ link = "up" /\ ~Down(r) /\ ~Down(Other(r)) =>
         txseq[Other(r)] = rxseq[r] + (IF Data(wire[r]) THEN 1 ELSE 0)

WireInv(P) == KexTypes /\ Wires(P) /\ Turns /\ Counts

\* Where the first packet before r comes from, in a step that sends none.
Remains(r) ==
  Data(wire'[r]) =>
    Data(wire[r]) /\ Head(wire'[r]) \in {Head(wire[r])} \cup GarbledForms(Head(wire[r]))

-----------------------------------------------------------------------------
LEMMA OtherRole ==
  \A r \in Roles : Other(r) \in Roles /\ Other(r) # r /\ Other(Other(r)) = r
                   /\ \A q \in Roles : q = r \/ q = Other(r)
  BY DEF Roles, Other

LEMMA TwoRoles ==
  /\ Roles = {"client", "server"} /\ "client" \in Roles /\ "server" \in Roles /\ "client" # "server"
  /\ Other("client") = "server" /\ Other("server") = "client"
  BY DEF Roles, Other

\* Facts about short sequences that the steps below keep needing.
LEMMA ShortSeq ==
  ASSUME NEW S, NEW w \in Seq(S)
  PROVE  /\ Len(w) \in Nat
         /\ w = <<>> <=> Len(w) = 0
         /\ w # <<>> => Head(w) = w[1] /\ w[1] \in S
         /\ w # <<>> => Tail(w) \in Seq(S) /\ Len(Tail(w)) = Len(w) - 1
         /\ Len(w) = 2 => Head(Tail(w)) = w[2] /\ w[2] \in S
<1>1. Len(w) \in Nat /\ (w = <<>> <=> Len(w) = 0)
  BY EmptySeq
<1>2. w # <<>> => /\ Head(w) = w[1] /\ w[1] \in S
                  /\ Tail(w) \in Seq(S) /\ Len(Tail(w)) = Len(w) - 1
  BY <1>1, HeadTailProperties, ElementOfSeq
<1>3. Len(w) = 2 => Head(Tail(w)) = w[2] /\ w[2] \in S
  BY <1>1, <1>2, HeadTailProperties, ElementOfSeq
<1> QED
  BY <1>1, <1>2, <1>3

LEMMA AppendShort ==
  ASSUME NEW S, NEW w \in Seq(S), NEW e \in S
  PROVE  /\ Append(w, e) \in Seq(S) /\ Append(w, e) # <<>>
         /\ Len(Append(w, e)) = Len(w) + 1
         /\ w = <<>> => Head(Append(w, e)) = e
         /\ w # <<>> => Head(Append(w, e)) = Head(w)
         /\ Append(w, e)[Len(w) + 1] = e
  BY AppendProperties, HeadTailAppend

\* A packet in transit is replaced by a corrupted one.
LEMMA ReplaceHead ==
  ASSUME NEW S, NEW w \in Seq(S), w # <<>>, NEW e \in S
  PROVE  /\ <<e>> \o Tail(w) \in Seq(S)
         /\ Len(<<e>> \o Tail(w)) = Len(w)
         /\ Head(<<e>> \o Tail(w)) = e
         /\ Len(w) = 2 => (<<e>> \o Tail(w))[2] = w[2]
<1> DEFINE s == <<e>>
           t == Tail(w)
<1>1. s \in Seq(S) /\ Len(s) = 1 /\ s[1] = e
  OBVIOUS
<1>2. t \in Seq(S) /\ Len(t) = Len(w) - 1 /\ (Len(w) = 2 => t[1] = w[2]) /\ Len(w) \in Nat \ {0}
  BY HeadTailProperties, EmptySeq
<1> HIDE DEF s, t
<1>3. /\ s \o t \in Seq(S) /\ Len(s \o t) = Len(s) + Len(t)
      /\ \A i \in 1 .. Len(s) + Len(t) :
           (s \o t)[i] = IF i <= Len(s) THEN s[i] ELSE t[i - Len(s)]
  BY <1>1, <1>2, ConcatProperties, Zenon
<1>4. /\ Len(s \o t) = Len(w) /\ (s \o t)[1] = e
      /\ Len(w) = 2 => (s \o t)[2] = w[2]
  BY <1>1, <1>2, <1>3
<1>5. s \o t # <<>>
  BY <1>2, <1>3, <1>4, EmptySeq
<1>6. Head(s \o t) = (s \o t)[1]
  BY <1>3, <1>5, ShortSeq
<1> QED
  BY <1>3, <1>4, <1>6 DEF s, t

\* Corruption changes one field at a time, and never the flag.
LEMMA Corrupted ==
  ASSUME NEW p, DOMAIN p = {"flag", "seq", "body"}, NEW q \in {p} \cup GarbledForms(p)
  PROVE  /\ q.flag = p.flag
         /\ \A f \in DOMAIN p.body : q.body[f] \in {p.body[f], Garbled}
<1>1. CASE q = p
  BY <1>1
<1>2. CASE q = [p EXCEPT !.seq = Garbled]
  BY <1>2
<1>3. ASSUME NEW f \in DOMAIN p.body, q = [p EXCEPT !.body[f] = Garbled]
      PROVE  /\ q.flag = p.flag
             /\ \A g \in DOMAIN p.body : q.body[g] \in {p.body[g], Garbled}
  <2>1. q.flag = p.flag /\ q.body = [p.body EXCEPT ![f] = Garbled]
    BY <1>3
  <2> QED
    BY <2>1
<1> QED
  BY <1>1, <1>2, <1>3 DEF GarbledForms

-----------------------------------------------------------------------------
(* The steps both exchanges share *)

\* A packet goes out when nothing is before the other host.
LEMMA SendKeeps ==
  ASSUME NEW P, PacketKinds(P), WireInv(P), NEW r \in Roles, Send(r)
  PROVE  /\ WireInv(P)'
         /\ Remains(r)
         /\ Data(wire'[Other(r)]) => Head(wire'[Other(r)]) = out[r]
<1> DEFINE o == Other(r)
<1>1. o \in Roles /\ o # r /\ Other(o) = r /\ \A q \in Roles : q = r \/ q = o
  BY OtherRole
<1>2. wire[o] = <<>> /\ ~Data(wire[r]) /\ ~Holds(o) /\ out[r] \in P[o]
  BY <1>1 DEF WireInv, Wires, Turns, Holds, Send
<1>3. wire[r] \in Seq(P[r]) /\ wire[o] \in Seq(P[o]) /\ DOMAIN wire = Roles
  BY <1>1 DEF WireInv, Wires
<1>4. at' = [at EXCEPT ![r] = at'[r]] /\ at'[r] \in {"session", "receive", "failing"}
  BY DEF Send, Go, WireInv, KexTypes
<1>5. at'[o] = at[o] /\ ~Holds(o)' /\ ~Holds(r)' /\ at'[r] # "send" /\ at'[o] # "send"
  BY <1>1, <1>2, <1>4 DEF WireInv, KexTypes, Holds
<1>6. KexTypes'
  <2>1. at' \in [Roles -> Places]
    BY <1>4 DEF WireInv, KexTypes, Places
  <2>2. txseq' \in [Roles -> Nat]
    <3>1. txseq' = [txseq EXCEPT ![r] = txseq[r] + 1] \/ txseq' = txseq
      BY DEF Send, SentSeq
    <3> QED
      BY <3>1 DEF WireInv, KexTypes
  <2>3. /\ err' \in [Roles -> Codes \cup {"none"}]
        /\ \A q \in Roles : at'[q] = "failing" => err'[q] \in Codes
    <3>1. \/ err' = [err EXCEPT ![r] = "transmit_failure"]
          \/ err' = err /\ at'[r] # "failing"
      BY DEF Send, Go, WireInv, KexTypes
    <3> QED
      BY <1>1, <1>5, <3>1 DEF WireInv, KexTypes, Codes
  <2>4. DOMAIN kex' = Roles
    BY DEF Send, ClearExchange, WireInv, KexTypes
  <2> QED
    BY <2>1, <2>2, <2>3, <2>4 DEF Send, WireInv, KexTypes
<1>7. CASE link = "up"
  <2>1. wire' = [wire EXCEPT ![o] = Append(wire[o], out[r])] /\ txseq' = [txseq EXCEPT ![r] = txseq[r] + 1]
    BY <1>7 DEF Send, SentSeq
  <2>2. wire'[r] = wire[r] /\ DOMAIN wire' = Roles /\ wire'[o] = Append(wire[o], out[r])
    BY <1>1, <1>3, <2>1
  <2>3. /\ wire'[o] \in Seq(P[o]) /\ wire'[o] # <<>> /\ Len(wire'[o]) = 1
        /\ Head(wire'[o]) = out[r]
    BY <1>2, <1>3, <2>2, AppendShort, EmptySeq
  <2>4. out[r].seq = txseq[r] /\ out[r].flag # "error_condition"
    BY DEF WireInv, Counts, Send
  <2>5. Wires(P)'
    BY <1>1, <1>3, <1>5, <2>2, <2>3 DEF Wires
  <2>6. Data(wire'[o]) /\ ~Data(wire'[r])
    BY <1>2, <2>2, <2>3, <2>4 DEF Data
  <2>7. Turns'
    <3>1. at'[r] # "failed" /\ Len(wire[r]) <= 2 /\ (Len(wire[r]) = 2 => wire[r][2].flag = "error_condition")
      BY <1>1, <1>4 DEF WireInv, Turns
    <3>2. at[o] # "failed" => Len(wire[r]) <= 1 /\ (wire[r] # <<>> => Data(wire[r]))
      BY <1>1 DEF WireInv, Turns
    <3> QED
      BY <1>1, <1>5, <2>2, <2>3, <2>6, <3>1, <3>2 DEF Turns, Data
  <2>8. txseq'[r] = txseq[r] + 1 /\ txseq'[o] = txseq[o] /\ rxseq' = rxseq /\ link' = link /\ out' = out
    BY <1>1, <2>1 DEF Send, WireInv, KexTypes
  <2>9. ~Down(o) /\ link = "up" => txseq[r] = rxseq[o]
    <3>1. ~Data(wire[o]) /\ ~Down(r) /\ rxseq[o] \in Nat
      BY <1>1, <1>2 DEF Data, Down, Send, WireInv, KexTypes
    <3>2. link = "up" /\ ~Down(o) /\ ~Down(r) =>
            txseq[r] = rxseq[o] + (IF Data(wire[o]) THEN 1 ELSE 0)
      BY <1>1 DEF WireInv, Counts
    <3> QED
      BY <3>1, <3>2
  <2>10. Down(o)' = Down(o) /\ ~Down(r) /\ ~Down(r)'
    BY <1>4, <1>5 DEF Down, Send
  <2>11. Counts'
    <3>1. ~Down(o)' => Head(wire'[o]).seq \in {Garbled, rxseq'[o]}
      BY <1>7, <2>3, <2>4, <2>8, <2>9, <2>10
    <3>2. link' = "up" /\ ~Down(o)' => txseq'[r] = rxseq'[o] + 1
      BY <1>7, <2>8, <2>9, <2>10
    <3>3. link' = "up" /\ ~Down(o)' => txseq'[o] = rxseq'[r] + 0
      BY <1>1, <1>2, <2>8, <2>10 DEF WireInv, Counts
    <3> QED
      BY <1>1, <1>5, <2>6, <3>1, <3>2, <3>3 DEF Counts
  <2> QED
    BY <1>6, <2>2, <2>3, <2>5, <2>6, <2>7, <2>11 DEF WireInv, Remains
<1>8. CASE link = "down"
  <2>1. UNCHANGED <<wire, txseq, rxseq, link, out>>
    BY <1>8 DEF Send
  <2>2. Wires(P)'
    BY <1>1, <1>5, <2>1 DEF WireInv, Wires
  <2>3. Turns'
    BY <1>1, <1>2, <1>5, <2>1 DEF WireInv, Turns, Data
  <2>4. ~Down(r) /\ ~Down(r)' /\ Down(o)' = Down(o)
    BY <1>4, <1>5 DEF Down, Send
  <2>5. Counts'
    BY <1>1, <1>5, <1>8, <2>1, <2>4 DEF WireInv, Counts
  <2> QED
    BY <1>1, <1>2, <1>6, <2>1, <2>2, <2>3, <2>5 DEF WireInv, Remains, Data
<1> QED
  BY <1>7, <1>8 DEF WireInv, KexTypes

\* A host that fails or closes leaves what is under way alone.
LEMMA LeaveKeeps ==
  ASSUME NEW P, WireInv(P), NEW r \in Roles, NEW place \in {"failing", "closed"},
         at[r] # "failed", Go(r, place), UNCHANGED <<wire, link, out>>,
         txseq'[Other(r)] = txseq[Other(r)], rxseq'[Other(r)] = rxseq[Other(r)],
         place = "failing" => ~Down(r) /\ UNCHANGED <<txseq, rxseq>>
  PROVE  Wires(P)' /\ Turns' /\ Counts' /\ (\A q \in Roles : Remains(q))
<1> DEFINE o == Other(r)
<1>1. o \in Roles /\ o # r /\ Other(o) = r /\ \A q \in Roles : q = r \/ q = o
  BY OtherRole
<1>2. at'[r] = place /\ at'[o] = at[o]
  BY <1>1 DEF Go, WireInv, KexTypes
<1>3. ~Holds(r)' /\ Holds(o)' = Holds(o) /\ at'[r] # "send"
  BY <1>2 DEF Holds
<1>4. Wires(P)'
  BY <1>1, <1>2, <1>3 DEF WireInv, Wires
<1>5. Turns'
  <2>1. Holds(o) => ~Data(wire[o]) /\ wire[r] = <<>>
    BY <1>1 DEF WireInv, Turns
  <2>2. \A q \in Roles : /\ Data(wire[q]) => ~Data(wire[Other(q)])
                         /\ Len(wire[q]) <= 2
                         /\ Len(wire[q]) = 2 => wire[q][2].flag = "error_condition"
    BY DEF WireInv, Turns
  <2>3. \A q \in Roles : at'[Other(q)] # "failed" => at[Other(q)] # "failed"
    BY <1>1, <1>2
  <2>4. \A q \in Roles : at[Other(q)] # "failed" => Len(wire[q]) <= 1 /\ (wire[q] # <<>> => Data(wire[q]))
    BY DEF WireInv, Turns
  <2> QED
    BY <1>1, <1>3, <2>1, <2>2, <2>3, <2>4 DEF Turns, Data, Holds
<1>6. Counts'
  <2>1. Down(o)' = Down(o)
    BY <1>2 DEF Down
  <2>2. ~Down(o)' /\ Data(wire'[o]) => Head(wire'[o]).seq \in {Garbled, rxseq'[o]}
    BY <1>1, <2>1 DEF WireInv, Counts, Data
  <2>3. at'[o] = "send" => out'[o].seq = txseq'[o] /\ out'[o].flag # "error_condition"
    BY <1>1, <1>2 DEF WireInv, Counts
  <2>4. CASE place = "closed"
    <3>1. Down(r)'
      BY <1>2, <2>4 DEF Down
    <3> QED
      BY <1>1, <1>3, <2>2, <2>3, <3>1 DEF Counts, Down, Data
  <2>5. CASE place = "failing"
    <3>1. ~Down(r) /\ UNCHANGED <<txseq, rxseq>>
      BY <2>5
    <3>2. Data(wire[r]) => Head(wire[r]).seq \in {Garbled, rxseq[r]}
      BY <3>1 DEF WireInv, Counts
    <3>3. link = "up" /\ ~Down(o) =>
            /\ txseq[o] = rxseq[r] + (IF Data(wire[r]) THEN 1 ELSE 0)
            /\ txseq[r] = rxseq[o] + (IF Data(wire[o]) THEN 1 ELSE 0)
      BY <1>1, <3>1 DEF WireInv, Counts
    <3>4. \A q \in Roles : /\ ~Down(q)' /\ Data(wire'[q]) => Head(wire'[q]).seq \in {Garbled, rxseq'[q]}
                           /\ at'[q] = "send" => out'[q].seq = txseq'[q] /\ out'[q].flag # "error_condition"
      BY <1>1, <1>3, <2>2, <2>3, <3>1, <3>2 DEF Data
    <3>5. link' = "up" /\ ~Down(o)' =>
            /\ txseq'[o] = rxseq'[r] + (IF Data(wire'[r]) THEN 1 ELSE 0)
            /\ txseq'[r] = rxseq'[o] + (IF Data(wire'[o]) THEN 1 ELSE 0)
      BY <2>1, <3>1, <3>3 DEF Data
    <3> QED
      BY <1>1, <3>4, <3>5 DEF Counts, Data, Down
  <2> QED
    BY <2>4, <2>5
<1>7. \A q \in Roles : Remains(q)
  BY DEF Remains, Data
<1> QED
  BY <1>4, <1>5, <1>6, <1>7

\* A receive that finds an error leaves the packet where it is.
LEMMA ReceiveFailsKeeps ==
  ASSUME NEW P, PacketKinds(P), WireInv(P), NEW r \in Roles, ReceiveFails(r)
  PROVE  WireInv(P)' /\ (\A q \in Roles : Remains(q))
<1>1. Other(r) \in Roles
  BY OtherRole
<1>2. Outcome(r) \in Codes
  <2>1. CASE CutOff(r)
    BY <2>1 DEF Outcome, Codes
  <2>2. CASE ~CutOff(r) /\ ~InSequence(r)
    BY <2>2 DEF Outcome, Codes
  <2>3. CASE ~CutOff(r) /\ InSequence(r) /\ Head(wire[r]).flag # want[r].flag
    <3>1. Unexpected(want[r].flag) \in Codes
      BY DEF Unexpected, Codes
    <3>2. wire[r] \in Seq(P[r]) /\ wire[r] # <<>>
      BY <2>3 DEF WireInv, Wires, ReceiveFails, Arrived
    <3>3. Head(wire[r]).flag = "error_condition" => Head(wire[r]).body \in Codes
      BY <3>2, ShortSeq DEF PacketKinds
    <3>4. Outcome(r) = IF Head(wire[r]).flag = "error_condition" THEN Head(wire[r]).body
                       ELSE Unexpected(want[r].flag)
      BY <2>3 DEF Outcome
    <3> QED
      BY <3>1, <3>3, <3>4
  <2>4. CASE ~CutOff(r) /\ InSequence(r) /\ Head(wire[r]).flag = want[r].flag
    BY <2>4 DEF Outcome, ReceiveFails
  <2> QED
    BY <2>1, <2>2, <2>3, <2>4
<1>3. /\ err' \in [Roles -> Codes \cup {"none"}] /\ at' \in [Roles -> Places]
      /\ \A q \in Roles : at'[q] = "failing" => err'[q] \in Codes
  BY <1>2 DEF ReceiveFails, Go, WireInv, KexTypes, Places
<1>4. KexTypes'
  BY <1>3 DEF ReceiveFails, WireInv, KexTypes, netVars, keyVars
<1>5. /\ Go(r, "failing") /\ UNCHANGED <<wire, link, out, txseq, rxseq>>
      /\ at[r] # "failed" /\ ~Down(r)
  BY DEF ReceiveFails, netVars, Down
<1>6. Wires(P)' /\ Turns' /\ Counts' /\ (\A q \in Roles : Remains(q))
  BY <1>1, <1>5, LeaveKeeps
<1> QED
  BY <1>4, <1>6 DEF WireInv

\* The receive loop of an established session ends.
LEMMA SessionEndsKeeps ==
  ASSUME NEW P, WireInv(P), NEW r \in Roles, SessionEnds(r)
  PROVE  WireInv(P)' /\ (\A q \in Roles : Remains(q))
<1>1. Other(r) \in Roles /\ Other(r) # r
  BY OtherRole
<1>2. /\ at' \in [Roles -> Places] /\ exflag' \in [Roles -> Flags]
      /\ txseq' \in [Roles -> Nat] /\ rxseq' \in [Roles -> Nat]
      /\ DOMAIN channel' = Roles
      /\ \A q \in Roles : at'[q] = "failing" => at[q] = "failing"
  BY DEF SessionEnds, Dispose, Go, WireInv, KexTypes, Places, Flags
<1>3. KexTypes'
  BY <1>2 DEF SessionEnds, ShutDown, WireInv, KexTypes
<1>4. /\ Go(r, "closed") /\ UNCHANGED <<wire, link, out>> /\ at[r] # "failed"
      /\ txseq'[Other(r)] = txseq[Other(r)] /\ rxseq'[Other(r)] = rxseq[Other(r)]
  BY <1>1 DEF SessionEnds, Dispose, WireInv, KexTypes
<1>5. Wires(P)' /\ Turns' /\ Counts' /\ (\A q \in Roles : Remains(q))
  BY <1>4, LeaveKeeps
<1> QED
  BY <1>3, <1>5 DEF WireInv

\* A host that gives up sends an error packet behind what is under way.
LEMMA GiveUpKeeps ==
  ASSUME NEW P, PacketKinds(P), WireInv(P), NEW r \in Roles, GiveUp(r)
  PROVE  WireInv(P)' /\ (\A q \in Roles : Remains(q))
<1> DEFINE o == Other(r)
           e == [flag |-> "error_condition", seq |-> Terminator, body |-> err[r]]
<1>1. o \in Roles /\ o # r /\ Other(o) = r /\ \A q \in Roles : q = r \/ q = o
  BY OtherRole
<1>2. at'[r] = "failed" /\ at'[o] = at[o] /\ at[r] = "failing"
  BY <1>1 DEF GiveUp, Go, WireInv, KexTypes
<1>3. ~Holds(r)' /\ Holds(o)' = Holds(o) /\ Down(r)' /\ Down(o)' = Down(o)
  BY <1>2 DEF Holds, Down
<1>4. e \in P[o]
  BY <1>1, <1>2 DEF PacketKinds, WireInv, KexTypes
<1>5. wire[r] \in Seq(P[r]) /\ wire[o] \in Seq(P[o]) /\ DOMAIN wire = Roles
  BY <1>1 DEF WireInv, Wires
<1>6. wire'[r] = wire[r] /\ DOMAIN wire' = Roles /\ wire'[o] \in {wire[o], Append(wire[o], e)}
  BY <1>1, <1>5 DEF GiveUp
<1>7. Len(wire[o]) <= 1 /\ (wire[o] # <<>> => Data(wire[o])) /\ Len(wire[o]) \in Nat
  BY <1>1, <1>2, <1>5, ShortSeq DEF WireInv, Turns
<1>8. KexTypes'
  <2>1. /\ at' \in [Roles -> Places] /\ exflag' \in [Roles -> Flags]
        /\ txseq' \in [Roles -> Nat] /\ rxseq' \in [Roles -> Nat]
        /\ DOMAIN channel' = Roles /\ DOMAIN kex' = Roles
        /\ \A q \in Roles : at'[q] = "failing" => at[q] = "failing"
    BY DEF GiveUp, ClearExchange, Dispose, Go, WireInv, KexTypes, Places, Flags
  <2> QED
    BY <2>1 DEF GiveUp, ShutDown, WireInv, KexTypes
<1>9. /\ wire'[o] \in Seq(P[o]) /\ Len(wire'[o]) <= 2
      /\ Len(wire'[o]) = 2 => wire'[o][2].flag = "error_condition"
      /\ Data(wire'[o]) => Data(wire[o]) /\ Head(wire'[o]) = Head(wire[o])
  <2>1. CASE wire'[o] = wire[o]
    BY <1>5, <1>7, <2>1
  <2>2. ASSUME NEW x \in P[o], x.flag = "error_condition", wire'[o] = Append(wire[o], x)
        PROVE  /\ wire'[o] \in Seq(P[o]) /\ Len(wire'[o]) <= 2
               /\ Len(wire'[o]) = 2 => wire'[o][2].flag = "error_condition"
               /\ Data(wire'[o]) => Data(wire[o]) /\ Head(wire'[o]) = Head(wire[o])
    <3>1. /\ wire'[o] \in Seq(P[o]) /\ Len(wire'[o]) = Len(wire[o]) + 1
          /\ wire[o] = <<>> => Head(wire'[o]) = x
          /\ wire[o] # <<>> => Head(wire'[o]) = Head(wire[o])
          /\ wire'[o][Len(wire[o]) + 1] = x
      <4>1. wire[o] \in Seq(P[o])
        BY <1>5
      <4>2. Append(wire[o], x) \in Seq(P[o])
        BY <2>2, <4>1, AppendShort
      <4>3. Len(Append(wire[o], x)) = Len(wire[o]) + 1
        BY <2>2, <4>1, AppendShort
      <4>4. wire[o] = <<>> => Head(Append(wire[o], x)) = x
        BY <2>2, <4>1, AppendShort
      <4>5. wire[o] # <<>> => Head(Append(wire[o], x)) = Head(wire[o])
        BY <2>2, <4>1, AppendShort
      <4>6. Append(wire[o], x)[Len(wire[o]) + 1] = x
        BY <2>2, <4>1, AppendShort
      <4> QED
        BY <2>2, <4>2, <4>3, <4>4, <4>5, <4>6, Zenon
    <3>2. Len(wire'[o]) <= 2 /\ (Len(wire'[o]) = 2 => wire'[o][2].flag = "error_condition")
      BY <1>7, <2>2, <3>1
    <3>3. Data(wire'[o]) => Data(wire[o]) /\ Head(wire'[o]) = Head(wire[o])
      BY <1>7, <2>2, <3>1 DEF Data
    <3> QED
      BY <3>1, <3>2, <3>3
  <2>3. e.flag = "error_condition"
    OBVIOUS
  <2> HIDE DEF e
  <2> QED
    BY <1>4, <1>6, <2>1, <2>2, <2>3
<1>10. Wires(P)'
  <2>1. \A q \in Roles : at'[q] = "send" => q = o /\ at[q] = "send"
    BY <1>1, <1>2
  <2> QED
    BY <1>1, <1>5, <1>6, <1>9, <2>1 DEF GiveUp, WireInv, Wires
<1>11. Turns'
  <2>1. Holds(o) => ~Data(wire[o]) /\ wire[r] = <<>>
    BY <1>1 DEF WireInv, Turns
  <2>2. /\ Data(wire[r]) => ~Data(wire[o])
        /\ Len(wire[r]) <= 2
        /\ Len(wire[r]) = 2 => wire[r][2].flag = "error_condition"
        /\ at[o] # "failed" => Len(wire[r]) <= 1 /\ (wire[r] # <<>> => Data(wire[r]))
    BY <1>1 DEF WireInv, Turns
  <2> QED
    BY <1>1, <1>2, <1>3, <1>6, <1>9, <2>1, <2>2 DEF Turns, Data
<1>12. Counts'
  <2>1. ~Down(o) /\ Data(wire[o]) => Head(wire[o]).seq \in {Garbled, rxseq[o]}
    BY <1>1 DEF WireInv, Counts
  <2>2. at[o] = "send" => out[o].seq = txseq[o] /\ out[o].flag # "error_condition"
    BY <1>1 DEF WireInv, Counts
  <2>3. txseq'[o] = txseq[o] /\ rxseq'[o] = rxseq[o] /\ out' = out
    BY <1>1 DEF GiveUp, Dispose, WireInv, KexTypes
  <2>4. \A q \in Roles : at'[q] = "send" => q = o /\ at[q] = "send"
    BY <1>1, <1>2
  <2>5. \A q \in Roles : ~Down(q)' /\ Data(wire'[q]) => Head(wire'[q]).seq \in {Garbled, rxseq'[q]}
    BY <1>1, <1>3, <1>9, <2>1, <2>3
  <2>6. \A q \in Roles : Down(q)' \/ Down(Other(q))'
    BY <1>1, <1>3
  <2> QED
    BY <2>2, <2>3, <2>4, <2>5, <2>6 DEF Counts
<1>13. \A q \in Roles : Remains(q)
  BY <1>1, <1>6, <1>9 DEF Remains, Data
<1> QED
  BY <1>8, <1>10, <1>11, <1>12, <1>13 DEF WireInv

\* What was under way when the connection breaks is there, or not.
LEMMA DropKeeps ==
  ASSUME NEW P, WireInv(P), Drop
  PROVE  WireInv(P)' /\ (\A q \in Roles : Remains(q))
<1>1. UNCHANGED <<at, out, want, err, exflag, txseq, rxseq, kex, channel, ended, garbled>>
  BY DEF Drop, posVars, keyVars
<1>2. DOMAIN wire' = Roles /\ \A q \in Roles : wire'[q] = <<>> \/ wire'[q] = wire[q]
  BY DEF Drop
<1>3. link' = "down"
  BY DEF Drop
<1>4. KexTypes'
  BY <1>1, <1>3 DEF WireInv, KexTypes
<1>5. Wires(P)'
  <2>1. \A q \in Roles : wire[q] \in Seq(P[q]) /\ <<>> \in Seq(P[q])
    BY EmptySeq DEF WireInv, Wires
  <2>2. \A q \in Roles : wire'[q] \in Seq(P[q])
    BY <1>2, <2>1
  <2>3. \A q \in Roles : at'[q] = "send" => out'[q] \in P[Other(q)]
    BY <1>1 DEF WireInv, Wires
  <2> QED
    BY <1>2, <2>2, <2>3 DEF Wires
<1>6. \A q \in Roles : /\ Other(q) \in Roles
                       /\ Data(wire'[q]) => Data(wire[q]) /\ wire'[q] = wire[q]
                       /\ Holds(q)' = Holds(q) /\ Down(q)' = Down(q)
  BY <1>1, <1>2, OtherRole DEF Data, Holds, Down
<1>7. Turns'
  <2>1. SUFFICES ASSUME NEW q \in Roles
                 PROVE  /\ Holds(q)' => ~Holds(Other(q))' /\ ~Data(wire'[q]) /\ wire'[Other(q)] = <<>>
                        /\ Data(wire'[q]) => ~Data(wire'[Other(q)])
                        /\ Len(wire'[q]) <= 2
                        /\ Len(wire'[q]) = 2 => wire'[q][2].flag = "error_condition"
                        /\ at'[Other(q)] # "failed" =>
                             Len(wire'[q]) <= 1 /\ (wire'[q] # <<>> => Data(wire'[q]))
    BY DEF Turns, Data
  <2>2. Len(<<>>) = 0
    OBVIOUS
  <2>3. Holds(q)' => ~Holds(Other(q))' /\ ~Data(wire'[q]) /\ wire'[Other(q)] = <<>>
    BY <1>2, <1>6 DEF WireInv, Turns
  <2>4. Data(wire'[q]) => ~Data(wire'[Other(q)])
    BY <1>6 DEF WireInv, Turns
  <2>5. CASE wire'[q] = <<>>
    BY <2>2, <2>3, <2>4, <2>5
  <2>6. CASE wire'[q] = wire[q]
    <3>1. /\ Len(wire[q]) <= 2
          /\ Len(wire[q]) = 2 => wire[q][2].flag = "error_condition"
          /\ at[Other(q)] # "failed" => Len(wire[q]) <= 1 /\ (wire[q] # <<>> => Data(wire[q]))
      BY DEF WireInv, Turns
    <3> QED
      BY <1>1, <2>3, <2>4, <2>6, <3>1
  <2> QED
    BY <1>2, <2>5, <2>6
<1>8. Counts'
  <2>1. \A q \in Roles : at'[q] = "send" => out'[q].seq = txseq'[q] /\ out'[q].flag # "error_condition"
    BY <1>1 DEF WireInv, Counts
  <2>2. \A q \in Roles : ~Down(q)' /\ Data(wire'[q]) => Head(wire'[q]).seq \in {Garbled, rxseq'[q]}
    BY <1>1, <1>6 DEF WireInv, Counts
  <2> QED
    BY <1>3, <2>1, <2>2 DEF Counts, Data
<1>9. \A q \in Roles : Remains(q)
  BY <1>6 DEF Remains
<1> QED
  BY <1>4, <1>5, <1>7, <1>8, <1>9 DEF WireInv

\* A corrupted packet keeps its flag.
LEMMA GarbleKeeps ==
  ASSUME NEW P, PacketKinds(P), WireInv(P), MaxGarbled \in Nat, NEW r \in Roles, Garble(r)
  PROVE  WireInv(P)' /\ (\A q \in Roles : Remains(q))
<1> DEFINE o == Other(r)
           h == Head(wire[r])
<1>1. o \in Roles /\ o # r /\ Other(o) = r /\ \A q \in Roles : q = r \/ q = o
  BY OtherRole
<1>2. UNCHANGED <<at, out, want, err, exflag, txseq, rxseq, kex, channel, ended, link>>
  BY DEF Garble, posVars, keyVars
<1>3. wire[r] \in Seq(P[r]) /\ wire[r] # <<>> /\ h.flag # "error_condition" /\ DOMAIN wire = Roles
  BY DEF Garble, WireInv, Wires
<1>4. PICK p \in GarbledForms(h) : wire' = [wire EXCEPT ![r] = <<p>> \o Tail(@)]
  BY DEF Garble
<1>5. h \in P[r]
  BY <1>3, ShortSeq
<1>6. p \in P[r] /\ DOMAIN h = {"flag", "seq", "body"}
  BY <1>3, <1>4, <1>5 DEF PacketKinds
<1>7. p.flag = h.flag /\ p.seq \in {Garbled, h.seq}
  BY <1>4, <1>6 DEF GarbledForms
<1> HIDE DEF h
<1>8. wire'[r] = <<p>> \o Tail(wire[r]) /\ wire'[o] = wire[o] /\ DOMAIN wire' = Roles
  BY <1>1, <1>3, <1>4
<1>9. /\ wire'[r] \in Seq(P[r]) /\ Len(wire'[r]) = Len(wire[r]) /\ Head(wire'[r]) = p
      /\ Len(wire[r]) = 2 => wire'[r][2] = wire[r][2]
  <2>1. /\ <<p>> \o Tail(wire[r]) \in Seq(P[r])
        /\ Len(<<p>> \o Tail(wire[r])) = Len(wire[r])
        /\ Head(<<p>> \o Tail(wire[r])) = p
        /\ Len(wire[r]) = 2 => (<<p>> \o Tail(wire[r]))[2] = wire[r][2]
    <3>1. <<p>> \o Tail(wire[r]) \in Seq(P[r])
      BY <1>3, <1>6, ReplaceHead
    <3>2. Len(<<p>> \o Tail(wire[r])) = Len(wire[r]) /\ Head(<<p>> \o Tail(wire[r])) = p
      BY <1>3, <1>6, ReplaceHead
    <3>3. Len(wire[r]) = 2 => (<<p>> \o Tail(wire[r]))[2] = wire[r][2]
      BY <1>3, <1>6, ReplaceHead
    <3> QED
      BY <3>1, <3>2, <3>3
  <2> QED
    BY <1>8, <2>1, Zenon
<1>10. wire'[r] # <<>>
  BY <1>3, <1>9, ShortSeq
<1>11. Data(wire[r]) /\ Data(wire'[r])
  BY <1>3, <1>7, <1>9, <1>10 DEF Data, h
<1>12. KexTypes'
  <2>1. garbled' \in 0 .. MaxGarbled
    BY DEF Garble, WireInv, KexTypes
  <2> QED
    BY <1>2, <2>1 DEF WireInv, KexTypes
<1>13. Wires(P)'
  BY <1>1, <1>2, <1>8, <1>9 DEF WireInv, Wires
<1>14. Turns'
  <2>1. \A q \in Roles : Holds(q)' = Holds(q) /\ at'[q] = at[q]
    BY <1>2 DEF Holds
  <2>2. ~Holds(r) /\ ~Holds(o) /\ ~Data(wire[o])
    BY <1>1, <1>3, <1>11 DEF WireInv, Turns
  <2>3. \A q \in Roles : /\ Len(wire[q]) <= 2
                         /\ Len(wire[q]) = 2 => wire[q][2].flag = "error_condition"
                         /\ at[Other(q)] # "failed" => Len(wire[q]) <= 1 /\ (wire[q] # <<>> => Data(wire[q]))
    BY DEF WireInv, Turns
  <2>4. \A q \in Roles : ~Holds(q)'
    BY <1>1, <2>1, <2>2
  <2>5. \A q \in Roles : Data(wire'[q]) => ~Data(wire'[Other(q)])
    BY <1>1, <1>8, <2>2
  <2>6. \A q \in Roles : /\ Len(wire'[q]) <= 2
                         /\ Len(wire'[q]) = 2 => wire'[q][2].flag = "error_condition"
                         /\ at'[Other(q)] # "failed" =>
                              Len(wire'[q]) <= 1 /\ (wire'[q] # <<>> => Data(wire'[q]))
    BY <1>1, <1>2, <1>8, <1>9, <1>11, <2>3
  <2> QED
    BY <2>4, <2>5, <2>6 DEF Turns, Data
<1>15. Counts'
  <2>1. \A q \in Roles : Data(wire'[q]) <=> Data(wire[q])
    BY <1>1, <1>8, <1>11
  <2>2. \A q \in Roles : ~Down(q)' /\ Data(wire'[q]) => Head(wire'[q]).seq \in {Garbled, rxseq'[q]}
    <3>1. ~Down(r) => h.seq \in {Garbled, rxseq[r]}
      BY <1>11 DEF WireInv, Counts, h
    <3>2. ~Down(o) /\ Data(wire[o]) => Head(wire[o]).seq \in {Garbled, rxseq[o]}
      BY <1>1 DEF WireInv, Counts
    <3>3. Down(r)' = Down(r) /\ Down(o)' = Down(o)
      BY <1>2 DEF Down
    <3>4. ~Down(r)' => Head(wire'[r]).seq \in {Garbled, rxseq'[r]}
      BY <1>2, <1>7, <1>9, <3>1, <3>3
    <3> QED
      BY <1>1, <1>2, <1>8, <3>2, <3>3, <3>4
  <2>3. \A q \in Roles : at'[q] = "send" => out'[q].seq = txseq'[q] /\ out'[q].flag # "error_condition"
    BY <1>2 DEF WireInv, Counts
  <2>4. \A q \in Roles : link' = "up" /\ ~Down(q)' /\ ~Down(Other(q))' =>
          txseq'[Other(q)] = rxseq'[q] + (IF Data(wire'[q]) THEN 1 ELSE 0)
    <3>1. \A q \in Roles : Down(q)' = Down(q) /\ Down(Other(q))' = Down(Other(q))
      BY <1>2 DEF Down
    <3> QED
      BY <1>2, <2>1, <3>1 DEF WireInv, Counts
  <2> QED
    BY <2>2, <2>3, <2>4 DEF Counts, Data
<1>16. \A q \in Roles : Remains(q)
  <2>1. Head(wire'[r]) \in GarbledForms(Head(wire[r]))
    BY <1>4, <1>9 DEF h
  <2> QED
    BY <1>1, <1>8, <1>11, <2>1 DEF Remains, Data
<1> QED
  BY <1>12, <1>13, <1>14, <1>15, <1>16 DEF WireInv

\* A packet is taken: it had the expected number, and nothing is under way then.
LEMMA ReceiveKeeps ==
  ASSUME NEW P, PacketKinds(P), WireInv(P), NEW r \in Roles, NEW flag, flag # "error_condition",
         Receive(r, flag), NEW place \in {"send", "failing", "session"}, Go(r, place),
         out'[Other(r)] = out[Other(r)],
         place = "send" => /\ out'[r] \in P[Other(r)]
                           /\ out'[r].seq = txseq[r] /\ out'[r].flag # "error_condition"
  PROVE  /\ Wires(P)' /\ Turns' /\ Counts' /\ (\A q \in Roles : Remains(q) /\ ~Data(wire'[q]))
         /\ Data(wire[r]) /\ Head(wire[r]) \in P[r] /\ Head(wire[r]).flag = flag
         /\ at' \in [Roles -> Places] /\ rxseq' \in [Roles -> Nat]
         /\ ~Holds(Other(r))
<1> DEFINE o == Other(r)
<1>1. o \in Roles /\ o # r /\ Other(o) = r /\ \A q \in Roles : q = r \/ q = o
  BY OtherRole
<1>2. /\ at[r] = "receive" /\ wire[r] # <<>> /\ wire' = [wire EXCEPT ![r] = Tail(@)]
      /\ rxseq' = [rxseq EXCEPT ![r] = @ + 1] /\ txseq' = txseq /\ link' = link
  BY DEF Receive, Arrived
<1>3. wire[r] \in Seq(P[r]) /\ wire[o] \in Seq(P[o]) /\ DOMAIN wire = Roles
  BY <1>1 DEF WireInv, Wires
<1>4. Head(wire[r]) \in P[r]
  BY <1>2, <1>3, ShortSeq
<1>5. Head(wire[r]).flag = flag
  <2>1. CutOff(r) => Outcome(r) # "none"
    BY DEF Outcome
  <2>2. ~CutOff(r) /\ ~InSequence(r) => Outcome(r) # "none"
    BY DEF Outcome
  <2>3. Unexpected(want[r].flag) # "none"
    BY DEF Unexpected
  <2>4. Head(wire[r]).flag = "error_condition" => Head(wire[r]).body # "none"
    BY <1>4 DEF PacketKinds, Codes
  <2>5. ~CutOff(r) /\ InSequence(r) /\ Head(wire[r]).flag # want[r].flag => Outcome(r) # "none"
    BY <2>3, <2>4 DEF Outcome
  <2> QED
    BY <2>1, <2>2, <2>5 DEF Receive
<1>6. Data(wire[r])
  BY <1>2, <1>5 DEF Data
<1>7. wire'[r] = Tail(wire[r]) /\ wire'[o] = wire[o] /\ DOMAIN wire' = Roles
  BY <1>1, <1>2, <1>3
<1>8. wire[o] = <<>> /\ ~Holds(o) /\ ~Data(wire[o])
  BY <1>1, <1>2, <1>6 DEF WireInv, Turns, Data
<1>9. /\ Len(wire[r]) <= 2 /\ (Len(wire[r]) = 2 => wire[r][2].flag = "error_condition")
      /\ at[o] # "failed" => Len(wire[r]) <= 1
  BY DEF WireInv, Turns
<1>10. /\ wire'[r] \in Seq(P[r]) /\ Len(wire'[r]) <= 1 /\ ~Data(wire'[r])
       /\ at[o] # "failed" => wire'[r] = <<>>
  <2>1. /\ Len(wire[r]) \in Nat /\ Len(wire[r]) # 0
        /\ Tail(wire[r]) \in Seq(P[r]) /\ Len(Tail(wire[r])) = Len(wire[r]) - 1
        /\ Len(wire[r]) = 2 => Head(Tail(wire[r])) = wire[r][2]
    <3>1. /\ Len(wire[r]) \in Nat /\ Len(wire[r]) # 0
          /\ Len(Tail(wire[r])) = Len(wire[r]) - 1
      BY <1>2, <1>3, ShortSeq
    <3>2. Tail(wire[r]) \in Seq(P[r])
      BY <1>2, <1>3, ShortSeq
    <3>3. Len(wire[r]) = 2 => Head(Tail(wire[r])) = wire[r][2]
      BY <1>3, ShortSeq
    <3> QED
      BY <3>1, <3>2, <3>3
  <2>2. Len(wire[r]) = 1 => Tail(wire[r]) = <<>>
    <3>1. Tail(wire[r]) = <<>> <=> Len(Tail(wire[r])) = 0
      BY <2>1, ShortSeq
    <3> QED
      BY <2>1, <3>1
  <2>3. Len(wire[r]) = 1 \/ Len(wire[r]) = 2
    <3>1. Len(wire[r]) <= 2
      BY <1>9
    <3>2. Len(wire[r]) \in Nat /\ Len(wire[r]) # 0
      BY <2>1
    <3>3. \A n \in Nat : n # 0 /\ n <= 2 => n = 1 \/ n = 2
      OBVIOUS
    <3> QED
      BY <3>1, <3>2, <3>3, Zenon
  <2> QED
    BY <1>7, <1>9, <2>1, <2>2, <2>3 DEF Data
<1>11. at'[r] = place /\ at'[o] = at[o] /\ at' \in [Roles -> Places]
  BY <1>1 DEF Go, WireInv, KexTypes, Places
<1>12. ~Holds(o)' /\ at'[o] # "send"
  BY <1>8, <1>11 DEF Holds
<1>13. rxseq' \in [Roles -> Nat] /\ rxseq'[r] = rxseq[r] + 1 /\ rxseq'[o] = rxseq[o]
  BY <1>1, <1>2 DEF WireInv, KexTypes
<1>14. Wires(P)'
  BY <1>1, <1>3, <1>7, <1>10, <1>11, <1>12 DEF Wires
<1>15. Turns'
  <2>1. wire'[o] = <<>> /\ ~Data(wire'[o]) /\ Len(wire'[o]) = 0
    BY <1>7, <1>8
  <2>2. at'[o] # "failed" => wire'[r] = <<>>
    BY <1>10, <1>11
  <2>3. Len(wire'[r]) \in Nat
    BY <1>10, ShortSeq
  <2> QED
    BY <1>1, <1>10, <1>12, <2>1, <2>2, <2>3 DEF Turns, Data
<1>16. Counts'
  <2>1. link = "up" /\ ~Down(o) => /\ txseq[o] = rxseq[r] + 1
                                   /\ txseq[r] = rxseq[o] + 0
    <3>1. ~Down(r)
      BY <1>2 DEF Down
    <3>2. link = "up" /\ ~Down(o) =>
            /\ txseq[o] = rxseq[r] + (IF Data(wire[r]) THEN 1 ELSE 0)
            /\ txseq[r] = rxseq[o] + (IF Data(wire[o]) THEN 1 ELSE 0)
      BY <1>1, <3>1 DEF WireInv, Counts
    <3> QED
      BY <1>6, <1>8, <3>2
  <2>2. rxseq[r] \in Nat /\ rxseq[o] \in Nat
    BY <1>1 DEF WireInv, KexTypes
  <2>3. Down(o)' = Down(o) /\ ~Data(wire'[r]) /\ ~Data(wire'[o])
    BY <1>7, <1>8, <1>10, <1>11 DEF Down
  <2>4. link' = "up" /\ ~Down(o)' => /\ txseq'[o] = rxseq'[r] + 0
                                     /\ txseq'[r] = rxseq'[o] + 0
    BY <1>2, <1>13, <2>1, <2>2, <2>3
  <2> QED
    BY <1>1, <1>2, <1>11, <1>12, <2>3, <2>4 DEF Counts, Data
<1>17. \A q \in Roles : Remains(q) /\ ~Data(wire'[q])
  BY <1>1, <1>7, <1>8, <1>10 DEF Remains
<1> QED
  BY <1>5, <1>6, <1>4, <1>8, <1>11, <1>13, <1>14, <1>15, <1>16, <1>17

\* The client makes its first packet, or finds its key expired.
LEMMA StartKeeps ==
  ASSUME NEW P, WireInv(P), NEW r \in Roles, at[r] = "start", Go(r, "send"),
         UNCHANGED <<wire, link, txseq, rxseq>>, out'[Other(r)] = out[Other(r)],
         out'[r] \in P[Other(r)], out'[r].seq = txseq[r], out'[r].flag # "error_condition"
  PROVE  Wires(P)' /\ Turns' /\ Counts' /\ (\A q \in Roles : Remains(q)) /\ ~Holds(Other(r))
<1> DEFINE o == Other(r)
<1>1. o \in Roles /\ o # r /\ Other(o) = r /\ \A q \in Roles : q = r \/ q = o
  BY OtherRole
<1>2. at'[r] = "send" /\ at'[o] = at[o]
  BY <1>1 DEF Go, WireInv, KexTypes
<1>3. Holds(r) /\ ~Holds(o)
  BY DEF Holds, WireInv, Turns
<1>4. Holds(r)' /\ ~Holds(o)' /\ at'[o] # "send"
  BY <1>2, <1>3 DEF Holds
<1>5. Down(r)' = Down(r) /\ Down(o)' = Down(o)
  BY <1>2 DEF Down
<1>6. Wires(P)'
  BY <1>1, <1>4 DEF WireInv, Wires
<1>7. Turns'
  <2>1. ~Data(wire[r]) /\ wire[o] = <<>>
    BY <1>3 DEF WireInv, Turns
  <2>2. \A q \in Roles : /\ Data(wire[q]) => ~Data(wire[Other(q)])
                         /\ Len(wire[q]) <= 2
                         /\ Len(wire[q]) = 2 => wire[q][2].flag = "error_condition"
                         /\ at[Other(q)] # "failed" => Len(wire[q]) <= 1 /\ (wire[q] # <<>> => Data(wire[q]))
    BY DEF WireInv, Turns
  <2>3. \A q \in Roles : at'[Other(q)] # "failed" => at[Other(q)] # "failed"
    BY <1>1, <1>2
  <2> QED
    BY <1>1, <1>4, <2>1, <2>2, <2>3 DEF Turns, Data
<1>8. Counts'
  <2>1. \A q \in Roles : ~Down(q) /\ Data(wire[q]) => Head(wire[q]).seq \in {Garbled, rxseq[q]}
    BY DEF WireInv, Counts
  <2>2. \A q \in Roles : link = "up" /\ ~Down(q) /\ ~Down(Other(q)) =>
          txseq[Other(q)] = rxseq[q] + (IF Data(wire[q]) THEN 1 ELSE 0)
    BY DEF WireInv, Counts
  <2>3. \A q \in Roles : ~Down(q)' => ~Down(q)
    BY <1>1, <1>5
  <2>4. \A q \in Roles : ~Down(Other(q))' => ~Down(Other(q))
    BY <1>1, <1>5
  <2> QED
    BY <1>1, <1>2, <1>4, <2>1, <2>2, <2>3, <2>4 DEF Counts, Data
<1>9. \A q \in Roles : Remains(q)
  BY DEF Remains, Data
<1> QED
  BY <1>3, <1>6, <1>7, <1>8, <1>9

-----------------------------------------------------------------------------
(* Where the exchange begins, and what follows *)

LEMMA WireInitKeeps ==
  ASSUME NEW P, MaxGarbled \in Nat, WireInit
  PROVE  WireInv(P)
<1>1. KexTypes
  BY DEF WireInit, KexTypes, Roles, Places, Flags, Codes
<1>2. Wires(P)
  BY EmptySeq DEF WireInit, Wires, Roles
<1>3. Turns
  BY OtherRole DEF WireInit, Turns, Holds, Data, Other, Roles
<1>4. Counts
  BY OtherRole DEF WireInit, Counts, Data, Roles
<1> QED
  BY <1>1, <1>2, <1>3, <1>4 DEF WireInv

\* There is never more than a packet and an error packet before a host.
LEMMA WireTypes ==
  ASSUME NEW P, WireInv(P)
  PROVE  /\ at \in [Roles -> Places] /\ exflag \in [Roles -> Flags]
         /\ ended \subseteq Roles /\ link \in {"up", "down"} /\ garbled \in 0 .. MaxGarbled
         /\ \A r \in Roles : Len(wire[r]) <= 2
  BY DEF WireInv, KexTypes, Turns

\* What SequenceKept says follows: the packet of the exchange comes first.
LEMMA WireSequence ==
  ASSUME NEW P, WireInv(P)
  PROVE  SequenceKept
<1>1. SUFFICES ASSUME NEW r \in Roles, ~Down(r), NEW i \in DOMAIN wire[r]
               PROVE  \/ wire[r][i].flag = "error_condition"
                      \/ wire[r][i].seq \in {Garbled, rxseq[r] + i - 1}
  BY DEF SequenceKept
<1>2. wire[r] \in Seq(P[r]) /\ rxseq[r] \in Nat
  BY DEF WireInv, Wires, KexTypes
<1>3. i \in 1 .. Len(wire[r]) /\ Len(wire[r]) \in Nat
  BY <1>1, <1>2, LenProperties
<1>4. wire[r] # <<>> /\ Head(wire[r]) = wire[r][1]
  BY <1>2, <1>3, ShortSeq
<1>5. Len(wire[r]) <= 2 /\ (Len(wire[r]) = 2 => wire[r][2].flag = "error_condition")
  BY DEF WireInv, Turns
<1>6. CASE i = 1
  <2>1. Data(wire[r]) => wire[r][1].seq \in {Garbled, rxseq[r]}
    BY <1>1, <1>4 DEF WireInv, Counts
  <2> QED
    BY <1>2, <1>4, <1>6, <2>1 DEF Data
<1>7. CASE i # 1
  <2>1. Len(wire[r]) <= 2
    BY <1>5
  <2>2. i = 2 /\ Len(wire[r]) = 2
    <3>1. \A n \in Nat : \A j \in 1 .. n : n <= 2 /\ j # 1 => j = 2 /\ n = 2
      OBVIOUS
    <3> QED
      BY <1>3, <1>7, <2>1, <3>1, Zenon
  <2> QED
    BY <1>5, <2>2
<1> QED
  BY <1>6, <1>7

-----------------------------------------------------------------------------
(* Going up and down *)

\* A host whose standing and keys a step leaves as they are.
Keeps(r) == Status(r)' = Status(r) /\ SessionKeys(r)' = SessionKeys(r)

LEMMA UntouchedKeeps == \A r \in Roles : Untouched(r) => Keeps(r)
BY DEF Untouched, Keeps, Status, SessionKeys, Established, Down

\* A step that refuses, sends or fails to receive: neither host goes up or down.
LEMMA QuietSteps ==
  ASSUME KexTypes, NEW r \in Roles,
         \/ Send(r)
         \/ ReceiveFails(r)
         \/ ~Established(r) /\ ~Down(r) /\ ~Established(r)' /\ ~Down(r)' /\ Untouched(Other(r)) /\ agreed' = agreed
  PROVE  Keeps("client") /\ Keeps("server") /\ agreed' = agreed
<1> USE TwoRoles
<1>1. KexTypes /\ Other(r) \in Roles /\ \A q \in Roles : q = r \/ q = Other(r)
  BY OtherRole
<1>2. CASE Send(r) \/ ReceiveFails(r)
  <2>1. /\ UNCHANGED <<exflag, channel, agreed>>
        /\ at[r] \in {"send", "receive"}
        /\ \/ at' = [at EXCEPT ![r] = "failing"]
           \/ at' = [at EXCEPT ![r] = "receive"]
           \/ at' = [at EXCEPT ![r] = "session"]
    BY <1>2 DEF Send, ReceiveFails, Go, keyVars
  <2>2. \A q \in Roles : Down(q)' = Down(q)
    BY <1>1, <2>1 DEF Down, KexTypes
  <2> QED
    BY <2>1, <2>2 DEF Keeps, Status, SessionKeys, Established
<1>3. CASE ~Established(r) /\ ~Down(r) /\ ~Established(r)' /\ ~Down(r)' /\ Untouched(Other(r)) /\ agreed' = agreed
  <2>1. Keeps(r) /\ Keeps(Other(r))
    BY <1>1, <1>3, UntouchedKeeps DEF Keeps, Status, SessionKeys
  <2> QED
    BY <1>1, <1>3, <2>1
<1> QED
  BY <1>2, <1>3
=============================================================================
