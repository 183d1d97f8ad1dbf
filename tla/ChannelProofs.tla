--------------------------- MODULE ChannelProofs ----------------------------
(***************************************************************************)
(* The established session for any number of packets, requests and faults: *)
(* the types, the agreement of the two hosts on their keys, and that the   *)
(* session implements SecureStream.                                        *)
(***************************************************************************)
EXTENDS Channel, SequenceTheorems, TLAPS

-----------------------------------------------------------------------------
(* Types *)

Flags == RatchetFlags \cup {"encrypted_message", "connection_terminate"}
Answer == [key : Secrets, secret : Secrets]
Bodies == {Unset} \cup Secrets \cup Answer
Seals == Contexts \cup {Torn, Unset}

\* What is injected comes with the flag that says so.
BodyFits(o) ==
  /\ o.flag \in {"symmetric_ratchet_request", "asymmetric_ratchet_request"} => o.body \in Secrets
  /\ o.flag = "asymmetric_ratchet_response" => o.body \in Answer

Sending == {"count", "number", "seal", "send"}
Keying == {"derive", "install", "keep"}

Ops == {o \in [at : Places, flag : Flags \cup {"none"}, body : Bodies, seq : Nat, seal : Seals,
               id : Nat, chain : Seq(Secrets)] :
          /\ BodyFits(o)
          /\ o.at \in Keying => Rekeys(o)
          /\ o.flag = "none" <=> o.at \in {"idle", "ended"}
          /\ o.flag # "connection_terminate"}

Packets == {p \in [flag : Flags, seq : Nat, body : Bodies, seal : Seals, id : Nat] : BodyFits(p)}

Ciphers == [tx : Contexts \cup {Torn}, rx : Contexts \cup {Torn}]

TypeInv ==
  /\ txseq \in [Hosts -> Nat] /\ rxseq \in [Hosts -> Nat]
  /\ rtcs \in [Hosts -> Seq(Secrets)]
  /\ cipher \in [Hosts -> Ciphers]
  /\ prikey \in [Hosts -> Secrets \cup {Unset}]
  /\ op \in [Hosts -> [Threads -> Ops]]
  /\ sock \in [Hosts -> {"open", "closed"}]
  /\ wire \in [Hosts -> Seq(Packets)]
  /\ begun \in 0..MaxRequests /\ crossed \in BOOLEAN
  /\ made \in [Hosts -> Nat] /\ taken \in [Hosts -> Nat]
  /\ faults \in 0..MaxFaults

LEMMA HostsAre == Hosts = {"client", "listener"} /\ \A h \in Hosts : Peer(h) \in Hosts /\ Peer(h) # h
BY DEF Hosts, Peer

LEMMA ThreadsAre == "send" \in Threads /\ "receive" \in Threads /\ \A t \in Threads : Twin(t) \in Threads
BY DEF Threads, Twin

LEMMA EmptyChain == <<>> \in Seq(Secrets)
BY EmptySeq

LEMMA IdleType == Idle \in Ops /\ [Idle EXCEPT !.at = "ended"] \in Ops
BY EmptyChain DEF Idle, Ops, BodyFits, Keying, Rekeys, Places, Flags, RatchetFlags, Bodies, Seals

LEMMA DrawnType ==
  ASSUME NEW h \in Hosts, NEW t \in Threads, NEW n \in Nat
  PROVE  Drawn(h, t, n) \in Secrets
BY DEF Drawn, Secrets

LEMMA FreshType ==
  ASSUME NEW h \in Hosts, NEW c \in Seq(Secrets)
  PROVE  /\ Fresh(h, c) \in [tx : Contexts, rx : Contexts]
         /\ Fresh(h, c).tx.key = Key(h, c) /\ Fresh(h, c).rx.key = Key(Peer(h), c)
<1>1. Key(h, c) \in [from : Hosts, chain : Seq(Secrets)] /\ Key(Peer(h), c) \in [from : Hosts, chain : Seq(Secrets)]
  BY HostsAre DEF Key
<1> QED
  BY <1>1 DEF Fresh, Contexts

LEMMA AdvancedType ==
  ASSUME NEW c \in Contexts \cup {Torn}
  PROVE  Advanced(c) \in Contexts \cup {Torn} /\ (c # Torn => Advanced(c).key = c.key)
BY DEF Advanced, Contexts

\* A thread that goes on changes its own place only.
LEMMA BecomeIs ==
  ASSUME op \in [Hosts -> [Threads -> Ops]], NEW h \in Hosts, NEW t \in Threads, NEW o \in Ops, Become(h, t, o)
  PROVE  /\ op' \in [Hosts -> [Threads -> Ops]] /\ op'[h][t] = o
         /\ \A x \in Hosts, y \in Threads : x # h \/ y # t => op'[x][y] = op[x][y]
BY DEF Become

LEMMA GoIs ==
  ASSUME op \in [Hosts -> [Threads -> Ops]], NEW h \in Hosts, NEW t \in Threads, NEW place, Go(h, t, place)
  PROVE  Become(h, t, [op[h][t] EXCEPT !.at = place])
<1>1. op[h][t] \in [at : Places, flag : Flags \cup {"none"}, body : Bodies, seq : Nat, seal : Seals,
                    id : Nat, chain : Seq(Secrets)]
  BY DEF Ops
<1> QED
  BY <1>1 DEF Go, Become

LEMMA TerminateType == Terminate \in Packets
BY DEF Terminate, Packets, BodyFits, Flags, RatchetFlags, Bodies, Seals

LEMMA AfterCloseType ==
  ASSUME TypeInv, NEW h \in Hosts, NEW w \in [Hosts -> Seq(Packets)]
  PROVE  AfterClose(h, w) \in [Hosts -> Seq(Packets)]
<1>1. Append(w[Peer(h)], Terminate) \in Seq(Packets) /\ <<>> \in Seq(Packets)
  BY HostsAre, TerminateType, AppendProperties, EmptySeq
<1> QED
  BY <1>1, HostsAre DEF AfterClose

LEMMA LeaveType ==
  ASSUME TypeInv, NEW h \in Hosts, Leave(h)
  PROVE  /\ op' \in [Hosts -> [Threads -> Ops]] /\ txseq' \in [Hosts -> Nat] /\ rxseq' \in [Hosts -> Nat]
         /\ rtcs' \in [Hosts -> Seq(Secrets)] /\ cipher' \in [Hosts -> Ciphers]
<1>1. [t \in Threads |-> [Idle EXCEPT !.at = "ended"]] \in [Threads -> Ops]
  BY IdleType
<1>2. op' \in [Hosts -> [Threads -> Ops]]
  BY <1>1 DEF Leave, TypeInv
<1>3. txseq' \in [Hosts -> Nat] /\ rxseq' \in [Hosts -> Nat]
  BY DEF Leave, TypeInv
<1>4. rtcs' \in [Hosts -> Seq(Secrets)]
  BY EmptyChain DEF Leave, TypeInv
<1>5. cipher' \in [Hosts -> Ciphers]
  BY DEF Leave, TypeInv, Ciphers
<1> QED
  BY <1>2, <1>3, <1>4, <1>5

LEMMA CloseType ==
  ASSUME TypeInv, NEW h \in Hosts, CloseSocket(h)
  PROVE  sock' \in [Hosts -> {"open", "closed"}] /\ sock'[h] = "closed"
BY DEF CloseSocket, TypeInv

LEMMA FailType ==
  ASSUME TypeInv, NEW h \in Hosts, Fail(h)
  PROVE  /\ op' \in [Hosts -> [Threads -> Ops]] /\ txseq' \in [Hosts -> Nat] /\ rxseq' \in [Hosts -> Nat]
         /\ rtcs' \in [Hosts -> Seq(Secrets)] /\ cipher' \in [Hosts -> Ciphers]
         /\ sock' \in [Hosts -> {"open", "closed"}] /\ sock'[h] = "closed"
         /\ wire' \in [Hosts -> Seq(Packets)]
<1>1. wire' \in [Hosts -> Seq(Packets)]
  BY AfterCloseType DEF Fail, TypeInv
<1> QED
  BY <1>1, LeaveType, CloseType DEF Fail

\* What is left of a context is what was made of it, or nothing of use.
LEMMA LeavesAre ==
  ASSUME NEW h, NEW t, NEW d, NEW c, NEW x \in Leaves(h, t, d, c)
  PROVE  x = c \/ x = Torn
BY DEF Leaves

-----------------------------------------------------------------------------
(* Every action keeps the types *)

LEMMA CountingType ==
  ASSUME TypeInv, NEW h \in Hosts, NEW flag \in RatchetFlags \cup {"encrypted_message"}, NEW body \in Bodies,
         flag \in {"symmetric_ratchet_request", "asymmetric_ratchet_request"} => body \in Secrets,
         flag = "asymmetric_ratchet_response" => body \in Answer
  PROVE  /\ Counting(h, flag, body) \in Ops /\ Counting(h, flag, body).at = "count"
         /\ Counting(h, flag, body).flag = flag /\ Counting(h, flag, body).body = body
<1>1. PICK n \in Nat : n = txseq[h]
  BY DEF TypeInv
<1>2. Idle \in [at : Places, flag : Flags \cup {"none"}, body : Bodies, seq : Nat, seal : Seals,
                id : Nat, chain : Seq(Secrets)]
  BY IdleType DEF Ops
<1>3. PICK o : o = [Idle EXCEPT !.at = "count", !.flag = flag, !.body = body, !.seq = n]
  OBVIOUS
<1>4. o = Counting(h, flag, body)
  BY <1>1, <1>3 DEF Counting
<1>5. o.at = "count" /\ o.flag = flag /\ o.body = body
      /\ o \in [at : Places, flag : Flags \cup {"none"}, body : Bodies, seq : Nat, seal : Seals,
               id : Nat, chain : Seq(Secrets)]
  BY <1>2, <1>3 DEF Places, Flags
<1>6. o \in Ops
  BY <1>5 DEF Ops, BodyFits, Keying, RatchetFlags
<1> QED
  BY <1>4, <1>5, <1>6

LEMMA BeginType ==
  ASSUME TypeInv, NEW h \in Hosts, NEW flag \in RatchetFlags \cup {"encrypted_message"}, NEW body \in Bodies,
         flag \in {"symmetric_ratchet_request", "asymmetric_ratchet_request"} => body \in Secrets,
         flag # "asymmetric_ratchet_response",
         crossed' \in BOOLEAN, Begin(h, flag, body)
  PROVE  TypeInv'
<1>1. Counting(h, flag, body) \in Ops
  BY CountingType
<1>2. op' \in [Hosts -> [Threads -> Ops]]
  BY <1>1, ThreadsAre, BecomeIs DEF Begin, TypeInv
<1>3. begun' \in 0..MaxRequests
  BY BoundAssumption DEF Begin, TypeInv
<1> QED
  BY <1>2, <1>3 DEF Begin, TypeInv, stateVars, netVars

LEMMA ApplicationType ==
  ASSUME TypeInv, NEW h \in Hosts, Application(h)
  PROVE  TypeInv'
<1>1. CASE SendMessage(h)
  <2>1. Unset \in Bodies /\ crossed' \in BOOLEAN
    BY <1>1 DEF SendMessage, TypeInv, Bodies
  <2> QED
    BY <1>1, <2>1, BeginType DEF SendMessage
<1>2. ASSUME NEW flag \in {"symmetric_ratchet_request", "asymmetric_ratchet_request"},
             Begin(h, flag, Drawn(h, "send", begun)), crossed' = (crossed \/ RatchetUnderWay)
      PROVE  TypeInv'
  <2>1. begun \in Nat
    BY DEF TypeInv
  <2>2. Drawn(h, "send", begun) \in Secrets
    BY <2>1, DrawnType, ThreadsAre
  <2>3. Drawn(h, "send", begun) \in Bodies /\ crossed' \in BOOLEAN /\ flag \in RatchetFlags
    BY <1>2, <2>2 DEF Bodies, RatchetFlags
  <2> QED
    BY <1>2, <2>2, <2>3, BeginType
<1>3. CASE Quit(h)
  <2>1. wire' \in [Hosts -> Seq(Packets)]
    BY <1>3, AfterCloseType DEF Quit, TypeInv
  <2>2. sock' \in [Hosts -> {"open", "closed"}]
    BY <1>3, CloseType DEF Quit
  <2>3. op' \in [Hosts -> [Threads -> Ops]]
    <3>1. PICK o : o = op[h]["send"]
      OBVIOUS
    <3>2. o \in Ops /\ o.at = "idle"
      BY <1>3, <3>1, ThreadsAre DEF Quit, At, TypeInv
    <3>3. [o EXCEPT !.at = "ended"] \in Ops
      BY <3>2 DEF Ops, BodyFits, Keying, Rekeys, Places
    <3>4. Become(h, "send", [o EXCEPT !.at = "ended"])
      BY <1>3, <3>1, ThreadsAre, GoIs DEF Quit, TypeInv
    <3> QED
      BY <3>3, <3>4, ThreadsAre, BecomeIs DEF TypeInv
  <2> QED
    BY <1>3, <2>1, <2>2, <2>3 DEF Quit, TypeInv, stateVars, historyVars
<1> QED
  BY <1>1, <1>2, <1>3 DEF Application, AskSymmetric, AskAsymmetric

LEMMA ThreadStepType ==
  ASSUME TypeInv, NEW h \in Hosts, NEW t \in Threads, ThreadStep(h, t)
  PROVE  TypeInv'
<1> USE DEF historyVars, netVars, stateVars
<1>1. PICK o \in Ops : o = op[h][t]
  BY DEF TypeInv
<1>2. op \in [Hosts -> [Threads -> Ops]] /\ txseq[h] \in Nat /\ made[h] \in Nat /\ cipher[h] \in Ciphers
  BY DEF TypeInv
<1>3. CASE CountPacket(h, t)
  <2>1. o.at = "count" /\ Become(h, t, [o EXCEPT !.at = "number"])
    BY <1>1, <1>2, <1>3, GoIs DEF CountPacket, At
  <2>2. [o EXCEPT !.at = "number"] \in Ops
    BY <2>1 DEF Ops, BodyFits, Keying, Rekeys, Places
  <2>3. op' \in [Hosts -> [Threads -> Ops]]
    BY <1>2, <2>1, <2>2, BecomeIs
  <2>4. txseq' \in [Hosts -> Nat]
    <3>1. o.seq + 1 \in Nat
      BY DEF Ops
    <3> QED
      BY <1>1, <1>3, <3>1 DEF CountPacket, TypeInv
  <2> QED
    BY <1>3, <2>3, <2>4 DEF CountPacket, TypeInv
<1>4. CASE NumberPacket(h, t)
  <2>1. o.at = "number" /\ Become(h, t, [o EXCEPT !.at = "seal", !.seq = txseq[h]])
    BY <1>1, <1>4 DEF NumberPacket, At
  <2>2. [o EXCEPT !.at = "seal", !.seq = txseq[h]] \in Ops
    BY <1>2, <2>1 DEF Ops, BodyFits, Keying, Rekeys, Places
  <2>3. op' \in [Hosts -> [Threads -> Ops]]
    BY <1>2, <2>1, <2>2, BecomeIs
  <2>4. prikey' \in [Hosts -> Secrets \cup {Unset}]
    <3>1. o.flag = "asymmetric_ratchet_request" => o.body \in Secrets
      BY DEF Ops, BodyFits
    <3> QED
      BY <1>1, <1>4, <3>1 DEF NumberPacket, TypeInv
  <2> QED
    BY <1>4, <2>3, <2>4 DEF NumberPacket, TypeInv
<1>5. CASE SealPacket(h, t)
  <2>1. PICK s \in Leaves(h, t, "tx", cipher[h].tx), c \in Leaves(h, t, "tx", Advanced(cipher[h].tx)) :
          /\ Become(h, t, [op[h][t] EXCEPT !.at = "send", !.seal = s, !.id = made[h] + 1])
          /\ cipher' = [cipher EXCEPT ![h].tx = c]
    BY <1>5 DEF SealPacket
  <2>2. s \in Contexts \cup {Torn} /\ c \in Contexts \cup {Torn}
    BY <1>2, LeavesAre, AdvancedType DEF Ciphers
  <2>3. [o EXCEPT !.at = "send", !.seal = s, !.id = made[h] + 1] \in Ops
    <3>1. o.at = "seal"
      BY <1>1, <1>5 DEF SealPacket, At
    <3>2. s \in Seals /\ made[h] + 1 \in Nat
      BY <1>2, <2>2 DEF Seals
    <3> QED
      BY <3>1, <3>2 DEF Ops, BodyFits, Keying, Rekeys, Places
  <2>4. op' \in [Hosts -> [Threads -> Ops]]
    BY <1>1, <1>2, <2>1, <2>3, BecomeIs
  <2>5. cipher' \in [Hosts -> Ciphers]
    BY <2>1, <2>2 DEF TypeInv, Ciphers
  <2>6. made' \in [Hosts -> Nat]
    BY <1>5 DEF SealPacket, TypeInv
  <2> QED
    BY <1>5, <2>4, <2>5, <2>6 DEF SealPacket, TypeInv
<1>6. CASE SendPacket(h, t)
  <2>1. o.at = "send" /\ Become(h, t, IF Rekeys(o) THEN [o EXCEPT !.at = "derive"] ELSE Idle)
    BY <1>1, <1>6 DEF SendPacket, At
  <2>2. (IF Rekeys(o) THEN [o EXCEPT !.at = "derive"] ELSE Idle) \in Ops
    <3>1. ASSUME Rekeys(o) PROVE [o EXCEPT !.at = "derive"] \in Ops
      BY <2>1, <3>1 DEF Ops, BodyFits, Keying, Rekeys, Places
    <3> QED
      BY <3>1, IdleType
  <2>3. op' \in [Hosts -> [Threads -> Ops]]
    BY <1>2, <2>1, <2>2, BecomeIs
  <2>4. wire' \in [Hosts -> Seq(Packets)]
    <3>1. Packet(o) \in Packets
      BY <2>1 DEF Packet, Packets, Ops, BodyFits
    <3>2. Append(wire[Peer(h)], Packet(o)) \in Seq(Packets)
      BY <3>1, HostsAre, AppendProperties DEF TypeInv
    <3> QED
      BY <1>1, <1>6, <3>2 DEF SendPacket, TypeInv
  <2> QED
    BY <1>6, <2>3, <2>4 DEF SendPacket, TypeInv
<1>7. CASE SendFails(h, t)
  <2>1. CASE o.flag = "asymmetric_ratchet_response"
    <3>1. Fail(h)
      BY <1>1, <1>7, <2>1 DEF SendFails
    <3> QED
      BY <1>7, <3>1, FailType DEF SendFails, TypeInv
  <2>2. CASE o.flag # "asymmetric_ratchet_response"
    <3>1. op' \in [Hosts -> [Threads -> Ops]]
      BY <1>1, <1>2, <1>7, <2>2, IdleType, BecomeIs DEF SendFails
    <3> QED
      BY <1>1, <1>7, <2>2, <3>1 DEF SendFails, TypeInv
  <2> QED
    BY <2>1, <2>2
<1>8. CASE DeriveKeys(h, t)
  <2>1. o.at = "derive" /\ Become(h, t, [o EXCEPT !.at = "install", !.chain = Append(rtcs[h], Injected(o))])
    BY <1>1, <1>8 DEF DeriveKeys, At
  <2>2. Injected(o) \in Secrets
    BY <2>1 DEF Injected, Ops, Keying, Rekeys, BodyFits, Answer
  <2>3. Append(rtcs[h], Injected(o)) \in Seq(Secrets)
    BY <2>2, AppendProperties DEF TypeInv
  <2>4. [o EXCEPT !.at = "install", !.chain = Append(rtcs[h], Injected(o))] \in Ops
    BY <2>1, <2>3 DEF Ops, BodyFits, Keying, Rekeys, Places
  <2>5. op' \in [Hosts -> [Threads -> Ops]]
    BY <1>2, <2>1, <2>4, BecomeIs
  <2> QED
    BY <1>8, <2>5 DEF DeriveKeys, TypeInv
<1>9. CASE InstallKeys(h, t)
  <2>1. o.at = "install" /\ Become(h, t, [o EXCEPT !.at = "keep"])
    BY <1>1, <1>2, <1>9, GoIs DEF InstallKeys, At
  <2>2. [o EXCEPT !.at = "keep"] \in Ops
    BY <2>1 DEF Ops, BodyFits, Keying, Rekeys, Places
  <2>3. op' \in [Hosts -> [Threads -> Ops]]
    BY <1>2, <2>1, <2>2, BecomeIs
  <2>4. PICK new : new = Fresh(h, o.chain)
    OBVIOUS
  <2>5. new \in [tx : Contexts, rx : Contexts]
    BY <2>4, FreshType DEF Ops
  <2>6. PICK tx \in Leaves(h, t, "tx", new.tx), rx \in Leaves(h, t, "rx", new.rx) :
          cipher' = [cipher EXCEPT ![h] = [tx |-> tx, rx |-> rx]]
    BY <1>1, <1>9, <2>4 DEF InstallKeys
  <2>7. tx \in Contexts \cup {Torn} /\ rx \in Contexts \cup {Torn}
    BY <2>5, LeavesAre
  <2>8. cipher' \in [Hosts -> Ciphers]
    BY <2>6, <2>7 DEF TypeInv, Ciphers
  <2> QED
    BY <1>9, <2>3, <2>8 DEF InstallKeys, TypeInv
<1>10. CASE KeepChain(h, t)
  <2>1. op' \in [Hosts -> [Threads -> Ops]]
    BY <1>2, <1>10, IdleType, BecomeIs DEF KeepChain
  <2>2. o.chain \in Seq(Secrets)
    BY DEF Ops
  <2>3. rtcs' \in [Hosts -> Seq(Secrets)]
    BY <1>1, <1>10, <2>2 DEF KeepChain, TypeInv
  <2> QED
    BY <1>10, <2>1, <2>3 DEF KeepChain, TypeInv
<1> QED
  BY <1>3, <1>4, <1>5, <1>6, <1>7, <1>8, <1>9, <1>10 DEF ThreadStep

LEMMA RestType ==
  ASSUME TypeInv, NEW h \in Hosts, wire[h] # <<>>
  PROVE  Head(wire[h]) \in Packets /\ Rest(h) \in [Hosts -> Seq(Packets)]
<1>1. wire[h] \in Seq(Packets)
  BY DEF TypeInv
<1>2. Head(wire[h]) \in Packets /\ Tail(wire[h]) \in Seq(Packets)
  BY <1>1, HeadTailProperties
<1> QED
  BY <1>2 DEF Rest, TypeInv

LEMMA ReceiveLoopType ==
  ASSUME TypeInv, NEW h \in Hosts, ReceiveLoop(h) \/ ConnectionReset(h)
  PROVE  TypeInv'
<1> USE DEF historyVars, netVars, stateVars
<1>1. CASE TakeTerminate(h) \/ ConnectionReset(h)
  <2>1. wire' \in [Hosts -> Seq(Packets)]
    <3>1. wire' = [wire EXCEPT ![h] = <<>>]
      BY <1>1 DEF TakeTerminate, ConnectionReset
    <3>2. wire \in [Hosts -> Seq(Packets)]
      BY DEF TypeInv
    <3> QED
      BY <3>1, <3>2, EmptySeq
  <2> QED
    BY <1>1, <2>1, LeaveType, CloseType DEF TakeTerminate, ConnectionReset, TypeInv
<1>2. CASE TakePacket(h)
  <2>1. PICK p : p = Head(wire[h])
    OBVIOUS
  <2>2. p \in Packets /\ Rest(h) \in [Hosts -> Seq(Packets)] /\ p.flag # "connection_terminate"
    BY <1>2, <2>1, RestType DEF TakePacket
  <2>3. CASE Fail(h)
    BY <1>2, <2>3, FailType DEF TakePacket, TypeInv
  <2>4. CASE ~Fail(h)
    <3>1. PICK o : o = [flag |-> p.flag, body |-> p.body, seq |-> p.seq, seal |-> p.seal,
                        id |-> p.id, at |-> "open", chain |-> <<>>]
      OBVIOUS
    <3>2. o \in Ops
      BY <2>2, <3>1, EmptyChain DEF Packets, Ops, BodyFits, Keying, Rekeys, Places, Flags, RatchetFlags
    <3>3. Become(h, "receive", o) /\ wire' = Rest(h) /\ rxseq' = [rxseq EXCEPT ![h] = @ + 1]
      BY <1>2, <2>1, <2>4, <3>1 DEF TakePacket
    <3>4. op' \in [Hosts -> [Threads -> Ops]]
      BY <3>2, <3>3, ThreadsAre, BecomeIs DEF TypeInv
    <3>5. rxseq' \in [Hosts -> Nat]
      BY <3>3 DEF TypeInv
    <3> QED
      BY <1>2, <2>2, <2>4, <3>3, <3>4, <3>5 DEF TakePacket, TypeInv
  <2> QED
    BY <2>3, <2>4
<1>3. CASE OpenPacket(h)
  <2>1. PICK o \in Ops : o = op[h]["receive"]
    BY ThreadsAre DEF TypeInv
  <2>2. taken' \in [Hosts -> Nat]
    BY <1>3, <2>1 DEF OpenPacket, TypeInv, Ops
  <2>3. CASE o.flag = "asymmetric_ratchet_response" /\ ~Answers(h, o)
    <3>1. Fail(h) /\ UNCHANGED prikey
      BY <1>3, <2>1, <2>3 DEF OpenPacket
    <3> QED
      BY <1>3, <2>2, <3>1, FailType DEF OpenPacket, TypeInv
  <2>4. CASE ~(o.flag = "asymmetric_ratchet_response" /\ ~Answers(h, o))
    <3>1. PICK c \in Leaves(h, "receive", "rx", Advanced(cipher[h].rx)) : cipher' = [cipher EXCEPT ![h].rx = c]
      BY <1>3, <2>1, <2>4 DEF OpenPacket
    <3>2. c \in Contexts \cup {Torn}
      BY LeavesAre, AdvancedType DEF TypeInv, Ciphers
    <3>3. cipher' \in [Hosts -> Ciphers]
      BY <3>1, <3>2 DEF TypeInv, Ciphers
    <3>4. prikey' \in [Hosts -> Secrets \cup {Unset}]
      BY <1>3, <2>1, <2>4 DEF OpenPacket, TypeInv
    <3>5. Opened(h, o) \in Ops
      <4>1. o.at = "open"
        BY <1>3, <2>1 DEF OpenPacket, At
      <4>2. CASE o.flag = "encrypted_message"
        BY <4>2, IdleType DEF Opened
      <4>3. CASE o.flag = "asymmetric_ratchet_request"
        <5>1. Drawn(h, "receive", rxseq[h]) \in Secrets
          BY ThreadsAre, DrawnType DEF TypeInv
        <5>2. o.body \in Secrets
          BY <4>3 DEF Ops, BodyFits
        <5>3. PICK b : b = [key |-> o.body, secret |-> Drawn(h, "receive", rxseq[h])]
          OBVIOUS
        <5>4. b \in Answer /\ b \in Bodies
          BY <5>1, <5>2, <5>3 DEF Answer, Bodies
        <5>5. Counting(h, "asymmetric_ratchet_response", b) \in Ops
          BY <5>4, CountingType DEF RatchetFlags
        <5> QED
          BY <4>3, <5>3, <5>5 DEF Opened
      <4>4. CASE o.flag \notin {"encrypted_message", "asymmetric_ratchet_request"}
        <5>1. Rekeys(o)
          BY <4>1, <4>4 DEF Ops, Flags, RatchetFlags, Rekeys
        <5>2. [o EXCEPT !.at = "derive"] \in Ops
          BY <4>1, <5>1 DEF Ops, BodyFits, Keying, Rekeys, Places
        <5> QED
          BY <4>4, <5>2 DEF Opened
      <4> QED
        BY <4>2, <4>3, <4>4
    <3>6. op' \in [Hosts -> [Threads -> Ops]]
      BY <1>3, <2>1, <2>4, <3>5, ThreadsAre, BecomeIs DEF OpenPacket, TypeInv
    <3> QED
      BY <1>3, <2>1, <2>2, <2>4, <3>3, <3>4, <3>6 DEF OpenPacket, TypeInv
  <2> QED
    BY <2>3, <2>4
<1>4. CASE RejectPacket(h)
  BY <1>4, FailType DEF RejectPacket, TypeInv
<1>5. CASE LoopEnds(h)
  BY <1>5, LeaveType DEF LoopEnds, TypeInv
<1> QED
  BY <1>1, <1>2, <1>3, <1>4, <1>5 DEF ReceiveLoop

LEMMA NetworkType ==
  ASSUME TypeInv, NEW h \in Hosts, Network(h)
  PROVE  TypeInv'
<1>1. ASSUME NEW w \in Seq(Packets), NEW gone, Disturb(h, w, gone) PROVE TypeInv'
  <2>1. faults' \in 0..MaxFaults
    BY <1>1, BoundAssumption DEF Disturb, TypeInv
  <2>2. wire' \in [Hosts -> Seq(Packets)]
    BY <1>1 DEF Disturb, TypeInv
  <2> QED
    BY <1>1, <2>1, <2>2 DEF Disturb, TypeInv, stateVars
<1>2. PICK s \in Seq(Packets) : s = wire[h]
  BY DEF TypeInv
<1>3. ASSUME NEW i \in DOMAIN wire[h] PROVE i \in 1..Len(s) /\ s[i] \in Packets
  BY <1>2, ElementOfSeq, LenProperties
<1>4. ASSUME NEW i \in DOMAIN wire[h], Lose(h, i) PROVE TypeInv'
  <2>1. SubSeq(s, 1, i - 1) \in Seq(Packets)
    BY <1>3, SubSeqProperties
  <2>2. SubSeq(s, i + 1, Len(s)) \in Seq(Packets)
    BY <1>3, SubSeqProperties
  <2>3. SubSeq(s, 1, i - 1) \o SubSeq(s, i + 1, Len(s)) \in Seq(Packets)
    BY <2>1, <2>2, ConcatProperties
  <2> QED
    BY <1>1, <1>2, <1>4, <2>3 DEF Lose
<1>5. ASSUME NEW i \in DOMAIN wire[h], Repeat(h, i) PROVE TypeInv'
  <2>1. SubSeq(s, 1, i) \in Seq(Packets)
    BY <1>3, SubSeqProperties
  <2>2. SubSeq(s, i, Len(s)) \in Seq(Packets)
    BY <1>3, SubSeqProperties
  <2>3. SubSeq(s, 1, i) \o SubSeq(s, i, Len(s)) \in Seq(Packets)
    BY <2>1, <2>2, ConcatProperties
  <2> QED
    BY <1>1, <1>2, <1>5, <2>3 DEF Repeat
<1>6. ASSUME NEW i \in DOMAIN wire[h], Garble(h, i) PROVE TypeInv'
  <2>1. PICK p : p = [s[i] EXCEPT !.seal = Torn, !.id = 0]
    OBVIOUS
  <2>2. p \in Packets
    BY <1>3, <2>1 DEF Packets, BodyFits, Seals
  <2>3. [s EXCEPT ![i] = p] \in Seq(Packets)
    BY <1>3, <2>2, ExceptSeq
  <2>4. [s EXCEPT ![i].seal = Torn, ![i].id = 0] = [s EXCEPT ![i] = p]
    BY <1>3, <2>1
  <2> QED
    BY <1>1, <1>2, <1>6, <2>3, <2>4 DEF Garble
<1>7. ASSUME NEW i \in DOMAIN wire[h], Swap(h, i) PROVE TypeInv'
  <2>1. i \in 1..Len(s) /\ i + 1 \in 1..Len(s)
    BY <1>2, <1>3, <1>7 DEF Swap
  <2>2. s[i] \in Packets /\ s[i + 1] \in Packets
    BY <2>1, ElementOfSeq
  <2>3. PICK u : u = [s EXCEPT ![i] = s[i + 1]]
    OBVIOUS
  <2>6. u \in Seq(Packets)
    BY <2>1, <2>2, <2>3, ExceptSeq
  <2>7. Len(u) = Len(s)
    BY <2>1, <2>2, <2>3, ExceptSeq
  <2>4. [u EXCEPT ![i + 1] = s[i]] \in Seq(Packets)
    BY <2>1, <2>2, <2>6, <2>7, ExceptSeq
  <2>5. [s EXCEPT ![i] = s[i + 1], ![i + 1] = s[i]] = [u EXCEPT ![i + 1] = s[i]]
    BY <2>3
  <2> QED
    BY <1>1, <1>2, <1>7, <2>4, <2>5 DEF Swap
<1> QED
  BY <1>4, <1>5, <1>6, <1>7 DEF Network

LEMMA InitType == Init => TypeInv
<1> SUFFICES ASSUME Init PROVE TypeInv
  OBVIOUS
<1>1. cipher \in [Hosts -> Ciphers]
  BY EmptyChain, FreshType DEF Init, Ciphers
<1>2. wire \in [Hosts -> Seq(Packets)] /\ rtcs \in [Hosts -> Seq(Secrets)]
  BY EmptySeq DEF Init
<1> QED
  <2>1. op \in [Hosts -> [Threads -> Ops]]
    BY IdleType DEF Init
  <2>2. begun \in 0..MaxRequests /\ faults \in 0..MaxFaults /\ crossed \in BOOLEAN
    <3>1. begun = 0 /\ faults = 0
      BY DEF Init
    <3>2. crossed \in BOOLEAN
      BY Zenon DEF Init
    <3> QED
      BY <3>1, <3>2, BoundAssumption
  <2>3. /\ txseq \in [Hosts -> Nat] /\ rxseq \in [Hosts -> Nat] /\ prikey \in [Hosts -> Secrets \cup {Unset}]
        /\ sock \in [Hosts -> {"open", "closed"}] /\ made \in [Hosts -> Nat] /\ taken \in [Hosts -> Nat]
    BY DEF Init
  <2> QED
    BY <1>1, <1>2, <2>1, <2>2, <2>3 DEF TypeInv

LEMMA NextType == TypeInv /\ [Next]_vars => TypeInv'
<1>1. ASSUME TypeInv, UNCHANGED vars PROVE TypeInv'
  BY <1>1 DEF TypeInv, vars, stateVars, netVars, historyVars
<1>2. ASSUME TypeInv, NEW h \in Hosts,
             \/ Application(h) \/ ReceiveLoop(h)
             \/ \E t \in Threads : ThreadStep(h, t)
             \/ ConnectionReset(h) \/ Network(h)
      PROVE  TypeInv'
  BY <1>2, ApplicationType, ReceiveLoopType, ThreadStepType, NetworkType
<1> QED
  BY <1>1, <1>2 DEF Next

LEMMA TypeInvariant == Spec => []TypeInv
BY InitType, NextType, PTL DEF Spec

\* The counters, chains, contexts and threads of both hosts keep their types
\* whatever the threads race for and the network does: what a ratchet appends
\* to a chain is always a secret that one of the hosts has drawn.
THEOREM TypeCorrect == Spec => []TypeOK
<1>1. TypeInv => TypeOK
  <2> SUFFICES ASSUME TypeInv PROVE TypeOK
    OBVIOUS
  <2>1. ASSUME NEW h \in Hosts PROVE cipher[h].tx \in Contexts \cup {Torn} /\ cipher[h].rx \in Contexts \cup {Torn}
    BY DEF TypeInv, Ciphers
  <2>2. ASSUME NEW h \in Hosts, NEW t \in Threads PROVE op[h][t].at \in Places
    BY DEF TypeInv, Ops
  <2> QED
    BY <2>1, <2>2 DEF TypeInv, TypeOK
<1> QED
  BY TypeInvariant, <1>1, PTL

-----------------------------------------------------------------------------
(* As long as no ratchet has been started while another was under way, the   *)
(* network has not failed and both sockets are open, the session is in one   *)
(* of four phases.  In each, both hosts hold keys of one chain r, or a       *)
(* secret s is being added to it.                                            *)

Ratcheting(o) == o.flag \in RatchetFlags
Plain(h, t) == ~Ratcheting(op[h][t])
Clean(w) == \A i \in DOMAIN w : ~Ratcheting(w[i])

\* p is the only packet of a ratchet among w.
One(w, p) == Ratcheting(p) /\ \E i \in DOMAIN w : w[i] = p /\ \A j \in DOMAIN w : j # i => ~Ratcheting(w[j])

HasKeys(h, c) ==
  /\ cipher[h].tx = Torn \/ cipher[h].tx.key = Key(h, c)
  /\ cipher[h].rx = Torn \/ cipher[h].rx.key = Key(Peer(h), c)

Settled(h, c) == rtcs[h] = c /\ HasKeys(h, c)

Quiet(r) ==
  /\ \A h \in Hosts : Settled(h, r) /\ Clean(wire[h])
  /\ \A h \in Hosts, t \in Threads : Plain(h, t)

\* Thread t of a is about to send a packet of a ratchet.
Preparing(a, t, r) ==
  /\ \A h \in Hosts : Settled(h, r) /\ Clean(wire[h])
  /\ op[a][t].at \in Sending /\ Ratcheting(op[a][t])
  /\ \A h \in Hosts, u \in Threads : h # a \/ u # t => Plain(h, u)

\* An asymmetric request is on its way to b, or b is about to open it.
Asked(b, r) ==
  /\ \A h \in Hosts : Settled(h, r)
  /\ Clean(wire[Peer(b)])
  /\ \A h \in Hosts, u \in Threads : h # b \/ u # "receive" => Plain(h, u)
  /\ \/ /\ Plain(b, "receive")
        /\ \E p \in Packets : One(wire[b], p) /\ p.flag = "asymmetric_ratchet_request"
     \/ /\ Clean(wire[b])
        /\ op[b]["receive"].at = "open" /\ op[b]["receive"].flag = "asymmetric_ratchet_request"

\* Thread t of h adds s to the chain r, or has done so.
Turning(h, t, r, s) ==
  LET o == op[h][t]
  IN /\ Rekeys(o) /\ Injected(o) = s
     /\ \/ o.at = "derive" /\ Settled(h, r)
        \/ o.at = "install" /\ o.chain = Append(r, s) /\ Settled(h, r)
        \/ o.at = "keep" /\ o.chain = Append(r, s) /\ rtcs[h] = r /\ HasKeys(h, Append(r, s))

Turned(h, t, r, s) == Turning(h, t, r, s) \/ (Plain(h, t) /\ Settled(h, Append(r, s)))

\* y is about to get s, or has got it.
Getting(y, r, s) ==
  \/ /\ Plain(y, "receive") /\ Settled(y, r)
     /\ \E p \in Packets : One(wire[y], p) /\ Rekeys(p) /\ Injected(p) = s
  \/ /\ Clean(wire[y]) /\ Settled(y, r)
     /\ op[y]["receive"].at = "open" /\ Rekeys(op[y]["receive"]) /\ Injected(op[y]["receive"]) = s
  \/ Clean(wire[y]) /\ Turned(y, "receive", r, s)

\* Thread t of x has sent s to the other host.
Passing(x, t, r, s) ==
  /\ Clean(wire[x])
  /\ \A h \in Hosts, u \in Threads :
       (h # x \/ u # t) /\ (h # Peer(x) \/ u # "receive") => Plain(h, u)
  /\ Turned(x, t, r, s) /\ Getting(Peer(x), r, s)

Phase ==
  \/ \E r \in Seq(Secrets) :
       Quiet(r) \/ (\E a \in Hosts, t \in Threads : Preparing(a, t, r)) \/ \E b \in Hosts : Asked(b, r)
  \/ \E x \in Hosts, t \in Threads, r \in Seq(Secrets), s \in Secrets : Passing(x, t, r, s)

Calm == ~crossed /\ faults = 0 /\ \A h \in Hosts : sock[h] = "open"

PhaseInv == Calm => Phase

(* Packets of ratchets among others *)

LEMMA Places1ToLen ==
  ASSUME NEW w \in Seq(Packets)
  PROVE  DOMAIN w = 1..Len(w) /\ Len(w) \in Nat
BY LenProperties

LEMMA NextIs ==
  ASSUME NEW w \in Seq(Packets), NEW p \in Packets
  PROVE  /\ Append(w, p) \in Seq(Packets) /\ DOMAIN Append(w, p) = 1..(Len(w) + 1)
         /\ Append(w, p)[Len(w) + 1] = p /\ \A i \in 1..Len(w) : Append(w, p)[i] = w[i]
<1>1. Append(w, p) \in Seq(Packets) /\ Len(Append(w, p)) = Len(w) + 1
  BY AppendProperties
<1>2. DOMAIN Append(w, p) = 1..(Len(w) + 1)
  BY <1>1, Places1ToLen
<1>3. Append(w, p)[Len(w) + 1] = p /\ \A i \in 1..Len(w) : Append(w, p)[i] = w[i]
  BY AppendProperties
<1> QED
  BY <1>1, <1>2, <1>3

LEMMA CleanAppend ==
  ASSUME NEW w \in Seq(Packets), NEW p \in Packets, ~Ratcheting(p), Clean(w)
  PROVE  Clean(Append(w, p))
BY NextIs, Places1ToLen DEF Clean

LEMMA OneAppend ==
  ASSUME NEW w \in Seq(Packets), NEW p \in Packets, ~Ratcheting(p), NEW q \in Packets, One(w, q)
  PROVE  One(Append(w, p), q)
<1>1. PICK i \in 1..Len(w) : w[i] = q /\ \A j \in 1..Len(w) : j # i => ~Ratcheting(w[j])
  BY Places1ToLen DEF One
<1>2. PICK v : v = Append(w, p)
  OBVIOUS
<1>3. DOMAIN v = 1..(Len(w) + 1) /\ v[Len(w) + 1] = p /\ \A j \in 1..Len(w) : v[j] = w[j]
  BY <1>2, NextIs
<1>4. i \in DOMAIN v /\ v[i] = q /\ Ratcheting(q)
  BY <1>1, <1>3, Places1ToLen DEF One
<1>5. ASSUME NEW j \in DOMAIN v, j # i PROVE ~Ratcheting(v[j])
  <2>1. CASE j = Len(w) + 1
    BY <1>3, <2>1
  <2>2. CASE j # Len(w) + 1
    <3>1. j \in 1..Len(w)
      BY <1>3, <1>5, <2>2, Places1ToLen
    <3> QED
      BY <1>1, <1>3, <1>5, <3>1
  <2> QED
    BY <2>1, <2>2
<1> QED
  BY <1>2, <1>4, <1>5 DEF One

LEMMA NewOne ==
  ASSUME NEW w \in Seq(Packets), NEW p \in Packets, Ratcheting(p), Clean(w)
  PROVE  One(Append(w, p), p)
<1>1. PICK v : v = Append(w, p)
  OBVIOUS
<1>2. DOMAIN v = 1..(Len(w) + 1) /\ v[Len(w) + 1] = p /\ \A j \in 1..Len(w) : v[j] = w[j]
  BY <1>1, NextIs
<1>3. \A j \in 1..(Len(w) + 1) : j # Len(w) + 1 => j \in 1..Len(w)
  BY Places1ToLen
<1>4. \A j \in DOMAIN v : j # Len(w) + 1 => ~Ratcheting(v[j])
  BY <1>2, <1>3, Places1ToLen DEF Clean
<1>5. Len(w) + 1 \in DOMAIN v
  BY <1>2, Places1ToLen
<1> QED
  BY <1>1, <1>2, <1>4, <1>5 DEF One

LEMMA TailIs ==
  ASSUME NEW w \in Seq(Packets), w # <<>>
  PROVE  /\ Tail(w) \in Seq(Packets) /\ DOMAIN Tail(w) = 1..(Len(w) - 1) /\ Len(w) \in Nat \ {0}
         /\ \A i \in 1..(Len(w) - 1) : Tail(w)[i] = w[i + 1]
         /\ Head(w) = w[1]
<1>1. Tail(w) \in Seq(Packets) /\ Len(Tail(w)) = Len(w) - 1
  BY HeadTailProperties
<1>2. DOMAIN Tail(w) = 1..(Len(w) - 1)
  BY <1>1, Places1ToLen
<1>3. \A i \in 1..(Len(w) - 1) : Tail(w)[i] = w[i + 1]
  BY <1>1, HeadTailProperties
<1>4. Len(w) \in Nat \ {0}
  BY EmptySeq
<1>5. Head(w) = w[1]
  OBVIOUS
<1> QED
  BY <1>1, <1>2, <1>3, <1>4, <1>5

LEMMA CleanTail ==
  ASSUME NEW w \in Seq(Packets), w # <<>>, Clean(w)
  PROVE  Clean(Tail(w)) /\ ~Ratcheting(Head(w))
<1>1. \A i \in 1..(Len(w) - 1) : i + 1 \in DOMAIN w
  BY TailIs, Places1ToLen
<1>2. 1 \in DOMAIN w
  BY TailIs, Places1ToLen
<1> QED
  BY <1>1, <1>2, TailIs DEF Clean

LEMMA OneTail ==
  ASSUME NEW w \in Seq(Packets), w # <<>>, NEW q \in Packets, One(w, q)
  PROVE  /\ ~Ratcheting(Head(w)) => One(Tail(w), q)
         /\ Ratcheting(Head(w)) => Head(w) = q /\ Clean(Tail(w))
<1>1. PICK i \in 1..Len(w) : w[i] = q /\ \A j \in 1..Len(w) : j # i => ~Ratcheting(w[j])
  BY Places1ToLen DEF One
<1>2. PICK v : v = Tail(w)
  OBVIOUS
<1>3. /\ DOMAIN v = 1..(Len(w) - 1) /\ Len(w) \in Nat \ {0} /\ Head(w) = w[1]
      /\ \A j \in 1..(Len(w) - 1) : v[j] = w[j + 1]
  BY <1>2, TailIs
<1>4. Ratcheting(q) /\ 1 \in 1..Len(w)
  BY <1>3 DEF One
<1>5. ASSUME ~Ratcheting(Head(w)) PROVE One(v, q)
  <2>1. i # 1
    BY <1>1, <1>3, <1>4, <1>5
  <2>2. PICK k \in 1..(Len(w) - 1) : k + 1 = i
    <3>1. i - 1 \in 1..(Len(w) - 1) /\ (i - 1) + 1 = i
      BY <1>3, <2>1
    <3> QED
      BY <3>1
  <2>3. v[k] = q /\ k \in DOMAIN v
    BY <1>1, <1>3, <2>2
  <2>4. ASSUME NEW j \in DOMAIN v, j # k PROVE ~Ratcheting(v[j])
    <3>1. j + 1 \in 1..Len(w) /\ j + 1 # i /\ v[j] = w[j + 1]
      BY <1>3, <2>2, <2>4
    <3> QED
      BY <1>1, <3>1
  <2> QED
    BY <1>4, <2>3, <2>4 DEF One
<1>6. ASSUME Ratcheting(Head(w)) PROVE Head(w) = q /\ Clean(v)
  <2>1. i = 1
    BY <1>1, <1>3, <1>4, <1>6
  <2>2. ASSUME NEW j \in DOMAIN v PROVE ~Ratcheting(v[j])
    <3>1. j + 1 \in 1..Len(w) /\ j + 1 # i /\ v[j] = w[j + 1]
      BY <1>3, <2>1
    <3> QED
      BY <1>1, <3>1
  <2> QED
    BY <1>1, <1>3, <2>1, <2>2 DEF Clean
<1> QED
  BY <1>2, <1>5, <1>6

LEMMA CleanHasNone ==
  ASSUME NEW w, Clean(w), NEW q
  PROVE  ~One(w, q)
BY DEF Clean, One

LEMMA EmptyIsClean == Clean(<<>>)
BY DEF Clean

-----------------------------------------------------------------------------
(* Which phase a thread that takes part in a ratchet is in *)

LEMMA PeerIs == \A h \in Hosts : Peer(h) \in Hosts /\ Peer(h) # h /\ Peer(Peer(h)) = h
BY DEF Hosts, Peer

LEMMA RekeysRatchets == \A o : Rekeys(o) => Ratcheting(o)
BY DEF Rekeys, Ratcheting, RatchetFlags

LEMMA WhoPrepares ==
  ASSUME Phase, NEW h \in Hosts, NEW t \in Threads, ~Plain(h, t), op[h][t].at \in Sending
  PROVE  \E r \in Seq(Secrets) : Preparing(h, t, r)
<1>1. ASSUME NEW r, Quiet(r) PROVE FALSE
  BY <1>1 DEF Quiet
<1>2. ASSUME NEW r \in Seq(Secrets), NEW a \in Hosts, NEW u \in Threads, Preparing(a, u, r)
      PROVE  Preparing(h, t, r)
  <2>1. h = a /\ t = u
    BY <1>2 DEF Preparing
  <2> QED
    BY <1>2, <2>1
<1>3. op[h][t].at # "open" /\ op[h][t].at \notin Keying
  BY DEF Sending, Keying
<1>4. ASSUME NEW r, NEW b \in Hosts, Asked(b, r) PROVE FALSE
  <2>1. h = b /\ t = "receive"
    BY <1>4 DEF Asked
  <2> QED
    BY <1>3, <1>4, <2>1 DEF Asked
<1>5. ASSUME NEW x \in Hosts, NEW u \in Threads, NEW r, NEW s, Passing(x, u, r, s) PROVE FALSE
  <2>1. (h = x /\ t = u) \/ (h = Peer(x) /\ t = "receive")
    BY <1>5 DEF Passing
  <2>2. ~Turned(h, t, r, s)
    BY <1>3 DEF Turned, Turning, Keying
  <2> QED
    BY <1>3, <1>5, <2>1, <2>2 DEF Passing, Getting
<1> QED
  BY <1>1, <1>2, <1>4, <1>5 DEF Phase

LEMMA WhoTurns ==
  ASSUME Phase, NEW h \in Hosts, NEW t \in Threads, ~Plain(h, t), op[h][t].at \in Keying
  PROVE  \E x \in Hosts, u \in Threads, r \in Seq(Secrets), s \in Secrets :
           /\ Passing(x, u, r, s) /\ Turning(h, t, r, s)
           /\ (h = x /\ t = u) \/ (h = Peer(x) /\ t = "receive" /\ Clean(wire[h]))
<1>1. ASSUME NEW r, Quiet(r) PROVE FALSE
  BY <1>1 DEF Quiet
<1>2. op[h][t].at # "open" /\ op[h][t].at \notin Sending
  BY DEF Sending, Keying
<1>3. ASSUME NEW r, NEW a \in Hosts, NEW u \in Threads, Preparing(a, u, r) PROVE FALSE
  BY <1>2, <1>3 DEF Preparing
<1>4. ASSUME NEW r, NEW b \in Hosts, Asked(b, r) PROVE FALSE
  <2>1. h = b /\ t = "receive"
    BY <1>4 DEF Asked
  <2> QED
    BY <1>2, <1>4, <2>1 DEF Asked
<1>5. ASSUME NEW x \in Hosts, NEW u \in Threads, NEW r, NEW s, Passing(x, u, r, s)
      PROVE  /\ Turning(h, t, r, s)
             /\ (h = x /\ t = u) \/ (h = Peer(x) /\ t = "receive" /\ Clean(wire[h]))
  <2>1. (h = x /\ t = u) \/ (h = Peer(x) /\ t = "receive")
    BY <1>5 DEF Passing
  <2>2. CASE h = x /\ t = u
    BY <1>5, <2>2 DEF Passing, Turned
  <2>3. CASE h = Peer(x) /\ t = "receive"
    BY <1>2, <1>5, <2>3 DEF Passing, Getting, Turned
  <2> QED
    BY <2>1, <2>2, <2>3
<1> QED
  BY <1>1, <1>3, <1>4, <1>5 DEF Phase

LEMMA WhoOpens ==
  ASSUME Phase, NEW h \in Hosts, ~Plain(h, "receive"), op[h]["receive"].at = "open"
  PROVE  \/ \E r \in Seq(Secrets) :
              Asked(h, r) /\ Clean(wire[h]) /\ op[h]["receive"].flag = "asymmetric_ratchet_request"
         \/ \E x \in Hosts, u \in Threads, r \in Seq(Secrets), s \in Secrets :
              /\ Passing(x, u, r, s) /\ h = Peer(x) /\ Clean(wire[h]) /\ Settled(h, r)
              /\ Rekeys(op[h]["receive"]) /\ Injected(op[h]["receive"]) = s
<1> DEFINE t == "receive"
<1>0. t \in Threads
  BY ThreadsAre
<1>1. ASSUME NEW r, Quiet(r) PROVE FALSE
  BY <1>0, <1>1 DEF Quiet
<1>2. op[h][t].at \notin Keying /\ op[h][t].at \notin Sending
  BY DEF Sending, Keying
<1>3. ASSUME NEW r, NEW a \in Hosts, NEW u \in Threads, Preparing(a, u, r) PROVE FALSE
  BY <1>0, <1>2, <1>3 DEF Preparing
<1>4. ASSUME NEW r, NEW b \in Hosts, Asked(b, r)
      PROVE  Asked(h, r) /\ Clean(wire[h]) /\ op[h]["receive"].flag = "asymmetric_ratchet_request"
  <2>1. h = b
    BY <1>0, <1>4 DEF Asked
  <2> QED
    BY <1>4, <2>1 DEF Asked
<1>5. ASSUME NEW x \in Hosts, NEW u \in Threads, NEW r, NEW s, Passing(x, u, r, s)
      PROVE  /\ h = Peer(x) /\ Clean(wire[h]) /\ Settled(h, r)
             /\ Rekeys(op[h]["receive"]) /\ Injected(op[h]["receive"]) = s
  <2>1. ~Turned(h, t, r, s)
    BY <1>2 DEF Turned, Turning, Keying
  <2>2. h = Peer(x)
    BY <1>0, <1>5, <2>1 DEF Passing
  <2> QED
    BY <1>5, <2>1, <2>2 DEF Passing, Getting
<1> QED
  BY <1>1, <1>3, <1>4, <1>5 DEF Phase

LEMMA WhoTakes ==
  ASSUME TypeInv, Phase, NEW h \in Hosts, Plain(h, "receive"), wire[h] # <<>>, Ratcheting(Head(wire[h]))
  PROVE  \/ \E r \in Seq(Secrets) :
              /\ Asked(h, r) /\ Clean(Tail(wire[h]))
              /\ Head(wire[h]).flag = "asymmetric_ratchet_request"
         \/ \E x \in Hosts, u \in Threads, r \in Seq(Secrets), s \in Secrets :
              /\ Passing(x, u, r, s) /\ h = Peer(x) /\ Clean(Tail(wire[h])) /\ Settled(h, r)
              /\ Rekeys(Head(wire[h])) /\ Injected(Head(wire[h])) = s
<1>1. wire[h] \in Seq(Packets)
  BY DEF TypeInv
<1>2. ~Clean(wire[h])
  BY <1>1, CleanTail
<1>3. ASSUME NEW p \in Packets, One(wire[h], p) PROVE Head(wire[h]) = p /\ Clean(Tail(wire[h]))
  BY <1>1, <1>3, OneTail
<1>4. ASSUME NEW r, Quiet(r) PROVE FALSE
  BY <1>2, <1>4 DEF Quiet
<1>5. ASSUME NEW r, NEW a \in Hosts, NEW u \in Threads, Preparing(a, u, r) PROVE FALSE
  BY <1>2, <1>5 DEF Preparing
<1>6. ASSUME NEW r, NEW b \in Hosts, Asked(b, r)
      PROVE  /\ Asked(h, r) /\ Clean(Tail(wire[h]))
             /\ Head(wire[h]).flag = "asymmetric_ratchet_request"
  <2>1. h = b
    BY <1>2, <1>6 DEF Asked, Hosts, Peer
  <2>2. PICK p \in Packets : One(wire[h], p) /\ p.flag = "asymmetric_ratchet_request"
    BY <1>2, <1>6, <2>1 DEF Asked
  <2> QED
    BY <1>3, <1>6, <2>1, <2>2
<1>7. ASSUME NEW x \in Hosts, NEW u \in Threads, NEW r, NEW s, Passing(x, u, r, s)
      PROVE  /\ h = Peer(x) /\ Clean(Tail(wire[h])) /\ Settled(h, r)
             /\ Rekeys(Head(wire[h])) /\ Injected(Head(wire[h])) = s
  <2>1. h = Peer(x)
    BY <1>2, <1>7 DEF Passing, Hosts, Peer
  <2>2. /\ Settled(h, r)
        /\ \E p \in Packets : One(wire[h], p) /\ Rekeys(p) /\ Injected(p) = s
    BY <1>2, <1>7, <2>1 DEF Passing, Getting
  <2>3. PICK p \in Packets : One(wire[h], p) /\ Rekeys(p) /\ Injected(p) = s
    BY <2>2
  <2> QED
    BY <1>3, <2>1, <2>2, <2>3
<1> QED
  BY <1>4, <1>5, <1>6, <1>7 DEF Phase

-----------------------------------------------------------------------------
(* Steps and phases *)

\* A step of thread t of h, and what it leaves alone.
OnlyThread(h, t) == \A x \in Hosts, y \in Threads : x # h \/ y # t => op'[x][y] = op[x][y]
KeysStay == rtcs' = rtcs /\ \A x \in Hosts : \A c : HasKeys(x, c) => HasKeys(x, c)'
Elsewhere(h) == \A x \in Hosts : x # h => rtcs'[x] = rtcs[x] /\ cipher'[x] = cipher[x]

LEMMA SettledStays ==
  ASSUME KeysStay, NEW x \in Hosts, NEW c, Settled(x, c)
  PROVE  Settled(x, c)'
BY DEF KeysStay, Settled

LEMMA SameCiphers ==
  ASSUME rtcs' = rtcs, cipher' = cipher
  PROVE  KeysStay
BY DEF KeysStay, HasKeys

LEMMA TurningStays ==
  ASSUME KeysStay, NEW x \in Hosts, NEW u \in Threads, op'[x][u] = op[x][u], NEW r, NEW s, Turned(x, u, r, s)
  PROVE  Turned(x, u, r, s)'
<1>1. CASE Plain(x, u) /\ Settled(x, Append(r, s))
  <2>1. Settled(x, Append(r, s))'
    BY <1>1, SettledStays
  <2>2. Plain(x, u)'
    BY <1>1 DEF Plain
  <2> QED
    BY <2>1, <2>2 DEF Turned
<1>2. CASE Turning(x, u, r, s)
  <2>1. Settled(x, r) => Settled(x, r)'
    BY SettledStays
  <2>2. HasKeys(x, Append(r, s)) => HasKeys(x, Append(r, s))'
    BY DEF KeysStay
  <2>3. rtcs'[x] = rtcs[x]
    BY DEF KeysStay
  <2>4. Turning(x, u, r, s)'
    BY <1>2, <2>1, <2>2, <2>3 DEF Turning
  <2> QED
    BY <2>4 DEF Turned
<1> QED
  BY <1>1, <1>2 DEF Turned

LEMMA GettingStays ==
  ASSUME KeysStay, NEW x \in Hosts, op'[x]["receive"] = op[x]["receive"], NEW r, NEW s, Getting(x, r, s),
         Clean(wire[x]) => Clean(wire'[x]), \A p \in Packets : One(wire[x], p) => One(wire'[x], p)
  PROVE  Getting(x, r, s)'
<1>1. Settled(x, r) => Settled(x, r)'
  BY SettledStays
<1>2. Plain(x, "receive") => Plain(x, "receive")'
  BY DEF Plain
<1>3. CASE /\ Plain(x, "receive") /\ Settled(x, r)
           /\ \E p \in Packets : One(wire[x], p) /\ Rekeys(p) /\ Injected(p) = s
  <2>1. PICK p \in Packets : One(wire[x], p) /\ Rekeys(p) /\ Injected(p) = s
    BY <1>3
  <2>2. One(wire'[x], p)
    BY <2>1
  <2> QED
    BY <1>1, <1>2, <1>3, <2>1, <2>2 DEF Getting
<1>4. CASE /\ Clean(wire[x]) /\ Settled(x, r)
           /\ op[x]["receive"].at = "open" /\ Rekeys(op[x]["receive"]) /\ Injected(op[x]["receive"]) = s
  BY <1>1, <1>4 DEF Getting
<1>5. CASE Clean(wire[x]) /\ Turned(x, "receive", r, s)
  <2>1. Turned(x, "receive", r, s)'
    BY <1>5, ThreadsAre, TurningStays
  <2> QED
    BY <1>5, <2>1 DEF Getting
<1> QED
  BY <1>3, <1>4, <1>5 DEF Getting

\* A thread that takes no part in a ratchet does not disturb it.
LEMMA NeutralPhase ==
  ASSUME Phase, NEW h \in Hosts, NEW t \in Threads, Plain(h, t), Plain(h, t)', OnlyThread(h, t), KeysStay,
         \A x \in Hosts : Clean(wire[x]) => Clean(wire'[x]),
         \A x \in Hosts : \A p \in Packets : One(wire[x], p) => One(wire'[x], p)
  PROVE  Phase'
<1>1. \A x \in Hosts, y \in Threads : Plain(x, y) => Plain(x, y)'
  BY DEF OnlyThread, Plain
<1>2. \A x \in Hosts : \A c : Settled(x, c) => Settled(x, c)'
  BY SettledStays
<1>3. \A x \in Hosts, y \in Threads : ~Plain(x, y) => op'[x][y] = op[x][y]
  BY DEF OnlyThread
<1>4. ASSUME NEW r \in Seq(Secrets), Quiet(r) PROVE Phase'
  <2>1. Quiet(r)'
    BY <1>1, <1>2, <1>4 DEF Quiet
  <2> QED
    BY <2>1 DEF Phase
<1>5. ASSUME NEW r \in Seq(Secrets), NEW a \in Hosts, NEW u \in Threads, Preparing(a, u, r) PROVE Phase'
  <2>1. op'[a][u] = op[a][u]
    BY <1>3, <1>5 DEF Preparing, Plain
  <2>2. Preparing(a, u, r)'
    BY <1>1, <1>2, <1>5, <2>1 DEF Preparing
  <2> QED
    BY <2>2 DEF Phase
<1>6. ASSUME NEW r \in Seq(Secrets), NEW b \in Hosts, Asked(b, r) PROVE Phase'
  <2>1. /\ \A x \in Hosts : Settled(x, r)'
        /\ Clean(wire'[Peer(b)])
        /\ \A x \in Hosts, u \in Threads : x # b \/ u # "receive" => Plain(x, u)'
    BY <1>1, <1>2, <1>6, PeerIs DEF Asked
  <2>2. CASE Plain(b, "receive")
    <3>1. PICK p \in Packets : One(wire[b], p) /\ p.flag = "asymmetric_ratchet_request"
      BY <1>6, <2>2 DEF Asked, Plain, Ratcheting, RatchetFlags
    <3>2. One(wire'[b], p) /\ Plain(b, "receive")'
      BY <1>1, <2>2, <3>1, ThreadsAre
    <3>3. Asked(b, r)'
      BY <2>1, <3>1, <3>2 DEF Asked
    <3> QED
      BY <3>3 DEF Phase
  <2>3. CASE ~Plain(b, "receive")
    <3>1. op'[b]["receive"] = op[b]["receive"]
      BY <1>3, <2>3, ThreadsAre
    <3>2. Clean(wire'[b]) /\ op[b]["receive"].at = "open" /\ op[b]["receive"].flag = "asymmetric_ratchet_request"
      BY <1>6, <2>3 DEF Asked
    <3>3. Asked(b, r)'
      BY <2>1, <3>1, <3>2 DEF Asked
    <3> QED
      BY <3>3 DEF Phase
  <2> QED
    BY <2>2, <2>3
<1>7. ASSUME NEW x \in Hosts, NEW u \in Threads, NEW r \in Seq(Secrets), NEW s \in Secrets, Passing(x, u, r, s)
      PROVE  Phase'
  <2>1. PICK y \in Hosts : y = Peer(x)
    BY PeerIs
  <2>2. /\ Clean(wire'[x])
        /\ \A g \in Hosts, v \in Threads : (g # x \/ v # u) /\ (g # y \/ v # "receive") => Plain(g, v)'
    BY <1>1, <1>7, <2>1 DEF Passing
  <2>3. Turned(x, u, r, s)'
    <3>1. CASE Plain(x, u)
      <4>1. Settled(x, Append(r, s))
        BY <1>7, <3>1, RekeysRatchets DEF Passing, Turned, Turning, Plain
      <4> QED
        BY <1>1, <1>2, <3>1, <4>1 DEF Turned
    <3>2. CASE ~Plain(x, u)
      BY <1>3, <1>7, <3>2, TurningStays DEF Passing
    <3> QED
      BY <3>1, <3>2
  <2>4. Getting(y, r, s)'
    <3>1. Getting(y, r, s)
      BY <1>7, <2>1 DEF Passing
    <3>2. CASE ~Plain(y, "receive")
      BY <1>3, <3>1, <3>2, ThreadsAre, GettingStays
    <3>3. CASE Plain(y, "receive")
      <4>1. Plain(y, "receive")' /\ \A c : Settled(y, c) => Settled(y, c)'
        BY <1>1, <1>2, <3>3, ThreadsAre
      <4>2. CASE \E p \in Packets : One(wire[y], p) /\ Rekeys(p) /\ Injected(p) = s /\ Settled(y, r)
        <5>1. PICK p \in Packets : One(wire[y], p) /\ Rekeys(p) /\ Injected(p) = s /\ Settled(y, r)
          BY <4>2
        <5>2. One(wire'[y], p) /\ Settled(y, r)'
          BY <4>1, <5>1
        <5> QED
          BY <4>1, <5>1, <5>2 DEF Getting
      <4>3. CASE Clean(wire[y]) /\ Settled(y, Append(r, s))
        <5>1. Clean(wire'[y]) /\ Settled(y, Append(r, s))'
          BY <4>1, <4>3
        <5> QED
          BY <4>1, <5>1 DEF Getting, Turned
      <4> QED
        BY <3>1, <3>3, <4>2, <4>3, RekeysRatchets DEF Getting, Turned, Turning, Plain
    <3> QED
      BY <3>2, <3>3
  <2>5. Passing(x, u, r, s)'
    BY <2>1, <2>2, <2>3, <2>4 DEF Passing
  <2> QED
    BY <2>5 DEF Phase
<1> QED
  BY <1>4, <1>5, <1>6, <1>7 DEF Phase

\* Nor does a thread that goes on with its packet.
LEMMA SendingPhase ==
  ASSUME Phase, NEW h \in Hosts, NEW t \in Threads, op[h][t].at \in Sending, op'[h][t].at \in Sending,
         op'[h][t].flag = op[h][t].flag, OnlyThread(h, t), KeysStay, wire' = wire
  PROVE  Phase'
<1>1. CASE Plain(h, t)
  <2>1. Plain(h, t)'
    BY <1>1 DEF Plain, Ratcheting
  <2> QED
    BY <1>1, <2>1, NeutralPhase
<1>2. CASE ~Plain(h, t)
  <2>1. PICK r \in Seq(Secrets) : Preparing(h, t, r)
    BY <1>2, WhoPrepares
  <2>2. \A x \in Hosts : Settled(x, r)' /\ Clean(wire'[x])
    BY <2>1, SettledStays DEF Preparing
  <2>3. \A x \in Hosts, y \in Threads : x # h \/ y # t => Plain(x, y)'
    BY <2>1 DEF Preparing, OnlyThread, Plain
  <2>4. Ratcheting(op'[h][t])
    BY <2>1 DEF Preparing, Ratcheting
  <2>5. Preparing(h, t, r)'
    BY <2>2, <2>3, <2>4 DEF Preparing
  <2> QED
    BY <2>5 DEF Phase
<1> QED
  BY <1>1, <1>2

\* A host that turns to the new chain does not disturb the other.
LEMMA TurnPhase ==
  ASSUME NEW x \in Hosts, NEW u \in Threads, NEW r \in Seq(Secrets), NEW s \in Secrets, Passing(x, u, r, s),
         NEW h \in Hosts, NEW t \in Threads,
         (h = x /\ t = u) \/ (h = Peer(x) /\ t = "receive" /\ Clean(wire[h])),
         Turned(h, t, r, s)', OnlyThread(h, t), Elsewhere(h), wire' = wire
  PROVE  Phase'
<1>1. PICK y \in Hosts : y = Peer(x) /\ y # x
  BY PeerIs
<1>2. /\ Clean(wire'[x])
      /\ \A g \in Hosts, v \in Threads : (g # x \/ v # u) /\ (g # y \/ v # "receive") => Plain(g, v)'
  BY <1>1 DEF Passing, OnlyThread, Plain
<1>3. \A c : Settled(y, c) /\ y # h => Settled(y, c)'
  BY DEF Settled, HasKeys, Elsewhere
<1>4. CASE h = x /\ t = u
  <2>1. /\ op'[y]["receive"] = op[y]["receive"] /\ rtcs'[y] = rtcs[y] /\ cipher'[y] = cipher[y]
    BY <1>1, <1>4, ThreadsAre DEF OnlyThread, Elsewhere
  <2>2. Getting(y, r, s)'
    BY <1>1, <2>1 DEF Passing, Getting, Turned, Turning, Plain, Settled, HasKeys
  <2>3. Passing(x, u, r, s)'
    BY <1>1, <1>2, <1>4, <2>2 DEF Passing
  <2> QED
    BY <2>3 DEF Phase
<1>5. CASE h = y /\ t = "receive" /\ Clean(wire[h])
  <2>1. /\ op'[x][u] = op[x][u] /\ rtcs'[x] = rtcs[x] /\ cipher'[x] = cipher[x]
    BY <1>1, <1>5 DEF OnlyThread, Elsewhere
  <2>2. Turned(x, u, r, s)'
    BY <2>1 DEF Passing, Turned, Turning, Plain, Settled, HasKeys
  <2>3. Getting(y, r, s)'
    BY <1>5 DEF Getting
  <2>4. Passing(x, u, r, s)'
    BY <1>1, <1>2, <2>2, <2>3 DEF Passing
  <2> QED
    BY <2>4 DEF Phase
<1> QED
  BY <1>1, <1>4, <1>5

LEMMA NothingUnderWay ==
  ASSUME Phase, ~RatchetUnderWay
  PROVE  \E r \in Seq(Secrets) : Quiet(r)
<1>1. \A h \in Hosts, t \in Threads : Plain(h, t)
  BY DEF RatchetUnderWay, Plain, Ratcheting
<1>2. \A h \in Hosts : Clean(wire[h])
  BY DEF RatchetUnderWay, Clean, Ratcheting
<1>3. ASSUME NEW r, NEW a \in Hosts, NEW u \in Threads, Preparing(a, u, r) PROVE FALSE
  BY <1>1, <1>3 DEF Preparing, Plain
<1>4. ASSUME NEW r, NEW b \in Hosts, Asked(b, r) PROVE FALSE
  BY <1>1, <1>2, <1>4, CleanHasNone, ThreadsAre DEF Asked, Plain, Ratcheting, RatchetFlags
<1>5. ASSUME NEW x \in Hosts, NEW u \in Threads, NEW r \in Seq(Secrets), NEW s \in Secrets, Passing(x, u, r, s)
      PROVE  Quiet(Append(r, s)) /\ Append(r, s) \in Seq(Secrets)
  <2>1. Settled(x, Append(r, s))
    BY <1>1, <1>5, RekeysRatchets DEF Passing, Turned, Turning, Plain
  <2>2. PICK y \in Hosts : y = Peer(x)
    BY PeerIs
  <2>3. Settled(y, Append(r, s))
    <3>1. Plain(y, "receive") /\ Clean(wire[y])
      BY <1>1, <1>2, ThreadsAre
    <3>2. ~Rekeys(op[y]["receive"]) /\ \A p \in Packets : ~One(wire[y], p)
      BY <3>1, RekeysRatchets, CleanHasNone DEF Plain
    <3> QED
      BY <1>5, <2>2, <3>2 DEF Passing, Getting, Turned, Turning
  <2>4. \A h \in Hosts : h = x \/ h = y
    BY <2>2 DEF Hosts, Peer
  <2>5. Append(r, s) \in Seq(Secrets)
    BY AppendProperties
  <2> QED
    BY <1>1, <1>2, <2>1, <2>3, <2>4, <2>5 DEF Quiet
<1> QED
  BY <1>3, <1>4, <1>5 DEF Phase

-----------------------------------------------------------------------------
(* Every action goes on in a phase, unless it closes a socket *)

LEMMA BecomeOnly ==
  ASSUME TypeInv, NEW h \in Hosts, NEW t \in Threads, NEW o, Become(h, t, o)
  PROVE  OnlyThread(h, t) /\ op'[h][t] = o
BY DEF TypeInv, Become, OnlyThread

LEMMA IdleIsPlain ==
  ASSUME TypeInv, NEW h \in Hosts, NEW t \in Threads, op[h][t].at \in {"idle", "ended"}
  PROVE  Plain(h, t)
BY DEF TypeInv, Ops, Plain, Ratcheting, RatchetFlags

LEMMA KeyingRekeys ==
  ASSUME TypeInv, NEW h \in Hosts, NEW t \in Threads, op[h][t].at \in Keying
  PROVE  Rekeys(op[h][t]) /\ ~Plain(h, t) /\ Injected(op[h][t]) \in Secrets
<1>1. PICK o \in Ops : o = op[h][t]
  BY DEF TypeInv
<1>2. Rekeys(o)
  BY <1>1 DEF Ops
<1>3. Injected(o) \in Secrets
  BY <1>2 DEF Injected, Ops, Rekeys, BodyFits, Answer
<1> QED
  BY <1>1, <1>2, <1>3, RekeysRatchets DEF Plain

LEMMA BeginPhase ==
  ASSUME TypeInv, Phase, NEW h \in Hosts, NEW flag, NEW body, Begin(h, flag, body),
         flag \in RatchetFlags => ~RatchetUnderWay
  PROVE  Phase'
<1>1. /\ OnlyThread(h, "send") /\ op'[h]["send"].flag = flag /\ op'[h]["send"].at = "count"
  <2>1. PICK o : o = Counting(h, flag, body)
    OBVIOUS
  <2>2. o.flag = flag /\ o.at = "count"
    BY <2>1 DEF Counting, Idle
  <2>3. Become(h, "send", o)
    BY <2>1 DEF Begin
  <2> QED
    BY <2>2, <2>3, ThreadsAre, BecomeOnly
<1>2. KeysStay /\ wire' = wire
  BY SameCiphers DEF Begin, stateVars, netVars
<1>3. Plain(h, "send")
  BY ThreadsAre, IdleIsPlain DEF Begin, At
<1>4. CASE flag \notin RatchetFlags
  <2>1. Plain(h, "send")'
    BY <1>1, <1>4 DEF Plain, Ratcheting
  <2> QED
    BY <1>1, <1>2, <1>3, <2>1, ThreadsAre, NeutralPhase
<1>5. CASE flag \in RatchetFlags
  <2>1. PICK r \in Seq(Secrets) : Quiet(r)
    BY <1>5, NothingUnderWay
  <2>2. \A x \in Hosts : Settled(x, r)' /\ Clean(wire'[x])
    BY <1>2, <2>1, SettledStays DEF Quiet
  <2>3. \A x \in Hosts, u \in Threads : x # h \/ u # "send" => Plain(x, u)'
    BY <1>1, <2>1 DEF Quiet, OnlyThread, Plain
  <2>4. op'[h]["send"].at \in Sending /\ Ratcheting(op'[h]["send"])
    BY <1>1, <1>5 DEF Sending, Ratcheting
  <2>5. Preparing(h, "send", r)'
    BY <2>2, <2>3, <2>4 DEF Preparing
  <2> QED
    BY <2>5, ThreadsAre DEF Phase
<1> QED
  BY <1>4, <1>5

LEMMA SealKeys ==
  ASSUME TypeInv, NEW h \in Hosts, NEW t, NEW c, rtcs' = rtcs,
         \/ c \in Leaves(h, t, "tx", Advanced(cipher[h].tx)) /\ cipher' = [cipher EXCEPT ![h].tx = c]
         \/ c \in Leaves(h, t, "rx", Advanced(cipher[h].rx)) /\ cipher' = [cipher EXCEPT ![h].rx = c]
  PROVE  KeysStay
<1>1. cipher \in [Hosts -> Ciphers]
  BY DEF TypeInv
<1>2. ASSUME NEW x \in Hosts
      PROVE  /\ cipher'[x].tx = cipher[x].tx \/ cipher'[x].tx = Torn \/ cipher'[x].tx = Advanced(cipher[x].tx)
             /\ cipher'[x].rx = cipher[x].rx \/ cipher'[x].rx = Torn \/ cipher'[x].rx = Advanced(cipher[x].rx)
  BY <1>1, LeavesAre DEF Ciphers
<1>3. ASSUME NEW x \in Hosts
      PROVE  /\ cipher'[x].tx # Torn => cipher[x].tx # Torn /\ cipher'[x].tx.key = cipher[x].tx.key
             /\ cipher'[x].rx # Torn => cipher[x].rx # Torn /\ cipher'[x].rx.key = cipher[x].rx.key
  <2>1. cipher[x].tx \in Contexts \cup {Torn} /\ cipher[x].rx \in Contexts \cup {Torn}
    BY <1>1 DEF Ciphers
  <2>2. Advanced(Torn) = Torn
    BY DEF Advanced
  <2> QED
    BY <1>2, <2>1, <2>2, AdvancedType
<1> QED
  BY <1>3 DEF KeysStay, HasKeys

LEMMA SendPacketPhase ==
  ASSUME TypeInv, TypeInv', Phase, NEW h \in Hosts, NEW t \in Threads, SendPacket(h, t), sock[Peer(h)] = "open"
  PROVE  Phase'
<1>1. PICK o \in Ops : o = op[h][t]
  BY DEF TypeInv
<1>2. PICK y \in Hosts : y = Peer(h) /\ y # h /\ Peer(y) = h
  BY PeerIs
<1>3. PICK p : p = Packet(o)
  OBVIOUS
<1>4. p \in Packets /\ p.flag = o.flag /\ p.body = o.body
  <2>1. o.flag \in Flags
    BY <1>1 DEF SendPacket, At, Ops
  <2> QED
    BY <1>3, <2>1 DEF Packet, Packets, Ops, BodyFits
<1>5. (Ratcheting(p) <=> Ratcheting(o)) /\ (Rekeys(p) <=> Rekeys(o)) /\ Injected(p) = Injected(o)
  BY <1>4 DEF Ratcheting, Rekeys, Injected
<1>6. wire' = [wire EXCEPT ![y] = Append(wire[y], p)] /\ wire[y] \in Seq(Packets) /\ wire \in [Hosts -> Seq(Packets)]
  BY <1>1, <1>2, <1>3 DEF SendPacket, TypeInv
<1>7. wire'[y] = Append(wire[y], p) /\ wire'[h] = wire[h] /\ \A x \in Hosts : x = h \/ x = y
  BY <1>2, <1>6 DEF Hosts
<1>8. KeysStay /\ o.at = "send"
  BY <1>1, SameCiphers DEF SendPacket, stateVars, At
<1>9. PICK n : n = (IF Rekeys(o) THEN [o EXCEPT !.at = "derive"] ELSE Idle)
  OBVIOUS
<1>10. OnlyThread(h, t) /\ op'[h][t] = n
  <2>1. Become(h, t, n)
    BY <1>1, <1>9 DEF SendPacket
  <2> QED
    BY <2>1, BecomeOnly
<1>11. CASE Plain(h, t)
  <2>1. ~Ratcheting(p) /\ ~Rekeys(o)
    BY <1>1, <1>5, <1>11, RekeysRatchets DEF Plain
  <2>2. Plain(h, t)'
    BY <1>9, <1>10, <2>1 DEF Plain, Ratcheting, Idle, RatchetFlags
  <2>3. \A x \in Hosts : Clean(wire[x]) => Clean(wire'[x])
    BY <1>4, <1>6, <1>7, <2>1, CleanAppend
  <2>4. \A x \in Hosts : \A q \in Packets : One(wire[x], q) => One(wire'[x], q)
    BY <1>4, <1>6, <1>7, <2>1, OneAppend
  <2> QED
    BY <1>8, <1>10, <1>11, <2>2, <2>3, <2>4, NeutralPhase
<1>12. CASE ~Plain(h, t)
  <2>1. o.at \in Sending
    BY <1>8 DEF Sending
  <2>2. PICK r \in Seq(Secrets) : Preparing(h, t, r)
    BY <1>1, <1>12, <2>1, WhoPrepares
  <2>3. Ratcheting(p)
    BY <1>1, <1>5, <1>12 DEF Plain
  <2>4. Clean(wire'[h]) /\ One(wire'[y], p)
    BY <1>4, <1>6, <1>7, <2>2, <2>3, NewOne DEF Preparing
  <2>5. \A x \in Hosts : Settled(x, r)'
    BY <1>8, <2>2, SettledStays DEF Preparing
  <2>6. \A x \in Hosts, u \in Threads : x # h \/ u # t => Plain(x, u)'
    BY <1>10, <2>2 DEF Preparing, OnlyThread, Plain
  <2>7. Plain(y, "receive")'
    BY <1>2, <2>6, ThreadsAre
  <2>8. CASE Rekeys(o)
    <3>1. n = [o EXCEPT !.at = "derive"]
      BY <1>9, <2>8
    <3>2. n.at = "derive" /\ n.flag = o.flag /\ n.body = o.body
      BY <3>1 DEF Ops
    <3>3. Rekeys(n) /\ Injected(n) = Injected(o)
      BY <2>8, <3>2 DEF Rekeys, Injected
    <3>4. PICK s : s = Injected(o)
      OBVIOUS
    <3>5. s \in Secrets
      BY <2>8, <3>4 DEF Injected, Ops, Rekeys, BodyFits, Answer
    <3>6. Turned(h, t, r, s)'
      BY <1>10, <2>5, <3>2, <3>3, <3>4 DEF Turned, Turning
    <3>7. Getting(y, r, s)'
      <4>1. Rekeys(p) /\ Injected(p) = s
        BY <1>5, <2>8, <3>4
      <4> QED
        BY <1>4, <2>4, <2>5, <2>7, <4>1 DEF Getting
    <3>8. Passing(h, t, r, s)'
      BY <1>2, <2>4, <2>6, <3>6, <3>7 DEF Passing
    <3> QED
      BY <3>5, <3>8 DEF Phase
  <2>9. CASE ~Rekeys(o)
    <3>1. p.flag = "asymmetric_ratchet_request"
      BY <1>5, <2>3, <2>9 DEF Ratcheting, RatchetFlags, Rekeys
    <3>2. Plain(h, t)'
      BY <1>9, <1>10, <2>9 DEF Plain, Ratcheting, Idle, RatchetFlags
    <3>3. \A x \in Hosts, u \in Threads : x # y \/ u # "receive" => Plain(x, u)'
      BY <2>6, <3>2
    <3>4. Asked(y, r)'
      BY <1>2, <1>4, <2>4, <2>5, <2>7, <3>1, <3>3 DEF Asked
    <3> QED
      BY <3>4 DEF Phase
  <2> QED
    BY <2>8, <2>9
<1> QED
  BY <1>11, <1>12

LEMMA FailCloses ==
  ASSUME TypeInv, NEW h \in Hosts, CloseSocket(h)
  PROVE  ~Calm'
BY CloseType DEF Calm

LEMMA SendFailsPhase ==
  ASSUME TypeInv, Phase, NEW h \in Hosts, NEW t \in Threads, SendFails(h, t), Calm'
  PROVE  Phase'
<1>1. op[h][t].flag # "asymmetric_ratchet_response"
  BY FailCloses DEF SendFails, Fail
<1>2. Become(h, t, Idle) /\ wire' = wire /\ op[h][t].at \in Sending /\ KeysStay
  BY <1>1, SameCiphers DEF SendFails, At, Sending
<1>3. OnlyThread(h, t) /\ Plain(h, t)'
  BY <1>2, BecomeOnly DEF Plain, Ratcheting, Idle, RatchetFlags
<1>4. CASE Plain(h, t)
  BY <1>2, <1>3, <1>4, NeutralPhase
<1>5. CASE ~Plain(h, t)
  <2>1. PICK r \in Seq(Secrets) : Preparing(h, t, r)
    BY <1>2, <1>5, WhoPrepares
  <2>2. \A x \in Hosts : Settled(x, r)' /\ Clean(wire'[x])
    BY <1>2, <2>1, SettledStays DEF Preparing
  <2>3. \A x \in Hosts, u \in Threads : Plain(x, u)'
    BY <1>3, <2>1 DEF Preparing, OnlyThread, Plain
  <2>4. Quiet(r)'
    BY <2>2, <2>3 DEF Quiet
  <2> QED
    BY <2>4 DEF Phase
<1> QED
  BY <1>4, <1>5

LEMMA KeyingPhase ==
  ASSUME TypeInv, Phase, NEW h \in Hosts, NEW t \in Threads,
         DeriveKeys(h, t) \/ InstallKeys(h, t) \/ KeepChain(h, t)
  PROVE  Phase'
<1>1. PICK o \in Ops : o = op[h][t]
  BY DEF TypeInv
<1>2. op[h][t].at \in Keying /\ wire' = wire
  BY DEF DeriveKeys, InstallKeys, KeepChain, At, Keying, netVars
<1>3. PICK x \in Hosts, u \in Threads, r \in Seq(Secrets), s \in Secrets :
        /\ Passing(x, u, r, s) /\ Turning(h, t, r, s)
        /\ (h = x /\ t = u) \/ (h = Peer(x) /\ t = "receive" /\ Clean(wire[h]))
  BY <1>2, KeyingRekeys, WhoTurns
<1>4. Rekeys(o) /\ Injected(o) = s
  BY <1>1, <1>3 DEF Turning
<1>5. Turned(h, t, r, s)' /\ OnlyThread(h, t) /\ Elsewhere(h)
  <2>1. CASE DeriveKeys(h, t)
    <3>1. o.at = "derive" /\ Settled(h, r)
      BY <1>1, <1>3, <2>1 DEF DeriveKeys, At, Turning
    <3>2. PICK n : n = [o EXCEPT !.at = "install", !.chain = Append(rtcs[h], Injected(o))]
      OBVIOUS
    <3>3. n.at = "install" /\ n.chain = Append(r, s) /\ n.flag = o.flag /\ n.body = o.body
      BY <1>4, <3>1, <3>2 DEF Ops, Settled
    <3>4. Rekeys(n) /\ Injected(n) = s
      BY <1>4, <3>3 DEF Rekeys, Injected
    <3>5. OnlyThread(h, t) /\ op'[h][t] = n
      BY <1>1, <2>1, <3>2, BecomeOnly DEF DeriveKeys
    <3>6. rtcs' = rtcs /\ cipher' = cipher
      BY <2>1 DEF DeriveKeys, stateVars
    <3>7. Settled(h, r)'
      BY <3>1, <3>6 DEF Settled, HasKeys
    <3>8. Turning(h, t, r, s)'
      BY <3>3, <3>4, <3>5, <3>7 DEF Turning
    <3> QED
      BY <3>5, <3>6, <3>8 DEF Turned, Elsewhere
  <2>2. CASE InstallKeys(h, t)
    <3>1. o.at = "install" /\ o.chain = Append(r, s) /\ Settled(h, r)
      BY <1>1, <1>3, <2>2 DEF InstallKeys, At, Turning
    <3>2. PICK n : n = [o EXCEPT !.at = "keep"]
      OBVIOUS
    <3>3. n.at = "keep" /\ n.chain = Append(r, s) /\ n.flag = o.flag /\ n.body = o.body
      BY <3>1, <3>2 DEF Ops
    <3>4. Rekeys(n) /\ Injected(n) = s
      BY <1>4, <3>3 DEF Rekeys, Injected
    <3>5. Become(h, t, n)
      BY <1>1, <2>2, <3>2, GoIs DEF InstallKeys, TypeInv
    <3>6. OnlyThread(h, t) /\ op'[h][t] = n
      BY <3>5, BecomeOnly
    <3>7. PICK new : new = Fresh(h, o.chain)
      OBVIOUS
    <3>8. new.tx.key = Key(h, Append(r, s)) /\ new.rx.key = Key(Peer(h), Append(r, s))
      BY <3>1, <3>7, FreshType DEF Ops
    <3>9. PICK tx \in Leaves(h, t, "tx", new.tx), rx \in Leaves(h, t, "rx", new.rx) :
            cipher' = [cipher EXCEPT ![h] = [tx |-> tx, rx |-> rx]]
      BY <1>1, <2>2, <3>7 DEF InstallKeys
    <3>10. cipher'[h].tx = tx /\ cipher'[h].rx = rx /\ (tx = new.tx \/ tx = Torn) /\ (rx = new.rx \/ rx = Torn)
      BY <3>9, LeavesAre DEF TypeInv
    <3>11. rtcs' = rtcs /\ rtcs[h] = r
      BY <2>2, <3>1 DEF InstallKeys, Settled
    <3>12. HasKeys(h, Append(r, s))'
      BY <3>8, <3>10 DEF HasKeys
    <3>13. Turning(h, t, r, s)'
      BY <3>3, <3>4, <3>6, <3>11, <3>12 DEF Turning
    <3>14. Elsewhere(h)
      BY <3>9, <3>11 DEF Elsewhere, TypeInv
    <3> QED
      BY <3>6, <3>13, <3>14 DEF Turned
  <2>3. CASE KeepChain(h, t)
    <3>1. o.at = "keep" /\ o.chain = Append(r, s) /\ rtcs[h] = r /\ HasKeys(h, Append(r, s))
      BY <1>1, <1>3, <2>3 DEF KeepChain, At, Turning
    <3>2. OnlyThread(h, t) /\ op'[h][t] = Idle
      BY <2>3, BecomeOnly DEF KeepChain
    <3>3. Plain(h, t)'
      BY <3>2 DEF Plain, Ratcheting, Idle, RatchetFlags
    <3>4. rtcs' = [rtcs EXCEPT ![h] = o.chain] /\ cipher' = cipher
      BY <1>1, <2>3 DEF KeepChain
    <3>5. rtcs'[h] = Append(r, s) /\ Elsewhere(h)
      BY <3>1, <3>4 DEF TypeInv, Elsewhere
    <3>6. Settled(h, Append(r, s))'
      BY <3>1, <3>4, <3>5 DEF Settled, HasKeys
    <3> QED
      BY <3>2, <3>3, <3>5, <3>6 DEF Turned
  <2> QED
    BY <2>1, <2>2, <2>3
<1> QED
  BY <1>2, <1>3, <1>5, TurnPhase

LEMMA TakePacketPhase ==
  ASSUME TypeInv, Phase, NEW h \in Hosts, TakePacket(h), Calm'
  PROVE  Phase'
<1>1. PICK p : p = Head(wire[h])
  OBVIOUS
<1>2. p \in Packets /\ wire[h] \in Seq(Packets) /\ wire[h] # <<>>
  BY <1>1, RestType DEF TakePacket, TypeInv
<1>3. ~Fail(h)
  BY FailCloses DEF Fail
<1>4. PICK o : o = [flag |-> p.flag, body |-> p.body, seq |-> p.seq, seal |-> p.seal,
                    id |-> p.id, at |-> "open", chain |-> <<>>]
  OBVIOUS
<1>5. Become(h, "receive", o) /\ wire' = Rest(h) /\ UNCHANGED <<rtcs, cipher>>
  BY <1>1, <1>3, <1>4 DEF TakePacket
<1>6. o.flag = p.flag /\ o.body = p.body /\ o.at = "open"
  BY <1>4
<1>7. (Ratcheting(o) <=> Ratcheting(p)) /\ (Rekeys(o) <=> Rekeys(p)) /\ Injected(o) = Injected(p)
  BY <1>6 DEF Ratcheting, Rekeys, Injected
<1>8. OnlyThread(h, "receive") /\ op'[h]["receive"] = o /\ KeysStay
  BY <1>5, ThreadsAre, BecomeOnly, SameCiphers
<1>9. wire'[h] = Tail(wire[h]) /\ \A x \in Hosts : x # h => wire'[x] = wire[x]
  BY <1>5 DEF Rest, TypeInv
<1>10. Plain(h, "receive")
  BY ThreadsAre, IdleIsPlain DEF TakePacket, At
<1>11. CASE ~Ratcheting(p)
  <2>1. Plain(h, "receive")'
    BY <1>7, <1>8, <1>11 DEF Plain
  <2>2. \A x \in Hosts : Clean(wire[x]) => Clean(wire'[x])
    BY <1>2, <1>9, CleanTail
  <2>3. \A x \in Hosts : \A q \in Packets : One(wire[x], q) => One(wire'[x], q)
    BY <1>1, <1>2, <1>9, <1>11, OneTail
  <2> QED
    BY <1>8, <1>10, <2>1, <2>2, <2>3, ThreadsAre, NeutralPhase
<1>12. CASE Ratcheting(p)
  <2>1. ASSUME NEW r \in Seq(Secrets), Asked(h, r), Clean(Tail(wire[h])), p.flag = "asymmetric_ratchet_request"
        PROVE  Phase'
    <3>1. \A x \in Hosts : Settled(x, r)'
      BY <1>8, <2>1, SettledStays DEF Asked
    <3>2. Clean(wire'[Peer(h)]) /\ Clean(wire'[h])
      BY <1>9, <2>1, PeerIs DEF Asked
    <3>3. \A x \in Hosts, u \in Threads : x # h \/ u # "receive" => Plain(x, u)'
      BY <1>8, <2>1 DEF Asked, OnlyThread, Plain
    <3>4. Asked(h, r)'
      BY <1>6, <1>8, <2>1, <3>1, <3>2, <3>3 DEF Asked
    <3> QED
      BY <3>4 DEF Phase
  <2>2. ASSUME NEW x \in Hosts, NEW u \in Threads, NEW r \in Seq(Secrets), NEW s \in Secrets,
               Passing(x, u, r, s), h = Peer(x), Clean(Tail(wire[h])), Settled(h, r), Rekeys(p), Injected(p) = s
        PROVE  Phase'
    <3>1. x # h
      BY <2>2, PeerIs
    <3>2. Clean(wire'[x])
      BY <1>9, <2>2, <3>1 DEF Passing
    <3>3. \A g \in Hosts, v \in Threads : (g # x \/ v # u) /\ (g # h \/ v # "receive") => Plain(g, v)'
      BY <1>8, <2>2 DEF Passing, OnlyThread, Plain
    <3>4. Turned(x, u, r, s)'
      BY <1>8, <2>2, <3>1, TurningStays DEF Passing, OnlyThread
    <3>5. Settled(h, r)'
      BY <1>8, <2>2, SettledStays
    <3>6. Getting(h, r, s)'
      BY <1>6, <1>7, <1>8, <1>9, <2>2, <3>5 DEF Getting
    <3>7. Passing(x, u, r, s)'
      BY <2>2, <3>2, <3>3, <3>4, <3>6 DEF Passing
    <3> QED
      BY <3>7 DEF Phase
  <2> QED
    BY <1>1, <1>2, <1>10, <1>12, <2>1, <2>2, WhoTakes
<1> QED
  BY <1>11, <1>12

LEMMA OpenPacketPhase ==
  ASSUME TypeInv, Phase, NEW h \in Hosts, OpenPacket(h), Calm'
  PROVE  Phase'
<1>1. PICK o \in Ops : o = op[h]["receive"] /\ o.at = "open"
  BY ThreadsAre DEF OpenPacket, At, TypeInv
<1>2. ~Fail(h)
  BY FailCloses DEF Fail
<1>3. PICK c \in Leaves(h, "receive", "rx", Advanced(cipher[h].rx)) : cipher' = [cipher EXCEPT ![h].rx = c]
  BY <1>1, <1>2 DEF OpenPacket
<1>4. Become(h, "receive", Opened(h, o)) /\ rtcs' = rtcs /\ wire' = wire
  BY <1>1, <1>2 DEF OpenPacket
<1>5. KeysStay
  BY <1>3, <1>4, SealKeys
<1>6. PICK n : n = Opened(h, o)
  OBVIOUS
<1>7. OnlyThread(h, "receive") /\ op'[h]["receive"] = n
  BY <1>4, <1>6, ThreadsAre, BecomeOnly
<1>8. CASE Plain(h, "receive")
  <2>1. o.flag = "encrypted_message"
    BY <1>1, <1>8 DEF Ops, Flags, Plain, Ratcheting
  <2>2. Plain(h, "receive")'
    BY <1>6, <1>7, <2>1 DEF Opened, Plain, Ratcheting, Idle, RatchetFlags
  <2> QED
    BY <1>4, <1>5, <1>7, <1>8, <2>2, ThreadsAre, NeutralPhase
<1>9. CASE ~Plain(h, "receive")
  <2>1. ASSUME NEW r \in Seq(Secrets), Asked(h, r), Clean(wire[h]), o.flag = "asymmetric_ratchet_request"
        PROVE  Phase'
    <3>1. \A x \in Hosts : Settled(x, r)'
      BY <1>5, <2>1, SettledStays DEF Asked
    <3>2. \A x \in Hosts : Clean(wire'[x])
      BY <1>4, <2>1 DEF Asked, Hosts, Peer
    <3>3. \A x \in Hosts, u \in Threads : x # h \/ u # "receive" => Plain(x, u)'
      BY <1>7, <2>1 DEF Asked, OnlyThread, Plain
    <3>4. n.at = "count" /\ n.flag = "asymmetric_ratchet_response"
      <4>1. PICK b : n = Counting(h, "asymmetric_ratchet_response", b)
        BY <1>6, <2>1 DEF Opened
      <4> QED
        BY <4>1 DEF Counting, Idle
    <3>5. op'[h]["receive"].at \in Sending /\ Ratcheting(op'[h]["receive"])
      BY <1>7, <3>4 DEF Sending, Ratcheting, RatchetFlags
    <3>6. Preparing(h, "receive", r)'
      BY <3>1, <3>2, <3>3, <3>5 DEF Preparing
    <3> QED
      BY <3>6, ThreadsAre DEF Phase
  <2>2. ASSUME NEW x \in Hosts, NEW u \in Threads, NEW r \in Seq(Secrets), NEW s \in Secrets,
               Passing(x, u, r, s), h = Peer(x), Clean(wire[h]), Settled(h, r), Rekeys(o), Injected(o) = s
        PROVE  Phase'
    <3>1. x # h
      BY <2>2, PeerIs
    <3>2. Clean(wire'[x])
      BY <1>4, <2>2 DEF Passing
    <3>3. \A g \in Hosts, v \in Threads : (g # x \/ v # u) /\ (g # h \/ v # "receive") => Plain(g, v)'
      BY <1>7, <2>2 DEF Passing, OnlyThread, Plain
    <3>4. Turned(x, u, r, s)'
      BY <1>5, <1>7, <2>2, <3>1, TurningStays DEF Passing, OnlyThread
    <3>5. Settled(h, r)'
      BY <1>5, <2>2, SettledStays
    <3>6. n = [o EXCEPT !.at = "derive"]
      BY <1>6, <2>2 DEF Opened, Rekeys
    <3>7. n.at = "derive" /\ n.flag = o.flag /\ n.body = o.body
      BY <3>6 DEF Ops
    <3>8. Rekeys(n) /\ Injected(n) = s
      BY <2>2, <3>7 DEF Rekeys, Injected
    <3>9. Turned(h, "receive", r, s)'
      BY <1>7, <3>5, <3>7, <3>8 DEF Turned, Turning
    <3>10. Getting(h, r, s)'
      BY <1>4, <2>2, <3>9 DEF Getting
    <3>11. Passing(x, u, r, s)'
      BY <2>2, <3>2, <3>3, <3>4, <3>10 DEF Passing
    <3> QED
      BY <3>11 DEF Phase
  <2> QED
    BY <1>1, <1>9, <2>1, <2>2, WhoOpens
<1> QED
  BY <1>8, <1>9

LEMMA ThreadStepPhase ==
  ASSUME TypeInv, TypeInv', Phase, NEW h \in Hosts, NEW t \in Threads, ThreadStep(h, t), Calm, Calm'
  PROVE  Phase'
<1>1. PICK o \in Ops : o = op[h][t]
  BY DEF TypeInv
<1>2. ASSUME NEW n, Become(h, t, n), n.flag = o.flag, n.at \in Sending, o.at \in Sending, KeysStay, wire' = wire
      PROVE  Phase'
  <2>1. OnlyThread(h, t) /\ op'[h][t] = n
    BY <1>2, BecomeOnly
  <2> QED
    BY <1>1, <1>2, <2>1, SendingPhase
<1>3. CASE CountPacket(h, t)
  <2>1. PICK n : n = [o EXCEPT !.at = "number"]
    OBVIOUS
  <2>2. n.flag = o.flag /\ n.at \in Sending /\ o.at \in Sending
    BY <1>1, <1>3, <2>1 DEF CountPacket, At, Sending, Ops
  <2>3. Become(h, t, n)
    BY <1>1, <1>3, <2>1, GoIs DEF CountPacket, TypeInv
  <2> QED
    BY <1>2, <1>3, <2>2, <2>3, SameCiphers DEF CountPacket, netVars
<1>4. CASE NumberPacket(h, t)
  <2>1. PICK n : n = [o EXCEPT !.at = "seal", !.seq = txseq[h]]
    OBVIOUS
  <2>2. n.flag = o.flag /\ n.at \in Sending /\ o.at \in Sending
    BY <1>1, <1>4, <2>1 DEF NumberPacket, At, Sending, Ops
  <2>3. Become(h, t, n)
    BY <1>1, <1>4, <2>1 DEF NumberPacket
  <2> QED
    BY <1>2, <1>4, <2>2, <2>3, SameCiphers DEF NumberPacket, netVars
<1>5. CASE SealPacket(h, t)
  <2>1. PICK s \in Leaves(h, t, "tx", cipher[h].tx), c \in Leaves(h, t, "tx", Advanced(cipher[h].tx)) :
          /\ Become(h, t, [op[h][t] EXCEPT !.at = "send", !.seal = s, !.id = made[h] + 1])
          /\ cipher' = [cipher EXCEPT ![h].tx = c]
    BY <1>5 DEF SealPacket
  <2>2. PICK n : n = [o EXCEPT !.at = "send", !.seal = s, !.id = made[h] + 1]
    OBVIOUS
  <2>3. n.flag = o.flag /\ n.at \in Sending /\ o.at \in Sending
    BY <1>1, <1>5, <2>2 DEF SealPacket, At, Sending, Ops
  <2>4. Become(h, t, n)
    BY <1>1, <2>1, <2>2
  <2>5. rtcs' = rtcs /\ wire' = wire
    BY <1>5 DEF SealPacket, netVars
  <2>6. KeysStay
    BY <2>1, <2>5, SealKeys
  <2> QED
    BY <1>2, <2>3, <2>4, <2>5, <2>6
<1>6. CASE SendPacket(h, t)
  BY <1>6, PeerIs, SendPacketPhase DEF Calm
<1>7. CASE SendFails(h, t)
  BY <1>7, SendFailsPhase
<1>8. CASE DeriveKeys(h, t) \/ InstallKeys(h, t) \/ KeepChain(h, t)
  BY <1>8, KeyingPhase
<1> QED
  BY <1>3, <1>4, <1>5, <1>6, <1>7, <1>8 DEF ThreadStep

LEMMA HostPhase ==
  ASSUME TypeInv, TypeInv', PhaseInv, NEW h \in Hosts,
         Application(h) \/ ReceiveLoop(h) \/ ConnectionReset(h), Calm, Calm'
  PROVE  Phase'
<1>1. Phase
  BY DEF PhaseInv
<1>2. CASE SendMessage(h)
  BY <1>1, <1>2, BeginPhase DEF SendMessage, RatchetFlags
<1>3. CASE AskSymmetric(h)
  <2>1. ~RatchetUnderWay
    BY <1>3 DEF AskSymmetric, Calm
  <2> QED
    BY <1>1, <1>3, <2>1, BeginPhase DEF AskSymmetric
<1>4. CASE AskAsymmetric(h)
  <2>1. ~RatchetUnderWay
    BY <1>4 DEF AskAsymmetric, Calm
  <2> QED
    BY <1>1, <1>4, <2>1, BeginPhase DEF AskAsymmetric
<1>5. CASE TakePacket(h)
  BY <1>1, <1>5, TakePacketPhase
<1>6. CASE OpenPacket(h)
  BY <1>1, <1>6, OpenPacketPhase
<1>7. CASE Quit(h) \/ TakeTerminate(h) \/ ConnectionReset(h) \/ RejectPacket(h)
  BY <1>7, FailCloses DEF Quit, TakeTerminate, ConnectionReset, RejectPacket, Fail
<1>8. ~LoopEnds(h)
  BY DEF LoopEnds, Calm
<1> QED
  BY <1>2, <1>3, <1>4, <1>5, <1>6, <1>7, <1>8 DEF Application, ReceiveLoop

LEMMA CalmWas ==
  ASSUME TypeInv, TypeInv', Next, Calm'
  PROVE  Calm /\ ~\E h \in Hosts : Network(h)
<1>1. ASSUME NEW h \in Hosts, Network(h) PROVE FALSE
  <2>1. faults' = faults + 1
    BY <1>1 DEF Network, Lose, Repeat, Garble, Swap, Disturb
  <2> QED
    BY <2>1 DEF TypeInv, Calm
<1>2. ASSUME NEW h \in Hosts, NEW t \in Threads, ThreadStep(h, t) PROVE Calm
  <2>1. faults' = faults /\ crossed' = crossed
    BY <1>2 DEF ThreadStep, CountPacket, NumberPacket, SealPacket, SendPacket, SendFails, DeriveKeys,
                InstallKeys, KeepChain, netVars, historyVars
  <2>2. sock' = sock \/ CloseSocket(h)
    BY <1>2 DEF ThreadStep, CountPacket, NumberPacket, SealPacket, SendPacket, SendFails, DeriveKeys,
                InstallKeys, KeepChain, netVars, historyVars, Fail
  <2> QED
    BY <2>1, <2>2, FailCloses DEF Calm
<1>3. ASSUME NEW h \in Hosts, Application(h) \/ ReceiveLoop(h) \/ ConnectionReset(h) PROVE Calm
  <2>1. faults' = faults /\ (crossed => crossed')
    <3>1. faults' = faults
      BY <1>3 DEF Application, SendMessage, AskSymmetric, AskAsymmetric, Begin, Quit, ReceiveLoop, TakeTerminate,
                  TakePacket, OpenPacket, RejectPacket, LoopEnds, ConnectionReset, netVars, historyVars
    <3>2. \/ crossed' = crossed
          \/ crossed' = (crossed \/ RatchetUnderWay)
      BY <1>3 DEF Application, SendMessage, AskSymmetric, AskAsymmetric, Quit, ReceiveLoop, TakeTerminate,
                  TakePacket, OpenPacket, RejectPacket, LoopEnds, ConnectionReset, historyVars
    <3>3. crossed => crossed'
      BY <3>2, Zenon
    <3> QED
      BY <3>1, <3>3
  <2>2. sock' = sock \/ CloseSocket(h)
    BY <1>3 DEF Application, SendMessage, AskSymmetric, AskAsymmetric, Begin, Quit, ReceiveLoop, TakeTerminate,
                TakePacket, OpenPacket, RejectPacket, LoopEnds, ConnectionReset, netVars, historyVars, Fail
  <2> QED
    BY <2>1, <2>2, FailCloses DEF Calm
<1> QED
  BY <1>1, <1>2, <1>3 DEF Next

LEMMA InitPhase == Init => PhaseInv
<1> SUFFICES ASSUME Init PROVE Phase
  BY DEF PhaseInv
<1>1. \A h \in Hosts : Settled(h, <<>>)
  BY EmptyChain, FreshType DEF Init, Settled, HasKeys
<1>2. \A h \in Hosts : Clean(wire[h])
  BY EmptyIsClean DEF Init
<1>3. \A h \in Hosts, t \in Threads : Plain(h, t)
  BY DEF Init, Plain, Ratcheting, Idle, RatchetFlags
<1>4. Quiet(<<>>)
  BY <1>1, <1>2, <1>3 DEF Quiet
<1> QED
  BY <1>4, EmptyChain DEF Phase

LEMMA NextPhase ==
  ASSUME TypeInv, PhaseInv, [Next]_vars
  PROVE  PhaseInv'
<1>1. TypeInv'
  BY NextType
<1>2. CASE UNCHANGED vars
  BY <1>2 DEF PhaseInv, Calm, Phase, Quiet, Preparing, Asked, Passing, Turned, Turning, Getting, Settled, HasKeys,
              Plain, Clean, One, vars, stateVars, netVars, historyVars
<1>3. CASE Next
  <2> SUFFICES ASSUME Calm' PROVE Phase'
    BY DEF PhaseInv
  <2>1. Calm /\ Phase /\ ~\E h \in Hosts : Network(h)
    BY <1>1, <1>3, CalmWas DEF PhaseInv
  <2>2. ASSUME NEW h \in Hosts, Application(h) \/ ReceiveLoop(h) \/ ConnectionReset(h) PROVE Phase'
    BY <1>1, <2>1, <2>2, HostPhase
  <2>3. ASSUME NEW h \in Hosts, NEW t \in Threads, ThreadStep(h, t) PROVE Phase'
    BY <1>1, <2>1, <2>3, ThreadStepPhase
  <2> QED
    BY <1>3, <2>1, <2>2, <2>3 DEF Next
<1> QED
  BY <1>2, <1>3

\* As long as no ratchet is started while another is under way, both hosts hold
\* the same chain and the same keys whenever nothing is on its way: whatever
\* the two threads of each host do at once, for any number of messages and
\* ratchets of both kinds, from either side.
THEOREM KeysAgree == Spec => []KeysAgreeAtRest
<1>1. TypeInv /\ PhaseInv /\ [Next]_vars => TypeInv' /\ PhaseInv'
  BY NextType, NextPhase
<1>2. TypeInv /\ PhaseInv => KeysAgreeAtRest
  <2> SUFFICES ASSUME TypeInv, PhaseInv, AtRest, Whole, ~crossed PROVE SameKeys
    BY DEF KeysAgreeAtRest
  <2>1. Phase
    BY DEF AtRest, Calm, PhaseInv
  <2>2. ~RatchetUnderWay
    <3>1. ASSUME NEW h \in Hosts PROVE DOMAIN wire[h] = {} /\ \A t \in Threads : op[h][t].flag \notin RatchetFlags
      <4>1. DOMAIN wire[h] = {}
        BY DEF AtRest
      <4>2. \A t \in Threads : op[h][t].flag \notin RatchetFlags
        BY IdleIsPlain DEF AtRest, At, Plain, Ratcheting
      <4> QED
        BY <4>1, <4>2
    <3> QED
      BY <3>1 DEF RatchetUnderWay
  <2>3. PICK r \in Seq(Secrets) : Quiet(r)
    BY <2>1, <2>2, NothingUnderWay
  <2>4. ASSUME NEW h \in Hosts
        PROVE  rtcs[h] = r /\ cipher[h].tx.key = Key(h, r) /\ cipher[h].rx.key = Key(Peer(h), r)
    <3>1. cipher[h].tx # Torn /\ cipher[h].rx # Torn
      BY DEF Whole
    <3> QED
      BY <2>3, <3>1 DEF Quiet, Settled, HasKeys
  <2>5. "client" \in Hosts /\ "listener" \in Hosts
    BY DEF Hosts
  <2> QED
    BY <2>4, <2>5, PeerIs DEF SameKeys
<1> QED
  BY InitType, InitPhase, <1>1, <1>2, PTL DEF Spec

-----------------------------------------------------------------------------
(* The packets of a host are accepted in the order in which they were        *)
(* sealed, each at most once (SecureStream).  S[h][i] is the context in which *)
(* packet i of h was sealed.  Within a key the positions of the contexts say  *)
(* it.  Between keys it rests on each host making keys with each secret once  *)
(* (NotYet, OnceEach), and on this: while a host has sent a secret and has    *)
(* not yet made its own keys with it, the other one may have made its keys    *)
(* and moved on to others; from the first packet sealed with them on, all its *)
(* packets are sealed with secrets that the host has no means to get (Dark).  *)

SealMaps == [Hosts -> [Nat -> Contexts \cup {Torn}]]

\* The keys of c were made by injecting u.
MadeWith(c, u) == c # Torn /\ c.key.chain # <<>> /\ c.key.chain[Len(c.key.chain)] = u

\* o brings u, to be injected.
Carries(o, u) == Rekeys(o) /\ Injected(o) = u

\* What h has yet to open.
Coming(h) == {wire[h][i] : i \in DOMAIN wire[h]}
               \cup IF At(h, "receive", "open") THEN {Packet(op[h]["receive"])} ELSE {}

\* Thread t of h has a packet to send that carries u, or is to inject u.
Making(h, t, u) == op[h][t].at \in Sending /\ Carries(op[h][t], u)
Adding(h, t, u) == op[h][t].at \in {"derive", "install"} /\ Carries(op[h][t], u)
Busy(o) == o.at \in Sending \cup {"derive", "install"}

Keyed(S, h, u) ==
  MadeWith(cipher[h].tx, u) \/ MadeWith(cipher[h].rx, u) \/ \E i \in Nat : MadeWith(S[h][i], u)

Seen(S, u) ==
  \E h \in Hosts :
    \/ Keyed(S, h, u)
    \/ \E t \in Threads : Making(h, t, u) \/ Adding(h, t, u)
    \/ \E p \in Coming(h) : Carries(p, u)

Unheard(S, h, u) ==
  ~Keyed(S, h, u) /\ ~Adding(h, "receive", u) /\ \A p \in Coming(h) : ~Carries(p, u)

Sealed(S) ==
  /\ due \in [Hosts -> SUBSET Nat]
  /\ \A h \in Hosts :
       /\ \A i \in Nat : S[h][i] # Torn => i \in 1..made[h]
       /\ \A p \in Coming(h) :
            /\ p.id <= made[Peer(h)]
            /\ p.id # 0 => p.id \in due[Peer(h)] /\ p.seal = S[Peer(h)][p.id]
            /\ p.id = 0 => p.seal = Torn \/ p.flag = "connection_terminate"
       /\ \A t \in Threads : At(h, t, "send") => op[h][t].id \in 1..made[h] /\ op[h][t].seal = S[h][op[h][t].id]
       /\ taken[h] <= made[Peer(h)]
       /\ At(h, "receive", "ended") => At(h, "send", "ended") /\ cipher[h].tx = Torn /\ cipher[h].rx = Torn

\* Who draws what is carried.
Origins ==
  \A h \in Hosts, u \in Secrets :
    /\ \A t \in Threads : Making(h, t, u) => u.by = h /\ u.thread = t
    /\ Adding(h, "send", u) => u.by = h /\ u.thread = "send"
    /\ Adding(h, "receive", u) /\ u.by = h => u.thread = "receive"
    /\ \A p \in Coming(h) : Carries(p, u) => u.by = Peer(h)

\* A key seals and opens position after position.
Ordered(S) ==
  \A h \in Hosts :
    /\ \A i, j \in Nat : i < j /\ S[h][i] # Torn /\ S[h][j] # Torn /\ S[h][i].key = S[h][j].key
                           => S[h][i].pos < S[h][j].pos
    /\ \A i \in Nat : cipher[h].tx # Torn /\ S[h][i] # Torn /\ S[h][i].key = cipher[h].tx.key
                        => S[h][i].pos < cipher[h].tx.pos
    /\ \A i \in Nat : cipher[h].rx # Torn /\ S[Peer(h)][i] # Torn /\ i <= taken[h] /\ S[Peer(h)][i].key = cipher[h].rx.key
                        => S[Peer(h)][i].pos < cipher[h].rx.pos

\* The next secret that a thread draws is new.
Counted(u) ==
  /\ u.thread = "send" => u.n < begun
  /\ u.thread = "receive" /\ ~At(u.by, "receive", "ended") =>
       u.n <= rxseq[u.by] /\ (At(u.by, "receive", "open") => u.n < rxseq[u.by])
Numbered(S) == \A u \in Secrets : Seen(S, u) => Counted(u)

\* A secret that has not been sent is nowhere else.
Unshared(S) ==
  \A h \in Hosts, t \in Threads, u \in Secrets :
    Making(h, t, u) => ~Keyed(S, h, u) /\ Unheard(S, Peer(h), u)

\* A host makes keys with a secret once, and has accepted nothing under them before.
NotYet(S) ==
  \A h \in Hosts, t \in Threads, u \in Secrets :
    Adding(h, t, u) =>
      /\ ~Keyed(S, h, u)
      /\ \A i \in Nat : MadeWith(S[Peer(h)][i], u) => taken[h] < i
      /\ op[h][t].at = "install" => LET c == op[h][t].chain IN c # <<>> /\ c[Len(c)] = u

\* One packet, or copies of it, carries a secret to h, and its sender made its
\* keys with it afterwards.
OnceEach(S) ==
  \A h \in Hosts, u \in Secrets : \A p \in Coming(h) :
    p.id # 0 /\ Carries(p, u) =>
      /\ \A i \in Nat : MadeWith(S[Peer(h)][i], u) => p.id < i
      /\ taken[h] < p.id => ~Keyed(S, h, u) /\ ~Adding(h, "receive", u)
      /\ \A q \in Coming(h) : q.id # 0 /\ Carries(q, u) => q.id = p.id

\* The other host has made its keys with u before h has: its receive thread,
\* which did that, can open nothing that would make it send.
Ahead ==
  \A h \in Hosts, u \in Secrets :
    Adding(h, "send", u) /\ MadeWith(cipher[Peer(h)].tx, u) =>
      /\ ~Busy(op[Peer(h)]["receive"])
      /\ cipher[Peer(h)].rx = Torn \/ MadeWith(cipher[Peer(h)].rx, u)

\* h has not got w, and can get it only from packet i or a later one.
Foreign(S, h, w, i) ==
  /\ ~(w.by = h /\ w.thread = "receive")
  /\ ~Keyed(S, h, w) /\ ~Adding(h, "receive", w)
  /\ \A p \in Coming(h) : p.id # 0 /\ Carries(p, w) => i <= p.id
Hidden(S, h, c, i) == c = Torn \/ \E w \in Secrets : MadeWith(c, w) /\ Foreign(S, h, w, i)

\* And once it has sealed packet i under them, h can open that and all later
\* packets neither now nor, after any of them, ever.
Dark(S) ==
  \A h \in Hosts, u \in Secrets, i \in Nat :
    Adding(h, "send", u) /\ MadeWith(S[Peer(h)][i], u) =>
      /\ \A j \in Nat : i <= j => Hidden(S, h, S[Peer(h)][j], i)
      /\ Hidden(S, h, cipher[Peer(h)].tx, i) /\ Hidden(S, h, cipher[Peer(h)].rx, i)
      /\ At(Peer(h), "send", "send") => i <= op[Peer(h)]["send"].id
      /\ \A w \in Secrets : Adding(Peer(h), "send", w) => Foreign(S, h, w, i)
      /\ ~Busy(op[Peer(h)]["receive"])

SealInv(S) ==
  /\ Sealed(S) /\ Origins /\ Ordered(S) /\ Numbered(S) /\ Unshared(S) /\ NotYet(S) /\ OnceEach(S)
  /\ Ahead /\ Dark(S)

StreamInv == \E S \in SealMaps : SealInv(S)

(* What is carried, and by whom *)

LEMMA InjectedType ==
  ASSUME NEW o, o \in Ops \/ o \in Packets, Rekeys(o)
  PROVE  Injected(o) \in Secrets
<1>1. o.flag \in {"symmetric_ratchet_request", "asymmetric_ratchet_response"} /\ BodyFits(o)
  BY DEF Rekeys, Ops, Packets
<1>2. CASE o.flag = "symmetric_ratchet_request"
  BY <1>1, <1>2 DEF Injected, BodyFits
<1>3. CASE o.flag = "asymmetric_ratchet_response"
  BY <1>1, <1>3 DEF Injected, BodyFits, Answer
<1> QED
  BY <1>1, <1>2, <1>3

LEMMA PacketIs ==
  ASSUME NEW o \in Ops
  PROVE  /\ Packet(o).flag = o.flag /\ Packet(o).body = o.body /\ Packet(o).seq = o.seq
         /\ Packet(o).seal = o.seal /\ Packet(o).id = o.id
         /\ \A u : Carries(Packet(o), u) <=> Carries(o, u)
         /\ o.at \notin {"idle", "ended"} => Packet(o) \in Packets
<1>1. /\ Packet(o).flag = o.flag /\ Packet(o).body = o.body /\ Packet(o).seq = o.seq
      /\ Packet(o).seal = o.seal /\ Packet(o).id = o.id
  BY DEF Packet
<1>2. \A u : Carries(Packet(o), u) <=> Carries(o, u)
  BY <1>1 DEF Carries, Rekeys, Injected
<1>3. o.at \notin {"idle", "ended"} => Packet(o) \in Packets
  BY DEF Packet, Packets, Ops, BodyFits
<1> QED
  BY <1>1, <1>2, <1>3

LEMMA SameCarries ==
  ASSUME NEW o, NEW p, o.flag = p.flag, o.body = p.body
  PROVE  \A u : Carries(o, u) <=> Carries(p, u)
BY DEF Carries, Rekeys, Injected

LEMMA ComingType ==
  ASSUME TypeInv, NEW h \in Hosts
  PROVE  Coming(h) \subseteq Packets
<1>1. wire[h] \in Seq(Packets) /\ op[h]["receive"] \in Ops
  BY ThreadsAre DEF TypeInv
<1>2. \A i \in DOMAIN wire[h] : wire[h][i] \in Packets
  BY <1>1, ElementOfSeq, LenProperties
<1>3. At(h, "receive", "open") => Packet(op[h]["receive"]) \in Packets
  BY <1>1, PacketIs DEF At
<1> QED
  BY <1>2, <1>3 DEF Coming

LEMMA ComingIs ==
  ASSUME NEW h
  PROVE  /\ At(h, "receive", "open") => Packet(op[h]["receive"]) \in Coming(h)
         /\ \A i \in DOMAIN wire[h] : wire[h][i] \in Coming(h)
         /\ \A p \in Coming(h) : \/ \E i \in DOMAIN wire[h] : p = wire[h][i]
                                 \/ At(h, "receive", "open") /\ p = Packet(op[h]["receive"])
BY DEF Coming

LEMMA MadeWithKey ==
  ASSUME NEW c, NEW d, NEW u, MadeWith(c, u), d # Torn, d.key = c.key
  PROVE  MadeWith(d, u)
BY DEF MadeWith

LEMMA MadeWithOnce ==
  ASSUME NEW c, NEW u, NEW w, MadeWith(c, u), MadeWith(c, w)
  PROVE  u = w
BY DEF MadeWith

-----------------------------------------------------------------------------
(* Steps that only let go: nothing is sealed, sent, opened or re-keyed *)

Harmless ==
  /\ made' = made
  /\ due' \in [Hosts -> SUBSET Nat] /\ taken' \in [Hosts -> Nat]
  /\ \A h \in Hosts :
       /\ cipher'[h].tx \in {cipher[h].tx, Torn} /\ cipher'[h].rx \in {cipher[h].rx, Torn}
       /\ \/ taken'[h] = taken[h]
          \/ /\ taken[h] <= taken'[h] /\ taken'[h] <= made[Peer(h)]
             /\ At(h, "receive", "ended")'
       /\ \A t \in Threads :
            /\ At(h, t, "send")' => op'[h][t] = op[h][t]
            /\ \A u \in Secrets : Adding(h, t, u)' => Adding(h, t, u)
            /\ At(h, t, "install")' => LET c == op'[h][t].chain IN c # <<>> /\ c[Len(c)] = Injected(op'[h][t])
       /\ Busy(op[h]["receive"])' => Busy(op[h]["receive"])
       /\ At(h, "receive", "ended")' => At(h, "send", "ended")' /\ cipher'[h].tx = Torn /\ cipher'[h].rx = Torn
       /\ \A p \in Coming(h)' :
            \/ p \in Coming(h) /\ (p.id # 0 => p.id \in due'[Peer(h)])
            \/ /\ p.id = 0 /\ (p.seal = Torn \/ p.flag = "connection_terminate")
               /\ \A u \in Secrets : Carries(p, u) => \E q \in Coming(h) : Carries(q, u)

\* Only what is new is drawn.
DrawsNew(S) ==
  \A h \in Hosts, t \in Threads, u \in Secrets :
    Making(h, t, u)' => Making(h, t, u) \/ (~Seen(S, u) /\ u.by = h /\ u.thread = t)

LEMMA HarmlessKeyed ==
  ASSUME NEW S \in SealMaps, Harmless, NEW h \in Hosts, NEW u, Keyed(S, h, u)'
  PROVE  Keyed(S, h, u)
BY DEF Harmless, Keyed, MadeWith

LEMMA HarmlessComing ==
  ASSUME Harmless, NEW h \in Hosts, NEW u \in Secrets, NEW p \in Coming(h)', Carries(p, u)
  PROVE  (\E q \in Coming(h) : Carries(q, u)) /\ (p.id # 0 => p \in Coming(h))
BY DEF Harmless

LEMMA HarmlessSeen ==
  ASSUME NEW S \in SealMaps, Harmless, DrawsNew(S), NEW u \in Secrets, Seen(S, u)'
  PROVE  Seen(S, u) \/ \E h \in Hosts, t \in Threads : Making(h, t, u)' /\ ~Making(h, t, u)
<1>1. PICK h \in Hosts :
        \/ Keyed(S, h, u)'
        \/ \E t \in Threads : Making(h, t, u)' \/ Adding(h, t, u)'
        \/ \E p \in Coming(h)' : Carries(p, u)
  BY DEF Seen
<1>2. CASE Keyed(S, h, u)'
  BY <1>2, HarmlessKeyed DEF Seen
<1>3. CASE \E t \in Threads : Making(h, t, u)' \/ Adding(h, t, u)'
  <2>1. PICK t \in Threads : Making(h, t, u)' \/ Adding(h, t, u)'
    BY <1>3
  <2>2. Adding(h, t, u)' => Adding(h, t, u)
    BY DEF Harmless
  <2> QED
    BY <2>1, <2>2 DEF Seen
<1>4. CASE \E p \in Coming(h)' : Carries(p, u)
  BY <1>4, HarmlessComing DEF Seen
<1> QED
  BY <1>1, <1>2, <1>3, <1>4

LEMMA HarmlessForeign ==
  ASSUME NEW S \in SealMaps, Harmless, NEW h \in Hosts, NEW w \in Secrets, NEW i \in Nat, Foreign(S, h, w, i)
  PROVE  Foreign(S, h, w, i)'
<1>1. ~Keyed(S, h, w)'
  BY HarmlessKeyed DEF Foreign
<1>2. ~Adding(h, "receive", w)'
  BY ThreadsAre DEF Foreign, Harmless
<1>3. \A p \in Coming(h)' : p.id # 0 /\ Carries(p, w) => i <= p.id
  BY HarmlessComing DEF Foreign
<1> QED
  BY <1>1, <1>2, <1>3 DEF Foreign

LEMMA HarmlessHidden ==
  ASSUME NEW S \in SealMaps, Harmless, NEW h \in Hosts, NEW i \in Nat, NEW c, Hidden(S, h, c, i),
         NEW d, d = c \/ d = Torn
  PROVE  d = Torn \/ \E w \in Secrets : MadeWith(d, w) /\ Foreign(S, h, w, i)'
BY HarmlessForeign DEF Hidden

LEMMA HarmlessKeeps ==
  ASSUME TypeInv, NEW S \in SealMaps, SealInv(S), Harmless, DrawsNew(S)
  PROVE  /\ Sealed(S)' /\ Origins' /\ Ordered(S)' /\ Unshared(S)' /\ NotYet(S)' /\ OnceEach(S)'
         /\ Ahead' /\ Dark(S)'
<1> USE DEF SealInv
<1>1. Sealed(S)'
  <2> SUFFICES ASSUME NEW h \in Hosts
               PROVE  /\ \A i \in Nat : S[h][i] # Torn => i \in 1..made[h]
                      /\ \A p \in Coming(h)' :
                           /\ p.id <= made[Peer(h)]
                           /\ p.id # 0 => p.id \in due'[Peer(h)] /\ p.seal = S[Peer(h)][p.id]
                           /\ p.id = 0 => p.seal = Torn \/ p.flag = "connection_terminate"
                      /\ \A t \in Threads : At(h, t, "send")' =>
                           op'[h][t].id \in 1..made[h] /\ op'[h][t].seal = S[h][op'[h][t].id]
                      /\ taken'[h] <= made[Peer(h)]
    BY DEF Sealed, Harmless
  <2>1. \A p \in Coming(h)' :
          /\ p.id <= made[Peer(h)]
          /\ p.id # 0 => p.id \in due'[Peer(h)] /\ p.seal = S[Peer(h)][p.id]
          /\ p.id = 0 => p.seal = Torn \/ p.flag = "connection_terminate"
    <3> SUFFICES ASSUME NEW p \in Coming(h)'
                 PROVE  /\ p.id <= made[Peer(h)]
                        /\ p.id # 0 => p.id \in due'[Peer(h)] /\ p.seal = S[Peer(h)][p.id]
                        /\ p.id = 0 => p.seal = Torn \/ p.flag = "connection_terminate"
      OBVIOUS
    <3>1. made[Peer(h)] \in Nat
      BY HostsAre DEF TypeInv
    <3>2. CASE p \in Coming(h) /\ (p.id # 0 => p.id \in due'[Peer(h)])
      BY <3>2 DEF Sealed
    <3>3. CASE p.id = 0 /\ (p.seal = Torn \/ p.flag = "connection_terminate")
      BY <3>1, <3>3
    <3> QED
      BY <3>2, <3>3 DEF Harmless
  <2>2. \A t \in Threads : At(h, t, "send")' =>
           op'[h][t].id \in 1..made[h] /\ op'[h][t].seal = S[h][op'[h][t].id]
    BY DEF Harmless, Sealed, At
  <2>3. taken'[h] <= made[Peer(h)]
    BY DEF Harmless, Sealed
  <2> QED
    BY <2>1, <2>2, <2>3 DEF Sealed
<1>2. Origins'
  <2> SUFFICES ASSUME NEW h \in Hosts, NEW u \in Secrets
               PROVE  /\ \A t \in Threads : Making(h, t, u)' => u.by = h /\ u.thread = t
                      /\ Adding(h, "send", u)' => u.by = h /\ u.thread = "send"
                      /\ Adding(h, "receive", u)' /\ u.by = h => u.thread = "receive"
                      /\ \A p \in Coming(h)' : Carries(p, u) => u.by = Peer(h)
    BY DEF Origins
  <2>1. \A t \in Threads : Making(h, t, u)' => u.by = h /\ u.thread = t
    BY DEF DrawsNew, Origins
  <2>2. \A t \in Threads : Adding(h, t, u)' => Adding(h, t, u)
    BY DEF Harmless
  <2>3. \A p \in Coming(h)' : Carries(p, u) => u.by = Peer(h)
    BY HarmlessComing DEF Origins
  <2> QED
    BY <2>1, <2>2, <2>3, ThreadsAre DEF Origins
<1>3. Ordered(S)'
  <2> SUFFICES ASSUME NEW h \in Hosts
               PROVE  /\ \A i, j \in Nat : i < j /\ S[h][i] # Torn /\ S[h][j] # Torn /\ S[h][i].key = S[h][j].key
                                             => S[h][i].pos < S[h][j].pos
                      /\ \A i \in Nat : cipher'[h].tx # Torn /\ S[h][i] # Torn /\ S[h][i].key = cipher'[h].tx.key
                                          => S[h][i].pos < cipher'[h].tx.pos
                      /\ \A i \in Nat : cipher'[h].rx # Torn /\ S[Peer(h)][i] # Torn /\ i <= taken'[h] /\ S[Peer(h)][i].key = cipher'[h].rx.key
                                          => S[Peer(h)][i].pos < cipher'[h].rx.pos
    BY DEF Ordered
  <2>1. cipher'[h].rx # Torn => taken'[h] = taken[h]
    BY DEF Harmless
  <2>2. cipher'[h].tx # Torn => cipher'[h].tx = cipher[h].tx
    BY DEF Harmless
  <2>3. cipher'[h].rx # Torn => cipher'[h].rx = cipher[h].rx
    BY DEF Harmless
  <2>4. \A i, j \in Nat : i < j /\ S[h][i] # Torn /\ S[h][j] # Torn /\ S[h][i].key = S[h][j].key
                           => S[h][i].pos < S[h][j].pos
    BY DEF Ordered
  <2>5. \A i \in Nat : cipher'[h].tx # Torn /\ S[h][i] # Torn /\ S[h][i].key = cipher'[h].tx.key
                        => S[h][i].pos < cipher'[h].tx.pos
    BY <2>2 DEF Ordered
  <2>6. \A i \in Nat : cipher'[h].rx # Torn /\ S[Peer(h)][i] # Torn /\ i <= taken'[h] /\ S[Peer(h)][i].key = cipher'[h].rx.key
                        => S[Peer(h)][i].pos < cipher'[h].rx.pos
    BY <2>1, <2>3 DEF Ordered
  <2> QED
    BY <2>4, <2>5, <2>6
<1>4. Unshared(S)'
  <2> SUFFICES ASSUME NEW h \in Hosts, NEW t \in Threads, NEW u \in Secrets, Making(h, t, u)'
               PROVE  ~Keyed(S, h, u)' /\ Unheard(S, Peer(h), u)'
    BY DEF Unshared
  <2>1. ~Keyed(S, h, u) /\ Unheard(S, Peer(h), u)
    BY HostsAre, ThreadsAre DEF DrawsNew, Unshared, Seen, Unheard
  <2>2. ~Keyed(S, h, u)' /\ ~Keyed(S, Peer(h), u)'
    BY <2>1, HostsAre, HarmlessKeyed DEF Unheard
  <2>3. ~Adding(Peer(h), "receive", u)'
    BY <2>1, HostsAre, ThreadsAre DEF Unheard, Harmless
  <2>4. \A p \in Coming(Peer(h))' : ~Carries(p, u)
    BY <2>1, HostsAre, HarmlessComing DEF Unheard
  <2> QED
    BY <2>2, <2>3, <2>4 DEF Unheard
<1>5. NotYet(S)'
  <2> SUFFICES ASSUME NEW h \in Hosts, NEW t \in Threads, NEW u \in Secrets, Adding(h, t, u)'
               PROVE  /\ ~Keyed(S, h, u)'
                      /\ \A i \in Nat : MadeWith(S[Peer(h)][i], u) => taken'[h] < i
                      /\ op'[h][t].at = "install" => LET c == op'[h][t].chain IN c # <<>> /\ c[Len(c)] = u
    BY DEF NotYet
  <2>1. Adding(h, t, u)
    BY DEF Harmless
  <2>2. ~Keyed(S, h, u)'
    BY <2>1, HarmlessKeyed DEF NotYet
  <2>3. taken'[h] = taken[h]
    BY ThreadsAre DEF Harmless, Adding, At, Threads
  <2>4. \A i \in Nat : MadeWith(S[Peer(h)][i], u) => taken'[h] < i
    BY <2>1, <2>3 DEF NotYet
  <2>5. op'[h][t].at = "install" => LET c == op'[h][t].chain IN c # <<>> /\ c[Len(c)] = u
    BY DEF Harmless, Adding, Carries, At
  <2> QED
    BY <2>2, <2>4, <2>5
<1>6. OnceEach(S)'
  <2> SUFFICES ASSUME NEW h \in Hosts, NEW u \in Secrets, NEW p \in Coming(h)', p.id # 0, Carries(p, u)
               PROVE  /\ \A i \in Nat : MadeWith(S[Peer(h)][i], u) => p.id < i
                      /\ taken'[h] < p.id => ~Keyed(S, h, u)' /\ ~Adding(h, "receive", u)'
                      /\ \A q \in Coming(h)' : q.id # 0 /\ Carries(q, u) => q.id = p.id
    BY DEF OnceEach
  <2>1. p \in Coming(h)
    BY HarmlessComing
  <2>2. p.id \in Nat /\ taken[h] \in Nat /\ made[Peer(h)] \in Nat
    BY <2>1, HostsAre, ComingType DEF Packets, TypeInv
  <2>3. taken'[h] < p.id => taken[h] < p.id
    <3>1. CASE taken'[h] = taken[h]
      BY <3>1
    <3>2. CASE taken'[h] # taken[h]
      <4>1. taken[h] <= taken'[h] /\ taken' \in [Hosts -> Nat]
        BY <3>2 DEF Harmless
      <4> QED
        BY <2>2, <4>1
    <3> QED
      BY <3>1, <3>2
  <2>4. taken'[h] < p.id => ~Keyed(S, h, u)' /\ ~Adding(h, "receive", u)'
    BY <2>1, <2>3, ThreadsAre, HarmlessKeyed DEF OnceEach, Harmless
  <2>5. \A q \in Coming(h)' : q.id # 0 /\ Carries(q, u) => q.id = p.id
    BY <2>1, HarmlessComing DEF OnceEach
  <2> QED
    BY <2>1, <2>4, <2>5 DEF OnceEach
<1>7. Ahead'
  <2> SUFFICES ASSUME NEW h \in Hosts, NEW u \in Secrets, Adding(h, "send", u)', MadeWith(cipher'[Peer(h)].tx, u)
               PROVE  /\ ~Busy(op'[Peer(h)]["receive"])
                      /\ cipher'[Peer(h)].rx = Torn \/ MadeWith(cipher'[Peer(h)].rx, u)
    BY DEF Ahead
  <2>1. Adding(h, "send", u) /\ MadeWith(cipher[Peer(h)].tx, u)
    BY HostsAre, ThreadsAre DEF Harmless, MadeWith
  <2> QED
    BY <2>1, HostsAre DEF Ahead, Harmless
<1>8. Dark(S)'
  <2> SUFFICES ASSUME NEW h \in Hosts, NEW u \in Secrets, NEW i \in Nat, Adding(h, "send", u)',
                      MadeWith(S[Peer(h)][i], u)
               PROVE  /\ \A j \in Nat : i <= j => Hidden(S, h, S[Peer(h)][j], i)'
                      /\ Hidden(S, h, cipher[Peer(h)].tx, i)' /\ Hidden(S, h, cipher[Peer(h)].rx, i)'
                      /\ At(Peer(h), "send", "send")' => i <= op'[Peer(h)]["send"].id
                      /\ \A w \in Secrets : Adding(Peer(h), "send", w)' => Foreign(S, h, w, i)'
                      /\ ~Busy(op'[Peer(h)]["receive"])
    BY DEF Dark
  <2>1. Adding(h, "send", u)
    BY ThreadsAre DEF Harmless
  <2>2. \A j \in Nat : i <= j => Hidden(S, h, S[Peer(h)][j], i)'
    BY <2>1, HarmlessHidden DEF Dark, Hidden
  <2>3. Hidden(S, h, cipher[Peer(h)].tx, i)' /\ Hidden(S, h, cipher[Peer(h)].rx, i)'
    <3>1. Hidden(S, h, cipher[Peer(h)].tx, i) /\ Hidden(S, h, cipher[Peer(h)].rx, i)
      BY <2>1 DEF Dark
    <3>2. /\ cipher'[Peer(h)].tx = cipher[Peer(h)].tx \/ cipher'[Peer(h)].tx = Torn
          /\ cipher'[Peer(h)].rx = cipher[Peer(h)].rx \/ cipher'[Peer(h)].rx = Torn
      BY HostsAre DEF Harmless
    <3> QED
      BY <3>1, <3>2, HarmlessHidden DEF Hidden
  <2>4. At(Peer(h), "send", "send")' => i <= op'[Peer(h)]["send"].id
    BY <2>1, HostsAre, ThreadsAre DEF Dark, Harmless, At
  <2>5. \A w \in Secrets : Adding(Peer(h), "send", w)' => Foreign(S, h, w, i)'
    BY <2>1, HostsAre, ThreadsAre, HarmlessForeign DEF Dark, Harmless
  <2>6. ~Busy(op'[Peer(h)]["receive"])
    BY <2>1, HostsAre DEF Dark, Harmless
  <2> QED
    BY <2>2, <2>3, <2>4, <2>5, <2>6
<1> QED
  BY <1>1, <1>2, <1>3, <1>4, <1>5, <1>6, <1>7, <1>8

\* The counters that the next secrets are named by only grow.
CountsOn ==
  /\ begun <= begun'
  /\ \A h \in Hosts : ~At(h, "receive", "ended")' =>
       /\ ~At(h, "receive", "ended") /\ rxseq[h] <= rxseq'[h]
       /\ At(h, "receive", "open")' => At(h, "receive", "open") \/ rxseq[h] < rxseq'[h]

LEMMA CountedStays ==
  ASSUME TypeInv, TypeInv', CountsOn, NEW u \in Secrets, Counted(u)
  PROVE  Counted(u)'
<1>1. u.by \in Hosts /\ u.n \in Nat /\ begun \in Nat /\ begun' \in Nat
  BY BoundAssumption DEF Secrets, TypeInv
<1>2. rxseq[u.by] \in Nat /\ rxseq'[u.by] \in Nat
  BY <1>1 DEF TypeInv
<1>3. u.thread = "send" => u.n < begun'
  BY <1>1 DEF Counted, CountsOn
<1>4. ASSUME u.thread = "receive", ~At(u.by, "receive", "ended")'
      PROVE  u.n <= rxseq'[u.by] /\ (At(u.by, "receive", "open")' => u.n < rxseq'[u.by])
  <2>1. /\ ~At(u.by, "receive", "ended") /\ rxseq[u.by] <= rxseq'[u.by]
        /\ At(u.by, "receive", "open")' => At(u.by, "receive", "open") \/ rxseq[u.by] < rxseq'[u.by]
    BY <1>1, <1>4 DEF CountsOn
  <2>2. u.n <= rxseq[u.by] /\ (At(u.by, "receive", "open") => u.n < rxseq[u.by])
    BY <1>4, <2>1 DEF Counted
  <2> QED
    BY <1>1, <1>2, <2>1, <2>2
<1> QED
  BY <1>3, <1>4 DEF Counted

LEMMA HarmlessInv ==
  ASSUME TypeInv, TypeInv', NEW S \in SealMaps, SealInv(S), Harmless, DrawsNew(S), CountsOn,
         \A h \in Hosts, t \in Threads, u \in Secrets : Making(h, t, u)' => Making(h, t, u) \/ Counted(u)'
  PROVE  SealInv(S)'
<1>1. Numbered(S)'
  <2> SUFFICES ASSUME NEW u \in Secrets, Seen(S, u)' PROVE Counted(u)'
    BY DEF Numbered
  <2>1. CASE Seen(S, u)
    BY <2>1, CountedStays DEF SealInv, Numbered
  <2>2. CASE ~Seen(S, u)
    BY <2>2, HarmlessSeen
  <2> QED
    BY <2>1, <2>2
<1> QED
  BY <1>1, HarmlessKeeps DEF SealInv

LEMMA ChainAdded ==
  ASSUME TypeInv, NEW S \in SealMaps, SealInv(S), NEW h \in Hosts, NEW t \in Threads, op[h][t].at = "install"
  PROVE  LET c == op[h][t].chain IN c # <<>> /\ c[Len(c)] = Injected(op[h][t])
<1>1. Rekeys(op[h][t]) /\ Injected(op[h][t]) \in Secrets
  BY KeyingRekeys DEF Keying
<1>2. Adding(h, t, Injected(op[h][t]))
  BY <1>1 DEF Adding, Carries
<1> QED
  BY <1>1, <1>2 DEF SealInv, NotYet

\* One thread goes on, and nothing but its own place and counters change.
LEMMA ThreadGoesOn ==
  ASSUME TypeInv, TypeInv', NEW S \in SealMaps, SealInv(S),
         NEW h \in Hosts, NEW t \in Threads, NEW o \in Ops, Become(h, t, o),
         cipher' = cipher, wire' = wire, rxseq' = rxseq, made' = made, taken' = taken, due' = due, begun <= begun',
         o.at \notin {"send", "open", "ended"}, op[h][t].at \notin {"open", "ended"},
         t = "receive" /\ Busy(o) => Busy(op[h][t]),
         \A u \in Secrets : o.at \in {"derive", "install"} /\ Carries(o, u) => Adding(h, t, u),
         o.at = "install" => LET c == o.chain IN c # <<>> /\ c[Len(c)] = Injected(o),
         \A u \in Secrets : o.at \in Sending /\ Carries(o, u) =>
           Making(h, t, u) \/ (~Seen(S, u) /\ u.by = h /\ u.thread = t /\ Counted(u)')
  PROVE  SealInv(S)'
<1>1. op'[h][t] = o /\ \A x \in Hosts, y \in Threads : x # h \/ y # t => op'[x][y] = op[x][y]
  BY BecomeIs DEF TypeInv
<1>2. \A x \in Hosts : /\ At(x, "receive", "open")' => At(x, "receive", "open") /\ op'[x]["receive"] = op[x]["receive"]
                       /\ At(x, "receive", "ended")' = At(x, "receive", "ended")
                       /\ At(x, "send", "ended") => At(x, "send", "ended")'
  BY <1>1, ThreadsAre DEF At
<1>3. \A x \in Hosts, y \in Threads, u \in Secrets :
        /\ Adding(x, y, u)' => Adding(x, y, u)
        /\ Making(x, y, u)' => Making(x, y, u) \/ (~Seen(S, u) /\ u.by = x /\ u.thread = y /\ Counted(u)')
  BY <1>1 DEF Adding, Making
<1>4. \A x \in Hosts : \A p \in Coming(x)' : p \in Coming(x)
  BY <1>2 DEF Coming
<1>5. \A x \in Hosts, y \in Threads :
        /\ At(x, y, "send")' => op'[x][y] = op[x][y]
        /\ At(x, y, "install")' => LET c == op'[x][y].chain IN c # <<>> /\ c[Len(c)] = Injected(op'[x][y])
  <2> SUFFICES ASSUME NEW x \in Hosts, NEW y \in Threads
               PROVE  /\ At(x, y, "send")' => op'[x][y] = op[x][y]
                      /\ At(x, y, "install")' => LET c == op'[x][y].chain IN c # <<>> /\ c[Len(c)] = Injected(op'[x][y])
    OBVIOUS
  <2>1. CASE x = h /\ y = t
    BY <1>1, <2>1 DEF At
  <2>2. CASE x # h \/ y # t
    <3>1. op'[x][y] = op[x][y]
      BY <1>1, <2>2
    <3> QED
      BY <3>1, ChainAdded DEF At
  <2> QED
    BY <2>1, <2>2
<1>6. \A x \in Hosts : Busy(op'[x]["receive"]) => Busy(op[x]["receive"])
  BY <1>1, ThreadsAre
<1>7. Harmless
  <2>1. due' \in [Hosts -> SUBSET Nat] /\ taken' \in [Hosts -> Nat]
    BY DEF SealInv, Sealed, TypeInv
  <2>2. \A x \in Hosts : At(x, "receive", "ended")' => At(x, "send", "ended")' /\ cipher'[x].tx = Torn /\ cipher'[x].rx = Torn
    BY <1>2 DEF SealInv, Sealed
  <2>3. \A x \in Hosts : \A p \in Coming(x)' : p \in Coming(x) /\ (p.id # 0 => p.id \in due'[Peer(x)])
    BY <1>4 DEF SealInv, Sealed
  <2> QED
    BY <1>3, <1>5, <1>6, <2>1, <2>2, <2>3 DEF Harmless
<1>8. DrawsNew(S)
  BY <1>3 DEF DrawsNew
<1>9. CountsOn
  <2>1. \A x \in Hosts : rxseq[x] <= rxseq'[x]
    BY DEF TypeInv
  <2> QED
    BY <1>2, <2>1 DEF CountsOn
<1> QED
  BY <1>3, <1>7, <1>8, <1>9, HarmlessInv

LEMMA CountingIs ==
  ASSUME TypeInv, NEW h \in Hosts, NEW flag \in RatchetFlags \cup {"encrypted_message"}, NEW body \in Bodies,
         flag \in {"symmetric_ratchet_request", "asymmetric_ratchet_request"} => body \in Secrets,
         flag # "asymmetric_ratchet_response"
  PROVE  \A u : Carries(Counting(h, flag, body), u) => flag = "symmetric_ratchet_request" /\ body = u
BY CountingType DEF Carries, Rekeys, Injected

LEMMA BeginStream ==
  ASSUME TypeInv, TypeInv', NEW S \in SealMaps, SealInv(S), NEW h \in Hosts,
         NEW flag \in RatchetFlags \cup {"encrypted_message"}, NEW body \in Bodies,
         flag \in {"symmetric_ratchet_request", "asymmetric_ratchet_request"} => body = Drawn(h, "send", begun),
         flag # "asymmetric_ratchet_response", Begin(h, flag, body)
  PROVE  SealInv(S)'
<1>1. begun \in Nat /\ begun' = begun + 1
  BY DEF Begin, TypeInv
<1>2. flag \in {"symmetric_ratchet_request", "asymmetric_ratchet_request"} => body \in Secrets
  BY <1>1, DrawnType, ThreadsAre
<1>3. Counting(h, flag, body) \in Ops /\ Counting(h, flag, body).at = "count"
  BY <1>2, CountingType
<1>4. ASSUME NEW u \in Secrets, Carries(Counting(h, flag, body), u)
      PROVE  ~Seen(S, u) /\ u.by = h /\ u.thread = "send" /\ Counted(u)'
  <2>1. u = Drawn(h, "send", begun)
    BY <1>2, <1>4, CountingIs
  <2>2. u.by = h /\ u.thread = "send" /\ u.n = begun
    BY <2>1 DEF Drawn
  <2>3. ~Seen(S, u)
    BY <1>1, <2>2 DEF SealInv, Numbered, Counted
  <2>4. Counted(u)'
    BY <1>1, <2>2 DEF Counted
  <2> QED
    BY <2>2, <2>3, <2>4
<1>5. op[h]["send"].at = "idle"
  BY DEF Begin, At
<1>6. /\ Become(h, "send", Counting(h, flag, body)) /\ cipher' = cipher /\ wire' = wire /\ rxseq' = rxseq
      /\ made' = made /\ taken' = taken /\ due' = due /\ begun <= begun'
  BY <1>1 DEF Begin, stateVars, netVars
<1>7. PICK o \in Ops : o = Counting(h, flag, body)
  BY <1>3
<1> QED
  BY <1>3, <1>4, <1>5, <1>6, <1>7, ThreadsAre, ThreadGoesOn

LEMMA IdleCarries == Idle.at = "idle" /\ \A u : ~Carries(Idle, u)
BY DEF Idle, Carries, Rekeys

LEMMA ThreadStream ==
  ASSUME TypeInv, TypeInv', NEW S \in SealMaps, SealInv(S), NEW h \in Hosts, NEW t \in Threads,
         \/ CountPacket(h, t) \/ NumberPacket(h, t) \/ DeriveKeys(h, t) \/ KeepChain(h, t)
         \/ SendFails(h, t) /\ op[h][t].flag # "asymmetric_ratchet_response"
  PROVE  SealInv(S)'
<1> USE DEF stateVars, netVars, historyVars
<1>1. PICK a \in Ops : a = op[h][t]
  BY DEF TypeInv
<1>2. begun <= begun'
  BY DEF CountPacket, NumberPacket, DeriveKeys, KeepChain, SendFails, TypeInv
<1>3. ASSUME NEW o, Become(h, t, o) PROVE o \in Ops
  <2>1. op'[h][t] = o
    BY <1>3, BecomeOnly
  <2>2. op'[h][t] \in Ops
    BY DEF TypeInv
  <2> QED
    BY <2>1, <2>2
<1>4. CASE CountPacket(h, t)
  <2>1. PICK o : o = [a EXCEPT !.at = "number"]
    OBVIOUS
  <2>2. Become(h, t, o) /\ a.at = "count"
    BY <1>1, <1>4, <2>1, GoIs DEF CountPacket, At, TypeInv
  <2>3. o \in Ops /\ o.at = "number" /\ o.flag = a.flag /\ o.body = a.body
    BY <1>3, <2>1, <2>2 DEF Ops
  <2>4. \A u : Carries(o, u) => Making(h, t, u)
    BY <1>1, <2>2, <2>3, SameCarries DEF Making, Sending
  <2>5. Busy(a)
    BY <2>2 DEF Busy, Sending
  <2> QED
    BY <1>1, <1>2, <1>4, <2>2, <2>3, <2>4, <2>5, ThreadGoesOn DEF CountPacket
<1>5. CASE NumberPacket(h, t)
  <2>1. PICK o : o = [a EXCEPT !.at = "seal", !.seq = txseq[h]]
    OBVIOUS
  <2>2. Become(h, t, o) /\ a.at = "number"
    BY <1>1, <1>5, <2>1 DEF NumberPacket, At
  <2>3. o \in Ops /\ o.at = "seal" /\ o.flag = a.flag /\ o.body = a.body
    BY <1>3, <2>1, <2>2 DEF Ops
  <2>4. \A u : Carries(o, u) => Making(h, t, u)
    BY <1>1, <2>2, <2>3, SameCarries DEF Making, Sending
  <2>5. Busy(a)
    BY <2>2 DEF Busy, Sending
  <2> QED
    BY <1>1, <1>2, <1>5, <2>2, <2>3, <2>4, <2>5, ThreadGoesOn DEF NumberPacket
<1>6. CASE DeriveKeys(h, t)
  <2>1. PICK o : o = [a EXCEPT !.at = "install", !.chain = Append(rtcs[h], Injected(a))]
    OBVIOUS
  <2>2. Become(h, t, o) /\ a.at = "derive"
    BY <1>1, <1>6, <2>1 DEF DeriveKeys, At
  <2>3. o \in Ops /\ o.at = "install" /\ o.flag = a.flag /\ o.body = a.body /\ o.chain = Append(rtcs[h], Injected(a))
    BY <1>3, <2>1, <2>2 DEF Ops
  <2>4. \A u : Carries(o, u) => Adding(h, t, u)
    BY <1>1, <2>2, <2>3, SameCarries DEF Adding
  <2>5. Busy(a)
    BY <2>2 DEF Busy
  <2>6. o.chain # <<>> /\ o.chain[Len(o.chain)] = Injected(o)
    <3>1. Injected(o) = Injected(a)
      BY <2>3 DEF Injected
    <3>2. Injected(a) \in Secrets /\ rtcs[h] \in Seq(Secrets)
      BY <1>1, <2>2, KeyingRekeys DEF Keying, TypeInv
    <3>3. PICK s : s = Injected(a)
      OBVIOUS
    <3>4. Append(rtcs[h], s) # <<>> /\ Append(rtcs[h], s)[Len(Append(rtcs[h], s))] = s
      BY <3>2, <3>3, AppendProperties
    <3> QED
      BY <2>3, <3>1, <3>3, <3>4
  <2>7. LET c == o.chain IN c # <<>> /\ c[Len(c)] = Injected(o)
    BY <2>6
  <2> QED
    BY <1>1, <1>2, <1>6, <2>2, <2>3, <2>4, <2>5, <2>7, ThreadGoesOn DEF DeriveKeys, Sending
<1>7. CASE KeepChain(h, t) \/ (SendFails(h, t) /\ op[h][t].flag # "asymmetric_ratchet_response")
  <2>1. Become(h, t, Idle) /\ a.at \in {"keep", "send"}
    BY <1>1, <1>7 DEF KeepChain, SendFails, At
  <2>2. Idle \in Ops /\ ~Busy(Idle)
    BY IdleType, IdleCarries DEF Busy, Sending
  <2> QED
    BY <1>1, <1>2, <1>7, <2>1, <2>2, IdleCarries, ThreadGoesOn DEF KeepChain, SendFails
<1> QED
  BY <1>4, <1>5, <1>6, <1>7

\* What is dropped, and what tells a host that the other has closed, brings nothing.
LEMMA ComingAfter ==
  ASSUME TypeInv, NEW h \in Hosts, wire' = wire \/ wire' = [wire EXCEPT ![h] = <<>>] \/ wire' = AfterClose(h, wire),
         \A x \in Hosts : At(x, "receive", "open")' => At(x, "receive", "open") /\ op'[x]["receive"] = op[x]["receive"]
  PROVE  \A x \in Hosts : \A p \in Coming(x)' : p \in Coming(x) \/ p = Terminate
<1> SUFFICES ASSUME NEW x \in Hosts, NEW p \in Coming(x)' PROVE p \in Coming(x) \/ p = Terminate
  OBVIOUS
<1>1. CASE At(x, "receive", "open")' /\ p = Packet(op'[x]["receive"])
  BY <1>1, ComingIs
<1>2. CASE \E i \in DOMAIN wire'[x] : p = wire'[x][i]
  <2>1. PICK i \in DOMAIN wire'[x] : p = wire'[x][i]
    BY <1>2
  <2>2. wire \in [Hosts -> Seq(Packets)] /\ wire[x] \in Seq(Packets)
    BY DEF TypeInv
  <2>3. wire'[x] \in {wire[x], <<>>, Append(wire[x], Terminate)}
    BY <2>2, PeerIs DEF AfterClose
  <2>4. CASE wire'[x] = wire[x]
    BY <2>1, <2>4, ComingIs
  <2>5. CASE wire'[x] = <<>>
    BY <2>1, <2>5
  <2>6. CASE wire'[x] = Append(wire[x], Terminate)
    <3>1. i \in 1..(Len(wire[x]) + 1) /\ Len(wire[x]) \in Nat
      BY <2>1, <2>2, <2>6, NextIs, TerminateType, Places1ToLen
    <3>2. CASE i = Len(wire[x]) + 1
      BY <2>1, <2>2, <2>6, <3>2, NextIs, TerminateType
    <3>3. CASE i \in 1..Len(wire[x])
      BY <2>1, <2>2, <2>6, <3>3, NextIs, TerminateType, Places1ToLen, ComingIs
    <3> QED
      BY <3>1, <3>2, <3>3
  <2> QED
    BY <2>3, <2>4, <2>5, <2>6
<1> QED
  BY <1>1, <1>2 DEF Coming

LEMMA TerminateCarries == Terminate.id = 0 /\ Terminate.flag = "connection_terminate" /\ \A u : ~Carries(Terminate, u)
BY DEF Terminate, Carries, Rekeys

LEMMA LeaveIs ==
  ASSUME TypeInv, NEW h \in Hosts, Leave(h)
  PROVE  /\ \A t \in Threads : op'[h][t].at = "ended"
         /\ cipher'[h].tx = Torn /\ cipher'[h].rx = Torn
         /\ \A x \in Hosts : x # h => op'[x] = op[x] /\ cipher'[x] = cipher[x] /\ rxseq'[x] = rxseq[x]
BY DEF Leave, TypeInv, Idle

LEMMA LeaveStream ==
  ASSUME TypeInv, TypeInv', NEW S \in SealMaps, SealInv(S), NEW h \in Hosts, Leave(h),
         wire' = wire \/ wire' = [wire EXCEPT ![h] = <<>>] \/ wire' = AfterClose(h, wire),
         made' = made, due' = due, begun' = begun,
         NEW n \in Nat, taken' = [taken EXCEPT ![h] = n], taken[h] <= n, n <= made[Peer(h)]
  PROVE  SealInv(S)'
<1>1. \A x \in Hosts : /\ x = h => At(x, "receive", "ended")' /\ At(x, "send", "ended")'
                       /\ \A t \in Threads : op'[x][t] = op[x][t] \/ op'[x][t].at = "ended"
                       /\ ~At(x, "receive", "ended")' => x # h /\ op'[x] = op[x]
  BY LeaveIs, ThreadsAre DEF At
<1>2. \A x \in Hosts : \A p \in Coming(x)' : p \in Coming(x) \/ p = Terminate
  <2>1. \A x \in Hosts : At(x, "receive", "open")' => At(x, "receive", "open") /\ op'[x]["receive"] = op[x]["receive"]
    BY <1>1, ThreadsAre DEF At
  <2> QED
    BY <2>1, ComingAfter
<1>3. \A x \in Hosts, t \in Threads :
        /\ At(x, t, "send")' => op'[x][t] = op[x][t]
        /\ At(x, t, "install")' => At(x, t, "install") /\ op'[x][t] = op[x][t]
        /\ \A u \in Secrets : (Adding(x, t, u)' => Adding(x, t, u)) /\ (Making(x, t, u)' => Making(x, t, u))
  BY <1>1 DEF At, Adding, Making, Sending
<1>4. Harmless
  <2>1. due' \in [Hosts -> SUBSET Nat] /\ taken' \in [Hosts -> Nat]
    BY DEF SealInv, Sealed, TypeInv
  <2>2. \A x \in Hosts : /\ cipher'[x].tx \in {cipher[x].tx, Torn} /\ cipher'[x].rx \in {cipher[x].rx, Torn}
                         /\ At(x, "receive", "ended")' => At(x, "send", "ended")' /\ cipher'[x].tx = Torn /\ cipher'[x].rx = Torn
    BY LeaveIs, ThreadsAre DEF SealInv, Sealed, At
  <2>3. \A x \in Hosts : \/ taken'[x] = taken[x]
                         \/ /\ taken[x] <= taken'[x] /\ taken'[x] <= made[Peer(x)]
                            /\ At(x, "receive", "ended")'
    BY <1>1 DEF TypeInv
  <2>4. \A x \in Hosts : Busy(op'[x]["receive"]) => Busy(op[x]["receive"])
    BY <1>1, ThreadsAre DEF Busy, Sending
  <2>5. \A x \in Hosts : \A p \in Coming(x)' :
          \/ p \in Coming(x) /\ (p.id # 0 => p.id \in due'[Peer(x)])
          \/ p.id = 0 /\ p.flag = "connection_terminate" /\ \A u \in Secrets : ~Carries(p, u)
    BY <1>2, TerminateCarries DEF SealInv, Sealed
  <2>6. \A x \in Hosts, t \in Threads :
          At(x, t, "install")' => LET c == op'[x][t].chain IN c # <<>> /\ c[Len(c)] = Injected(op'[x][t])
    <3> SUFFICES ASSUME NEW x \in Hosts, NEW t \in Threads, At(x, t, "install")'
                 PROVE  LET c == op'[x][t].chain IN c # <<>> /\ c[Len(c)] = Injected(op'[x][t])
      OBVIOUS
    <3>1. op[x][t].at = "install" /\ op'[x][t] = op[x][t]
      BY <1>3 DEF At
    <3> QED
      BY <3>1, ChainAdded
  <2> QED
    BY <1>3, <2>1, <2>2, <2>3, <2>4, <2>5, <2>6 DEF Harmless
<1>5. DrawsNew(S) /\ \A x \in Hosts, t \in Threads, u \in Secrets : Making(x, t, u)' => Making(x, t, u)
  BY <1>3 DEF DrawsNew
<1>6. CountsOn
  <2>1. begun <= begun' /\ \A x \in Hosts : x # h => rxseq[x] <= rxseq'[x]
    <3>1. begun \in Nat /\ \A x \in Hosts : rxseq[x] \in Nat
      BY BoundAssumption DEF TypeInv
    <3>2. \A x \in Hosts : x # h => rxseq'[x] = rxseq[x]
      BY LeaveIs
    <3> QED
      BY <3>1, <3>2
  <2>2. \A x \in Hosts : ~At(x, "receive", "ended")' =>
          /\ ~At(x, "receive", "ended") /\ x # h
          /\ At(x, "receive", "open")' => At(x, "receive", "open")
    BY <1>1 DEF At
  <2> QED
    BY <2>1, <2>2 DEF CountsOn
<1> QED
  BY <1>4, <1>5, <1>6, HarmlessInv

\* The application closes the session.
LEMMA QuitStream ==
  ASSUME TypeInv, TypeInv', NEW S \in SealMaps, SealInv(S), NEW h \in Hosts, Quit(h)
  PROVE  SealInv(S)'
<1>1. /\ cipher' = cipher /\ rxseq' = rxseq /\ begun' = begun /\ made' = made /\ taken' = taken /\ due' = due
      /\ wire' = AfterClose(h, wire)
  BY DEF Quit, stateVars, historyVars
<1>2. /\ op'[h]["send"].at = "ended"
      /\ \A x \in Hosts, y \in Threads : x # h \/ y # "send" => op'[x][y] = op[x][y]
  <2>1. PICK o : o = [op[h]["send"] EXCEPT !.at = "ended"]
    OBVIOUS
  <2>2. Become(h, "send", o) /\ op[h]["send"] \in Ops
    BY <2>1, ThreadsAre, GoIs DEF Quit, TypeInv
  <2>3. o.at = "ended"
    BY <2>1, <2>2 DEF Ops
  <2> QED
    BY <2>2, <2>3, ThreadsAre, BecomeOnly DEF OnlyThread
<1>3. \A x \in Hosts : op'[x]["receive"] = op[x]["receive"]
  BY <1>2, ThreadsAre
<1>4. \A x \in Hosts : \A p \in Coming(x)' : p \in Coming(x) \/ p = Terminate
  BY <1>1, <1>3, ComingAfter DEF At
<1>5. \A x \in Hosts, t \in Threads :
        /\ At(x, t, "send")' => op'[x][t] = op[x][t]
        /\ At(x, t, "install")' => op[x][t].at = "install" /\ op'[x][t] = op[x][t]
        /\ \A u \in Secrets : (Adding(x, t, u)' => Adding(x, t, u)) /\ (Making(x, t, u)' => Making(x, t, u))
  BY <1>2 DEF At, Adding, Making, Sending
<1>6. Harmless
  <2>1. due' \in [Hosts -> SUBSET Nat] /\ taken' \in [Hosts -> Nat]
    BY <1>1 DEF SealInv, Sealed, TypeInv
  <2>2. \A x \in Hosts : At(x, "receive", "ended")' => At(x, "send", "ended")' /\ cipher'[x].tx = Torn /\ cipher'[x].rx = Torn
    BY <1>1, <1>2, <1>3, ThreadsAre DEF SealInv, Sealed, At
  <2>3. \A x \in Hosts : \A p \in Coming(x)' :
          \/ p \in Coming(x) /\ (p.id # 0 => p.id \in due'[Peer(x)])
          \/ p.id = 0 /\ p.flag = "connection_terminate" /\ \A u \in Secrets : ~Carries(p, u)
    BY <1>1, <1>4, TerminateCarries DEF SealInv, Sealed
  <2>4. \A x \in Hosts, t \in Threads :
          At(x, t, "install")' => LET c == op'[x][t].chain IN c # <<>> /\ c[Len(c)] = Injected(op'[x][t])
    BY <1>5, ChainAdded
  <2> QED
    BY <1>1, <1>3, <1>5, <2>1, <2>2, <2>3, <2>4 DEF Harmless
<1>7. DrawsNew(S) /\ \A x \in Hosts, t \in Threads, u \in Secrets : Making(x, t, u)' => Making(x, t, u)
  BY <1>5 DEF DrawsNew
<1>8. CountsOn
  <2>1. begun \in Nat /\ \A x \in Hosts : rxseq[x] \in Nat
    BY BoundAssumption DEF TypeInv
  <2> QED
    BY <1>1, <1>3, <2>1 DEF CountsOn, At
<1> QED
  BY <1>6, <1>7, <1>8, HarmlessInv

\* The receive loop takes a packet off the socket.
LEMMA TakeStream ==
  ASSUME TypeInv, TypeInv', NEW S \in SealMaps, SealInv(S), NEW h \in Hosts, TakePacket(h), ~Fail(h)
  PROVE  SealInv(S)'
<1>1. PICK p : p = Head(wire[h])
  OBVIOUS
<1>2. wire[h] \in Seq(Packets) /\ wire[h] # <<>> /\ p \in Packets /\ op[h]["receive"].at = "idle"
  BY <1>1, RestType DEF TakePacket, At, TypeInv
<1>3. PICK o : o = [flag |-> p.flag, body |-> p.body, seq |-> p.seq, seal |-> p.seal, id |-> p.id,
                    at |-> "open", chain |-> <<>>]
  OBVIOUS
<1>4. /\ Become(h, "receive", o) /\ wire' = Rest(h) /\ rxseq' = [rxseq EXCEPT ![h] = @ + 1]
      /\ cipher' = cipher /\ begun' = begun /\ made' = made /\ taken' = taken /\ due' = due
  BY <1>1, <1>3 DEF TakePacket, historyVars
<1>5. o.at = "open" /\ Packet(o) = p
  BY <1>2, <1>3 DEF Packet, Packets
<1>6. /\ op'[h]["receive"] = o
      /\ \A x \in Hosts, y \in Threads : x # h \/ y # "receive" => op'[x][y] = op[x][y]
  BY <1>4, ThreadsAre, BecomeOnly DEF OnlyThread
<1>7. \A x \in Hosts : \A q \in Coming(x)' : q \in Coming(x)
  <2> SUFFICES ASSUME NEW x \in Hosts, NEW q \in Coming(x)' PROVE q \in Coming(x)
    OBVIOUS
  <2>1. CASE x # h
    <3>1. wire'[x] = wire[x] /\ op'[x]["receive"] = op[x]["receive"]
      BY <1>4, <1>6, <2>1, ThreadsAre DEF Rest, TypeInv
    <3> QED
      BY <3>1 DEF Coming, At
  <2>2. CASE x = h
    <3>1. 1 \in DOMAIN wire[h] /\ p = wire[h][1]
      BY <1>1, <1>2, TailIs, Places1ToLen
    <3>2. wire'[h] = Tail(wire[h])
      BY <1>4 DEF Rest, TypeInv
    <3>3. \A i \in DOMAIN Tail(wire[h]) : i + 1 \in DOMAIN wire[h] /\ Tail(wire[h])[i] = wire[h][i + 1]
      BY <1>2, TailIs, Places1ToLen
    <3> QED
      BY <1>5, <1>6, <2>2, <3>1, <3>2, <3>3 DEF Coming
  <2> QED
    BY <2>1, <2>2
<1>8. \A x \in Hosts, t \in Threads :
        /\ At(x, t, "send")' => op'[x][t] = op[x][t]
        /\ At(x, t, "install")' => op[x][t].at = "install" /\ op'[x][t] = op[x][t]
        /\ \A u \in Secrets : (Adding(x, t, u)' => Adding(x, t, u)) /\ (Making(x, t, u)' => Making(x, t, u))
  BY <1>5, <1>6 DEF At, Adding, Making, Sending
<1>9. \A x \in Hosts : /\ At(x, "receive", "ended")' => At(x, "receive", "ended")
                       /\ At(x, "receive", "ended") => At(x, "receive", "ended")'
                       /\ At(x, "send", "ended") => At(x, "send", "ended")'
                       /\ Busy(op'[x]["receive"]) => Busy(op[x]["receive"])
  BY <1>2, <1>5, <1>6, ThreadsAre DEF At, Busy, Sending
<1>10. Harmless
  <2>1. due' \in [Hosts -> SUBSET Nat] /\ taken' \in [Hosts -> Nat]
    BY <1>4 DEF SealInv, Sealed, TypeInv
  <2>2. \A x \in Hosts : At(x, "receive", "ended")' => At(x, "send", "ended")' /\ cipher'[x].tx = Torn /\ cipher'[x].rx = Torn
    BY <1>4, <1>9 DEF SealInv, Sealed
  <2>3. \A x \in Hosts : \A q \in Coming(x)' : q \in Coming(x) /\ (q.id # 0 => q.id \in due'[Peer(x)])
    BY <1>4, <1>7 DEF SealInv, Sealed
  <2>4. \A x \in Hosts, t \in Threads :
          At(x, t, "install")' => LET c == op'[x][t].chain IN c # <<>> /\ c[Len(c)] = Injected(op'[x][t])
    BY <1>8, ChainAdded
  <2> QED
    BY <1>4, <1>8, <1>9, <2>1, <2>2, <2>3, <2>4 DEF Harmless
<1>11. DrawsNew(S) /\ \A x \in Hosts, t \in Threads, u \in Secrets : Making(x, t, u)' => Making(x, t, u)
  BY <1>8 DEF DrawsNew
<1>12. CountsOn
  <2>1. begun \in Nat /\ \A x \in Hosts : rxseq[x] \in Nat
    BY BoundAssumption DEF TypeInv
  <2>2. rxseq'[h] = rxseq[h] + 1 /\ \A x \in Hosts : x # h => rxseq'[x] = rxseq[x] /\ op'[x]["receive"] = op[x]["receive"]
    BY <1>4, <1>6, ThreadsAre DEF TypeInv
  <2>3. \A x \in Hosts : rxseq[x] <= rxseq'[x] /\ (x # h \/ rxseq[x] < rxseq'[x])
    BY <2>1, <2>2
  <2> QED
    BY <1>4, <1>9, <2>1, <2>2, <2>3 DEF CountsOn, At
<1> QED
  BY <1>10, <1>11, <1>12, HarmlessInv

\* What the network leaves of the packets on their way to h.
LEMMA DisturbStream ==
  ASSUME TypeInv, TypeInv', NEW S \in SealMaps, SealInv(S), NEW h \in Hosts, NEW w \in Seq(Packets), NEW gone,
         Disturb(h, w, gone),
         \A j \in DOMAIN w : \/ \E i \in DOMAIN wire[h] : w[j] = wire[h][i]
                             \/ /\ w[j].id = 0 /\ w[j].seal = Torn
                                /\ \E i \in DOMAIN wire[h] : w[j].flag = wire[h][i].flag /\ w[j].body = wire[h][i].body
  PROVE  SealInv(S)'
<1>1. /\ op' = op /\ cipher' = cipher /\ rxseq' = rxseq /\ begun' = begun /\ made' = made /\ taken' = taken
      /\ wire' = [wire EXCEPT ![h] = w]
  BY DEF Disturb, stateVars
<1>2. wire'[h] = w /\ \A x \in Hosts : x # h => wire'[x] = wire[x]
  BY <1>1 DEF TypeInv
<1>3. /\ due'[Peer(h)] = due[Peer(h)] \ (gone \ Here(h, w)) /\ due' \in [Hosts -> SUBSET Nat]
      /\ \A x \in Hosts : x # Peer(h) => due'[x] = due[x]
  BY PeerIs DEF Disturb, SealInv, Sealed
<1>4. ASSUME NEW x \in Hosts, NEW p \in Coming(x)'
      PROVE  \/ p \in Coming(x) /\ (p.id # 0 => p.id \in due'[Peer(x)])
             \/ /\ p.id = 0 /\ p.seal = Torn
                /\ \A u \in Secrets : Carries(p, u) => \E q \in Coming(x) : Carries(q, u)
  <2>1. CASE x # h
    <3>1. p \in Coming(x) /\ Peer(x) # Peer(h)
      BY <1>1, <1>2, <2>1, PeerIs DEF Coming, At
    <3>2. p.id # 0 => p.id \in due[Peer(x)]
      BY <3>1 DEF SealInv, Sealed
    <3> QED
      BY <1>3, <3>1, <3>2, PeerIs
  <2>2. CASE x = h
    <3>1. ASSUME p \in Coming(h), p.id \in Here(h, w) PROVE p.id # 0 => p.id \in due'[Peer(h)]
      <4>1. p.id # 0 => p.id \in due[Peer(h)]
        BY <3>1 DEF SealInv, Sealed
      <4> QED
        BY <1>3, <3>1, <4>1
    <3>2. CASE At(h, "receive", "open") /\ p = Packet(op[h]["receive"])
      <4>1. p.id = op[h]["receive"].id
        BY <3>2 DEF Packet
      <4>2. p.id \in Here(h, w)
        BY <3>2, <4>1 DEF Here
      <4> QED
        BY <2>2, <3>1, <3>2, <4>2, ComingIs
    <3>3. CASE \E j \in DOMAIN w : p = w[j]
      <4>1. PICK j \in DOMAIN w : p = w[j]
        BY <3>3
      <4>2. p.id \in Here(h, w)
        BY <4>1 DEF Here
      <4>3. CASE \E i \in DOMAIN wire[h] : p = wire[h][i]
        BY <2>2, <3>1, <4>2, <4>3, ComingIs
      <4>4. CASE /\ p.id = 0 /\ p.seal = Torn
                 /\ \E i \in DOMAIN wire[h] : p.flag = wire[h][i].flag /\ p.body = wire[h][i].body
        BY <2>2, <4>4, SameCarries, ComingIs
      <4> QED
        BY <4>1, <4>3, <4>4
    <3> QED
      BY <1>1, <1>2, <2>2, <3>2, <3>3 DEF Coming, At
  <2> QED
    BY <2>1, <2>2
<1>5. Harmless
  <2>1. taken' \in [Hosts -> Nat]
    BY DEF TypeInv
  <2>2. \A x \in Hosts : At(x, "receive", "ended")' => At(x, "send", "ended")' /\ cipher'[x].tx = Torn /\ cipher'[x].rx = Torn
    BY <1>1 DEF SealInv, Sealed, At
  <2>3. \A x \in Hosts, t \in Threads :
          At(x, t, "install")' => LET c == op'[x][t].chain IN c # <<>> /\ c[Len(c)] = Injected(op'[x][t])
    BY <1>1, ChainAdded DEF At
  <2>4. \A x \in Hosts, t \in Threads : \A u \in Secrets : Adding(x, t, u)' => Adding(x, t, u)
    BY <1>1 DEF Adding
  <2> QED
    BY <1>1, <1>3, <1>4, <2>1, <2>2, <2>3, <2>4 DEF Harmless
<1>6. DrawsNew(S) /\ \A x \in Hosts, t \in Threads, u \in Secrets : Making(x, t, u)' => Making(x, t, u)
  BY <1>1 DEF DrawsNew, Making
<1>7. CountsOn
  <2>1. begun \in Nat /\ \A x \in Hosts : rxseq[x] \in Nat
    BY BoundAssumption DEF TypeInv
  <2> QED
    BY <1>1, <2>1 DEF CountsOn, At
<1> QED
  BY <1>5, <1>6, <1>7, HarmlessInv

Among(w, s) == \A j \in DOMAIN w : \E i \in DOMAIN s : w[j] = s[i]

LEMMA PartOf ==
  ASSUME NEW s \in Seq(Packets), NEW m \in Nat \ {0}, NEW n \in Int, n <= Len(s)
  PROVE  SubSeq(s, m, n) \in Seq(Packets) /\ Among(SubSeq(s, m, n), s)
<1>1. \A i \in m..n : i \in 1..Len(s) /\ s[i] \in Packets
  BY Places1ToLen, ElementOfSeq
<1>2. PICK w : w = SubSeq(s, m, n)
  OBVIOUS
<1>3. /\ w \in Seq(Packets) /\ Len(w) = IF m <= n THEN n - m + 1 ELSE 0
      /\ \A j \in 1..(n - m + 1) : w[j] = s[m + j - 1]
  BY <1>1, <1>2, SubSeqProperties
<1>4. ASSUME NEW j \in DOMAIN w PROVE \E i \in DOMAIN s : w[j] = s[i]
  <2>1. j \in 1..(n - m + 1)
    BY <1>3, Places1ToLen
  <2>2. m + j - 1 \in m..n
    BY <2>1
  <2>3. m + j - 1 \in DOMAIN s /\ w[j] = s[m + j - 1]
    BY <1>1, <1>3, <2>1, <2>2, Places1ToLen
  <2> QED
    BY <2>3
<1> QED
  BY <1>2, <1>3, <1>4 DEF Among

LEMMA BothParts ==
  ASSUME NEW s, NEW v \in Seq(Packets), NEW w \in Seq(Packets), Among(v, s), Among(w, s)
  PROVE  v \o w \in Seq(Packets) /\ Among(v \o w, s)
<1>1. PICK x : x = v \o w
  OBVIOUS
<1>2. /\ x \in Seq(Packets) /\ Len(x) = Len(v) + Len(w)
      /\ \A i \in 1..(Len(v) + Len(w)) : x[i] = IF i <= Len(v) THEN v[i] ELSE w[i - Len(v)]
  BY <1>1, ConcatProperties
<1>3. ASSUME NEW j \in DOMAIN x PROVE \E i \in DOMAIN s : x[j] = s[i]
  <2>1. j \in 1..(Len(v) + Len(w)) /\ Len(v) \in Nat /\ Len(w) \in Nat
    BY <1>2, Places1ToLen
  <2>2. CASE j <= Len(v)
    <3>1. j \in DOMAIN v /\ x[j] = v[j]
      BY <1>2, <2>1, <2>2, Places1ToLen
    <3> QED
      BY <3>1 DEF Among
  <2>3. CASE ~(j <= Len(v))
    <3>1. j - Len(v) \in DOMAIN w /\ x[j] = w[j - Len(v)]
      BY <1>2, <2>1, <2>3, Places1ToLen
    <3> QED
      BY <3>1 DEF Among
  <2> QED
    BY <2>2, <2>3
<1> QED
  BY <1>1, <1>2, <1>3 DEF Among

\* What the network leaves of w when it fails: packets of w, and packets that no
\* host opens.
Remains(w, s) ==
  \A j \in DOMAIN w : \/ \E i \in DOMAIN s : w[j] = s[i]
                      \/ /\ w[j].id = 0 /\ w[j].seal = Torn
                         /\ \E i \in DOMAIN s : w[j].flag = s[i].flag /\ w[j].body = s[i].body

LEMMA NetworkIs ==
  ASSUME TypeInv, NEW h \in Hosts, Network(h)
  PROVE  \E w \in Seq(Packets), i \in DOMAIN wire[h] : \E gone \in {{}, {wire[h][i].id}} :
           Disturb(h, w, gone) /\ Remains(w, wire[h])
<1>1. PICK s \in Seq(Packets) : s = wire[h]
  BY DEF TypeInv
<1>2. PICK i \in DOMAIN wire[h] : Lose(h, i) \/ Repeat(h, i) \/ Garble(h, i) \/ Swap(h, i)
  BY DEF Network
<1>3. i \in 1..Len(s) /\ Len(s) \in Nat /\ s[i] \in Packets
  BY <1>1, <1>2, Places1ToLen, ElementOfSeq
<1>4. SubSeq(s, 1, i - 1) \in Seq(Packets) /\ Among(SubSeq(s, 1, i - 1), s)
  BY <1>3, PartOf
<1>5. CASE Lose(h, i)
  <2>1. SubSeq(s, i + 1, Len(s)) \in Seq(Packets) /\ Among(SubSeq(s, i + 1, Len(s)), s)
    BY <1>3, PartOf
  <2>2. PICK w : w = SubSeq(s, 1, i - 1) \o SubSeq(s, i + 1, Len(s))
    OBVIOUS
  <2>3. w \in Seq(Packets) /\ Among(w, s)
    BY <1>4, <2>1, <2>2, BothParts
  <2>4. Disturb(h, w, {wire[h][i].id})
    BY <1>1, <1>5, <2>2 DEF Lose
  <2> QED
    BY <1>1, <2>3, <2>4 DEF Among, Remains
<1>6. CASE Repeat(h, i)
  <2>1. SubSeq(s, 1, i) \in Seq(Packets) /\ Among(SubSeq(s, 1, i), s)
    BY <1>3, PartOf
  <2>2. SubSeq(s, i, Len(s)) \in Seq(Packets) /\ Among(SubSeq(s, i, Len(s)), s)
    BY <1>3, PartOf
  <2>3. PICK w : w = SubSeq(s, 1, i) \o SubSeq(s, i, Len(s))
    OBVIOUS
  <2>4. w \in Seq(Packets) /\ Among(w, s)
    BY <2>1, <2>2, <2>3, BothParts
  <2>5. Disturb(h, w, {})
    BY <1>1, <1>6, <2>3 DEF Repeat
  <2> QED
    BY <1>1, <2>4, <2>5 DEF Among, Remains
<1>7. CASE Garble(h, i)
  <2>1. PICK p : p = [s[i] EXCEPT !.seal = Torn, !.id = 0]
    OBVIOUS
  <2>2. p \in Packets /\ p.id = 0 /\ p.seal = Torn /\ p.flag = s[i].flag /\ p.body = s[i].body
    BY <1>3, <2>1 DEF Packets, BodyFits, Seals
  <2>3. PICK w : w = [s EXCEPT ![i] = p]
    OBVIOUS
  <2>4. w \in Seq(Packets) /\ Len(w) = Len(s) /\ \A j \in 1..Len(s) : w[j] = IF j = i THEN p ELSE s[j]
    BY <1>3, <2>2, <2>3, ExceptSeq
  <2>5. Remains(w, s)
    BY <1>3, <2>2, <2>4, Places1ToLen DEF Remains
  <2>6. [s EXCEPT ![i].seal = Torn, ![i].id = 0] = w
    BY <1>3, <2>1, <2>3
  <2>7. Disturb(h, w, {wire[h][i].id})
    BY <1>1, <1>7, <2>6 DEF Garble
  <2> QED
    BY <1>1, <2>4, <2>5, <2>7
<1>8. CASE Swap(h, i)
  <2>1. i + 1 \in 1..Len(s)
    BY <1>1, <1>3, <1>8 DEF Swap
  <2>2. s[i + 1] \in Packets
    BY <2>1, ElementOfSeq
  <2>3. PICK u : u = [s EXCEPT ![i] = s[i + 1]]
    OBVIOUS
  <2>4. u \in Seq(Packets) /\ Len(u) = Len(s) /\ \A j \in 1..Len(s) : u[j] = IF j = i THEN s[i + 1] ELSE s[j]
    BY <1>3, <2>2, <2>3, ExceptSeq
  <2>5. PICK w : w = [u EXCEPT ![i + 1] = s[i]]
    OBVIOUS
  <2>6. w \in Seq(Packets) /\ Len(w) = Len(s) /\ \A j \in 1..Len(s) : w[j] = IF j = i + 1 THEN s[i] ELSE u[j]
    BY <1>3, <2>1, <2>4, <2>5, ExceptSeq
  <2>7. Remains(w, s)
    BY <1>3, <2>1, <2>4, <2>6, Places1ToLen DEF Remains
  <2>8. [s EXCEPT ![i] = s[i + 1], ![i + 1] = s[i]] = w
    BY <2>3, <2>5
  <2>9. Disturb(h, w, {})
    BY <1>1, <1>8, <2>8 DEF Swap
  <2> QED
    BY <1>1, <2>6, <2>7, <2>9
<1> QED
  BY <1>2, <1>5, <1>6, <1>7, <1>8

LEMMA NetworkStream ==
  ASSUME TypeInv, TypeInv', NEW S \in SealMaps, SealInv(S), NEW h \in Hosts, Network(h)
  PROVE  SealInv(S)'
BY NetworkIs, DisturbStream DEF Remains

-----------------------------------------------------------------------------
(* Steps that seal, send, re-key and open *)

LEMMA TwoHosts == \A h, x \in Hosts : x = h \/ x = Peer(h)
BY DEF Hosts, Peer

\* What is not seen anew is numbered as before.
LEMMA NumberedStays ==
  ASSUME TypeInv, TypeInv', NEW S \in SealMaps, NEW T \in SealMaps, Numbered(S), CountsOn,
         \A u \in Secrets : Seen(T, u)' => Seen(S, u) \/ Counted(u)'
  PROVE  Numbered(T)'
BY CountedStays DEF Numbered

LEMMA SealStream ==
  ASSUME TypeInv, TypeInv', NEW S \in SealMaps, SealInv(S), NEW h \in Hosts, NEW t \in Threads, SealPacket(h, t)
  PROVE  \E T \in SealMaps : SealInv(T)'
<1> DEFINE g == Peer(h)
           m == made[h] + 1
           x0 == cipher[h].tx
<1>1. PICK s \in Leaves(h, t, "tx", x0), c \in Leaves(h, t, "tx", Advanced(x0)) :
        /\ Become(h, t, [op[h][t] EXCEPT !.at = "send", !.seal = s, !.id = m])
        /\ cipher' = [cipher EXCEPT ![h].tx = c]
  BY DEF SealPacket
<1>2. /\ wire' = wire /\ rxseq' = rxseq /\ begun' = begun /\ taken' = taken /\ due' = due
      /\ made' = [made EXCEPT ![h] = m] /\ op[h][t].at = "seal"
  BY DEF SealPacket, netVars, At
<1>3. g \in Hosts /\ g # h /\ Peer(g) = h /\ \A x \in Hosts : x = h \/ x = g
  BY PeerIs, TwoHosts
<1>4. x0 \in Contexts \cup {Torn} /\ made \in [Hosts -> Nat] /\ m \in Nat
  BY DEF TypeInv, Ciphers
<1>5. /\ s = x0 \/ s = Torn
      /\ c = Torn \/ (x0 # Torn /\ c # Torn /\ c.key = x0.key /\ c.pos = x0.pos + 1)
  BY <1>4, LeavesAre DEF Advanced, Contexts
<1>6. /\ made'[h] = m /\ made'[g] = made[g]
      /\ cipher'[h].tx = c /\ cipher'[h].rx = cipher[h].rx /\ cipher'[g] = cipher[g]
  BY <1>1, <1>2, <1>3 DEF TypeInv, Ciphers
<1>7. /\ op'[h][t].at = "send" /\ op'[h][t].seal = s /\ op'[h][t].id = m
      /\ op'[h][t].flag = op[h][t].flag /\ op'[h][t].body = op[h][t].body
      /\ \A x \in Hosts, y \in Threads : x # h \/ y # t => op'[x][y] = op[x][y]
  <2>1. PICK a \in Ops : a = op[h][t]
    BY DEF TypeInv
  <2>2. PICK o : o = [a EXCEPT !.at = "send", !.seal = s, !.id = m]
    OBVIOUS
  <2>3. o.at = "send" /\ o.seal = s /\ o.id = m /\ o.flag = a.flag /\ o.body = a.body
    BY <2>2 DEF Ops
  <2>4. Become(h, t, o)
    BY <1>1, <2>1, <2>2
  <2>5. op'[h][t] = o /\ \A x \in Hosts, y \in Threads : x # h \/ y # t => op'[x][y] = op[x][y]
    BY <2>4, BecomeOnly DEF OnlyThread
  <2> QED
    BY <2>1, <2>3, <2>5
<1>8. PICK T : T = [S EXCEPT ![h] = [S[h] EXCEPT ![m] = s]]
  OBVIOUS
<1>9. /\ T \in SealMaps /\ T[h][m] = s /\ T[g] = S[g] /\ \A i \in Nat : i # m => T[h][i] = S[h][i]
  BY <1>3, <1>4, <1>5, <1>8 DEF SealMaps
<1>10. \A i \in Nat : S[h][i] # Torn => i < m
  BY <1>4 DEF SealInv, Sealed
<1>11. \A x \in Hosts, u \in Secrets : Keyed(T, x, u)' => Keyed(S, x, u)
  <2> SUFFICES ASSUME NEW x \in Hosts, NEW u \in Secrets, Keyed(T, x, u)' PROVE Keyed(S, x, u)
    OBVIOUS
  <2>1. CASE x = g
    BY <1>6, <1>9, <2>1 DEF Keyed
  <2>2. CASE x = h
    <3>1. MadeWith(cipher'[h].tx, u) => MadeWith(x0, u)
      BY <1>5, <1>6 DEF MadeWith
    <3>2. \A i \in Nat : MadeWith(T[h][i], u) => MadeWith(S[h][i], u) \/ MadeWith(x0, u)
      BY <1>5, <1>9 DEF MadeWith
    <3> QED
      BY <1>6, <2>2, <3>1, <3>2 DEF Keyed
  <2> QED
    BY <1>3, <2>1, <2>2
<1>12. \A x \in Hosts : /\ Coming(x)' = Coming(x)
                        /\ Busy(op'[x]["receive"]) => Busy(op[x]["receive"])
                        /\ At(x, "receive", "ended")' => At(x, "receive", "ended")
                        /\ At(x, "receive", "ended") => At(x, "receive", "ended")'
                        /\ At(x, "receive", "open")' => At(x, "receive", "open")
                        /\ At(x, "send", "ended") => At(x, "send", "ended")'
  BY <1>2, <1>7, ThreadsAre DEF Coming, At, Busy, Sending
<1>13. \A x \in Hosts, y \in Threads, u \in Secrets :
         /\ Making(x, y, u)' => Making(x, y, u)
         /\ Adding(x, y, u)' => Adding(x, y, u) /\ (x # h \/ y # t) /\ op'[x][y] = op[x][y]
  BY <1>2, <1>7, SameCarries DEF Making, Adding, Sending
<1>14. Sealed(T)'
  <2>1. ASSUME NEW x \in Hosts, NEW i \in Nat, T[x][i] # Torn PROVE i \in 1..made'[x]
    <3>1. CASE x = g
      BY <1>6, <1>9, <2>1, <3>1 DEF SealInv, Sealed
    <3>2. CASE x = h
      BY <1>4, <1>6, <1>9, <2>1, <3>2 DEF SealInv, Sealed
    <3> QED
      BY <1>3, <3>1, <3>2
  <2>2. ASSUME NEW x \in Hosts
        PROVE  /\ \A p \in Coming(x)' :
                    /\ p.id <= made'[Peer(x)]
                    /\ p.id # 0 => p.id \in due'[Peer(x)] /\ p.seal = T[Peer(x)][p.id]
                    /\ p.id = 0 => p.seal = Torn \/ p.flag = "connection_terminate"
               /\ taken'[x] <= made'[Peer(x)]
    <3>1. /\ \A p \in Coming(x) :
               /\ p.id <= made[Peer(x)] /\ p.id \in Nat
               /\ p.id # 0 => p.id \in due[Peer(x)] /\ p.seal = S[Peer(x)][p.id]
               /\ p.id = 0 => p.seal = Torn \/ p.flag = "connection_terminate"
          /\ taken[x] <= made[Peer(x)] /\ taken[x] \in Nat
      BY ComingType DEF SealInv, Sealed, Packets, TypeInv
    <3>2. CASE Peer(x) = g
      BY <1>2, <1>6, <1>9, <1>12, <3>1, <3>2
    <3>3. CASE Peer(x) = h
      <4>1. \A n \in Nat : n <= made[h] => n <= m /\ n # m
        BY <1>4
      <4> QED
        BY <1>2, <1>6, <1>9, <1>12, <3>1, <3>3, <4>1
    <3> QED
      BY <1>3, <3>2, <3>3
  <2>3. ASSUME NEW x \in Hosts, NEW y \in Threads, At(x, y, "send")'
        PROVE  op'[x][y].id \in 1..made'[x] /\ op'[x][y].seal = T[x][op'[x][y].id]
    <3>1. CASE x = h /\ y = t
      BY <1>4, <1>6, <1>7, <1>9, <3>1
    <3>2. CASE x # h \/ y # t
      <4>1. op'[x][y] = op[x][y] /\ op[x][y].id \in 1..made[x] /\ op[x][y].seal = S[x][op[x][y].id]
        BY <1>7, <2>3, <3>2 DEF SealInv, Sealed, At
      <4>2. PICK n : n = op[x][y].id
        OBVIOUS
      <4> QED
        BY <1>3, <1>4, <1>6, <1>9, <4>1, <4>2
    <3> QED
      BY <3>1, <3>2
  <2>4. ASSUME NEW x \in Hosts, At(x, "receive", "ended")'
        PROVE  At(x, "send", "ended")' /\ cipher'[x].tx = Torn /\ cipher'[x].rx = Torn
    <3>1. At(x, "receive", "ended") /\ At(x, "send", "ended") /\ cipher[x].tx = Torn /\ cipher[x].rx = Torn
      BY <1>12, <2>4 DEF SealInv, Sealed
    <3>2. x # h
      BY <1>2, <3>1 DEF At, Threads
    <3> QED
      BY <1>3, <1>6, <1>12, <3>1, <3>2
  <2> QED
    BY <1>2, <2>1, <2>2, <2>3, <2>4 DEF SealInv, Sealed
<1>15. Origins'
  BY <1>12, <1>13, ThreadsAre DEF SealInv, Origins
<1>16. Ordered(T)'
  <2>1. ASSUME NEW i \in Nat, S[h][i] # Torn, x0 # Torn, S[h][i].key = x0.key PROVE S[h][i].pos < x0.pos
    BY <2>1 DEF SealInv, Ordered
  <2>2. ASSUME NEW x \in Hosts, NEW i \in Nat, NEW j \in Nat, i < j, T[x][i] # Torn, T[x][j] # Torn, T[x][i].key = T[x][j].key
        PROVE  T[x][i].pos < T[x][j].pos
    <3>1. CASE x = g
      BY <1>9, <2>2, <3>1 DEF SealInv, Ordered
    <3>2. CASE x = h /\ j = m
      BY <1>5, <1>9, <2>1, <2>2, <3>2
    <3>3. CASE x = h /\ j # m
      <4>1. i # m
        BY <1>4, <1>9, <1>10, <2>2, <3>3
      <4> QED
        BY <1>9, <2>2, <3>3, <4>1 DEF SealInv, Ordered
    <3> QED
      BY <1>3, <3>1, <3>2, <3>3
  <2>3. ASSUME NEW x \in Hosts, NEW i \in Nat, cipher'[x].tx # Torn, T[x][i] # Torn, T[x][i].key = cipher'[x].tx.key
        PROVE  T[x][i].pos < cipher'[x].tx.pos
    <3>1. CASE x = g
      BY <1>6, <1>9, <2>3, <3>1 DEF SealInv, Ordered
    <3>2. CASE x = h
      <4>1. x0 # Torn /\ c.key = x0.key /\ c.pos = x0.pos + 1 /\ x0.pos \in Nat
        BY <1>4, <1>5, <1>6, <2>3, <3>2 DEF Contexts
      <4>2. CASE i = m
        BY <1>5, <1>6, <1>9, <2>3, <3>2, <4>1, <4>2
      <4>3. CASE i # m
        <5>1. S[h][i] \in Contexts \cup {Torn}
          BY DEF SealMaps
        <5>2. S[h][i].pos < x0.pos /\ S[h][i].pos \in Nat
          BY <1>6, <1>9, <2>1, <2>3, <3>2, <4>1, <4>3, <5>1 DEF Contexts
        <5> QED
          BY <1>6, <1>9, <3>2, <4>1, <4>3, <5>2
      <4> QED
        BY <4>2, <4>3
    <3> QED
      BY <1>3, <3>1, <3>2
  <2>4. ASSUME NEW x \in Hosts, NEW i \in Nat, cipher'[x].rx # Torn, T[Peer(x)][i] # Torn, i <= taken'[x],
               T[Peer(x)][i].key = cipher'[x].rx.key
        PROVE  T[Peer(x)][i].pos < cipher'[x].rx.pos
    <3>1. CASE x = h
      BY <1>2, <1>6, <1>9, <2>4, <3>1 DEF SealInv, Ordered
    <3>2. CASE x = g
      <4>1. taken[g] <= made[h] /\ taken[g] \in Nat
        BY <1>3 DEF SealInv, Sealed, TypeInv
      <4>2. T[h][i] = S[h][i]
        BY <1>2, <1>4, <1>9, <2>4, <3>2, <4>1
      <4> QED
        BY <1>2, <1>3, <1>6, <2>4, <3>2, <4>2 DEF SealInv, Ordered
    <3> QED
      BY <1>3, <3>1, <3>2
  <2> QED
    BY <2>2, <2>3, <2>4 DEF Ordered
<1>17. Numbered(T)'
  <2>1. CountsOn
    <3>1. begun \in Nat /\ \A x \in Hosts : rxseq[x] \in Nat
      BY BoundAssumption DEF TypeInv
    <3> QED
      BY <1>2, <1>12, <3>1 DEF CountsOn, At
  <2>2. \A u \in Secrets : Seen(T, u)' => Seen(S, u)
    BY <1>11, <1>12, <1>13 DEF Seen
  <2> QED
    BY <1>9, <2>1, <2>2, NumberedStays DEF SealInv
<1>18. Unshared(T)'
  <2> SUFFICES ASSUME NEW x \in Hosts, NEW y \in Threads, NEW u \in Secrets, Making(x, y, u)'
               PROVE  ~Keyed(T, x, u)' /\ Unheard(T, Peer(x), u)'
    BY DEF Unshared
  <2>1. ~Keyed(S, x, u) /\ Unheard(S, Peer(x), u)
    BY <1>13 DEF SealInv, Unshared
  <2> QED
    BY <1>11, <1>12, <1>13, <2>1, PeerIs, ThreadsAre DEF Unheard
<1>19. \A x \in Hosts, u \in Secrets, i, n \in Nat :
         n <= made[x] /\ MadeWith(T[x][i], u) => n < i \/ MadeWith(S[x][i], u)
  BY <1>3, <1>4, <1>9
<1>20. NotYet(T)'
  <2> SUFFICES ASSUME NEW x \in Hosts, NEW y \in Threads, NEW u \in Secrets, Adding(x, y, u)'
               PROVE  /\ ~Keyed(T, x, u)'
                      /\ \A i \in Nat : MadeWith(T[Peer(x)][i], u) => taken'[x] < i
                      /\ op'[x][y].at = "install" => LET d == op'[x][y].chain IN d # <<>> /\ d[Len(d)] = u
    BY DEF NotYet
  <2>1. Adding(x, y, u) /\ op'[x][y] = op[x][y]
    BY <1>13
  <2>2. ~Keyed(T, x, u)'
    BY <1>11, <2>1 DEF SealInv, NotYet
  <2>3. \A i \in Nat : MadeWith(T[Peer(x)][i], u) => taken'[x] < i
    <3>1. taken[x] \in Nat /\ taken[x] <= made[Peer(x)]
      BY DEF TypeInv, SealInv, Sealed
    <3> QED
      BY <1>2, <1>19, <2>1, <3>1, PeerIs DEF SealInv, NotYet
  <2> QED
    BY <2>1, <2>2, <2>3 DEF SealInv, NotYet
<1>21. OnceEach(T)'
  <2> SUFFICES ASSUME NEW x \in Hosts, NEW u \in Secrets, NEW p \in Coming(x), p.id # 0, Carries(p, u)
               PROVE  /\ \A i \in Nat : MadeWith(T[Peer(x)][i], u) => p.id < i
                      /\ taken'[x] < p.id => ~Keyed(T, x, u)' /\ ~Adding(x, "receive", u)'
                      /\ \A q \in Coming(x)' : q.id # 0 /\ Carries(q, u) => q.id = p.id
    BY <1>12 DEF OnceEach
  <2>1. p.id \in Nat /\ p.id <= made[Peer(x)]
    BY ComingType DEF SealInv, Sealed, Packets
  <2>2. \A i \in Nat : MadeWith(T[Peer(x)][i], u) => p.id < i
    BY <1>19, <2>1, PeerIs DEF SealInv, OnceEach
  <2>3. taken'[x] < p.id => ~Keyed(T, x, u)' /\ ~Adding(x, "receive", u)'
    BY <1>2, <1>11, <1>13, ThreadsAre DEF SealInv, OnceEach
  <2>4. \A q \in Coming(x)' : q.id # 0 /\ Carries(q, u) => q.id = p.id
    BY <1>12 DEF SealInv, OnceEach
  <2> QED
    BY <2>2, <2>3, <2>4
<1>22. \A u \in Secrets : MadeWith(c, u) => MadeWith(x0, u)
  BY <1>5 DEF MadeWith
<1>23. Ahead'
  <2> SUFFICES ASSUME NEW x \in Hosts, NEW u \in Secrets, Adding(x, "send", u)', MadeWith(cipher'[Peer(x)].tx, u)
               PROVE  /\ ~Busy(op'[Peer(x)]["receive"])
                      /\ cipher'[Peer(x)].rx = Torn \/ MadeWith(cipher'[Peer(x)].rx, u)
    BY DEF Ahead
  <2>1. Adding(x, "send", u) /\ MadeWith(cipher[Peer(x)].tx, u) /\ cipher'[Peer(x)].rx = cipher[Peer(x)].rx
    BY <1>3, <1>6, <1>13, <1>22, ThreadsAre
  <2> QED
    BY <1>12, <2>1, PeerIs DEF SealInv, Ahead
<1>24. \A x \in Hosts, w \in Secrets, i \in Nat : Foreign(S, x, w, i) => Foreign(T, x, w, i)'
  BY <1>11, <1>12, <1>13, ThreadsAre DEF Foreign
<1>25. \A x \in Hosts, i \in Nat : \A a : Hidden(S, x, a, i) => a = Torn \/ \E w \in Secrets : MadeWith(a, w) /\ Foreign(T, x, w, i)'
  BY <1>24 DEF Hidden
<1>26. Dark(T)'
  <2> SUFFICES ASSUME NEW x \in Hosts, NEW u \in Secrets, NEW i \in Nat, Adding(x, "send", u)',
                      MadeWith(T[Peer(x)][i], u)
               PROVE  /\ \A j \in Nat : i <= j => Hidden(T, x, T[Peer(x)][j], i)'
                      /\ Hidden(T, x, cipher[Peer(x)].tx, i)' /\ Hidden(T, x, cipher[Peer(x)].rx, i)'
                      /\ At(Peer(x), "send", "send")' => i <= op'[Peer(x)]["send"].id
                      /\ \A w \in Secrets : Adding(Peer(x), "send", w)' => Foreign(T, x, w, i)'
                      /\ ~Busy(op'[Peer(x)]["receive"])
    BY DEF Dark
  <2>1. Adding(x, "send", u)
    BY <1>13, ThreadsAre
  <2>2. ASSUME x = h \/ i # m
        PROVE  /\ Hidden(S, x, cipher[Peer(x)].tx, i) /\ Hidden(S, x, cipher[Peer(x)].rx, i)
               /\ \A j \in Nat : i <= j => Hidden(S, x, T[Peer(x)][j], i)
               /\ At(Peer(x), "send", "send")' => i <= op'[Peer(x)]["send"].id
               /\ \A w \in Secrets : Adding(Peer(x), "send", w) => Foreign(S, x, w, i)
               /\ ~Busy(op[Peer(x)]["receive"])
    <3>1. MadeWith(S[Peer(x)][i], u)
      BY <1>3, <1>9, <2>2
    <3>2. /\ \A j \in Nat : i <= j => Hidden(S, x, S[Peer(x)][j], i)
          /\ Hidden(S, x, cipher[Peer(x)].tx, i) /\ Hidden(S, x, cipher[Peer(x)].rx, i)
          /\ At(Peer(x), "send", "send") => i <= op[Peer(x)]["send"].id
          /\ \A w \in Secrets : Adding(Peer(x), "send", w) => Foreign(S, x, w, i)
          /\ ~Busy(op[Peer(x)]["receive"])
      BY <2>1, <3>1 DEF SealInv, Dark
    <3>3. \A j \in Nat : i <= j => Hidden(S, x, T[Peer(x)][j], i)
      <4>1. T[Peer(x)] = S[Peer(x)] \/ Peer(x) = h
        BY <1>3, <1>9
      <4>2. ASSUME Peer(x) = h PROVE Hidden(S, x, s, i)
        BY <1>5, <3>2, <4>2 DEF Hidden
      <4> QED
        BY <1>9, <3>2, <4>1, <4>2
    <3>4. At(Peer(x), "send", "send")' => i <= op'[Peer(x)]["send"].id
      <4>1. CASE Peer(x) = h /\ t = "send"
        BY <1>4, <1>7, <1>10, <3>1, <4>1 DEF MadeWith
      <4>2. CASE Peer(x) # h \/ t # "send"
        BY <1>7, <3>2, <4>2, PeerIs, ThreadsAre DEF At
      <4> QED
        BY <4>1, <4>2
    <3> QED
      BY <3>2, <3>3, <3>4
  <2>3. ASSUME x = g, i = m
        PROVE  /\ Hidden(S, x, cipher[Peer(x)].tx, i) /\ Hidden(S, x, cipher[Peer(x)].rx, i)
               /\ \A j \in Nat : i <= j => Hidden(S, x, T[Peer(x)][j], i)
               /\ At(Peer(x), "send", "send")' => i <= op'[Peer(x)]["send"].id
               /\ \A w \in Secrets : Adding(Peer(x), "send", w) => Foreign(S, x, w, i) \/ ~Adding(Peer(x), "send", w)'
               /\ ~Busy(op[Peer(x)]["receive"])
    <3>1. s = x0 /\ MadeWith(x0, u)
      BY <1>3, <1>5, <1>9, <2>3 DEF MadeWith
    <3>2. ~Busy(op[h]["receive"]) /\ (cipher[h].rx = Torn \/ MadeWith(cipher[h].rx, u))
      BY <1>3, <2>1, <2>3, <3>1 DEF SealInv, Ahead
    <3>3. t = "send"
      BY <1>2, <3>2 DEF Busy, Sending, Threads
    <3>4. Foreign(S, g, u, i)
      <4>1. u.by = g /\ u.thread = "send" /\ ~Adding(g, "receive", u)
        BY <2>1, <2>3 DEF SealInv, Origins
      <4>2. ~Keyed(S, g, u)
        BY <2>1, <2>3, ThreadsAre DEF SealInv, NotYet
      <4>3. \A p \in Coming(g) : ~Carries(p, u)
        BY <1>3, <4>1 DEF SealInv, Origins
      <4> QED
        BY <4>1, <4>2, <4>3 DEF Foreign
    <3>5. \A j \in Nat : i <= j => T[h][j] = Torn \/ T[h][j] = x0
      BY <1>4, <1>9, <1>10, <2>3, <3>1
    <3>6. \A a : a = Torn \/ MadeWith(a, u) => Hidden(S, g, a, i)
      BY <3>4 DEF Hidden
    <3>7. ~At(h, "send", "send") /\ \A w \in Secrets : ~Adding(h, "send", w)
      BY <1>2, <3>3 DEF At, Adding
    <3> QED
      BY <1>3, <1>4, <1>7, <2>3, <3>1, <3>2, <3>3, <3>5, <3>6, <3>7
  <2>4. i = m => x = h \/ x = g
    BY <1>3
  <2>5. /\ \A j \in Nat : i <= j => Hidden(T, x, T[Peer(x)][j], i)'
        /\ Hidden(T, x, cipher[Peer(x)].rx, i)'
    <3>1. Peer(x) \in Hosts /\ cipher'[Peer(x)].rx = cipher[Peer(x)].rx
      BY <1>3, <1>6
    <3> QED
      BY <1>25, <2>2, <2>3, <2>4, <3>1 DEF Hidden
  <2>6. Hidden(T, x, cipher[Peer(x)].tx, i)'
    <3>1. Hidden(S, x, cipher[Peer(x)].tx, i)
      BY <2>2, <2>3, <2>4
    <3>2. Hidden(S, x, cipher'[Peer(x)].tx, i)
      BY <1>3, <1>5, <1>6, <3>1 DEF Hidden, MadeWith
    <3> QED
      BY <1>25, <3>2 DEF Hidden
  <2>7. \A w \in Secrets : Adding(Peer(x), "send", w)' => Foreign(T, x, w, i)'
    BY <1>13, <1>24, <2>2, <2>3, <2>4, PeerIs, ThreadsAre
  <2>8. ~Busy(op'[Peer(x)]["receive"])
    BY <1>12, <2>2, <2>3, <2>4, PeerIs
  <2> QED
    BY <2>2, <2>3, <2>4, <2>5, <2>6, <2>7, <2>8
<1> QED
  BY <1>9, <1>14, <1>15, <1>16, <1>17, <1>18, <1>20, <1>21, <1>23, <1>26 DEF SealInv

LEMMA SendStream ==
  ASSUME TypeInv, TypeInv', NEW S \in SealMaps, SealInv(S), NEW h \in Hosts, NEW t \in Threads, SendPacket(h, t)
  PROVE  SealInv(S)'
<1> DEFINE g == Peer(h)
<1>1. PICK o \in Ops : o = op[h][t]
  BY DEF TypeInv
<1>2. /\ cipher' = cipher /\ rxseq' = rxseq /\ begun' = begun /\ made' = made /\ taken' = taken
      /\ due' = [due EXCEPT ![h] = @ \cup {o.id}] /\ o.at = "send"
      /\ wire' = wire \/ wire' = [wire EXCEPT ![g] = Append(@, Packet(o))]
  BY <1>1 DEF SendPacket, stateVars, At
<1>3. g \in Hosts /\ g # h /\ Peer(g) = h /\ \A x \in Hosts : x = h \/ x = g
  BY PeerIs, TwoHosts
<1>4. /\ op'[h][t].at = IF Rekeys(o) THEN "derive" ELSE "idle"
      /\ Rekeys(o) => op'[h][t].flag = o.flag /\ op'[h][t].body = o.body
      /\ \A x \in Hosts, y \in Threads : x # h \/ y # t => op'[x][y] = op[x][y]
  <2>1. PICK b : b = IF Rekeys(o) THEN [o EXCEPT !.at = "derive"] ELSE Idle
    OBVIOUS
  <2>2. Become(h, t, b)
    BY <1>1, <2>1 DEF SendPacket
  <2>3. op'[h][t] = b /\ \A x \in Hosts, y \in Threads : x # h \/ y # t => op'[x][y] = op[x][y]
    BY <2>2, BecomeOnly DEF OnlyThread
  <2>4. b.at = (IF Rekeys(o) THEN "derive" ELSE "idle") /\ (Rekeys(o) => b.flag = o.flag /\ b.body = o.body)
    BY <2>1, IdleCarries DEF Ops
  <2> QED
    BY <2>3, <2>4
<1>5. \A u \in Secrets : Carries(o, u) <=> Making(h, t, u)
  BY <1>1, <1>2 DEF Making, Sending
<1>6. \A x \in Hosts, y \in Threads, u \in Secrets :
        /\ Making(x, y, u)' => Making(x, y, u) /\ (x # h \/ y # t)
        /\ Adding(x, y, u)' => \/ Adding(x, y, u) /\ op'[x][y] = op[x][y] /\ (x # h \/ y # t)
                               \/ x = h /\ y = t /\ Making(h, t, u) /\ op'[x][y].at = "derive"
  <2>1. \A u \in Secrets : Adding(h, t, u)' => Making(h, t, u) /\ op'[h][t].at = "derive"
    BY <1>4, <1>5, SameCarries DEF Adding
  <2>2. \A u \in Secrets : ~Making(h, t, u)'
    BY <1>4 DEF Making, Sending
  <2> QED
    BY <1>4, <2>1, <2>2 DEF Making, Adding
<1>7. \A x \in Hosts : /\ Busy(op'[x]["receive"]) => Busy(op[x]["receive"])
                       /\ At(x, "receive", "ended") = At(x, "receive", "ended")'
                       /\ At(x, "receive", "open")' => At(x, "receive", "open") /\ op'[x]["receive"] = op[x]["receive"]
                       /\ At(x, "send", "ended") => At(x, "send", "ended")'
  BY <1>1, <1>2, <1>4, ThreadsAre DEF At, Busy, Sending
<1>8. /\ Coming(h)' \subseteq Coming(h)
      /\ Coming(g)' \subseteq Coming(g) \cup {Packet(o)}
  <2>1. ASSUME NEW x \in Hosts, NEW p \in Coming(x)' PROVE p \in Coming(x) \/ (x = g /\ p = Packet(o))
    <3>1. CASE At(x, "receive", "open")' /\ p = Packet(op'[x]["receive"])
      BY <1>7, <3>1, ComingIs
    <3>2. CASE \E i \in DOMAIN wire'[x] : p = wire'[x][i]
      <4>1. PICK i \in DOMAIN wire'[x] : p = wire'[x][i]
        BY <3>2
      <4>2. wire[x] \in Seq(Packets) /\ Packet(o) \in Packets
        BY <1>2, PacketIs DEF TypeInv
      <4>3. wire'[x] = wire[x] \/ (x = g /\ wire'[x] = Append(wire[x], Packet(o)))
        BY <1>2, <1>3 DEF TypeInv
      <4>4. CASE wire'[x] = wire[x]
        BY <4>1, <4>4, ComingIs
      <4>5. CASE x = g /\ wire'[x] = Append(wire[x], Packet(o))
        <5>1. i \in 1..(Len(wire[x]) + 1) /\ Len(wire[x]) \in Nat
          BY <4>1, <4>2, <4>5, NextIs, Places1ToLen
        <5>2. CASE i = Len(wire[x]) + 1
          BY <4>1, <4>2, <4>5, <5>2, NextIs
        <5>3. CASE i \in 1..Len(wire[x])
          BY <4>1, <4>2, <4>5, <5>3, NextIs, Places1ToLen, ComingIs
        <5> QED
          BY <5>1, <5>2, <5>3
      <4> QED
        BY <4>3, <4>4, <4>5
    <3> QED
      BY <3>1, <3>2 DEF Coming
  <2> QED
    BY <1>3, <2>1
<1>9. \A x \in Hosts, u \in Secrets : \A p \in Coming(x)' :
        Carries(p, u) => \/ p \in Coming(x)
                         \/ x = g /\ p = Packet(o) /\ Making(h, t, u)
  BY <1>3, <1>5, <1>8, PacketIs
<1>10. \A x \in Hosts : \A u : Keyed(S, x, u)' <=> Keyed(S, x, u)
  BY <1>2 DEF Keyed
\* What is being sent.
<1>11. ASSUME NEW u \in Secrets, Making(h, t, u)
       PROVE  /\ u.by = h /\ u.thread = t
              /\ ~Keyed(S, h, u) /\ ~Keyed(S, g, u) /\ ~Adding(g, "receive", u)
              /\ \A p \in Coming(g) : ~Carries(p, u)
  BY <1>11 DEF SealInv, Origins, Unshared, Unheard
<1>12. Packet(o).id = o.id /\ Packet(o).seal = o.seal /\ o.id \in 1..made[h] /\ o.seal = S[h][o.id]
  BY <1>1, <1>2, PacketIs DEF SealInv, Sealed, At
<1>13. Sealed(S)'
  <2>1. due \in [Hosts -> SUBSET Nat] /\ made[h] \in Nat
    BY DEF SealInv, Sealed, TypeInv
  <2>2. due' \in [Hosts -> SUBSET Nat] /\ o.id \in due'[h] /\ \A x \in Hosts : due[x] \subseteq due'[x]
    BY <1>2, <1>12, <2>1
  <2>3. ASSUME NEW x \in Hosts, NEW p \in Coming(x)'
        PROVE  /\ p.id <= made'[Peer(x)]
               /\ p.id # 0 => p.id \in due'[Peer(x)] /\ p.seal = S[Peer(x)][p.id]
               /\ p.id = 0 => p.seal = Torn \/ p.flag = "connection_terminate"
    <3>1. CASE p \in Coming(x)
      BY <1>2, <2>2, <3>1, PeerIs DEF SealInv, Sealed
    <3>2. CASE x = g /\ p = Packet(o)
      BY <1>2, <1>3, <1>12, <2>1, <2>2, <3>2
    <3> QED
      BY <1>3, <1>8, <3>1, <3>2
  <2>4. ASSUME NEW x \in Hosts, NEW y \in Threads, At(x, y, "send")'
        PROVE  op'[x][y].id \in 1..made'[x] /\ op'[x][y].seal = S[x][op'[x][y].id]
    <3>1. op'[x][y] = op[x][y]
      BY <1>4, <2>4 DEF At
    <3> QED
      BY <1>2, <2>4, <3>1 DEF SealInv, Sealed, At
  <2>5. \A x \in Hosts : At(x, "receive", "ended")' => At(x, "send", "ended")' /\ cipher'[x].tx = Torn /\ cipher'[x].rx = Torn
    BY <1>2, <1>7 DEF SealInv, Sealed
  <2> QED
    BY <1>2, <2>2, <2>3, <2>4, <2>5 DEF SealInv, Sealed
<1>14. Origins'
  <2>1. \A x \in Hosts, u \in Secrets : \A p \in Coming(x)' : Carries(p, u) => u.by = Peer(x)
    BY <1>3, <1>9, <1>11 DEF SealInv, Origins
  <2>2. \A x \in Hosts, u \in Secrets : /\ \A y \in Threads : Making(x, y, u)' => u.by = x /\ u.thread = y
                                        /\ Adding(x, "send", u)' => u.by = x /\ u.thread = "send"
                                        /\ Adding(x, "receive", u)' /\ u.by = x => u.thread = "receive"
    BY <1>6, <1>11, ThreadsAre DEF SealInv, Origins
  <2> QED
    BY <2>1, <2>2 DEF Origins
<1>15. Ordered(S)'
  BY <1>2 DEF SealInv, Ordered
<1>16. Numbered(S)'
  <2>1. CountsOn
    <3>1. begun \in Nat /\ \A x \in Hosts : rxseq[x] \in Nat
      BY BoundAssumption DEF TypeInv
    <3> QED
      BY <1>2, <1>7, <3>1 DEF CountsOn
  <2>2. \A u \in Secrets : Seen(S, u)' => Seen(S, u)
    BY <1>6, <1>9, <1>10 DEF Seen
  <2> QED
    BY <2>1, <2>2, NumberedStays DEF SealInv
<1>17. Unshared(S)'
  <2> SUFFICES ASSUME NEW x \in Hosts, NEW y \in Threads, NEW u \in Secrets, Making(x, y, u)'
               PROVE  ~Keyed(S, x, u)' /\ Unheard(S, Peer(x), u)'
    BY DEF Unshared
  <2>1. Making(x, y, u) /\ (x # h \/ y # t)
    BY <1>6
  <2>2. ~Keyed(S, x, u) /\ Unheard(S, Peer(x), u) /\ u.by = x /\ u.thread = y
    BY <2>1 DEF SealInv, Unshared, Origins
  <2>3. ~Making(h, t, u)
    BY <1>11, <2>1, <2>2
  <2> QED
    BY <1>6, <1>9, <1>10, <2>2, <2>3, PeerIs, ThreadsAre DEF Unheard
<1>18. NotYet(S)'
  <2> SUFFICES ASSUME NEW x \in Hosts, NEW y \in Threads, NEW u \in Secrets, Adding(x, y, u)'
               PROVE  /\ ~Keyed(S, x, u)'
                      /\ \A i \in Nat : MadeWith(S[Peer(x)][i], u) => taken'[x] < i
                      /\ op'[x][y].at = "install" => LET d == op'[x][y].chain IN d # <<>> /\ d[Len(d)] = u
    BY DEF NotYet
  <2>1. CASE Adding(x, y, u) /\ op'[x][y] = op[x][y]
    BY <1>2, <1>10, <2>1 DEF SealInv, NotYet
  <2>2. CASE x = h /\ y = t /\ Making(h, t, u) /\ op'[x][y].at = "derive"
    BY <1>10, <1>11, <2>2 DEF Keyed
  <2> QED
    BY <1>6, <2>1, <2>2
<1>19. OnceEach(S)'
  <2> SUFFICES ASSUME NEW x \in Hosts, NEW u \in Secrets, NEW p \in Coming(x)', p.id # 0, Carries(p, u)
               PROVE  /\ \A i \in Nat : MadeWith(S[Peer(x)][i], u) => p.id < i
                      /\ taken'[x] < p.id => ~Keyed(S, x, u)' /\ ~Adding(x, "receive", u)'
                      /\ \A q \in Coming(x)' : q.id # 0 /\ Carries(q, u) => q.id = p.id
    BY DEF OnceEach
  <2>1. CASE p \in Coming(x)
    <3>1. u.by = Peer(x)
      BY <2>1 DEF SealInv, Origins
    <3>2. ~Making(h, t, u)
      BY <1>3, <1>11, <2>1, <3>1
    <3> QED
      BY <1>2, <1>6, <1>9, <1>10, <2>1, <3>2, ThreadsAre DEF SealInv, OnceEach
  <2>2. CASE x = g /\ p = Packet(o) /\ Making(h, t, u)
    <3>1. \A i \in Nat : ~MadeWith(S[h][i], u)
      BY <1>11, <2>2 DEF Keyed
    <3>2. ~Keyed(S, g, u)' /\ ~Adding(g, "receive", u)'
      BY <1>3, <1>6, <1>10, <1>11, <2>2, ThreadsAre
    <3>3. \A q \in Coming(g)' : Carries(q, u) => q = p
      BY <1>9, <1>11, <2>2
    <3> QED
      BY <1>3, <2>2, <3>1, <3>2, <3>3
  <2> QED
    BY <1>9, <2>1, <2>2
<1>20. Ahead'
  <2> SUFFICES ASSUME NEW x \in Hosts, NEW u \in Secrets, Adding(x, "send", u)', MadeWith(cipher'[Peer(x)].tx, u)
               PROVE  /\ ~Busy(op'[Peer(x)]["receive"])
                      /\ cipher'[Peer(x)].rx = Torn \/ MadeWith(cipher'[Peer(x)].rx, u)
    BY DEF Ahead
  <2>1. Keyed(S, Peer(x), u)
    BY <1>2 DEF Keyed
  <2>2. Adding(x, "send", u)
    BY <1>6, <1>11, <2>1, ThreadsAre
  <2> QED
    BY <1>2, <1>7, <2>2, PeerIs DEF SealInv, Ahead
<1>21. Dark(S)'
  <2> SUFFICES ASSUME NEW x \in Hosts, NEW u \in Secrets, NEW i \in Nat, Adding(x, "send", u)',
                      MadeWith(S[Peer(x)][i], u)
               PROVE  /\ \A j \in Nat : i <= j => Hidden(S, x, S[Peer(x)][j], i)'
                      /\ Hidden(S, x, cipher[Peer(x)].tx, i)' /\ Hidden(S, x, cipher[Peer(x)].rx, i)'
                      /\ At(Peer(x), "send", "send")' => i <= op'[Peer(x)]["send"].id
                      /\ \A w \in Secrets : Adding(Peer(x), "send", w)' => Foreign(S, x, w, i)'
                      /\ ~Busy(op'[Peer(x)]["receive"])
    BY DEF Dark
  <2>1. Adding(x, "send", u)
    BY <1>6, <1>11, ThreadsAre DEF Keyed
  <2>2. /\ \A j \in Nat : i <= j => Hidden(S, x, S[Peer(x)][j], i)
        /\ Hidden(S, x, cipher[Peer(x)].tx, i) /\ Hidden(S, x, cipher[Peer(x)].rx, i)
        /\ At(Peer(x), "send", "send") => i <= op[Peer(x)]["send"].id
        /\ \A w \in Secrets : Adding(Peer(x), "send", w) => Foreign(S, x, w, i)
        /\ ~Busy(op[Peer(x)]["receive"])
    BY <2>1 DEF SealInv, Dark
  <2>3. ASSUME x = g PROVE t = "send" /\ i <= o.id
    <3>1. Busy(op[h][t])
      BY <1>1, <1>2 DEF Busy, Sending
    <3>2. t = "send"
      BY <1>3, <2>2, <2>3, <3>1 DEF Threads
    <3> QED
      BY <1>1, <1>2, <1>3, <2>2, <2>3, <3>2 DEF At
  <2>4. \A w \in Secrets, p \in Coming(x)' : p.id # 0 /\ Carries(p, w) => p \in Coming(x) \/ i <= p.id
    BY <1>9, <1>12, <2>3
  <2>5. ASSUME NEW w \in Secrets, Foreign(S, x, w, i) PROVE Foreign(S, x, w, i)'
    <3>1. ~Adding(x, "receive", w)'
      BY <1>6, <1>11, <2>5, ThreadsAre DEF Foreign
    <3>2. \A p \in Coming(x)' : p.id # 0 /\ Carries(p, w) => i <= p.id
      BY <2>4, <2>5 DEF Foreign
    <3> QED
      BY <1>10, <2>5, <3>1, <3>2 DEF Foreign
  <2>6. \A a : Hidden(S, x, a, i) => a = Torn \/ \E w \in Secrets : MadeWith(a, w) /\ Foreign(S, x, w, i)'
    BY <2>5 DEF Hidden
  <2>7. /\ \A j \in Nat : i <= j => Hidden(S, x, S[Peer(x)][j], i)'
        /\ Hidden(S, x, cipher[Peer(x)].tx, i)' /\ Hidden(S, x, cipher[Peer(x)].rx, i)'
    BY <1>2, <2>2, <2>6 DEF Hidden
  <2>8. At(Peer(x), "send", "send")' => i <= op'[Peer(x)]["send"].id
    BY <1>4, <2>2, PeerIs, ThreadsAre DEF At
  <2>9. ASSUME NEW w \in Secrets, Adding(Peer(x), "send", w)' PROVE Foreign(S, x, w, i)'
    <3>1. CASE Adding(Peer(x), "send", w)
      BY <2>2, <2>5, <3>1
    <3>2. CASE Peer(x) = h /\ t = "send" /\ Making(h, t, w)
      <4>1. x = g
        BY <1>3, <3>2
      <4>2. ~(w.by = g) /\ ~Keyed(S, g, w)' /\ ~Adding(g, "receive", w)'
        BY <1>3, <1>6, <1>10, <1>11, <3>2, ThreadsAre
      <4>3. \A p \in Coming(g)' : p.id # 0 /\ Carries(p, w) => i <= p.id
        BY <1>11, <2>4, <3>2, <4>1
      <4> QED
        BY <4>1, <4>2, <4>3 DEF Foreign
    <3> QED
      BY <1>6, <2>9, <3>1, <3>2, PeerIs, ThreadsAre
  <2> QED
    BY <1>7, <2>2, <2>7, <2>8, <2>9, PeerIs
<1> QED
  BY <1>13, <1>14, <1>15, <1>16, <1>17, <1>18, <1>19, <1>20, <1>21 DEF SealInv

LEMMA InstallStream ==
  ASSUME TypeInv, TypeInv', NEW S \in SealMaps, SealInv(S), NEW h \in Hosts, NEW t \in Threads, InstallKeys(h, t)
  PROVE  SealInv(S)'
<1> DEFINE g == Peer(h)
<1>1. PICK o \in Ops : o = op[h][t]
  BY DEF TypeInv
<1>2. /\ wire' = wire /\ rxseq' = rxseq /\ begun' = begun /\ made' = made /\ taken' = taken /\ due' = due
      /\ o.at = "install"
  BY <1>1 DEF InstallKeys, netVars, historyVars, At
<1>3. g \in Hosts /\ g # h /\ Peer(g) = h /\ \A x \in Hosts : x = h \/ x = g
  BY PeerIs, TwoHosts
<1>4. PICK v \in Secrets : v = Injected(o) /\ Adding(h, t, v)
  BY <1>1, <1>2, KeyingRekeys DEF Keying, Adding, Carries
\* The new contexts.
<1>5. /\ cipher'[g] = cipher[g]
      /\ cipher'[h].tx = Torn \/ MadeWith(cipher'[h].tx, v)
      /\ cipher'[h].rx = Torn \/ MadeWith(cipher'[h].rx, v)
  <2>1. PICK k : k = Fresh(h, o.chain)
    OBVIOUS
  <2>2. PICK tx \in Leaves(h, t, "tx", k.tx), rx \in Leaves(h, t, "rx", k.rx) :
          cipher' = [cipher EXCEPT ![h] = [tx |-> tx, rx |-> rx]]
    BY <1>1, <2>1 DEF InstallKeys
  <2>3. (tx = Torn \/ tx = k.tx) /\ (rx = Torn \/ rx = k.rx)
    BY LeavesAre
  <2>4. cipher'[g] = cipher[g] /\ cipher'[h].tx = tx /\ cipher'[h].rx = rx
    BY <1>3, <2>2 DEF TypeInv
  <2>5. k.tx.key.chain = o.chain /\ k.rx.key.chain = o.chain
    BY <2>1 DEF Fresh, Key
  <2>6. o.chain # <<>> /\ o.chain[Len(o.chain)] = v
    BY <1>1, <1>2, <1>4 DEF SealInv, NotYet
  <2> QED
    BY <2>3, <2>4, <2>5, <2>6 DEF MadeWith
<1>6. /\ op'[h][t].at = "keep"
      /\ \A x \in Hosts, y \in Threads : x # h \/ y # t => op'[x][y] = op[x][y]
  <2>1. PICK b : b = [o EXCEPT !.at = "keep"]
    OBVIOUS
  <2>2. Become(h, t, b) /\ b.at = "keep"
    BY <1>1, <2>1, GoIs DEF InstallKeys, TypeInv, Ops
  <2> QED
    BY <2>2, BecomeOnly DEF OnlyThread
<1>7. \A x \in Hosts : /\ Coming(x)' = Coming(x)
                       /\ Busy(op'[x]["receive"]) => Busy(op[x]["receive"])
                       /\ At(x, "receive", "ended") = At(x, "receive", "ended")'
                       /\ At(x, "receive", "open") = At(x, "receive", "open")'
                       /\ At(x, "send", "ended") = At(x, "send", "ended")'
                       /\ At(x, "send", "send")' => op'[x]["send"] = op[x]["send"]
  BY <1>1, <1>2, <1>6, ThreadsAre DEF Coming, At, Busy, Sending
<1>8. \A x \in Hosts, y \in Threads, u \in Secrets :
        /\ Making(x, y, u)' => Making(x, y, u)
        /\ Adding(x, y, u)' => Adding(x, y, u) /\ (x # h \/ y # t) /\ op'[x][y] = op[x][y]
  BY <1>6 DEF Making, Adding, Sending
<1>9. \A u : /\ Keyed(S, h, u)' => Keyed(S, h, u) \/ u = v
             /\ Keyed(S, g, u)' => Keyed(S, g, u)
  <2> SUFFICES ASSUME NEW u PROVE /\ Keyed(S, h, u)' => Keyed(S, h, u) \/ u = v
                                  /\ Keyed(S, g, u)' => Keyed(S, g, u)
    OBVIOUS
  <2>1. MadeWith(cipher'[h].tx, u) \/ MadeWith(cipher'[h].rx, u) => u = v
    BY <1>5 DEF MadeWith
  <2> QED
    BY <1>5, <2>1 DEF Keyed
\* Nobody else has what is being added on the way.
<1>10. /\ ~Keyed(S, h, v) /\ \A i \in Nat : MadeWith(S[g][i], v) => taken[h] < i
  BY <1>4 DEF SealInv, NotYet
<1>11. /\ v.by = h => v.thread = t
       /\ v.by # h => t = "receive"
  BY <1>4, ThreadsAre DEF SealInv, Origins, Threads
<1>12. Sealed(S)'
  <2>1. ASSUME NEW x \in Hosts, NEW y \in Threads, At(x, y, "send")'
        PROVE  op'[x][y].id \in 1..made'[x] /\ op'[x][y].seal = S[x][op'[x][y].id]
    <3>1. op'[x][y] = op[x][y]
      BY <1>6, <2>1 DEF At
    <3> QED
      BY <1>2, <2>1, <3>1 DEF SealInv, Sealed, At
  <2>2. ASSUME NEW x \in Hosts, At(x, "receive", "ended")'
        PROVE  At(x, "send", "ended")' /\ cipher'[x].tx = Torn /\ cipher'[x].rx = Torn
    <3>1. At(x, "receive", "ended") /\ At(x, "send", "ended") /\ cipher[x].tx = Torn /\ cipher[x].rx = Torn
      BY <1>7, <2>2 DEF SealInv, Sealed
    <3>2. x # h
      BY <1>1, <1>2, <3>1 DEF At, Threads
    <3> QED
      BY <1>3, <1>5, <1>7, <3>1, <3>2
  <2> QED
    BY <1>2, <1>7, <2>1, <2>2 DEF SealInv, Sealed
<1>13. Origins'
  BY <1>7, <1>8, ThreadsAre DEF SealInv, Origins
<1>14. Ordered(S)'
  <2>1. \A x \in Hosts : \A i, j \in Nat : i < j /\ S[x][i] # Torn /\ S[x][j] # Torn /\ S[x][i].key = S[x][j].key
                                             => S[x][i].pos < S[x][j].pos
    BY DEF SealInv, Ordered
  <2>2. ASSUME NEW x \in Hosts, NEW i \in Nat, cipher'[x].tx # Torn, S[x][i] # Torn, S[x][i].key = cipher'[x].tx.key
        PROVE  S[x][i].pos < cipher'[x].tx.pos
    <3>1. CASE x = g
      BY <1>5, <2>2, <3>1 DEF SealInv, Ordered
    <3>2. CASE x = h
      BY <1>5, <1>10, <2>2, <3>2, MadeWithKey DEF Keyed
    <3> QED
      BY <1>3, <3>1, <3>2
  <2>3. ASSUME NEW x \in Hosts, NEW i \in Nat, cipher'[x].rx # Torn, S[Peer(x)][i] # Torn, i <= taken'[x],
               S[Peer(x)][i].key = cipher'[x].rx.key
        PROVE  S[Peer(x)][i].pos < cipher'[x].rx.pos
    <3>1. CASE x = g
      BY <1>2, <1>5, <2>3, <3>1 DEF SealInv, Ordered
    <3>2. CASE x = h
      <4>1. MadeWith(S[g][i], v)
        BY <1>5, <2>3, <3>2, MadeWithKey
      <4>2. taken[h] \in Nat
        BY DEF TypeInv
      <4> QED
        BY <1>2, <1>10, <2>3, <3>2, <4>1, <4>2
    <3> QED
      BY <1>3, <3>1, <3>2
  <2> QED
    BY <2>1, <2>2, <2>3 DEF Ordered
<1>15. Numbered(S)'
  <2>1. CountsOn
    <3>1. begun \in Nat /\ \A x \in Hosts : rxseq[x] \in Nat
      BY BoundAssumption DEF TypeInv
    <3> QED
      BY <1>2, <1>7, <3>1 DEF CountsOn
  <2>2. \A u \in Secrets : Seen(S, u)' => Seen(S, u)
    BY <1>3, <1>4, <1>7, <1>8, <1>9 DEF Seen
  <2> QED
    BY <2>1, <2>2, NumberedStays DEF SealInv
<1>16. Unshared(S)'
  <2> SUFFICES ASSUME NEW x \in Hosts, NEW y \in Threads, NEW u \in Secrets, Making(x, y, u)'
               PROVE  ~Keyed(S, x, u)' /\ Unheard(S, Peer(x), u)'
    BY DEF Unshared
  <2>1. Making(x, y, u)
    BY <1>8
  <2>2. ~Keyed(S, x, u) /\ Unheard(S, Peer(x), u) /\ u.by = x /\ u.thread = y
    BY <2>1 DEF SealInv, Unshared, Origins
  <2>3. u # v
    <3>1. CASE x = h
      BY <1>1, <1>2, <1>11, <2>1, <2>2, <3>1 DEF Making, Sending
    <3>2. CASE x = g
      BY <1>3, <1>4, <1>11, <2>2, <3>2 DEF Unheard
    <3> QED
      BY <1>3, <3>1, <3>2
  <2>4. ~Keyed(S, x, u)' /\ ~Keyed(S, Peer(x), u)'
    BY <1>3, <1>9, <2>2, <2>3 DEF Unheard
  <2> QED
    BY <1>7, <1>8, <2>2, <2>4, PeerIs, ThreadsAre DEF Unheard
<1>17. NotYet(S)'
  <2> SUFFICES ASSUME NEW x \in Hosts, NEW y \in Threads, NEW u \in Secrets, Adding(x, y, u)'
               PROVE  /\ ~Keyed(S, x, u)'
                      /\ \A i \in Nat : MadeWith(S[Peer(x)][i], u) => taken'[x] < i
                      /\ op'[x][y].at = "install" => LET d == op'[x][y].chain IN d # <<>> /\ d[Len(d)] = u
    BY DEF NotYet
  <2>1. Adding(x, y, u) /\ (x # h \/ y # t) /\ op'[x][y] = op[x][y]
    BY <1>8
  <2>2. x = h => u # v
    <3>1. ASSUME x = h, u = v PROVE FALSE
      <4>1. Adding(h, "send", v) /\ Adding(h, "receive", v)
        BY <1>4, <2>1, <3>1 DEF Threads
      <4> QED
        BY <4>1 DEF SealInv, Origins
    <3> QED
      BY <3>1
  <2>3. ~Keyed(S, x, u)'
    BY <1>3, <1>9, <2>1, <2>2 DEF SealInv, NotYet
  <2> QED
    BY <1>2, <2>1, <2>3 DEF SealInv, NotYet
<1>18. OnceEach(S)'
  <2> SUFFICES ASSUME NEW x \in Hosts, NEW u \in Secrets, NEW p \in Coming(x), p.id # 0, Carries(p, u)
               PROVE  /\ \A i \in Nat : MadeWith(S[Peer(x)][i], u) => p.id < i
                      /\ taken'[x] < p.id => ~Keyed(S, x, u)' /\ ~Adding(x, "receive", u)'
                      /\ \A q \in Coming(x)' : q.id # 0 /\ Carries(q, u) => q.id = p.id
    BY <1>7 DEF OnceEach
  <2>1. /\ \A i \in Nat : MadeWith(S[Peer(x)][i], u) => p.id < i
        /\ taken[x] < p.id => ~Keyed(S, x, u) /\ ~Adding(x, "receive", u)
        /\ \A q \in Coming(x) : q.id # 0 /\ Carries(q, u) => q.id = p.id
        /\ u.by = Peer(x)
    BY DEF SealInv, OnceEach, Origins
  <2>2. taken[x] < p.id /\ x = h => u # v
    BY <1>3, <1>4, <1>11, <2>1
  <2> QED
    BY <1>2, <1>3, <1>7, <1>8, <1>9, <2>1, <2>2, ThreadsAre
<1>19. Ahead'
  <2> SUFFICES ASSUME NEW x \in Hosts, NEW u \in Secrets, Adding(x, "send", u)', MadeWith(cipher'[Peer(x)].tx, u)
               PROVE  /\ ~Busy(op'[Peer(x)]["receive"])
                      /\ cipher'[Peer(x)].rx = Torn \/ MadeWith(cipher'[Peer(x)].rx, u)
    BY DEF Ahead
  <2>1. Adding(x, "send", u)
    BY <1>8, ThreadsAre
  <2>2. CASE x = h
    BY <1>5, <1>7, <2>1, <2>2, PeerIs DEF SealInv, Ahead
  <2>3. CASE x = g
    <3>1. u = v
      BY <1>3, <1>5, <2>3, MadeWithOnce DEF MadeWith
    <3>2. u.by = g
      BY <2>1, <2>3 DEF SealInv, Origins
    <3>3. t = "receive"
      BY <1>3, <1>11, <3>1, <3>2
    <3> QED
      BY <1>3, <1>5, <1>6, <2>3, <3>1, <3>3 DEF Busy, Sending
  <2> QED
    BY <1>3, <2>2, <2>3
<1>20. Dark(S)'
  <2> SUFFICES ASSUME NEW x \in Hosts, NEW u \in Secrets, NEW i \in Nat, Adding(x, "send", u)',
                      MadeWith(S[Peer(x)][i], u)
               PROVE  /\ \A j \in Nat : i <= j => Hidden(S, x, S[Peer(x)][j], i)'
                      /\ Hidden(S, x, cipher[Peer(x)].tx, i)' /\ Hidden(S, x, cipher[Peer(x)].rx, i)'
                      /\ At(Peer(x), "send", "send")' => i <= op'[Peer(x)]["send"].id
                      /\ \A w \in Secrets : Adding(Peer(x), "send", w)' => Foreign(S, x, w, i)'
                      /\ ~Busy(op'[Peer(x)]["receive"])
    BY DEF Dark
  <2>1. Adding(x, "send", u) /\ (x = h => t = "receive")
    BY <1>8, ThreadsAre DEF Threads
  <2>2. /\ \A j \in Nat : i <= j => Hidden(S, x, S[Peer(x)][j], i)
        /\ Hidden(S, x, cipher[Peer(x)].tx, i) /\ Hidden(S, x, cipher[Peer(x)].rx, i)
        /\ At(Peer(x), "send", "send") => i <= op[Peer(x)]["send"].id
        /\ \A w \in Secrets : Adding(Peer(x), "send", w) => Foreign(S, x, w, i)
        /\ ~Busy(op[Peer(x)]["receive"])
    BY <2>1 DEF SealInv, Dark
  <2>3. ASSUME NEW w \in Secrets, Foreign(S, x, w, i) PROVE Foreign(S, x, w, i)'
    <3>1. x = h => w # v
      BY <1>4, <2>1, <2>3 DEF Foreign
    <3> QED
      BY <1>3, <1>7, <1>8, <1>9, <2>3, <3>1, ThreadsAre DEF Foreign
  <2>4. \A a : Hidden(S, x, a, i) => a = Torn \/ \E w \in Secrets : MadeWith(a, w) /\ Foreign(S, x, w, i)'
    BY <2>3 DEF Hidden
  <2>5. Hidden(S, x, cipher'[Peer(x)].tx, i) /\ Hidden(S, x, cipher'[Peer(x)].rx, i)
    <3>1. CASE x = h
      BY <1>5, <2>2, <3>1
    <3>2. CASE x = g
      <4>1. t = "send"
        BY <1>1, <1>2, <1>3, <2>2, <3>2 DEF Busy, Threads
      <4>2. Foreign(S, g, v, i)
        BY <1>3, <1>4, <2>2, <3>2, <4>1
      <4> QED
        BY <1>3, <1>5, <3>2, <4>2 DEF Hidden
    <3> QED
      BY <1>3, <3>1, <3>2
  <2>6. /\ \A j \in Nat : i <= j => Hidden(S, x, S[Peer(x)][j], i)'
        /\ Hidden(S, x, cipher[Peer(x)].tx, i)' /\ Hidden(S, x, cipher[Peer(x)].rx, i)'
    BY <2>2, <2>4, <2>5 DEF Hidden
  <2>7. At(Peer(x), "send", "send")' => i <= op'[Peer(x)]["send"].id
    BY <1>7, <2>2, PeerIs DEF At
  <2>8. \A w \in Secrets : Adding(Peer(x), "send", w)' => Foreign(S, x, w, i)'
    BY <1>8, <2>2, <2>3, PeerIs, ThreadsAre
  <2> QED
    BY <1>7, <2>2, <2>6, <2>7, <2>8, PeerIs
<1> QED
  BY <1>12, <1>13, <1>14, <1>15, <1>16, <1>17, <1>18, <1>19, <1>20 DEF SealInv

\* A packet that opens is a packet of the other host, newer than all those
\* accepted before.
LEMMA WhatOpens ==
  ASSUME TypeInv, NEW S \in SealMaps, SealInv(S), NEW h \in Hosts, At(h, "receive", "open"), Opens(h, op[h]["receive"]),
         NEW n, n = op[h]["receive"].id
  PROVE  /\ n \in Nat \ {0} /\ n \in due[Peer(h)] /\ n <= made[Peer(h)] /\ taken[h] < n
         /\ cipher[h].rx # Torn /\ cipher[h].rx = S[Peer(h)][n]
<1>1. PICK o \in Ops : o = op[h]["receive"]
  BY ThreadsAre DEF TypeInv
<1>2. PICK p : p = Packet(o)
  OBVIOUS
<1>3. p \in Coming(h) /\ p.id = n /\ p.seal = o.seal /\ p.flag = o.flag /\ n \in Nat
  BY <1>1, <1>2, ComingIs, PacketIs DEF Ops
<1>4. cipher[h].rx # Torn /\ p.seal = cipher[h].rx
  BY <1>1, <1>3 DEF Opens
<1>5. n # 0
  BY <1>1, <1>3, <1>4 DEF SealInv, Sealed, Ops
<1>6. n \in due[Peer(h)] /\ n <= made[Peer(h)] /\ cipher[h].rx = S[Peer(h)][n]
  BY <1>3, <1>4, <1>5 DEF SealInv, Sealed
<1>7. taken[h] < n
  <2>1. n <= taken[h] => cipher[h].rx.pos < cipher[h].rx.pos
    BY <1>3, <1>4, <1>6 DEF SealInv, Ordered
  <2>2. cipher[h].rx.pos \in Nat /\ taken[h] \in Nat
    BY <1>4 DEF TypeInv, Ciphers, Contexts
  <2> QED
    BY <1>3, <2>1, <2>2
<1> QED
  BY <1>3, <1>4, <1>5, <1>6, <1>7

\* While a host is to make its keys with what it sent, it opens nothing that
\* was sealed after the other has made its own with it; and nothing opens to
\* the other but what was sealed before.
LEMMA WhileAdding ==
  ASSUME TypeInv, NEW S \in SealMaps, SealInv(S), NEW h \in Hosts, At(h, "receive", "open"), Opens(h, op[h]["receive"]),
         NEW n, n = op[h]["receive"].id, NEW u \in Secrets, NEW i \in Nat
  PROVE  /\ Adding(h, "send", u) /\ MadeWith(S[Peer(h)][i], u) => n < i
         /\ ~(Adding(Peer(h), "send", u) /\ MadeWith(S[h][i], u))
         /\ ~(Adding(Peer(h), "send", u) /\ MadeWith(cipher[h].tx, u))
<1>1. n \in Nat \ {0} /\ cipher[h].rx # Torn /\ cipher[h].rx = S[Peer(h)][n]
  BY WhatOpens
<1>2. Peer(h) \in Hosts /\ Peer(Peer(h)) = h
  BY PeerIs
<1>3. ASSUME Adding(h, "send", u), MadeWith(S[Peer(h)][i], u), i <= n PROVE FALSE
  <2>1. PICK w \in Secrets : MadeWith(cipher[h].rx, w) /\ Foreign(S, h, w, i)
    BY <1>1, <1>3 DEF SealInv, Dark, Hidden
  <2> QED
    BY <2>1 DEF Foreign, Keyed
<1>4. ASSUME Adding(Peer(h), "send", u), MadeWith(S[h][i], u) PROVE FALSE
  <2>1. PICK w \in Secrets : MadeWith(cipher[h].rx, w) /\ Foreign(S, Peer(h), w, i)
    BY <1>1, <1>2, <1>4 DEF SealInv, Dark, Hidden
  <2> QED
    BY <1>1, <2>1 DEF Foreign, Keyed
<1>5. ASSUME Adding(Peer(h), "send", u), MadeWith(cipher[h].tx, u) PROVE FALSE
  <2>1. MadeWith(cipher[h].rx, u)
    BY <1>1, <1>2, <1>5 DEF SealInv, Ahead
  <2>2. ~Keyed(S, Peer(h), u)
    BY <1>2, <1>5, ThreadsAre DEF SealInv, NotYet
  <2> QED
    BY <1>1, <2>1, <2>2 DEF Keyed
<1> QED
  BY <1>1, <1>3, <1>4, <1>5

LEMMA OpenStream ==
  ASSUME TypeInv, TypeInv', NEW S \in SealMaps, SealInv(S), NEW h \in Hosts, OpenPacket(h),
         ~(op[h]["receive"].flag = "asymmetric_ratchet_response" /\ ~Answers(h, op[h]["receive"]))
  PROVE  SealInv(S)'
<1> DEFINE g == Peer(h)
           n == op[h]["receive"].id
<1>1. PICK o \in Ops : o = op[h]["receive"]
  BY ThreadsAre DEF TypeInv
<1>2. /\ wire' = wire /\ rxseq' = rxseq /\ begun' = begun /\ made' = made /\ due' = due
      /\ taken' = [taken EXCEPT ![h] = n] /\ o.at = "open" /\ At(h, "receive", "open")
      /\ Opens(h, op[h]["receive"]) /\ Become(h, "receive", Opened(h, o))
      /\ \E c \in Leaves(h, "receive", "rx", Advanced(cipher[h].rx)) : cipher' = [cipher EXCEPT ![h].rx = c]
  BY <1>1 DEF OpenPacket, At
<1>3. g \in Hosts /\ g # h /\ Peer(g) = h /\ \A x \in Hosts : x = h \/ x = g
  BY PeerIs, TwoHosts
<1>4. /\ n \in Nat \ {0} /\ n \in due[g] /\ n <= made[g] /\ taken[h] < n
      /\ cipher[h].rx # Torn /\ cipher[h].rx = S[g][n]
  BY <1>2, WhatOpens
<1>5. /\ cipher'[h].tx = cipher[h].tx /\ cipher'[g] = cipher[g]
      /\ cipher'[h].rx # Torn => cipher'[h].rx.key = cipher[h].rx.key /\ cipher'[h].rx.pos = cipher[h].rx.pos + 1
  <2>1. PICK c \in Leaves(h, "receive", "rx", Advanced(cipher[h].rx)) : cipher' = [cipher EXCEPT ![h].rx = c]
    BY <1>2
  <2>2. cipher'[h].tx = cipher[h].tx /\ cipher'[g] = cipher[g] /\ cipher'[h].rx = c
    BY <1>3, <2>1 DEF TypeInv, Ciphers
  <2>3. cipher[h].rx \in Contexts
    BY <1>4 DEF TypeInv, Ciphers
  <2>4. c = Torn \/ c = Advanced(cipher[h].rx)
    BY LeavesAre
  <2>5. c # Torn => c.key = cipher[h].rx.key /\ c.pos = cipher[h].rx.pos + 1
    BY <1>4, <2>3, <2>4 DEF Advanced, Contexts
  <2> QED
    BY <2>2, <2>5
<1>6. taken'[h] = n /\ taken'[g] = taken[g] /\ taken[h] \in Nat /\ taken[g] \in Nat
  BY <1>2, <1>3 DEF TypeInv
<1>7. /\ op'[h]["receive"] = Opened(h, o)
      /\ \A x \in Hosts, y \in Threads : x # h \/ y # "receive" => op'[x][y] = op[x][y]
  BY <1>2, ThreadsAre, BecomeOnly DEF OnlyThread
\* What the receive thread goes on to do.
<1>8. LET b == Opened(h, o)
      IN  /\ b.at \in {"idle", "count", "derive"}
          /\ b.at = "derive" => \A u : Carries(b, u) => Carries(o, u)
          /\ b.at = "count" => \A u : Carries(b, u) => u = Drawn(h, "receive", rxseq[h])
  <2>1. PICK b : b = Opened(h, o)
    OBVIOUS
  <2>2. CASE o.flag = "encrypted_message"
    BY <2>1, <2>2, IdleCarries DEF Opened
  <2>3. CASE o.flag = "asymmetric_ratchet_request"
    <3>1. PICK d : d = [key |-> o.body, secret |-> Drawn(h, "receive", rxseq[h])]
      OBVIOUS
    <3>2. b = Counting(h, "asymmetric_ratchet_response", d)
      BY <2>1, <2>3, <3>1 DEF Opened
    <3>3. b.at = "count" /\ b.flag = "asymmetric_ratchet_response" /\ b.body = d
      BY <3>2 DEF Counting, Idle
    <3> QED
      BY <2>1, <3>1, <3>3 DEF Carries, Injected
  <2>4. CASE o.flag \notin {"encrypted_message", "asymmetric_ratchet_request"}
    <3>1. b = [o EXCEPT !.at = "derive"]
      BY <2>1, <2>4 DEF Opened
    <3>2. b.at = "derive" /\ b.flag = o.flag /\ b.body = o.body
      BY <3>1 DEF Ops
    <3> QED
      BY <2>1, <3>2, SameCarries
  <2> QED
    BY <2>2, <2>3, <2>4
<1>9. PICK p : p = Packet(o)
  OBVIOUS
<1>10. p \in Coming(h) /\ p.id = n /\ \A u : Carries(p, u) <=> Carries(o, u)
  BY <1>1, <1>2, <1>9, ComingIs, PacketIs
<1>11. \A x \in Hosts, y \in Threads, u \in Secrets :
         /\ Making(x, y, u)' => \/ Making(x, y, u)
                                \/ x = h /\ y = "receive" /\ u = Drawn(h, "receive", rxseq[h])
         /\ Adding(x, y, u)' => \/ Adding(x, y, u) /\ op'[x][y] = op[x][y] /\ (x # h \/ y # "receive")
                                \/ x = h /\ y = "receive" /\ op'[x][y].at = "derive" /\ Carries(p, u)
  BY <1>7, <1>8, <1>10 DEF Making, Adding, Sending
<1>12. \A x \in Hosts : /\ Coming(x)' \subseteq Coming(x)
                        /\ At(x, "receive", "ended") = At(x, "receive", "ended")'
                        /\ At(x, "receive", "open")' => At(x, "receive", "open") /\ x # h
                        /\ At(x, "send", "ended") = At(x, "send", "ended")'
                        /\ At(x, "send", "send")' => At(x, "send", "send") /\ op'[x]["send"] = op[x]["send"]
                        /\ x # h => op'[x]["receive"] = op[x]["receive"]
  BY <1>1, <1>2, <1>7, <1>8, ThreadsAre DEF Coming, At
<1>13. \A x \in Hosts : \A u : Keyed(S, x, u)' => Keyed(S, x, u)
  <2>1. \A u : MadeWith(cipher'[h].rx, u) => MadeWith(cipher[h].rx, u)
    BY <1>4, <1>5 DEF MadeWith
  <2> QED
    BY <1>3, <1>5, <2>1 DEF Keyed
\* What has just been drawn has not been seen.
<1>14. ASSUME NEW u \in Secrets, u = Drawn(h, "receive", rxseq[h])
       PROVE  u.by = h /\ u.thread = "receive" /\ ~Seen(S, u) /\ Counted(u)'
  <2>1. u.by = h /\ u.thread = "receive" /\ u.n = rxseq[h] /\ rxseq[h] \in Nat
    BY <1>14 DEF Drawn, TypeInv
  <2>2. ~Seen(S, u)
    BY <1>2, <2>1 DEF SealInv, Numbered, Counted, At
  <2>3. Counted(u)'
    BY <1>2, <1>12, <2>1 DEF Counted
  <2> QED
    BY <2>1, <2>2, <2>3
<1>15. Sealed(S)'
  <2>1. \A x \in Hosts : taken'[x] <= made'[Peer(x)]
    BY <1>2, <1>3, <1>4, <1>6 DEF SealInv, Sealed
  <2>2. ASSUME NEW x \in Hosts, NEW y \in Threads, At(x, y, "send")'
        PROVE  op'[x][y].id \in 1..made'[x] /\ op'[x][y].seal = S[x][op'[x][y].id]
    <3>1. op'[x][y] = op[x][y]
      BY <1>7, <1>8, <2>2 DEF At
    <3> QED
      BY <1>2, <2>2, <3>1 DEF SealInv, Sealed, At
  <2>3. ASSUME NEW x \in Hosts, At(x, "receive", "ended")'
        PROVE  At(x, "send", "ended")' /\ cipher'[x].tx = Torn /\ cipher'[x].rx = Torn
    <3>1. At(x, "receive", "ended") /\ At(x, "send", "ended") /\ cipher[x].tx = Torn /\ cipher[x].rx = Torn
      BY <1>12, <2>3 DEF SealInv, Sealed
    <3> QED
      BY <1>3, <1>4, <1>5, <1>12, <3>1
  <2> QED
    BY <1>2, <1>12, <2>1, <2>2, <2>3 DEF SealInv, Sealed
<1>16. Origins'
  <2>1. \A u \in Secrets : Carries(p, u) => u.by = g
    BY <1>10 DEF SealInv, Origins
  <2> QED
    BY <1>3, <1>11, <1>12, <1>14, <2>1, ThreadsAre DEF SealInv, Origins
<1>17. Ordered(S)'
  <2>1. \A x \in Hosts : \A i, j \in Nat : i < j /\ S[x][i] # Torn /\ S[x][j] # Torn /\ S[x][i].key = S[x][j].key
                                             => S[x][i].pos < S[x][j].pos
    BY DEF SealInv, Ordered
  <2>2. \A x \in Hosts : \A i \in Nat : cipher'[x].tx # Torn /\ S[x][i] # Torn /\ S[x][i].key = cipher'[x].tx.key
                                          => S[x][i].pos < cipher'[x].tx.pos
    BY <1>3, <1>5 DEF SealInv, Ordered
  <2>3. ASSUME NEW x \in Hosts, NEW i \in Nat, cipher'[x].rx # Torn, S[Peer(x)][i] # Torn, i <= taken'[x],
               S[Peer(x)][i].key = cipher'[x].rx.key
        PROVE  S[Peer(x)][i].pos < cipher'[x].rx.pos
    <3>1. CASE x = g
      BY <1>5, <1>6, <2>3, <3>1 DEF SealInv, Ordered
    <3>2. CASE x = h
      <4>1. /\ cipher'[h].rx.pos = S[g][n].pos + 1 /\ S[g][i].key = S[g][n].key
            /\ S[g][i] # Torn /\ S[g][n] # Torn /\ i <= n
        BY <1>4, <1>5, <1>6, <2>3, <3>2
      <4>2. S[g][i] \in Contexts /\ S[g][n] \in Contexts
        BY <1>3, <1>4, <4>1 DEF SealMaps
      <4>3. S[g][i].pos \in Nat /\ S[g][n].pos \in Nat
        BY <4>2 DEF Contexts
      <4>4. i = n \/ S[g][i].pos < S[g][n].pos
        BY <1>3, <1>4, <2>1, <4>1
      <4> QED
        BY <3>2, <4>1, <4>3, <4>4
    <3> QED
      BY <1>3, <3>1, <3>2
  <2> QED
    BY <2>1, <2>2, <2>3 DEF Ordered
<1>18. Numbered(S)'
  <2>1. CountsOn
    <3>1. begun \in Nat /\ \A x \in Hosts : rxseq[x] \in Nat
      BY BoundAssumption DEF TypeInv
    <3> QED
      BY <1>2, <1>12, <3>1 DEF CountsOn
  <2>2. ASSUME NEW u \in Secrets, Seen(S, u)' PROVE Seen(S, u) \/ Counted(u)'
    <3>1. CASE u = Drawn(h, "receive", rxseq[h])
      BY <1>14, <3>1
    <3>2. CASE u # Drawn(h, "receive", rxseq[h])
      BY <1>10, <1>11, <1>12, <1>13, <2>2, <3>2 DEF Seen
    <3> QED
      BY <3>1, <3>2
  <2> QED
    BY <2>1, <2>2, NumberedStays DEF SealInv
<1>19. Unshared(S)'
  <2> SUFFICES ASSUME NEW x \in Hosts, NEW y \in Threads, NEW u \in Secrets, Making(x, y, u)'
               PROVE  ~Keyed(S, x, u)' /\ Unheard(S, Peer(x), u)'
    BY DEF Unshared
  <2>1. ~Keyed(S, x, u) /\ Unheard(S, Peer(x), u)
    <3>1. CASE Making(x, y, u)
      BY <3>1 DEF SealInv, Unshared
    <3>2. CASE x = h /\ u = Drawn(h, "receive", rxseq[h])
      BY <1>3, <1>14, <3>2, ThreadsAre DEF Seen, Unheard
    <3> QED
      BY <1>11, <3>1, <3>2
  <2> QED
    BY <1>10, <1>11, <1>12, <1>13, <2>1, PeerIs, ThreadsAre DEF Unheard
<1>20. NotYet(S)'
  <2> SUFFICES ASSUME NEW x \in Hosts, NEW y \in Threads, NEW u \in Secrets, Adding(x, y, u)'
               PROVE  /\ ~Keyed(S, x, u)'
                      /\ \A i \in Nat : MadeWith(S[Peer(x)][i], u) => taken'[x] < i
                      /\ op'[x][y].at = "install" => LET d == op'[x][y].chain IN d # <<>> /\ d[Len(d)] = u
    BY DEF NotYet
  <2>1. CASE Adding(x, y, u) /\ op'[x][y] = op[x][y] /\ (x # h \/ y # "receive")
    <3>1. \A i \in Nat : MadeWith(S[Peer(x)][i], u) => taken'[x] < i
      <4>1. CASE x = g
        BY <1>6, <2>1, <4>1 DEF SealInv, NotYet
      <4>2. CASE x = h
        BY <1>2, <1>6, <2>1, <4>2, WhileAdding DEF Threads
      <4> QED
        BY <1>3, <4>1, <4>2
    <3> QED
      BY <1>13, <2>1, <3>1 DEF SealInv, NotYet
  <2>2. CASE x = h /\ y = "receive" /\ op'[x][y].at = "derive" /\ Carries(p, u)
    BY <1>4, <1>6, <1>10, <1>13, <2>2 DEF SealInv, OnceEach
  <2> QED
    BY <1>11, <2>1, <2>2
<1>21. OnceEach(S)'
  <2> SUFFICES ASSUME NEW x \in Hosts, NEW u \in Secrets, NEW q \in Coming(x)', q.id # 0, Carries(q, u)
               PROVE  /\ \A i \in Nat : MadeWith(S[Peer(x)][i], u) => q.id < i
                      /\ taken'[x] < q.id => ~Keyed(S, x, u)' /\ ~Adding(x, "receive", u)'
                      /\ \A r \in Coming(x)' : r.id # 0 /\ Carries(r, u) => r.id = q.id
    BY DEF OnceEach
  <2>1. /\ q \in Coming(x)
        /\ \A i \in Nat : MadeWith(S[Peer(x)][i], u) => q.id < i
        /\ taken[x] < q.id => ~Keyed(S, x, u) /\ ~Adding(x, "receive", u)
        /\ \A r \in Coming(x) : r.id # 0 /\ Carries(r, u) => r.id = q.id
    BY <1>12 DEF SealInv, OnceEach
  <2>2. ASSUME taken'[x] < q.id PROVE ~Keyed(S, x, u)' /\ ~Adding(x, "receive", u)'
    <3>1. q.id \in Nat
      BY <2>1, ComingType DEF Packets
    <3>2. taken[x] < q.id /\ ~(x = h /\ Carries(p, u))
      BY <1>3, <1>4, <1>6, <1>10, <2>1, <2>2, <3>1
    <3> QED
      BY <1>11, <1>13, <2>1, <3>2, ThreadsAre
  <2> QED
    BY <1>12, <2>1, <2>2
<1>22. Ahead'
  <2> SUFFICES ASSUME NEW x \in Hosts, NEW u \in Secrets, Adding(x, "send", u)', MadeWith(cipher'[Peer(x)].tx, u)
               PROVE  /\ ~Busy(op'[Peer(x)]["receive"])
                      /\ cipher'[Peer(x)].rx = Torn \/ MadeWith(cipher'[Peer(x)].rx, u)
    BY DEF Ahead
  <2>1. Adding(x, "send", u)
    BY <1>11, ThreadsAre
  <2>2. x = h
    BY <1>2, <1>3, <1>4, <1>5, <2>1, WhileAdding
  <2> QED
    BY <1>3, <1>5, <1>12, <2>1, <2>2 DEF SealInv, Ahead
<1>23. Dark(S)'
  <2> SUFFICES ASSUME NEW x \in Hosts, NEW u \in Secrets, NEW i \in Nat, Adding(x, "send", u)',
                      MadeWith(S[Peer(x)][i], u)
               PROVE  /\ \A j \in Nat : i <= j => Hidden(S, x, S[Peer(x)][j], i)'
                      /\ Hidden(S, x, cipher[Peer(x)].tx, i)' /\ Hidden(S, x, cipher[Peer(x)].rx, i)'
                      /\ At(Peer(x), "send", "send")' => i <= op'[Peer(x)]["send"].id
                      /\ \A w \in Secrets : Adding(Peer(x), "send", w)' => Foreign(S, x, w, i)'
                      /\ ~Busy(op'[Peer(x)]["receive"])
    BY DEF Dark
  <2>1. Adding(x, "send", u)
    BY <1>11, ThreadsAre
  <2>2. x = h /\ n < i
    BY <1>2, <1>3, <2>1, WhileAdding
  <2>3. /\ \A j \in Nat : i <= j => Hidden(S, h, S[g][j], i)
        /\ Hidden(S, h, cipher[g].tx, i) /\ Hidden(S, h, cipher[g].rx, i)
        /\ At(g, "send", "send") => i <= op[g]["send"].id
        /\ \A w \in Secrets : Adding(g, "send", w) => Foreign(S, h, w, i)
        /\ ~Busy(op[g]["receive"])
    BY <2>1, <2>2 DEF SealInv, Dark
  <2>4. ASSUME NEW w \in Secrets, Foreign(S, h, w, i) PROVE Foreign(S, h, w, i)'
    <3>1. ~Carries(p, w)
      BY <1>4, <1>10, <2>2, <2>4 DEF Foreign
    <3> QED
      BY <1>11, <1>12, <1>13, <2>4, <3>1, ThreadsAre DEF Foreign
  <2>5. \A a : Hidden(S, h, a, i) => a = Torn \/ \E w \in Secrets : MadeWith(a, w) /\ Foreign(S, h, w, i)'
    BY <2>4 DEF Hidden
  <2>6. /\ \A j \in Nat : i <= j => Hidden(S, h, S[g][j], i)'
        /\ Hidden(S, h, cipher[g].tx, i)' /\ Hidden(S, h, cipher[g].rx, i)'
    BY <1>5, <2>3, <2>5 DEF Hidden
  <2>7. \A w \in Secrets : Adding(g, "send", w)' => Foreign(S, h, w, i)'
    BY <1>3, <1>11, <2>3, <2>4, ThreadsAre
  <2> QED
    BY <1>3, <1>12, <2>2, <2>3, <2>6, <2>7
<1> QED
  BY <1>15, <1>16, <1>17, <1>18, <1>19, <1>20, <1>21, <1>22, <1>23 DEF SealInv

LEMMA StillStream ==
  ASSUME TypeInv, TypeInv', NEW S \in SealMaps, SealInv(S), UNCHANGED vars
  PROVE  SealInv(S)'
<1> USE DEF vars, stateVars, netVars, historyVars
<1>1. Harmless
  <2>1. due' \in [Hosts -> SUBSET Nat] /\ taken' \in [Hosts -> Nat]
    BY DEF SealInv, Sealed, TypeInv
  <2>2. \A x \in Hosts : At(x, "receive", "ended")' => At(x, "send", "ended")' /\ cipher'[x].tx = Torn /\ cipher'[x].rx = Torn
    BY DEF SealInv, Sealed, At
  <2>3. \A x \in Hosts, t \in Threads :
          At(x, t, "install")' => LET c == op'[x][t].chain IN c # <<>> /\ c[Len(c)] = Injected(op'[x][t])
    BY ChainAdded DEF At
  <2>4. \A x \in Hosts, t \in Threads : \A u \in Secrets : Adding(x, t, u)' => Adding(x, t, u)
    BY DEF Adding
  <2>5. \A x \in Hosts : \A q \in Coming(x)' : q \in Coming(x) /\ (q.id # 0 => q.id \in due'[Peer(x)])
    BY DEF Coming, At, SealInv, Sealed
  <2> QED
    BY <2>1, <2>2, <2>3, <2>4, <2>5 DEF Harmless
<1>2. DrawsNew(S) /\ \A x \in Hosts, t \in Threads, u \in Secrets : Making(x, t, u)' => Making(x, t, u)
  BY DEF DrawsNew, Making
<1>3. CountsOn
  <2>1. begun \in Nat /\ \A x \in Hosts : rxseq[x] \in Nat
    BY BoundAssumption DEF TypeInv
  <2> QED
    BY <2>1 DEF CountsOn, At
<1> QED
  BY <1>1, <1>2, <1>3, HarmlessInv

LEMMA ClosingStream ==
  ASSUME TypeInv, TypeInv', NEW S \in SealMaps, SealInv(S), NEW h \in Hosts, Leave(h),
         wire' = wire \/ wire' = [wire EXCEPT ![h] = <<>>] \/ wire' = AfterClose(h, wire),
         made' = made, due' = due, begun' = begun, taken' = taken
  PROVE  SealInv(S)'
<1>1. PICK n : n = taken[h]
  OBVIOUS
<1>2. n \in Nat /\ taken' = [taken EXCEPT ![h] = n] /\ taken[h] <= n /\ n <= made[Peer(h)]
  BY <1>1 DEF TypeInv, SealInv, Sealed
<1> QED
  BY <1>2, LeaveStream

LEMMA ThreadStepStream ==
  ASSUME TypeInv, TypeInv', NEW S \in SealMaps, SealInv(S), NEW h \in Hosts, NEW t \in Threads, ThreadStep(h, t)
  PROVE  \E T \in SealMaps : SealInv(T)'
<1>1. CASE SealPacket(h, t)
  BY <1>1, SealStream
<1>2. CASE SendPacket(h, t)
  BY <1>2, SendStream
<1>3. CASE InstallKeys(h, t)
  BY <1>3, InstallStream
<1>4. CASE SendFails(h, t) /\ op[h][t].flag = "asymmetric_ratchet_response"
  <2>1. Leave(h) /\ wire' = AfterClose(h, wire) /\ made' = made /\ due' = due /\ begun' = begun /\ taken' = taken
    BY <1>4 DEF SendFails, Fail, historyVars
  <2> QED
    BY <2>1, ClosingStream
<1>5. CASE \/ CountPacket(h, t) \/ NumberPacket(h, t) \/ DeriveKeys(h, t) \/ KeepChain(h, t)
           \/ SendFails(h, t) /\ op[h][t].flag # "asymmetric_ratchet_response"
  BY <1>5, ThreadStream
<1> QED
  BY <1>1, <1>2, <1>3, <1>4, <1>5 DEF ThreadStep

LEMMA ReceiveLoopStream ==
  ASSUME TypeInv, TypeInv', NEW S \in SealMaps, SealInv(S), NEW h \in Hosts, ReceiveLoop(h) \/ ConnectionReset(h)
  PROVE  SealInv(S)'
<1>1. CASE TakeTerminate(h) \/ ConnectionReset(h) \/ LoopEnds(h) \/ RejectPacket(h) \/ (TakePacket(h) /\ Fail(h))
  <2>1. /\ Leave(h) /\ made' = made /\ due' = due /\ begun' = begun /\ taken' = taken
        /\ wire' = wire \/ wire' = [wire EXCEPT ![h] = <<>>] \/ wire' = AfterClose(h, wire)
    BY <1>1 DEF TakeTerminate, ConnectionReset, LoopEnds, RejectPacket, TakePacket, Fail, historyVars, netVars
  <2> QED
    BY <2>1, ClosingStream
<1>2. CASE TakePacket(h) /\ ~Fail(h)
  BY <1>2, TakeStream
<1>3. CASE OpenPacket(h)
  <2>1. CASE ~(op[h]["receive"].flag = "asymmetric_ratchet_response" /\ ~Answers(h, op[h]["receive"]))
    BY <1>3, <2>1, OpenStream
  <2>2. CASE op[h]["receive"].flag = "asymmetric_ratchet_response" /\ ~Answers(h, op[h]["receive"])
    <3>1. PICK n : n = op[h]["receive"].id
      OBVIOUS
    <3>2. /\ Fail(h) /\ taken' = [taken EXCEPT ![h] = n] /\ made' = made /\ due' = due /\ begun' = begun
          /\ At(h, "receive", "open") /\ Opens(h, op[h]["receive"])
      BY <1>3, <2>2, <3>1 DEF OpenPacket
    <3>3. n \in Nat /\ taken[h] \in Nat /\ taken[h] <= n /\ n <= made[Peer(h)]
      <4>1. taken[h] \in Nat
        BY DEF TypeInv
      <4>2. n \in Nat \ {0} /\ taken[h] < n /\ n <= made[Peer(h)]
        BY <3>1, <3>2, WhatOpens
      <4> QED
        BY <4>1, <4>2
    <3> QED
      BY <3>2, <3>3, LeaveStream DEF Fail
  <2> QED
    BY <2>1, <2>2
<1> QED
  BY <1>1, <1>2, <1>3 DEF ReceiveLoop

LEMMA ApplicationStream ==
  ASSUME TypeInv, TypeInv', NEW S \in SealMaps, SealInv(S), NEW h \in Hosts, Application(h)
  PROVE  SealInv(S)'
<1>1. CASE SendMessage(h)
  BY <1>1, BeginStream DEF SendMessage, Bodies
<1>2. CASE AskSymmetric(h) \/ AskAsymmetric(h)
  <2>1. Drawn(h, "send", begun) \in Bodies
    BY DrawnType, ThreadsAre, BoundAssumption DEF TypeInv, Bodies
  <2>2. PICK flag \in {"symmetric_ratchet_request", "asymmetric_ratchet_request"} : Begin(h, flag, Drawn(h, "send", begun))
    BY <1>2 DEF AskSymmetric, AskAsymmetric
  <2> QED
    BY <2>1, <2>2, BeginStream DEF RatchetFlags
<1>3. CASE Quit(h)
  BY <1>3, QuitStream
<1> QED
  BY <1>1, <1>2, <1>3 DEF Application

LEMMA NextStream == TypeInv /\ TypeInv' /\ StreamInv /\ [Next]_vars => StreamInv'
<1> SUFFICES ASSUME TypeInv, TypeInv', NEW S \in SealMaps, SealInv(S), [Next]_vars
             PROVE  \E T \in SealMaps : SealInv(T)'
  BY DEF StreamInv
<1>1. CASE UNCHANGED vars
  BY <1>1, StillStream
<1>2. ASSUME NEW h \in Hosts,
             \/ Application(h) \/ ReceiveLoop(h)
             \/ \E t \in Threads : ThreadStep(h, t)
             \/ ConnectionReset(h) \/ Network(h)
      PROVE  \E T \in SealMaps : SealInv(T)'
  <2>1. CASE Application(h)
    BY <2>1, ApplicationStream
  <2>2. CASE ReceiveLoop(h) \/ ConnectionReset(h)
    BY <2>2, ReceiveLoopStream
  <2>3. CASE \E t \in Threads : ThreadStep(h, t)
    BY <2>3, ThreadStepStream
  <2>4. CASE Network(h)
    BY <2>4, NetworkStream
  <2> QED
    BY <1>2, <2>1, <2>2, <2>3, <2>4
<1> QED
  BY <1>1, <1>2 DEF Next

LEMMA InitStream == Init => StreamInv
<1> SUFFICES ASSUME Init PROVE StreamInv
  OBVIOUS
<1>1. PICK S : S = [h \in Hosts |-> [i \in Nat |-> Torn]]
  OBVIOUS
<1>2. S \in SealMaps /\ \A h \in Hosts, i \in Nat : S[h][i] = Torn
  BY <1>1 DEF SealMaps
<1>3. \A h \in Hosts : /\ cipher[h].tx.key.chain = <<>> /\ cipher[h].rx.key.chain = <<>>
                       /\ \A t \in Threads : op[h][t].at = "idle"
                       /\ wire[h] = <<>> /\ made[h] = 0 /\ taken[h] = 0 /\ due[h] = {}
  BY IdleCarries DEF Init, Fresh, Key
<1>4. \A h \in Hosts : Coming(h) = {} /\ \A t \in Threads, u \in Secrets : ~Making(h, t, u) /\ ~Adding(h, t, u)
  BY <1>3, ThreadsAre DEF Coming, At, Making, Adding, Sending
<1>5. \A h \in Hosts : \A u : ~Keyed(S, h, u)
  BY <1>2, <1>3 DEF Keyed, MadeWith
<1>6. Sealed(S)
  <2>1. due \in [Hosts -> SUBSET Nat]
    BY DEF Init
  <2>2. \A h \in Hosts : taken[h] <= made[Peer(h)]
    BY <1>3, PeerIs
  <2>3. \A h \in Hosts, t \in Threads : ~At(h, t, "send") /\ ~At(h, t, "ended")
    BY <1>3 DEF At
  <2> QED
    BY <1>2, <1>4, <2>1, <2>2, <2>3, ThreadsAre DEF Sealed
<1>7. Origins /\ Unshared(S) /\ NotYet(S) /\ OnceEach(S) /\ Ahead /\ Dark(S)
  BY <1>4, ThreadsAre DEF Origins, Unshared, NotYet, OnceEach, Ahead, Dark
<1>8. Ordered(S)
  BY <1>2, PeerIs DEF Ordered
<1>9. Numbered(S)
  BY <1>4, <1>5 DEF Numbered, Seen
<1> QED
  BY <1>2, <1>6, <1>7, <1>8, <1>9 DEF StreamInv, SealInv

LEMMA StreamInvariant == Spec => []StreamInv
BY TypeInvariant, InitStream, NextStream, PTL DEF Spec

-----------------------------------------------------------------------------
(* Each step is a step of the stream *)

LEMMA OpenHosts ==
  ASSUME \A x \in Hosts : At(x, "receive", "ended")' = At(x, "receive", "ended"), taken' = taken, due' = due
  PROVE  UNCHANGED Stream!vars
BY DEF Stream!vars

LEMMA LeaveCloses ==
  ASSUME TypeInv, NEW h \in Hosts, Leave(h), ~At(h, "receive", "ended")
  PROVE  LET open == {x \in Hosts : ~At(x, "receive", "ended")} IN h \in open /\ open' = open \ {h}
<1>1. At(h, "receive", "ended")' /\ \A x \in Hosts : x # h => At(x, "receive", "ended")' = At(x, "receive", "ended")
  BY LeaveIs, ThreadsAre DEF At
<1> QED
  BY <1>1

LEMMA SameHosts == Stream!Hosts = Hosts /\ \A h : Stream!Peer(h) = Peer(h)
BY DEF Stream!Hosts, Hosts, Stream!Peer, Peer

LEMMA CloseStep ==
  ASSUME TypeInv, NEW h \in Hosts, Leave(h), ~At(h, "receive", "ended"), taken' = taken, due' = due
  PROVE  Stream!Next
<1>1. Stream!Close(h)
  BY LeaveCloses DEF Stream!Close
<1> QED
  BY <1>1, SameHosts DEF Stream!Next

LEMMA ThreadStepIsStream ==
  ASSUME TypeInv, StreamInv, NEW h \in Hosts, NEW t \in Threads, ThreadStep(h, t)
  PROVE  [Stream!Next]_Stream!vars
<1>1. PICK S \in SealMaps : SealInv(S)
  BY DEF StreamInv
<1>2. PICK o \in Ops : o = op[h][t]
  BY DEF TypeInv
<1>3. o.at # "ended" /\ ~At(h, "receive", "ended")
  <2>1. o.at # "ended"
    BY <1>2 DEF ThreadStep, CountPacket, NumberPacket, SealPacket, SendPacket, SendFails, DeriveKeys, InstallKeys, KeepChain, At
  <2> QED
    BY <1>1, <1>2, <2>1 DEF SealInv, Sealed, At, Threads
<1>4. ASSUME NEW b, Become(h, t, b), b.at # "ended"
      PROVE  \A x \in Hosts : At(x, "receive", "ended")' = At(x, "receive", "ended")
  BY <1>2, <1>3, <1>4, ThreadsAre, BecomeOnly DEF OnlyThread, At
<1>5. CASE \/ CountPacket(h, t) \/ NumberPacket(h, t) \/ SealPacket(h, t) \/ DeriveKeys(h, t) \/ InstallKeys(h, t)
           \/ KeepChain(h, t) \/ (SendFails(h, t) /\ o.flag # "asymmetric_ratchet_response")
  <2>1. \E b : Become(h, t, b) /\ b.at # "ended"
    <3>1. CASE CountPacket(h, t)
      <4>1. Become(h, t, [o EXCEPT !.at = "number"]) /\ [o EXCEPT !.at = "number"].at = "number"
        BY <1>2, <3>1, GoIs DEF CountPacket, TypeInv, Ops
      <4> QED
        BY <4>1
    <3>2. CASE NumberPacket(h, t)
      <4>1. Become(h, t, [o EXCEPT !.at = "seal", !.seq = txseq[h]]) /\ [o EXCEPT !.at = "seal", !.seq = txseq[h]].at = "seal"
        BY <1>2, <3>2 DEF NumberPacket, Ops
      <4> QED
        BY <4>1
    <3>3. CASE SealPacket(h, t)
      <4>1. PICK s : Become(h, t, [o EXCEPT !.at = "send", !.seal = s, !.id = made[h] + 1])
        BY <1>2, <3>3 DEF SealPacket
      <4>2. [o EXCEPT !.at = "send", !.seal = s, !.id = made[h] + 1].at = "send"
        BY DEF Ops
      <4> QED
        BY <4>1, <4>2
    <3>4. CASE DeriveKeys(h, t)
      <4>1. PICK b : b = [o EXCEPT !.at = "install", !.chain = Append(rtcs[h], Injected(o))]
        OBVIOUS
      <4>2. Become(h, t, b) /\ b.at = "install"
        BY <1>2, <3>4, <4>1 DEF DeriveKeys, Ops
      <4> QED
        BY <4>2
    <3>5. CASE InstallKeys(h, t)
      <4>1. Become(h, t, [o EXCEPT !.at = "keep"]) /\ [o EXCEPT !.at = "keep"].at = "keep"
        BY <1>2, <3>5, GoIs DEF InstallKeys, TypeInv, Ops
      <4> QED
        BY <4>1
    <3>6. CASE KeepChain(h, t) \/ (SendFails(h, t) /\ o.flag # "asymmetric_ratchet_response")
      BY <1>2, <3>6, IdleCarries DEF KeepChain, SendFails
    <3> QED
      BY <1>5, <3>1, <3>2, <3>3, <3>4, <3>5, <3>6
  <2>2. taken' = taken /\ due' = due
    BY <1>5 DEF CountPacket, NumberPacket, SealPacket, DeriveKeys, InstallKeys, KeepChain, SendFails, historyVars
  <2> QED
    BY <1>4, <2>1, <2>2, OpenHosts
<1>6. CASE SendPacket(h, t)
  <2>1. due' = [due EXCEPT ![h] = @ \cup {o.id}] /\ taken' = taken /\ o.at = "send"
    BY <1>2, <1>6 DEF SendPacket, At
  <2>2. \E b : Become(h, t, b) /\ b.at # "ended"
    <3>1. [o EXCEPT !.at = "derive"].at = "derive"
      BY DEF Ops
    <3> QED
      BY <1>2, <1>6, <3>1, IdleCarries DEF SendPacket
  <2>3. \A x \in Hosts : At(x, "receive", "ended")' = At(x, "receive", "ended")
    BY <1>4, <2>2
  <2>4. due \in [Hosts -> SUBSET Nat] /\ o.id \in 1..made[h] /\ made[h] \in Nat
    BY <1>1, <1>2, <2>1 DEF SealInv, Sealed, At, TypeInv
  <2>5. CASE o.id \in due[h]
    <3>1. due' = due
      BY <2>1, <2>4, <2>5
    <3> QED
      BY <2>1, <2>3, <3>1, OpenHosts
  <2>6. CASE o.id \notin due[h]
    <3>1. o.id \in due'[h] \ due[h] /\ o.id > 0
      BY <2>1, <2>4, <2>6
    <3>2. Stream!Send(h)
      BY <2>1, <2>3, <3>1 DEF Stream!Send
    <3> QED
      BY <3>2, SameHosts DEF Stream!Next
  <2> QED
    BY <2>5, <2>6
<1>7. CASE SendFails(h, t) /\ o.flag = "asymmetric_ratchet_response"
  <2>1. Leave(h) /\ taken' = taken /\ due' = due
    BY <1>2, <1>7 DEF SendFails, Fail, historyVars
  <2> QED
    BY <1>3, <2>1, CloseStep
<1> QED
  BY <1>5, <1>6, <1>7 DEF ThreadStep

LEMMA ReceiveLoopIsStream ==
  ASSUME TypeInv, StreamInv, NEW h \in Hosts, ReceiveLoop(h) \/ ConnectionReset(h)
  PROVE  [Stream!Next]_Stream!vars
<1>1. ~At(h, "receive", "ended")
  BY DEF ReceiveLoop, ConnectionReset, TakeTerminate, TakePacket, OpenPacket, RejectPacket, LoopEnds, At
<1>2. CASE TakeTerminate(h) \/ ConnectionReset(h) \/ LoopEnds(h) \/ RejectPacket(h) \/ (TakePacket(h) /\ Fail(h))
  <2>1. Leave(h) /\ taken' = taken /\ due' = due
    BY <1>2 DEF TakeTerminate, ConnectionReset, LoopEnds, RejectPacket, TakePacket, Fail, historyVars
  <2> QED
    BY <1>1, <2>1, CloseStep
<1>3. ASSUME NEW b, Become(h, "receive", b), b.at # "ended"
      PROVE  \A x \in Hosts : At(x, "receive", "ended")' = At(x, "receive", "ended")
  BY <1>1, <1>3, ThreadsAre, BecomeOnly DEF OnlyThread, At
<1>4. CASE TakePacket(h) /\ ~Fail(h)
  <2>1. PICK p : p = Head(wire[h])
    OBVIOUS
  <2>2. PICK b : b = [flag |-> p.flag, body |-> p.body, seq |-> p.seq, seal |-> p.seal, id |-> p.id,
                      at |-> "open", chain |-> <<>>]
    OBVIOUS
  <2>3. Become(h, "receive", b) /\ b.at = "open" /\ taken' = taken /\ due' = due
    BY <1>4, <2>1, <2>2 DEF TakePacket, historyVars
  <2> QED
    BY <1>3, <2>3, OpenHosts
<1>5. CASE OpenPacket(h)
  <2>1. PICK S \in SealMaps : SealInv(S)
    BY DEF StreamInv
  <2>2. PICK o \in Ops : o = op[h]["receive"]
    BY ThreadsAre DEF TypeInv
  <2>3. At(h, "receive", "open") /\ Opens(h, o) /\ taken' = [taken EXCEPT ![h] = o.id] /\ due' = due
    BY <1>5, <2>2 DEF OpenPacket
  <2>4. o.id \in due[Peer(h)] /\ o.id > taken[h]
    <3>1. taken[h] \in Nat /\ o.id \in Nat
      BY DEF TypeInv, Ops
    <3> QED
      BY <2>1, <2>2, <2>3, <3>1, WhatOpens
  <2>5. LET open == {x \in Hosts : ~At(x, "receive", "ended")} IN open' \in {open, open \ {h}}
    <3>1. CASE Fail(h)
      BY <1>1, <3>1, LeaveCloses DEF Fail
    <3>2. CASE ~Fail(h)
      <4>1. Become(h, "receive", Opened(h, o))
        BY <1>5, <2>2, <3>2 DEF OpenPacket
      <4>2. Opened(h, o).at # "ended"
        <5>1. [o EXCEPT !.at = "derive"].at = "derive"
          BY DEF Ops
        <5>2. \A flag, body : Counting(h, flag, body).at = "count"
          BY DEF Counting, Idle
        <5> QED
          BY <5>1, <5>2, IdleCarries DEF Opened
      <4>3. \A x \in Hosts : At(x, "receive", "ended")' = At(x, "receive", "ended")
        BY <1>3, <4>1, <4>2
      <4> QED
        BY <4>3
    <3> QED
      BY <3>1, <3>2
  <2>6. Stream!Accept(h)
    BY <1>1, <2>3, <2>4, <2>5, SameHosts DEF Stream!Accept
  <2> QED
    BY <2>6, SameHosts DEF Stream!Next
<1> QED
  BY <1>2, <1>4, <1>5 DEF ReceiveLoop

LEMMA NetworkIsStream ==
  ASSUME TypeInv, StreamInv, NEW h \in Hosts, Network(h)
  PROVE  [Stream!Next]_Stream!vars
<1>1. PICK w \in Seq(Packets), i \in DOMAIN wire[h] : \E gone \in {{}, {wire[h][i].id}} : Disturb(h, w, gone)
  BY NetworkIs
<1>2. PICK gone \in {{}, {wire[h][i].id}} : Disturb(h, w, gone)
  BY <1>1
<1>3. /\ due' = [due EXCEPT ![Peer(h)] = @ \ (gone \ Here(h, w))] /\ taken' = taken
      /\ \A x \in Hosts : At(x, "receive", "ended")' = At(x, "receive", "ended")
  BY <1>2 DEF Disturb, At
<1>4. due \in [Hosts -> SUBSET Nat] /\ Peer(h) \in Hosts
  BY PeerIs DEF StreamInv, SealInv, Sealed
<1>5. CASE \E n \in due[Peer(h)] : due' = [due EXCEPT ![Peer(h)] = @ \ {n}]
  <2>1. Stream!Lose(Peer(h))
    BY <1>3, <1>5 DEF Stream!Lose
  <2> QED
    BY <1>4, <2>1, SameHosts DEF Stream!Next
<1>6. CASE ~\E n \in due[Peer(h)] : due' = [due EXCEPT ![Peer(h)] = @ \ {n}]
  <2>1. PICK m : m = wire[h][i].id
    OBVIOUS
  <2>2. gone \ Here(h, w) = {} \/ gone \ Here(h, w) = {m}
    BY <1>2, <2>1
  <2>3. due[Peer(h)] \ (gone \ Here(h, w)) = due[Peer(h)]
    BY <1>3, <1>6, <2>2
  <2>4. due' = due
    BY <1>3, <1>4, <2>3
  <2> QED
    BY <1>3, <2>4, OpenHosts
<1> QED
  BY <1>5, <1>6

LEMMA ApplicationIsStream ==
  ASSUME TypeInv, NEW h \in Hosts, Application(h)
  PROVE  UNCHANGED Stream!vars
<1>1. taken' = taken /\ due' = due
  BY DEF Application, SendMessage, AskSymmetric, AskAsymmetric, Begin, Quit, historyVars
<1>2. PICK b : Become(h, "send", b)
  BY ThreadsAre, GoIs DEF Application, SendMessage, AskSymmetric, AskAsymmetric, Begin, Quit, TypeInv
<1>3. \A x \in Hosts : op'[x]["receive"] = op[x]["receive"]
  BY <1>2, ThreadsAre, BecomeOnly DEF OnlyThread
<1> QED
  BY <1>1, <1>3, OpenHosts DEF At

\* Whatever the two threads of each host race for, and whatever the network
\* loses, repeats, swaps or spoils, for any number of packets and ratchets each
\* host accepts packets of the other only, in the order in which they were
\* sealed, each at most once, and none after it has left its receive loop.
THEOREM ImplementsStream == Spec => StreamImplemented
<1>1. Init => Stream!Init
  <2> SUFFICES ASSUME Init PROVE Stream!Init
    OBVIOUS
  <2>1. {h \in Hosts : ~At(h, "receive", "ended")} = Hosts
    BY ThreadsAre, IdleCarries DEF Init, At
  <2> QED
    BY <2>1, SameHosts DEF Init, Stream!Init
<1>2. TypeInv /\ StreamInv /\ [Next]_vars => [Stream!Next]_Stream!vars
  <2> SUFFICES ASSUME TypeInv, StreamInv, [Next]_vars PROVE [Stream!Next]_Stream!vars
    OBVIOUS
  <2>1. CASE UNCHANGED vars
    <3>1. taken' = taken /\ due' = due /\ op' = op
      BY <2>1 DEF vars, historyVars
    <3> QED
      BY <3>1, OpenHosts DEF At
  <2>2. ASSUME NEW h \in Hosts,
               \/ Application(h) \/ ReceiveLoop(h)
               \/ \E t \in Threads : ThreadStep(h, t)
               \/ ConnectionReset(h) \/ Network(h)
        PROVE  [Stream!Next]_Stream!vars
    BY <2>2, ApplicationIsStream, ReceiveLoopIsStream, ThreadStepIsStream, NetworkIsStream
  <2> QED
    BY <2>1, <2>2 DEF Next
<1> QED
  BY <1>1, <1>2, TypeInvariant, StreamInvariant, PTL DEF Spec, StreamImplemented, Stream!Spec

=============================================================================
