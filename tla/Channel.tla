------------------------------ MODULE Channel -------------------------------
(***************************************************************************)
(* An established duplex session between a client and a listener: what     *)
(* qsmp_encrypt_packet and qsmp_decrypt_packet, the ratchets and the       *)
(* receive loops of qsmpclient.c do to the two connection states.  Each    *)
(* host has two threads on one connection state and no lock: the send      *)
(* thread runs the application, the receive thread runs the receive loop,  *)
(* and both seal packets and both re-key.                                  *)
(*                                                                         *)
(* A cipher context is its key and the number of packets it has processed: *)
(* the running MAC covers all of them, so a packet opens only in the state *)
(* it was sealed in.  The keys of a context are named by the direction     *)
(* they protect and by the chain of secrets the ratchets have injected.    *)
(* Cryptography is ideal.  An access to a context while the other thread   *)
(* of the host is at an access to it may leave the context, and what was   *)
(* made with it, Torn.                                                     *)
(***************************************************************************)
EXTENDS Naturals, Sequences

CONSTANTS
  Torn,        \* a context or a seal made of pieces of two
  Unset,       \* no key pair has been generated, or it has been cleared
  MaxRequests, \* bound on what the two applications ask of the session
  MaxFaults    \* bound on the faults of the network

ASSUME BoundAssumption == MaxRequests \in Nat /\ MaxFaults \in Nat

VARIABLES
  txseq, rxseq, \* the packet counters of each connection state
  rtcs,         \* its ratchet key: the secrets injected so far
  cipher,       \* its two cipher contexts, txcpr and rxcpr
  prikey,       \* the key pair m_cprkeys of each process
  op,           \* what each thread of each host is doing
  sock,         \* whether the socket of each host is open
  wire,         \* the packets on their way to each host
  begun,        \* how often the applications have used the session
  crossed,      \* history: a ratchet was started while another was under way
  made, taken,  \* history: packets sealed, and last accepted, by each host
  due,          \* history: the packets of each host sent and not lost since
  faults        \* how often the network has failed

stateVars == <<txseq, rxseq, rtcs, cipher, prikey>>
netVars == <<sock, wire, faults>>
historyVars == <<begun, crossed, made, taken, due>>
vars == <<stateVars, op, netVars, historyVars>>

Hosts == {"client", "listener"}
Threads == {"send", "receive"}
Peer(h) == IF h = "client" THEN "listener" ELSE "client"
Twin(t) == IF t = "send" THEN "receive" ELSE "send"

\* The key that protects what h sends, after the chain of secrets c.
Key(h, c) == [from |-> h, chain |-> c]
Fresh(h, c) == [tx |-> [key |-> Key(h, c), pos |-> 1],
                rx |-> [key |-> Key(Peer(h), c), pos |-> 1]]

Idle == [at |-> "idle", flag |-> "none", body |-> Unset, seq |-> 0, seal |-> Unset,
         id |-> 0, chain |-> <<>>]

Init ==
  /\ txseq = [h \in Hosts |-> 0]
  /\ rxseq = [h \in Hosts |-> 0]
  /\ rtcs = [h \in Hosts |-> <<>>]
  /\ cipher = [h \in Hosts |-> Fresh(h, <<>>)]
  /\ prikey = [h \in Hosts |-> Unset]
  /\ op = [h \in Hosts |-> [t \in Threads |-> Idle]]
  /\ sock = [h \in Hosts |-> "open"]
  /\ wire = [h \in Hosts |-> <<>>]
  /\ begun = 0
  /\ crossed = FALSE
  /\ made = [h \in Hosts |-> 0]
  /\ taken = [h \in Hosts |-> 0]
  /\ due = [h \in Hosts |-> {}]
  /\ faults = 0

At(h, t, place) == op[h][t].at = place
Become(h, t, o) == op' = [op EXCEPT ![h][t] = o]
Go(h, t, place) == op' = [op EXCEPT ![h][t].at = place]

\* The contexts a thread is about to read or write.
Touches(o) ==
  CASE o.at = "seal" -> {"tx"}
    [] o.at = "open" -> {"rx"}
    [] o.at = "install" -> {"tx", "rx"}
    [] OTHER -> {}

\* What may be left of context d of h after thread t has made it c.
Leaves(h, t, d, c) ==
  {c} \cup IF d \in Touches(op[h][Twin(t)]) THEN {Torn} ELSE {}

Advanced(c) == IF c = Torn THEN Torn ELSE [c EXCEPT !.pos = @ + 1]

-----------------------------------------------------------------------------
(* Mutants: each is a slip in the definition of the same name without its  *)
(* suffix.                                                                 *)

OpensUnchecked(h, o) == cipher[h].rx # Torn
RekeysTheAskerOnly(o) == o.flag = "symmetric_ratchet_request"
InjectedWhole(o) == o.body

-----------------------------------------------------------------------------
(* Closing *)

Terminate == [flag |-> "connection_terminate", seq |-> 0, body |-> Unset, seal |-> Unset, id |-> 0]

\* A closed socket drops what was on its way to it; the other host is told.
AfterClose(h, rest) ==
  [rest EXCEPT ![h] = <<>>,
               ![Peer(h)] = IF sock[h] = "open" /\ sock[Peer(h)] = "open"
                            THEN Append(@, Terminate) ELSE @]

CloseSocket(h) == sock' = [sock EXCEPT ![h] = "closed"]

\* The receive loop is left: it erases and frees the connection state.  What
\* the send thread does with the freed memory is not followed any further.
Leave(h) ==
  /\ op' = [op EXCEPT ![h] = [t \in Threads |-> [Idle EXCEPT !.at = "ended"]]]
  /\ txseq' = [txseq EXCEPT ![h] = 0]
  /\ rxseq' = [rxseq EXCEPT ![h] = 0]
  /\ rtcs' = [rtcs EXCEPT ![h] = <<>>]
  /\ cipher' = [cipher EXCEPT ![h] = [tx |-> Torn, rx |-> Torn]]

Fail(h) ==
  /\ CloseSocket(h)
  /\ wire' = AfterClose(h, wire)
  /\ Leave(h)

\* The application has seen enough.
Quit(h) ==
  /\ At(h, "send", "idle")
  /\ CloseSocket(h)
  /\ wire' = AfterClose(h, wire)
  /\ Go(h, "send", "ended")
  /\ UNCHANGED <<stateVars, faults, historyVars>>

LoopEnds(h) ==
  /\ sock[h] = "closed"
  /\ At(h, "receive", "idle")
  /\ Leave(h)
  /\ UNCHANGED <<prikey, netVars, historyVars>>

\* The other host is gone and the connection is reset: receive returns nothing
\* and the socket has an error.
ConnectionReset(h) ==
  /\ sock[h] = "open" /\ sock[Peer(h)] = "closed"
  /\ At(h, "receive", "idle")
  /\ CloseSocket(h)
  /\ wire' = [wire EXCEPT ![h] = <<>>]
  /\ Leave(h)
  /\ UNCHANGED <<prikey, faults, historyVars>>

-----------------------------------------------------------------------------
(* Sealing and sending a packet: both threads *)

\* cns->txseq += 1 is a load and a store, and the number of the packet is then
\* loaded again.
Counting(h, flag, body) ==
  [Idle EXCEPT !.at = "count", !.flag = flag, !.body = body, !.seq = txseq[h]]

Begin(h, flag, body) ==
  /\ At(h, "send", "idle")
  /\ begun < MaxRequests
  /\ begun' = begun + 1
  /\ Become(h, "send", Counting(h, flag, body))
  /\ UNCHANGED <<stateVars, netVars, made, taken, due>>

SendMessage(h) ==
  /\ Begin(h, "encrypted_message", Unset)
  /\ UNCHANGED crossed

RatchetFlags ==
  {"symmetric_ratchet_request", "asymmetric_ratchet_request", "asymmetric_ratchet_response"}

RatchetUnderWay ==
  \E h \in Hosts : \/ \E t \in Threads : op[h][t].flag \in RatchetFlags
                  \/ \E i \in DOMAIN wire[h] : wire[h][i].flag \in RatchetFlags

\* Secrets and key pairs are named by who draws them and when.
Drawn(h, t, n) == [by |-> h, thread |-> t, n |-> n]

AskSymmetric(h) ==
  /\ Begin(h, "symmetric_ratchet_request", Drawn(h, "send", begun))
  /\ crossed' = (crossed \/ RatchetUnderWay)

AskAsymmetric(h) ==
  /\ Begin(h, "asymmetric_ratchet_request", Drawn(h, "send", begun))
  /\ crossed' = (crossed \/ RatchetUnderWay)

CountPacket(h, t) ==
  /\ At(h, t, "count")
  /\ txseq' = [txseq EXCEPT ![h] = op[h][t].seq + 1]
  /\ Go(h, t, "number")
  /\ UNCHANGED <<rxseq, rtcs, cipher, prikey, netVars, historyVars>>

\* An asymmetric request generates its key pair here, over the last one.
NumberPacket(h, t) ==
  /\ At(h, t, "number")
  /\ Become(h, t, [op[h][t] EXCEPT !.at = "seal", !.seq = txseq[h]])
  /\ prikey' = IF op[h][t].flag = "asymmetric_ratchet_request"
               THEN [prikey EXCEPT ![h] = op[h][t].body] ELSE prikey
  /\ UNCHANGED <<txseq, rxseq, rtcs, cipher, netVars, historyVars>>

SealPacket(h, t) ==
  /\ At(h, t, "seal")
  /\ \E s \in Leaves(h, t, "tx", cipher[h].tx), c \in Leaves(h, t, "tx", Advanced(cipher[h].tx)) :
       /\ Become(h, t, [op[h][t] EXCEPT !.at = "send", !.seal = s, !.id = made[h] + 1])
       /\ cipher' = [cipher EXCEPT ![h].tx = c]
  /\ made' = [made EXCEPT ![h] = @ + 1]
  /\ UNCHANGED <<txseq, rxseq, rtcs, prikey, netVars, begun, crossed, taken, due>>

Packet(o) == [flag |-> o.flag, seq |-> o.seq, body |-> o.body, seal |-> o.seal, id |-> o.id]

\* The sender of a symmetric request, and the answerer of an asymmetric one,
\* re-key as soon as the packet is sent.
Rekeys(o) == o.flag \in {"symmetric_ratchet_request", "asymmetric_ratchet_response"}

SendPacket(h, t) ==
  LET o == op[h][t]
  IN /\ At(h, t, "send")
     /\ sock[h] = "open"
     /\ wire' = IF sock[Peer(h)] = "open"
                THEN [wire EXCEPT ![Peer(h)] = Append(@, Packet(o))] ELSE wire
     /\ Become(h, t, IF Rekeys(o) THEN [o EXCEPT !.at = "derive"] ELSE Idle)
     /\ due' = [due EXCEPT ![h] = @ \cup {o.id}]
     /\ UNCHANGED <<stateVars, sock, faults, begun, crossed, made, taken>>

\* The socket does not take the packet.  Only the answer to an asymmetric
\* request is missed.
SendFails(h, t) ==
  /\ At(h, t, "send")
  /\ IF op[h][t].flag = "asymmetric_ratchet_response"
     THEN Fail(h)
     ELSE /\ Become(h, t, Idle)
          /\ UNCHANGED <<txseq, rxseq, rtcs, cipher, sock, wire>>
  /\ UNCHANGED <<prikey, faults, historyVars>>

-----------------------------------------------------------------------------
(* symmetric_ratchet: both threads *)

Injected(o) == IF o.flag = "symmetric_ratchet_request" THEN o.body ELSE o.body.secret

DeriveKeys(h, t) ==
  /\ At(h, t, "derive")
  /\ Become(h, t, [op[h][t] EXCEPT !.at = "install", !.chain = Append(rtcs[h], Injected(op[h][t]))])
  /\ UNCHANGED <<stateVars, netVars, historyVars>>

InstallKeys(h, t) ==
  LET new == Fresh(h, op[h][t].chain)
  IN /\ At(h, t, "install")
     /\ \E tx \in Leaves(h, t, "tx", new.tx), rx \in Leaves(h, t, "rx", new.rx) :
          cipher' = [cipher EXCEPT ![h] = [tx |-> tx, rx |-> rx]]
     /\ Go(h, t, "keep")
     /\ UNCHANGED <<txseq, rxseq, rtcs, prikey, netVars, historyVars>>

KeepChain(h, t) ==
  /\ At(h, t, "keep")
  /\ rtcs' = [rtcs EXCEPT ![h] = op[h][t].chain]
  /\ Become(h, t, Idle)
  /\ UNCHANGED <<txseq, rxseq, cipher, prikey, netVars, historyVars>>

-----------------------------------------------------------------------------
(* The receive loop *)

Rest(h) == [wire EXCEPT ![h] = Tail(@)]

TakeTerminate(h) ==
  /\ At(h, "receive", "idle")
  /\ sock[h] = "open" /\ wire[h] # <<>>
  /\ Head(wire[h]).flag = "connection_terminate"
  /\ CloseSocket(h)
  /\ wire' = [wire EXCEPT ![h] = <<>>]
  /\ Leave(h)
  /\ UNCHANGED <<prikey, faults, historyVars>>

InOrder(h, p) == p.seq = rxseq[h] + 1

TakePacket(h) ==
  LET p == Head(wire[h])
  IN /\ At(h, "receive", "idle")
     /\ sock[h] = "open" /\ wire[h] # <<>>
     /\ p.flag # "connection_terminate"
     /\ \/ /\ InOrder(h, p)
           /\ rxseq' = [rxseq EXCEPT ![h] = @ + 1]
           /\ Become(h, "receive", [flag |-> p.flag, body |-> p.body, seq |-> p.seq, seal |-> p.seal,
                                    id |-> p.id, at |-> "open", chain |-> <<>>])
           /\ wire' = Rest(h)
           /\ UNCHANGED <<txseq, rtcs, cipher, sock>>
        \/ ~InOrder(h, p) /\ Fail(h)
     /\ UNCHANGED <<prikey, faults, historyVars>>

Opens(h, o) == cipher[h].rx # Torn /\ o.seal = cipher[h].rx

\* The response was made for the key pair this host holds.
Answers(h, o) == o.body.key = prikey[h]

\* What the receive thread does once the packet is open.
Opened(h, o) ==
  CASE o.flag = "encrypted_message" -> Idle
    [] o.flag = "asymmetric_ratchet_request" ->
         Counting(h, "asymmetric_ratchet_response",
                  [key |-> o.body, secret |-> Drawn(h, "receive", rxseq[h])])
    [] OTHER -> [o EXCEPT !.at = "derive"]

OpenPacket(h) ==
  LET o == op[h]["receive"]
  IN /\ At(h, "receive", "open")
     /\ Opens(h, o)
     /\ taken' = [taken EXCEPT ![h] = o.id]
     /\ IF o.flag = "asymmetric_ratchet_response" /\ ~Answers(h, o)
        THEN Fail(h) /\ UNCHANGED prikey
        ELSE /\ \E c \in Leaves(h, "receive", "rx", Advanced(cipher[h].rx)) :
                  cipher' = [cipher EXCEPT ![h].rx = c]
             /\ Become(h, "receive", Opened(h, o))
             /\ prikey' = IF o.flag = "asymmetric_ratchet_response"
                          THEN [prikey EXCEPT ![h] = Unset] ELSE prikey
             /\ UNCHANGED <<txseq, rxseq, rtcs, sock, wire>>
     /\ UNCHANGED <<faults, begun, crossed, made, due>>

RejectPacket(h) ==
  LET o == op[h]["receive"]
  IN /\ At(h, "receive", "open")
     /\ ~Opens(h, o) \/ "rx" \in Touches(op[h]["send"])
     /\ Fail(h)
     /\ UNCHANGED <<prikey, faults, historyVars>>

-----------------------------------------------------------------------------
(* The network *)

\* What h has received, or may still receive when w is on its way to it.
Here(h, w) == {w[i].id : i \in DOMAIN w}
                \cup IF At(h, "receive", "open") THEN {op[h]["receive"].id} ELSE {}

Disturb(h, w, gone) ==
  /\ faults < MaxFaults
  /\ faults' = faults + 1
  /\ wire' = [wire EXCEPT ![h] = w]
  /\ due' = [due EXCEPT ![Peer(h)] = @ \ (gone \ Here(h, w))]
  /\ UNCHANGED <<stateVars, op, sock, begun, crossed, made, taken>>

Lose(h, i) ==
  Disturb(h, SubSeq(wire[h], 1, i - 1) \o SubSeq(wire[h], i + 1, Len(wire[h])), {wire[h][i].id})
Repeat(h, i) ==
  Disturb(h, SubSeq(wire[h], 1, i) \o SubSeq(wire[h], i, Len(wire[h])), {})
\* What is left is nobody's packet.
Garble(h, i) ==
  Disturb(h, [wire[h] EXCEPT ![i].seal = Torn, ![i].id = 0], {wire[h][i].id})
Swap(h, i) ==
  /\ i < Len(wire[h])
  /\ Disturb(h, [wire[h] EXCEPT ![i] = wire[h][i + 1], ![i + 1] = wire[h][i]], {})

Network(h) == \E i \in DOMAIN wire[h] : Lose(h, i) \/ Repeat(h, i) \/ Garble(h, i) \/ Swap(h, i)

-----------------------------------------------------------------------------
ThreadStep(h, t) ==
  \/ CountPacket(h, t) \/ NumberPacket(h, t) \/ SealPacket(h, t)
  \/ SendPacket(h, t) \/ SendFails(h, t)
  \/ DeriveKeys(h, t) \/ InstallKeys(h, t) \/ KeepChain(h, t)

Application(h) == SendMessage(h) \/ AskSymmetric(h) \/ AskAsymmetric(h) \/ Quit(h)

ReceiveLoop(h) ==
  \/ TakeTerminate(h) \/ TakePacket(h) \/ OpenPacket(h) \/ RejectPacket(h)
  \/ LoopEnds(h)

Next ==
  \E h \in Hosts :
    \/ Application(h) \/ ReceiveLoop(h)
    \/ \E t \in Threads : ThreadStep(h, t)
    \/ ConnectionReset(h) \/ Network(h)

Spec == Init /\ [][Next]_vars

-----------------------------------------------------------------------------
(* Properties *)

Secrets == [by : Hosts, thread : Threads, n : Nat]
Contexts == [key : [from : Hosts, chain : Seq(Secrets)], pos : Nat]
Places == {"idle", "count", "number", "seal", "send", "derive", "install", "keep", "open", "ended"}

\* The variables have their types: what is injected into a chain is a secret.
TypeOK ==
  /\ txseq \in [Hosts -> Nat] /\ rxseq \in [Hosts -> Nat]
  /\ rtcs \in [Hosts -> Seq(Secrets)]
  /\ \A h \in Hosts : \A d \in {"tx", "rx"} : cipher[h][d] = Torn \/ cipher[h][d] \in Contexts
  /\ \A h \in Hosts : \A t \in Threads : op[h][t].at \in Places
  /\ sock \in [Hosts -> {"open", "closed"}]
  /\ made \in [Hosts -> Nat] /\ taken \in [Hosts -> Nat]
  /\ begun \in 0..MaxRequests /\ crossed \in BOOLEAN /\ faults \in 0..MaxFaults

\* The session implements SecureStream: whatever the threads of a host race for
\* and the network does to the packets, each host accepts the packets of the
\* other in the order in which they were sealed, each at most once, nothing else,
\* and nothing after it has closed.
Stream == INSTANCE SecureStream WITH open <- {h \in Hosts : ~At(h, "receive", "ended")}
StreamImplemented == Stream!Spec

\* Nothing is under way and neither host has given up.
AtRest ==
  /\ \A h \in Hosts : sock[h] = "open" /\ wire[h] = <<>>
  /\ \A h \in Hosts, t \in Threads : At(h, t, "idle")
  /\ faults = 0

Whole == \A h \in Hosts, d \in {"tx", "rx"} : cipher[h][d] # Torn

SameKeys ==
  /\ rtcs["client"] = rtcs["listener"]
  /\ \A h \in Hosts : cipher[h].tx.key = cipher[Peer(h)].rx.key

\* As long as no ratchet is started while another is under way, both hosts hold
\* the same keys whenever the session is at rest, unless a context was torn: what
\* the two threads of each host do at once meanwhile is otherwise harmless or ends
\* the session.  Nothing is said of a session with a torn context (Whole).
KeysAgreeAtRest == AtRest /\ Whole /\ ~crossed => SameKeys

\* The functions that send a ratchet request return true when "the operation
\* succeeded" (qsmpclient.h): at rest both hosts hold the same keys.
RatchetsSucceed == AtRest /\ Whole => SameKeys
=============================================================================
