------------------------------ MODULE KexWire -------------------------------
(***************************************************************************)
(* What the two key exchanges of kex.c have in common: two hosts that take *)
(* turns in sending a packet over a TCP connection and waiting for its     *)
(* answer, the checks every received packet goes through, the way an       *)
(* exchange is given up, and the keys it ends with.  SimplexKex and        *)
(* DuplexKex add the packets and the steps that make and read them.        *)
(*                                                                         *)
(* A packet is its flag, its sequence number and its body.  Of its length  *)
(* only this matters: a host waits for exactly the bytes of the packet it  *)
(* wants, and an error packet is too short for every packet with a body    *)
(* but satisfies the wait for a bare one.                                  *)
(*                                                                         *)
(* Cryptography is ideal: a signature names its key and its data, a secret *)
(* is recovered with the matching private key alone, keys derived from     *)
(* different seeds differ, and a hash stands for what was hashed.          *)
(***************************************************************************)
EXTENDS Integers, Sequences

CONSTANTS
  PublicKeys,   \* the encryption keys a host may generate
  Secrets,      \* the secrets a host may encapsulate
  Garbled,      \* what a corrupted field of a packet reads as
  Erased,       \* a key, a cookie or a channel that is not set
  NoPacket,     \* no packet has been created yet
  MaxGarbled,   \* bound on the corrupted fields
  ErrorEndsSession  \* whether the server's receive loop closes on an error packet

ASSUME BoundAssumption == MaxGarbled \in Nat

VARIABLES
  at,       \* where each host is in its key exchange function
  exflag,   \* the exchange flag of its connection state
  txseq,    \* the sequence counters of its connection state
  rxseq,
  kex,      \* the key exchange state of each host
  channel,  \* the ciphers and the ratchet key of its connection state
  agreed,   \* history: what the server derived its keys from
  out,      \* the packet it has created last
  want,     \* the packet it will wait for: its flag, and whether it is bare
  err,      \* the error its exchange ends with
  wire,     \* the packets on their way to each host
  ended,    \* the hosts that have shut their socket down
  link,     \* "up" until the connection is lost
  garbled   \* how many fields were corrupted

posVars == <<at, out, want, err>>
netVars == <<wire, ended, link, garbled>>
keyVars == <<kex, channel, agreed>>
wireVars == <<posVars, exflag, txseq, rxseq, netVars, keyVars>>

Roles == {"client", "server"}
Other(r) == IF r = "client" THEN "server" ELSE "client"

\* The sequence number of error packets, which no exchange reaches.
Terminator == -1

\* Session cookie, private encryption key (named by the public one), and in the
\* duplex exchange the client's own secret and the key the server looked up.
NoExchange == [sch |-> Erased, prikey |-> Erased, ssec |-> Erased, rver |-> Erased]

Wanted(flag, bare) == [flag |-> flag, bare |-> bare]
Nothing == Wanted("none", FALSE)

WireInit ==
  /\ at = [r \in Roles |-> IF r = "client" THEN "start" ELSE "receive"]
  /\ exflag = [r \in Roles |-> "none"]
  /\ txseq = [r \in Roles |-> 0]
  /\ rxseq = [r \in Roles |-> 0]
  /\ kex = [r \in Roles |-> NoExchange]
  /\ channel = [r \in Roles |-> Erased]
  /\ agreed = <<>>
  /\ out = [r \in Roles |-> NoPacket]
  /\ want = [r \in Roles |-> IF r = "client" THEN Nothing ELSE Wanted("connect_request", FALSE)]
  /\ err = [r \in Roles |-> "none"]
  /\ wire = [r \in Roles |-> <<>>]
  /\ ended = {}
  /\ link = "up"
  /\ garbled = 0

-----------------------------------------------------------------------------
(* Mutants: each is a slip in the definition of the same name without its  *)
(* suffix.                                                                 *)

SentSeqTwice(r) == txseq[r] + 2
SentSeqKept(r) == txseq[r]
ShutDownForgotten(r) == ended
SessionOverIfLost(r) == link = "down"
ServerChannelUncrossed(seed) == [tx |-> [n |-> 1, seed |-> seed], rx |-> [n |-> 2, seed |-> seed],
                                 rtc |-> [n |-> 3, seed |-> seed]]

-----------------------------------------------------------------------------
(* Keys *)

Sign(key, data) == [by |-> key, data |-> data]
Verifies(sig, key) == sig # Garbled /\ sig.by = key
Encapsulate(secret, key) == [secret |-> secret, key |-> key]
Decapsulates(r, cpt) == cpt # Garbled /\ cpt.key = kex[r].prikey

\* Checks of a signature, and of the hash it holds against the received data.
SignatureVerdict(sig, key, data) ==
  CASE ~Verifies(sig, key) -> "authentication_failure"
    [] Verifies(sig, key) /\ sig.data # data -> "hash_invalid"
    [] OTHER -> "none"

\* The n-th key squeezed from a seed: the two channels and the ratchet key.
Derived(n, seed) == [n |-> n, seed |-> seed]
ClientChannel(seed) ==
  [tx |-> Derived(1, seed), rx |-> Derived(2, seed), rtc |-> Derived(3, seed)]

ServerChannel(seed) ==
  [rx |-> Derived(1, seed), tx |-> Derived(2, seed), rtc |-> Derived(3, seed)]

-----------------------------------------------------------------------------
(* Creating and sending packets *)

Go(r, place) == at' = [at EXCEPT ![r] = place]
SetFlag(r, flag) == exflag' = [exflag EXCEPT ![r] = flag]

\* A step of the exchange creates a packet and says what answer it expects, or
\* finds an error; the error clears the exchange flag.
Create(r, flag, body, answer) ==
  /\ Go(r, "send")
  /\ out' = [out EXCEPT ![r] = [flag |-> flag, seq |-> txseq[r], body |-> body]]
  /\ want' = [want EXCEPT ![r] = answer]
  /\ UNCHANGED err
Refuse(r, code) ==
  /\ Go(r, "failing")
  /\ err' = [err EXCEPT ![r] = code]
  /\ exflag' = [exflag EXCEPT ![r] = "none"]
  /\ UNCHANGED <<out, want>>

\* The state of the exchange itself is cleared when the exchange ends.
ClearExchange(r) == kex' = [kex EXCEPT ![r] = NoExchange]

\* Sending; after the last packet the host has nothing to wait for.
SentSeq(r) == txseq[r] + 1
Send(r) ==
  /\ at[r] = "send"
  /\ \/ /\ link = "up"
        /\ wire' = [wire EXCEPT ![Other(r)] = Append(@, out[r])]
        /\ txseq' = [txseq EXCEPT ![r] = SentSeq(r)]
        /\ \/ want[r] = Nothing /\ Go(r, "session") /\ ClearExchange(r)
           \/ want[r] # Nothing /\ Go(r, "receive") /\ UNCHANGED kex
        /\ UNCHANGED err
     \/ /\ link = "down"
        /\ Go(r, "failing")
        /\ err' = [err EXCEPT ![r] = "transmit_failure"]
        /\ UNCHANGED <<wire, txseq, kex>>
  /\ UNCHANGED <<exflag, rxseq, out, want, ended, link, garbled, channel, agreed>>

-----------------------------------------------------------------------------
(* Receiving, qsc_socket_receive with the wait_all flag *)

\* The bytes the host waits for are there, or they will never come.
Arrived(r) ==
  /\ wire[r] # <<>>
  /\ want[r].bare \/ Head(wire[r]).flag = want[r].flag
CutOff(r) == ~Arrived(r) /\ (Other(r) \in ended \/ link = "down")

\* What a packet with another flag than the wanted one counts as.
Unexpected(flag) ==
  CASE flag \in {"connect_request", "connect_response"} -> "connect_failure"
    [] flag = "exchange_request" -> "exchange_failure"
    [] OTHER -> "establish_failure"

\* The duplex server does not look at the sequence of the establish request.
InSequence(r) == want[r].flag = "establish_request" \/ Head(wire[r]).seq = rxseq[r]

\* The checks on what was received, in the code's order.
Outcome(r) ==
  CASE CutOff(r) -> "receive_failure"
    [] ~CutOff(r) /\ ~InSequence(r) -> "packet_unsequenced"
    [] ~CutOff(r) /\ InSequence(r) /\ Head(wire[r]).flag # want[r].flag ->
         IF Head(wire[r]).flag = "error_condition" THEN Head(wire[r]).body
         ELSE Unexpected(want[r].flag)
    [] OTHER -> "none"

\* The counters and flags of a host that fails are erased when it gives up.
ReceiveFails(r) ==
  /\ at[r] = "receive"
  /\ Arrived(r) \/ CutOff(r)
  /\ Outcome(r) # "none"
  /\ err' = [err EXCEPT ![r] = Outcome(r)]
  /\ Go(r, "failing")
  /\ UNCHANGED <<exflag, txseq, rxseq, out, want, netVars, keyVars>>

Receive(r, flag) ==
  /\ at[r] = "receive"
  /\ want[r].flag = flag
  /\ Arrived(r)
  /\ Outcome(r) = "none"
  /\ wire' = [wire EXCEPT ![r] = Tail(@)]
  /\ rxseq' = [rxseq EXCEPT ![r] = @ + 1]
  /\ UNCHANGED <<txseq, ended, link, garbled>>

-----------------------------------------------------------------------------
(* Giving up, and what happens to a connection from outside *)

\* qsmp_connection_state_dispose
Dispose(r) ==
  /\ exflag' = [exflag EXCEPT ![r] = "none"]
  /\ txseq' = [txseq EXCEPT ![r] = 0]
  /\ rxseq' = [rxseq EXCEPT ![r] = 0]
  /\ channel' = [channel EXCEPT ![r] = Erased]

\* The error packet, the shutdown of the socket and the erased connection state.
ShutDown(r) == ended \cup {r}
GiveUp(r) ==
  /\ at[r] = "failing"
  /\ wire' = IF link = "up"
             THEN [wire EXCEPT ![Other(r)] =
                    Append(@, [flag |-> "error_condition", seq |-> Terminator, body |-> err[r]])]
             ELSE wire
  /\ ended' = ShutDown(r)
  /\ ClearExchange(r)
  /\ Dispose(r)
  /\ Go(r, "failed")
  /\ UNCHANGED <<out, want, err, link, garbled, agreed>>

\* After the exchange the receive loop of an established session closes on a
\* lost connection (a reset counts as lost).  On a flag it does not know the loop
\* of qsmpserver.c closes too, while those of qsmpclient.c look only at the last
\* socket error, and an orderly shutdown of the other side is none.
SessionOver(r) ==
  \/ link = "down"
  \/ /\ ErrorEndsSession
     /\ r = "server"
     /\ wire[r] # <<>>
     /\ Head(wire[r]).flag = "error_condition"
SessionEnds(r) ==
  /\ at[r] = "session"
  /\ SessionOver(r)
  /\ ended' = ShutDown(r)
  /\ Dispose(r)
  /\ Go(r, "closed")
  /\ UNCHANGED <<out, want, err, wire, link, garbled, kex, agreed>>

\* The connection is lost; what was on its way arrives or is lost with it.
Drop ==
  /\ link = "up"
  /\ link' = "down"
  /\ \E lost \in SUBSET Roles : wire' = [r \in Roles |-> IF r \in lost THEN <<>> ELSE wire[r]]
  /\ UNCHANGED <<posVars, exflag, txseq, rxseq, keyVars, ended, garbled>>

\* The packet that arrives next is corrupted in its sequence number or in a
\* field of its body.
GarbledForms(p) ==
  {[p EXCEPT !.seq = Garbled]} \cup {[p EXCEPT !.body[f] = Garbled] : f \in DOMAIN p.body}
Garble(r) ==
  /\ garbled < MaxGarbled
  /\ wire[r] # <<>>
  /\ Head(wire[r]).flag # "error_condition"
  /\ \E p \in GarbledForms(Head(wire[r])) : wire' = [wire EXCEPT ![r] = <<p>> \o Tail(@)]
  /\ garbled' = garbled + 1
  /\ UNCHANGED <<posVars, exflag, txseq, rxseq, keyVars, ended, link>>

HostStep(r) == Send(r) \/ ReceiveFails(r) \/ GiveUp(r) \/ SessionEnds(r)
Network == Drop \/ \E r \in Roles : Garble(r)

-----------------------------------------------------------------------------
(* Properties of both exchanges *)

Places == {"start", "send", "receive", "failing", "failed", "session", "closed"}
Flags == {"none", "connect_request", "connect_response", "exchange_request", "exchange_response",
          "establish_request", "establish_response", "session_established"}

\* Each host sends a number of packets at most; there are never more than two
\* before the other one.
WireTypeOK(packets) ==
  /\ at \in [Roles -> Places]
  /\ exflag \in [Roles -> Flags]
  /\ txseq \in [Roles -> 0 .. packets] /\ rxseq \in [Roles -> 0 .. packets]
  /\ ended \subseteq Roles
  /\ link \in {"up", "down"}
  /\ garbled \in 0 .. MaxGarbled
  /\ \A r \in Roles : Len(wire[r]) <= 2

Established(r) == exflag[r] = "session_established"
Down(r) == at[r] \in {"failed", "closed"}

\* When both hosts are established, what one encrypts the other decrypts: the
\* channels are crossed, the ratchet keys are the same, and each counts the
\* packets of the other from the number the other will use next.
KeyAgreement ==
  Established("client") /\ Established("server") =>
    /\ channel["client"].tx = channel["server"].rx
    /\ channel["client"].rx = channel["server"].tx
    /\ channel["client"].tx # channel["client"].rx
    /\ channel["client"].rtc = channel["server"].rtc
    /\ \A r \in Roles : txseq[r] = rxseq[Other(r)]

\* The packets on their way to a host that still takes part carry exactly the
\* next numbers it expects; only a corrupted number or an error packet does not.
SequenceKept ==
  \A r \in Roles : ~Down(r) =>
    \A i \in DOMAIN wire[r] :
      \/ wire[r][i].flag = "error_condition"
      \/ wire[r][i].seq \in {Garbled, rxseq[r] + i - 1}

\* "Any error during the key exchange will generate an error-packet sent to the
\* remote host, which will trigger a tear down of the session, and network
\* connection on both sides": when one host fails, the other one goes down.
ErrorsTearDownBoth ==
  \A r \in Roles : at[r] = "failed" ~> Down(Other(r))

\* The part of it that does not depend on the receive loop of the session: a host
\* that fails takes down the other one unless that is already established.
ErrorsEndTheExchange ==
  \A r \in Roles : at[r] = "failed" /\ at[Other(r)] # "session" ~> Down(Other(r))

\* No exchange hangs: each host ends established, failed or closed, although no
\* receive has a timeout.
EveryExchangeEnds ==
  \A r \in Roles : <>(at[r] = "session" \/ Down(r))

\* How Handshake sees a host.
Status(r) ==
  CASE Established(r) -> "up"
    [] Down(r) -> "down"
    [] OTHER -> "trying"
SessionKeys(r) == IF Established(r) THEN channel[r].rtc.seed ELSE <<>>
=============================================================================
