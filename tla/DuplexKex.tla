----------------------------- MODULE DuplexKex ------------------------------
(***************************************************************************)
(* The duplex key exchange of kex.c between a client and a listener, where *)
(* both sign and both contribute a secret:                                 *)
(*   client    connect request     key identity and configuration          *)
(*   listener  connect response    signed hash of a public key, the key    *)
(*   client    exchange request    a secret encapsulated to that key and a *)
(*                                 public key of its own, signed           *)
(*   listener  exchange response   a secret encapsulated to that one,      *)
(*                                 signed                                  *)
(*   client    establish request   bare: its channels are raised           *)
(*   listener  establish response  bare: so are the listener's             *)
(* The listener is the "server" of KexWire.                                *)
(***************************************************************************)
EXTENDS KexWire

CONSTANTS
  Identities,   \* key identity, signature key and configuration of a listener
  ClientKeys    \* signature keys of clients

\* A key identity is generated with its signature key, and a corrupted
\* configuration is not that of another host.
ASSUME IdentitiesAssumption ==
  /\ Identities \subseteq [kid : {i.kid : i \in Identities}, ver : {i.ver : i \in Identities},
                           cfg : {i.cfg : i \in Identities}]
  /\ \A i, j \in Identities : i.ver = j.ver => i.kid = j.kid
  /\ \A i \in Identities : Garbled # i.cfg

VARIABLES
  id,           \* the listener's identity, and the one the client asks for
  ckey          \* the signature key of the client

vars == <<wireVars, id, ckey>>
ownVars == <<id, ckey>>

Init ==
  /\ WireInit
  /\ id \in [Roles -> Identities]
  /\ ckey \in ClientKeys

\* H(cfg, kid, client's signature key, listener's signature key)
Cookie(r, key) == [cfg |-> id[r].cfg, kid |-> id[r].kid, client |-> key, server |-> id[r].ver]

-----------------------------------------------------------------------------
(* Mutants: each is a slip in the definition of the same name without its  *)
(* suffix.                                                                 *)

SecretVerdictUnsigned(body) ==
  CASE exflag["server"] # "connect_response" -> "invalid_request"
    [] exflag["server"] = "connect_response" /\ ~Decapsulates("server", body.cpt) ->
         "decapsulation_failure"
    [] OTHER -> "none"
RequestVerdictAnyConfig(body, known, expired) ==
  CASE known = Erased -> "key_unrecognized"
    [] known # Erased /\ expired -> "key_expired"
    [] OTHER -> "none"

-----------------------------------------------------------------------------
(* The steps of the exchange *)

\* kex_duplex_client_connect_request
ClientConnectRequest ==
  /\ at["client"] = "start"
  /\ \/ /\ Create("client", "connect_request", [kid |-> id["client"].kid, cfg |-> id["client"].cfg],
                  Wanted("connect_response", FALSE))
        /\ SetFlag("client", "connect_request")
        /\ kex' = [kex EXCEPT !["client"].sch = Cookie("client", ckey)]
     \/ /\ Refuse("client", "key_expired")
        /\ UNCHANGED kex
  /\ UNCHANGED <<txseq, rxseq, netVars, channel, agreed, ownVars>>

\* kex_duplex_server_connect_response: the application's key query finds some
\* client's key for the identity in the request, or none.  The listener does not
\* compare that identity with its own.
RequestVerdict(body, known, expired) ==
  CASE known = Erased -> "key_unrecognized"
    [] known # Erased /\ expired -> "key_expired"
    [] known # Erased /\ ~expired /\ body.cfg # id["server"].cfg -> "unknown_protocol"
    [] OTHER -> "none"
ServerConnectResponse ==
  /\ Receive("server", "connect_request")
  /\ \E known \in ClientKeys \cup {Erased}, expired \in BOOLEAN :
       LET verdict == RequestVerdict(Head(wire["server"]).body, known, expired)
           found == [kex["server"] EXCEPT !.rver = known] IN
       \/ /\ verdict = "none"
          /\ \E pk \in PublicKeys :
               /\ kex' = [kex EXCEPT !["server"] =
                           [found EXCEPT !.sch = Cookie("server", known), !.prikey = pk]]
               /\ Create("server", "connect_response",
                         [sig |-> Sign(id["server"].ver, pk), pk |-> pk],
                         Wanted("exchange_request", FALSE))
          /\ SetFlag("server", "connect_response")
       \/ /\ verdict # "none"
          /\ Refuse("server", verdict)
          /\ kex' = [kex EXCEPT !["server"] = found]
  /\ UNCHANGED <<channel, agreed, ownVars>>

\* kex_duplex_client_exchange_request
ResponseVerdict(body) ==
  IF exflag["client"] # "connect_request" THEN "invalid_request"
  ELSE SignatureVerdict(body.sig, id["client"].ver, body.pk)
ClientExchangeRequest ==
  /\ Receive("client", "connect_response")
  /\ LET body == Head(wire["client"]).body
         verdict == ResponseVerdict(body) IN
     \/ /\ verdict = "none"
        /\ \E secret \in Secrets, pk \in PublicKeys :
             LET cpt == Encapsulate(secret, body.pk) IN
             /\ kex' = [kex EXCEPT !["client"].ssec = secret, !["client"].prikey = pk]
             /\ Create("client", "exchange_request",
                       [cpt |-> cpt, pk |-> pk, sig |-> Sign(ckey, <<cpt, pk>>)],
                       Wanted("exchange_response", FALSE))
        /\ SetFlag("client", "exchange_request")
     \/ /\ verdict # "none"
        /\ Refuse("client", verdict)
        /\ UNCHANGED kex
  /\ UNCHANGED <<channel, agreed, ownVars>>

\* kex_duplex_server_exchange_response
SecretVerdict(body) ==
  LET signed == SignatureVerdict(body.sig, kex["server"].rver, <<body.cpt, body.pk>>) IN
  CASE exflag["server"] # "connect_response" -> "invalid_request"
    [] exflag["server"] = "connect_response" /\ signed # "none" -> signed
    [] /\ exflag["server"] = "connect_response"
       /\ signed = "none"
       /\ ~Decapsulates("server", body.cpt) -> "decapsulation_failure"
    [] OTHER -> "none"
ServerExchangeResponse ==
  /\ Receive("server", "exchange_request")
  /\ LET body == Head(wire["server"]).body IN
     \/ /\ SecretVerdict(body) = "none"
        /\ \E secret \in Secrets :
             LET cpt == Encapsulate(secret, body.pk) IN
             /\ channel' = [channel EXCEPT !["server"] =
                             ServerChannel(<<body.cpt.secret, kex["server"].sch, secret>>)]
             /\ Create("server", "exchange_response",
                       [cpt |-> cpt, sig |-> Sign(id["server"].ver, cpt)],
                       Wanted("establish_request", TRUE))
        /\ SetFlag("server", "exchange_response")
     \/ /\ SecretVerdict(body) # "none"
        /\ Refuse("server", SecretVerdict(body))
        /\ UNCHANGED channel
  /\ UNCHANGED <<kex, agreed, ownVars>>

\* kex_duplex_client_establish_request
AnswerVerdict(body) ==
  LET signed == SignatureVerdict(body.sig, id["client"].ver, body.cpt) IN
  CASE exflag["client"] # "exchange_request" -> "invalid_request"
    [] exflag["client"] = "exchange_request" /\ signed # "none" -> signed
    [] /\ exflag["client"] = "exchange_request"
       /\ signed = "none"
       /\ ~Decapsulates("client", body.cpt) -> "decapsulation_failure"
    [] OTHER -> "none"
ClientEstablishRequest ==
  /\ Receive("client", "exchange_response")
  /\ LET body == Head(wire["client"]).body IN
     \/ /\ AnswerVerdict(body) = "none"
        /\ channel' = [channel EXCEPT !["client"] =
             ClientChannel(<<kex["client"].ssec, kex["client"].sch, body.cpt.secret>>)]
        /\ Create("client", "establish_request", <<>>, Wanted("establish_response", TRUE))
        /\ SetFlag("client", "establish_request")
     \/ /\ AnswerVerdict(body) # "none"
        /\ Refuse("client", AnswerVerdict(body))
        /\ UNCHANGED channel
  /\ UNCHANGED <<kex, agreed, ownVars>>

\* kex_duplex_server_establish_response
ServerEstablishResponse ==
  /\ Receive("server", "establish_request")
  /\ \/ /\ exflag["server"] = "exchange_response"
        /\ Create("server", "establish_response", <<>>, Nothing)
        /\ SetFlag("server", "session_established")
        /\ agreed' = channel["server"].rtc.seed
     \/ /\ exflag["server"] # "exchange_response"
        /\ Refuse("server", "establish_failure")
        /\ UNCHANGED agreed
  /\ UNCHANGED <<kex, channel, ownVars>>

\* kex_duplex_client_establish_verify
ClientEstablishVerify ==
  /\ Receive("client", "establish_response")
  /\ \/ /\ exflag["client"] = "establish_request"
        /\ SetFlag("client", "session_established")
        /\ Go("client", "session")
        /\ ClearExchange("client")
        /\ UNCHANGED <<out, want, err>>
     \/ /\ exflag["client"] # "establish_request"
        /\ Refuse("client", "invalid_request")
        /\ UNCHANGED kex
  /\ UNCHANGED <<channel, agreed, ownVars>>

ClientStep ==
  \/ ClientConnectRequest \/ ClientExchangeRequest
  \/ ClientEstablishRequest \/ ClientEstablishVerify
  \/ HostStep("client") /\ UNCHANGED ownVars
ServerStep ==
  \/ ServerConnectResponse \/ ServerExchangeResponse \/ ServerEstablishResponse
  \/ HostStep("server") /\ UNCHANGED ownVars

Next == ClientStep \/ ServerStep \/ (Network /\ UNCHANGED ownVars)

Spec == Init /\ [][Next]_vars

\* Each host's thread runs; its receive returns when its bytes are there or the
\* other side has shut down.
FairSpec == Spec /\ WF_vars(ClientStep) /\ WF_vars(ServerStep)

-----------------------------------------------------------------------------
(* Properties *)

\* Type correctness.
TypeOK ==
  /\ WireTypeOK(3)
  /\ id \in [Roles -> Identities]
  /\ ckey \in ClientKeys

\* Both hosts know whom they talk to: an established client has the listener it
\* asked for, with that key and configuration, although the listener does not
\* check its own identity; and the listener established a session only with the
\* client whose key its key query had returned.
MutualIdentity ==
  /\ Established("client") => id["client"] = id["server"]
  /\ agreed # <<>> => agreed[2].client = ckey

Promise ==
  INSTANCE Handshake
    WITH Keys <- Secrets \X [cfg : {i.cfg : i \in Identities}, kid : {i.kid : i \in Identities},
                             client : ClientKeys, server : {i.ver : i \in Identities}] \X Secrets,
         NoKeys <- <<>>,
         client <- Status("client"), server <- Status("server"),
         held <- [r \in Roles |-> SessionKeys(r)]

\* The exchange implements Handshake: the listener comes up first, the client
\* last and with the listener's keys, and a host that went down stays down.
HandshakeImplemented == Promise!Spec
=============================================================================
