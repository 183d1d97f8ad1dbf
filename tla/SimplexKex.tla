----------------------------- MODULE SimplexKex -----------------------------
(***************************************************************************)
(* The simplex key exchange of kex.c between one client and one server:    *)
(*   client  connect request    key identity and configuration             *)
(*   server  connect response   signed hash of a public key, and the key   *)
(*   client  exchange request   a secret encapsulated to that key          *)
(*   server  exchange response  bare: the channels are raised              *)
(***************************************************************************)
EXTENDS KexWire

CONSTANT Identities  \* key identity, signature key and configuration of a host

\* A corrupted identity or configuration is not that of another host.
ASSUME IdentitiesAssumption ==
  /\ Identities \subseteq [kid : {i.kid : i \in Identities}, ver : {i.ver : i \in Identities},
                           cfg : {i.cfg : i \in Identities}]
  /\ \A i \in Identities : Garbled \notin {i.kid, i.cfg}

VARIABLE id          \* the server's identity, and the one the client asks for

vars == <<wireVars, id>>

Init == WireInit /\ id \in [Roles -> Identities]

\* H(cfg, kid, pvk)
Cookie(r) == [cfg |-> id[r].cfg, kid |-> id[r].kid, ver |-> id[r].ver]

-----------------------------------------------------------------------------
(* Mutants: each is a slip in the definition of the same name without its  *)
(* suffix.                                                                 *)

RequestVerdictAnyConfig(body, expired) ==
  CASE body.kid # id["server"].kid -> "key_unrecognized"
    [] body.kid = id["server"].kid /\ expired -> "key_expired"
    [] OTHER -> "none"
ResponseVerdictUnsigned(body) ==
  IF exflag["client"] # "connect_request" THEN "invalid_request" ELSE "none"

-----------------------------------------------------------------------------
(* The steps of the exchange *)

\* kex_simplex_client_connect_request
ClientConnectRequest ==
  /\ at["client"] = "start"
  /\ \/ /\ Create("client", "connect_request", [kid |-> id["client"].kid, cfg |-> id["client"].cfg],
                  Wanted("connect_response", FALSE))
        /\ SetFlag("client", "connect_request")
        /\ kex' = [kex EXCEPT !["client"].sch = Cookie("client")]
     \/ /\ Refuse("client", "key_expired")
        /\ UNCHANGED kex
  /\ UNCHANGED <<txseq, rxseq, netVars, channel, agreed, id>>

\* kex_simplex_server_connect_response
RequestVerdict(body, expired) ==
  CASE body.kid # id["server"].kid -> "key_unrecognized"
    [] body.kid = id["server"].kid /\ expired -> "key_expired"
    [] body.kid = id["server"].kid /\ ~expired /\ body.cfg # id["server"].cfg -> "unknown_protocol"
    [] OTHER -> "none"
ServerConnectResponse ==
  /\ Receive("server", "connect_request")
  /\ \E expired \in BOOLEAN :
       LET verdict == RequestVerdict(Head(wire["server"]).body, expired) IN
       \/ /\ verdict = "none"
          /\ \E pk \in PublicKeys :
               /\ kex' = [kex EXCEPT !["server"].sch = Cookie("server"), !["server"].prikey = pk]
               /\ Create("server", "connect_response",
                         [sig |-> Sign(id["server"].ver, pk), pk |-> pk],
                         Wanted("exchange_request", FALSE))
          /\ SetFlag("server", "connect_response")
       \/ /\ verdict # "none"
          /\ Refuse("server", verdict)
          /\ UNCHANGED kex
  /\ UNCHANGED <<channel, agreed, id>>

\* kex_simplex_client_exchange_request
ResponseVerdict(body) ==
  IF exflag["client"] # "connect_request" THEN "invalid_request"
  ELSE SignatureVerdict(body.sig, id["client"].ver, body.pk)
ClientExchangeRequest ==
  /\ Receive("client", "connect_response")
  /\ LET body == Head(wire["client"]).body
         verdict == ResponseVerdict(body) IN
     \/ /\ verdict = "none"
        /\ \E secret \in Secrets :
             /\ Create("client", "exchange_request", [cpt |-> Encapsulate(secret, body.pk)],
                       Wanted("exchange_response", TRUE))
             /\ channel' = [channel EXCEPT !["client"] = ClientChannel(<<secret, kex["client"].sch>>)]
        /\ SetFlag("client", "exchange_request")
     \/ /\ verdict # "none"
        /\ Refuse("client", verdict)
        /\ UNCHANGED channel
  /\ UNCHANGED <<kex, agreed, id>>

\* kex_simplex_server_exchange_response
SecretVerdict(cpt) ==
  CASE exflag["server"] # "connect_response" -> "invalid_request"
    [] exflag["server"] = "connect_response" /\ ~Decapsulates("server", cpt) ->
         "decapsulation_failure"
    [] OTHER -> "none"
ServerExchangeResponse ==
  /\ Receive("server", "exchange_request")
  /\ LET cpt == Head(wire["server"]).body.cpt IN
     \/ /\ SecretVerdict(cpt) = "none"
        /\ agreed' = <<cpt.secret, kex["server"].sch>>
        /\ channel' = [channel EXCEPT !["server"] = ServerChannel(agreed')]
        /\ Create("server", "exchange_response", <<>>, Nothing)
        /\ SetFlag("server", "session_established")
     \/ /\ SecretVerdict(cpt) # "none"
        /\ Refuse("server", SecretVerdict(cpt))
        /\ UNCHANGED <<channel, agreed>>
  /\ UNCHANGED <<kex, id>>

\* kex_simplex_client_establish_verify
ClientEstablishVerify ==
  /\ Receive("client", "exchange_response")
  /\ \/ /\ exflag["client"] = "exchange_request"
        /\ SetFlag("client", "session_established")
        /\ Go("client", "session")
        /\ ClearExchange("client")
        /\ UNCHANGED <<out, want, err>>
     \/ /\ exflag["client"] # "exchange_request"
        /\ Refuse("client", "invalid_request")
        /\ UNCHANGED kex
  /\ UNCHANGED <<channel, agreed, id>>

ClientStep ==
  \/ ClientConnectRequest \/ ClientExchangeRequest \/ ClientEstablishVerify
  \/ HostStep("client") /\ UNCHANGED id
ServerStep ==
  \/ ServerConnectResponse \/ ServerExchangeResponse
  \/ HostStep("server") /\ UNCHANGED id

Next == ClientStep \/ ServerStep \/ (Network /\ UNCHANGED id)

Spec == Init /\ [][Next]_vars

\* Each host's thread runs; its receive returns when its bytes are there or the
\* other side has shut down.
FairSpec == Spec /\ WF_vars(ClientStep) /\ WF_vars(ServerStep)

-----------------------------------------------------------------------------
(* Properties *)

\* Type correctness.
TypeOK == WireTypeOK(2) /\ id \in [Roles -> Identities]

\* A client is established only with the server it asked for: the server has
\* that key identity, its signature key and the same configuration.
OnlyTheServerAskedFor == Established("client") => id["client"] = id["server"]

Promise ==
  INSTANCE Handshake
    WITH Keys <- Secrets \X [cfg : {i.cfg : i \in Identities}, kid : {i.kid : i \in Identities},
                             ver : {i.ver : i \in Identities}],
         NoKeys <- <<>>,
         client <- Status("client"), server <- Status("server"),
         held <- [r \in Roles |-> SessionKeys(r)]

\* The exchange implements Handshake: the server comes up first, the client last
\* and with the server's keys, and a host that went down stays down.
HandshakeImplemented == Promise!Spec
=============================================================================
