-------------------------- MODULE DuplexKexProofs ---------------------------
(***************************************************************************)
(* Proofs about the duplex key exchange.  Its inductive invariant follows  *)
(* the two contributions to the session: the client's secret, signed by    *)
(* the client, into the listener's keys, and the listener's, signed by the *)
(* listener, into the client's, so that the client's keys are always those *)
(* of a listener that still takes part.                                    *)
(***************************************************************************)
EXTENDS DuplexKex, KexWireProofs

Kids == {i.kid : i \in Identities}
Vers == {i.ver : i \in Identities}
Cfgs == {i.cfg : i \in Identities}
Cookies == [cfg : Cfgs, kid : Kids, client : ClientKeys, server : Vers]
Seeds == Secrets \X Cookies \X Secrets
Numbers == Int \cup {Garbled}

\* Encapsulated secrets, and what may be on its way to each host.
Encapsulated == [secret : Secrets, key : PublicKeys \cup {Garbled}]
Requests == [flag : {"connect_request"}, seq : Numbers,
             body : [kid : Kids \cup {Garbled}, cfg : Cfgs \cup {Garbled}]]
Responses == [flag : {"connect_response"}, seq : Numbers,
              body : [sig : [by : Vers, data : PublicKeys] \cup {Garbled},
                      pk : PublicKeys \cup {Garbled}]]
Exchanges == [flag : {"exchange_request"}, seq : Numbers,
              body : [cpt : Encapsulated \cup {Garbled}, pk : PublicKeys \cup {Garbled},
                      sig : [by : ClientKeys, data : Encapsulated \X PublicKeys] \cup {Garbled}]]
Answers == [flag : {"exchange_response"}, seq : Numbers,
            body : [cpt : Encapsulated \cup {Garbled},
                    sig : [by : Vers, data : Encapsulated] \cup {Garbled}]]
Bare == [flag : {"establish_request", "establish_response"}, seq : Numbers, body : {<<>>}]
Errors == [flag : {"error_condition"}, seq : {Terminator}, body : Codes]
Packets ==
  [r \in Roles |-> IF r = "server" THEN Requests \cup Exchanges \cup Bare \cup Errors
                                   ELSE Responses \cup Answers \cup Bare \cup Errors]

\* The client has not encapsulated its secret.
Early == at["client"] = "start" \/ exflag["client"] = "connect_request"

\* The client has derived its keys; it does so once.
Final == Down("client") \/ exflag["client"] \in {"establish_request", "session_established"}

ClientTurn ==
  /\ at["client"] = "start" => Stands("client", "none", 0, 0)
  /\ at["client"] = "send" =>
       \/ /\ Stands("client", "connect_request", 0, 0)
          /\ want["client"] = Wanted("connect_response", FALSE)
          /\ out["client"].flag = "connect_request"
       \/ /\ Stands("client", "exchange_request", 1, 1)
          /\ want["client"] = Wanted("exchange_response", FALSE)
          /\ out["client"].flag = "exchange_request"
       \/ /\ Stands("client", "establish_request", 2, 2)
          /\ want["client"] = Wanted("establish_response", TRUE)
          /\ out["client"].flag = "establish_request"
  /\ at["client"] = "receive" =>
       \/ Stands("client", "connect_request", 1, 0) /\ want["client"] = Wanted("connect_response", FALSE)
       \/ Stands("client", "exchange_request", 2, 1) /\ want["client"] = Wanted("exchange_response", FALSE)
       \/ Stands("client", "establish_request", 3, 2) /\ want["client"] = Wanted("establish_response", TRUE)
  /\ at["client"] = "session" => Stands("client", "session_established", 3, 3)
  /\ Established("client") => at["client"] = "session"
  /\ exflag["client"] \in {"connect_request", "exchange_request"} =>
       kex["client"].sch = Cookie("client", ckey)
  /\ exflag["client"] = "exchange_request" => kex["client"].ssec \in Secrets
  /\ exflag["client"] \in {"exchange_request", "establish_request", "session_established"} =>
       id["client"] = id["server"]

ServerTurn ==
  /\ at["server"] # "start"
  /\ at["server"] = "send" =>
       \/ /\ Stands("server", "connect_response", 0, 1)
          /\ want["server"] = Wanted("exchange_request", FALSE)
          /\ out["server"].flag = "connect_response"
       \/ /\ Stands("server", "exchange_response", 1, 2)
          /\ want["server"] = Wanted("establish_request", TRUE)
          /\ out["server"].flag = "exchange_response"
       \/ /\ Stands("server", "session_established", 2, 3)
          /\ want["server"] = Nothing
          /\ out["server"].flag = "establish_response"
  /\ at["server"] = "receive" =>
       \/ Stands("server", "none", 0, 0) /\ want["server"] = Wanted("connect_request", FALSE)
       \/ Stands("server", "connect_response", 1, 1) /\ want["server"] = Wanted("exchange_request", FALSE)
       \/ Stands("server", "exchange_response", 2, 2) /\ want["server"] = Wanted("establish_request", TRUE)
  /\ at["server"] = "session" => Stands("server", "session_established", 3, 3)
  /\ Established("server") => at["server"] \in {"send", "session", "failing"}
  /\ exflag["server"] = "connect_response" =>
       /\ kex["server"].rver \in ClientKeys
       /\ kex["server"].sch = Cookie("server", kex["server"].rver)

Bounds ==
  \A r \in Roles : /\ txseq[r] \in 0 .. 3 /\ rxseq[r] \in 0 .. 3
                   /\ Down(r) => exflag[r] = "none"

\* What a packet for each host says about the other one.
ToServer(p) ==
  /\ p.flag = "connect_request" => p.body.cfg \in {id["client"].cfg, Garbled}
  /\ p.flag = "exchange_request" =>
       /\ ~Early /\ exflag["client"] \notin {"establish_request", "session_established"}
       /\ p.body.sig # Garbled =>
            /\ p.body.sig.by = ckey
            /\ exflag["client"] = "exchange_request" =>
                 p.body.sig.data[1].secret = kex["client"].ssec
  /\ p.flag = "establish_request" => Final
ToClient(p) ==
  /\ p.flag = "connect_response" =>
       /\ id["client"].cfg = id["server"].cfg
       /\ p.body.sig # Garbled => p.body.sig.by = id["server"].ver
  /\ (p.flag = "exchange_response" /\ p.body.sig # Garbled
      /\ exflag["client"] = "exchange_request" /\ ~Down("server")) =>
       /\ exflag["server"] = "exchange_response"
       /\ channel["server"] =
            ServerChannel(<<kex["client"].ssec, Cookie("server", ckey), p.body.sig.data.secret>>)
  /\ p.flag = "establish_response" => agreed # <<>>

Contents ==
  /\ at["client"] = "send" => ToServer(out["client"])
  /\ at["server"] = "send" => ToClient(out["server"])
  /\ Data(wire["server"]) => ToServer(Head(wire["server"]))
  /\ Data(wire["client"]) =>
       /\ ToClient(Head(wire["client"]))
       /\ Head(wire["client"]).flag = "establish_response" => at["server"] \in {"session", "closed"}

\* What the listener has derived its keys from.
Seed == channel["server"].rtc.seed

\* The keys of the two hosts, from the moment each has derived them.
Agreement ==
  /\ exflag["server"] \in {"exchange_response", "session_established"} =>
       /\ ~Early
       /\ channel["server"] = ServerChannel(Seed)
       /\ Seed \in Seeds /\ Seed[2] = Cookie("server", ckey)
  /\ exflag["client"] \in {"establish_request", "session_established"} /\ ~Down("server") =>
       /\ exflag["server"] \in {"exchange_response", "session_established"}
       /\ channel["client"] = ClientChannel(Seed)
  /\ agreed # <<>> =>
       /\ Final /\ ~Early
       /\ agreed \in Seeds /\ agreed[2].client = ckey
       /\ ~Down("client") => channel["client"] = ClientChannel(agreed)
  /\ Established("server") => agreed # <<>> /\ agreed = Seed
  /\ Established("client") => agreed # <<>> /\ at["server"] \in {"session", "closed"}

IInv ==
  /\ WireInv(Packets)
  /\ id \in [Roles -> Identities] /\ ckey \in ClientKeys
  /\ ClientTurn /\ ServerTurn /\ Bounds /\ Contents /\ Agreement

-----------------------------------------------------------------------------
(* The packets *)

LEMMA PacketKindsHold == PacketKinds(Packets)
<1>1. \A p \in Requests : DOMAIN p = {"flag", "seq", "body"} /\ p.flag = "connect_request"
                          /\ GarbledForms(p) \subseteq Requests
  BY DEF GarbledForms, Numbers, Requests
<1>2. \A p \in Responses : DOMAIN p = {"flag", "seq", "body"} /\ p.flag = "connect_response"
                           /\ GarbledForms(p) \subseteq Responses
  BY DEF GarbledForms, Numbers, Responses
<1>3. \A p \in Exchanges : DOMAIN p = {"flag", "seq", "body"} /\ p.flag = "exchange_request"
                           /\ GarbledForms(p) \subseteq Exchanges
  BY DEF GarbledForms, Numbers, Exchanges
<1>4. \A p \in Answers : DOMAIN p = {"flag", "seq", "body"} /\ p.flag = "exchange_response"
                         /\ GarbledForms(p) \subseteq Answers
  BY DEF GarbledForms, Numbers, Answers
<1>5. \A p \in Bare : DOMAIN p = {"flag", "seq", "body"} /\ p.flag # "error_condition"
                      /\ GarbledForms(p) \subseteq Bare
  BY DEF GarbledForms, Numbers, Bare
<1>6. \A p \in Errors : DOMAIN p = {"flag", "seq", "body"} /\ p.flag = "error_condition" /\ p.body \in Codes
  BY DEF Errors
<1>7. \A c \in Codes : [flag |-> "error_condition", seq |-> Terminator, body |-> c] \in Errors
  BY DEF Errors
<1>8. /\ Packets["server"] = Requests \cup Exchanges \cup Bare \cup Errors
      /\ Packets["client"] = Responses \cup Answers \cup Bare \cup Errors
  BY DEF Packets, Roles
<1> QED
  BY <1>1, <1>2, <1>3, <1>4, <1>5, <1>6, <1>7, <1>8 DEF PacketKinds, Roles

\* What the packets of each flag carry.
LEMMA Carried ==
  /\ \A p \in Packets["server"] :
       /\ DOMAIN p = {"flag", "seq", "body"}
       /\ p.flag = "connect_request" => DOMAIN p.body = {"kid", "cfg"}
       /\ p.flag = "exchange_request" =>
            /\ DOMAIN p.body = {"cpt", "pk", "sig"}
            /\ p.body.cpt # Garbled => p.body.cpt.secret \in Secrets
            /\ p.body.pk \in PublicKeys \cup {Garbled}
  /\ \A p \in Packets["client"] :
       /\ DOMAIN p = {"flag", "seq", "body"}
       /\ p.flag = "connect_response" => /\ DOMAIN p.body = {"sig", "pk"}
                                         /\ p.body.pk \in PublicKeys \cup {Garbled}
       /\ p.flag = "exchange_response" => DOMAIN p.body = {"cpt", "sig"}
<1>1. ASSUME NEW p \in Packets["server"]
      PROVE  /\ DOMAIN p = {"flag", "seq", "body"}
             /\ p.flag = "connect_request" => DOMAIN p.body = {"kid", "cfg"}
             /\ p.flag = "exchange_request" =>
                  /\ DOMAIN p.body = {"cpt", "pk", "sig"}
                  /\ p.body.cpt # Garbled => p.body.cpt.secret \in Secrets
                  /\ p.body.pk \in PublicKeys \cup {Garbled}
  <2>1. p \in Requests \cup Exchanges \cup Bare \cup Errors
    BY DEF Packets, Roles
  <2>2. CASE p \in Requests
    BY <2>2 DEF Requests
  <2>3. CASE p \in Exchanges
    BY <2>3 DEF Exchanges, Encapsulated
  <2>4. CASE p \in Bare \cup Errors
    BY <2>4 DEF Bare, Errors
  <2> QED
    BY <2>1, <2>2, <2>3, <2>4
<1>2. ASSUME NEW p \in Packets["client"]
      PROVE  /\ DOMAIN p = {"flag", "seq", "body"}
             /\ p.flag = "connect_response" => /\ DOMAIN p.body = {"sig", "pk"}
                                               /\ p.body.pk \in PublicKeys \cup {Garbled}
             /\ p.flag = "exchange_response" => DOMAIN p.body = {"cpt", "sig"}
  <2>1. p \in Responses \cup Answers \cup Bare \cup Errors
    BY DEF Packets, Roles
  <2>2. CASE p \in Responses
    BY <2>2 DEF Responses
  <2>3. CASE p \in Answers
    BY <2>3 DEF Answers
  <2>4. CASE p \in Bare \cup Errors
    BY <2>4 DEF Bare, Errors
  <2> QED
    BY <2>1, <2>2, <2>3, <2>4
<1> QED
  BY <1>1, <1>2

\* A corrupted packet says no more than the packet did.
LEMMA CorruptedSays ==
  /\ \A p \in Packets["server"] : \A q \in {p} \cup GarbledForms(p) : ToServer(p) => ToServer(q)
  /\ \A p \in Packets["client"] : \A q \in {p} \cup GarbledForms(p) :
       q.flag = p.flag /\ (ToClient(p) => ToClient(q))
<1>1. ASSUME NEW p \in Packets["server"], NEW q \in {p} \cup GarbledForms(p), ToServer(p)
      PROVE  ToServer(q)
  <2>1. DOMAIN p = {"flag", "seq", "body"}
    BY Carried
  <2>2. q.flag = p.flag /\ \A f \in DOMAIN p.body : q.body[f] \in {p.body[f], Garbled}
    BY <2>1, Corrupted
  <2>3. p.flag = "connect_request" => q.body.cfg \in {p.body.cfg, Garbled}
    BY <2>2, Carried
  <2>4. p.flag = "exchange_request" => q.body.sig \in {p.body.sig, Garbled}
    BY <2>2, Carried
  <2> QED
    BY <1>1, <2>2, <2>3, <2>4 DEF ToServer
<1>2. ASSUME NEW p \in Packets["client"], NEW q \in {p} \cup GarbledForms(p)
      PROVE  q.flag = p.flag /\ (ToClient(p) => ToClient(q))
  <2>1. DOMAIN p = {"flag", "seq", "body"}
    BY Carried
  <2>2. q.flag = p.flag /\ \A f \in DOMAIN p.body : q.body[f] \in {p.body[f], Garbled}
    BY <2>1, Corrupted
  <2>3. p.flag \in {"connect_response", "exchange_response"} => q.body.sig \in {p.body.sig, Garbled}
    BY <2>2, Carried
  <2> QED
    BY <2>2, <2>3 DEF ToClient
<1> QED
  BY <1>1, <1>2

\* The first packet before a host is one of those that may be there.
LEMMA FirstPacket ==
  ASSUME WireInv(Packets), NEW r \in Roles, wire[r] # <<>>
  PROVE  Head(wire[r]) \in Packets[r]
<1>1. wire[r] \in Seq(Packets[r])
  BY DEF WireInv, Wires
<1> QED
  BY <1>1, ShortSeq

-----------------------------------------------------------------------------
(* Steps that derive no keys *)

\* What a step does to a host that derives no keys in it.
SteadyClient ==
  /\ ~Early => ~Early'
  /\ Final => Final'
  /\ exflag'["client"] \in {"establish_request", "session_established"} =>
       exflag["client"] \in {"establish_request", "session_established"}
  /\ ~Down("client")' => ~Down("client") /\ channel'["client"] = channel["client"]
SteadyServer ==
  /\ ~Down("server")' => ~Down("server")
  /\ ~Down("server")' /\ exflag["server"] \in {"exchange_response", "session_established"} =>
       exflag'["server"] = exflag["server"] /\ channel'["server"] = channel["server"]
  /\ exflag'["server"] \in {"exchange_response", "session_established"} =>
       exflag'["server"] = exflag["server"] /\ channel'["server"] = channel["server"]
  /\ at["server"] \in {"session", "closed"} => at'["server"] \in {"session", "closed"}

LEMMA UntouchedSteady ==
  /\ Untouched("client") => SteadyClient
  /\ Untouched("server") => SteadyServer
BY DEF Untouched, SteadyClient, SteadyServer, Early, Final, Down

LEMMA UntouchedTurn ==
  ASSUME id' = id, ckey' = ckey
  PROVE  /\ ClientTurn /\ Untouched("client") => ClientTurn'
         /\ ServerTurn /\ Untouched("server") => ServerTurn'
<1>1. ASSUME ClientTurn, Untouched("client") PROVE ClientTurn'
  BY <1>1 DEF ClientTurn, Untouched, Stands, Established, Cookie
<1>2. ASSUME ServerTurn, Untouched("server") PROVE ServerTurn'
  BY <1>2 DEF ServerTurn, Untouched, Stands, Established, Cookie
<1> QED
  BY <1>1, <1>2

\* A step that takes no packet and makes none keeps what the packets say.
LEMMA StillSaid ==
  ASSUME id' = id, ckey' = ckey, agreed' = agreed, SteadyClient, SteadyServer,
         exflag'["client"] = "exchange_request" =>
           exflag["client"] = "exchange_request" /\ kex'["client"] = kex["client"]
  PROVE  /\ \A p : ToServer(p) => ToServer(p)'
         /\ \A p : ToClient(p) => ToClient(p)'
<1>1. ASSUME NEW p, ToServer(p) PROVE ToServer(p)'
  BY <1>1 DEF ToServer, SteadyClient
<1>2. ASSUME NEW p, ToClient(p) PROVE ToClient(p)'
  BY <1>2 DEF ToClient, SteadyServer, Cookie
<1> QED
  BY <1>1, <1>2

LEMMA ContentsKeep ==
  ASSUME IInv, id' = id, ckey' = ckey, agreed' = agreed, SteadyClient, SteadyServer,
         exflag'["client"] = "exchange_request" =>
           exflag["client"] = "exchange_request" /\ kex'["client"] = kex["client"],
         \A q \in Roles : Remains(q),
         \A q \in Roles : at'[q] = "send" => at[q] = "send" /\ out'[q] = out[q]
  PROVE  Contents'
<1>1. "client" \in Roles /\ "server" \in Roles
  BY DEF Roles
<1>2. \A p : ToServer(p) => ToServer(p)'
  BY StillSaid
<1>3. \A p : ToClient(p) => ToClient(p)'
  BY StillSaid
<1>4. at'["client"] = "send" => ToServer(out["client"])' /\ out'["client"] = out["client"]
  BY <1>1, <1>2 DEF IInv, Contents
<1>5. at'["server"] = "send" => ToClient(out["server"])' /\ out'["server"] = out["server"]
  BY <1>1, <1>3 DEF IInv, Contents
<1>6. ASSUME NEW q \in Roles, Data(wire'[q])
      PROVE  /\ Data(wire[q]) /\ Head(wire[q]) \in Packets[q]
             /\ Head(wire'[q]) \in {Head(wire[q])} \cup GarbledForms(Head(wire[q]))
  <2>1. /\ Data(wire[q])
        /\ Head(wire'[q]) \in {Head(wire[q])} \cup GarbledForms(Head(wire[q]))
    BY <1>6 DEF Remains
  <2>2. wire[q] # <<>>
    BY <2>1 DEF Data
  <2> QED
    BY <2>1, <2>2, FirstPacket DEF IInv
<1>7. ASSUME Data(wire'["server"]) PROVE ToServer(Head(wire["server"]))'
  <2> DEFINE h == Head(wire["server"])
             g == Head(wire'["server"])
  <2>1. h \in Packets["server"] /\ g \in {h} \cup GarbledForms(h) /\ ToServer(h)
    BY <1>1, <1>6, <1>7 DEF IInv, Contents
  <2> HIDE DEF h, g
  <2>2. ToServer(g)
    BY <2>1, CorruptedSays
  <2>3. ASSUME NEW p, p = g PROVE ToServer(p)'
    BY <1>2, <2>2, <2>3
  <2> QED
    BY <2>3 DEF g, ToServer
<1>8. ASSUME Data(wire'["client"])
      PROVE  /\ ToClient(Head(wire["client"]))'
             /\ Head(wire'["client"]).flag = "establish_response" => at'["server"] \in {"session", "closed"}
  <2> DEFINE h == Head(wire["client"])
             g == Head(wire'["client"])
  <2>1. /\ h \in Packets["client"] /\ g \in {h} \cup GarbledForms(h) /\ ToClient(h)
        /\ h.flag = "establish_response" => at["server"] \in {"session", "closed"}
    BY <1>1, <1>6, <1>8 DEF IInv, Contents
  <2> HIDE DEF h, g
  <2>2. ToClient(g) /\ g.flag = h.flag
    BY <2>1, CorruptedSays
  <2>3. ASSUME NEW p, p = g PROVE ToClient(p)'
    BY <1>3, <2>2, <2>3
  <2>4. ToClient(Head(wire["client"]))'
    BY <2>3 DEF g, ToClient
  <2> QED
    BY <2>1, <2>2, <2>4 DEF g, SteadyServer
<1> QED
  BY <1>4, <1>5, <1>7, <1>8 DEF Contents, Data

LEMMA AgreementKeep ==
  ASSUME IInv, id' = id, ckey' = ckey, agreed' = agreed, SteadyClient, SteadyServer,
         Established("client")' => agreed # <<>> /\ at["server"] \in {"session", "closed"},
         exflag'["client"] # "none" => ~Down("client")'
  PROVE  Agreement'
<1>1. ASSUME exflag'["server"] \in {"exchange_response", "session_established"}
      PROVE  /\ ~Early' /\ channel'["server"] = ServerChannel(Seed') /\ Seed' = Seed
             /\ Seed \in Seeds /\ Seed[2] = Cookie("server", ckey)
  BY <1>1 DEF IInv, Agreement, SteadyClient, SteadyServer, Seed
<1>2. ASSUME exflag'["client"] \in {"establish_request", "session_established"}, ~Down("server")'
      PROVE  /\ exflag'["server"] \in {"exchange_response", "session_established"}
             /\ channel'["client"] = ClientChannel(Seed')
  <2>1. /\ exflag["server"] \in {"exchange_response", "session_established"}
        /\ channel["client"] = ClientChannel(Seed)
    BY <1>2 DEF IInv, Agreement, SteadyClient, SteadyServer
  <2>2. exflag'["server"] = exflag["server"] /\ channel'["server"] = channel["server"]
    BY <1>2, <2>1 DEF SteadyServer
  <2>3. channel'["client"] = channel["client"]
    BY <1>2 DEF SteadyClient
  <2> QED
    BY <2>1, <2>2, <2>3 DEF Seed
<1>3. ASSUME agreed # <<>>
      PROVE  /\ Final' /\ ~Early' /\ agreed \in Seeds /\ agreed[2].client = ckey
             /\ ~Down("client")' => channel'["client"] = ClientChannel(agreed)
  BY <1>3 DEF IInv, Agreement, SteadyClient
<1>4. Established("server")' => agreed # <<>> /\ agreed = Seed'
  BY <1>1 DEF IInv, Agreement, SteadyServer, Established
<1>5. Established("client")' => agreed # <<>> /\ at'["server"] \in {"session", "closed"}
  BY DEF SteadyServer
<1>6. Cookie("server", ckey)' = Cookie("server", ckey)
  BY DEF Cookie
<1> QED
  BY <1>1, <1>2, <1>3, <1>4, <1>5, <1>6 DEF Agreement, ServerChannel, ClientChannel, Derived

\* The identities have the fields they should have, and the signature key with
\* the configuration tells listeners apart.
LEMMA Identified ==
  ASSUME id \in [Roles -> Identities], ckey \in ClientKeys
  PROVE  /\ \A r \in Roles : /\ id[r].kid \in Kids /\ id[r].ver \in Vers /\ id[r].cfg \in Cfgs
                             /\ Garbled # id[r].cfg /\ Cookie(r, ckey) \in Cookies
         /\ id["client"].cfg = id["server"].cfg /\ id["client"].ver = id["server"].ver =>
              id["client"] = id["server"]
<1>1. \A r \in Roles : id[r] \in Identities
  OBVIOUS
<1>2. \A i \in Identities : i \in [kid : Kids, ver : Vers, cfg : Cfgs]
  BY IdentitiesAssumption DEF Kids, Vers, Cfgs
<1>3. \A i, j \in [kid : Kids, ver : Vers, cfg : Cfgs] :
        i.kid = j.kid /\ i.ver = j.ver /\ i.cfg = j.cfg => i = j
  OBVIOUS
<1>4. \A r \in Roles : /\ id[r].kid \in Kids /\ id[r].ver \in Vers /\ id[r].cfg \in Cfgs
                       /\ Garbled # id[r].cfg /\ Cookie(r, ckey) \in Cookies
  BY <1>1, <1>2, IdentitiesAssumption DEF Cookie, Cookies
<1>5. id["client"].ver = id["server"].ver => id["client"].kid = id["server"].kid
  BY <1>1, TwoRoles, IdentitiesAssumption
<1> QED
  BY <1>1, <1>2, <1>3, <1>4, <1>5, TwoRoles

-----------------------------------------------------------------------------
(* The steps of the exchange *)

LEMMA ConnectRequestKeeps ==
  ASSUME IInv, ClientConnectRequest
  PROVE  IInv'
<1> USE TwoRoles
<1>1. /\ at["client"] = "start" /\ Stands("client", "none", 0, 0)
      /\ UNCHANGED <<txseq, rxseq, wire, ended, link, garbled, channel, agreed, id, ckey>>
  BY DEF ClientConnectRequest, netVars, ownVars, IInv, ClientTurn
<1>2. KexTypes
  BY DEF IInv, WireInv
<1>3. Early /\ ~Final /\ ~Down("client") /\ ~Established("client")
  BY <1>1 DEF Early, Final, Down, Stands, Established
<1>4. CASE Create("client", "connect_request", [kid |-> id["client"].kid, cfg |-> id["client"].cfg],
                  Wanted("connect_response", FALSE))
           /\ SetFlag("client", "connect_request")
           /\ kex' = [kex EXCEPT !["client"].sch = Cookie("client", ckey)]
  <2> DEFINE p == [flag |-> "connect_request", seq |-> txseq["client"],
                   body |-> [kid |-> id["client"].kid, cfg |-> id["client"].cfg]]
  <2>1. /\ at' = [at EXCEPT !["client"] = "send"] /\ out' = [out EXCEPT !["client"] = p]
        /\ want' = [want EXCEPT !["client"] = Wanted("connect_response", FALSE)]
        /\ exflag' = [exflag EXCEPT !["client"] = "connect_request"] /\ err' = err
    BY <1>4 DEF Create, SetFlag, Go
  <2>2. /\ at'["client"] = "send" /\ out'["client"] = p /\ exflag'["client"] = "connect_request"
        /\ want'["client"] = Wanted("connect_response", FALSE)
        /\ kex'["client"].sch = Cookie("client", ckey)
    BY <1>2, <1>4, <2>1 DEF KexTypes
  <2>3. Untouched("server")
    BY <1>1, <1>2, <1>4, <2>1 DEF Untouched, KexTypes
  <2>4. p \in Packets["server"]
    <3>1. p \in Requests
      BY <1>1, Identified DEF IInv, Requests, Stands, Numbers
    <3> QED
      BY <3>1 DEF Packets
  <2>5. /\ Wires(Packets)' /\ Turns' /\ Counts' /\ (\A q \in Roles : Remains(q)) /\ ~Holds("server")
    <3>1. /\ Go("client", "send") /\ out'["server"] = out["server"]
          /\ out'["client"] \in Packets["server"] /\ out'["client"].seq = txseq["client"]
          /\ out'["client"].flag # "error_condition"
      BY <2>1, <2>2, <2>3, <2>4 DEF Go, Untouched
    <3> QED
      BY <1>1, <3>1, StartKeeps DEF IInv
  <2>6. KexTypes'
    BY <1>1, <1>2, <1>4, <2>1 DEF KexTypes, Places, Flags
  <2>7. ClientTurn'
    BY <1>1, <2>2 DEF ClientTurn, Stands, Established, Cookie
  <2>8. ServerTurn'
    BY <1>1, <2>3, UntouchedTurn DEF IInv
  <2>9. Bounds'
    BY <1>1, <2>2, <2>3 DEF IInv, Bounds, Down, Untouched
  <2>10. Contents'
    <3>1. ~Data(wire["server"]) /\ ~Data(wire["client"])
      BY <1>1 DEF IInv, WireInv, Turns, Holds, Data
    <3>2. at'["server"] # "send"
      BY <2>3, <2>5 DEF Holds, Untouched
    <3>3. ToServer(out["client"])'
      BY <1>1, <2>2 DEF ToServer
    <3> QED
      BY <1>1, <3>1, <3>2, <3>3 DEF Contents, Data
  <2>11. Agreement'
    <3>1. SteadyClient
      BY <1>1, <1>3, <2>2 DEF SteadyClient
    <3>2. ~Established("client")' /\ ~Down("client")'
      BY <2>2 DEF Established, Down
    <3> QED
      BY <1>1, <2>3, <3>1, <3>2, UntouchedSteady, AgreementKeep
  <2> QED
    BY <1>1, <2>5, <2>6, <2>7, <2>8, <2>9, <2>10, <2>11 DEF IInv, WireInv
<1>5. CASE Refuse("client", "key_expired") /\ UNCHANGED kex
  <2>1. /\ at' = [at EXCEPT !["client"] = "failing"] /\ err' = [err EXCEPT !["client"] = "key_expired"]
        /\ exflag' = [exflag EXCEPT !["client"] = "none"] /\ out' = out /\ want' = want /\ kex' = kex
    BY <1>5 DEF Refuse, Go
  <2>2. /\ at'["client"] = "failing" /\ exflag'["client"] = "none"
    BY <1>2, <2>1 DEF KexTypes
  <2>3. Untouched("server")
    BY <1>1, <1>2, <2>1 DEF Untouched, KexTypes
  <2>4. Wires(Packets)' /\ Turns' /\ Counts' /\ (\A q \in Roles : Remains(q))
    <3>1. /\ Go("client", "failing") /\ UNCHANGED <<wire, link, out>> /\ at["client"] # "failed"
          /\ ~Down("client") /\ UNCHANGED <<txseq, rxseq>>
      BY <1>1, <2>1 DEF Go, Down
    <3> QED
      BY <3>1, LeaveKeeps DEF IInv
  <2>5. KexTypes'
    BY <1>1, <1>2, <2>1 DEF KexTypes, Places, Flags, Codes
  <2>6. ClientTurn'
    BY <2>2 DEF ClientTurn, Established
  <2>7. ServerTurn'
    BY <1>1, <2>3, UntouchedTurn DEF IInv
  <2>8. Bounds'
    BY <1>1, <2>2, <2>3 DEF IInv, Bounds, Down, Untouched
  <2>9. SteadyClient /\ SteadyServer
    BY <1>1, <1>3, <2>2, <2>3, UntouchedSteady DEF SteadyClient
  <2>10. Contents'
    <3>1. \A q \in Roles : at'[q] = "send" => at[q] = "send" /\ out'[q] = out[q]
      BY <2>1, <2>2, <2>3 DEF Untouched
    <3> QED
      BY <1>1, <2>2, <2>4, <2>9, <3>1, ContentsKeep
  <2>11. Agreement'
    BY <1>1, <2>2, <2>9, AgreementKeep DEF Established
  <2> QED
    BY <1>1, <2>4, <2>5, <2>6, <2>7, <2>8, <2>10, <2>11 DEF IInv, WireInv
<1> QED
  BY <1>4, <1>5 DEF ClientConnectRequest

\* A packet is taken and refused; the bare packets never are.
LEMMA RefusedKeeps ==
  ASSUME IInv, NEW r \in Roles,
         NEW flag \in {"connect_request", "connect_response", "exchange_request", "exchange_response"},
         Receive(r, flag), NEW code \in Codes, Refuse(r, code),
         kex'[Other(r)] = kex[Other(r)], DOMAIN kex' = Roles, UNCHANGED <<channel, agreed, id, ckey>>
  PROVE  IInv'
<1> USE TwoRoles
<1>1. KexTypes
  BY DEF IInv, WireInv
<1>2. /\ at' = [at EXCEPT ![r] = "failing"] /\ err' = [err EXCEPT ![r] = code]
      /\ exflag' = [exflag EXCEPT ![r] = "none"] /\ out' = out /\ want' = want
      /\ rxseq' = [rxseq EXCEPT ![r] = @ + 1] /\ at[r] = "receive" /\ want[r].flag = flag
      /\ UNCHANGED <<txseq, ended, link, garbled, channel, agreed, id, ckey>>
  BY DEF Refuse, Receive, Go
<1>3. at'[r] = "failing" /\ exflag'[r] = "none" /\ txseq' = txseq /\ rxseq'[r] = rxseq[r] + 1
  BY <1>1, <1>2 DEF KexTypes
<1>4. Untouched(Other(r)) /\ Other(r) \in Roles /\ Other(r) # r
  BY <1>1, <1>2, OtherRole DEF Untouched, KexTypes
<1>5. /\ Wires(Packets)' /\ Turns' /\ Counts' /\ (\A q \in Roles : Remains(q) /\ ~Data(wire'[q]))
      /\ at' \in [Roles -> Places] /\ rxseq' \in [Roles -> Nat]
  <2>1. Go(r, "failing") /\ out'[Other(r)] = out[Other(r)] /\ flag # "error_condition"
    BY <1>2 DEF Go
  <2> QED
    BY <2>1, ReceiveKeeps, PacketKindsHold DEF IInv
<1>6. KexTypes'
  BY <1>1, <1>2, <1>5 DEF KexTypes, Flags
<1>7. ClientTurn' /\ ServerTurn'
  <2>1. CASE r = "client"
    BY <1>2, <1>3, <1>4, <2>1, UntouchedTurn DEF IInv, ClientTurn, Established
  <2>2. CASE r = "server"
    BY <1>2, <1>3, <1>4, <2>2, UntouchedTurn DEF IInv, ServerTurn, Established
  <2> QED
    BY <2>1, <2>2
<1>8. Bounds'
  <2>1. rxseq[r] \in 0 .. 2 /\ txseq[r] \in 0 .. 3
    <3>1. at["client"] = "receive" => rxseq["client"] = 0 \/ rxseq["client"] = 1 \/ rxseq["client"] = 2
      BY DEF IInv, ClientTurn, Stands
    <3>2. at["server"] = "receive" => rxseq["server"] = 0 \/ rxseq["server"] = 1 \/ rxseq["server"] = 2
      BY DEF IInv, ServerTurn, Stands
    <3> QED
      BY <1>2, <3>1, <3>2 DEF IInv, Bounds
  <2>2. \A q \in Roles : q = r \/ q = Other(r)
    BY OtherRole
  <2> QED
    BY <1>3, <1>4, <2>1, <2>2 DEF IInv, Bounds, Down, Untouched
<1>9. SteadyClient /\ SteadyServer
  <2>1. CASE r = "client"
    <3>1. exflag["client"] \in {"connect_request", "exchange_request"} /\ ~Down("client")
      BY <1>2, <2>1 DEF IInv, ClientTurn, Wanted, Stands, Down
    <3>2. ~Final
      BY <3>1 DEF Final
    <3>3. SteadyClient
      BY <1>2, <1>3, <2>1, <3>1, <3>2 DEF SteadyClient, Early
    <3> QED
      BY <1>4, <2>1, <3>3, UntouchedSteady
  <2>2. CASE r = "server"
    <3>1. exflag["server"] \in {"none", "connect_response"} /\ ~Down("server")
      BY <1>2, <2>2 DEF IInv, ServerTurn, Wanted, Stands, Down
    <3>2. SteadyServer
      BY <1>2, <1>3, <2>2, <3>1 DEF SteadyServer
    <3> QED
      BY <1>4, <2>2, <3>2, UntouchedSteady
  <2> QED
    BY <2>1, <2>2
<1>10. Contents'
  <2>1. \A q \in Roles : at'[q] = "send" => at[q] = "send" /\ out'[q] = out[q]
    BY <1>1, <1>2 DEF KexTypes
  <2>2. exflag'["client"] = "exchange_request" =>
          exflag["client"] = "exchange_request" /\ kex'["client"] = kex["client"]
    BY <1>3, <1>4 DEF Untouched
  <2> QED
    BY <1>2, <1>5, <1>9, <2>1, <2>2, ContentsKeep
<1>11. Agreement'
  <2>1. Established("client")' => agreed # <<>> /\ at["server"] \in {"session", "closed"}
    <3>1. Established("client")' => Established("client")
      BY <1>3, <1>4 DEF Established, Untouched
    <3> QED
      BY <3>1 DEF IInv, Agreement
  <2>2. exflag'["client"] # "none" => ~Down("client")'
    <3>1. r = "client" \/ Untouched("client")
      BY <1>4
    <3> QED
      BY <1>3, <3>1 DEF IInv, Bounds, Untouched, Down
  <2> QED
    BY <1>2, <1>9, <2>1, <2>2, AgreementKeep
<1> QED
  BY <1>2, <1>5, <1>6, <1>7, <1>8, <1>10, <1>11 DEF IInv, WireInv

LEMMA ConnectResponseKeeps ==
  ASSUME IInv, ServerConnectResponse
  PROVE  IInv'
<1> USE TwoRoles
<1> DEFINE body == Head(wire["server"]).body
<1>1. KexTypes /\ Receive("server", "connect_request") /\ UNCHANGED <<channel, agreed, id, ckey>>
  BY DEF IInv, WireInv, ServerConnectResponse, ownVars
<1>2. /\ at["server"] = "receive" /\ want["server"].flag = "connect_request"
      /\ UNCHANGED <<txseq, ended, link, garbled, channel, agreed, id, ckey>>
      /\ rxseq' = [rxseq EXCEPT !["server"] = @ + 1]
  BY <1>1 DEF Receive
<1>3. Stands("server", "none", 0, 0)
  BY <1>2 DEF IInv, ServerTurn, Wanted
<1>4. PICK known \in ClientKeys \cup {Erased}, expired \in BOOLEAN :
        LET verdict == RequestVerdict(body, known, expired)
            found == [kex["server"] EXCEPT !.rver = known] IN
        \/ /\ verdict = "none"
           /\ \E pk \in PublicKeys :
                /\ kex' = [kex EXCEPT !["server"] =
                            [found EXCEPT !.sch = Cookie("server", known), !.prikey = pk]]
                /\ Create("server", "connect_response",
                          [sig |-> Sign(id["server"].ver, pk), pk |-> pk],
                          Wanted("exchange_request", FALSE))
           /\ SetFlag("server", "connect_response")
        \/ /\ verdict # "none"
           /\ Refuse("server", verdict)
           /\ kex' = [kex EXCEPT !["server"] = found]
  BY DEF ServerConnectResponse
<1>5. CASE RequestVerdict(body, known, expired) # "none"
  <2>1. /\ Refuse("server", RequestVerdict(body, known, expired))
        /\ kex' = [kex EXCEPT !["server"] = [kex["server"] EXCEPT !.rver = known]]
    BY <1>4, <1>5
  <2>2. kex'["client"] = kex["client"] /\ DOMAIN kex' = Roles
    BY <1>1, <2>1 DEF KexTypes
  <2>3. RequestVerdict(body, known, expired) \in Codes
    BY <1>5 DEF RequestVerdict, Codes
  <2>4. ASSUME NEW code \in Codes, Refuse("server", code) PROVE IInv'
    BY <1>1, <2>2, <2>4, RefusedKeeps
  <2> QED
    BY <2>1, <2>3, <2>4
<1>6. CASE RequestVerdict(body, known, expired) = "none"
  <2>1. PICK pk \in PublicKeys :
          /\ kex' = [kex EXCEPT !["server"] =
                      [kex["server"] EXCEPT !.rver = known, !.sch = Cookie("server", known), !.prikey = pk]]
          /\ Create("server", "connect_response", [sig |-> Sign(id["server"].ver, pk), pk |-> pk],
                    Wanted("exchange_request", FALSE))
    BY <1>4, <1>6
  <2>2. SetFlag("server", "connect_response")
    BY <1>4, <1>6
  <2> DEFINE p == [flag |-> "connect_response", seq |-> txseq["server"],
                   body |-> [sig |-> Sign(id["server"].ver, pk), pk |-> pk]]
  <2>3. /\ at' = [at EXCEPT !["server"] = "send"] /\ out' = [out EXCEPT !["server"] = p]
        /\ want' = [want EXCEPT !["server"] = Wanted("exchange_request", FALSE)]
        /\ exflag' = [exflag EXCEPT !["server"] = "connect_response"] /\ err' = err
    BY <2>1, <2>2 DEF Create, SetFlag, Go
  <2>4. /\ at'["server"] = "send" /\ out'["server"] = p /\ exflag'["server"] = "connect_response"
        /\ want'["server"] = Wanted("exchange_request", FALSE) /\ rxseq'["server"] = rxseq["server"] + 1
    BY <1>1, <1>2, <2>3 DEF KexTypes
  <2>5. known \in ClientKeys
    BY <1>6 DEF RequestVerdict
  <2>6. /\ kex'["server"].rver = known /\ kex'["server"].sch = Cookie("server", known)
        /\ DOMAIN kex' = Roles
    BY <1>1, <2>1 DEF KexTypes
  <2>7. Untouched("client")
    BY <1>1, <1>2, <2>1, <2>3 DEF Untouched, KexTypes
  <2>8. p \in Packets["client"]
    <3>1. p \in Responses
      BY <1>3, Identified DEF IInv, Responses, Stands, Numbers, Sign
    <3> QED
      BY <3>1 DEF Packets
  <2>9. /\ Wires(Packets)' /\ Turns' /\ Counts' /\ (\A q \in Roles : Remains(q) /\ ~Data(wire'[q]))
        /\ Data(wire["server"]) /\ Head(wire["server"]).flag = "connect_request"
        /\ at' \in [Roles -> Places] /\ rxseq' \in [Roles -> Nat] /\ ~Holds("client")
    <3>1. /\ Go("server", "send") /\ out'["client"] = out["client"]
          /\ out'["server"] \in Packets["client"] /\ out'["server"].seq = txseq["server"]
          /\ out'["server"].flag # "error_condition"
      BY <2>3, <2>4, <2>7, <2>8 DEF Go, Untouched
    <3> QED
      BY <1>1, <3>1, ReceiveKeeps, PacketKindsHold DEF IInv
  <2>10. KexTypes'
    BY <1>1, <1>2, <2>3, <2>6, <2>9 DEF KexTypes, Flags
  <2>11. ClientTurn'
    BY <1>2, <2>7, UntouchedTurn DEF IInv
  <2>12. ServerTurn'
    BY <1>2, <1>3, <2>4, <2>5, <2>6 DEF ServerTurn, Stands, Established, Cookie
  <2>13. Bounds'
    BY <1>2, <1>3, <2>4, <2>7 DEF IInv, Bounds, Down, Untouched, Stands
  <2>14. id["client"].cfg = id["server"].cfg
    <3>1. body.cfg \in {id["client"].cfg, Garbled}
      BY <2>9 DEF IInv, Contents, ToServer
    <3>2. body.cfg = id["server"].cfg
      BY <1>6 DEF RequestVerdict
    <3> QED
      BY <3>1, <3>2, Identified DEF IInv
  <2>15. Contents'
    <3>1. at'["client"] # "send"
      BY <2>7, <2>9 DEF Holds, Untouched
    <3>2. ToClient(out["server"])'
      BY <1>2, <2>4, <2>14 DEF ToClient, Sign
    <3> QED
      BY <2>9, <3>1, <3>2 DEF Contents, Data
  <2>16. Agreement'
    <3>1. SteadyServer
      BY <1>2, <1>3, <2>4 DEF SteadyServer, Down, Stands
    <3>2. Established("client")' => agreed # <<>> /\ at["server"] \in {"session", "closed"}
      BY <2>7 DEF IInv, Agreement, Established, Untouched
    <3>3. exflag'["client"] # "none" => ~Down("client")'
      BY <2>7 DEF IInv, Bounds, Untouched, Down
    <3> QED
      BY <1>2, <2>7, <3>1, <3>2, <3>3, UntouchedSteady, AgreementKeep
  <2> QED
    BY <1>2, <2>9, <2>10, <2>11, <2>12, <2>13, <2>15, <2>16 DEF IInv, WireInv
<1> QED
  BY <1>5, <1>6

LEMMA ExchangeRequestKeeps ==
  ASSUME IInv, ClientExchangeRequest
  PROVE  IInv'
<1> USE TwoRoles
<1> DEFINE body == Head(wire["client"]).body
<1>1. KexTypes /\ Receive("client", "connect_response") /\ UNCHANGED <<channel, agreed, id, ckey>>
  BY DEF IInv, WireInv, ClientExchangeRequest, ownVars
<1>2. /\ at["client"] = "receive" /\ want["client"].flag = "connect_response"
      /\ UNCHANGED <<txseq, ended, link, garbled, channel, agreed, id, ckey>>
      /\ rxseq' = [rxseq EXCEPT !["client"] = @ + 1]
  BY <1>1 DEF Receive
<1>3. Stands("client", "connect_request", 1, 0)
  BY <1>2 DEF IInv, ClientTurn, Wanted
<1>4. /\ kex["client"].sch = Cookie("client", ckey)
      /\ ~Final /\ ~Down("client") /\ ~Established("client")
  BY <1>2, <1>3 DEF IInv, ClientTurn, Final, Down, Stands, Established
<1>5. CASE ResponseVerdict(body) # "none"
  <2>1. Refuse("client", ResponseVerdict(body)) /\ UNCHANGED kex
    BY <1>5 DEF ClientExchangeRequest
  <2>2. ResponseVerdict(body) \in Codes
    BY <1>5 DEF ResponseVerdict, SignatureVerdict, Codes
  <2>3. kex'["server"] = kex["server"] /\ DOMAIN kex' = Roles
    BY <1>1, <2>1 DEF KexTypes
  <2>4. ASSUME NEW code \in Codes, Refuse("client", code) PROVE IInv'
    BY <1>1, <2>3, <2>4, RefusedKeeps
  <2> QED
    BY <2>1, <2>2, <2>4
<1>6. CASE ResponseVerdict(body) = "none"
  <2>1. PICK secret \in Secrets, pk \in PublicKeys :
          LET cpt == Encapsulate(secret, body.pk) IN
          /\ kex' = [kex EXCEPT !["client"].ssec = secret, !["client"].prikey = pk]
          /\ Create("client", "exchange_request",
                    [cpt |-> cpt, pk |-> pk, sig |-> Sign(ckey, <<cpt, pk>>)],
                    Wanted("exchange_response", FALSE))
    BY <1>6 DEF ClientExchangeRequest
  <2>2. SetFlag("client", "exchange_request")
    BY <1>6 DEF ClientExchangeRequest
  <2> DEFINE cpt == Encapsulate(secret, body.pk)
             p == [flag |-> "exchange_request", seq |-> txseq["client"],
                   body |-> [cpt |-> cpt, pk |-> pk, sig |-> Sign(ckey, <<cpt, pk>>)]]
  <2>3. /\ at' = [at EXCEPT !["client"] = "send"] /\ out' = [out EXCEPT !["client"] = p]
        /\ want' = [want EXCEPT !["client"] = Wanted("exchange_response", FALSE)]
        /\ exflag' = [exflag EXCEPT !["client"] = "exchange_request"] /\ err' = err
    BY <2>1, <2>2 DEF Create, SetFlag, Go
  <2>4. /\ at'["client"] = "send" /\ out'["client"] = p /\ exflag'["client"] = "exchange_request"
        /\ want'["client"] = Wanted("exchange_response", FALSE) /\ rxseq'["client"] = rxseq["client"] + 1
    BY <1>1, <1>2, <2>3 DEF KexTypes
  <2>5. /\ kex'["client"].sch = Cookie("client", ckey) /\ kex'["client"].ssec = secret
        /\ DOMAIN kex' = Roles
    BY <1>1, <1>4, <2>1 DEF KexTypes
  <2>6. Untouched("server")
    BY <1>1, <1>2, <2>1, <2>3 DEF Untouched, KexTypes
  <2>7. /\ Data(wire["client"]) /\ Head(wire["client"]).flag = "connect_response"
        /\ Head(wire["client"]) \in Packets["client"]
    <3>1. wire["client"] # <<>>
      BY <1>1 DEF Receive, Arrived
    <3>2. Head(wire["client"]).flag = "connect_response"
      <4>1. want["client"].bare = FALSE
        BY <1>2, <1>3 DEF IInv, ClientTurn, Wanted, Stands
      <4> QED
        BY <1>1, <4>1 DEF Receive, Arrived
    <3> QED
      BY <3>1, <3>2, FirstPacket DEF Data, IInv
  <2>8. body.pk \in PublicKeys \cup {Garbled}
    BY <2>7, Carried
  <2>9. p \in Packets["server"]
    <3>1. cpt \in Encapsulated
      BY <2>8 DEF Encapsulate, Encapsulated
    <3>2. p \in Exchanges
      BY <1>3, <3>1 DEF IInv, Exchanges, Stands, Numbers, Sign
    <3> QED
      BY <3>2 DEF Packets
  <2>10. /\ Wires(Packets)' /\ Turns' /\ Counts' /\ (\A q \in Roles : Remains(q) /\ ~Data(wire'[q]))
         /\ at' \in [Roles -> Places] /\ rxseq' \in [Roles -> Nat] /\ ~Holds("server")
    <3>1. /\ Go("client", "send") /\ out'["server"] = out["server"]
          /\ out'["client"] \in Packets["server"] /\ out'["client"].seq = txseq["client"]
          /\ out'["client"].flag # "error_condition"
      BY <2>3, <2>4, <2>6, <2>9 DEF Go, Untouched
    <3> QED
      BY <1>1, <3>1, ReceiveKeeps, PacketKindsHold DEF IInv
  <2>11. KexTypes'
    BY <1>1, <1>2, <2>3, <2>5, <2>10 DEF KexTypes, Flags
  <2>12. id["client"] = id["server"]
    <3>1. body.sig # Garbled /\ body.sig.by = id["client"].ver
      BY <1>6, <1>3 DEF ResponseVerdict, SignatureVerdict, Verifies, Stands
    <3>2. id["client"].cfg = id["server"].cfg /\ body.sig.by = id["server"].ver
      BY <2>7, <3>1 DEF IInv, Contents, ToClient
    <3> QED
      BY <3>1, <3>2, Identified DEF IInv
  <2>13. ClientTurn'
    BY <1>2, <1>3, <2>4, <2>5, <2>12 DEF ClientTurn, Stands, Established, Cookie
  <2>14. ServerTurn'
    BY <1>2, <2>6, UntouchedTurn DEF IInv
  <2>15. Bounds'
    BY <1>2, <1>3, <2>4, <2>6 DEF IInv, Bounds, Down, Untouched, Stands
  <2>16. Contents'
    <3>1. at'["server"] # "send"
      BY <2>6, <2>10 DEF Holds, Untouched
    <3>2. ToServer(out["client"])'
      <4>1. p.body.sig.by = ckey /\ p.body.sig.data[1].secret = secret
        BY DEF Sign, Encapsulate
      <4> QED
        BY <1>2, <2>4, <2>5, <4>1 DEF ToServer, Early
    <3> QED
      BY <2>10, <3>1, <3>2 DEF Contents, Data
  <2>17. Agreement'
    <3>1. SteadyClient
      BY <1>2, <1>4, <2>4 DEF SteadyClient, Early
    <3>2. ~Established("client")' /\ ~Down("client")'
      BY <2>4 DEF Established, Down
    <3> QED
      BY <1>2, <2>6, <3>1, <3>2, UntouchedSteady, AgreementKeep
  <2> QED
    BY <1>2, <2>10, <2>11, <2>13, <2>14, <2>15, <2>16, <2>17 DEF IInv, WireInv
<1> QED
  BY <1>5, <1>6

LEMMA ExchangeResponseKeeps ==
  ASSUME IInv, ServerExchangeResponse
  PROVE  IInv'
<1> USE TwoRoles
<1> DEFINE body == Head(wire["server"]).body
<1>1. KexTypes /\ Receive("server", "exchange_request") /\ UNCHANGED <<kex, agreed, id, ckey>>
  BY DEF IInv, WireInv, ServerExchangeResponse, ownVars
<1>2. /\ at["server"] = "receive" /\ want["server"].flag = "exchange_request"
      /\ UNCHANGED <<txseq, ended, link, garbled, kex, agreed, id, ckey>>
      /\ rxseq' = [rxseq EXCEPT !["server"] = @ + 1]
  BY <1>1 DEF Receive
<1>3. Stands("server", "connect_response", 1, 1)
  BY <1>2 DEF IInv, ServerTurn, Wanted
<1>4. kex["server"].sch = Cookie("server", kex["server"].rver)
  BY <1>3 DEF IInv, ServerTurn, Stands
<1>5. CASE SecretVerdict(body) # "none"
  <2>1. Refuse("server", SecretVerdict(body)) /\ UNCHANGED channel
    BY <1>5 DEF ServerExchangeResponse
  <2>2. SecretVerdict(body) \in Codes
    <3>1. SignatureVerdict(body.sig, kex["server"].rver, <<body.cpt, body.pk>>) \in Codes \cup {"none"}
      BY DEF SignatureVerdict, Codes
    <3> QED
      BY <1>5, <3>1 DEF SecretVerdict, Codes
  <2>3. ASSUME NEW code \in Codes, Refuse("server", code) PROVE IInv'
    BY <1>1, <2>1, <2>3, RefusedKeeps DEF KexTypes
  <2> QED
    BY <2>1, <2>2, <2>3
<1>6. CASE SecretVerdict(body) = "none"
  <2>1. PICK secret \in Secrets :
          LET cpt == Encapsulate(secret, body.pk) IN
          /\ channel' = [channel EXCEPT !["server"] =
                          ServerChannel(<<body.cpt.secret, kex["server"].sch, secret>>)]
          /\ Create("server", "exchange_response", [cpt |-> cpt, sig |-> Sign(id["server"].ver, cpt)],
                    Wanted("establish_request", TRUE))
    BY <1>6 DEF ServerExchangeResponse
  <2>2. SetFlag("server", "exchange_response")
    BY <1>6 DEF ServerExchangeResponse
  <2> DEFINE cpt == Encapsulate(secret, body.pk)
             seed == <<body.cpt.secret, kex["server"].sch, secret>>
             p == [flag |-> "exchange_response", seq |-> txseq["server"],
                   body |-> [cpt |-> cpt, sig |-> Sign(id["server"].ver, cpt)]]
  <2>3. /\ at' = [at EXCEPT !["server"] = "send"] /\ out' = [out EXCEPT !["server"] = p]
        /\ want' = [want EXCEPT !["server"] = Wanted("establish_request", TRUE)]
        /\ exflag' = [exflag EXCEPT !["server"] = "exchange_response"] /\ err' = err
    BY <2>1, <2>2 DEF Create, SetFlag, Go
  <2>4. /\ at'["server"] = "send" /\ out'["server"] = p /\ exflag'["server"] = "exchange_response"
        /\ want'["server"] = Wanted("establish_request", TRUE) /\ rxseq'["server"] = rxseq["server"] + 1
        /\ channel'["server"] = ServerChannel(seed) /\ DOMAIN channel' = Roles
    BY <1>1, <1>2, <2>1, <2>3 DEF KexTypes
  <2>5. Untouched("client")
    BY <1>1, <1>2, <2>1, <2>3 DEF Untouched, KexTypes
  <2>6. /\ Data(wire["server"]) /\ Head(wire["server"]).flag = "exchange_request"
        /\ Head(wire["server"]) \in Packets["server"]
    <3>1. wire["server"] # <<>>
      BY <1>1 DEF Receive, Arrived
    <3>2. Head(wire["server"]).flag = "exchange_request"
      <4>1. want["server"].bare = FALSE
        BY <1>2, <1>3 DEF IInv, ServerTurn, Wanted, Stands
      <4> QED
        BY <1>1, <4>1 DEF Receive, Arrived
    <3> QED
      BY <3>1, <3>2, FirstPacket DEF Data, IInv
  <2>7. /\ body.pk \in PublicKeys \cup {Garbled}
        /\ body.cpt # Garbled => body.cpt.secret \in Secrets
    BY <2>6, Carried
  <2>8. p \in Packets["client"]
    <3>1. cpt \in Encapsulated
      BY <2>7 DEF Encapsulate, Encapsulated
    <3>2. p \in Answers
      BY <1>3, <3>1, Identified DEF IInv, Answers, Stands, Numbers, Sign
    <3> QED
      BY <3>2 DEF Packets
  <2>9. /\ Wires(Packets)' /\ Turns' /\ Counts' /\ (\A q \in Roles : Remains(q) /\ ~Data(wire'[q]))
        /\ at' \in [Roles -> Places] /\ rxseq' \in [Roles -> Nat] /\ ~Holds("client")
    <3>1. /\ Go("server", "send") /\ out'["client"] = out["client"]
          /\ out'["server"] \in Packets["client"] /\ out'["server"].seq = txseq["server"]
          /\ out'["server"].flag # "error_condition"
      BY <2>3, <2>4, <2>5, <2>8 DEF Go, Untouched
    <3> QED
      BY <1>1, <3>1, ReceiveKeeps, PacketKindsHold DEF IInv
  <2>10. KexTypes'
    BY <1>1, <1>2, <2>3, <2>4, <2>9 DEF KexTypes, Flags
  <2>11. /\ body.sig # Garbled /\ body.sig.by = kex["server"].rver /\ body.sig.data[1] = body.cpt
         /\ body.cpt # Garbled
    <3>1. /\ SignatureVerdict(body.sig, kex["server"].rver, <<body.cpt, body.pk>>) = "none"
          /\ Decapsulates("server", body.cpt)
      <4>1. SignatureVerdict(body.sig, kex["server"].rver, <<body.cpt, body.pk>>) \in Codes \cup {"none"}
        BY DEF SignatureVerdict, Codes
      <4> QED
        BY <1>3, <1>6, <4>1 DEF SecretVerdict, Stands
    <3>2. /\ Verifies(body.sig, kex["server"].rver) /\ body.sig.data = <<body.cpt, body.pk>>
      BY <3>1 DEF SignatureVerdict
    <3> QED
      BY <3>1, <3>2 DEF Verifies, Decapsulates
  <2>12. /\ ~Early /\ exflag["client"] \notin {"establish_request", "session_established"}
         /\ body.sig.by = ckey
         /\ exflag["client"] = "exchange_request" => body.cpt.secret = kex["client"].ssec
    BY <2>6, <2>11 DEF IInv, Contents, ToServer
  <2>13. seed \in Seeds /\ seed[2] = Cookie("server", ckey) /\ kex["server"].sch = Cookie("server", ckey)
    BY <1>4, <2>7, <2>11, <2>12, Identified DEF IInv, Seeds
  <2>14. ClientTurn'
    BY <1>2, <2>5, UntouchedTurn DEF IInv
  <2>15. ServerTurn'
    BY <1>2, <1>3, <2>4 DEF ServerTurn, Stands, Established
  <2>16. Bounds'
    BY <1>2, <1>3, <2>4, <2>5 DEF IInv, Bounds, Down, Untouched, Stands
  <2>17. Contents'
    <3>1. at'["client"] # "send"
      BY <2>5, <2>9 DEF Holds, Untouched
    <3>2. ToClient(out["server"])'
      <4>1. p.body.sig.data.secret = secret /\ p.flag = "exchange_response"
        BY DEF Sign, Encapsulate
      <4>2. exflag'["client"] = "exchange_request" =>
              channel'["server"] =
                ServerChannel(<<kex'["client"].ssec, Cookie("server", ckey)', p.body.sig.data.secret>>)
        BY <1>2, <2>4, <2>5, <2>12, <2>13, <4>1 DEF Untouched, Cookie
      <4> HIDE DEF p
      <4> QED
        BY <2>4, <4>1, <4>2 DEF ToClient, Cookie, ServerChannel, Derived
    <3> QED
      BY <2>9, <3>1, <3>2 DEF Contents, Data
  <2>18. Agreement'
    <3>1. Seed' = seed
      BY <2>4 DEF Seed, ServerChannel, Derived
    <3>2. ~Early' /\ (Final' <=> Final) /\ (Down("client")' <=> Down("client"))
      BY <2>5, <2>12 DEF Early, Final, Down, Untouched
    <3>3. exflag'["client"] \notin {"establish_request", "session_established"} /\ ~Established("client")'
      BY <2>5, <2>12 DEF Untouched, Established
    <3>4. ~Established("server")'
      BY <2>4 DEF Established
    <3>5. Cookie("server", ckey)' = Cookie("server", ckey)
      BY <1>2 DEF Cookie
    <3>6. agreed' # <<>> =>
            /\ Final' /\ ~Early'
            /\ agreed' \in Seeds /\ agreed'[2].client = ckey'
            /\ ~Down("client")' => channel'["client"] = ClientChannel(agreed')
      BY <1>2, <2>5, <3>2 DEF IInv, Agreement, Untouched
    <3>7. channel'["server"] = ServerChannel(Seed') /\ Seed' \in Seeds /\ Seed'[2] = Cookie("server", ckey)'
      BY <2>4, <2>13, <3>1, <3>5
    <3> QED
      BY <3>2, <3>3, <3>4, <3>6, <3>7 DEF Agreement, ClientChannel, ServerChannel, Derived, Cookie
  <2> QED
    BY <1>2, <2>9, <2>10, <2>14, <2>15, <2>16, <2>17, <2>18 DEF IInv, WireInv
<1> QED
  BY <1>5, <1>6

LEMMA EstablishRequestKeeps ==
  ASSUME IInv, ClientEstablishRequest
  PROVE  IInv'
<1> USE TwoRoles
<1> DEFINE body == Head(wire["client"]).body
<1>1. KexTypes /\ Receive("client", "exchange_response") /\ UNCHANGED <<kex, agreed, id, ckey>>
  BY DEF IInv, WireInv, ClientEstablishRequest, ownVars
<1>2. /\ at["client"] = "receive" /\ want["client"].flag = "exchange_response"
      /\ UNCHANGED <<txseq, ended, link, garbled, kex, agreed, id, ckey>>
      /\ rxseq' = [rxseq EXCEPT !["client"] = @ + 1]
  BY <1>1 DEF Receive
<1>3. Stands("client", "exchange_request", 2, 1)
  BY <1>2 DEF IInv, ClientTurn, Wanted
<1>4. /\ kex["client"].sch = Cookie("client", ckey) /\ id["client"] = id["server"]
      /\ ~Final /\ agreed = <<>> /\ ~Established("server")
  <2>1. kex["client"].sch = Cookie("client", ckey) /\ id["client"] = id["server"]
    BY <1>3 DEF IInv, ClientTurn, Stands
  <2>2. ~Final
    BY <1>2, <1>3 DEF Final, Down, Stands
  <2> QED
    BY <2>1, <2>2 DEF IInv, Agreement
<1>5. CASE AnswerVerdict(body) # "none"
  <2>1. Refuse("client", AnswerVerdict(body)) /\ UNCHANGED channel
    BY <1>5 DEF ClientEstablishRequest
  <2>2. AnswerVerdict(body) \in Codes
    <3>1. SignatureVerdict(body.sig, id["client"].ver, body.cpt) \in Codes \cup {"none"}
      BY DEF SignatureVerdict, Codes
    <3> QED
      BY <1>5, <3>1 DEF AnswerVerdict, Codes
  <2>3. ASSUME NEW code \in Codes, Refuse("client", code) PROVE IInv'
    BY <1>1, <2>1, <2>3, RefusedKeeps DEF KexTypes
  <2> QED
    BY <2>1, <2>2, <2>3
<1>6. CASE AnswerVerdict(body) = "none"
  <2> DEFINE seed == <<kex["client"].ssec, kex["client"].sch, body.cpt.secret>>
             p == [flag |-> "establish_request", seq |-> txseq["client"], body |-> <<>>]
  <2>1. /\ channel' = [channel EXCEPT !["client"] = ClientChannel(seed)]
        /\ Create("client", "establish_request", <<>>, Wanted("establish_response", TRUE))
        /\ SetFlag("client", "establish_request")
    BY <1>6 DEF ClientEstablishRequest
  <2>2. /\ at' = [at EXCEPT !["client"] = "send"] /\ out' = [out EXCEPT !["client"] = p]
        /\ want' = [want EXCEPT !["client"] = Wanted("establish_response", TRUE)]
        /\ exflag' = [exflag EXCEPT !["client"] = "establish_request"] /\ err' = err
    BY <2>1 DEF Create, SetFlag, Go
  <2>3. /\ at'["client"] = "send" /\ out'["client"] = p /\ exflag'["client"] = "establish_request"
        /\ want'["client"] = Wanted("establish_response", TRUE) /\ rxseq'["client"] = rxseq["client"] + 1
        /\ channel'["client"] = ClientChannel(seed) /\ DOMAIN channel' = Roles
    BY <1>1, <1>2, <2>1, <2>2 DEF KexTypes
  <2>4. Untouched("server")
    BY <1>1, <1>2, <2>1, <2>2 DEF Untouched, KexTypes
  <2>5. p \in Packets["server"]
    <3>1. p \in Bare
      BY <1>3 DEF Bare, Stands, Numbers
    <3> QED
      BY <3>1 DEF Packets
  <2>6. /\ Wires(Packets)' /\ Turns' /\ Counts' /\ (\A q \in Roles : Remains(q) /\ ~Data(wire'[q]))
        /\ Data(wire["client"]) /\ Head(wire["client"]).flag = "exchange_response"
        /\ at' \in [Roles -> Places] /\ rxseq' \in [Roles -> Nat] /\ ~Holds("server")
    <3>1. /\ Go("client", "send") /\ out'["server"] = out["server"]
          /\ out'["client"] \in Packets["server"] /\ out'["client"].seq = txseq["client"]
          /\ out'["client"].flag # "error_condition"
      BY <2>2, <2>3, <2>4, <2>5 DEF Go, Untouched
    <3> QED
      BY <1>1, <3>1, ReceiveKeeps, PacketKindsHold DEF IInv
  <2>7. KexTypes'
    BY <1>1, <1>2, <2>2, <2>3, <2>6 DEF KexTypes, Flags
  <2>8. body.sig # Garbled /\ body.sig.data = body.cpt
    <3>1. SignatureVerdict(body.sig, id["client"].ver, body.cpt) = "none"
      <4>1. SignatureVerdict(body.sig, id["client"].ver, body.cpt) \in Codes \cup {"none"}
        BY DEF SignatureVerdict, Codes
      <4> QED
        BY <1>3, <1>6, <4>1 DEF AnswerVerdict, Stands
    <3> QED
      BY <3>1 DEF SignatureVerdict, Verifies
  <2>9. ~Down("server") => /\ exflag["server"] = "exchange_response"
                           /\ channel["server"] = ServerChannel(seed)
    <3>1. ~Down("server") =>
            /\ exflag["server"] = "exchange_response"
            /\ channel["server"] =
                 ServerChannel(<<kex["client"].ssec, Cookie("server", ckey), body.sig.data.secret>>)
      BY <1>3, <2>6, <2>8 DEF IInv, Contents, ToClient, Stands
    <3>2. Cookie("server", ckey) = kex["client"].sch
      BY <1>4 DEF Cookie
    <3> QED
      BY <2>8, <3>1, <3>2
  <2>10. ClientTurn'
    BY <1>2, <1>3, <1>4, <2>3 DEF ClientTurn, Stands, Established
  <2>11. ServerTurn'
    BY <1>2, <2>4, UntouchedTurn DEF IInv
  <2>12. Bounds'
    BY <1>2, <1>3, <2>3, <2>4 DEF IInv, Bounds, Down, Untouched, Stands
  <2>13. Contents'
    <3>1. at'["server"] # "send"
      BY <2>4, <2>6 DEF Holds, Untouched
    <3>2. ToServer(out["client"])'
      BY <2>3 DEF ToServer, Final
    <3> QED
      BY <2>6, <3>1, <3>2 DEF Contents, Data
  <2>14. Agreement'
    <3>1. ~Early' /\ ~Established("client")' /\ ~Established("server")' /\ agreed' = <<>>
      BY <1>2, <1>4, <2>3, <2>4 DEF Early, Established, Untouched
    <3>2. Seed' = Seed /\ channel'["server"] = channel["server"] /\ exflag'["server"] = exflag["server"]
          /\ (Down("server")' <=> Down("server"))
      BY <2>4 DEF Seed, Untouched, Down
    <3>3. exflag'["server"] \in {"exchange_response", "session_established"} =>
            channel'["server"] = ServerChannel(Seed') /\ Seed' \in Seeds /\ Seed'[2] = Cookie("server", ckey)'
      BY <1>2, <3>2 DEF IInv, Agreement, Cookie
    <3>4. ~Down("server")' => /\ exflag'["server"] = "exchange_response"
                              /\ channel'["client"] = ClientChannel(Seed')
      <4>1. ~Down("server") => Seed = seed
        BY <2>9 DEF Seed, ServerChannel, Derived
      <4> QED
        BY <2>3, <2>9, <3>2, <4>1
    <3> QED
      BY <3>1, <3>3, <3>4 DEF Agreement, ClientChannel, ServerChannel, Derived, Cookie
  <2> QED
    BY <1>2, <2>6, <2>7, <2>10, <2>11, <2>12, <2>13, <2>14 DEF IInv, WireInv
<1> QED
  BY <1>5, <1>6

\* The listener has derived its keys: it never refuses here.
LEMMA EstablishResponseKeeps ==
  ASSUME IInv, ServerEstablishResponse
  PROVE  /\ IInv' /\ Untouched("client")
         /\ ~Established("server") /\ ~Down("server") /\ Established("server")' /\ ~Down("server")'
         /\ agreed' \in Seeds /\ channel'["server"] = ServerChannel(agreed')
<1> USE TwoRoles
<1>1. KexTypes /\ Receive("server", "establish_request") /\ UNCHANGED <<kex, channel, id, ckey>>
  BY DEF IInv, WireInv, ServerEstablishResponse, ownVars
<1>2. /\ at["server"] = "receive" /\ want["server"].flag = "establish_request"
      /\ UNCHANGED <<txseq, ended, link, garbled, kex, channel, id, ckey>>
      /\ rxseq' = [rxseq EXCEPT !["server"] = @ + 1]
  BY <1>1 DEF Receive
<1>3. Stands("server", "exchange_response", 2, 2)
  BY <1>2 DEF IInv, ServerTurn, Wanted
<1>4. /\ Create("server", "establish_response", <<>>, Nothing)
      /\ SetFlag("server", "session_established") /\ agreed' = Seed
  BY <1>3 DEF ServerEstablishResponse, Stands, Seed
<1> DEFINE p == [flag |-> "establish_response", seq |-> txseq["server"], body |-> <<>>]
<1>5. /\ at' = [at EXCEPT !["server"] = "send"] /\ out' = [out EXCEPT !["server"] = p]
      /\ want' = [want EXCEPT !["server"] = Nothing]
      /\ exflag' = [exflag EXCEPT !["server"] = "session_established"] /\ err' = err
  BY <1>4 DEF Create, SetFlag, Go
<1>6. /\ at'["server"] = "send" /\ out'["server"] = p /\ exflag'["server"] = "session_established"
      /\ want'["server"] = Nothing /\ rxseq'["server"] = rxseq["server"] + 1
  BY <1>1, <1>2, <1>5 DEF KexTypes
<1>7. Untouched("client")
  BY <1>1, <1>2, <1>5 DEF Untouched, KexTypes
<1>8. p \in Packets["client"]
  <2>1. p \in Bare
    BY <1>3 DEF Bare, Stands, Numbers
  <2> QED
    BY <2>1 DEF Packets
<1>9. /\ Wires(Packets)' /\ Turns' /\ Counts' /\ (\A q \in Roles : Remains(q) /\ ~Data(wire'[q]))
      /\ Data(wire["server"]) /\ Head(wire["server"]).flag = "establish_request"
      /\ at' \in [Roles -> Places] /\ rxseq' \in [Roles -> Nat] /\ ~Holds("client")
  <2>1. /\ Go("server", "send") /\ out'["client"] = out["client"]
        /\ out'["server"] \in Packets["client"] /\ out'["server"].seq = txseq["server"]
        /\ out'["server"].flag # "error_condition"
    BY <1>5, <1>6, <1>7, <1>8 DEF Go, Untouched
  <2> QED
    BY <1>1, <2>1, ReceiveKeeps, PacketKindsHold DEF IInv
<1>10. KexTypes'
  BY <1>1, <1>2, <1>5, <1>9 DEF KexTypes, Flags
<1>11. Final
  BY <1>9 DEF IInv, Contents, ToServer
<1>12. /\ ~Early /\ channel["server"] = ServerChannel(Seed)
       /\ Seed \in Seeds /\ Seed[2] = Cookie("server", ckey)
       /\ ~Established("client")
  BY <1>2, <1>3 DEF IInv, Agreement, Stands
<1>13. ~Down("client") => channel["client"] = ClientChannel(Seed)
  BY <1>2, <1>11 DEF IInv, Agreement, Final, Down
<1>14. Seed # <<>>
  BY <1>12 DEF Seeds
<1>15. ClientTurn'
  BY <1>2, <1>7, UntouchedTurn DEF IInv
<1>16. ServerTurn'
  BY <1>2, <1>3, <1>6 DEF ServerTurn, Stands, Established
<1>17. Bounds'
  BY <1>2, <1>3, <1>6, <1>7 DEF IInv, Bounds, Down, Untouched, Stands
<1>18. Contents'
  <2>1. at'["client"] # "send"
    BY <1>7, <1>9 DEF Holds, Untouched
  <2>2. ToClient(out["server"])'
    BY <1>4, <1>6, <1>14 DEF ToClient
  <2> QED
    BY <1>9, <2>1, <2>2 DEF Contents, Data
<1>19. Agreement'
  <2>1. /\ ~Early' /\ Final' /\ (Down("client")' <=> Down("client")) /\ ~Established("client")'
        /\ channel'["client"] = channel["client"] /\ exflag'["client"] = exflag["client"]
    BY <1>7, <1>11, <1>12 DEF Early, Final, Down, Established, Untouched
  <2>2. Seed' = Seed /\ channel'["server"] = ServerChannel(Seed') /\ agreed' = Seed'
        /\ Cookie("server", ckey)' = Cookie("server", ckey)
    BY <1>2, <1>4, <1>12 DEF Seed, Cookie
  <2>3. Seed' \in Seeds /\ Seed'[2] = Cookie("server", ckey)' /\ Seed'[2].client = ckey' /\ Seed' # <<>>
    BY <1>2, <1>12, <1>14, <2>2 DEF Cookie
  <2>4. ~Down("client")' => channel'["client"] = ClientChannel(Seed')
    BY <1>13, <2>1, <2>2
  <2>5. exflag'["client"] \in {"establish_request", "session_established"} => ~Down("client")'
    BY <2>1 DEF IInv, Bounds
  <2> QED
    BY <1>6, <2>1, <2>2, <2>3, <2>4, <2>5 DEF Agreement, ClientChannel, ServerChannel, Derived, Cookie
<1>20. IInv'
  BY <1>2, <1>9, <1>10, <1>15, <1>16, <1>17, <1>18, <1>19 DEF IInv, WireInv
<1> QED
  BY <1>2, <1>3, <1>4, <1>6, <1>7, <1>12, <1>20 DEF Established, Down, Stands

\* The client is the last to be established, when the listener has been.
LEMMA EstablishVerifyKeeps ==
  ASSUME IInv, ClientEstablishVerify
  PROVE  /\ IInv' /\ Untouched("server")
         /\ ~Established("client") /\ ~Down("client") /\ Established("client")' /\ ~Down("client")'
         /\ agreed # <<>> /\ UNCHANGED <<channel, agreed>>
         /\ channel["client"] = ClientChannel(agreed)
<1> USE TwoRoles
<1>1. KexTypes /\ Receive("client", "establish_response") /\ UNCHANGED <<channel, agreed, id, ckey>>
  BY DEF IInv, WireInv, ClientEstablishVerify, ownVars
<1>2. /\ at["client"] = "receive" /\ want["client"].flag = "establish_response"
      /\ UNCHANGED <<txseq, ended, link, garbled, channel, agreed, id, ckey>>
      /\ rxseq' = [rxseq EXCEPT !["client"] = @ + 1]
  BY <1>1 DEF Receive
<1>3. Stands("client", "establish_request", 3, 2)
  BY <1>2 DEF IInv, ClientTurn, Wanted
<1>4. /\ SetFlag("client", "session_established") /\ Go("client", "session") /\ ClearExchange("client")
      /\ UNCHANGED <<out, want, err>>
  BY <1>3 DEF ClientEstablishVerify, Stands
<1>5. /\ at' = [at EXCEPT !["client"] = "session"]
      /\ exflag' = [exflag EXCEPT !["client"] = "session_established"]
      /\ kex' = [kex EXCEPT !["client"] = NoExchange]
  BY <1>4 DEF SetFlag, Go, ClearExchange
<1>6. /\ at'["client"] = "session" /\ exflag'["client"] = "session_established"
      /\ rxseq'["client"] = rxseq["client"] + 1
  BY <1>1, <1>2, <1>5 DEF KexTypes
<1>7. Untouched("server")
  BY <1>1, <1>2, <1>4, <1>5 DEF Untouched, KexTypes
<1>8. /\ Wires(Packets)' /\ Turns' /\ Counts' /\ (\A q \in Roles : Remains(q) /\ ~Data(wire'[q]))
      /\ Data(wire["client"]) /\ Head(wire["client"]).flag = "establish_response"
      /\ at' \in [Roles -> Places] /\ rxseq' \in [Roles -> Nat]
  <2>1. Go("client", "session") /\ out'["server"] = out["server"]
    BY <1>4
  <2> QED
    BY <1>1, <2>1, ReceiveKeeps, PacketKindsHold DEF IInv
<1>9. KexTypes'
  BY <1>1, <1>2, <1>4, <1>5, <1>8 DEF KexTypes, Flags
<1>10. agreed # <<>> /\ at["server"] \in {"session", "closed"}
  BY <1>8 DEF IInv, Contents, ToClient
<1>11. id["client"] = id["server"]
  BY <1>3 DEF IInv, ClientTurn, Stands
<1>12. channel["client"] = ClientChannel(agreed)
  BY <1>2, <1>10 DEF IInv, Agreement, Down
<1>13. ClientTurn'
  BY <1>2, <1>3, <1>6, <1>11 DEF ClientTurn, Stands, Established
<1>14. ServerTurn'
  BY <1>2, <1>7, UntouchedTurn DEF IInv
<1>15. Bounds'
  BY <1>2, <1>3, <1>6, <1>7 DEF IInv, Bounds, Down, Untouched, Stands
<1>16. Contents'
  <2>1. at'["server"] # "send"
    BY <1>7, <1>10 DEF Untouched
  <2> QED
    BY <1>6, <1>8, <2>1 DEF Contents, Data
<1>17. Agreement'
  <2>1. SteadyClient
    BY <1>2, <1>3, <1>6 DEF SteadyClient, Early, Final, Down, Stands
  <2>2. ~Down("client")'
    BY <1>6 DEF Down
  <2> QED
    BY <1>2, <1>7, <1>10, <2>1, <2>2, UntouchedSteady, AgreementKeep
<1>18. IInv'
  BY <1>2, <1>8, <1>9, <1>13, <1>14, <1>15, <1>16, <1>17 DEF IInv, WireInv
<1> QED
  BY <1>2, <1>3, <1>6, <1>7, <1>10, <1>12, <1>18 DEF Established, Down, Stands

-----------------------------------------------------------------------------
(* The steps it shares with the simplex exchange *)

LEMMA SendStep ==
  ASSUME IInv, NEW r \in Roles, Send(r), UNCHANGED ownVars
  PROVE  IInv'
<1> USE TwoRoles
<1>1. KexTypes
  BY DEF IInv, WireInv
<1>2. /\ at[r] = "send" /\ UNCHANGED <<exflag, rxseq, out, want, ended, link, garbled, channel, agreed, id, ckey>>
      /\ at' = [at EXCEPT ![r] = at'[r]]
      /\ at'[r] \in {"receive", "session", "failing"}
      /\ at'[r] # "failing" => txseq' = [txseq EXCEPT ![r] = @ + 1]
      /\ at'[r] = "failing" => txseq' = txseq /\ kex' = kex
      /\ at'[r] = "receive" => want[r] # Nothing /\ kex' = kex
      /\ at'[r] = "session" => want[r] = Nothing /\ kex' = [kex EXCEPT ![r] = NoExchange]
  BY <1>1 DEF Send, Go, SentSeq, ClearExchange, KexTypes, ownVars
<1>3. /\ WireInv(Packets)' /\ Remains(r)
      /\ Data(wire'[Other(r)]) => Head(wire'[Other(r)]) = out[r]
  BY PacketKindsHold, SendKeeps DEF IInv
<1>4. Untouched(Other(r)) /\ Other(r) \in Roles /\ Other(r) # r
  BY <1>1, <1>2, OtherRole DEF Untouched, KexTypes
<1>5. txseq'[r] \in {txseq[r], txseq[r] + 1} /\ (at'[r] # "failing" => txseq'[r] = txseq[r] + 1)
  BY <1>1, <1>2 DEF KexTypes
<1>6. r = "client" => kex' = kex /\ at'["client"] \in {"receive", "failing"}
  <2>1. r = "client" => \/ want["client"] = Wanted("connect_response", FALSE)
                        \/ want["client"] = Wanted("exchange_response", FALSE)
                        \/ want["client"] = Wanted("establish_response", TRUE)
    BY <1>2 DEF IInv, ClientTurn
  <2>2. r = "client" => want["client"] # Nothing
    BY <2>1 DEF Wanted, Nothing
  <2> QED
    BY <1>2, <2>2
<1>7. ASSUME r = "client" PROVE ClientTurn' /\ ServerTurn'
  <2>1. ServerTurn'
    BY <1>2, <1>4, <1>7, UntouchedTurn DEF IInv
  <2>2. ClientTurn'
    <3>1. CASE at'["client"] = "failing"
      BY <1>2, <1>6, <1>7, <3>1 DEF IInv, ClientTurn, Established, Cookie
    <3>2. CASE at'["client"] = "receive"
      <4>1. txseq'["client"] = txseq["client"] + 1 /\ exflag' = exflag /\ rxseq' = rxseq /\ want' = want
        BY <1>2, <1>5, <1>7, <3>2
      <4>2. /\ Stands("client", "connect_request", 0, 0) => Stands("client", "connect_request", 1, 0)'
            /\ Stands("client", "exchange_request", 1, 1) => Stands("client", "exchange_request", 2, 1)'
            /\ Stands("client", "establish_request", 2, 2) => Stands("client", "establish_request", 3, 2)'
        BY <4>1 DEF Stands
      <4>3. \/ Stands("client", "connect_request", 0, 0) /\ want["client"] = Wanted("connect_response", FALSE)
            \/ Stands("client", "exchange_request", 1, 1) /\ want["client"] = Wanted("exchange_response", FALSE)
            \/ Stands("client", "establish_request", 2, 2) /\ want["client"] = Wanted("establish_response", TRUE)
        BY <1>2, <1>7 DEF IInv, ClientTurn
      <4>4. \/ Stands("client", "connect_request", 1, 0)' /\ want'["client"] = Wanted("connect_response", FALSE)
            \/ Stands("client", "exchange_request", 2, 1)' /\ want'["client"] = Wanted("exchange_response", FALSE)
            \/ Stands("client", "establish_request", 3, 2)' /\ want'["client"] = Wanted("establish_response", TRUE)
        BY <4>1, <4>2, <4>3
      <4>5. /\ ~Established("client")
            /\ exflag["client"] \in {"connect_request", "exchange_request"} =>
                 kex["client"].sch = Cookie("client", ckey)
            /\ exflag["client"] = "exchange_request" => kex["client"].ssec \in Secrets
            /\ exflag["client"] \in {"exchange_request", "establish_request", "session_established"} =>
                 id["client"] = id["server"]
        BY <1>2, <1>7 DEF IInv, ClientTurn
      <4> QED
        BY <1>2, <1>6, <1>7, <3>2, <4>4, <4>5 DEF ClientTurn, Established, Cookie
    <3> QED
      BY <1>6, <1>7, <3>1, <3>2
  <2> QED
    BY <2>1, <2>2
<1>8. ASSUME r = "server" PROVE ClientTurn' /\ ServerTurn'
  <2>1. ClientTurn'
    BY <1>2, <1>4, <1>8, UntouchedTurn DEF IInv
  <2>2. ServerTurn'
    <3>1. CASE Stands("server", "connect_response", 0, 1)
      <4>1. want["server"] = Wanted("exchange_request", FALSE)
        BY <1>2, <1>8, <3>1 DEF IInv, ServerTurn, Stands
      <4>2. kex' = kex /\ at'["server"] \in {"receive", "failing"}
        BY <1>2, <1>8, <4>1 DEF Wanted, Nothing
      <4> QED
        BY <1>2, <1>5, <1>8, <3>1, <4>1, <4>2 DEF IInv, ServerTurn, Stands, Established, Cookie
    <3>2. CASE Stands("server", "exchange_response", 1, 2)
      <4>1. want["server"] = Wanted("establish_request", TRUE)
        BY <1>2, <1>8, <3>2 DEF IInv, ServerTurn, Stands
      <4>2. kex' = kex /\ at'["server"] \in {"receive", "failing"}
        BY <1>2, <1>8, <4>1 DEF Wanted, Nothing
      <4> QED
        BY <1>2, <1>5, <1>8, <3>2, <4>1, <4>2 DEF IInv, ServerTurn, Stands, Established, Cookie
    <3>3. CASE Stands("server", "session_established", 2, 3)
      <4>1. want["server"] = Nothing
        BY <1>2, <1>8, <3>3 DEF IInv, ServerTurn, Stands
      <4>2. at'["server"] \in {"session", "failing"}
        BY <1>2, <1>8, <4>1
      <4> QED
        BY <1>2, <1>5, <1>8, <3>3, <4>2 DEF IInv, ServerTurn, Stands, Established, Cookie
    <3>4. \/ Stands("server", "connect_response", 0, 1)
          \/ Stands("server", "exchange_response", 1, 2)
          \/ Stands("server", "session_established", 2, 3)
      BY <1>2, <1>8 DEF IInv, ServerTurn
    <3> QED
      BY <3>1, <3>2, <3>3, <3>4
  <2> QED
    BY <2>1, <2>2
<1>9. Bounds'
  <2>1. txseq'[r] \in 0 .. 3
    <3>1. txseq[r] = 0 \/ txseq[r] = 1 \/ txseq[r] = 2
      <4>1. at["client"] = "send" => txseq["client"] = 0 \/ txseq["client"] = 1 \/ txseq["client"] = 2
        BY DEF IInv, ClientTurn, Stands
      <4>2. at["server"] = "send" => txseq["server"] = 0 \/ txseq["server"] = 1 \/ txseq["server"] = 2
        BY DEF IInv, ServerTurn, Stands
      <4> QED
        BY <1>2, <4>1, <4>2
    <3> QED
      BY <1>5, <3>1
  <2>2. \A q \in Roles : q = r \/ q = Other(r)
    BY OtherRole
  <2> QED
    BY <1>2, <1>4, <2>1, <2>2 DEF IInv, Bounds, Down, Untouched
<1>10. /\ \A q \in Roles : at[q] # "send" => at'[q] = at[q]
       /\ \A q \in Roles : Down(q)' <=> Down(q)
       /\ Early' <=> Early
  BY <1>1, <1>2 DEF Early, Down, KexTypes
<1>11. SteadyClient /\ SteadyServer
  BY <1>2, <1>10 DEF SteadyClient, SteadyServer, Final
<1>12. /\ \A p : ToServer(p) => ToServer(p)'
       /\ \A p : ToClient(p) => ToClient(p)'
  <2>1. exflag'["client"] = "exchange_request" =>
          exflag["client"] = "exchange_request" /\ kex'["client"] = kex["client"]
    BY <1>2, <1>4, <1>6 DEF Untouched
  <2> QED
    BY <1>2, <1>11, <2>1, StillSaid
<1>13. Contents'
  <2>1. Data(wire[Other(r)]) => FALSE
    BY <1>2 DEF IInv, WireInv, Turns, Holds, Data
  <2>2. ~Data(wire'[r])
    <3>1. ~Data(wire[r])
      BY <1>2 DEF IInv, WireInv, Turns, Holds
    <3> QED
      BY <1>3, <3>1 DEF Remains
  <2>3. at'[r] # "send" /\ at'[Other(r)] # "send"
    <3>1. ~Holds(Other(r))
      BY <1>2 DEF IInv, WireInv, Turns, Holds
    <3> QED
      BY <1>2, <1>4, <3>1 DEF Holds, Untouched
  <2>4. CASE r = "client"
    <3>1. ToServer(out["client"])
      BY <1>2, <2>4 DEF IInv, Contents
    <3>2. ASSUME NEW p, p = out["client"] PROVE ToServer(p)'
      BY <1>12, <3>1, <3>2
    <3>3. Data(wire'["server"]) => ToServer(Head(wire["server"]))'
      BY <1>3, <2>4, <3>2 DEF ToServer
    <3> QED
      BY <2>2, <2>3, <2>4, <3>3 DEF Contents, Data
  <2>5. CASE r = "server"
    <3>1. /\ ToClient(out["server"])
          /\ out["server"].flag = "establish_response" => want["server"] = Nothing
      BY <1>2, <2>5 DEF IInv, Contents, ServerTurn
    <3>2. ASSUME NEW p, p = out["server"] PROVE ToClient(p)'
      BY <1>12, <3>1, <3>2
    <3>3. Data(wire'["client"]) => ToClient(Head(wire["client"]))'
      BY <1>3, <2>5, <3>2 DEF ToClient
    <3>4. Data(wire'["client"]) => at'["server"] # "failing"
      <4>1. ASSUME at'["server"] = "failing" PROVE wire' = wire
        BY <1>1, <1>2, <2>5, <4>1 DEF Send, Go, KexTypes
      <4> QED
        BY <2>1, <2>5, <4>1
    <3>5. Data(wire'["client"]) /\ Head(wire'["client"]).flag = "establish_response" => at'["server"] = "session"
      BY <1>2, <1>3, <2>5, <3>1, <3>4
    <3> QED
      BY <2>2, <2>3, <2>5, <3>3, <3>5 DEF Contents, Data
  <2> QED
    BY <2>4, <2>5
<1>14. Agreement'
  <2>1. Established("client")' => agreed # <<>> /\ at["server"] \in {"session", "closed"}
    BY <1>2 DEF IInv, Agreement, Established
  <2>2. exflag'["client"] # "none" => ~Down("client")'
    BY <1>2, <1>10 DEF IInv, Bounds
  <2> QED
    BY <1>2, <1>11, <2>1, <2>2, AgreementKeep
<1> QED
  BY <1>2, <1>3, <1>7, <1>8, <1>9, <1>13, <1>14 DEF IInv

\* A receive that fails leaves the counters and the flag.
LEMMA ReceiveFailsStep ==
  ASSUME IInv, NEW r \in Roles, ReceiveFails(r), UNCHANGED ownVars
  PROVE  IInv'
<1> USE TwoRoles
<1>1. KexTypes
  BY DEF IInv, WireInv
<1>2. /\ at[r] = "receive" /\ at' = [at EXCEPT ![r] = "failing"]
      /\ UNCHANGED <<exflag, txseq, rxseq, out, want, kex, channel, agreed, id, ckey>>
  BY DEF ReceiveFails, Go, keyVars, ownVars
<1>3. WireInv(Packets)' /\ (\A q \in Roles : Remains(q))
  BY PacketKindsHold, ReceiveFailsKeeps DEF IInv
<1>4. at'[r] = "failing" /\ \A q \in Roles : q # r => at'[q] = at[q]
  BY <1>1, <1>2 DEF KexTypes
<1>5. ~Established(r)
  BY <1>2 DEF IInv, ClientTurn, ServerTurn, Established
<1>6. ClientTurn' /\ ServerTurn'
  BY <1>2, <1>4, <1>5 DEF IInv, ClientTurn, ServerTurn, Stands, Established, Cookie
<1>7. \A q \in Roles : Down(q)' <=> Down(q)
  BY <1>2, <1>4 DEF Down
<1>8. Bounds'
  BY <1>2, <1>7 DEF IInv, Bounds
<1>9. SteadyClient /\ SteadyServer
  <2>1. at["server"] \in {"session", "closed"} => at'["server"] \in {"session", "closed"}
    BY <1>2, <1>4
  <2>2. Early' => Early
    BY <1>2, <1>4 DEF Early
  <2> QED
    BY <1>2, <1>7, <2>1, <2>2 DEF SteadyClient, SteadyServer, Final
<1>10. Contents'
  <2>1. \A q \in Roles : at'[q] = "send" => at[q] = "send" /\ out'[q] = out[q]
    BY <1>2, <1>4
  <2> QED
    BY <1>2, <1>3, <1>9, <2>1, ContentsKeep
<1>11. Agreement'
  <2>1. Established("client")' => agreed # <<>> /\ at["server"] \in {"session", "closed"}
    BY <1>2 DEF IInv, Agreement, Established
  <2>2. exflag'["client"] # "none" => ~Down("client")'
    BY <1>2, <1>7 DEF IInv, Bounds
  <2> QED
    BY <1>2, <1>9, <2>1, <2>2, AgreementKeep
<1> QED
  BY <1>2, <1>3, <1>6, <1>8, <1>10, <1>11 DEF IInv

\* A host that gives up or closes, and its erased connection state.
LEMMA LeavesStep ==
  ASSUME IInv, NEW r \in Roles, GiveUp(r) \/ SessionEnds(r), UNCHANGED ownVars
  PROVE  IInv' /\ ~Down(r) /\ Down(r)' /\ ~Established(r)' /\ Untouched(Other(r)) /\ agreed' = agreed
<1> USE TwoRoles
<1>1. KexTypes
  BY DEF IInv, WireInv
<1>2. /\ at[r] \in {"failing", "session"} /\ UNCHANGED <<out, want, agreed, id, ckey>> /\ Dispose(r)
      /\ \/ at' = [at EXCEPT ![r] = "failed"]
         \/ at' = [at EXCEPT ![r] = "closed"] /\ at[r] = "session"
      /\ \/ kex' = [kex EXCEPT ![r] = NoExchange]
         \/ kex' = kex
  <2>1. CASE GiveUp(r)
    BY <2>1 DEF GiveUp, Go, ClearExchange, ownVars
  <2>2. CASE SessionEnds(r)
    BY <2>2 DEF SessionEnds, Go, ownVars
  <2> QED
    BY <2>1, <2>2
<1>3. at'[r] \in {"failed", "closed"} /\ (at[r] = "session" => at'[r] = "closed")
  <2>1. GiveUp(r) => at[r] = "failing"
    BY DEF GiveUp
  <2>2. SessionEnds(r) => at' = [at EXCEPT ![r] = "closed"]
    BY DEF SessionEnds, Go
  <2> QED
    BY <1>1, <1>2, <2>1, <2>2 DEF KexTypes
<1>4. WireInv(Packets)' /\ (\A q \in Roles : Remains(q))
  BY PacketKindsHold, GiveUpKeeps, SessionEndsKeeps DEF IInv
<1>5. Untouched(Other(r)) /\ Other(r) \in Roles /\ Other(r) # r /\ \A q \in Roles : q = r \/ q = Other(r)
  BY <1>1, <1>2, OtherRole DEF Untouched, Dispose, KexTypes
<1>6. exflag'[r] = "none" /\ txseq'[r] = 0 /\ rxseq'[r] = 0
  BY <1>1, <1>2 DEF Dispose, KexTypes
<1>7. ClientTurn' /\ ServerTurn'
  <2>1. CASE r = "client"
    BY <1>2, <1>3, <1>5, <1>6, <2>1, UntouchedTurn DEF IInv, ClientTurn, Established
  <2>2. CASE r = "server"
    BY <1>2, <1>3, <1>5, <1>6, <2>2, UntouchedTurn DEF IInv, ServerTurn, Established
  <2> QED
    BY <2>1, <2>2
<1>8. Bounds'
  BY <1>5, <1>6 DEF IInv, Bounds, Down, Untouched
<1>9. Down(r)' /\ ~Down(r)
  BY <1>2, <1>3 DEF Down
<1>10. SteadyClient /\ SteadyServer
  <2>1. CASE r = "client"
    <3>1. SteadyClient
      BY <1>3, <1>6, <1>9, <2>1 DEF SteadyClient, Early, Final, Down
    <3> QED
      BY <1>5, <2>1, <3>1, UntouchedSteady
  <2>2. CASE r = "server"
    <3>1. SteadyServer
      BY <1>2, <1>3, <1>6, <1>9, <2>2 DEF SteadyServer
    <3> QED
      BY <1>5, <2>2, <3>1, UntouchedSteady
  <2> QED
    BY <2>1, <2>2
<1>11. Contents'
  <2>1. \A q \in Roles : at'[q] = "send" => at[q] = "send" /\ out'[q] = out[q]
    BY <1>2, <1>3, <1>5 DEF Untouched
  <2>2. exflag'["client"] = "exchange_request" =>
          exflag["client"] = "exchange_request" /\ kex'["client"] = kex["client"]
    BY <1>5, <1>6 DEF Untouched
  <2> QED
    BY <1>2, <1>4, <1>10, <2>1, <2>2, ContentsKeep
<1>12. Agreement'
  <2>1. Established("client")' => agreed # <<>> /\ at["server"] \in {"session", "closed"}
    <3>1. Established("client")' => Established("client")
      BY <1>5, <1>6 DEF Established, Untouched
    <3> QED
      BY <3>1 DEF IInv, Agreement
  <2>2. exflag'["client"] # "none" => ~Down("client")'
    BY <1>8 DEF Bounds
  <2> QED
    BY <1>2, <1>10, <2>1, <2>2, AgreementKeep
<1> QED
  BY <1>2, <1>4, <1>5, <1>6, <1>7, <1>8, <1>9, <1>11, <1>12 DEF IInv, Established

\* What happens on the network touches no host.
LEMMA NetworkStep ==
  ASSUME IInv, Network, UNCHANGED ownVars
  PROVE  IInv' /\ Untouched("client") /\ Untouched("server") /\ agreed' = agreed
<1> USE TwoRoles
<1>1. UNCHANGED <<at, exflag, txseq, rxseq, want, out, kex, channel, agreed, id, ckey>>
  BY DEF Network, Drop, Garble, posVars, keyVars, ownVars
<1>2. WireInv(Packets)' /\ (\A q \in Roles : Remains(q))
  BY PacketKindsHold, DropKeeps, GarbleKeeps, BoundAssumption DEF IInv, Network
<1>3. Untouched("client") /\ Untouched("server")
  BY <1>1 DEF Untouched
<1>4. ClientTurn' /\ ServerTurn'
  BY <1>1, <1>3, UntouchedTurn DEF IInv
<1>5. Bounds'
  BY <1>1 DEF IInv, Bounds, Down
<1>6. SteadyClient /\ SteadyServer
  BY <1>3, UntouchedSteady
<1>7. Contents'
  BY <1>1, <1>2, <1>6, ContentsKeep
<1>8. Agreement'
  <2>1. Established("client")' => agreed # <<>> /\ at["server"] \in {"session", "closed"}
    BY <1>1 DEF IInv, Agreement, Established
  <2>2. exflag'["client"] # "none" => ~Down("client")'
    BY <1>5 DEF Bounds
  <2> QED
    BY <1>1, <1>6, <2>1, <2>2, AgreementKeep
<1> QED
  BY <1>1, <1>2, <1>3, <1>4, <1>5, <1>7, <1>8 DEF IInv

-----------------------------------------------------------------------------
(* The invariant *)

LEMMA Init_IInv == Init => IInv
<1> SUFFICES ASSUME Init PROVE IInv
  OBVIOUS
<1> USE TwoRoles
<1>1. WireInv(Packets)
  BY BoundAssumption, WireInitKeeps DEF Init
<1>2. ClientTurn /\ ServerTurn /\ Bounds
  BY DEF Init, WireInit, ClientTurn, ServerTurn, Bounds, Stands, Established, Down
<1>3. Contents /\ Agreement
  BY DEF Init, WireInit, Contents, Agreement, Data, Established
<1> QED
  BY <1>1, <1>2, <1>3 DEF Init, IInv

LEMMA Stutter_IInv == IInv /\ UNCHANGED vars => IInv'
<1> SUFFICES ASSUME IInv, UNCHANGED vars PROVE IInv'
  OBVIOUS
<1> USE DEF vars, wireVars, posVars, netVars, keyVars
<1>1. WireInv(Packets)'
  BY DEF IInv, WireInv, KexTypes, Wires, Turns, Counts, Holds, Data, Down
<1>2. ClientTurn' /\ ServerTurn'
  BY DEF IInv, ClientTurn, ServerTurn, Stands, Established, Cookie
<1>3. Bounds'
  BY DEF IInv, Bounds, Down
<1>4. Agreement'
  BY DEF IInv, Agreement, Down, Established, Early, Final, Seed, Cookie
<1>5. Contents'
  BY DEF IInv, Contents, Data, ToServer, ToClient, Early, Final, Down, Cookie
<1> QED
  BY <1>1, <1>2, <1>3, <1>4, <1>5 DEF IInv

LEMMA Next_IInv == IInv /\ [Next]_vars => IInv'
<1> SUFFICES ASSUME IInv, [Next]_vars PROVE IInv'
  OBVIOUS
<1>1. CASE ClientStep
  BY <1>1, ConnectRequestKeeps, ExchangeRequestKeeps, EstablishRequestKeeps, EstablishVerifyKeeps,
     SendStep, ReceiveFailsStep, LeavesStep, TwoRoles DEF ClientStep, HostStep
<1>2. CASE ServerStep
  BY <1>2, ConnectResponseKeeps, ExchangeResponseKeeps, EstablishResponseKeeps,
     SendStep, ReceiveFailsStep, LeavesStep, TwoRoles DEF ServerStep, HostStep
<1>3. CASE Network /\ UNCHANGED ownVars
  BY <1>3, NetworkStep
<1>4. CASE UNCHANGED vars
  BY <1>4, Stutter_IInv
<1> QED
  BY <1>1, <1>2, <1>3, <1>4 DEF Next

LEMMA Spec_IInv == Spec => []IInv
BY Init_IInv, Next_IInv, PTL DEF Spec

-----------------------------------------------------------------------------
(* What it implies *)

\* TypeOK: no host counts beyond its three packets, and there are never more than
\* two packets before a host.
THEOREM TypeCorrect == Spec => []TypeOK
<1>1. IInv => TypeOK
  <2> SUFFICES ASSUME IInv PROVE TypeOK
    OBVIOUS
  <2>1. txseq \in [Roles -> 0 .. 3] /\ rxseq \in [Roles -> 0 .. 3]
    BY DEF IInv, WireInv, KexTypes, Bounds
  <2> QED
    BY <2>1, WireTypes DEF IInv, TypeOK, WireTypeOK
<1> QED
  BY <1>1, Spec_IInv, PTL

\* MutualIdentity: the signature of the connect response names the listener the
\* client asked for, and the signature of the exchange request the client whose
\* key the listener had looked up.
THEOREM KnowEachOther == Spec => []MutualIdentity
<1>1. IInv => MutualIdentity
  BY DEF IInv, ClientTurn, Agreement, MutualIdentity, Established
<1> QED
  BY <1>1, Spec_IInv, PTL

\* KeyAgreement: when both hosts are established their channels are crossed, their
\* ratchet keys are the same and each expects the number the other sends next.
THEOREM KeysAgree == Spec => []KeyAgreement
<1>1. ASSUME IInv, Established("client"), Established("server")
      PROVE  /\ channel["client"].tx = channel["server"].rx
             /\ channel["client"].rx = channel["server"].tx
             /\ channel["client"].tx # channel["client"].rx
             /\ channel["client"].rtc = channel["server"].rtc
             /\ \A r \in Roles : txseq[r] = rxseq[Other(r)]
  <2>1. at["client"] = "session" /\ at["server"] = "session"
    BY <1>1, TwoRoles DEF IInv, ClientTurn, ServerTurn, Agreement
  <2>2. channel["server"] = ServerChannel(Seed)
    BY <1>1 DEF IInv, Agreement, Established
  <2>3. channel["client"] = ClientChannel(Seed)
    <3>1. ~Down("server") /\ exflag["client"] \in {"establish_request", "session_established"}
      BY <1>1, <2>1 DEF Down, Established
    <3> QED
      BY <1>1, <3>1 DEF IInv, Agreement
  <2>4. \A r \in Roles : txseq[r] = 3 /\ rxseq[r] = 3
    BY <1>1, <2>1, TwoRoles DEF IInv, ClientTurn, ServerTurn, Stands
  <2>5. Derived(1, Seed) # Derived(2, Seed)
    BY DEF Derived
  <2> QED
    BY <2>2, <2>3, <2>4, <2>5, TwoRoles DEF ClientChannel, ServerChannel
<1>2. IInv => KeyAgreement
  BY <1>1 DEF KeyAgreement
<1> QED
  BY <1>2, Spec_IInv, PTL

-----------------------------------------------------------------------------
(* The exchange implements Handshake *)

PromiseStep == [Promise!Next]_(Promise!vars)

LEMMA KeptStep ==
  ASSUME Keeps("client"), Keeps("server"), agreed' = agreed
  PROVE  PromiseStep
<1>1. [r \in Roles |-> SessionKeys(r)]' = [r \in Roles |-> SessionKeys(r)]
  BY DEF Keeps, Roles
<1> QED
  BY <1>1 DEF PromiseStep, Promise!vars, Keeps

\* A host in the middle of its exchange stays there.
LEMMA TryingStep ==
  ASSUME IInv, NEW r \in Roles, at[r] \in {"start", "receive"},
         NEW place \in {"send", "failing"}, Go(r, place),
         NEW flag, flag # "session_established", SetFlag(r, flag),
         txseq' = txseq, rxseq'[Other(r)] = rxseq[Other(r)], agreed' = agreed,
         out'[Other(r)] = out[Other(r)], want'[Other(r)] = want[Other(r)],
         kex'[Other(r)] = kex[Other(r)], channel'[Other(r)] = channel[Other(r)]
  PROVE  PromiseStep
<1>1. KexTypes /\ ~Established(r) /\ ~Down(r)
  BY TwoRoles DEF IInv, WireInv, ClientTurn, ServerTurn, Established, Down
<1>2. ~Established(r)' /\ ~Down(r)' /\ Untouched(Other(r))
  BY <1>1, OtherRole DEF Go, SetFlag, Established, Down, Untouched, KexTypes
<1> QED
  BY <1>1, <1>2, QuietSteps, KeptStep

\* What Create and Refuse do to the other host, and to this one.
LEMMA Creates ==
  ASSUME IInv, NEW r \in Roles, NEW flag, NEW body, NEW answer, Create(r, flag, body, answer)
  PROVE  /\ Go(r, "send") /\ out'[Other(r)] = out[Other(r)] /\ want'[Other(r)] = want[Other(r)]
BY OtherRole DEF IInv, WireInv, KexTypes, Create

LEMMA Refuses ==
  ASSUME IInv, NEW r \in Roles, NEW code, Refuse(r, code)
  PROVE  /\ Go(r, "failing") /\ SetFlag(r, "none")
         /\ out'[Other(r)] = out[Other(r)] /\ want'[Other(r)] = want[Other(r)]
BY DEF Refuse, SetFlag

LEMMA LeavesPromise ==
  ASSUME IInv, NEW r \in Roles, GiveUp(r) \/ SessionEnds(r), UNCHANGED ownVars
  PROVE  PromiseStep
<1> USE TwoRoles
<1>1. ~Down(r) /\ Down(r)' /\ ~Established(r)' /\ Untouched(Other(r)) /\ agreed' = agreed
  BY LeavesStep
<1>2. Keeps(Other(r))
  BY <1>1, UntouchedKeeps, OtherRole
<1>3. Status(r) # "down" /\ Status(r)' = "down" /\ SessionKeys(r)' = <<>>
  BY <1>1 DEF Status, SessionKeys
<1>4. [q \in Roles |-> SessionKeys(q)]' = [[q \in Roles |-> SessionKeys(q)] EXCEPT ![r] = <<>>]
  BY <1>2, <1>3, OtherRole DEF Keeps
<1>5. CASE r = "client"
  <2>1. Promise!ClientDown
    BY <1>1, <1>2, <1>3, <1>4, <1>5 DEF Promise!ClientDown, Keeps
  <2> QED
    BY <2>1 DEF PromiseStep, Promise!Next
<1>6. CASE r = "server"
  <2>1. Promise!ServerDown
    BY <1>1, <1>2, <1>3, <1>4, <1>6 DEF Promise!ServerDown, Keeps
  <2> QED
    BY <2>1 DEF PromiseStep, Promise!Next
<1> QED
  BY <1>5, <1>6

LEMMA HostPromise ==
  ASSUME IInv, NEW r \in Roles, HostStep(r), UNCHANGED ownVars
  PROVE  PromiseStep
<1>1. CASE Send(r) \/ ReceiveFails(r)
  BY <1>1, QuietSteps, KeptStep DEF IInv, WireInv
<1>2. CASE GiveUp(r) \/ SessionEnds(r)
  BY <1>2, LeavesPromise
<1> QED
  BY <1>1, <1>2 DEF HostStep

LEMMA ClientPromise ==
  ASSUME IInv, ClientStep
  PROVE  PromiseStep
<1> USE TwoRoles
<1>0. KexTypes
  BY DEF IInv, WireInv
<1>1. CASE ClientConnectRequest
  <2>1. /\ at["client"] = "start" /\ UNCHANGED <<txseq, rxseq, channel, agreed>>
        /\ kex'["server"] = kex["server"]
    BY <1>0, <1>1 DEF ClientConnectRequest, KexTypes
  <2>2. ASSUME NEW body, NEW answer, Create("client", "connect_request", body, answer),
               SetFlag("client", "connect_request")
        PROVE  PromiseStep
    BY <2>1, <2>2, Creates, TryingStep
  <2>3. ASSUME Refuse("client", "key_expired")
        PROVE  PromiseStep
    BY <2>1, <2>3, Refuses, TryingStep
  <2> QED
    BY <1>1, <2>2, <2>3 DEF ClientConnectRequest
<1>2. CASE ClientExchangeRequest
  <2>1. /\ at["client"] = "receive" /\ UNCHANGED <<txseq, channel, agreed>>
        /\ rxseq'["server"] = rxseq["server"] /\ kex'["server"] = kex["server"]
    BY <1>0, <1>2 DEF ClientExchangeRequest, Receive, KexTypes
  <2>2. ASSUME NEW body, NEW answer, Create("client", "exchange_request", body, answer),
               SetFlag("client", "exchange_request")
        PROVE  PromiseStep
    BY <2>1, <2>2, Creates, TryingStep
  <2>3. ASSUME NEW code, Refuse("client", code)
        PROVE  PromiseStep
    BY <2>1, <2>3, Refuses, TryingStep
  <2> QED
    BY <1>2, <2>2, <2>3 DEF ClientExchangeRequest
<1>3. CASE ClientEstablishRequest
  <2>1. /\ at["client"] = "receive" /\ UNCHANGED <<txseq, kex, agreed>>
        /\ rxseq'["server"] = rxseq["server"] /\ channel'["server"] = channel["server"]
    BY <1>0, <1>3 DEF ClientEstablishRequest, Receive, KexTypes
  <2>2. ASSUME NEW body, NEW answer, Create("client", "establish_request", body, answer),
               SetFlag("client", "establish_request")
        PROVE  PromiseStep
    BY <2>1, <2>2, Creates, TryingStep
  <2>3. ASSUME NEW code, Refuse("client", code)
        PROVE  PromiseStep
    BY <2>1, <2>3, Refuses, TryingStep
  <2> QED
    BY <1>3, <2>2, <2>3 DEF ClientEstablishRequest
<1>4. CASE ClientEstablishVerify
  <2>1. /\ Untouched("server") /\ ~Established("client") /\ ~Down("client")
        /\ Established("client")' /\ ~Down("client")'
        /\ agreed # <<>> /\ UNCHANGED <<channel, agreed>> /\ channel["client"] = ClientChannel(agreed)
    BY <1>4, EstablishVerifyKeeps
  <2>2. Keeps("server")
    BY <2>1, UntouchedKeeps
  <2>3. Status("client") = "trying" /\ Status("client")' = "up" /\ SessionKeys("client")' = agreed
    BY <2>1 DEF Status, SessionKeys, ClientChannel, Derived, Established
  <2>4. [q \in Roles |-> SessionKeys(q)]' = [[q \in Roles |-> SessionKeys(q)] EXCEPT !["client"] = agreed]
    BY <2>2, <2>3 DEF Keeps
  <2>5. Promise!ClientUp
    BY <2>1, <2>2, <2>3, <2>4 DEF Promise!ClientUp, Keeps
  <2> QED
    BY <2>5 DEF PromiseStep, Promise!Next
<1>5. CASE HostStep("client") /\ UNCHANGED ownVars
  BY <1>5, HostPromise
<1> QED
  BY <1>1, <1>2, <1>3, <1>4, <1>5 DEF ClientStep

LEMMA ServerPromise ==
  ASSUME IInv, ServerStep
  PROVE  PromiseStep
<1> USE TwoRoles
<1>0. KexTypes
  BY DEF IInv, WireInv
<1>1. CASE ServerConnectResponse
  <2>1. /\ at["server"] = "receive" /\ UNCHANGED <<txseq, channel, agreed>>
        /\ rxseq'["client"] = rxseq["client"] /\ kex'["client"] = kex["client"]
    BY <1>0, <1>1 DEF ServerConnectResponse, Receive, KexTypes
  <2>2. ASSUME NEW body, NEW answer, Create("server", "connect_response", body, answer),
               SetFlag("server", "connect_response")
        PROVE  PromiseStep
    BY <2>1, <2>2, Creates, TryingStep
  <2>3. ASSUME NEW code, Refuse("server", code)
        PROVE  PromiseStep
    BY <2>1, <2>3, Refuses, TryingStep
  <2> QED
    BY <1>1, <2>2, <2>3 DEF ServerConnectResponse
<1>2. CASE ServerExchangeResponse
  <2>1. /\ at["server"] = "receive" /\ UNCHANGED <<txseq, kex, agreed>>
        /\ rxseq'["client"] = rxseq["client"] /\ channel'["client"] = channel["client"]
    BY <1>0, <1>2 DEF ServerExchangeResponse, Receive, KexTypes
  <2>2. ASSUME NEW body, NEW answer, Create("server", "exchange_response", body, answer),
               SetFlag("server", "exchange_response")
        PROVE  PromiseStep
    BY <2>1, <2>2, Creates, TryingStep
  <2>3. ASSUME NEW code, Refuse("server", code)
        PROVE  PromiseStep
    BY <2>1, <2>3, Refuses, TryingStep
  <2> QED
    BY <1>2, <2>2, <2>3 DEF ServerExchangeResponse
<1>3. CASE ServerEstablishResponse
  <2>1. /\ ~Established("server") /\ ~Down("server") /\ Established("server")' /\ ~Down("server")'
        /\ agreed' \in Seeds /\ channel'["server"] = ServerChannel(agreed') /\ Untouched("client")
    BY <1>3, EstablishResponseKeeps
  <2>2. Keeps("client")
    BY <2>1, UntouchedKeeps
  <2>3. Status("server") = "trying" /\ Status("server")' = "up" /\ SessionKeys("server")' = agreed'
    BY <2>1 DEF Status, SessionKeys, ServerChannel, Derived, Established
  <2>4. [q \in Roles |-> SessionKeys(q)]' = [[q \in Roles |-> SessionKeys(q)] EXCEPT !["server"] = agreed']
    BY <2>2, <2>3 DEF Keeps
  <2>5. Promise!ServerUp
    BY <2>1, <2>2, <2>3, <2>4 DEF Promise!ServerUp, Keeps, Seeds, Cookies, Kids, Vers, Cfgs
  <2> QED
    BY <2>5 DEF PromiseStep, Promise!Next
<1>4. CASE HostStep("server") /\ UNCHANGED ownVars
  BY <1>4, HostPromise
<1> QED
  BY <1>1, <1>2, <1>3, <1>4 DEF ServerStep

\* HandshakeImplemented: the listener's establish response brings it up, the
\* client's establish verify brings the client up, giving up and closing bring a
\* host down, and every other step changes nothing of this.
THEOREM ImplementsHandshake == Spec => HandshakeImplemented
<1>1. Init => Promise!Init
  BY TwoRoles DEF Init, WireInit, Promise!Init, Status, SessionKeys, Established, Down
<1>2. IInv /\ [Next]_vars => PromiseStep
  <2> SUFFICES ASSUME IInv, [Next]_vars PROVE PromiseStep
    OBVIOUS
  <2>1. CASE Network /\ UNCHANGED ownVars
    BY <2>1, NetworkStep, UntouchedKeeps, KeptStep, TwoRoles
  <2>2. CASE UNCHANGED vars
    <3>1. Keeps("client") /\ Keeps("server") /\ agreed' = agreed
      BY <2>2 DEF vars, wireVars, posVars, keyVars, Keeps, Status, SessionKeys, Established, Down
    <3> QED
      BY <3>1, KeptStep
  <2> QED
    BY <2>1, <2>2, ClientPromise, ServerPromise DEF Next
<1> QED
  BY <1>1, <1>2, Spec_IInv, PTL DEF Spec, HandshakeImplemented, Promise!Spec, PromiseStep
=============================================================================
