-------------------------- MODULE SimplexKexProofs --------------------------
(***************************************************************************)
(* Proofs about the simplex key exchange.  Its inductive invariant says    *)
(* where each host stands (ClientTurn, ServerTurn), what the one packet    *)
(* under way carries of what its sender has kept (ToServer, ToClient), and *)
(* that the server derived its keys from what the client encapsulated to a *)
(* key it had found signed (Agreement).                                    *)
(***************************************************************************)
EXTENDS SimplexKex, KexWireProofs

Kids == {i.kid : i \in Identities}
Vers == {i.ver : i \in Identities}
Cfgs == {i.cfg : i \in Identities}
Cookies == [cfg : Cfgs, kid : Kids, ver : Vers]
Numbers == Int \cup {Garbled}

\* What may be on its way to each host.
Packets ==
  LET requests == [flag : {"connect_request"}, seq : Numbers,
                   body : [kid : Kids \cup {Garbled}, cfg : Cfgs \cup {Garbled}]]
      responses == [flag : {"connect_response"}, seq : Numbers,
                    body : [sig : [by : Vers, data : PublicKeys] \cup {Garbled},
                            pk : PublicKeys \cup {Garbled}]]
      exchanges == [flag : {"exchange_request"}, seq : Numbers,
                    body : [cpt : [secret : Secrets, key : PublicKeys \cup {Garbled}] \cup {Garbled}]]
      confirmations == [flag : {"exchange_response"}, seq : Numbers, body : {<<>>}]
      errors == [flag : {"error_condition"}, seq : {Terminator}, body : Codes]
  IN [r \in Roles |-> IF r = "server" THEN requests \cup exchanges \cup errors
                                      ELSE responses \cup confirmations \cup errors]

Matched == id["client"].kid = id["server"].kid /\ id["client"].cfg = id["server"].cfg

\* The client has not encapsulated its secret.
Early == at["client"] = "start" \/ exflag["client"] = "connect_request"

ClientTurn ==
  /\ at["client"] = "start" => Stands("client", "none", 0, 0)
  /\ at["client"] = "send" =>
       \/ /\ Stands("client", "connect_request", 0, 0)
          /\ want["client"] = Wanted("connect_response", FALSE)
          /\ out["client"].flag = "connect_request"
       \/ /\ Stands("client", "exchange_request", 1, 1)
          /\ want["client"] = Wanted("exchange_response", TRUE)
          /\ out["client"].flag = "exchange_request"
  /\ at["client"] = "receive" =>
       \/ Stands("client", "connect_request", 1, 0) /\ want["client"] = Wanted("connect_response", FALSE)
       \/ Stands("client", "exchange_request", 2, 1) /\ want["client"] = Wanted("exchange_response", TRUE)
  /\ at["client"] = "session" => Stands("client", "session_established", 2, 2)
  /\ Established("client") => at["client"] = "session"
  /\ exflag["client"] = "connect_request" => kex["client"].sch = Cookie("client")
  /\ exflag["client"] \in {"exchange_request", "session_established"} => id["client"] = id["server"]

ServerTurn ==
  /\ at["server"] # "start"
  /\ at["server"] = "send" =>
       \/ /\ Stands("server", "connect_response", 0, 1)
          /\ want["server"] = Wanted("exchange_request", FALSE)
          /\ out["server"].flag = "connect_response"
       \/ /\ Stands("server", "session_established", 1, 2)
          /\ want["server"] = Nothing
          /\ out["server"].flag = "exchange_response"
  /\ at["server"] = "receive" =>
       \/ Stands("server", "none", 0, 0) /\ want["server"] = Wanted("connect_request", FALSE)
       \/ Stands("server", "connect_response", 1, 1) /\ want["server"] = Wanted("exchange_request", FALSE)
  /\ at["server"] = "session" => Stands("server", "session_established", 2, 2)
  /\ Established("server") => at["server"] \in {"send", "session", "failing"}
  /\ exflag["server"] = "connect_response" => kex["server"].sch = Cookie("server")

Bounds ==
  \A r \in Roles : /\ txseq[r] \in 0 .. 2 /\ rxseq[r] \in 0 .. 2
                   /\ Down(r) => exflag[r] = "none"

\* What a packet for each host says about the other one.
ToServer(p) ==
  /\ p.flag = "connect_request" => /\ p.body.kid \in {id["client"].kid, Garbled}
                                   /\ p.body.cfg \in {id["client"].cfg, Garbled}
  /\ p.flag = "exchange_request" =>
       /\ ~Early
       /\ p.body.cpt # Garbled /\ ~Down("client") =>
            channel["client"] = ClientChannel(<<p.body.cpt.secret, Cookie("client")>>)
ToClient(p) ==
  /\ p.flag = "connect_response" =>
       Matched /\ (p.body.sig # Garbled => p.body.sig.by = id["server"].ver)
  /\ p.flag = "exchange_response" => agreed # <<>>

Contents ==
  /\ at["client"] = "send" => ToServer(out["client"])
  /\ at["server"] = "send" => ToClient(out["server"])
  /\ Data(wire["server"]) => ToServer(Head(wire["server"]))
  /\ Data(wire["client"]) =>
       /\ ToClient(Head(wire["client"]))
       /\ Head(wire["client"]).flag = "exchange_response" => at["server"] \in {"session", "closed"}

\* What the server derived its keys from, the client derived its keys from.
Agreement ==
  /\ agreed # <<>> =>
       /\ ~Early
       /\ agreed \in Secrets \X Cookies
       /\ agreed[2] = Cookie("server")
       /\ ~Down("client") => channel["client"] = ClientChannel(<<agreed[1], Cookie("client")>>)
  /\ Established("server") => agreed # <<>> /\ channel["server"] = ServerChannel(agreed)
  /\ Established("client") => agreed # <<>> /\ at["server"] \in {"session", "closed"}

IInv ==
  /\ WireInv(Packets)
  /\ id \in [Roles -> Identities]
  /\ ClientTurn /\ ServerTurn /\ Bounds /\ Contents /\ Agreement

-----------------------------------------------------------------------------
(* The packets *)

LEMMA PacketKindsHold == PacketKinds(Packets)
<1> DEFINE requests == [flag : {"connect_request"}, seq : Numbers,
                   body : [kid : Kids \cup {Garbled}, cfg : Cfgs \cup {Garbled}]]
           responses == [flag : {"connect_response"}, seq : Numbers,
                    body : [sig : [by : Vers, data : PublicKeys] \cup {Garbled},
                            pk : PublicKeys \cup {Garbled}]]
           exchanges == [flag : {"exchange_request"}, seq : Numbers,
                    body : [cpt : [secret : Secrets, key : PublicKeys \cup {Garbled}] \cup {Garbled}]]
           confirmations == [flag : {"exchange_response"}, seq : Numbers, body : {<<>>}]
           errors == [flag : {"error_condition"}, seq : {Terminator}, body : Codes]
<1>1. \A p \in requests : DOMAIN p = {"flag", "seq", "body"} /\ p.flag = "connect_request"
                          /\ GarbledForms(p) \subseteq requests
  BY DEF GarbledForms, Numbers
<1>2. \A p \in responses : DOMAIN p = {"flag", "seq", "body"} /\ p.flag = "connect_response"
                           /\ GarbledForms(p) \subseteq responses
  BY DEF GarbledForms, Numbers
<1>3. \A p \in exchanges : DOMAIN p = {"flag", "seq", "body"} /\ p.flag = "exchange_request"
                           /\ GarbledForms(p) \subseteq exchanges
  BY DEF GarbledForms, Numbers
<1>4. \A p \in confirmations : DOMAIN p = {"flag", "seq", "body"} /\ p.flag = "exchange_response"
                               /\ GarbledForms(p) \subseteq confirmations
  BY DEF GarbledForms, Numbers
<1>5. \A p \in errors : DOMAIN p = {"flag", "seq", "body"} /\ p.flag = "error_condition" /\ p.body \in Codes
  OBVIOUS
<1>6. \A c \in Codes : [flag |-> "error_condition", seq |-> Terminator, body |-> c] \in errors
  OBVIOUS
<1>7. /\ Packets["server"] = requests \cup exchanges \cup errors
      /\ Packets["client"] = responses \cup confirmations \cup errors
  BY DEF Packets, Roles
<1> HIDE DEF requests, responses, exchanges, confirmations, errors
<1> QED
  BY <1>1, <1>2, <1>3, <1>4, <1>5, <1>6, <1>7 DEF PacketKinds, Roles

\* What the packets of each flag carry.
LEMMA Carried ==
  /\ \A p \in Packets["server"] :
       /\ DOMAIN p = {"flag", "seq", "body"}
       /\ p.flag = "connect_request" => DOMAIN p.body = {"kid", "cfg"}
       /\ p.flag = "exchange_request" =>
            /\ DOMAIN p.body = {"cpt"}
            /\ p.body.cpt # Garbled => p.body.cpt.secret \in Secrets
  /\ \A p \in Packets["client"] :
       /\ DOMAIN p = {"flag", "seq", "body"}
       /\ p.flag = "connect_response" => /\ DOMAIN p.body = {"sig", "pk"}
                                         /\ p.body.pk \in PublicKeys \cup {Garbled}
BY DEF Packets, Roles

\* A corrupted packet says no more than the packet did.
LEMMA CorruptedSays ==
  /\ \A p \in Packets["server"] : \A q \in {p} \cup GarbledForms(p) : ToServer(p) => ToServer(q)
  /\ \A p \in Packets["client"] : \A q \in {p} \cup GarbledForms(p) :
       q.flag = p.flag /\ (ToClient(p) => ToClient(q))
<1>1. ASSUME NEW p \in Packets["server"], NEW q \in {p} \cup GarbledForms(p), ToServer(p)
      PROVE  ToServer(q)
  <2>1. DOMAIN p = {"flag", "seq", "body"}
    BY Carried
  <2>2. q.flag = p.flag /\ \A f \in DOMAIN p.body : q.body[f] \in {p.body[f], Garbled}
    BY <2>1, Corrupted
  <2>3. p.flag = "connect_request" =>
          q.body.kid \in {p.body.kid, Garbled} /\ q.body.cfg \in {p.body.cfg, Garbled}
    BY <2>2, Carried
  <2>4. p.flag = "exchange_request" => q.body.cpt \in {p.body.cpt, Garbled}
    BY <2>2, Carried
  <2> QED
    BY <1>1, <2>2, <2>3, <2>4 DEF ToServer
<1>2. ASSUME NEW p \in Packets["client"], NEW q \in {p} \cup GarbledForms(p)
      PROVE  q.flag = p.flag /\ (ToClient(p) => ToClient(q))
  <2>1. DOMAIN p = {"flag", "seq", "body"}
    BY Carried
  <2>2. q.flag = p.flag /\ \A f \in DOMAIN p.body : q.body[f] \in {p.body[f], Garbled}
    BY <2>1, Corrupted
  <2>3. p.flag = "connect_response" => q.body.sig \in {p.body.sig, Garbled}
    BY <2>2, Carried
  <2> QED
    BY <2>2, <2>3 DEF ToClient
<1> QED
  BY <1>1, <1>2

\* The first packet before a host is one of those that may be there.
LEMMA FirstPacket ==
  ASSUME WireInv(Packets), NEW r \in Roles, wire[r] # <<>>
  PROVE  Head(wire[r]) \in Packets[r]
<1>1. wire[r] \in Seq(Packets[r])
  BY DEF WireInv, Wires
<1> QED
  BY <1>1, ShortSeq

\* A step that takes no packet and makes none keeps what the packets say.
LEMMA ContentsKeep ==
  ASSUME IInv, id' = id, agreed' = agreed, ~Early => ~Early',
         ~Down("client")' => ~Down("client") /\ channel'["client"] = channel["client"],
         \A q \in Roles : Remains(q),
         \A q \in Roles : at'[q] = "send" => at[q] = "send" /\ out'[q] = out[q],
         at["server"] \in {"session", "closed"} => at'["server"] \in {"session", "closed"}
  PROVE  Contents'
<1>1. "client" \in Roles /\ "server" \in Roles
  BY DEF Roles
<1>2. \A p : ToServer(p) => ToServer(p)'
  BY DEF ToServer, Cookie
<1>3. \A p : ToClient(p) => ToClient(p)'
  BY DEF ToClient, Matched
<1>4. at'["client"] = "send" => ToServer(out["client"])' /\ out'["client"] = out["client"]
  BY <1>1, <1>2 DEF IInv, Contents
<1>5. at'["server"] = "send" => ToClient(out["server"])' /\ out'["server"] = out["server"]
  BY <1>1, <1>3 DEF IInv, Contents
<1>6. ASSUME NEW q \in Roles, Data(wire'[q])
      PROVE  /\ Data(wire[q]) /\ Head(wire[q]) \in Packets[q]
             /\ Head(wire'[q]) \in {Head(wire[q])} \cup GarbledForms(Head(wire[q]))
  <2>1. /\ Data(wire[q])
        /\ Head(wire'[q]) \in {Head(wire[q])} \cup GarbledForms(Head(wire[q]))
    BY <1>6 DEF Remains
  <2>2. wire[q] # <<>>
    BY <2>1 DEF Data
  <2> QED
    BY <2>1, <2>2, FirstPacket DEF IInv
<1>7. ASSUME Data(wire'["server"]) PROVE ToServer(Head(wire["server"]))'
  <2> DEFINE h == Head(wire["server"])
             g == Head(wire'["server"])
  <2>1. h \in Packets["server"] /\ g \in {h} \cup GarbledForms(h) /\ ToServer(h)
    BY <1>1, <1>6, <1>7 DEF IInv, Contents
  <2> HIDE DEF h, g
  <2>2. ToServer(g)
    BY <2>1, CorruptedSays
  <2>3. \A p : ToServer(p) => ToServer(p)'
    BY <1>2
  <2>4. ASSUME NEW p, p = g PROVE ToServer(p)'
    BY <2>2, <2>3, <2>4
  <2> QED
    BY <2>4 DEF g, ToServer
<1>8. ASSUME Data(wire'["client"])
      PROVE  /\ ToClient(Head(wire["client"]))'
             /\ Head(wire'["client"]).flag = "exchange_response" => at'["server"] \in {"session", "closed"}
  <2> DEFINE h == Head(wire["client"])
             g == Head(wire'["client"])
  <2>1. /\ h \in Packets["client"] /\ g \in {h} \cup GarbledForms(h) /\ ToClient(h)
        /\ h.flag = "exchange_response" => at["server"] \in {"session", "closed"}
    BY <1>1, <1>6, <1>8 DEF IInv, Contents
  <2> HIDE DEF h, g
  <2>2. ToClient(g) /\ g.flag = h.flag
    BY <2>1, CorruptedSays
  <2>3. ASSUME NEW p, p = g PROVE ToClient(p)'
    BY <1>3, <2>2, <2>3
  <2>4. ToClient(Head(wire["client"]))'
    BY <2>3 DEF g, ToClient
  <2> QED
    BY <2>1, <2>2, <2>4 DEF g
<1> QED
  BY <1>4, <1>5, <1>7, <1>8 DEF Contents, Data

LEMMA UntouchedTurn ==
  ASSUME id' = id
  PROVE  /\ ClientTurn /\ Untouched("client") => ClientTurn'
         /\ ServerTurn /\ Untouched("server") => ServerTurn'
<1>1. ASSUME ClientTurn, Untouched("client") PROVE ClientTurn'
  BY <1>1 DEF ClientTurn, Untouched, Stands, Established, Cookie
<1>2. ASSUME ServerTurn, Untouched("server") PROVE ServerTurn'
  BY <1>2 DEF ServerTurn, Untouched, Stands, Established, Cookie
<1> QED
  BY <1>1, <1>2

\* The identities have the fields they should have.
LEMMA Identified ==
  ASSUME id \in [Roles -> Identities]
  PROVE  /\ \A r \in Roles : /\ id[r].kid \in Kids /\ id[r].ver \in Vers /\ id[r].cfg \in Cfgs
                             /\ Garbled # id[r].kid /\ Garbled # id[r].cfg
                             /\ Cookie(r) \in Cookies
         /\ Matched /\ id["client"].ver = id["server"].ver => id["client"] = id["server"]
<1>1. \A r \in Roles : id[r] \in Identities
  OBVIOUS
<1>2. \A i \in Identities : i \in [kid : Kids, ver : Vers, cfg : Cfgs]
  BY IdentitiesAssumption DEF Kids, Vers, Cfgs
<1>3. \A i, j \in [kid : Kids, ver : Vers, cfg : Cfgs] :
        i.kid = j.kid /\ i.ver = j.ver /\ i.cfg = j.cfg => i = j
  OBVIOUS
<1> QED
  BY <1>1, <1>2, <1>3, TwoRoles, IdentitiesAssumption DEF Cookie, Cookies, Matched

-----------------------------------------------------------------------------
(* The steps of the exchange *)

LEMMA ConnectRequestKeeps ==
  ASSUME IInv, ClientConnectRequest
  PROVE  IInv'
<1> USE TwoRoles
<1>1. /\ at["client"] = "start" /\ Stands("client", "none", 0, 0)
      /\ UNCHANGED <<txseq, rxseq, wire, ended, link, garbled, channel, agreed, id>>
  BY DEF ClientConnectRequest, netVars, IInv, ClientTurn
<1>2. agreed = <<>>
  BY <1>1 DEF IInv, Agreement, Early
<1>3. KexTypes
  BY DEF IInv, WireInv
<1>4. CASE Create("client", "connect_request", [kid |-> id["client"].kid, cfg |-> id["client"].cfg],
                  Wanted("connect_response", FALSE))
           /\ SetFlag("client", "connect_request")
           /\ kex' = [kex EXCEPT !["client"].sch = Cookie("client")]
  <2> DEFINE p == [flag |-> "connect_request", seq |-> txseq["client"],
                   body |-> [kid |-> id["client"].kid, cfg |-> id["client"].cfg]]
  <2>1. /\ at' = [at EXCEPT !["client"] = "send"] /\ out' = [out EXCEPT !["client"] = p]
        /\ want' = [want EXCEPT !["client"] = Wanted("connect_response", FALSE)]
        /\ exflag' = [exflag EXCEPT !["client"] = "connect_request"] /\ err' = err
    BY <1>4 DEF Create, SetFlag, Go
  <2>2. /\ at'["client"] = "send" /\ out'["client"] = p /\ exflag'["client"] = "connect_request"
        /\ want'["client"] = Wanted("connect_response", FALSE) /\ kex'["client"].sch = Cookie("client")
    BY <1>3, <1>4, <2>1 DEF KexTypes
  <2>3. Untouched("server")
    BY <1>1, <1>3, <1>4, <2>1 DEF Untouched, KexTypes
  <2>4. p \in Packets["server"]
    BY <1>1, Identified DEF IInv, Packets, Stands, Numbers
  <2>5. /\ Wires(Packets)' /\ Turns' /\ Counts' /\ (\A q \in Roles : Remains(q)) /\ ~Holds("server")
    <3>1. /\ Go("client", "send") /\ out'["server"] = out["server"]
          /\ out'["client"] \in Packets["server"] /\ out'["client"].seq = txseq["client"]
          /\ out'["client"].flag # "error_condition"
      BY <2>1, <2>2, <2>3, <2>4 DEF Go, Untouched
    <3> QED
      BY <1>1, <3>1, StartKeeps DEF IInv
  <2>6. KexTypes'
    BY <1>1, <1>3, <1>4, <2>1 DEF KexTypes, Places, Flags
  <2>7. ClientTurn'
    BY <1>1, <2>2, Identified DEF ClientTurn, Stands, Established, Cookie, IInv
  <2>8. ServerTurn'
    BY <1>1, <2>3, UntouchedTurn DEF IInv
  <2>9. Bounds'
    BY <1>1, <2>2, <2>3 DEF IInv, Bounds, Down, Untouched
  <2>10. Contents'
    <3>1. ~Data(wire["server"]) /\ ~Data(wire["client"])
      BY <1>1 DEF IInv, WireInv, Turns, Holds, Data
    <3>2. at'["server"] # "send"
      BY <2>3, <2>5 DEF Holds, Untouched
    <3>3. ToServer(out["client"])'
      BY <1>1, <2>2 DEF ToServer
    <3> QED
      BY <1>1, <3>1, <3>2, <3>3 DEF Contents, Data
  <2>11. Agreement'
    BY <1>1, <1>2, <2>2, <2>3 DEF IInv, Agreement, Established, Untouched
  <2> QED
    BY <1>1, <2>5, <2>6, <2>7, <2>8, <2>9, <2>10, <2>11 DEF IInv, WireInv
<1>5. CASE Refuse("client", "key_expired") /\ UNCHANGED kex
  <2>1. /\ at' = [at EXCEPT !["client"] = "failing"] /\ err' = [err EXCEPT !["client"] = "key_expired"]
        /\ exflag' = [exflag EXCEPT !["client"] = "none"] /\ out' = out /\ want' = want /\ kex' = kex
    BY <1>5 DEF Refuse, Go
  <2>2. /\ at'["client"] = "failing" /\ exflag'["client"] = "none"
    BY <1>3, <2>1 DEF KexTypes
  <2>3. Untouched("server")
    BY <1>1, <1>3, <2>1 DEF Untouched, KexTypes
  <2>4. Wires(Packets)' /\ Turns' /\ Counts' /\ (\A q \in Roles : Remains(q))
    <3>1. /\ Go("client", "failing") /\ UNCHANGED <<wire, link, out>> /\ at["client"] # "failed"
          /\ ~Down("client") /\ UNCHANGED <<txseq, rxseq>>
      BY <1>1, <2>1 DEF Go, Down
    <3> QED
      BY <3>1, LeaveKeeps DEF IInv
  <2>5. KexTypes'
    BY <1>1, <1>3, <2>1 DEF KexTypes, Places, Flags, Codes
  <2>6. ClientTurn'
    BY <2>2 DEF ClientTurn, Established
  <2>7. ServerTurn'
    BY <1>1, <2>3, UntouchedTurn DEF IInv
  <2>8. Bounds'
    BY <1>1, <2>2, <2>3 DEF IInv, Bounds, Down, Untouched
  <2>9. Contents'
    <3>1. \A q \in Roles : at'[q] = "send" => at[q] = "send" /\ out'[q] = out[q]
      BY <2>1, <2>2, <2>3 DEF Untouched
    <3>2. Early /\ ~Early'
      BY <1>1, <2>2 DEF Early
    <3>3. ~Down("client")' => ~Down("client") /\ channel'["client"] = channel["client"]
      BY <1>1 DEF Down
    <3> QED
      BY <1>1, <2>3, <2>4, <3>1, <3>2, <3>3, ContentsKeep DEF Untouched
  <2>10. Agreement'
    BY <1>1, <1>2, <2>2, <2>3 DEF IInv, Agreement, Established, Untouched
  <2> QED
    BY <1>1, <2>4, <2>5, <2>6, <2>7, <2>8, <2>9, <2>10 DEF IInv, WireInv
<1> QED
  BY <1>4, <1>5 DEF ClientConnectRequest

\* A packet is taken and refused.
LEMMA RefusedKeeps ==
  ASSUME IInv, NEW r \in Roles, NEW flag, flag # "error_condition", Receive(r, flag),
         NEW code \in Codes, Refuse(r, code), UNCHANGED <<kex, channel, agreed, id>>
  PROVE  IInv'
<1> USE TwoRoles
<1>1. KexTypes
  BY DEF IInv, WireInv
<1>2. /\ at' = [at EXCEPT ![r] = "failing"] /\ err' = [err EXCEPT ![r] = code]
      /\ exflag' = [exflag EXCEPT ![r] = "none"] /\ out' = out /\ want' = want
      /\ rxseq' = [rxseq EXCEPT ![r] = @ + 1] /\ at[r] = "receive"
      /\ UNCHANGED <<txseq, ended, link, garbled, kex, channel, agreed, id>>
  BY DEF Refuse, Receive, Go
<1>3. at'[r] = "failing" /\ exflag'[r] = "none" /\ txseq' = txseq /\ rxseq'[r] = rxseq[r] + 1
  BY <1>1, <1>2 DEF KexTypes
<1>4. Untouched(Other(r)) /\ Other(r) \in Roles /\ Other(r) # r
  BY <1>1, <1>2, OtherRole DEF Untouched, KexTypes
<1>5. /\ Wires(Packets)' /\ Turns' /\ Counts' /\ (\A q \in Roles : Remains(q) /\ ~Data(wire'[q]))
      /\ at' \in [Roles -> Places] /\ rxseq' \in [Roles -> Nat]
  <2>1. Go(r, "failing") /\ out'[Other(r)] = out[Other(r)]
    BY <1>2 DEF Go
  <2> QED
    BY <2>1, ReceiveKeeps, PacketKindsHold DEF IInv
<1>6. KexTypes'
  BY <1>1, <1>2, <1>5 DEF KexTypes, Flags
<1>7. ClientTurn' /\ ServerTurn'
  <2>1. CASE r = "client"
    BY <1>3, <1>4, <2>1, UntouchedTurn DEF IInv, ClientTurn, Established
  <2>2. CASE r = "server"
    BY <1>3, <1>4, <2>2, UntouchedTurn DEF IInv, ServerTurn, Established
  <2> QED
    BY <2>1, <2>2
<1>8. Bounds'
  <2>1. rxseq[r] \in 0 .. 1 /\ txseq[r] \in 0 .. 2
    <3>1. at["client"] = "receive" => rxseq["client"] = 0 \/ rxseq["client"] = 1
      BY DEF IInv, ClientTurn, Stands
    <3>2. at["server"] = "receive" => rxseq["server"] = 0 \/ rxseq["server"] = 1
      BY DEF IInv, ServerTurn, Stands
    <3> QED
      BY <1>2, <3>1, <3>2 DEF IInv, Bounds
  <2>2. \A q \in Roles : q = r \/ q = Other(r)
    BY OtherRole
  <2> QED
    BY <1>3, <1>4, <2>1, <2>2 DEF IInv, Bounds, Down, Untouched
<1>9. Contents'
  <2>1. \A q \in Roles : at'[q] = "send" => at[q] = "send" /\ out'[q] = out[q]
    BY <1>1, <1>2 DEF KexTypes
  <2>2. ~Early => ~Early'
    BY <1>1, <1>2 DEF Early, KexTypes
  <2>3. ~Down("client")' => ~Down("client") /\ channel'["client"] = channel["client"]
    BY <1>1, <1>2 DEF Down, KexTypes
  <2>4. at["server"] \in {"session", "closed"} => at'["server"] \in {"session", "closed"}
    BY <1>1, <1>2 DEF KexTypes
  <2> QED
    BY <1>2, <1>5, <2>1, <2>2, <2>3, <2>4, ContentsKeep
<1>10. Agreement'
  <2>1. ~Early => ~Early'
    BY <1>1, <1>2 DEF Early, KexTypes
  <2>2. ~Down("client")' => ~Down("client")
    BY <1>1, <1>2 DEF Down, KexTypes
  <2>3. \A q \in Roles : Established(q)' => Established(q) /\ q # r
    BY <1>1, <1>2 DEF Established, KexTypes
  <2>4. Established("client")' => at["server"] \in {"session", "closed"} /\ at'["server"] = at["server"]
    BY <1>1, <1>2, <2>3 DEF IInv, Agreement, KexTypes
  <2> QED
    BY <1>2, <2>1, <2>2, <2>3, <2>4 DEF IInv, Agreement, Cookie
<1> QED
  BY <1>2, <1>5, <1>6, <1>7, <1>8, <1>9, <1>10 DEF IInv, WireInv

LEMMA ConnectResponseKeeps ==
  ASSUME IInv, ServerConnectResponse
  PROVE  IInv'
<1> USE TwoRoles
<1> DEFINE body == Head(wire["server"]).body
<1>1. KexTypes /\ Receive("server", "connect_request") /\ UNCHANGED <<channel, agreed, id>>
  BY DEF IInv, WireInv, ServerConnectResponse
<1>2. /\ at["server"] = "receive" /\ want["server"].flag = "connect_request"
      /\ UNCHANGED <<txseq, ended, link, garbled, channel, agreed, id>>
      /\ rxseq' = [rxseq EXCEPT !["server"] = @ + 1]
  BY <1>1 DEF Receive
<1>3. Stands("server", "none", 0, 0)
  BY <1>2 DEF IInv, ServerTurn, Wanted
<1>4. PICK expired \in BOOLEAN :
        LET verdict == RequestVerdict(body, expired) IN
        \/ /\ verdict = "none"
           /\ \E pk \in PublicKeys :
                /\ kex' = [kex EXCEPT !["server"].sch = Cookie("server"), !["server"].prikey = pk]
                /\ Create("server", "connect_response",
                          [sig |-> Sign(id["server"].ver, pk), pk |-> pk],
                          Wanted("exchange_request", FALSE))
           /\ SetFlag("server", "connect_response")
        \/ /\ verdict # "none"
           /\ Refuse("server", verdict)
           /\ UNCHANGED kex
  BY DEF ServerConnectResponse
<1>5. CASE RequestVerdict(body, expired) # "none"
  <2>1. Refuse("server", RequestVerdict(body, expired)) /\ UNCHANGED kex
    BY <1>4, <1>5
  <2>2. RequestVerdict(body, expired) \in Codes
    BY <1>5 DEF RequestVerdict, Codes
  <2>3. ASSUME NEW code \in Codes, Refuse("server", code) PROVE IInv'
    BY <1>1, <2>1, <2>3, RefusedKeeps
  <2> QED
    BY <2>1, <2>2, <2>3
<1>6. CASE RequestVerdict(body, expired) = "none"
  <2>1. PICK pk \in PublicKeys :
          /\ kex' = [kex EXCEPT !["server"].sch = Cookie("server"), !["server"].prikey = pk]
          /\ Create("server", "connect_response", [sig |-> Sign(id["server"].ver, pk), pk |-> pk],
                    Wanted("exchange_request", FALSE))
    BY <1>4, <1>6
  <2>2. SetFlag("server", "connect_response")
    BY <1>4, <1>6
  <2> DEFINE p == [flag |-> "connect_response", seq |-> txseq["server"],
                   body |-> [sig |-> Sign(id["server"].ver, pk), pk |-> pk]]
  <2>3. /\ at' = [at EXCEPT !["server"] = "send"] /\ out' = [out EXCEPT !["server"] = p]
        /\ want' = [want EXCEPT !["server"] = Wanted("exchange_request", FALSE)]
        /\ exflag' = [exflag EXCEPT !["server"] = "connect_response"] /\ err' = err
    BY <2>1, <2>2 DEF Create, SetFlag, Go
  <2>4. /\ at'["server"] = "send" /\ out'["server"] = p /\ exflag'["server"] = "connect_response"
        /\ want'["server"] = Wanted("exchange_request", FALSE) /\ rxseq'["server"] = rxseq["server"] + 1
    BY <1>1, <1>2, <2>3 DEF KexTypes
  <2>5. kex'["server"].sch = Cookie("server") /\ DOMAIN kex' = Roles
    <3>1. DOMAIN kex = Roles
      BY <1>1 DEF KexTypes
    <3> QED
      BY <2>1, <3>1
  <2>6. Untouched("client")
    BY <1>1, <1>2, <2>1, <2>3 DEF Untouched, KexTypes
  <2>7. p \in Packets["client"]
    BY <1>3, Identified DEF IInv, Packets, Stands, Numbers, Sign
  <2>8. /\ Wires(Packets)' /\ Turns' /\ Counts' /\ (\A q \in Roles : Remains(q) /\ ~Data(wire'[q]))
        /\ Data(wire["server"]) /\ Head(wire["server"]).flag = "connect_request"
        /\ Head(wire["server"]) \in Packets["server"]
        /\ at' \in [Roles -> Places] /\ rxseq' \in [Roles -> Nat] /\ ~Holds("client")
    <3>1. /\ Go("server", "send") /\ out'["client"] = out["client"]
          /\ out'["server"] \in Packets["client"] /\ out'["server"].seq = txseq["server"]
          /\ out'["server"].flag # "error_condition"
      BY <2>3, <2>4, <2>6, <2>7 DEF Go, Untouched
    <3> QED
      BY <1>1, <3>1, ReceiveKeeps, PacketKindsHold DEF IInv
  <2>9. KexTypes'
    BY <1>1, <1>2, <2>3, <2>5, <2>8 DEF KexTypes, Flags
  <2>10. ClientTurn'
    BY <1>2, <2>6, UntouchedTurn DEF IInv
  <2>11. ServerTurn'
    BY <1>2, <1>3, <2>4, <2>5 DEF ServerTurn, Stands, Established, Cookie
  <2>12. Bounds'
    BY <1>2, <1>3, <2>4, <2>6 DEF IInv, Bounds, Down, Untouched, Stands
  <2>13. Matched
    <3>1. body.kid \in {id["client"].kid, Garbled} /\ body.cfg \in {id["client"].cfg, Garbled}
      BY <2>8 DEF IInv, Contents, ToServer
    <3>2. body.kid = id["server"].kid /\ body.cfg = id["server"].cfg
      BY <1>6 DEF RequestVerdict
    <3> QED
      BY <3>1, <3>2, Identified DEF IInv, Matched
  <2>14. Contents'
    <3>1. at'["client"] # "send"
      BY <2>6, <2>8 DEF Holds, Untouched
    <3>2. ToClient(out["server"])'
      BY <1>2, <2>4, <2>13 DEF ToClient, Matched, Sign
    <3> QED
      BY <2>8, <3>1, <3>2 DEF Contents, Data
  <2>15. Agreement'
    <3>1. ~Established("client")
      BY <1>2 DEF IInv, Agreement
    <3>2. (Early' <=> Early) /\ Down("client")' = Down("client")
      BY <2>6 DEF Early, Down, Untouched
    <3> QED
      BY <1>2, <2>4, <2>6, <3>1, <3>2 DEF IInv, Agreement, Established, Untouched, Cookie
  <2> QED
    BY <1>2, <2>8, <2>9, <2>10, <2>11, <2>12, <2>14, <2>15 DEF IInv, WireInv
<1> QED
  BY <1>5, <1>6

LEMMA ExchangeRequestKeeps ==
  ASSUME IInv, ClientExchangeRequest
  PROVE  IInv'
<1> USE TwoRoles
<1> DEFINE body == Head(wire["client"]).body
<1>1. KexTypes /\ Receive("client", "connect_response") /\ UNCHANGED <<kex, agreed, id>>
  BY DEF IInv, WireInv, ClientExchangeRequest
<1>2. /\ at["client"] = "receive" /\ want["client"].flag = "connect_response"
      /\ UNCHANGED <<txseq, ended, link, garbled, kex, agreed, id>>
      /\ rxseq' = [rxseq EXCEPT !["client"] = @ + 1]
  BY <1>1 DEF Receive
<1>3. Stands("client", "connect_request", 1, 0)
  BY <1>2 DEF IInv, ClientTurn, Wanted
<1>4. agreed = <<>> /\ kex["client"].sch = Cookie("client")
  BY <1>3 DEF IInv, ClientTurn, Agreement, Early, Stands
<1>5. CASE ResponseVerdict(body) # "none"
  <2>1. Refuse("client", ResponseVerdict(body)) /\ UNCHANGED channel
    BY <1>5 DEF ClientExchangeRequest
  <2>2. ResponseVerdict(body) \in Codes
    BY <1>5 DEF ResponseVerdict, SignatureVerdict, Codes
  <2>3. ASSUME NEW code \in Codes, Refuse("client", code) PROVE IInv'
    BY <1>1, <2>1, <2>3, RefusedKeeps
  <2> QED
    BY <2>1, <2>2, <2>3
<1>6. CASE ResponseVerdict(body) = "none"
  <2>1. PICK secret \in Secrets :
          /\ Create("client", "exchange_request", [cpt |-> Encapsulate(secret, body.pk)],
                    Wanted("exchange_response", TRUE))
          /\ channel' = [channel EXCEPT !["client"] = ClientChannel(<<secret, kex["client"].sch>>)]
    BY <1>6 DEF ClientExchangeRequest
  <2>2. SetFlag("client", "exchange_request")
    BY <1>6 DEF ClientExchangeRequest
  <2> DEFINE p == [flag |-> "exchange_request", seq |-> txseq["client"],
                   body |-> [cpt |-> Encapsulate(secret, body.pk)]]
  <2>3. /\ at' = [at EXCEPT !["client"] = "send"] /\ out' = [out EXCEPT !["client"] = p]
        /\ want' = [want EXCEPT !["client"] = Wanted("exchange_response", TRUE)]
        /\ exflag' = [exflag EXCEPT !["client"] = "exchange_request"] /\ err' = err
    BY <2>1, <2>2 DEF Create, SetFlag, Go
  <2>4. /\ at'["client"] = "send" /\ out'["client"] = p /\ exflag'["client"] = "exchange_request"
        /\ want'["client"] = Wanted("exchange_response", TRUE) /\ rxseq'["client"] = rxseq["client"] + 1
    BY <1>1, <1>2, <2>3 DEF KexTypes
  <2>5. channel'["client"] = ClientChannel(<<secret, Cookie("client")>>) /\ DOMAIN channel' = Roles
    BY <1>1, <1>4, <2>1 DEF KexTypes
  <2>6. Untouched("server")
    BY <1>1, <1>2, <2>1, <2>3 DEF Untouched, KexTypes
  <2>7. /\ Data(wire["client"]) /\ Head(wire["client"]).flag = "connect_response"
        /\ Head(wire["client"]) \in Packets["client"]
    <3>1. wire["client"] # <<>>
      BY <1>1 DEF Receive, Arrived
    <3>2. Head(wire["client"]).flag = "connect_response"
      <4>1. want["client"].bare = FALSE
        BY <1>2, <1>3 DEF IInv, ClientTurn, Wanted, Stands
      <4> QED
        BY <1>1, <4>1 DEF Receive, Arrived
    <3> QED
      BY <3>1, <3>2, FirstPacket DEF Data, IInv
  <2>8. body.pk \in PublicKeys \cup {Garbled}
    BY <2>7, Carried
  <2>9. p \in Packets["server"]
    BY <1>3, <2>8 DEF Packets, Stands, Numbers, Encapsulate
  <2>10. /\ Wires(Packets)' /\ Turns' /\ Counts' /\ (\A q \in Roles : Remains(q) /\ ~Data(wire'[q]))
         /\ at' \in [Roles -> Places] /\ rxseq' \in [Roles -> Nat] /\ ~Holds("server")
    <3>1. /\ Go("client", "send") /\ out'["server"] = out["server"]
          /\ out'["client"] \in Packets["server"] /\ out'["client"].seq = txseq["client"]
          /\ out'["client"].flag # "error_condition"
      BY <2>3, <2>4, <2>6, <2>9 DEF Go, Untouched
    <3> QED
      BY <1>1, <3>1, ReceiveKeeps, PacketKindsHold DEF IInv
  <2>11. KexTypes'
    BY <1>1, <1>2, <2>3, <2>5, <2>10 DEF KexTypes, Flags
  <2>12. id["client"] = id["server"]
    <3>1. body.sig # Garbled /\ body.sig.by = id["client"].ver
      BY <1>6, <1>3 DEF ResponseVerdict, SignatureVerdict, Verifies, Stands
    <3>2. Matched /\ body.sig.by = id["server"].ver
      BY <2>7, <3>1 DEF IInv, Contents, ToClient
    <3> QED
      BY <3>1, <3>2, Identified DEF IInv
  <2>13. ClientTurn'
    BY <1>2, <1>3, <2>4, <2>12 DEF ClientTurn, Stands, Established
  <2>14. ServerTurn'
    BY <1>2, <2>6, UntouchedTurn DEF IInv
  <2>15. Bounds'
    BY <1>2, <1>3, <2>4, <2>6 DEF IInv, Bounds, Down, Untouched, Stands
  <2>16. Contents'
    <3>1. at'["server"] # "send"
      BY <2>6, <2>10 DEF Holds, Untouched
    <3>2. ToServer(out["client"])'
      BY <1>2, <2>4, <2>5 DEF ToServer, Encapsulate, Early, Cookie
    <3> QED
      BY <2>10, <3>1, <3>2 DEF Contents, Data
  <2>17. Agreement'
    BY <1>2, <1>4, <2>4, <2>6 DEF IInv, Agreement, Established, Untouched
  <2> QED
    BY <1>2, <2>10, <2>11, <2>13, <2>14, <2>15, <2>16, <2>17 DEF IInv, WireInv
<1> QED
  BY <1>5, <1>6

LEMMA ExchangeResponseKeeps ==
  ASSUME IInv, ServerExchangeResponse
  PROVE  /\ IInv'
         /\ SecretVerdict(Head(wire["server"]).body.cpt) = "none" =>
              /\ ~Established("server") /\ ~Down("server") /\ Established("server")' /\ ~Down("server")'
              /\ agreed' \in Secrets \X Cookies /\ channel'["server"] = ServerChannel(agreed')
              /\ Untouched("client")
<1> USE TwoRoles
<1> DEFINE cpt == Head(wire["server"]).body.cpt
<1>1. KexTypes /\ Receive("server", "exchange_request") /\ UNCHANGED <<kex, id>>
  BY DEF IInv, WireInv, ServerExchangeResponse
<1>2. /\ at["server"] = "receive" /\ want["server"].flag = "exchange_request"
      /\ UNCHANGED <<txseq, ended, link, garbled, kex, id>>
      /\ rxseq' = [rxseq EXCEPT !["server"] = @ + 1]
  BY <1>1 DEF Receive
<1>3. Stands("server", "connect_response", 1, 1)
  BY <1>2 DEF IInv, ServerTurn, Wanted
<1>4. kex["server"].sch = Cookie("server")
  BY <1>3 DEF IInv, ServerTurn, Stands
<1>5. CASE SecretVerdict(cpt) # "none"
  <2>1. Refuse("server", SecretVerdict(cpt)) /\ UNCHANGED <<channel, agreed>>
    BY <1>5 DEF ServerExchangeResponse
  <2>2. SecretVerdict(cpt) \in Codes
    BY <1>5 DEF SecretVerdict, Codes
  <2>3. ASSUME NEW code \in Codes, Refuse("server", code) PROVE IInv'
    BY <1>1, <2>1, <2>3, RefusedKeeps
  <2> QED
    BY <1>5, <2>1, <2>2, <2>3
<1>6. CASE SecretVerdict(cpt) = "none"
  <2>1. /\ agreed' = <<cpt.secret, kex["server"].sch>>
        /\ channel' = [channel EXCEPT !["server"] = ServerChannel(agreed')]
        /\ Create("server", "exchange_response", <<>>, Nothing)
        /\ SetFlag("server", "session_established")
    BY <1>6 DEF ServerExchangeResponse
  <2> DEFINE p == [flag |-> "exchange_response", seq |-> txseq["server"], body |-> <<>>]
  <2>2. /\ at' = [at EXCEPT !["server"] = "send"] /\ out' = [out EXCEPT !["server"] = p]
        /\ want' = [want EXCEPT !["server"] = Nothing]
        /\ exflag' = [exflag EXCEPT !["server"] = "session_established"] /\ err' = err
    BY <2>1 DEF Create, SetFlag, Go
  <2>3. /\ at'["server"] = "send" /\ out'["server"] = p /\ exflag'["server"] = "session_established"
        /\ want'["server"] = Nothing /\ rxseq'["server"] = rxseq["server"] + 1
        /\ channel'["server"] = ServerChannel(agreed') /\ DOMAIN channel' = Roles
    BY <1>1, <1>2, <2>1, <2>2 DEF KexTypes
  <2>4. Untouched("client")
    BY <1>1, <1>2, <2>1, <2>2 DEF Untouched, KexTypes
  <2>5. p \in Packets["client"]
    BY <1>3 DEF Packets, Stands, Numbers
  <2>6. /\ Wires(Packets)' /\ Turns' /\ Counts' /\ (\A q \in Roles : Remains(q) /\ ~Data(wire'[q]))
        /\ Data(wire["server"]) /\ Head(wire["server"]).flag = "exchange_request"
        /\ Head(wire["server"]) \in Packets["server"]
        /\ at' \in [Roles -> Places] /\ rxseq' \in [Roles -> Nat] /\ ~Holds("client")
    <3>1. /\ Go("server", "send") /\ out'["client"] = out["client"]
          /\ out'["server"] \in Packets["client"] /\ out'["server"].seq = txseq["server"]
          /\ out'["server"].flag # "error_condition"
      BY <2>2, <2>3, <2>4, <2>5 DEF Go, Untouched
    <3> QED
      BY <1>1, <3>1, ReceiveKeeps, PacketKindsHold DEF IInv
  <2>7. KexTypes'
    BY <1>1, <1>2, <2>2, <2>3, <2>6 DEF KexTypes, Flags
  <2>8. cpt # Garbled /\ cpt.secret \in Secrets
    <3>1. cpt # Garbled
      BY <1>6 DEF SecretVerdict, Decapsulates
    <3> QED
      BY <2>6, <3>1, Carried
  <2>9. agreed' = <<cpt.secret, Cookie("server")>> /\ agreed' \in Secrets \X Cookies /\ agreed' # <<>>
    BY <1>4, <2>1, <2>8, Identified DEF IInv
  <2>10. /\ ~Early
         /\ ~Down("client") => channel["client"] = ClientChannel(<<cpt.secret, Cookie("client")>>)
    BY <2>6, <2>8 DEF IInv, Contents, ToServer
  <2>11. ClientTurn'
    BY <1>2, <2>4, UntouchedTurn DEF IInv
  <2>12. ServerTurn'
    BY <1>2, <1>3, <2>3 DEF ServerTurn, Stands, Established
  <2>13. Bounds'
    BY <1>2, <1>3, <2>3, <2>4 DEF IInv, Bounds, Down, Untouched, Stands
  <2>14. Contents'
    <3>1. at'["client"] # "send"
      BY <2>4, <2>6 DEF Holds, Untouched
    <3>2. ToClient(out["server"])'
      BY <2>3, <2>9 DEF ToClient
    <3> QED
      BY <2>6, <3>1, <3>2 DEF Contents, Data
  <2>15. Agreement'
    <3>1. ~Established("client")
      BY <1>2 DEF IInv, Agreement
    <3>2. ~Early' /\ ~Established("client")'
      BY <2>4, <2>10, <3>1 DEF Early, Untouched, Established
    <3>3. ~Down("client")' => ~Down("client") /\ channel'["client"] = channel["client"]
      BY <2>4 DEF Down, Untouched
    <3>4. Cookie("client")' = Cookie("client") /\ Cookie("server")' = Cookie("server")
      BY <1>2 DEF Cookie
    <3>5. agreed'[1] = cpt.secret /\ agreed'[2] = Cookie("server")
      BY <2>9
    <3> HIDE DEF cpt
    <3>6. ~Down("client")' => channel'["client"] = ClientChannel(<<agreed'[1], Cookie("client")'>>)
      BY <2>10, <3>3, <3>4, <3>5
    <3>7. Established("server")' => channel'["server"] = ServerChannel(agreed')
      BY <2>3
    <3> QED
      BY <2>9, <3>2, <3>4, <3>5, <3>6, <3>7 DEF Agreement, ClientChannel, ServerChannel, Cookie
  <2>16. IInv'
    BY <1>2, <2>6, <2>7, <2>11, <2>12, <2>13, <2>14, <2>15, <2>4 DEF IInv, WireInv, Untouched
  <2> QED
    BY <1>2, <1>3, <2>3, <2>4, <2>9, <2>16 DEF Established, Down, Stands
<1> QED
  BY <1>5, <1>6

LEMMA EstablishVerifyKeeps ==
  ASSUME IInv, ClientEstablishVerify
  PROVE  /\ IInv'
         /\ exflag["client"] = "exchange_request" /\ Untouched("server")
         /\ ~Established("client") /\ ~Down("client") /\ Established("client")' /\ ~Down("client")'
         /\ agreed # <<>> /\ UNCHANGED <<channel, agreed>>
         /\ channel["client"] = ClientChannel(agreed)
<1> USE TwoRoles
<1>1. KexTypes /\ Receive("client", "exchange_response") /\ UNCHANGED <<channel, agreed, id>>
  BY DEF IInv, WireInv, ClientEstablishVerify
<1>2. /\ at["client"] = "receive" /\ want["client"].flag = "exchange_response"
      /\ UNCHANGED <<txseq, ended, link, garbled, channel, agreed, id>>
      /\ rxseq' = [rxseq EXCEPT !["client"] = @ + 1]
  BY <1>1 DEF Receive
<1>3. Stands("client", "exchange_request", 2, 1)
  BY <1>2 DEF IInv, ClientTurn, Wanted
<1>4. /\ SetFlag("client", "session_established") /\ Go("client", "session") /\ ClearExchange("client")
      /\ UNCHANGED <<out, want, err>>
  BY <1>3 DEF ClientEstablishVerify, Stands
<1>5. /\ at' = [at EXCEPT !["client"] = "session"]
      /\ exflag' = [exflag EXCEPT !["client"] = "session_established"]
      /\ kex' = [kex EXCEPT !["client"] = NoExchange]
  BY <1>4 DEF SetFlag, Go, ClearExchange
<1>6. /\ at'["client"] = "session" /\ exflag'["client"] = "session_established"
      /\ rxseq'["client"] = rxseq["client"] + 1
  BY <1>1, <1>2, <1>5 DEF KexTypes
<1>7. Untouched("server")
  BY <1>1, <1>2, <1>4, <1>5 DEF Untouched, KexTypes
<1>8. /\ Wires(Packets)' /\ Turns' /\ Counts' /\ (\A q \in Roles : Remains(q) /\ ~Data(wire'[q]))
      /\ Data(wire["client"]) /\ Head(wire["client"]).flag = "exchange_response"
      /\ at' \in [Roles -> Places] /\ rxseq' \in [Roles -> Nat]
  <2>1. Go("client", "session") /\ out'["server"] = out["server"]
    BY <1>4
  <2> QED
    BY <1>1, <2>1, ReceiveKeeps, PacketKindsHold DEF IInv
<1>9. KexTypes'
  BY <1>1, <1>2, <1>4, <1>5, <1>8 DEF KexTypes, Flags
<1>10. agreed # <<>> /\ at["server"] \in {"session", "closed"}
  BY <1>8 DEF IInv, Contents, ToClient
<1>11. id["client"] = id["server"]
  BY <1>3 DEF IInv, ClientTurn, Stands
<1>12. channel["client"] = ClientChannel(agreed)
  <2>1. /\ agreed \in Secrets \X Cookies /\ agreed[2] = Cookie("server")
        /\ channel["client"] = ClientChannel(<<agreed[1], Cookie("client")>>)
    BY <1>2, <1>10 DEF IInv, Agreement, Down
  <2>2. Cookie("client") = Cookie("server")
    BY <1>11 DEF Cookie
  <2>3. agreed = <<agreed[1], agreed[2]>>
    BY <2>1
  <2> QED
    BY <2>1, <2>2, <2>3
<1>13. ClientTurn'
  BY <1>2, <1>3, <1>6, <1>11 DEF ClientTurn, Stands, Established
<1>14. ServerTurn'
  BY <1>2, <1>7, UntouchedTurn DEF IInv
<1>15. Bounds'
  BY <1>2, <1>3, <1>6, <1>7 DEF IInv, Bounds, Down, Untouched, Stands
<1>16. Contents'
  <2>1. at'["server"] = "send" => ToClient(out["server"])'
    <3>1. at["server"] # "send"
      BY <1>10
    <3> QED
      BY <1>7, <3>1 DEF Untouched
  <2> QED
    BY <1>6, <1>8, <2>1 DEF Contents, Data
<1>17. Agreement'
  <2>1. ~Early' /\ ~Down("client")
    BY <1>2, <1>6 DEF Early, Down
  <2> QED
    BY <1>2, <1>6, <1>7, <1>10, <2>1 DEF IInv, Agreement, Established, Untouched, Cookie
<1>18. IInv'
  BY <1>2, <1>8, <1>9, <1>13, <1>14, <1>15, <1>16, <1>17 DEF IInv, WireInv
<1> QED
  BY <1>2, <1>3, <1>6, <1>7, <1>10, <1>12, <1>18 DEF Established, Down, Stands

-----------------------------------------------------------------------------
(* The steps it shares with the duplex exchange *)

LEMMA SendStep ==
  ASSUME IInv, NEW r \in Roles, Send(r), id' = id
  PROVE  IInv'
<1> USE TwoRoles
<1>1. KexTypes
  BY DEF IInv, WireInv
<1>2. /\ at[r] = "send" /\ UNCHANGED <<exflag, rxseq, out, want, ended, link, garbled, channel, agreed, id>>
      /\ at' = [at EXCEPT ![r] = at'[r]]
      /\ at'[r] \in {"receive", "session", "failing"}
      /\ at'[r] # "failing" => txseq' = [txseq EXCEPT ![r] = @ + 1]
      /\ at'[r] = "failing" => txseq' = txseq /\ kex' = kex
      /\ at'[r] = "receive" => want[r] # Nothing /\ kex' = kex
      /\ at'[r] = "session" => want[r] = Nothing /\ kex' = [kex EXCEPT ![r] = NoExchange]
  BY <1>1 DEF Send, Go, SentSeq, ClearExchange, KexTypes
<1>3. /\ WireInv(Packets)' /\ Remains(r)
      /\ Data(wire'[Other(r)]) => Head(wire'[Other(r)]) = out[r]
  BY PacketKindsHold, SendKeeps DEF IInv
<1>4. Untouched(Other(r)) /\ Other(r) \in Roles /\ Other(r) # r
  BY <1>1, <1>2, OtherRole DEF Untouched, KexTypes
<1>5. txseq'[r] \in {txseq[r], txseq[r] + 1} /\ (at'[r] # "failing" => txseq'[r] = txseq[r] + 1)
  BY <1>1, <1>2 DEF KexTypes
<1>6. ASSUME r = "client" PROVE ClientTurn' /\ ServerTurn'
  <2>1. ServerTurn'
    BY <1>4, <1>6, UntouchedTurn DEF IInv
  <2>2. want["client"] # Nothing /\ kex' = kex /\ at'["client"] \in {"receive", "failing"}
    <3>1. \/ want["client"] = Wanted("connect_response", FALSE)
          \/ want["client"] = Wanted("exchange_response", TRUE)
      BY <1>2, <1>6 DEF IInv, ClientTurn
    <3>2. want["client"] # Nothing
      BY <3>1 DEF Wanted, Nothing
    <3> QED
      BY <1>2, <1>6, <3>2
  <2>3. ClientTurn'
    <3>1. CASE at'["client"] = "failing"
      BY <1>2, <1>6, <2>2, <3>1 DEF IInv, ClientTurn, Established, Cookie
    <3>2. CASE at'["client"] = "receive"
      <4>1. /\ Stands("client", "connect_request", 0, 0) =>
                 Stands("client", "connect_request", 1, 0)' /\ want["client"] = Wanted("connect_response", FALSE)
            /\ Stands("client", "exchange_request", 1, 1) =>
                 Stands("client", "exchange_request", 2, 1)' /\ want["client"] = Wanted("exchange_response", TRUE)
        <5>1. /\ Stands("client", "connect_request", 0, 0) => want["client"] = Wanted("connect_response", FALSE)
              /\ Stands("client", "exchange_request", 1, 1) => want["client"] = Wanted("exchange_response", TRUE)
          BY <1>2, <1>6 DEF IInv, ClientTurn, Stands
        <5>2. txseq'["client"] = txseq["client"] + 1 /\ exflag' = exflag /\ rxseq' = rxseq
          BY <1>2, <1>5, <1>6, <3>2
        <5>3. /\ Stands("client", "connect_request", 0, 0) => Stands("client", "connect_request", 1, 0)'
              /\ Stands("client", "exchange_request", 1, 1) => Stands("client", "exchange_request", 2, 1)'
          BY <5>2 DEF Stands
        <5> QED
          BY <5>1, <5>3
      <4>2. Stands("client", "connect_request", 0, 0) \/ Stands("client", "exchange_request", 1, 1)
        BY <1>2, <1>6 DEF IInv, ClientTurn
      <4>3. /\ ~Established("client")
            /\ exflag["client"] = "connect_request" => kex["client"].sch = Cookie("client")
            /\ exflag["client"] \in {"exchange_request", "session_established"} => id["client"] = id["server"]
        BY <1>2, <1>6 DEF IInv, ClientTurn
      <4> QED
        BY <1>2, <2>2, <3>2, <4>1, <4>2, <4>3 DEF ClientTurn, Established, Cookie
    <3> QED
      BY <2>2, <3>1, <3>2
  <2> QED
    BY <2>1, <2>3
<1>7. ASSUME r = "server" PROVE ClientTurn' /\ ServerTurn'
  <2>1. ClientTurn'
    BY <1>4, <1>7, UntouchedTurn DEF IInv
  <2>2. ServerTurn'
    <3>1. CASE Stands("server", "connect_response", 0, 1)
      <4>1. want["server"] = Wanted("exchange_request", FALSE)
        BY <1>2, <1>7, <3>1 DEF IInv, ServerTurn, Stands
      <4>2. kex' = kex /\ at'["server"] \in {"receive", "failing"}
        BY <1>2, <1>7, <4>1 DEF Wanted, Nothing
      <4> QED
        BY <1>2, <1>5, <1>7, <3>1, <4>1, <4>2 DEF IInv, ServerTurn, Stands, Established, Cookie
    <3>2. CASE Stands("server", "session_established", 1, 2)
      <4>1. want["server"] = Nothing
        BY <1>2, <1>7, <3>2 DEF IInv, ServerTurn, Stands
      <4>2. at'["server"] \in {"session", "failing"}
        BY <1>2, <1>7, <4>1
      <4> QED
        BY <1>2, <1>5, <1>7, <3>2, <4>2 DEF IInv, ServerTurn, Stands, Established, Cookie
    <3>3. \/ Stands("server", "connect_response", 0, 1)
          \/ Stands("server", "session_established", 1, 2)
      BY <1>2, <1>7 DEF IInv, ServerTurn
    <3> QED
      BY <3>1, <3>2, <3>3
  <2> QED
    BY <2>1, <2>2
<1>8. Bounds'
  <2>1. txseq'[r] \in 0 .. 2
    <3>1. txseq[r] = 0 \/ txseq[r] = 1
      <4>1. at["client"] = "send" => txseq["client"] = 0 \/ txseq["client"] = 1
        BY DEF IInv, ClientTurn, Stands
      <4>2. at["server"] = "send" => txseq["server"] = 0 \/ txseq["server"] = 1
        BY DEF IInv, ServerTurn, Stands
      <4> QED
        BY <1>2, <4>1, <4>2
    <3> QED
      BY <1>5, <3>1
  <2>2. \A q \in Roles : q = r \/ q = Other(r)
    BY OtherRole
  <2> QED
    BY <1>2, <1>4, <2>1, <2>2 DEF IInv, Bounds, Down, Untouched
<1>9. (Early' <=> Early) /\ (Down("client")' <=> Down("client"))
  BY <1>1, <1>2 DEF Early, Down, KexTypes
<1>10. /\ \A p : ToServer(p) => ToServer(p)'
       /\ \A p : ToClient(p) => ToClient(p)'
  BY <1>2, <1>9 DEF ToServer, ToClient, Cookie, Matched
<1>11. Contents'
  <2>1. Data(wire[Other(r)]) => FALSE
    BY <1>2 DEF IInv, WireInv, Turns, Holds, Data
  <2>2. ~Data(wire'[r])
    <3>1. ~Data(wire[r])
      BY <1>2 DEF IInv, WireInv, Turns, Holds
    <3> QED
      BY <1>3, <3>1 DEF Remains
  <2>3. at'[r] # "send" /\ at'[Other(r)] # "send"
    <3>1. ~Holds(Other(r))
      BY <1>2 DEF IInv, WireInv, Turns, Holds
    <3> QED
      BY <1>2, <1>4, <3>1 DEF Holds, Untouched
  <2>4. CASE r = "client"
    <3>1. ToServer(out["client"])
      BY <1>2, <2>4 DEF IInv, Contents
    <3>2. ASSUME NEW p, p = out["client"] PROVE ToServer(p)'
      BY <1>10, <3>1, <3>2
    <3>3. Data(wire'["server"]) => ToServer(Head(wire["server"]))'
      BY <1>3, <2>4, <3>2 DEF ToServer
    <3> QED
      BY <2>2, <2>3, <2>4, <3>3 DEF Contents, Data
  <2>5. CASE r = "server"
    <3>1. /\ ToClient(out["server"])
          /\ out["server"].flag = "exchange_response" => want["server"] = Nothing
      BY <1>2, <2>5 DEF IInv, Contents, ServerTurn
    <3>2. ASSUME NEW p, p = out["server"] PROVE ToClient(p)'
      BY <1>10, <3>1, <3>2
    <3>3. Data(wire'["client"]) => ToClient(Head(wire["client"]))'
      BY <1>3, <2>5, <3>2 DEF ToClient
    <3>4. Data(wire'["client"]) => at'["server"] # "failing"
      <4>1. ASSUME at'["server"] = "failing" PROVE wire' = wire
        BY <1>1, <1>2, <2>5, <4>1 DEF Send, Go, KexTypes
      <4> QED
        BY <2>1, <2>5, <4>1
    <3>5. Data(wire'["client"]) /\ Head(wire'["client"]).flag = "exchange_response" => at'["server"] = "session"
      BY <1>2, <1>3, <2>5, <3>1, <3>4
    <3> QED
      BY <2>2, <2>3, <2>5, <3>3, <3>5 DEF Contents, Data
  <2> QED
    BY <2>4, <2>5
<1>12. Agreement'
  <2>1. at["server"] \in {"session", "closed"} => at'["server"] = at["server"]
    BY <1>1, <1>2 DEF KexTypes
  <2> QED
    BY <1>2, <1>9, <2>1 DEF IInv, Agreement, Established, Cookie
<1> QED
  BY <1>2, <1>3, <1>6, <1>7, <1>8, <1>11, <1>12 DEF IInv

\* A receive that fails leaves the counters and the flag.
LEMMA ReceiveFailsStep ==
  ASSUME IInv, NEW r \in Roles, ReceiveFails(r), id' = id
  PROVE  IInv'
<1> USE TwoRoles
<1>1. KexTypes
  BY DEF IInv, WireInv
<1>2. /\ at[r] = "receive" /\ at' = [at EXCEPT ![r] = "failing"]
      /\ UNCHANGED <<exflag, txseq, rxseq, out, want, kex, channel, agreed, id>>
  BY DEF ReceiveFails, Go, keyVars
<1>3. WireInv(Packets)' /\ (\A q \in Roles : Remains(q))
  BY PacketKindsHold, ReceiveFailsKeeps DEF IInv
<1>4. at'[r] = "failing" /\ \A q \in Roles : q # r => at'[q] = at[q]
  BY <1>1, <1>2 DEF KexTypes
<1>5. ~Established(r)
  BY <1>2 DEF IInv, ClientTurn, ServerTurn, Established
<1>6. ClientTurn' /\ ServerTurn'
  BY <1>2, <1>4, <1>5 DEF IInv, ClientTurn, ServerTurn, Stands, Established, Cookie
<1>7. Bounds'
  BY <1>2, <1>4 DEF IInv, Bounds, Down
<1>8. (~Early => ~Early') /\ (~Down("client")' => ~Down("client"))
  BY <1>2, <1>4 DEF Early, Down
<1>9. Contents'
  <2>1. \A q \in Roles : at'[q] = "send" => at[q] = "send" /\ out'[q] = out[q]
    BY <1>2, <1>4
  <2>2. at["server"] \in {"session", "closed"} => at'["server"] \in {"session", "closed"}
    BY <1>2, <1>4
  <2> QED
    BY <1>2, <1>3, <1>8, <2>1, <2>2, ContentsKeep
<1>10. Agreement'
  <2>1. at["server"] \in {"session", "closed"} => at'["server"] = at["server"]
    BY <1>2, <1>4
  <2> QED
    BY <1>2, <1>8, <2>1 DEF IInv, Agreement, Established, Cookie
<1> QED
  BY <1>2, <1>3, <1>6, <1>7, <1>9, <1>10 DEF IInv

\* A host that gives up or closes, and its erased connection state.
LEMMA LeavesStep ==
  ASSUME IInv, NEW r \in Roles, GiveUp(r) \/ SessionEnds(r), id' = id
  PROVE  IInv' /\ ~Down(r) /\ Down(r)' /\ ~Established(r)' /\ Untouched(Other(r)) /\ agreed' = agreed
<1> USE TwoRoles
<1>1. KexTypes
  BY DEF IInv, WireInv
<1>2. /\ at[r] \in {"failing", "session"} /\ UNCHANGED <<out, want, agreed, id>> /\ Dispose(r)
      /\ \/ at' = [at EXCEPT ![r] = "failed"]
         \/ at' = [at EXCEPT ![r] = "closed"] /\ at[r] = "session"
      /\ \/ kex' = [kex EXCEPT ![r] = NoExchange]
         \/ kex' = kex
  <2>1. CASE GiveUp(r)
    BY <2>1 DEF GiveUp, Go, ClearExchange
  <2>2. CASE SessionEnds(r)
    BY <2>2 DEF SessionEnds, Go
  <2> QED
    BY <2>1, <2>2
<1>3. at'[r] \in {"failed", "closed"} /\ (at[r] = "session" => at'[r] = "closed")
  <2>1. GiveUp(r) => at[r] = "failing"
    BY DEF GiveUp
  <2>2. SessionEnds(r) => at' = [at EXCEPT ![r] = "closed"]
    BY DEF SessionEnds, Go
  <2> QED
    BY <1>1, <1>2, <2>1, <2>2 DEF KexTypes
<1>4. WireInv(Packets)' /\ (\A q \in Roles : Remains(q))
  BY PacketKindsHold, GiveUpKeeps, SessionEndsKeeps DEF IInv
<1>5. Untouched(Other(r)) /\ Other(r) \in Roles /\ Other(r) # r /\ \A q \in Roles : q = r \/ q = Other(r)
  BY <1>1, <1>2, OtherRole DEF Untouched, Dispose, KexTypes
<1>6. exflag'[r] = "none" /\ txseq'[r] = 0 /\ rxseq'[r] = 0
  BY <1>1, <1>2 DEF Dispose, KexTypes
<1>7. ClientTurn' /\ ServerTurn'
  <2>1. CASE r = "client"
    BY <1>3, <1>5, <1>6, <2>1, UntouchedTurn DEF IInv, ClientTurn, Established
  <2>2. CASE r = "server"
    BY <1>3, <1>5, <1>6, <2>2, UntouchedTurn DEF IInv, ServerTurn, Established
  <2> QED
    BY <2>1, <2>2
<1>8. Bounds'
  BY <1>5, <1>6 DEF IInv, Bounds, Down, Untouched
<1>9. (~Early => ~Early') /\ (~Down("client")' => ~Down("client") /\ channel'["client"] = channel["client"])
  <2>1. CASE r = "client"
    BY <1>3, <1>6, <2>1 DEF Early, Down
  <2>2. CASE r = "server"
    BY <1>5, <2>2 DEF Early, Down, Untouched
  <2> QED
    BY <2>1, <2>2
<1>10. at["server"] \in {"session", "closed"} => at'["server"] \in {"session", "closed"}
  BY <1>2, <1>3, <1>5 DEF Untouched
<1>11. Contents'
  <2>1. \A q \in Roles : at'[q] = "send" => at[q] = "send" /\ out'[q] = out[q]
    BY <1>2, <1>3, <1>5 DEF Untouched
  <2> QED
    BY <1>2, <1>4, <1>9, <1>10, <2>1, ContentsKeep
<1>12. Agreement'
  <2>1. \A q \in Roles : Established(q)' => Established(q) /\ channel'[q] = channel[q]
    BY <1>5, <1>6 DEF Established, Untouched
  <2> QED
    BY <1>2, <1>9, <1>10, <2>1 DEF IInv, Agreement, Cookie
<1> QED
  BY <1>2, <1>3, <1>4, <1>5, <1>6, <1>7, <1>8, <1>11, <1>12 DEF IInv, Down, Established

\* What happens on the network touches no host.
LEMMA NetworkStep ==
  ASSUME IInv, Network, id' = id
  PROVE  IInv' /\ Untouched("client") /\ Untouched("server") /\ agreed' = agreed
<1> USE TwoRoles
<1>1. UNCHANGED <<at, exflag, txseq, rxseq, want, out, kex, channel, agreed, id>>
  BY DEF Network, Drop, Garble, posVars, keyVars
<1>2. WireInv(Packets)' /\ (\A q \in Roles : Remains(q))
  BY PacketKindsHold, DropKeeps, GarbleKeeps, BoundAssumption DEF IInv, Network
<1>3. Untouched("client") /\ Untouched("server")
  BY <1>1 DEF Untouched
<1>4. ClientTurn' /\ ServerTurn'
  BY <1>3, UntouchedTurn DEF IInv
<1>5. Bounds' /\ Agreement'
  BY <1>1 DEF IInv, Bounds, Agreement, Down, Early, Established, Cookie
<1>6. Contents'
  <2>1. (~Early => ~Early') /\ (~Down("client")' => ~Down("client"))
    BY <1>1 DEF Early, Down
  <2> QED
    BY <1>1, <1>2, <2>1, ContentsKeep
<1> QED
  BY <1>1, <1>2, <1>3, <1>4, <1>5, <1>6 DEF IInv

-----------------------------------------------------------------------------
(* The invariant *)

LEMMA Init_IInv == Init => IInv
<1> SUFFICES ASSUME Init PROVE IInv
  OBVIOUS
<1> USE TwoRoles
<1>1. WireInv(Packets)
  BY BoundAssumption, WireInitKeeps DEF Init
<1>2. ClientTurn /\ ServerTurn /\ Bounds
  BY DEF Init, WireInit, ClientTurn, ServerTurn, Bounds, Stands, Established, Down
<1>3. Contents /\ Agreement
  BY DEF Init, WireInit, Contents, Agreement, Data, Established
<1> QED
  BY <1>1, <1>2, <1>3 DEF Init, IInv

LEMMA Stutter_IInv == IInv /\ UNCHANGED vars => IInv'
<1> SUFFICES ASSUME IInv, UNCHANGED vars PROVE IInv'
  OBVIOUS
<1> USE DEF vars, wireVars, posVars, netVars, keyVars
<1>1. WireInv(Packets)'
  BY DEF IInv, WireInv, KexTypes, Wires, Turns, Counts, Holds, Data, Down
<1>2. ClientTurn' /\ ServerTurn'
  BY DEF IInv, ClientTurn, ServerTurn, Stands, Established, Cookie
<1>3. Bounds' /\ Agreement'
  BY DEF IInv, Bounds, Down, Agreement, Established, Early, Cookie
<1>4. Contents'
  BY DEF IInv, Contents, Data, ToServer, ToClient, Early, Down, Cookie, Matched
<1> QED
  BY <1>1, <1>2, <1>3, <1>4 DEF IInv

LEMMA Next_IInv == IInv /\ [Next]_vars => IInv'
<1> SUFFICES ASSUME IInv, [Next]_vars PROVE IInv'
  OBVIOUS
<1>1. CASE ClientStep
  BY <1>1, ConnectRequestKeeps, ExchangeRequestKeeps, EstablishVerifyKeeps, SendStep, ReceiveFailsStep,
     LeavesStep, TwoRoles DEF ClientStep, HostStep
<1>2. CASE ServerStep
  BY <1>2, ConnectResponseKeeps, ExchangeResponseKeeps, SendStep, ReceiveFailsStep, LeavesStep, TwoRoles
     DEF ServerStep, HostStep
<1>3. CASE Network /\ UNCHANGED id
  BY <1>3, NetworkStep
<1>4. CASE UNCHANGED vars
  BY <1>4, Stutter_IInv
<1> QED
  BY <1>1, <1>2, <1>3, <1>4 DEF Next

LEMMA Spec_IInv == Spec => []IInv
BY Init_IInv, Next_IInv, PTL DEF Spec

-----------------------------------------------------------------------------
(* What it implies *)

\* TypeOK: no host counts beyond its two packets, and there are never more than
\* two packets before a host.
THEOREM TypeCorrect == Spec => []TypeOK
<1>1. IInv => TypeOK
  <2> SUFFICES ASSUME IInv PROVE TypeOK
    OBVIOUS
  <2>1. txseq \in [Roles -> 0 .. 2] /\ rxseq \in [Roles -> 0 .. 2]
    BY DEF IInv, WireInv, KexTypes, Bounds
  <2> QED
    BY <2>1, WireTypes DEF IInv, TypeOK, WireTypeOK
<1> QED
  BY <1>1, Spec_IInv, PTL

\* SequenceKept: the packets on their way to a host that takes part carry the
\* numbers it expects, except a corrupted one and the error packet.
THEOREM SequenceIsKept == Spec => []SequenceKept
<1>1. IInv => SequenceKept
  BY WireSequence DEF IInv
<1> QED
  BY <1>1, Spec_IInv, PTL

\* OnlyTheServerAskedFor: the signature of the connect response and the checks of
\* the connect request leave no other server.
THEOREM ServerAskedFor == Spec => []OnlyTheServerAskedFor
<1>1. IInv => OnlyTheServerAskedFor
  BY DEF IInv, ClientTurn, OnlyTheServerAskedFor, Established
<1> QED
  BY <1>1, Spec_IInv, PTL

\* What an established client derived its keys from is what the server did.
LEMMA SameSeed ==
  ASSUME IInv, Established("client")
  PROVE  /\ agreed # <<>> /\ channel["client"] = ClientChannel(agreed)
         /\ at["client"] = "session" /\ at["server"] \in {"session", "closed"}
<1>1. at["client"] = "session" /\ id["client"] = id["server"]
  BY DEF IInv, ClientTurn, Established
<1>2. agreed # <<>> /\ at["server"] \in {"session", "closed"}
  BY DEF IInv, Agreement
<1>3. /\ agreed \in Secrets \X Cookies /\ agreed[2] = Cookie("server")
      /\ channel["client"] = ClientChannel(<<agreed[1], Cookie("client")>>)
  BY <1>1, <1>2 DEF IInv, Agreement, Down
<1>4. Cookie("client") = Cookie("server") /\ agreed = <<agreed[1], agreed[2]>>
  BY <1>1, <1>3 DEF Cookie
<1> QED
  BY <1>1, <1>2, <1>3, <1>4

\* KeyAgreement: when both hosts are established their channels are crossed, their
\* ratchet keys are the same and each expects the number the other sends next.
THEOREM KeysAgree == Spec => []KeyAgreement
<1>1. ASSUME IInv, Established("client"), Established("server")
      PROVE  /\ channel["client"].tx = channel["server"].rx
             /\ channel["client"].rx = channel["server"].tx
             /\ channel["client"].tx # channel["client"].rx
             /\ channel["client"].rtc = channel["server"].rtc
             /\ \A r \in Roles : txseq[r] = rxseq[Other(r)]
  <2>1. /\ channel["client"] = ClientChannel(agreed) /\ at["client"] = "session"
        /\ at["server"] \in {"session", "closed"}
    BY <1>1, SameSeed
  <2>2. channel["server"] = ServerChannel(agreed)
    BY <1>1 DEF IInv, Agreement
  <2>3. at["server"] = "session"
    BY <1>1, <2>1 DEF IInv, ServerTurn
  <2>4. \A r \in Roles : txseq[r] = 2 /\ rxseq[r] = 2
    BY <1>1, <2>1, <2>3, TwoRoles DEF IInv, ClientTurn, ServerTurn, Stands
  <2>5. Derived(1, agreed) # Derived(2, agreed)
    BY DEF Derived
  <2> QED
    BY <2>1, <2>2, <2>4, <2>5, TwoRoles DEF ClientChannel, ServerChannel
<1>2. IInv => KeyAgreement
  BY <1>1 DEF KeyAgreement
<1> QED
  BY <1>2, Spec_IInv, PTL

-----------------------------------------------------------------------------
(* The exchange implements Handshake *)

\* A refusal is such a step.
LEMMA RefusedQuiet ==
  ASSUME IInv, NEW r \in Roles, NEW code, Refuse(r, code), at[r] \in {"start", "receive"},
         txseq' = txseq, rxseq'[Other(r)] = rxseq[Other(r)],
         kex' = kex, channel' = channel, agreed' = agreed, id' = id
  PROVE  Keeps("client") /\ Keeps("server")
<1>1. ~Established(r) /\ ~Down(r)
  BY TwoRoles DEF IInv, ClientTurn, ServerTurn, Established, Down
<1>2. /\ at' = [at EXCEPT ![r] = "failing"] /\ exflag' = [exflag EXCEPT ![r] = "none"]
      /\ UNCHANGED <<out, want>> /\ KexTypes
  BY DEF Refuse, Go, IInv, WireInv
<1>3. ~Established(r)' /\ ~Down(r)'
  BY <1>2 DEF Established, Down, KexTypes
<1>4. Untouched(Other(r))
  BY <1>2, OtherRole DEF Untouched, KexTypes
<1> QED
  BY <1>1, <1>2, <1>3, <1>4, QuietSteps

PromiseStep == [Promise!Next]_(Promise!vars)

LEMMA KeptStep ==
  ASSUME Keeps("client"), Keeps("server"), agreed' = agreed
  PROVE  PromiseStep
<1>1. [r \in Roles |-> SessionKeys(r)]' = [r \in Roles |-> SessionKeys(r)]
  BY DEF Keeps, Roles
<1> QED
  BY <1>1 DEF PromiseStep, Promise!vars, Keeps

\* A host that is neither up nor down after the step and was not before.
LEMMA RefusedStep ==
  ASSUME IInv, NEW r \in Roles, NEW code, Refuse(r, code), at[r] \in {"start", "receive"},
         txseq' = txseq, rxseq'[Other(r)] = rxseq[Other(r)],
         kex' = kex, channel' = channel, agreed' = agreed, id' = id
  PROVE  PromiseStep
BY RefusedQuiet, KeptStep

LEMMA LeavesPromise ==
  ASSUME IInv, NEW r \in Roles, GiveUp(r) \/ SessionEnds(r), id' = id
  PROVE  PromiseStep
<1> USE TwoRoles
<1>1. ~Down(r) /\ Down(r)' /\ ~Established(r)' /\ Untouched(Other(r)) /\ agreed' = agreed
  BY LeavesStep
<1>2. Keeps(Other(r))
  BY <1>1, UntouchedKeeps, OtherRole
<1>3. Status(r) # "down" /\ Status(r)' = "down" /\ SessionKeys(r)' = <<>>
  BY <1>1 DEF Status, SessionKeys
<1>4. [q \in Roles |-> SessionKeys(q)]' = [[q \in Roles |-> SessionKeys(q)] EXCEPT ![r] = <<>>]
  BY <1>2, <1>3, OtherRole DEF Keeps
<1>5. CASE r = "client"
  <2>1. Promise!ClientDown
    BY <1>1, <1>2, <1>3, <1>4, <1>5 DEF Promise!ClientDown, Keeps
  <2> QED
    BY <2>1 DEF PromiseStep, Promise!Next
<1>6. CASE r = "server"
  <2>1. Promise!ServerDown
    BY <1>1, <1>2, <1>3, <1>4, <1>6 DEF Promise!ServerDown, Keeps
  <2> QED
    BY <2>1 DEF PromiseStep, Promise!Next
<1> QED
  BY <1>5, <1>6

LEMMA HostPromise ==
  ASSUME IInv, NEW r \in Roles, HostStep(r), id' = id
  PROVE  PromiseStep
<1>1. CASE Send(r) \/ ReceiveFails(r)
  BY <1>1, QuietSteps, KeptStep DEF IInv, WireInv
<1>2. CASE GiveUp(r) \/ SessionEnds(r)
  BY <1>2, LeavesPromise
<1> QED
  BY <1>1, <1>2 DEF HostStep

LEMMA ClientPromise ==
  ASSUME IInv, ClientStep
  PROVE  PromiseStep
<1> USE TwoRoles
<1>0. KexTypes
  BY DEF IInv, WireInv
<1>1. CASE ClientConnectRequest
  <2>1. /\ at["client"] = "start" /\ UNCHANGED <<txseq, rxseq, channel, agreed, id>>
        /\ ~Established("client") /\ ~Down("client")
    BY <1>1 DEF ClientConnectRequest, IInv, ClientTurn, Established, Down
  <2>2. ASSUME NEW body, NEW answer, Create("client", "connect_request", body, answer),
               SetFlag("client", "connect_request"),
               kex' = [kex EXCEPT !["client"].sch = Cookie("client")]
        PROVE  PromiseStep
    <3>1. Untouched("server")
      BY <1>0, <2>1, <2>2 DEF Create, Go, SetFlag, Untouched, KexTypes
    <3>2. ~Established("client")' /\ ~Down("client")'
      BY <1>0, <2>2 DEF Create, Go, SetFlag, Established, Down, KexTypes
    <3> QED
      BY <1>0, <2>1, <3>1, <3>2, QuietSteps, KeptStep
  <2>3. ASSUME Refuse("client", "key_expired"), UNCHANGED kex
        PROVE  PromiseStep
    BY <2>1, <2>3, RefusedStep
  <2> QED
    BY <1>1, <2>2, <2>3 DEF ClientConnectRequest
<1>2. CASE ClientExchangeRequest
  <2>1. /\ at["client"] = "receive" /\ want["client"].flag = "connect_response"
        /\ UNCHANGED <<txseq, kex, agreed, id>> /\ rxseq' = [rxseq EXCEPT !["client"] = @ + 1]
    BY <1>2 DEF ClientExchangeRequest, Receive
  <2>2. ~Established("client") /\ ~Down("client")
    BY <2>1 DEF IInv, ClientTurn, Established, Down
  <2>3. ASSUME NEW body, NEW answer, NEW keys, Create("client", "exchange_request", body, answer),
               SetFlag("client", "exchange_request"), channel' = [channel EXCEPT !["client"] = keys]
        PROVE  PromiseStep
    <3>1. Untouched("server")
      BY <1>0, <2>1, <2>3 DEF Create, Go, SetFlag, Untouched, KexTypes
    <3>2. ~Established("client")' /\ ~Down("client")'
      BY <1>0, <2>3 DEF Create, Go, SetFlag, Established, Down, KexTypes
    <3> QED
      BY <1>0, <2>1, <2>2, <3>1, <3>2, QuietSteps, KeptStep
  <2>4. ASSUME NEW code, Refuse("client", code), UNCHANGED channel
        PROVE  PromiseStep
    <3>1. rxseq'["server"] = rxseq["server"]
      BY <1>0, <2>1 DEF KexTypes
    <3> QED
      BY <2>1, <2>4, <3>1, RefusedStep
  <2> QED
    BY <1>2, <2>3, <2>4 DEF ClientExchangeRequest
<1>3. CASE ClientEstablishVerify
  <2>1. /\ Untouched("server") /\ ~Established("client") /\ ~Down("client")
        /\ Established("client")' /\ ~Down("client")'
        /\ agreed # <<>> /\ UNCHANGED <<channel, agreed>> /\ channel["client"] = ClientChannel(agreed)
    BY <1>3, EstablishVerifyKeeps
  <2>2. Keeps("server")
    BY <2>1, UntouchedKeeps
  <2>3. Status("client") = "trying" /\ Status("client")' = "up" /\ SessionKeys("client")' = agreed
    BY <2>1 DEF Status, SessionKeys, ClientChannel, Derived, Established
  <2>4. [q \in Roles |-> SessionKeys(q)]' = [[q \in Roles |-> SessionKeys(q)] EXCEPT !["client"] = agreed]
    BY <2>2, <2>3 DEF Keeps
  <2>5. Promise!ClientUp
    BY <2>1, <2>2, <2>3, <2>4 DEF Promise!ClientUp, Keeps
  <2> QED
    BY <2>5 DEF PromiseStep, Promise!Next
<1>4. CASE HostStep("client") /\ UNCHANGED id
  BY <1>4, HostPromise
<1> QED
  BY <1>1, <1>2, <1>3, <1>4 DEF ClientStep

LEMMA ServerPromise ==
  ASSUME IInv, ServerStep
  PROVE  PromiseStep
<1> USE TwoRoles
<1>0. KexTypes
  BY DEF IInv, WireInv
<1>1. CASE ServerConnectResponse
  <2>1. /\ at["server"] = "receive" /\ UNCHANGED <<txseq, channel, agreed, id>>
        /\ rxseq' = [rxseq EXCEPT !["server"] = @ + 1]
    BY <1>1 DEF ServerConnectResponse, Receive
  <2>2. ~Established("server") /\ ~Down("server")
    BY <2>1 DEF IInv, ServerTurn, Established, Down
  <2>3. ASSUME NEW body, NEW answer, NEW pk, Create("server", "connect_response", body, answer),
               SetFlag("server", "connect_response"),
               kex' = [kex EXCEPT !["server"].sch = Cookie("server"), !["server"].prikey = pk]
        PROVE  PromiseStep
    <3>1. Untouched("client")
      BY <1>0, <2>1, <2>3 DEF Create, Go, SetFlag, Untouched, KexTypes
    <3>2. ~Established("server")' /\ ~Down("server")'
      BY <1>0, <2>3 DEF Create, Go, SetFlag, Established, Down, KexTypes
    <3> QED
      BY <1>0, <2>1, <2>2, <3>1, <3>2, QuietSteps, KeptStep
  <2>4. ASSUME NEW code, Refuse("server", code), UNCHANGED kex
        PROVE  PromiseStep
    <3>1. rxseq'["client"] = rxseq["client"]
      BY <1>0, <2>1 DEF KexTypes
    <3> QED
      BY <2>1, <2>4, <3>1, RefusedStep
  <2> QED
    BY <1>1, <2>3, <2>4 DEF ServerConnectResponse
<1>2. CASE ServerExchangeResponse
  <2> DEFINE cpt == Head(wire["server"]).body.cpt
  <2>1. /\ at["server"] = "receive" /\ UNCHANGED <<txseq, kex, id>>
        /\ rxseq' = [rxseq EXCEPT !["server"] = @ + 1]
    BY <1>2 DEF ServerExchangeResponse, Receive
  <2>2. CASE SecretVerdict(cpt) # "none"
    <3>1. Refuse("server", SecretVerdict(cpt)) /\ UNCHANGED <<channel, agreed>>
      BY <1>2, <2>2 DEF ServerExchangeResponse
    <3>2. rxseq'["client"] = rxseq["client"]
      BY <1>0, <2>1 DEF KexTypes
    <3>3. ASSUME NEW code, Refuse("server", code) PROVE PromiseStep
      BY <2>1, <3>1, <3>2, <3>3, RefusedStep
    <3> QED
      BY <3>1, <3>3 DEF Refuse
  <2>3. CASE SecretVerdict(cpt) = "none"
    <3>1. /\ ~Established("server") /\ ~Down("server") /\ Established("server")' /\ ~Down("server")'
          /\ agreed' \in Secrets \X Cookies /\ channel'["server"] = ServerChannel(agreed')
          /\ Untouched("client")
      BY <1>2, <2>3, ExchangeResponseKeeps
    <3>2. Keeps("client")
      BY <3>1, UntouchedKeeps
    <3>3. Status("server") = "trying" /\ Status("server")' = "up" /\ SessionKeys("server")' = agreed'
      BY <3>1 DEF Status, SessionKeys, ServerChannel, Derived, Established
    <3>4. [q \in Roles |-> SessionKeys(q)]' = [[q \in Roles |-> SessionKeys(q)] EXCEPT !["server"] = agreed']
      BY <3>2, <3>3 DEF Keeps
    <3>5. Promise!ServerUp
      BY <3>1, <3>2, <3>3, <3>4 DEF Promise!ServerUp, Keeps, Cookies, Kids, Vers, Cfgs
    <3> QED
      BY <3>5 DEF PromiseStep, Promise!Next
  <2> QED
    BY <2>2, <2>3
<1>3. CASE HostStep("server") /\ UNCHANGED id
  BY <1>3, HostPromise
<1> QED
  BY <1>1, <1>2, <1>3 DEF ServerStep

\* HandshakeImplemented: the server's success at the exchange response brings it
\* up, the client's at the establish verify brings the client up, giving up and
\* closing bring a host down, and every other step changes nothing of this.
THEOREM ImplementsHandshake == Spec => HandshakeImplemented
<1>1. Init => Promise!Init
  BY TwoRoles DEF Init, WireInit, Promise!Init, Status, SessionKeys, Established, Down
<1>2. IInv /\ [Next]_vars => PromiseStep
  <2> SUFFICES ASSUME IInv, [Next]_vars PROVE PromiseStep
    OBVIOUS
  <2>1. CASE Network /\ UNCHANGED id
    BY <2>1, NetworkStep, UntouchedKeeps, KeptStep, TwoRoles
  <2>2. CASE UNCHANGED vars
    <3>1. Keeps("client") /\ Keeps("server") /\ agreed' = agreed
      BY <2>2 DEF vars, wireVars, posVars, keyVars, Keeps, Status, SessionKeys, Established, Down
    <3> QED
      BY <3>1, KeptStep
  <2> QED
    BY <2>1, <2>2, ClientPromise, ServerPromise DEF Next
<1> QED
  BY <1>1, <1>2, Spec_IInv, PTL DEF Spec, HandshakeImplemented, Promise!Spec, PromiseStep
=============================================================================
