----------------------------- MODULE Handshake ------------------------------
(***************************************************************************)
(* What a key exchange promises, without its packets.  The server is up    *)
(* first and fixes the keys of the session; the client comes up last, only *)
(* when the server has been up, and with the same keys.  Either host may   *)
(* go down at any time and then stays down; a host that is down holds no   *)
(* keys.  The simplex and the duplex exchange implement this.              *)
(***************************************************************************)
CONSTANTS
  Keys,     \* what two hosts can agree on
  NoKeys    \* a host without keys

VARIABLES
  client,   \* "trying", "up" or "down"
  server,
  held,     \* the keys each host holds
  agreed    \* the keys the server came up with, kept when it goes down

vars == <<client, server, held, agreed>>

Init ==
  /\ client = "trying" /\ server = "trying"
  /\ held = [client |-> NoKeys, server |-> NoKeys]
  /\ agreed = NoKeys

ServerUp ==
  /\ server = "trying"
  /\ server' = "up"
  /\ agreed' \in Keys
  /\ held' = [held EXCEPT !.server = agreed']
  /\ UNCHANGED client

ClientUp ==
  /\ client = "trying"
  /\ agreed # NoKeys
  /\ client' = "up"
  /\ held' = [held EXCEPT !.client = agreed]
  /\ UNCHANGED <<server, agreed>>

ClientDown ==
  /\ client # "down"
  /\ client' = "down"
  /\ held' = [held EXCEPT !.client = NoKeys]
  /\ UNCHANGED <<server, agreed>>

ServerDown ==
  /\ server # "down"
  /\ server' = "down"
  /\ held' = [held EXCEPT !.server = NoKeys]
  /\ UNCHANGED <<client, agreed>>

Next == ServerUp \/ ClientUp \/ ClientDown \/ ServerDown

Spec == Init /\ [][Next]_vars
=============================================================================
