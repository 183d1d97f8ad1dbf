--------------------------- MODULE SecureStream ----------------------------
(***************************************************************************)
(* What an established session promises to the two programs that use it:   *)
(* the packets of a host are numbered in the order they were sealed, and   *)
(* the other host accepts them in that order, each at most once, accepts   *)
(* nothing else, and accepts nothing once it has closed.                   *)
(* Channel is shown to implement it.                                       *)
(***************************************************************************)
EXTENDS Naturals

VARIABLES
  due,    \* the packets of each host that were sent and have not been lost
  taken,  \* the last packet of the other that each host has accepted
  open    \* the hosts whose connection is open

vars == <<due, taken, open>>

Hosts == {"client", "listener"}
Peer(h) == IF h = "client" THEN "listener" ELSE "client"

Init ==
  /\ due = [h \in Hosts |-> {}]
  /\ taken = [h \in Hosts |-> 0]
  /\ open = Hosts

Send(h) ==
  /\ \E n \in due'[h] \ due[h] : n > 0 /\ due' = [due EXCEPT ![h] = @ \cup {n}]
  /\ UNCHANGED <<taken, open>>

\* Neither host is told.
Lose(h) ==
  /\ \E n \in due[h] : due' = [due EXCEPT ![h] = @ \ {n}]
  /\ UNCHANGED <<taken, open>>

\* Accepting a packet and closing on what it says may be one step.
Accept(h) ==
  /\ h \in open
  /\ \E n \in due[Peer(h)] :
       /\ n > taken[h]
       /\ taken' = [taken EXCEPT ![h] = n]
  /\ open' \in {open, open \ {h}}
  /\ UNCHANGED due

Close(h) ==
  /\ h \in open
  /\ open' = open \ {h}
  /\ UNCHANGED <<due, taken>>

Next == \E h \in Hosts : Send(h) \/ Lose(h) \/ Accept(h) \/ Close(h)

Spec == Init /\ [][Next]_vars
=============================================================================
