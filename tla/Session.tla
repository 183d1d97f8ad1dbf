------------------------------ MODULE Session -------------------------------
(***************************************************************************)
(* The life of one session of the client library: the eight functions of   *)
(* qsmpclient.c that connect or listen, the threads they start, the memory *)
(* those threads share without a lock, and the keep-alive of a listener.   *)
(*                                                                         *)
(* A function allocates a receiver state, a connection state and, when it  *)
(* listens, a keep-alive state, performs the key exchange, starts the      *)
(* receive thread (and the keep-alive thread), calls the send function of  *)
(* the application on its own thread, and returns.  The receive thread     *)
(* frees everything when its loop ends.  A freed object that is touched    *)
(* still holds what it held; the touch is recorded in misuse.              *)
(***************************************************************************)
EXTENDS Naturals, Sequences

CONSTANTS
  MaxRounds,  \* bound on the requests of the keep-alive thread
  MaxAnswers  \* bound on the answers of the peer

ASSUME SessionAssumption == MaxRounds \in Nat \ {0} /\ MaxAnswers \in Nat

VARIABLES
  entry,                  \* the function that was called
  mem,                    \* the objects: unused, held or freed
  pointer,                \* whether the receiver state points to the connection state
  main, receive, keepalive, \* where each thread is
  sock,                   \* the socket of the session
  fault,                  \* an error the socket has not reported yet
  kpa,                    \* the content of the keep-alive state
  rounds,                 \* how many requests have been sent
  asked, inbox,           \* packets on their way to the peer and to this host
  peer, answers,          \* whether the peer is there, and how often it has answered
  lied,                   \* history: the peer has given a wrong answer
  reason,                 \* the error the session was closed with
  misuse                  \* history: who touched which object after it was freed

memVars == <<mem, pointer, misuse>>
netVars == <<sock, fault, asked, inbox, reason>>
kaVars == <<kpa, rounds>>
peerVars == <<peer, answers, lied>>
vars == <<entry, memVars, main, receive, keepalive, netVars, kaVars, peerVars>>

-----------------------------------------------------------------------------
(* The functions differ in what they do when the send function has         *)
(* returned: some close the connection, always or only if the exchange was *)
(* made, and some free what the receive thread frees too.                  *)

Shape(listens, closes, frees) == [listens |-> listens, closes |-> closes, frees |-> frees]

\* The mutants of the next two are slips in the function of the same name.
DuplexConnectIPv4Closing == Shape(FALSE, "always", FALSE)
DuplexConnectIPv6Leaving == Shape(FALSE, "never", FALSE)

DuplexConnectIPv4  == Shape(FALSE, "never", FALSE)
DuplexConnectIPv6  == Shape(FALSE, "always", FALSE)
SimplexConnectIPv4 == Shape(FALSE, "always", FALSE)
SimplexConnectIPv6 == Shape(FALSE, "always", FALSE)
DuplexListenIPv4   == Shape(TRUE, "never", FALSE)
DuplexListenIPv6   == Shape(TRUE, "never", FALSE)
SimplexListenIPv4  == Shape(TRUE, "if_made", TRUE)
SimplexListenIPv6  == Shape(TRUE, "if_made", TRUE)

Functions ==
  [duplex_connect_ipv4 |-> DuplexConnectIPv4, duplex_connect_ipv6 |-> DuplexConnectIPv6,
   simplex_connect_ipv4 |-> SimplexConnectIPv4, simplex_connect_ipv6 |-> SimplexConnectIPv6,
   duplex_listen_ipv4 |-> DuplexListenIPv4, duplex_listen_ipv6 |-> DuplexListenIPv6,
   simplex_listen_ipv4 |-> SimplexListenIPv4, simplex_listen_ipv6 |-> SimplexListenIPv6]

Listens == Functions[entry].listens
Closes == Functions[entry].closes
FreesToo == Functions[entry].frees

Objects == {"receiver", "connection", "keepalive"}
Needed == IF Listens THEN Objects ELSE Objects \ {"keepalive"}

Init ==
  /\ entry \in DOMAIN Functions
  /\ mem = [o \in Objects |-> "unused"]
  /\ pointer = "null"
  /\ main = "start" /\ receive = "none" /\ keepalive = "none"
  /\ sock = "none" /\ fault = FALSE
  /\ kpa = [seqctr |-> 0, etime |-> 0, recd |-> FALSE]
  /\ rounds = 0
  /\ asked = <<>> /\ inbox = <<>>
  /\ peer = "there" /\ answers = 0 /\ lied = FALSE
  /\ reason = "none"
  /\ misuse = {}

Touches(who, objects) ==
  misuse' = misuse \cup {<<who, o>> : o \in {o \in objects : mem[o] = "freed"}}

Frees(who, o) ==
  /\ Touches(who, {o})
  /\ mem' = [mem EXCEPT ![o] = "freed"]

\* (The mutant takes a closed socket for a connected one.)
\* qsmp_connection_close: a socket that does not look connected is left alone.
ConnectedUnlessFault == ~fault
Connected == sock = "open" /\ ~fault

CloseNotified(err) ==
  IF Connected
  THEN /\ sock' = "closed"
       /\ asked' = Append(asked, [kind |-> "terminate"])
       /\ inbox' = <<>>
       /\ reason' = err
       /\ UNCHANGED fault
  ELSE /\ fault' = FALSE
       /\ UNCHANGED <<sock, asked, inbox, reason>>

-----------------------------------------------------------------------------
(* Starting *)

Returning == IF FreesToo THEN "freeing_connection" ELSE "done"

\* The receiver state cannot be allocated.
NoReceiver ==
  /\ main = "start"
  /\ main' = "done"
  /\ UNCHANGED <<entry, memVars, receive, keepalive, netVars, kaVars, peerVars>>

\* Something it points to cannot: a listener frees the receiver state, and a
\* simplex listener looks at it again before it returns.
NoConnection ==
  /\ main = "start"
  /\ \E held \in SUBSET (Needed \ {"receiver"}) :
       /\ held # Needed \ {"receiver"}
       /\ ~Listens => held = {}
       /\ mem' = [o \in Objects |-> IF o = "receiver" THEN (IF Listens THEN "freed" ELSE "held")
                                    ELSE IF o \in held THEN "held" ELSE "unused"]
       /\ pointer' = IF "connection" \in held THEN "set" ELSE "null"
  /\ main' = Returning
  /\ UNCHANGED <<entry, misuse, receive, keepalive, netVars, kaVars, peerVars>>

Allocated ==
  /\ mem' = [o \in Objects |-> IF o \in Needed THEN "held" ELSE "unused"]
  /\ pointer' = "set"
  /\ UNCHANGED misuse

NotConnected ==
  /\ main = "start"
  /\ Allocated
  /\ main' = Returning
  /\ UNCHANGED <<entry, receive, keepalive, netVars, kaVars, peerVars>>

\* The exchange fails, and has closed the socket; or a listener cannot allocate
\* its state, and nothing closes the socket.
NotExchanged ==
  /\ main = "start"
  /\ Allocated
  /\ sock' \in IF Listens THEN {"closed", "open"} ELSE {"closed"}
  /\ main' = IF Closes = "always" THEN "closing" ELSE Returning
  /\ UNCHANGED <<entry, receive, keepalive, fault, asked, inbox, reason, kaVars, peerVars>>

Established ==
  /\ main = "start"
  /\ Allocated
  /\ sock' = "open"
  /\ receive' = "peeking"
  /\ keepalive' = IF Listens THEN "asking" ELSE "none"
  /\ main' = "sending"
  /\ UNCHANGED <<entry, fault, asked, inbox, reason, kaVars, peerVars>>

-----------------------------------------------------------------------------
(* The calling thread *)

\* The send function seals and sends with the connection state it was given.
AppSends ==
  /\ main = "sending"
  /\ Touches("application", {"connection"})
  /\ UNCHANGED <<entry, mem, pointer, main, receive, keepalive, netVars, kaVars, peerVars>>

AppReturns ==
  /\ main = "sending"
  /\ main' = IF Closes = "never" THEN "done" ELSE "closing"
  /\ UNCHANGED <<entry, memVars, receive, keepalive, netVars, kaVars, peerVars>>

\* It has seen enough and closes the connection itself.
AppQuits ==
  /\ main = "sending"
  /\ Touches("application", {"connection"})
  /\ CloseNotified("none")
  /\ main' = IF Closes = "never" THEN "done" ELSE "closing"
  /\ UNCHANGED <<entry, mem, pointer, receive, keepalive, kaVars, peerVars>>

MainCloses ==
  /\ main = "closing"
  /\ Touches("return", {"receiver", "connection"})
  /\ CloseNotified("none")
  /\ main' = Returning
  /\ UNCHANGED <<entry, mem, pointer, receive, keepalive, kaVars, peerVars>>

MainFreesConnection ==
  /\ main = "freeing_connection"
  /\ IF pointer = "set" /\ mem["connection"] # "unused"
     THEN /\ mem' = [mem EXCEPT !["connection"] = "freed"]
          /\ Touches("return", {"receiver", "connection"})
     ELSE Touches("return", {"receiver"}) /\ UNCHANGED mem
  /\ pointer' = "null"
  /\ main' = "freeing_receiver"
  /\ UNCHANGED <<entry, receive, keepalive, netVars, kaVars, peerVars>>

MainFreesReceiver ==
  /\ main = "freeing_receiver"
  /\ Frees("return", "receiver")
  /\ main' = "done"
  /\ UNCHANGED <<entry, pointer, receive, keepalive, netVars, kaVars, peerVars>>

-----------------------------------------------------------------------------
(* The receive thread *)

Packets(kind) == inbox # <<>> /\ Head(inbox).kind = kind
Loop == {"receiver", "connection"}

ReceiveTerminate ==
  /\ receive = "peeking" /\ sock = "open"
  /\ Packets("terminate")
  /\ Touches("receive", Loop)
  /\ sock' = "closed" /\ inbox' = <<>> /\ fault' = FALSE
  /\ receive' = "disposing"
  /\ UNCHANGED <<entry, mem, pointer, main, keepalive, asked, reason, kaVars, peerVars>>

\* A response counts, and is then noted; a wrong one closes the connection.
ReceiveResponse ==
  /\ receive = "peeking" /\ sock = "open"
  /\ Packets("response")
  /\ Touches("receive", Loop \cup {"keepalive"})
  /\ IF Head(inbox).seq = kpa.seqctr /\ Head(inbox).time = kpa.etime
     THEN /\ kpa' = [kpa EXCEPT !.seqctr = @ + 1]
          /\ inbox' = Tail(inbox)
          /\ receive' = "noting"
          /\ UNCHANGED <<sock, fault, asked, reason>>
     ELSE /\ CloseNotified("bad_keep_alive")
          /\ receive' = "disposing"
          /\ UNCHANGED kpa
  /\ UNCHANGED <<entry, mem, pointer, main, keepalive, rounds, peerVars>>

NoteResponse ==
  /\ receive = "noting"
  /\ Touches("receive", {"receiver", "keepalive"})
  /\ kpa' = [kpa EXCEPT !.recd = TRUE]
  /\ receive' = "peeking"
  /\ UNCHANGED <<entry, mem, pointer, main, keepalive, netVars, rounds, peerVars>>

\* The peer has closed or reset the connection, or the socket is closed when it
\* is read: nothing is received.  Reading may use up the pending error.
ReceiveNothing ==
  /\ receive = "peeking"
  /\ inbox = <<>> \/ sock = "closed"
  /\ peer = "gone"
  /\ Touches("receive", Loop)
  /\ fault' \in {fault, FALSE}
  /\ receive' = "checking"
  /\ UNCHANGED <<entry, mem, pointer, main, keepalive, sock, asked, inbox, reason, kaVars, peerVars>>

\* Where closing a socket wakes the threads that read from it.
ReceiveAborted ==
  /\ receive = "peeking"
  /\ sock = "closed" /\ peer = "there"
  /\ Touches("receive", Loop)
  /\ receive' = "checking"
  /\ UNCHANGED <<entry, mem, pointer, main, keepalive, netVars, kaVars, peerVars>>

CheckConnected ==
  /\ receive = "checking"
  /\ Touches("receive", Loop)
  /\ receive' = IF Connected THEN "peeking" ELSE "disposing"
  /\ fault' = FALSE
  /\ UNCHANGED <<entry, mem, pointer, main, keepalive, sock, asked, inbox, reason, kaVars, peerVars>>

Dispose ==
  /\ receive = "disposing"
  /\ Touches("receive", Loop)
  /\ receive' = "freeing_connection"
  /\ UNCHANGED <<entry, mem, pointer, main, keepalive, netVars, kaVars, peerVars>>

ReceiveFreesConnection ==
  /\ receive = "freeing_connection"
  /\ IF pointer = "set"
     THEN /\ mem' = [mem EXCEPT !["connection"] = "freed"]
          /\ Touches("receive", Loop)
     ELSE Touches("receive", {"receiver"}) /\ UNCHANGED mem
  /\ receive' = "forgetting"
  /\ UNCHANGED <<entry, pointer, main, keepalive, netVars, kaVars, peerVars>>

AfterForgettingLeak == "freeing_receiver"
AfterForgettingAll == "freeing_keepalive"
AfterForgetting == IF Listens THEN "freeing_keepalive" ELSE "freeing_receiver"

ForgetConnection ==
  /\ receive = "forgetting"
  /\ Touches("receive", {"receiver"})
  /\ pointer' = "null"
  /\ receive' = AfterForgetting
  /\ UNCHANGED <<entry, mem, main, keepalive, netVars, kaVars, peerVars>>

ReceiveFreesKeepAlive ==
  /\ receive = "freeing_keepalive"
  /\ Frees("receive", "keepalive")
  /\ receive' = "freeing_receiver"
  /\ UNCHANGED <<entry, pointer, main, keepalive, netVars, kaVars, peerVars>>

ReceiveFreesReceiver ==
  /\ receive = "freeing_receiver"
  /\ Frees("receive", "receiver")
  /\ receive' = "ended"
  /\ UNCHANGED <<entry, pointer, main, keepalive, netVars, kaVars, peerVars>>

-----------------------------------------------------------------------------
(* The keep-alive thread.  The mutex it takes is a new one every time; the  *)
(* socket it uses is a copy made before the exchange.                      *)

\* The flag is cleared; a connected socket is given a new time, and one that is
\* not is sent nothing.
Ask ==
  /\ keepalive = "asking"
  /\ Connected => rounds < MaxRounds
  /\ Touches("keepalive", {"keepalive"})
  /\ kpa' = [kpa EXCEPT !.recd = FALSE, !.etime = IF Connected THEN rounds + 1 ELSE @]
  /\ rounds' = IF Connected THEN rounds + 1 ELSE rounds
  /\ keepalive' = IF Connected THEN "requesting" ELSE "failed"
  /\ fault' = FALSE
  /\ UNCHANGED <<entry, mem, pointer, main, receive, sock, asked, inbox, reason, peerVars>>

RequestUncounted == [kind |-> "request", seq |-> 0, time |-> kpa.etime]
Request == [kind |-> "request", seq |-> kpa.seqctr, time |-> kpa.etime]

SendRequest ==
  /\ keepalive = "requesting"
  /\ Touches("keepalive", {"keepalive"})
  /\ sock = "open"
  /\ asked' = Append(asked, Request)
  /\ keepalive' = "testing"
  /\ UNCHANGED <<entry, mem, pointer, main, receive, sock, fault, inbox, reason, kaVars, peerVars>>

\* The socket has been closed since, or the peer is gone.
RequestNotSent ==
  /\ keepalive = "requesting"
  /\ Touches("keepalive", {"keepalive"})
  /\ sock = "closed" \/ peer = "gone"
  /\ fault' \in {fault, FALSE}
  /\ keepalive' = "failed"
  /\ UNCHANGED <<entry, mem, pointer, main, receive, sock, asked, inbox, reason, kaVars, peerVars>>

\* The answer is looked for before the thread sleeps, not after; a request that
\* was not sent ends the thread whatever has been answered.
TestAnswered ==
  /\ keepalive \in {"testing", "failed"}
  /\ Touches("keepalive", {"keepalive"})
  /\ keepalive' = IF keepalive = "testing" /\ kpa.recd THEN "sleeping" ELSE "expired"
  /\ UNCHANGED <<entry, mem, pointer, main, receive, netVars, kaVars, peerVars>>

Sleep ==
  /\ keepalive \in {"sleeping", "expired"}
  /\ keepalive' = IF keepalive = "sleeping" THEN "asking" ELSE "ended"
  /\ UNCHANGED <<entry, memVars, main, receive, netVars, kaVars, peerVars>>

-----------------------------------------------------------------------------
(* The peer and the network *)

Deliver(p) == inbox' = IF sock = "open" THEN Append(inbox, p) ELSE inbox

Response(r) == [kind |-> "response", seq |-> r.seq, time |-> r.time]

\* The client of this library sends the request back as it is.
PeerAnswers ==
  /\ peer = "there" /\ answers < MaxAnswers
  /\ asked # <<>> /\ Head(asked).kind = "request"
  /\ Deliver(Response(Head(asked)))
  /\ asked' = Tail(asked)
  /\ answers' = answers + 1
  /\ UNCHANGED <<entry, memVars, main, receive, keepalive, sock, fault, reason, kaVars, peer, lied>>

\* Another one may not, or answers unasked.
PeerLies ==
  /\ peer = "there" /\ answers < MaxAnswers
  /\ keepalive # "none"
  /\ \E seq \in 0..MaxRounds : Deliver([kind |-> "response", seq |-> seq, time |-> 0])
  /\ lied' = TRUE
  /\ answers' = answers + 1
  /\ UNCHANGED <<entry, memVars, main, receive, keepalive, sock, fault, asked, reason, kaVars, peer>>

PeerTerminates ==
  /\ peer = "there" /\ main # "start"
  /\ Deliver([kind |-> "terminate"])
  /\ peer' = "gone"
  /\ UNCHANGED <<entry, memVars, main, receive, keepalive, sock, fault, asked, reason, kaVars, answers, lied>>

\* It crashes, or the connection is reset: no packet tells.
PeerVanishes ==
  /\ peer = "there" /\ main # "start"
  /\ peer' = "gone"
  /\ fault' \in (IF sock = "open" THEN BOOLEAN ELSE {fault})
  /\ UNCHANGED <<entry, memVars, main, receive, keepalive, sock, asked, inbox, reason, kaVars, answers, lied>>

\* It is told that the session is over.
PeerToldToClose ==
  /\ peer = "there" /\ sock = "closed"
  /\ peer' = "gone"
  /\ UNCHANGED <<entry, memVars, main, receive, keepalive, netVars, kaVars, answers, lied>>

-----------------------------------------------------------------------------
Start == NoReceiver \/ NoConnection \/ NotConnected \/ NotExchanged \/ Established
Application == AppSends \/ AppReturns \/ AppQuits
Return == MainCloses \/ MainFreesConnection \/ MainFreesReceiver
ReceiveThread ==
  \/ ReceiveTerminate \/ ReceiveResponse \/ NoteResponse \/ ReceiveNothing \/ CheckConnected
  \/ Dispose \/ ReceiveFreesConnection \/ ForgetConnection
  \/ ReceiveFreesKeepAlive \/ ReceiveFreesReceiver
KeepAliveThread == Ask \/ SendRequest \/ RequestNotSent \/ TestAnswered \/ Sleep
PeerSteps == PeerAnswers \/ PeerLies \/ PeerTerminates \/ PeerVanishes

Next ==
  Start \/ Application \/ Return \/ ReceiveThread \/ ReceiveAborted
  \/ KeepAliveThread \/ PeerSteps \/ PeerToldToClose

\* The threads of the library are scheduled, and a peer that is told to close
\* does.  The application may send for ever.
Fairness ==
  WF_vars(Return) /\ WF_vars(ReceiveThread) /\ WF_vars(KeepAliveThread) /\ WF_vars(PeerToldToClose)

Spec == Init /\ [][Next]_vars /\ Fairness

-----------------------------------------------------------------------------
(* Properties *)

Callers == {"application", "return", "receive", "keepalive"}

\* The variables have their types.
TypeOK ==
  /\ entry \in DOMAIN Functions
  /\ \A o \in Objects \ Needed : mem[o] = "unused"
  /\ mem \in [Objects -> {"unused", "held", "freed"}] /\ pointer \in {"null", "set"}
  /\ main \in {"start", "sending", "closing", "freeing_connection", "freeing_receiver", "done"}
  /\ receive \in {"none", "peeking", "noting", "checking", "disposing", "freeing_connection",
                  "forgetting", "freeing_keepalive", "freeing_receiver", "ended"}
  /\ keepalive \in {"none", "asking", "requesting", "testing", "failed", "sleeping", "expired", "ended"}
  /\ sock \in {"none", "open", "closed"} /\ fault \in BOOLEAN
  /\ kpa \in [seqctr : Nat, etime : 0..MaxRounds, recd : BOOLEAN]
  /\ rounds \in 0..MaxRounds /\ answers \in 0..MaxAnswers
  /\ peer \in {"there", "gone"} /\ lied \in BOOLEAN
  /\ reason \in {"none", "bad_keep_alive"}
  /\ misuse \subseteq Callers \X Objects

SimplexListeners == {"simplex_listen_ipv4", "simplex_listen_ipv6"}
Closing == {"duplex_connect_ipv6", "simplex_connect_ipv4", "simplex_connect_ipv6"} \cup SimplexListeners

\* Which code can touch freed memory: the code after the send function only in
\* the functions that close or free there, and the receive thread only in the
\* simplex listeners, which free what it is still using.  In the others the one
\* danger is what the application and the keep-alive thread still hold.
WhoMisuses ==
  \A m \in misuse :
    /\ m[1] = "return" => entry \in Closing
    /\ m[1] = "receive" => entry \in SimplexListeners

\* The receive thread gives back all the memory of the session, whichever
\* function started it and however it ended.
GivenBack == receive = "ended" => \A o \in Objects : mem[o] # "held"

\* The receive thread never closes a peer that sends every request back as it came
\* for a bad keep-alive, whatever the listener's two threads do at once.  This is
\* not about the other close: the keep-alive thread may give up such a peer, as
\* expired, because it looks for the answer as soon as it has sent the request.
HonestPeerKept == reason = "bad_keep_alive" => lied

Over == receive \in {"none", "ended"} /\ keepalive \in {"none", "ended"}

\* Once the socket is closed, by the application, by a terminate packet or for a
\* bad keep-alive, the threads end.
ClosedSessionEnds == sock = "closed" ~> Over

\* When one of the functions that close returns while the peer is still there,
\* its threads end too.  (If the peer is gone the close may find a socket that
\* does not look connected and leave it, and the receive thread, as they are.)
ReturnEndsSession == main = "done" /\ entry \in Closing /\ peer = "there" ~> Over
=============================================================================
