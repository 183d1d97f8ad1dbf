--------------------------- MODULE SessionProofs ----------------------------
(***************************************************************************)
(* The memory of a session, for every bound on the requests and answers.   *)
(* The invariant follows the receive thread: what it has not come to free  *)
(* is held, unless a simplex listener has freed it from under it, and what *)
(* it is past is freed.                                                    *)
(***************************************************************************)
EXTENDS Session, SequenceTheorems, TLAPS

\* While the receive loop runs, and until the receive thread has freed it.
Looping == {"peeking", "noting", "checking", "disposing", "freeing_connection"}
Forgetting == {"forgetting", "freeing_keepalive", "freeing_receiver"}
Freeing == {"freeing_connection", "freeing_receiver"}

\* Where the calling thread can be in which function.
MainInv ==
  /\ main = "start" => receive = "none"
  /\ main \in {"closing"} \cup Freeing => entry \in Closing
  /\ main \in Freeing => entry \in SimplexListeners

\* Only a simplex listener frees what its receive thread has not come to.
LoopInv ==
  entry \notin SimplexListeners =>
    /\ receive \in Looping => mem["connection"] = "held"
    /\ receive \in Looping \cup Forgetting => mem["receiver"] = "held"

\* The keep-alive state is freed by the receive thread alone.
KeepAliveInv ==
  /\ receive \in Looping \cup {"forgetting", "freeing_keepalive"} => mem["keepalive"] # "freed"
  /\ receive = "freeing_keepalive" => Listens

\* What the receive thread is past is not held any more.
PastInv ==
  /\ receive # "none" /\ pointer = "null" => mem["connection"] # "held"
  /\ receive \in Forgetting \cup {"ended"} => mem["connection"] # "held"
  /\ receive \in {"freeing_receiver", "ended"} => mem["keepalive"] # "held"
  /\ receive = "ended" => mem["receiver"] # "held"

IInv == TypeOK /\ MainInv /\ LoopInv /\ KeepAliveInv /\ PastInv /\ WhoMisuses

\* What the eight functions do, in terms of the sets the properties name.
ShapeOf ==
  /\ FreesToo <=> entry \in SimplexListeners
  /\ Closes \in {"always", "if_made"} => entry \in Closing
  /\ Closes \in {"always", "if_made", "never"}
  /\ entry \in SimplexListeners => Listens
  /\ Listens \in BOOLEAN

\* Read off the eight functions one by one.
LEMMA ShapeFacts ==
  ASSUME entry \in DOMAIN Functions
  PROVE  ShapeOf
<1>1. CASE entry = "duplex_connect_ipv4"
  <2>1. Functions[entry] = DuplexConnectIPv4
    BY <1>1 DEF Functions
  <2> QED
    BY <1>1, <2>1 DEF ShapeOf, FreesToo, Closes, Listens, SimplexListeners, Closing, Shape, DuplexConnectIPv4
<1>2. CASE entry = "duplex_connect_ipv6"
  <2>1. Functions[entry] = DuplexConnectIPv6
    BY <1>2 DEF Functions
  <2> QED
    BY <1>2, <2>1 DEF ShapeOf, FreesToo, Closes, Listens, SimplexListeners, Closing, Shape, DuplexConnectIPv6
<1>3. CASE entry = "simplex_connect_ipv4"
  <2>1. Functions[entry] = SimplexConnectIPv4
    BY <1>3 DEF Functions
  <2> QED
    BY <1>3, <2>1 DEF ShapeOf, FreesToo, Closes, Listens, SimplexListeners, Closing, Shape, SimplexConnectIPv4
<1>4. CASE entry = "simplex_connect_ipv6"
  <2>1. Functions[entry] = SimplexConnectIPv6
    BY <1>4 DEF Functions
  <2> QED
    BY <1>4, <2>1 DEF ShapeOf, FreesToo, Closes, Listens, SimplexListeners, Closing, Shape, SimplexConnectIPv6
<1>5. CASE entry = "duplex_listen_ipv4"
  <2>1. Functions[entry] = DuplexListenIPv4
    BY <1>5 DEF Functions
  <2> QED
    BY <1>5, <2>1 DEF ShapeOf, FreesToo, Closes, Listens, SimplexListeners, Closing, Shape, DuplexListenIPv4
<1>6. CASE entry = "duplex_listen_ipv6"
  <2>1. Functions[entry] = DuplexListenIPv6
    BY <1>6 DEF Functions
  <2> QED
    BY <1>6, <2>1 DEF ShapeOf, FreesToo, Closes, Listens, SimplexListeners, Closing, Shape, DuplexListenIPv6
<1>7. CASE entry = "simplex_listen_ipv4"
  <2>1. Functions[entry] = SimplexListenIPv4
    BY <1>7 DEF Functions
  <2>2. FreesToo /\ Listens /\ Listens \in BOOLEAN
    BY <2>1 DEF FreesToo, Listens, Shape, SimplexListenIPv4
  <2>3. Closes = "if_made"
    BY <2>1 DEF Closes, Shape, SimplexListenIPv4
  <2> QED
    BY <1>7, <2>2, <2>3 DEF ShapeOf, SimplexListeners, Closing
<1>8. CASE entry = "simplex_listen_ipv6"
  <2>1. Functions[entry] = SimplexListenIPv6
    BY <1>8 DEF Functions
  <2>2. FreesToo /\ Listens /\ Listens \in BOOLEAN
    BY <2>1 DEF FreesToo, Listens, Shape, SimplexListenIPv6
  <2>3. Closes = "if_made"
    BY <2>1 DEF Closes, Shape, SimplexListenIPv6
  <2> QED
    BY <1>8, <2>2, <2>3 DEF ShapeOf, SimplexListeners, Closing
<1> QED
  BY <1>1, <1>2, <1>3, <1>4, <1>5, <1>6, <1>7, <1>8 DEF Functions

\* Nothing is held, and no thread runs.
LEMMA InitInv == Init => IInv
<1> SUFFICES ASSUME Init PROVE IInv
  OBVIOUS
<1>1. /\ \A o \in Objects \ Needed : mem[o] = "unused"
      /\ mem \in [Objects -> {"unused", "held", "freed"}]
  BY DEF Init
<1>2. kpa \in [seqctr : Nat, etime : 0..MaxRounds, recd : BOOLEAN]
  BY SessionAssumption DEF Init
<1>3. TypeOK
  <2>1. rounds \in 0..MaxRounds /\ answers \in 0..MaxAnswers
    BY SessionAssumption DEF Init
  <2>2. misuse \subseteq Callers \X Objects
    BY DEF Init
  <2>3. entry \in DOMAIN Functions
    BY DEF Init
  <2> QED
    BY <1>1, <1>2, <2>1, <2>2, <2>3 DEF Init, TypeOK
<1> QED
  BY <1>3 DEF Init, IInv, MainInv, LoopInv, KeepAliveInv, PastInv, WhoMisuses,
      Looping, Forgetting, Freeing

\* A touch is no misuse that WhoMisuses forbids if the toucher may be there, or
\* if nothing that it touches has been freed.
LEMMA TouchKeeps ==
  ASSUME IInv, NEW who \in Callers, NEW objects \in SUBSET Objects,
         Touches(who, objects), entry' = entry,
         who = "return" => entry \in Closing,
         who = "receive" => \/ entry \in SimplexListeners
                            \/ \A o \in objects : mem[o] # "freed"
  PROVE  misuse' \subseteq Callers \X Objects /\ WhoMisuses'
<1>1. ASSUME NEW m \in misuse' PROVE m \in misuse \/ \E o \in objects : m = <<who, o>> /\ mem[o] = "freed"
  BY DEF Touches
<1>2. misuse \subseteq Callers \X Objects /\ WhoMisuses
  BY DEF IInv, TypeOK
<1>3. misuse' \subseteq Callers \X Objects
  BY <1>1, <1>2
<1>4. ASSUME NEW m \in misuse'
      PROVE  /\ m[1] = "return" => entry \in Closing
             /\ m[1] = "receive" => entry \in SimplexListeners
  <2>1. CASE m \in misuse
    BY <2>1, <1>2 DEF WhoMisuses
  <2>2. CASE \E o \in objects : m = <<who, o>> /\ mem[o] = "freed"
    BY <2>2
  <2> QED
    BY <1>1, <2>1, <2>2
<1> QED
  BY <1>3, <1>4 DEF WhoMisuses

\* What is needed is never counted as unused, so freeing it keeps the types.
LEMMA FreeKeepsType ==
  ASSUME IInv, NEW o \in Needed, mem' = [mem EXCEPT ![o] = "freed"], entry' = entry
  PROVE  /\ \A x \in Objects \ Needed : mem'[x] = "unused"
         /\ mem' \in [Objects -> {"unused", "held", "freed"}]
         /\ mem'[o] = "freed"
         /\ \A x \in Objects \ {o} : mem'[x] = mem[x]
<1>1. Needed \subseteq Objects
  BY DEF Needed
<1> QED
  BY <1>1 DEF IInv, TypeOK

\* Every function allocates these two.
LEMMA AlwaysNeeded == "receiver" \in Needed /\ "connection" \in Needed
  BY DEF Needed, Objects

\* Closing a connection leaves the socket, its error and the reason well typed.
LEMMA CloseKeepsType ==
  ASSUME IInv, NEW err \in {"none", "bad_keep_alive"}, CloseNotified(err)
  PROVE  sock' \in {"none", "open", "closed"} /\ fault' \in BOOLEAN /\ reason' \in {"none", "bad_keep_alive"}
<1>1. sock \in {"none", "open", "closed"} /\ fault \in BOOLEAN /\ reason \in {"none", "bad_keep_alive"}
  BY DEF IInv, TypeOK
<1>2. CASE Connected
  BY <1>1, <1>2 DEF CloseNotified
<1>3. CASE ~Connected
  BY <1>1, <1>3 DEF CloseNotified
<1> QED
  BY <1>2, <1>3

\* What a session needs depends on the function called only.
LEMMA SameShape ==
  ASSUME entry' = entry
  PROVE  Needed' = Needed /\ Listens' = Listens
  BY DEF Needed, Listens

\* A step that leaves the memory, the caller and the receive thread as they are.
LEMMA Still ==
  ASSUME IInv, TypeOK', WhoMisuses', UNCHANGED <<entry, mem, pointer, main, receive>>
  PROVE  IInv'
  BY SameShape DEF IInv, MainInv, LoopInv, KeepAliveInv, PastInv

\* Every step keeps the invariant: one case for each action.
LEMMA NextInv == IInv /\ [Next]_vars => IInv'
<1> SUFFICES ASSUME IInv, [Next]_vars PROVE IInv'
  OBVIOUS
<1> USE SessionAssumption
<1>1. CASE NoReceiver
  <2>1. entry' = entry /\ Needed' = Needed /\ Listens' = Listens
    BY <1>1, SameShape DEF NoReceiver
  <2>2. misuse' \subseteq Callers \X Objects /\ WhoMisuses'
    BY <1>1, <2>1 DEF NoReceiver, IInv, TypeOK, WhoMisuses, memVars
  <2>3. /\ \A x \in Objects \ Needed : mem'[x] = "unused"
        /\ mem' \in [Objects -> {"unused", "held", "freed"}]
    BY <1>1, <2>1 DEF NoReceiver, IInv, TypeOK, memVars
  <2>4. TypeOK'
    BY <1>1, <2>1, <2>2, <2>3, ShapeFacts DEF NoReceiver, IInv, TypeOK, ShapeOf, Returning, memVars, netVars, kaVars, peerVars
  <2> QED
    BY <1>1, <2>1, <2>2, <2>3, <2>4, ShapeFacts DEF NoReceiver, IInv, TypeOK, MainInv, LoopInv, KeepAliveInv, PastInv, ShapeOf, Returning, Looping, Forgetting, Freeing, Objects, memVars
<1>2. CASE NoConnection
  <2>1. entry' = entry /\ Needed' = Needed /\ Listens' = Listens
    BY <1>2, SameShape DEF NoConnection
  <2>2. misuse' \subseteq Callers \X Objects /\ WhoMisuses'
    BY <1>2, <2>1 DEF NoConnection, IInv, TypeOK, WhoMisuses, memVars
  <2>3. /\ \A x \in Objects \ Needed : mem'[x] = "unused"
        /\ mem' \in [Objects -> {"unused", "held", "freed"}]
    BY <1>2, <2>1 DEF NoConnection, Needed, Objects
  <2>4. TypeOK'
    BY <1>2, <2>1, <2>2, <2>3, ShapeFacts DEF NoConnection, IInv, TypeOK, ShapeOf, Returning, memVars, netVars, kaVars, peerVars
  <2>5. receive' = "none" /\ main' \in {"done", "closing", "freeing_connection"}
    BY <1>2 DEF NoConnection, IInv, MainInv, Returning
  <2>6. (main' = "closing" => entry \in Closing) /\ (main' = "freeing_connection" => entry \in SimplexListeners)
    BY <1>2, ShapeFacts DEF NoConnection, IInv, TypeOK, Returning, ShapeOf
  <2>7. MainInv'
    BY <2>1, <2>5, <2>6 DEF MainInv, Freeing, Closing
  <2> QED
    BY <2>1, <2>2, <2>4, <2>5, <2>7 DEF IInv, LoopInv, KeepAliveInv, PastInv, Looping, Forgetting
<1>3. CASE NotConnected
  <2>1. entry' = entry /\ Needed' = Needed /\ Listens' = Listens
    BY <1>3, SameShape DEF NotConnected
  <2>2. misuse' \subseteq Callers \X Objects /\ WhoMisuses'
    BY <1>3, <2>1 DEF NotConnected, Allocated, IInv, TypeOK, WhoMisuses, memVars
  <2>3. /\ \A x \in Objects \ Needed : mem'[x] = "unused"
        /\ mem' \in [Objects -> {"unused", "held", "freed"}]
    BY <1>3, <2>1 DEF NotConnected, Allocated, Needed, Objects
  <2>4. TypeOK'
    BY <1>3, <2>1, <2>2, <2>3, ShapeFacts DEF NotConnected, Allocated, IInv, TypeOK, ShapeOf, Returning, memVars, netVars, kaVars, peerVars
  <2>5. receive' = "none" /\ main' \in {"done", "closing", "freeing_connection"}
    BY <1>3 DEF NotConnected, IInv, MainInv, Returning
  <2>6. (main' = "closing" => entry \in Closing) /\ (main' = "freeing_connection" => entry \in SimplexListeners)
    BY <1>3, ShapeFacts DEF NotConnected, IInv, TypeOK, Returning, ShapeOf
  <2>7. MainInv'
    BY <2>1, <2>5, <2>6 DEF MainInv, Freeing, Closing
  <2> QED
    BY <2>1, <2>2, <2>4, <2>5, <2>7 DEF IInv, LoopInv, KeepAliveInv, PastInv, Looping, Forgetting
<1>4. CASE NotExchanged
  <2>1. entry' = entry /\ Needed' = Needed /\ Listens' = Listens
    BY <1>4, SameShape DEF NotExchanged
  <2>2. misuse' \subseteq Callers \X Objects /\ WhoMisuses'
    BY <1>4, <2>1 DEF NotExchanged, Allocated, IInv, TypeOK, WhoMisuses, memVars
  <2>3. /\ \A x \in Objects \ Needed : mem'[x] = "unused"
        /\ mem' \in [Objects -> {"unused", "held", "freed"}]
    BY <1>4, <2>1 DEF NotExchanged, Allocated, Needed, Objects
  <2>4. TypeOK'
    BY <1>4, <2>1, <2>2, <2>3, ShapeFacts DEF NotExchanged, Allocated, IInv, TypeOK, ShapeOf, Returning, memVars, netVars, kaVars, peerVars
  <2>5. receive' = "none" /\ main' \in {"done", "closing", "freeing_connection"}
    BY <1>4 DEF NotExchanged, IInv, MainInv, Returning
  <2>6. (main' = "closing" => entry \in Closing) /\ (main' = "freeing_connection" => entry \in SimplexListeners)
    BY <1>4, ShapeFacts DEF NotExchanged, IInv, TypeOK, Returning, ShapeOf
  <2>7. MainInv'
    BY <2>1, <2>5, <2>6 DEF MainInv, Freeing, Closing
  <2> QED
    BY <2>1, <2>2, <2>4, <2>5, <2>7 DEF IInv, LoopInv, KeepAliveInv, PastInv, Looping, Forgetting
<1>5. CASE Established
  <2>1. entry' = entry /\ Needed' = Needed /\ Listens' = Listens
    BY <1>5, SameShape DEF Established
  <2>2. misuse' \subseteq Callers \X Objects /\ WhoMisuses'
    BY <1>5, <2>1 DEF Established, Allocated, IInv, TypeOK, WhoMisuses, memVars
  <2>3. /\ \A x \in Objects \ Needed : mem'[x] = "unused"
        /\ mem' \in [Objects -> {"unused", "held", "freed"}]
    BY <1>5, <2>1 DEF Established, Allocated, Needed, Objects
  <2>4. TypeOK'
    BY <1>5, <2>1, <2>2, <2>3 DEF Established, Allocated, IInv, TypeOK, memVars, netVars, kaVars, peerVars
  <2>5. \A o \in Needed : mem'[o] = "held"
    BY <1>5 DEF Established, Allocated, Needed, Objects
  <2>6. mem'["connection"] = "held" /\ mem'["receiver"] = "held" /\ mem'["keepalive"] # "freed"
    BY <1>5, <2>5, AlwaysNeeded DEF Established, Allocated, Objects
  <2>7. receive' = "peeking" /\ main' = "sending" /\ pointer' = "set"
    BY <1>5 DEF Established, Allocated
  <2> QED
    BY <2>1, <2>2, <2>4, <2>6, <2>7 DEF IInv, MainInv, LoopInv, KeepAliveInv, PastInv, Looping, Forgetting, Freeing
<1>6. CASE AppSends
  <2>1. entry' = entry /\ Needed' = Needed /\ Listens' = Listens
    BY <1>6, SameShape DEF AppSends
  <2>2. misuse' \subseteq Callers \X Objects /\ WhoMisuses'
    <3>1. Touches("application", {"connection"})
      BY <1>6 DEF AppSends
    <3>2. {"connection"} \in SUBSET Objects /\ "application" \in Callers
      BY DEF Objects, Callers, Loop
    <3> QED
      BY <2>1, <3>1, <3>2, TouchKeeps
  <2>3. /\ \A x \in Objects \ Needed : mem'[x] = "unused"
        /\ mem' \in [Objects -> {"unused", "held", "freed"}]
    BY <1>6, <2>1 DEF AppSends, IInv, TypeOK, memVars
  <2>4. TypeOK'
    BY <1>6, <2>1, <2>2, <2>3 DEF AppSends, IInv, TypeOK, memVars, netVars, kaVars, peerVars
  <2> QED
    BY <1>6, <2>2, <2>4, Still DEF AppSends, memVars
<1>7. CASE AppReturns
  <2>1. entry' = entry /\ Needed' = Needed /\ Listens' = Listens
    BY <1>7, SameShape DEF AppReturns
  <2>2. misuse' \subseteq Callers \X Objects /\ WhoMisuses'
    BY <1>7, <2>1 DEF AppReturns, IInv, TypeOK, WhoMisuses, memVars
  <2>3. /\ \A x \in Objects \ Needed : mem'[x] = "unused"
        /\ mem' \in [Objects -> {"unused", "held", "freed"}]
    BY <1>7, <2>1 DEF AppReturns, IInv, TypeOK, memVars
  <2>4. TypeOK'
    BY <1>7, <2>1, <2>2, <2>3, ShapeFacts DEF AppReturns, IInv, TypeOK, ShapeOf, Returning, memVars, netVars, kaVars, peerVars
  <2> QED
    BY <1>7, <2>1, <2>2, <2>3, <2>4, ShapeFacts DEF AppReturns, IInv, TypeOK, MainInv, LoopInv, KeepAliveInv, PastInv, ShapeOf, Returning, Looping, Forgetting, Freeing, Objects, memVars
<1>8. CASE AppQuits
  <2>1. entry' = entry /\ Needed' = Needed /\ Listens' = Listens
    BY <1>8, SameShape DEF AppQuits
  <2>2. misuse' \subseteq Callers \X Objects /\ WhoMisuses'
    <3>1. Touches("application", {"connection"})
      BY <1>8 DEF AppQuits
    <3>2. {"connection"} \in SUBSET Objects /\ "application" \in Callers
      BY DEF Objects, Callers, Loop
    <3> QED
      BY <2>1, <3>1, <3>2, TouchKeeps
  <2>3. /\ \A x \in Objects \ Needed : mem'[x] = "unused"
        /\ mem' \in [Objects -> {"unused", "held", "freed"}]
    BY <1>8, <2>1 DEF AppQuits, CloseNotified, IInv, TypeOK, memVars
  <2>4. TypeOK'
    <3>1. sock' \in {"none", "open", "closed"} /\ fault' \in BOOLEAN /\ reason' \in {"none", "bad_keep_alive"}
      BY <1>8, CloseKeepsType DEF AppQuits
    <3>2. main' \in {"closing", "done", "freeing_connection"}
      BY <1>8 DEF AppQuits, Returning
    <3> QED
      BY <1>8, <2>1, <2>2, <2>3, <3>1, <3>2 DEF AppQuits, IInv, TypeOK, memVars, netVars, kaVars, peerVars
  <2> QED
    BY <1>8, <2>1, <2>2, <2>3, <2>4, ShapeFacts DEF AppQuits, CloseNotified, IInv, TypeOK, MainInv, LoopInv, KeepAliveInv, PastInv, ShapeOf, Returning, Looping, Forgetting, Freeing, Objects, memVars
<1>9. CASE MainCloses
  <2>1. entry' = entry /\ Needed' = Needed /\ Listens' = Listens
    BY <1>9, SameShape DEF MainCloses
  <2>2. misuse' \subseteq Callers \X Objects /\ WhoMisuses'
    <3>1. Touches("return", {"receiver", "connection"})
      BY <1>9 DEF MainCloses
    <3>2. {"receiver", "connection"} \in SUBSET Objects /\ "return" \in Callers
      BY DEF Objects, Callers, Loop
    <3>3. entry \in Closing
      BY <1>9 DEF MainCloses, IInv, TypeOK, MainInv, LoopInv, KeepAliveInv, Looping, Forgetting, Freeing
    <3> QED
      BY <2>1, <3>1, <3>2, <3>3, TouchKeeps
  <2>3. /\ \A x \in Objects \ Needed : mem'[x] = "unused"
        /\ mem' \in [Objects -> {"unused", "held", "freed"}]
    BY <1>9, <2>1 DEF MainCloses, CloseNotified, IInv, TypeOK, memVars
  <2>4. TypeOK'
    <3>1. sock' \in {"none", "open", "closed"} /\ fault' \in BOOLEAN /\ reason' \in {"none", "bad_keep_alive"}
      BY <1>9, CloseKeepsType DEF MainCloses
    <3>2. main' \in {"closing", "done", "freeing_connection"}
      BY <1>9 DEF MainCloses, Returning
    <3> QED
      BY <1>9, <2>1, <2>2, <2>3, <3>1, <3>2 DEF MainCloses, IInv, TypeOK, memVars, netVars, kaVars, peerVars
  <2> QED
    BY <1>9, <2>1, <2>2, <2>3, <2>4, ShapeFacts DEF MainCloses, CloseNotified, IInv, TypeOK, MainInv, LoopInv, KeepAliveInv, PastInv, ShapeOf, Returning, Looping, Forgetting, Freeing, Objects, memVars
<1>10. CASE MainFreesConnection
  <2>1. entry' = entry /\ Needed' = Needed /\ Listens' = Listens
    BY <1>10, SameShape DEF MainFreesConnection
  <2>2. misuse' \subseteq Callers \X Objects /\ WhoMisuses'
    <3>1. Touches("return", {"receiver", "connection"}) \/ Touches("return", {"receiver"})
      BY <1>10 DEF MainFreesConnection, Loop
    <3>2. {"receiver", "connection"} \in SUBSET Objects /\ {"receiver"} \in SUBSET Objects /\ "return" \in Callers
      BY DEF Objects, Callers
    <3>3. entry \in Closing
      BY <1>10 DEF MainFreesConnection, IInv, TypeOK, MainInv, LoopInv, KeepAliveInv, Looping, Forgetting, Freeing
    <3> QED
      BY <2>1, <3>1, <3>2, <3>3, TouchKeeps
  <2>3. /\ \A x \in Objects \ Needed : mem'[x] = "unused"
        /\ mem' \in [Objects -> {"unused", "held", "freed"}]
        /\ mem'["connection"] \in {mem["connection"], "freed"}
        /\ \A x \in Objects \ {"connection"} : mem'[x] = mem[x]
    BY <1>10, <2>1, FreeKeepsType, AlwaysNeeded DEF MainFreesConnection, IInv, TypeOK
  <2>4. TypeOK'
    BY <1>10, <2>1, <2>2, <2>3 DEF MainFreesConnection, IInv, TypeOK, memVars, netVars, kaVars, peerVars
  <2> QED
    BY <1>10, <2>1, <2>2, <2>3, <2>4 DEF MainFreesConnection, IInv, TypeOK, MainInv, LoopInv, KeepAliveInv, PastInv, Looping, Forgetting, Freeing, Objects, memVars
<1>11. CASE MainFreesReceiver
  <2>1. entry' = entry /\ Needed' = Needed /\ Listens' = Listens
    BY <1>11, SameShape DEF MainFreesReceiver
  <2>2. misuse' \subseteq Callers \X Objects /\ WhoMisuses'
    <3>1. Touches("return", {"receiver"})
      BY <1>11 DEF MainFreesReceiver, Frees
    <3>2. {"receiver"} \in SUBSET Objects /\ "return" \in Callers
      BY DEF Objects, Callers, Loop
    <3>3. entry \in Closing
      BY <1>11 DEF MainFreesReceiver, IInv, TypeOK, MainInv, LoopInv, KeepAliveInv, Looping, Forgetting, Freeing
    <3> QED
      BY <2>1, <3>1, <3>2, <3>3, TouchKeeps
  <2>3. /\ \A x \in Objects \ Needed : mem'[x] = "unused"
        /\ mem' \in [Objects -> {"unused", "held", "freed"}]
        /\ mem'["receiver"] = "freed"
        /\ \A x \in Objects \ {"receiver"} : mem'[x] = mem[x]
    <3>1. "receiver" \in Needed
      BY <1>11, AlwaysNeeded DEF MainFreesReceiver, IInv, KeepAliveInv, Needed, Objects
    <3> QED
      BY <1>11, <2>1, <3>1, FreeKeepsType DEF MainFreesReceiver, Frees
  <2>4. TypeOK'
    BY <1>11, <2>1, <2>2, <2>3 DEF MainFreesReceiver, Frees, IInv, TypeOK, memVars, netVars, kaVars, peerVars
  <2> QED
    BY <1>11, <2>1, <2>2, <2>3, <2>4 DEF MainFreesReceiver, Frees, IInv, TypeOK, MainInv, LoopInv, KeepAliveInv, PastInv, Looping, Forgetting, Freeing, Objects, memVars
<1>12. CASE ReceiveTerminate
  <2>1. entry' = entry /\ Needed' = Needed /\ Listens' = Listens
    BY <1>12, SameShape DEF ReceiveTerminate
  <2>2. misuse' \subseteq Callers \X Objects /\ WhoMisuses'
    <3>1. Touches("receive", Loop)
      BY <1>12 DEF ReceiveTerminate
    <3>2. Loop \in SUBSET Objects /\ "receive" \in Callers
      BY DEF Objects, Callers, Loop
    <3>3. entry \in SimplexListeners \/ \A o \in Loop : mem[o] # "freed"
      BY <1>12 DEF ReceiveTerminate, IInv, TypeOK, MainInv, LoopInv, KeepAliveInv, Looping, Forgetting, Freeing, Loop
    <3> QED
      BY <2>1, <3>1, <3>2, <3>3, TouchKeeps
  <2>3. /\ \A x \in Objects \ Needed : mem'[x] = "unused"
        /\ mem' \in [Objects -> {"unused", "held", "freed"}]
    BY <1>12, <2>1 DEF ReceiveTerminate, IInv, TypeOK, memVars
  <2>4. TypeOK'
    BY <1>12, <2>1, <2>2, <2>3 DEF ReceiveTerminate, IInv, TypeOK, memVars, netVars, kaVars, peerVars
  <2> QED
    BY <1>12, <2>1, <2>2, <2>3, <2>4 DEF ReceiveTerminate, IInv, TypeOK, MainInv, LoopInv, KeepAliveInv, PastInv, Looping, Forgetting, Freeing, Objects, memVars
<1>13. CASE ReceiveResponse
  <2>1. entry' = entry /\ Needed' = Needed /\ Listens' = Listens
    BY <1>13, SameShape DEF ReceiveResponse
  <2>2. misuse' \subseteq Callers \X Objects /\ WhoMisuses'
    <3>1. Touches("receive", Loop \cup {"keepalive"})
      BY <1>13 DEF ReceiveResponse
    <3>2. Loop \cup {"keepalive"} \in SUBSET Objects /\ "receive" \in Callers
      BY DEF Objects, Callers, Loop
    <3>3. entry \in SimplexListeners \/ \A o \in Loop \cup {"keepalive"} : mem[o] # "freed"
      BY <1>13 DEF ReceiveResponse, IInv, TypeOK, MainInv, LoopInv, KeepAliveInv, Looping, Forgetting, Freeing, Loop
    <3> QED
      BY <2>1, <3>1, <3>2, <3>3, TouchKeeps
  <2>3. /\ \A x \in Objects \ Needed : mem'[x] = "unused"
        /\ mem' \in [Objects -> {"unused", "held", "freed"}]
    BY <1>13, <2>1 DEF ReceiveResponse, CloseNotified, IInv, TypeOK, memVars
  <2>4. TypeOK'
    <3>1. kpa \in [seqctr : Nat, etime : 0..MaxRounds, recd : BOOLEAN]
      BY DEF IInv, TypeOK
    <3>2. /\ kpa' \in [seqctr : Nat, etime : 0..MaxRounds, recd : BOOLEAN]
          /\ sock' \in {"none", "open", "closed"} /\ fault' \in BOOLEAN /\ reason' \in {"none", "bad_keep_alive"}
          /\ receive' \in {"noting", "disposing"}
      <4>1. CASE kpa' = [kpa EXCEPT !.seqctr = @ + 1] /\ receive' = "noting" /\ UNCHANGED <<sock, fault, reason>>
        BY <3>1, <4>1 DEF IInv, TypeOK
      <4>2. CASE CloseNotified("bad_keep_alive") /\ receive' = "disposing" /\ UNCHANGED kpa
        BY <3>1, <4>2, CloseKeepsType
      <4> QED
        BY <1>13, <4>1, <4>2 DEF ReceiveResponse
    <3> QED
      BY <1>13, <2>1, <2>2, <2>3, <3>2 DEF ReceiveResponse, IInv, TypeOK, peerVars
  <2> QED
    BY <1>13, <2>1, <2>2, <2>3, <2>4 DEF ReceiveResponse, CloseNotified, IInv, TypeOK, MainInv, LoopInv, KeepAliveInv, PastInv, Looping, Forgetting, Freeing, Objects, memVars
<1>14. CASE NoteResponse
  <2>1. entry' = entry /\ Needed' = Needed /\ Listens' = Listens
    BY <1>14, SameShape DEF NoteResponse
  <2>2. misuse' \subseteq Callers \X Objects /\ WhoMisuses'
    <3>1. Touches("receive", {"receiver", "keepalive"})
      BY <1>14 DEF NoteResponse
    <3>2. {"receiver", "keepalive"} \in SUBSET Objects /\ "receive" \in Callers
      BY DEF Objects, Callers, Loop
    <3>3. entry \in SimplexListeners \/ \A o \in {"receiver", "keepalive"} : mem[o] # "freed"
      BY <1>14 DEF NoteResponse, IInv, TypeOK, MainInv, LoopInv, KeepAliveInv, Looping, Forgetting, Freeing, Loop
    <3> QED
      BY <2>1, <3>1, <3>2, <3>3, TouchKeeps
  <2>3. /\ \A x \in Objects \ Needed : mem'[x] = "unused"
        /\ mem' \in [Objects -> {"unused", "held", "freed"}]
    BY <1>14, <2>1 DEF NoteResponse, IInv, TypeOK, memVars
  <2>4. TypeOK'
    <3>1. kpa' \in [seqctr : Nat, etime : 0..MaxRounds, recd : BOOLEAN]
      BY <1>14 DEF NoteResponse, IInv, TypeOK
    <3> QED
      BY <1>14, <2>1, <2>2, <2>3, <3>1 DEF NoteResponse, IInv, TypeOK, memVars, netVars, peerVars
  <2> QED
    BY <1>14, <2>1, <2>2, <2>3, <2>4 DEF NoteResponse, IInv, TypeOK, MainInv, LoopInv, KeepAliveInv, PastInv, Looping, Forgetting, Freeing, Objects, memVars
<1>15. CASE ReceiveNothing
  <2>1. entry' = entry /\ Needed' = Needed /\ Listens' = Listens
    BY <1>15, SameShape DEF ReceiveNothing
  <2>2. misuse' \subseteq Callers \X Objects /\ WhoMisuses'
    <3>1. Touches("receive", Loop)
      BY <1>15 DEF ReceiveNothing
    <3>2. Loop \in SUBSET Objects /\ "receive" \in Callers
      BY DEF Objects, Callers, Loop
    <3>3. entry \in SimplexListeners \/ \A o \in Loop : mem[o] # "freed"
      BY <1>15 DEF ReceiveNothing, IInv, TypeOK, MainInv, LoopInv, KeepAliveInv, Looping, Forgetting, Freeing, Loop
    <3> QED
      BY <2>1, <3>1, <3>2, <3>3, TouchKeeps
  <2>3. /\ \A x \in Objects \ Needed : mem'[x] = "unused"
        /\ mem' \in [Objects -> {"unused", "held", "freed"}]
    BY <1>15, <2>1 DEF ReceiveNothing, IInv, TypeOK, memVars
  <2>4. TypeOK'
    <3>1. fault' \in BOOLEAN
      BY <1>15 DEF ReceiveNothing, IInv, TypeOK
    <3> QED
      BY <1>15, <2>1, <2>2, <2>3, <3>1 DEF ReceiveNothing, IInv, TypeOK, kaVars, peerVars
  <2> QED
    BY <1>15, <2>1, <2>2, <2>3, <2>4 DEF ReceiveNothing, IInv, TypeOK, MainInv, LoopInv, KeepAliveInv, PastInv, Looping, Forgetting, Freeing, Objects, memVars
<1>16. CASE ReceiveAborted
  <2>1. entry' = entry /\ Needed' = Needed /\ Listens' = Listens
    BY <1>16, SameShape DEF ReceiveAborted
  <2>2. misuse' \subseteq Callers \X Objects /\ WhoMisuses'
    <3>1. Touches("receive", Loop)
      BY <1>16 DEF ReceiveAborted
    <3>2. Loop \in SUBSET Objects /\ "receive" \in Callers
      BY DEF Objects, Callers, Loop
    <3>3. entry \in SimplexListeners \/ \A o \in Loop : mem[o] # "freed"
      BY <1>16 DEF ReceiveAborted, IInv, TypeOK, MainInv, LoopInv, KeepAliveInv, Looping, Forgetting, Freeing, Loop
    <3> QED
      BY <2>1, <3>1, <3>2, <3>3, TouchKeeps
  <2>3. /\ \A x \in Objects \ Needed : mem'[x] = "unused"
        /\ mem' \in [Objects -> {"unused", "held", "freed"}]
    BY <1>16, <2>1 DEF ReceiveAborted, IInv, TypeOK, memVars
  <2>4. TypeOK'
    BY <1>16, <2>1, <2>2, <2>3 DEF ReceiveAborted, IInv, TypeOK, memVars, netVars, kaVars, peerVars
  <2> QED
    BY <1>16, <2>1, <2>2, <2>3, <2>4 DEF ReceiveAborted, IInv, TypeOK, MainInv, LoopInv, KeepAliveInv, PastInv, Looping, Forgetting, Freeing, Objects, memVars
<1>17. CASE CheckConnected
  <2>1. entry' = entry /\ Needed' = Needed /\ Listens' = Listens
    BY <1>17, SameShape DEF CheckConnected
  <2>2. misuse' \subseteq Callers \X Objects /\ WhoMisuses'
    <3>1. Touches("receive", Loop)
      BY <1>17 DEF CheckConnected
    <3>2. Loop \in SUBSET Objects /\ "receive" \in Callers
      BY DEF Objects, Callers, Loop
    <3>3. entry \in SimplexListeners \/ \A o \in Loop : mem[o] # "freed"
      BY <1>17 DEF CheckConnected, IInv, TypeOK, MainInv, LoopInv, KeepAliveInv, Looping, Forgetting, Freeing, Loop
    <3> QED
      BY <2>1, <3>1, <3>2, <3>3, TouchKeeps
  <2>3. /\ \A x \in Objects \ Needed : mem'[x] = "unused"
        /\ mem' \in [Objects -> {"unused", "held", "freed"}]
    BY <1>17, <2>1 DEF CheckConnected, IInv, TypeOK, memVars
  <2>4. TypeOK'
    <3>1. receive' \in {"peeking", "disposing"}
      BY <1>17 DEF CheckConnected
    <3>2. fault' \in BOOLEAN
      BY <1>17 DEF CheckConnected
    <3> QED
      BY <1>17, <2>1, <2>2, <2>3, <3>1, <3>2 DEF CheckConnected, IInv, TypeOK, kaVars, peerVars
  <2>5. receive' \in {"peeking", "disposing"} /\ UNCHANGED <<mem, pointer, main>> /\ receive = "checking"
    BY <1>17 DEF CheckConnected
  <2> QED
    BY <2>1, <2>2, <2>4, <2>5 DEF IInv, MainInv, LoopInv, KeepAliveInv, PastInv, Looping, Forgetting, Freeing
<1>18. CASE Dispose
  <2>1. entry' = entry /\ Needed' = Needed /\ Listens' = Listens
    BY <1>18, SameShape DEF Dispose
  <2>2. misuse' \subseteq Callers \X Objects /\ WhoMisuses'
    <3>1. Touches("receive", Loop)
      BY <1>18 DEF Dispose
    <3>2. Loop \in SUBSET Objects /\ "receive" \in Callers
      BY DEF Objects, Callers, Loop
    <3>3. entry \in SimplexListeners \/ \A o \in Loop : mem[o] # "freed"
      BY <1>18 DEF Dispose, IInv, TypeOK, MainInv, LoopInv, KeepAliveInv, Looping, Forgetting, Freeing, Loop
    <3> QED
      BY <2>1, <3>1, <3>2, <3>3, TouchKeeps
  <2>3. /\ \A x \in Objects \ Needed : mem'[x] = "unused"
        /\ mem' \in [Objects -> {"unused", "held", "freed"}]
    BY <1>18, <2>1 DEF Dispose, IInv, TypeOK, memVars
  <2>4. TypeOK'
    BY <1>18, <2>1, <2>2, <2>3 DEF Dispose, IInv, TypeOK, memVars, netVars, kaVars, peerVars
  <2> QED
    BY <1>18, <2>1, <2>2, <2>3, <2>4 DEF Dispose, IInv, TypeOK, MainInv, LoopInv, KeepAliveInv, PastInv, Looping, Forgetting, Freeing, Objects, memVars
<1>19. CASE ReceiveFreesConnection
  <2>1. entry' = entry /\ Needed' = Needed /\ Listens' = Listens
    BY <1>19, SameShape DEF ReceiveFreesConnection
  <2>2. misuse' \subseteq Callers \X Objects /\ WhoMisuses'
    <3>1. Touches("receive", {"receiver", "connection"}) \/ Touches("receive", {"receiver"})
      BY <1>19 DEF ReceiveFreesConnection, Loop
    <3>2. {"receiver", "connection"} \in SUBSET Objects /\ {"receiver"} \in SUBSET Objects /\ "receive" \in Callers
      BY DEF Objects, Callers
    <3>3. entry \in SimplexListeners \/ \A o \in {"receiver", "connection"} : mem[o] # "freed"
      BY <1>19 DEF ReceiveFreesConnection, IInv, TypeOK, MainInv, LoopInv, KeepAliveInv, Looping, Forgetting, Freeing
    <3> QED
      BY <2>1, <3>1, <3>2, <3>3, TouchKeeps
  <2>3. /\ \A x \in Objects \ Needed : mem'[x] = "unused"
        /\ mem' \in [Objects -> {"unused", "held", "freed"}]
        /\ mem'["connection"] \in {mem["connection"], "freed"}
        /\ \A x \in Objects \ {"connection"} : mem'[x] = mem[x]
    BY <1>19, <2>1, FreeKeepsType, AlwaysNeeded DEF ReceiveFreesConnection, IInv, TypeOK
  <2>4. TypeOK'
    BY <1>19, <2>1, <2>2, <2>3 DEF ReceiveFreesConnection, IInv, TypeOK, memVars, netVars, kaVars, peerVars
  <2> QED
    BY <1>19, <2>1, <2>2, <2>3, <2>4 DEF ReceiveFreesConnection, IInv, TypeOK, MainInv, LoopInv, KeepAliveInv, PastInv, Looping, Forgetting, Freeing, Objects, memVars
<1>20. CASE ForgetConnection
  <2>1. entry' = entry /\ Needed' = Needed /\ Listens' = Listens
    BY <1>20, SameShape DEF ForgetConnection
  <2>2. misuse' \subseteq Callers \X Objects /\ WhoMisuses'
    <3>1. Touches("receive", {"receiver"})
      BY <1>20 DEF ForgetConnection
    <3>2. {"receiver"} \in SUBSET Objects /\ "receive" \in Callers
      BY DEF Objects, Callers, Loop
    <3>3. entry \in SimplexListeners \/ \A o \in {"receiver"} : mem[o] # "freed"
      BY <1>20 DEF ForgetConnection, IInv, TypeOK, MainInv, LoopInv, KeepAliveInv, Looping, Forgetting, Freeing, Loop
    <3> QED
      BY <2>1, <3>1, <3>2, <3>3, TouchKeeps
  <2>3. /\ \A x \in Objects \ Needed : mem'[x] = "unused"
        /\ mem' \in [Objects -> {"unused", "held", "freed"}]
    BY <1>20, <2>1 DEF ForgetConnection, AfterForgetting, IInv, TypeOK, memVars
  <2>4. TypeOK'
    BY <1>20, <2>1, <2>2, <2>3 DEF ForgetConnection, AfterForgetting, IInv, TypeOK, memVars, netVars, kaVars, peerVars
  <2>5. mem' = mem /\ main' = main /\ pointer' = "null" /\ mem["connection"] # "held"
    BY <1>20 DEF ForgetConnection, IInv, PastInv, Forgetting
  <2>6. \/ Listens /\ receive' = "freeing_keepalive"
        \/ mem["keepalive"] = "unused" /\ receive' = "freeing_receiver"
    BY <1>20 DEF ForgetConnection, AfterForgetting, IInv, TypeOK, Needed, Objects
  <2>7. MainInv' /\ LoopInv' /\ KeepAliveInv'
    BY <1>20, <2>1, <2>5, <2>6 DEF ForgetConnection, IInv, MainInv, LoopInv, KeepAliveInv, Looping, Forgetting, Freeing
  <2> QED
    BY <2>2, <2>4, <2>5, <2>6, <2>7 DEF IInv, PastInv, Forgetting
<1>21. CASE ReceiveFreesKeepAlive
  <2>1. entry' = entry /\ Needed' = Needed /\ Listens' = Listens
    BY <1>21, SameShape DEF ReceiveFreesKeepAlive
  <2>2. misuse' \subseteq Callers \X Objects /\ WhoMisuses'
    <3>1. Touches("receive", {"keepalive"})
      BY <1>21 DEF ReceiveFreesKeepAlive, Frees
    <3>2. {"keepalive"} \in SUBSET Objects /\ "receive" \in Callers
      BY DEF Objects, Callers, Loop
    <3>3. entry \in SimplexListeners \/ \A o \in {"keepalive"} : mem[o] # "freed"
      BY <1>21 DEF ReceiveFreesKeepAlive, IInv, TypeOK, MainInv, LoopInv, KeepAliveInv, Looping, Forgetting, Freeing, Loop
    <3> QED
      BY <2>1, <3>1, <3>2, <3>3, TouchKeeps
  <2>3. /\ \A x \in Objects \ Needed : mem'[x] = "unused"
        /\ mem' \in [Objects -> {"unused", "held", "freed"}]
        /\ mem'["keepalive"] = "freed"
        /\ \A x \in Objects \ {"keepalive"} : mem'[x] = mem[x]
    <3>1. "keepalive" \in Needed
      BY <1>21, AlwaysNeeded DEF ReceiveFreesKeepAlive, IInv, KeepAliveInv, Needed, Objects
    <3> QED
      BY <1>21, <2>1, <3>1, FreeKeepsType DEF ReceiveFreesKeepAlive, Frees
  <2>4. TypeOK'
    BY <1>21, <2>1, <2>2, <2>3 DEF ReceiveFreesKeepAlive, Frees, IInv, TypeOK, memVars, netVars, kaVars, peerVars
  <2> QED
    BY <1>21, <2>1, <2>2, <2>3, <2>4 DEF ReceiveFreesKeepAlive, Frees, IInv, TypeOK, MainInv, LoopInv, KeepAliveInv, PastInv, Looping, Forgetting, Freeing, Objects, memVars
<1>22. CASE ReceiveFreesReceiver
  <2>1. entry' = entry /\ Needed' = Needed /\ Listens' = Listens
    BY <1>22, SameShape DEF ReceiveFreesReceiver
  <2>2. misuse' \subseteq Callers \X Objects /\ WhoMisuses'
    <3>1. Touches("receive", {"receiver"})
      BY <1>22 DEF ReceiveFreesReceiver, Frees
    <3>2. {"receiver"} \in SUBSET Objects /\ "receive" \in Callers
      BY DEF Objects, Callers, Loop
    <3>3. entry \in SimplexListeners \/ \A o \in {"receiver"} : mem[o] # "freed"
      BY <1>22 DEF ReceiveFreesReceiver, IInv, TypeOK, MainInv, LoopInv, KeepAliveInv, Looping, Forgetting, Freeing, Loop
    <3> QED
      BY <2>1, <3>1, <3>2, <3>3, TouchKeeps
  <2>3. /\ \A x \in Objects \ Needed : mem'[x] = "unused"
        /\ mem' \in [Objects -> {"unused", "held", "freed"}]
        /\ mem'["receiver"] = "freed"
        /\ \A x \in Objects \ {"receiver"} : mem'[x] = mem[x]
    <3>1. "receiver" \in Needed
      BY <1>22, AlwaysNeeded DEF ReceiveFreesReceiver, IInv, KeepAliveInv, Needed, Objects
    <3> QED
      BY <1>22, <2>1, <3>1, FreeKeepsType DEF ReceiveFreesReceiver, Frees
  <2>4. TypeOK'
    BY <1>22, <2>1, <2>2, <2>3 DEF ReceiveFreesReceiver, Frees, IInv, TypeOK, memVars, netVars, kaVars, peerVars
  <2> QED
    BY <1>22, <2>1, <2>2, <2>3, <2>4 DEF ReceiveFreesReceiver, Frees, IInv, TypeOK, MainInv, LoopInv, KeepAliveInv, PastInv, Looping, Forgetting, Freeing, Objects, memVars
<1>23. CASE Ask
  <2>1. entry' = entry /\ Needed' = Needed /\ Listens' = Listens
    BY <1>23, SameShape DEF Ask
  <2>2. misuse' \subseteq Callers \X Objects /\ WhoMisuses'
    <3>1. Touches("keepalive", {"keepalive"})
      BY <1>23 DEF Ask
    <3>2. {"keepalive"} \in SUBSET Objects /\ "keepalive" \in Callers
      BY DEF Objects, Callers, Loop
    <3> QED
      BY <2>1, <3>1, <3>2, TouchKeeps
  <2>3. /\ \A x \in Objects \ Needed : mem'[x] = "unused"
        /\ mem' \in [Objects -> {"unused", "held", "freed"}]
    BY <1>23, <2>1 DEF Ask, IInv, TypeOK, memVars
  <2>4. TypeOK'
    <3>1. kpa \in [seqctr : Nat, etime : 0..MaxRounds, recd : BOOLEAN] /\ rounds \in 0..MaxRounds
      BY DEF IInv, TypeOK
    <3>2. rounds' \in 0..MaxRounds /\ keepalive' \in {"requesting", "failed"}
      <4>1. CASE Connected
        BY <1>23, <3>1, <4>1 DEF Ask
      <4>2. CASE ~Connected
        BY <1>23, <3>1, <4>2 DEF Ask
      <4> QED
        BY <4>1, <4>2
    <3>3. kpa' = [kpa EXCEPT !.recd = FALSE, !.etime = rounds'] \/ kpa' = [kpa EXCEPT !.recd = FALSE]
      <4>1. CASE Connected
        BY <1>23, <3>1, <4>1 DEF Ask
      <4>2. CASE ~Connected
        BY <1>23, <3>1, <4>2 DEF Ask
      <4> QED
        BY <4>1, <4>2
    <3>4. kpa' \in [seqctr : Nat, etime : 0..MaxRounds, recd : BOOLEAN]
      BY <3>1, <3>2, <3>3
    <3>5. fault' \in BOOLEAN
      BY <1>23 DEF Ask
    <3> QED
      BY <1>23, <2>1, <2>2, <2>3, <3>2, <3>4, <3>5 DEF Ask, IInv, TypeOK, peerVars
  <2> QED
    BY <1>23, <2>2, <2>4, Still DEF Ask, memVars
<1>24. CASE SendRequest
  <2>1. entry' = entry /\ Needed' = Needed /\ Listens' = Listens
    BY <1>24, SameShape DEF SendRequest
  <2>2. misuse' \subseteq Callers \X Objects /\ WhoMisuses'
    <3>1. Touches("keepalive", {"keepalive"})
      BY <1>24 DEF SendRequest
    <3>2. {"keepalive"} \in SUBSET Objects /\ "keepalive" \in Callers
      BY DEF Objects, Callers, Loop
    <3> QED
      BY <2>1, <3>1, <3>2, TouchKeeps
  <2>3. /\ \A x \in Objects \ Needed : mem'[x] = "unused"
        /\ mem' \in [Objects -> {"unused", "held", "freed"}]
    BY <1>24, <2>1 DEF SendRequest, IInv, TypeOK, memVars
  <2>4. TypeOK'
    BY <1>24, <2>1, <2>2, <2>3 DEF SendRequest, IInv, TypeOK, memVars, netVars, kaVars, peerVars
  <2> QED
    BY <1>24, <2>2, <2>4, Still DEF SendRequest, memVars
<1>33. CASE RequestNotSent
  <2>1. entry' = entry /\ Needed' = Needed /\ Listens' = Listens
    BY <1>33, SameShape DEF RequestNotSent
  <2>2. misuse' \subseteq Callers \X Objects /\ WhoMisuses'
    <3>1. Touches("keepalive", {"keepalive"})
      BY <1>33 DEF RequestNotSent
    <3>2. {"keepalive"} \in SUBSET Objects /\ "keepalive" \in Callers
      BY DEF Objects, Callers, Loop
    <3> QED
      BY <2>1, <3>1, <3>2, TouchKeeps
  <2>3. /\ \A x \in Objects \ Needed : mem'[x] = "unused"
        /\ mem' \in [Objects -> {"unused", "held", "freed"}]
    BY <1>33, <2>1 DEF RequestNotSent, IInv, TypeOK, memVars
  <2>4. TypeOK'
    <3>1. fault' \in BOOLEAN
      BY <1>33 DEF RequestNotSent, IInv, TypeOK
    <3> QED
      BY <1>33, <2>1, <2>2, <2>3, <3>1 DEF RequestNotSent, IInv, TypeOK, memVars, kaVars, peerVars
  <2> QED
    BY <1>33, <2>2, <2>4, Still DEF RequestNotSent, memVars
<1>25. CASE TestAnswered
  <2>1. entry' = entry /\ Needed' = Needed /\ Listens' = Listens
    BY <1>25, SameShape DEF TestAnswered
  <2>2. misuse' \subseteq Callers \X Objects /\ WhoMisuses'
    <3>1. Touches("keepalive", {"keepalive"})
      BY <1>25 DEF TestAnswered
    <3>2. {"keepalive"} \in SUBSET Objects /\ "keepalive" \in Callers
      BY DEF Objects, Callers, Loop
    <3> QED
      BY <2>1, <3>1, <3>2, TouchKeeps
  <2>3. /\ \A x \in Objects \ Needed : mem'[x] = "unused"
        /\ mem' \in [Objects -> {"unused", "held", "freed"}]
    BY <1>25, <2>1 DEF TestAnswered, IInv, TypeOK, memVars
  <2>4. TypeOK'
    BY <1>25, <2>1, <2>2, <2>3 DEF TestAnswered, IInv, TypeOK, memVars, netVars, kaVars, peerVars
  <2> QED
    BY <1>25, <2>2, <2>4, Still DEF TestAnswered, memVars
<1>26. CASE Sleep
  <2>1. entry' = entry /\ Needed' = Needed /\ Listens' = Listens
    BY <1>26, SameShape DEF Sleep
  <2>2. misuse' \subseteq Callers \X Objects /\ WhoMisuses'
    BY <1>26, <2>1 DEF Sleep, IInv, TypeOK, WhoMisuses, memVars
  <2>3. /\ \A x \in Objects \ Needed : mem'[x] = "unused"
        /\ mem' \in [Objects -> {"unused", "held", "freed"}]
    BY <1>26, <2>1 DEF Sleep, IInv, TypeOK, memVars
  <2>4. TypeOK'
    BY <1>26, <2>1, <2>2, <2>3 DEF Sleep, IInv, TypeOK, memVars, netVars, kaVars, peerVars
  <2> QED
    BY <1>26, <2>2, <2>4, Still DEF Sleep, memVars
<1>27. CASE PeerAnswers
  <2>1. entry' = entry /\ Needed' = Needed /\ Listens' = Listens
    BY <1>27, SameShape DEF PeerAnswers
  <2>2. misuse' \subseteq Callers \X Objects /\ WhoMisuses'
    BY <1>27, <2>1 DEF PeerAnswers, IInv, TypeOK, WhoMisuses, memVars
  <2>3. /\ \A x \in Objects \ Needed : mem'[x] = "unused"
        /\ mem' \in [Objects -> {"unused", "held", "freed"}]
    BY <1>27, <2>1 DEF PeerAnswers, IInv, TypeOK, memVars
  <2>4. TypeOK'
    BY <1>27, <2>1, <2>2, <2>3 DEF PeerAnswers, IInv, TypeOK, memVars, netVars, kaVars, peerVars
  <2> QED
    BY <1>27, <2>2, <2>4, Still DEF PeerAnswers, memVars
<1>28. CASE PeerLies
  <2>1. entry' = entry /\ Needed' = Needed /\ Listens' = Listens
    BY <1>28, SameShape DEF PeerLies
  <2>2. misuse' \subseteq Callers \X Objects /\ WhoMisuses'
    BY <1>28, <2>1 DEF PeerLies, IInv, TypeOK, WhoMisuses, memVars
  <2>3. /\ \A x \in Objects \ Needed : mem'[x] = "unused"
        /\ mem' \in [Objects -> {"unused", "held", "freed"}]
    BY <1>28, <2>1 DEF PeerLies, IInv, TypeOK, memVars
  <2>4. TypeOK'
    BY <1>28, <2>1, <2>2, <2>3 DEF PeerLies, IInv, TypeOK, memVars, netVars, kaVars, peerVars
  <2> QED
    BY <1>28, <2>2, <2>4, Still DEF PeerLies, memVars
<1>29. CASE PeerTerminates
  <2>1. entry' = entry /\ Needed' = Needed /\ Listens' = Listens
    BY <1>29, SameShape DEF PeerTerminates
  <2>2. misuse' \subseteq Callers \X Objects /\ WhoMisuses'
    BY <1>29, <2>1 DEF PeerTerminates, IInv, TypeOK, WhoMisuses, memVars
  <2>3. /\ \A x \in Objects \ Needed : mem'[x] = "unused"
        /\ mem' \in [Objects -> {"unused", "held", "freed"}]
    BY <1>29, <2>1 DEF PeerTerminates, IInv, TypeOK, memVars
  <2>4. TypeOK'
    BY <1>29, <2>1, <2>2, <2>3 DEF PeerTerminates, IInv, TypeOK, memVars, netVars, kaVars, peerVars
  <2> QED
    BY <1>29, <2>2, <2>4, Still DEF PeerTerminates, memVars
<1>30. CASE PeerVanishes
  <2>1. entry' = entry /\ Needed' = Needed /\ Listens' = Listens
    BY <1>30, SameShape DEF PeerVanishes
  <2>2. misuse' \subseteq Callers \X Objects /\ WhoMisuses'
    BY <1>30, <2>1 DEF PeerVanishes, IInv, TypeOK, WhoMisuses, memVars
  <2>3. /\ \A x \in Objects \ Needed : mem'[x] = "unused"
        /\ mem' \in [Objects -> {"unused", "held", "freed"}]
    BY <1>30, <2>1 DEF PeerVanishes, IInv, TypeOK, memVars
  <2>4. TypeOK'
    BY <1>30, <2>1, <2>2, <2>3 DEF PeerVanishes, IInv, TypeOK, memVars, netVars, kaVars, peerVars
  <2> QED
    BY <1>30, <2>2, <2>4, Still DEF PeerVanishes, memVars
<1>31. CASE PeerToldToClose
  <2>1. entry' = entry /\ Needed' = Needed /\ Listens' = Listens
    BY <1>31, SameShape DEF PeerToldToClose
  <2>2. misuse' \subseteq Callers \X Objects /\ WhoMisuses'
    BY <1>31, <2>1 DEF PeerToldToClose, IInv, TypeOK, WhoMisuses, memVars
  <2>3. /\ \A x \in Objects \ Needed : mem'[x] = "unused"
        /\ mem' \in [Objects -> {"unused", "held", "freed"}]
    BY <1>31, <2>1 DEF PeerToldToClose, IInv, TypeOK, memVars
  <2>4. TypeOK'
    BY <1>31, <2>1, <2>2, <2>3 DEF PeerToldToClose, IInv, TypeOK, memVars, netVars, kaVars, peerVars
  <2> QED
    BY <1>31, <2>2, <2>4, Still DEF PeerToldToClose, memVars
<1>32. CASE UNCHANGED vars
  BY <1>32, SameShape DEF vars, memVars, netVars, kaVars, peerVars, IInv, TypeOK, MainInv, LoopInv, KeepAliveInv, PastInv, WhoMisuses
<1> QED
  BY <1>1, <1>2, <1>3, <1>4, <1>5, <1>6, <1>7, <1>8, <1>9, <1>10, <1>11, <1>12, <1>13, <1>14, <1>15, <1>16, <1>17, <1>18, <1>19, <1>20, <1>21, <1>22, <1>23, <1>24, <1>25, <1>26, <1>27, <1>28, <1>29, <1>30, <1>31, <1>32, <1>33
  DEF Next, Start, Application, Return, ReceiveThread, KeepAliveThread, PeerSteps

-----------------------------------------------------------------------------
(* An honest peer.  At any time at most one request or answer is on its way *)
(* or being noted, it is the one the keep-alive state stands for, and until *)
(* it is noted the keep-alive thread does not come to ask again.            *)

Terminate == [kind |-> "terminate"]

\* The open request is on its way to the peer, or its answer on its way back.
Asked == asked \in {<<Request>>, <<Request, Terminate>>}
Answered == inbox \in {<<Response(Request)>>, <<Response(Request), Terminate>>}

\* Before the exchange has been made nothing has been sent.
StartInv ==
  /\ main = "start" => sock = "none" /\ keepalive = "none"
  /\ sock = "none" => asked = <<>>

HonestInv ==
  ~lied =>
    /\ reason = "none"
    /\ Asked \/ asked \in {<<>>, <<Terminate>>}
    /\ Answered \/ inbox \in {<<>>, <<Terminate>>}
    /\ sock = "open" => asked \in {<<>>, <<Request>>}
    /\ peer = "there" => inbox \in {<<>>, <<Response(Request)>>}
    /\ Asked => ~Answered /\ receive # "noting"
    /\ Answered => receive # "noting"
    /\ Asked \/ Answered \/ receive = "noting" =>
         keepalive \in {"testing", "failed", "expired", "ended"} /\ ~kpa.recd
    /\ keepalive = "requesting" => ~kpa.recd

HInv == IInv /\ StartInv /\ HonestInv

\* Queues of at most two packets.
LEMMA Queues ==
  ASSUME NEW x, NEW y
  PROVE  /\ Append(<<>>, x) = <<x>> /\ Append(<<x>>, y) = <<x, y>>
         /\ Head(<<x>>) = x /\ Head(<<x, y>>) = x
         /\ Tail(<<x>>) = <<>> /\ Tail(<<x, y>>) = <<y>>
         /\ <<x>> # <<>> /\ <<x, y>> # <<>>
<1>1. Append(<<>>, x) = <<x>>
  OBVIOUS
<1>6. Append(<<x>>, y) = <<x, y>>
  <2> DEFINE S == {x, y}
  <2>1. <<x>> \in Seq(S) /\ <<x, y>> \in Seq(S) /\ y \in S
    OBVIOUS
  <2>2. /\ Append(<<x>>, y) \in Seq(S) /\ Len(Append(<<x>>, y)) = 2
        /\ Append(<<x>>, y)[1] = x /\ Append(<<x>>, y)[2] = y
    BY <2>1, AppendProperties
  <2>3. Len(<<x, y>>) = 2 /\ <<x, y>>[1] = x /\ <<x, y>>[2] = y
    OBVIOUS
  <2>4. \A i \in 1..2 : i = 1 \/ i = 2
    OBVIOUS
  <2>5. \A i \in 1..2 : Append(<<x>>, y)[i] = <<x, y>>[i]
    BY <2>2, <2>3, <2>4, Zenon
  <2> HIDE DEF S
  <2>6. 1..Len(Append(<<x>>, y)) = 1..2
    BY <2>2
  <2> QED
    BY <2>1, <2>2, <2>3, <2>5, <2>6, SeqEqual, Zenon
<1>2. Head(<<x>>) = x /\ Head(<<x, y>>) = x
  OBVIOUS
<1>3. Tail(<<x>>) = <<>>
  OBVIOUS
<1>4. Tail(<<x, y>>) = <<y>>
  OBVIOUS
<1>5. <<x>> # <<>> /\ <<x, y>> # <<>>
  OBVIOUS
<1> QED
  BY <1>1, <1>2, <1>3, <1>4, <1>5, <1>6

LEMMA StartInvNext == IInv /\ StartInv /\ [Next]_vars => StartInv'
<1> SUFFICES ASSUME IInv, StartInv, [Next]_vars PROVE StartInv'
  OBVIOUS
<1>1. CASE Start
  BY <1>1 DEF Start, NoReceiver, NoConnection, NotConnected, NotExchanged, Established, Returning,
    StartInv, netVars
<1>2. CASE main # "start" /\ main' # "start" /\ ((sock' = sock /\ asked' = asked) \/ sock' # "none")
  BY <1>2 DEF StartInv
<1>3. CASE sock' = sock /\ asked' = asked /\ main' = main /\ keepalive' = keepalive
  BY <1>3 DEF StartInv
<1>4. ASSUME AppReturns \/ AppQuits \/ Return PROVE StartInv'
  BY <1>4, <1>2, <1>3 DEF Return, AppReturns, AppQuits, MainCloses, MainFreesConnection,
    MainFreesReceiver, CloseNotified, Connected, Returning, netVars
<1>5. ASSUME ReceiveThread PROVE StartInv'
  <2>1. CASE ReceiveResponse
    <3>1. main # "start"
      BY <2>1 DEF ReceiveResponse, IInv, MainInv
    <3> QED
      BY <2>1, <3>1, <1>2 DEF ReceiveResponse, CloseNotified, Connected
  <2>2. CASE ReceiveTerminate
    BY <2>2, <1>2 DEF ReceiveTerminate, IInv, MainInv
  <2>3. CASE ~ReceiveResponse /\ ~ReceiveTerminate
    BY <1>5, <2>3, <1>3 DEF ReceiveThread, NoteResponse, ReceiveNothing, CheckConnected, Dispose,
      ReceiveFreesConnection, ForgetConnection, ReceiveFreesKeepAlive, ReceiveFreesReceiver, netVars
  <2> QED
    BY <2>1, <2>2, <2>3
<1>6. ASSUME KeepAliveThread PROVE StartInv'
  BY <1>6 DEF KeepAliveThread, Ask, SendRequest, RequestNotSent, TestAnswered, Sleep, StartInv, netVars
<1>7. ASSUME PeerSteps PROVE StartInv'
  <2>1. CASE PeerAnswers
    <3>1. asked # <<>>
      BY <2>1 DEF PeerAnswers
    <3> QED
      BY <2>1, <3>1 DEF PeerAnswers, StartInv
  <2> QED
    BY <1>7, <2>1, <1>3 DEF PeerSteps, PeerLies, PeerTerminates, PeerVanishes
<1>8. ASSUME AppSends \/ ReceiveAborted \/ PeerToldToClose \/ UNCHANGED vars PROVE StartInv'
  BY <1>8, <1>3 DEF AppSends, ReceiveAborted, PeerToldToClose, vars, netVars
<1> QED
  BY <1>1, <1>4, <1>5, <1>6, <1>7, <1>8 DEF Next, Application

\* A step that leaves the packets and what is said of them alone.
LEMMA Unconcerned ==
  ASSUME HonestInv, UNCHANGED <<asked, inbox, reason, kpa, keepalive, lied>>,
         sock' = "open" => sock = "open", peer' = "there" => peer = "there",
         receive' = "noting" => receive = "noting"
  PROVE  HonestInv'
BY DEF HonestInv, Asked, Answered, Request, Response, Terminate

\* Once the peer has lied nothing more is said of it.
LEMMA LiedForGood == [Next]_vars => (lied => lied')
BY DEF Next, Start, NoReceiver, NoConnection, NotConnected, NotExchanged, Established,
  Application, AppSends, AppReturns, AppQuits, Return, MainCloses, MainFreesConnection, MainFreesReceiver,
  ReceiveThread, ReceiveTerminate, ReceiveResponse, NoteResponse, ReceiveNothing, CheckConnected,
  Dispose, ReceiveFreesConnection, ForgetConnection, ReceiveFreesKeepAlive, ReceiveFreesReceiver,
  ReceiveAborted, KeepAliveThread, Ask, SendRequest, RequestNotSent, TestAnswered, Sleep,
  PeerSteps, PeerAnswers, PeerLies, PeerTerminates, PeerVanishes, PeerToldToClose, peerVars, vars

\* Closing the connection in good order.
LEMMA CloseKeepsHonest ==
  ASSUME HonestInv, CloseNotified("none"), UNCHANGED <<kpa, keepalive, lied, peer>>,
         receive' = "noting" => receive = "noting"
  PROVE  HonestInv'
<1> SUFFICES ASSUME ~lied' PROVE HonestInv'
  BY DEF HonestInv
<1>1. CASE Connected
  <2>1. asked \in {<<>>, <<Request>>} /\ asked' = Append(asked, Terminate) /\ inbox' = <<>>
        /\ sock' = "closed" /\ reason' = "none"
    BY <1>1 DEF HonestInv, CloseNotified, Connected, Terminate
  <2>2. Request' = Request /\ Terminate' = Terminate
    BY DEF Request, Terminate
  <2>3. \/ asked = <<>> /\ asked' = <<Terminate>>
        \/ asked = <<Request>> /\ asked' = <<Request, Terminate>>
    BY <2>1, Queues
  <2>4. Asked' => Asked
    BY <2>2, <2>3 DEF Asked, Request, Terminate
  <2>5. ~Answered' /\ Answered \in BOOLEAN
    BY <2>1, Queues DEF Answered
  <2>6. Asked' \/ asked' \in {<<>>, <<Terminate>>}
    BY <2>2, <2>3 DEF Asked
  <2> QED
    BY <2>1, <2>2, <2>4, <2>5, <2>6 DEF HonestInv
<1>2. CASE ~Connected
  BY <1>2, Unconcerned DEF CloseNotified
<1> QED
  BY <1>1, <1>2

\* Every step keeps what is said of an honest peer: one case for each action
\* that touches the packets, the keep-alive state or the two threads.
LEMMA HonestInvNext == IInv /\ StartInv /\ HonestInv /\ [Next]_vars => HonestInv'
<1> SUFFICES ASSUME IInv, StartInv, HonestInv, [Next]_vars, ~lied, ~lied' PROVE HonestInv'
  BY LiedForGood DEF HonestInv
<1>h. /\ reason = "none"
      /\ Asked \/ asked \in {<<>>, <<Terminate>>}
      /\ Answered \/ inbox \in {<<>>, <<Terminate>>}
      /\ sock = "open" => asked \in {<<>>, <<Request>>}
      /\ peer = "there" => inbox \in {<<>>, <<Response(Request)>>}
      /\ Asked => ~Answered /\ receive # "noting"
      /\ Answered => receive # "noting"
      /\ Asked \/ Answered \/ receive = "noting" =>
           keepalive \in {"testing", "failed", "expired", "ended"} /\ ~kpa.recd
      /\ keepalive = "requesting" => ~kpa.recd
  BY DEF HonestInv
<1>k. kpa \in [seqctr : Nat, etime : 0..MaxRounds, recd : BOOLEAN]
  BY DEF IInv, TypeOK
<1>1. CASE Start
  <2>1. main = "start" /\ UNCHANGED <<asked, inbox, reason, kpa, lied, peer>> /\ receive' # "noting"
    BY <1>1 DEF Start, NoReceiver, NoConnection, NotConnected, NotExchanged, Established, netVars, kaVars, peerVars,
      IInv, MainInv
  <2>2. asked = <<>> /\ keepalive' \in {"none", "asking"}
    BY <1>1, <2>1 DEF Start, NoReceiver, NoConnection, NotConnected, NotExchanged, Established, StartInv
  <2>3. keepalive = "none"
    BY <2>1 DEF StartInv
  <2>4. ~Asked /\ ~Answered
    BY <1>h, <2>3
  <2>5. Asked' = Asked /\ Answered' = Answered /\ Terminate' = Terminate /\ Response(Request)' = Response(Request)
    BY <2>1 DEF Asked, Answered, Terminate, Response, Request
  <2> QED
    BY <1>h, <2>1, <2>2, <2>4, <2>5 DEF HonestInv
<1>2. CASE AppSends \/ AppReturns \/ MainFreesConnection \/ MainFreesReceiver
  BY <1>2, Unconcerned DEF AppSends, AppReturns, MainFreesConnection, MainFreesReceiver, netVars, kaVars, peerVars
<1>3. CASE AppQuits \/ MainCloses
  BY <1>3, CloseKeepsHonest DEF AppQuits, MainCloses, kaVars, peerVars
<1>4. CASE ReceiveTerminate
  <2>1. sock' = "closed" /\ inbox' = <<>> /\ receive' = "disposing" /\ UNCHANGED <<keepalive, asked, reason, kpa, peer, lied>>
    BY <1>4 DEF ReceiveTerminate, kaVars, peerVars
  <2>2. Asked' = Asked /\ Terminate' = Terminate
    BY <2>1 DEF Asked, Request, Terminate
  <2>3. ~Answered'
    BY <2>1, Queues DEF Answered
  <2> QED
    BY <1>h, <2>1, <2>2, <2>3 DEF HonestInv
<1>5. CASE ReceiveResponse
  <2>1. inbox # <<>> /\ Head(inbox).kind = "response"
    BY <1>5 DEF ReceiveResponse, Packets
  <2>2. inbox # <<Terminate>>
    BY <2>1, Queues DEF Terminate
  <2>3. Answered
    BY <2>1, <2>2, <1>h
  <2>4. Head(inbox) = Response(Request)
    BY <2>3, Queues DEF Answered
  <2>5. Head(inbox).seq = kpa.seqctr /\ Head(inbox).time = kpa.etime
    BY <2>4 DEF Response, Request
  <2>6. /\ kpa' = [kpa EXCEPT !.seqctr = @ + 1] /\ inbox' = Tail(inbox) /\ receive' = "noting"
        /\ UNCHANGED <<sock, asked, reason, keepalive, lied, peer>>
    BY <1>5, <2>5 DEF ReceiveResponse, peerVars
  <2>7. inbox' \in {<<>>, <<Terminate>>} /\ (inbox = <<Response(Request)>> => inbox' = <<>>)
    <3>1. CASE inbox = <<Response(Request)>>
      BY <2>6, <3>1, Queues
    <3>2. CASE inbox = <<Response(Request), Terminate>>
      <4>1. inbox' = <<Terminate>>
        BY <2>6, <3>2, Queues
      <4>2. \A x, y : <<x>> # <<x, y>>
        OBVIOUS
      <4> QED
        BY <3>2, <4>1, <4>2
    <3> QED
      BY <2>3, <3>1, <3>2 DEF Answered
  <2>8. ~Answered' /\ Terminate' = Terminate
    <3>1. Answered' => inbox' # <<>> /\ Head(inbox').kind = "response"
      BY Queues DEF Answered, Response
    <3> QED
      BY <3>1, <2>7, Queues DEF Terminate
  <2>9. ~Asked /\ asked \in {<<>>, <<Terminate>>}
    BY <1>h, <2>3
  <2>10. ~Asked'
    <3>1. Asked' => asked' # <<>> /\ Head(asked').kind = "request"
      BY Queues DEF Asked, Request
    <3> QED
      BY <3>1, <2>6, <2>9, Queues DEF Terminate
  <2>11. kpa'.recd = kpa.recd /\ keepalive \in {"testing", "failed", "expired", "ended"} /\ ~kpa.recd
    BY <1>h, <1>k, <2>3, <2>6
  <2>12. sock = "open" => asked = <<>>
    <3>1. <<Terminate>> # <<Request>>
      BY Queues DEF Terminate, Request
    <3> QED
      BY <1>h, <2>9, <3>1
  <2>13. peer = "there" => inbox' = <<>>
    BY <1>h, <2>1, <2>7
  <2> QED
    BY <1>h, <2>6, <2>7, <2>8, <2>9, <2>10, <2>11, <2>12, <2>13 DEF HonestInv
<1>6. CASE NoteResponse
  <2>1. /\ receive = "noting" /\ receive' = "peeking" /\ kpa' = [kpa EXCEPT !.recd = TRUE]
        /\ UNCHANGED <<keepalive, sock, asked, inbox, reason, peer, lied>>
    BY <1>6 DEF NoteResponse, netVars, peerVars
  <2>2. ~Asked /\ ~Answered /\ keepalive # "requesting"
    BY <1>h, <2>1
  <2>3. Request' = Request /\ Terminate' = Terminate
    BY <1>k, <2>1 DEF Request, Terminate
  <2>4. Asked' = Asked /\ Answered' = Answered /\ Response(Request)' = Response(Request)
    BY <2>1, <2>3 DEF Asked, Answered, Response
  <2> QED
    BY <1>h, <2>1, <2>2, <2>3, <2>4 DEF HonestInv
<1>7. CASE \/ ReceiveNothing \/ CheckConnected \/ Dispose \/ ReceiveFreesConnection
           \/ ReceiveFreesKeepAlive \/ ReceiveFreesReceiver \/ ReceiveAborted
  BY <1>7, Unconcerned DEF ReceiveNothing, CheckConnected, Dispose, ReceiveFreesConnection,
    ReceiveFreesKeepAlive, ReceiveFreesReceiver, ReceiveAborted, netVars, kaVars, peerVars
<1>8. CASE ForgetConnection
  BY <1>8, Unconcerned DEF ForgetConnection, AfterForgetting, netVars, kaVars, peerVars
<1>9. CASE Ask
  <2>1. keepalive = "asking" /\ keepalive' \in {"requesting", "failed"}
        /\ UNCHANGED <<receive, sock, asked, inbox, reason, peer, lied>>
    BY <1>9 DEF Ask, peerVars
  <2>2. ~Asked /\ ~Answered /\ receive # "noting"
    BY <1>h, <2>1
  <2>3. asked \in {<<>>, <<Terminate>>} /\ inbox \in {<<>>, <<Terminate>>} /\ Terminate' = Terminate
    BY <1>h, <2>2 DEF Terminate
  <2>4. ~Asked'
    <3>1. Asked' => asked' # <<>> /\ Head(asked').kind = "request"
      BY Queues DEF Asked, Request
    <3> QED
      BY <3>1, <2>1, <2>3, Queues DEF Terminate
  <2>5. ~Answered'
    <3>1. Answered' => inbox' # <<>> /\ Head(inbox').kind = "response"
      BY Queues DEF Answered, Response
    <3> QED
      BY <3>1, <2>1, <2>3, Queues DEF Terminate
  <2>6. ~kpa'.recd
    BY <1>9, <1>k DEF Ask
  <2>7. (sock = "open" => asked = <<>>) /\ (peer = "there" => inbox = <<>>)
    <3>1. <<Terminate>> # <<Request>> /\ <<Terminate>> # <<Response(Request)>>
      BY Queues DEF Terminate, Request, Response
    <3> QED
      BY <1>h, <2>3, <3>1
  <2> QED
    BY <1>h, <2>1, <2>2, <2>3, <2>4, <2>5, <2>6, <2>7 DEF HonestInv
<1>10. CASE SendRequest
  <2>1. /\ keepalive = "requesting" /\ keepalive' = "testing"
        /\ sock = "open" /\ asked' = Append(asked, Request)
        /\ UNCHANGED <<receive, sock, inbox, reason, kpa, peer, lied>>
    BY <1>10 DEF SendRequest, kaVars, peerVars
  <2>2. ~Asked /\ ~Answered /\ receive # "noting" /\ ~kpa.recd
    BY <1>h, <2>1
  <2>3. Request' = Request /\ Terminate' = Terminate /\ Response(Request)' = Response(Request)
    BY <2>1 DEF Request, Terminate, Response
  <2>4. Answered' = Answered
    BY <2>1, <2>3 DEF Answered
  <2>5. asked = <<>>
    BY <1>h, <2>1, <2>2 DEF Asked
  <2>6. asked' = <<Request>>
    BY <2>1, <2>5, Queues
  <2>7. Asked'
    BY <2>3, <2>6 DEF Asked
  <2> QED
    BY <1>h, <2>1, <2>2, <2>3, <2>4, <2>6, <2>7 DEF HonestInv
<1>16. CASE RequestNotSent
  <2>1. /\ keepalive = "requesting" /\ keepalive' = "failed"
        /\ UNCHANGED <<receive, sock, asked, inbox, reason, kpa, peer, lied>>
    BY <1>16 DEF RequestNotSent, kaVars, peerVars
  <2>2. Asked' = Asked /\ Answered' = Answered /\ Response(Request)' = Response(Request)
        /\ Request' = Request /\ Terminate' = Terminate
    BY <2>1 DEF Asked, Answered, Response, Request, Terminate
  <2> QED
    BY <1>h, <2>1, <2>2 DEF HonestInv
<1>11. CASE TestAnswered \/ Sleep
  <2>1. UNCHANGED <<receive, sock, asked, inbox, reason, kpa, peer, lied>>
    BY <1>11 DEF TestAnswered, Sleep, netVars, kaVars, peerVars
  <2>2. Asked' = Asked /\ Answered' = Answered /\ Response(Request)' = Response(Request)
        /\ Request' = Request /\ Terminate' = Terminate
    BY <2>1 DEF Asked, Answered, Response, Request, Terminate
  <2>3. keepalive' # "requesting"
    BY <1>11 DEF TestAnswered, Sleep
  <2>4. Asked \/ Answered \/ receive = "noting" => keepalive' \in {"testing", "failed", "expired", "ended"}
    BY <1>11, <1>h DEF TestAnswered, Sleep
  <2> QED
    BY <1>h, <2>1, <2>2, <2>3, <2>4 DEF HonestInv
<1>12. CASE PeerAnswers
  <2>1. /\ peer = "there" /\ asked # <<>> /\ Head(asked).kind = "request"
        /\ inbox' = IF sock = "open" THEN Append(inbox, Response(Head(asked))) ELSE inbox
        /\ asked' = Tail(asked)
        /\ UNCHANGED <<receive, keepalive, sock, reason, kpa, peer, lied>>
    BY <1>12 DEF PeerAnswers, Deliver, kaVars
  <2>2. Request' = Request /\ Terminate' = Terminate /\ Response(Request)' = Response(Request)
    BY <2>1 DEF Request, Terminate, Response
  <2>3. Asked
    BY <2>1, <1>h, Queues DEF Terminate
  <2>4. Head(asked) = Request /\ asked' \in {<<>>, <<Terminate>>}
        /\ (asked = <<Request>> => asked' = <<>>)
    <3>1. CASE asked = <<Request>>
      BY <2>1, <3>1, Queues
    <3>2. CASE asked = <<Request, Terminate>>
      <4>1. Head(asked) = Request /\ asked' = <<Terminate>>
        BY <2>1, <3>2, Queues
      <4>2. \A x, y : <<x>> # <<x, y>>
        OBVIOUS
      <4> QED
        BY <3>2, <4>1, <4>2
    <3> QED
      BY <2>3, <3>1, <3>2 DEF Asked
  <2>5. ~Answered /\ inbox = <<>>
    BY <1>h, <2>1, <2>3 DEF Answered
  <2>6. \/ inbox' = <<Response(Request)>>
        \/ inbox' = <<>>
    BY <2>1, <2>4, <2>5, Queues
  <2>7. ~Asked'
    <3>1. Asked => asked # <<>> /\ Head(asked).kind = "request"
      BY Queues DEF Asked, Request
    <3>2. Asked' => asked' # <<>> /\ Head(asked').kind = "request"
      BY Queues DEF Asked, Request
    <3> QED
      BY <3>2, <2>4, Queues DEF Terminate
  <2>8. sock = "open" => asked' = <<>>
    BY <1>h, <2>4, <2>1
  <2>9. Answered' \/ inbox' = <<>>
    BY <2>2, <2>6 DEF Answered
  <2>10. receive # "noting" /\ keepalive \in {"testing", "failed", "expired", "ended"} /\ ~kpa.recd
    BY <1>h, <2>3
  <2> QED
    BY <1>h, <2>1, <2>2, <2>4, <2>6, <2>7, <2>8, <2>9, <2>10 DEF HonestInv
<1>13. CASE PeerLies
  BY <1>13 DEF PeerLies
<1>14. CASE PeerTerminates
  <2>1. /\ peer = "there" /\ peer' = "gone"
        /\ inbox' = IF sock = "open" THEN Append(inbox, Terminate) ELSE inbox
        /\ UNCHANGED <<receive, keepalive, sock, asked, reason, kpa, lied>>
    BY <1>14 DEF PeerTerminates, Deliver, Terminate, kaVars
  <2>2. Request' = Request /\ Terminate' = Terminate /\ Response(Request)' = Response(Request) /\ Asked' = Asked
    BY <2>1 DEF Request, Terminate, Response, Asked
  <2>3. \/ inbox = <<>> /\ inbox' \in {<<>>, <<Terminate>>} /\ ~Answered
        \/ inbox = <<Response(Request)>> /\ inbox' \in {<<Response(Request)>>, <<Response(Request), Terminate>>} /\ Answered
    <3>1. inbox \in {<<>>, <<Response(Request)>>}
      BY <1>h, <2>1
    <3>2. CASE inbox = <<>>
      <4>1. ~Answered
        BY <3>2, Queues DEF Answered
      <4> QED
        BY <2>1, <3>2, <4>1, Queues
    <3>3. CASE inbox = <<Response(Request)>>
      BY <2>1, <3>3, Queues DEF Answered
    <3> QED
      BY <3>1, <3>2, <3>3
  <2>4. Answered' = Answered
    <3>1. CASE Answered
      BY <3>1, <2>2, <2>3, Queues DEF Answered
    <3>2. CASE ~Answered
      <4>1. inbox' \in {<<>>, <<Terminate>>}
        BY <3>2, <2>3
      <4>2. Answered' => inbox' # <<>> /\ Head(inbox').kind = "response"
        BY Queues DEF Answered, Response
      <4>3. ~Answered'
        BY <4>1, <4>2, Queues DEF Terminate
      <4> QED
        BY <3>2, <4>3 DEF Answered
    <3> QED
      BY <3>1, <3>2
  <2>5. Answered' \/ inbox' \in {<<>>, <<Terminate>>}
    BY <2>3, <2>4
  <2> QED
    BY <1>h, <2>1, <2>2, <2>4, <2>5 DEF HonestInv
<1>15. CASE PeerVanishes \/ PeerToldToClose \/ UNCHANGED vars
  BY <1>15, Unconcerned DEF PeerVanishes, PeerToldToClose, vars, netVars, kaVars, peerVars
<1> QED
  BY <1>1, <1>2, <1>3, <1>4, <1>5, <1>6, <1>7, <1>8, <1>9, <1>10, <1>11, <1>12, <1>13, <1>14, <1>15, <1>16
  DEF Next, Application, Return, ReceiveThread, KeepAliveThread, PeerSteps

-----------------------------------------------------------------------------
(* The properties of the run, for all bounds *)

\* Whatever the threads do in whatever order, the variables have their types.
THEOREM SessionTypeCorrect == Spec => []TypeOK
<1>1. IInv => TypeOK
  BY DEF IInv
<1> QED
  BY InitInv, NextInv, <1>1, PTL DEF Spec

\* The code after the send function can touch freed memory only in the five
\* functions that close or free there, and the receive thread only in the two
\* simplex listeners (qsmpclient.c:1430-1795).
THEOREM MisuseConfined == Spec => []WhoMisuses
<1>1. IInv => WhoMisuses
  BY DEF IInv
<1> QED
  BY InitInv, NextInv, <1>1, PTL DEF Spec

\* When the receive thread has ended nothing of the session is held any more.
THEOREM MemoryGivenBack == Spec => []GivenBack
<1>1. IInv => GivenBack
  BY DEF IInv, PastInv, Forgetting, GivenBack, Objects
<1> QED
  BY InitInv, NextInv, <1>1, PTL DEF Spec

\* Whatever the two threads of a listener do at once, the receive thread never
\* closes a peer that sends every request back as it came for a bad keep-alive: the
\* other thread asks again only when the answer has been noted (qsmpclient.c:604-628,
\* 716-741).  That thread's own close of a peer as expired (617) is not covered.
THEOREM HonestPeerIsKept == Spec => []HonestPeerKept
<1>1. Init => HInv
  <2>1. Init => StartInv
    BY DEF Init, StartInv
  <2>2. Init => HonestInv
    <3> SUFFICES ASSUME Init PROVE HonestInv
      OBVIOUS
    <3>1. asked = <<>> /\ inbox = <<>> /\ reason = "none" /\ receive = "none" /\ keepalive = "none"
      BY DEF Init
    <3>2. ~Asked /\ ~Answered
      BY <3>1, Queues DEF Asked, Answered
    <3> QED
      BY <3>1, <3>2 DEF HonestInv
  <2> QED
    BY <2>1, <2>2, InitInv DEF HInv
<1>2. HInv /\ [Next]_vars => HInv'
  BY NextInv, StartInvNext, HonestInvNext DEF HInv
<1>3. HInv => HonestPeerKept
  BY DEF HInv, HonestInv, HonestPeerKept
<1> QED
  BY <1>1, <1>2, <1>3, PTL DEF Spec
=============================================================================
