------------------------------- MODULE Server -------------------------------
(***************************************************************************)
(* The server, qsmpserver.c: an accept loop that claims a slot of the      *)
(* connection collection, accepts a peer into it and starts a receiver     *)
(* thread on it; the receiver threads; and the calls an application makes  *)
(* from another thread: pause, resume, quit and broadcast.  All of them    *)
(* use the collection of module Connections at once.  The mutexes around   *)
(* some of the steps exclude nobody, because qsc_async_mutex_lock_ex makes *)
(* a new mutex at every call: the steps of different threads interleave.   *)
(* In particular those of qsmp_connections_reset, which is a search and    *)
(* three writes here, and those of quit, which clears slot after slot.     *)
(*                                                                         *)
(* A thread keeps a pointer to its slot.  When the collection grows its    *)
(* arrays may move, and when it is disposed they are freed: a pointer is   *)
(* an index and the generation of the memory it points into.               *)
(***************************************************************************)
EXTENDS Connections

CONSTANTS
  InitCount,  \* slots the collection starts with (QSMP_CONNECTIONS_INIT)
  Calls       \* the calls the application makes

ASSUME InitCountAssumption == InitCount \in 1 .. MaxSlots
ASSUME CallsAssumption == Calls \subseteq {"pause", "resume", "quit", "broadcast"}
ASSUME CallersAssumption == {"loop", "quit"} \cap Peers = {}

VARIABLES
  gen,        \* generation of the arrays
  run,        \* m_server_run
  pause,      \* m_server_pause
  acc,        \* the accept loop: where it is, its slot, its poll index and count
  thread,     \* the receiver thread of each peer, and the slot it was given
  sock,       \* the server's socket of each peer
  reset,      \* the calls of qsmp_connections_reset: place, number to find, index
  quit,       \* the call of qsmp_server_quit
  cast,       \* the call of qsmp_server_broadcast
  stray,      \* peers that were sent a packet of zeros in their key exchange
  crash,      \* what ended the process, or "no"
  late        \* history: joins while paused, or since quit has freed the collection

serverVars == <<gen, run, pause, acc, thread, sock, reset, quit, cast, stray, crash, late>>
vars == <<poolVars, serverVars>>

Valid(ptr) == alloc = "live" /\ ptr.gen = gen

\* Who calls qsmp_connections_reset: the accept loop, quit, the thread of a peer.
Callers == {"loop", "quit"} \cup Peers
NotCalling == [at |-> "idle", n |-> 0, i |-> 0]
Returned(a) == reset[a].at = "idle"

Live(c) == thread[c].at \in {"begin", "exchange", "receive", "exit"}

\* qsc_socket_is_connected asks for the pending error of the socket, which the
\* first one to ask takes away; a zeroed target is no socket at all.
SocketOf(i) == IF conset[i].peer = NoPeer THEN "closed" ELSE sock[conset[i].peer]
SeenUp(i) == SocketOf(i) \in {"open", "eof", "reset"}
SeenDown(i) == SocketOf(i) \in {"reset", "closed"}

CloseSocketOf(i) ==
  sock' = IF conset[i].peer = NoPeer THEN sock ELSE [sock EXCEPT ![conset[i].peer] = "closed"]

Init ==
  /\ PoolInit
  /\ gen = 0 /\ run = FALSE /\ pause = FALSE
  /\ acc = [at |-> "start", slot |-> Null, gen |-> 0, i |-> 0, clen |-> 0]
  /\ thread = [c \in Peers |-> [at |-> "none", slot |-> Null, gen |-> 0]]
  /\ sock = [c \in Peers |-> "away"]
  /\ reset = [a \in Callers |-> NotCalling]
  /\ quit = [at |-> "idle", slot |-> 0, gen |-> 0, clen |-> 0]
  /\ cast = [at |-> "idle", i |-> 0, clen |-> 0]
  /\ stray = {} /\ crash = "no" /\ late = 0

-----------------------------------------------------------------------------
(* Mutants: each is a slip in the definition of the same name without its  *)
(* suffix.                                                                 *)

ClaimSilently ==
  /\ alloc # "lost"
  /\ IF Full THEN Add
     ELSE \E i \in Slots : /\ ~active[i]
                           /\ \A j \in 0 .. i - 1 : active[j]
                           /\ ret' = i
                           /\ UNCHANGED <<alloc, conset, active, length, maximum>>

GoOnWhilePaused == TRUE
PolledAgain(i) == [acc EXCEPT !.at = "poll", !.slot = Null, !.gen = 0]
JoinUncounted(c) == [thread EXCEPT ![c] = [at |-> "receiving", slot |-> acc.slot, gen |-> acc.gen]]
FromSecond(n) == [at |-> "match", n |-> n, i |-> 1]

-----------------------------------------------------------------------------
(* qsmp_connections_reset.  Every access of its own to the shared arrays is  *)
(* a step: the comparisons, one after the other, then the three writes.      *)

\* The caller passes the number that it finds in the slot it points to.  A
\* stale pointer crashes the process, or there is some number.
FromFirst(n) == [at |-> "match", n |-> n, i |-> 0]
ResetByNumber(a, ptr) ==
  IF Valid(ptr)
  THEN /\ reset' = [reset EXCEPT ![a] = FromFirst(conset[ptr.slot].instance)]
       /\ crash' = crash
  ELSE /\ \E n \in 0 .. MaxSlots : reset' = [reset EXCEPT ![a] = FromFirst(n)]
       /\ crash' \in {"no", "stale"}

ResetGoes(a, to) == reset' = [reset EXCEPT ![a].at = to]
ResetReturns(a) == reset' = [reset EXCEPT ![a] = NotCalling]
ResetLeaves == UNCHANGED <<alloc, length, maximum, ret, gen, run, pause, acc, thread, sock, quit, cast, stray, late>>

Match(a) ==
  /\ reset[a].at = "match"
  /\ LET i == reset[a].i IN
       \/ i >= length /\ ResetReturns(a)
       \/ i < length /\ conset[i].instance = reset[a].n /\ reset' = [reset EXCEPT ![a] = [at |-> "erase", n |-> 0, i |-> i]]
       \/ i < length /\ conset[i].instance # reset[a].n /\ reset' = [reset EXCEPT ![a].i = i + 1]
  /\ ResetLeaves
  /\ UNCHANGED <<conset, active, crash>>

\* The matched slot, unless the arrays have been freed in the meantime.
OnMatched(a, write) ==
  IF reset[a].i \in Slots THEN write /\ crash' = crash
  ELSE UNCHANGED <<conset, active>> /\ crash' \in {"no", "stale"}

Erase(a) ==
  /\ reset[a].at = "erase"
  /\ OnMatched(a, /\ conset' = [conset EXCEPT ![reset[a].i] = Cleared(0)]
                  /\ UNCHANGED active)
  /\ ResetGoes(a, "number")
  /\ ResetLeaves

Number(a) ==
  /\ reset[a].at = "number"
  /\ OnMatched(a, /\ conset' = [conset EXCEPT ![reset[a].i].instance = reset[a].i]
                  /\ UNCHANGED active)
  /\ ResetGoes(a, "free")
  /\ ResetLeaves

Free(a) ==
  /\ reset[a].at = "free"
  /\ OnMatched(a, /\ active' = [active EXCEPT ![reset[a].i] = FALSE]
                  /\ UNCHANGED conset)
  /\ ResetReturns(a)
  /\ ResetLeaves

ResetStep(a) == Match(a) \/ Erase(a) \/ Number(a) \/ Free(a)

-----------------------------------------------------------------------------
(* The accept loop, server_start *)

Start ==
  /\ acc.at = "start"
  /\ pause' = FALSE /\ run' = TRUE
  /\ Initialize(InitCount, MaxSlots)
  /\ acc' = [acc EXCEPT !.at = "next"]
  /\ UNCHANGED <<gen, thread, sock, reset, quit, cast, stray, crash, late>>

\* The growth of the arrays may move them.
ClaimSlot == NextSlot
LoopNext ==
  /\ acc.at = "next"
  /\ ClaimSlot
  /\ gen' \in IF length' = length THEN {gen} ELSE {gen, gen + 1}
  /\ acc' = IF ret' = Null THEN [acc EXCEPT !.at = "loop"]
            ELSE [acc EXCEPT !.at = "target", !.slot = ret', !.gen = gen']
  /\ UNCHANGED <<run, pause, thread, sock, reset, quit, cast, stray, crash, late>>

\* qsc_socket_accept clears the target before it waits for a peer.
TargetCleared ==
  /\ acc.at = "target"
  /\ IF Valid(acc)
     THEN /\ conset' = [conset EXCEPT ![acc.slot] = [@ EXCEPT !.peer = NoPeer, !.up = FALSE]]
          /\ crash' = crash
     ELSE /\ conset' = conset
          /\ crash' \in {"no", "stale"}
  /\ acc' = [acc EXCEPT !.at = "accept"]
  /\ UNCHANGED <<alloc, active, length, maximum, ret>>
  /\ UNCHANGED <<gen, run, pause, thread, sock, reset, quit, cast, stray, late>>

\* Accept writes the target and the thread starts with the slot as it is then;
\* that a thread could not be created goes unnoticed.
ThreadStarted(c) == [thread EXCEPT ![c] = [at |-> "begin", slot |-> acc.slot, gen |-> acc.gen]]
AcceptPeer(c) ==
  /\ acc.at = "accept"
  /\ sock[c] = "queued"
  /\ sock' = [sock EXCEPT ![c] = "open"]
  /\ IF Valid(acc)
     THEN /\ conset' = [conset EXCEPT ![acc.slot] = [@ EXCEPT !.peer = c, !.up = TRUE]]
          /\ crash' = crash
     ELSE /\ conset' = conset
          /\ crash' \in {"no", "stale"}
  /\ thread' \in {ThreadStarted(c), thread}
  /\ acc' = [at |-> "poll", slot |-> Null, gen |-> 0, i |-> 0, clen |-> length]
  /\ late' = IF pause \/ quit.at \in {"flag", "done"} THEN late + 1 ELSE late
  /\ UNCHANGED <<alloc, active, length, maximum, ret, gen, run, pause, reset, quit, cast, stray>>

AtLoop == [at |-> "loop", slot |-> Null, gen |-> 0, i |-> 0, clen |-> 0]

\* No memory for the thread's context; the accepted socket stays open.
AcceptNoMemory(c) ==
  /\ acc.at = "accept"
  /\ sock[c] = "queued"
  /\ sock' = [sock EXCEPT ![c] = "open"]
  /\ ResetByNumber("loop", acc)
  /\ acc' = AtLoop
  /\ UNCHANGED <<poolVars, gen, run, pause, thread, quit, cast, stray, late>>

AcceptFails ==
  /\ acc.at = "accept"
  /\ ResetByNumber("loop", acc)
  /\ acc' = AtLoop
  /\ UNCHANGED <<poolVars, gen, run, pause, thread, sock, quit, cast, stray, late>>

\* server_poll_sockets, one slot at a time: test the socket, then reset.
Polled(i) == [acc EXCEPT !.at = "poll", !.slot = Null, !.gen = 0, !.i = i + 1]
PollSlot ==
  /\ acc.at = "poll"
  /\ acc.i < acc.clen
  /\ IF acc.i \in Slots /\ active[acc.i]
     THEN \/ SeenUp(acc.i) /\ acc' = Polled(acc.i)
          \/ SeenDown(acc.i) /\ acc' = [acc EXCEPT !.at = "pollReset", !.slot = acc.i, !.gen = gen]
     ELSE acc' = Polled(acc.i)
  /\ UNCHANGED <<poolVars, gen, run, pause, thread, sock, reset, quit, cast, stray, crash, late>>

PollReset ==
  /\ acc.at = "pollReset"
  /\ ResetByNumber("loop", acc)
  /\ acc' = Polled(acc.i)
  /\ UNCHANGED <<poolVars, gen, run, pause, thread, sock, quit, cast, stray, late>>

PollDone ==
  /\ acc.at = "poll"
  /\ acc.i >= acc.clen
  /\ acc' = AtLoop
  /\ UNCHANGED <<poolVars, gen, run, pause, thread, sock, reset, quit, cast, stray, crash, late>>

\* while (m_server_pause == true) sleep; while (m_server_run == true)
MayGoOn == ~pause
LoopAgain ==
  /\ acc.at = "loop"
  /\ MayGoOn
  /\ acc' = [acc EXCEPT !.at = IF run THEN "next" ELSE "ended"]
  /\ UNCHANGED <<poolVars, gen, run, pause, thread, sock, reset, quit, cast, stray, crash, late>>

-----------------------------------------------------------------------------
(* The receiver threads, server_receive_loop *)

Step(c, to) == thread' = [thread EXCEPT ![c].at = to]

\* A thread that ends frees its context with the pointer in it.
NoThread(at) == [at |-> at, slot |-> Null, gen |-> 0]
ThreadDone(c) == thread' = [thread EXCEPT ![c] = NoThread("done")]

ThreadLeaves == UNCHANGED <<gen, run, pause, acc, quit, cast, stray, late>>

\* server_state_initialize zeroes the instance number with the rest.
Begun(s) == [s EXCEPT !.instance = 0, !.established = FALSE]
ThreadBegins(c) ==
  /\ thread[c].at = "begin"
  /\ Valid(thread[c])
  /\ conset' = [conset EXCEPT ![thread[c].slot] = Begun(@)]
  /\ Step(c, "exchange")
  /\ ThreadLeaves
  /\ UNCHANGED <<alloc, active, length, maximum, ret, sock, reset, crash>>

\* No memory for the exchange state: the thread ends and keeps its slot.
ThreadNoMemory(c) ==
  /\ thread[c].at = "begin"
  /\ ThreadDone(c)
  /\ ThreadLeaves
  /\ UNCHANGED <<poolVars, sock, reset, crash>>

\* The exchange runs over the socket the slot has now; a packet of zeros in the
\* peer's stream makes the peer give it up.
Establish(c) ==
  /\ thread[c].at = "exchange"
  /\ Valid(thread[c])
  /\ LET s == thread[c].slot IN
       /\ SocketOf(s) \in {"open", "eof"} /\ conset[s].peer \notin stray
       /\ conset' = [conset EXCEPT ![s].established = TRUE]
  /\ Step(c, "receive")
  /\ ThreadLeaves
  /\ UNCHANGED <<alloc, active, length, maximum, ret, sock, reset, crash>>

\* qsmp_connection_state_dispose also zeroes the instance number.
ExchangeFails(c) ==
  /\ thread[c].at = "exchange"
  /\ Valid(thread[c])
  /\ LET s == thread[c].slot IN
       /\ IF conset[s].up THEN CloseSocketOf(s) ELSE UNCHANGED sock
       /\ conset' = [conset EXCEPT ![s] = Cleared(0)]
  /\ Step(c, "exit")
  /\ ThreadLeaves
  /\ UNCHANGED <<alloc, active, length, maximum, ret, reset, crash>>

\* The receive loop ends: the slot no longer says connected, or a packet or a
\* socket error makes the thread close the connection.  qsmp_connection_close
\* leaves a socket open when it is the one to see its pending error; receiving
\* from a closed socket is no fatal error and the loop goes on.
LoopEnds(c) ==
  /\ thread[c].at = "receive"
  /\ Valid(thread[c])
  /\ LET s == thread[c].slot IN
       \/ ~conset[s].up /\ UNCHANGED sock
       \/ conset[s].up /\ SocketOf(s) # "closed" /\ CloseSocketOf(s)
       \/ conset[s].up /\ SocketOf(s) = "reset" /\ UNCHANGED sock
  /\ Step(c, "exit")
  /\ ThreadLeaves
  /\ UNCHANGED <<poolVars, reset, crash>>

ThreadExits(c) ==
  /\ thread[c].at = "exit"
  /\ Valid(thread[c])
  /\ ResetByNumber(c, thread[c])
  /\ ThreadDone(c)
  /\ ThreadLeaves
  /\ UNCHANGED <<poolVars, sock>>

\* A thread whose pointer is stale reads what the freed memory holds: the
\* process crashes, or the thread ends and resets whatever number it read.
ThreadStale(c) ==
  /\ Live(c)
  /\ ~Valid(thread[c])
  /\ ResetByNumber(c, thread[c])
  /\ ThreadDone(c)
  /\ ThreadLeaves
  /\ UNCHANGED <<poolVars, sock>>

-----------------------------------------------------------------------------
(* The peers *)

PeerMoves(c, from, to) ==
  /\ sock[c] = from
  /\ sock' = [sock EXCEPT ![c] = to]
  /\ UNCHANGED <<poolVars, gen, run, pause, acc, thread, reset, quit, cast, stray, crash, late>>

PeerConnects(c) == PeerMoves(c, "away", "queued")
PeerCloses(c) == PeerMoves(c, "open", "eof")
PeerResets(c) == PeerMoves(c, "open", "reset")

-----------------------------------------------------------------------------
(* The application's calls *)

Pause ==
  /\ "pause" \in Calls /\ acc.at # "start" /\ ~pause
  /\ pause' = TRUE
  /\ UNCHANGED <<poolVars, gen, run, acc, thread, sock, reset, quit, cast, stray, crash, late>>

Resume ==
  /\ "resume" \in Calls /\ pause
  /\ pause' = FALSE
  /\ late' = 0
  /\ UNCHANGED <<poolVars, gen, run, acc, thread, sock, reset, quit, cast, stray, crash>>

QuitBegin ==
  /\ "quit" \in Calls /\ acc.at # "start" /\ quit.at = "idle"
  /\ quit' = [at |-> "slot", slot |-> 0, gen |-> 0, clen |-> length]
  /\ UNCHANGED <<poolVars, gen, run, pause, acc, thread, sock, reset, cast, stray, crash, late>>

QuitSlot ==
  /\ quit.at = "slot" /\ quit.slot < quit.clen
  /\ IF quit.slot \in Slots /\ active[quit.slot]
     THEN /\ quit' = [quit EXCEPT !.at = "reset", !.gen = gen]
          /\ \/ SeenUp(quit.slot) /\ CloseSocketOf(quit.slot)
             \/ SeenDown(quit.slot) /\ UNCHANGED sock
     ELSE /\ quit' = [quit EXCEPT !.slot = @ + 1]
          /\ UNCHANGED sock
  /\ UNCHANGED <<poolVars, gen, run, pause, acc, thread, reset, cast, stray, crash, late>>

QuitReset ==
  /\ quit.at = "reset"
  /\ ResetByNumber("quit", quit)
  /\ quit' = [quit EXCEPT !.at = "slot", !.slot = @ + 1]
  /\ UNCHANGED <<poolVars, gen, run, pause, acc, thread, sock, cast, stray, late>>

\* The dispose clears all states at once, then frees and numbers slot by slot.
QuitErase ==
  /\ quit.at = "slot" /\ quit.slot >= quit.clen
  /\ conset' = [i \in Slots |-> Cleared(0)]
  /\ quit' = [quit EXCEPT !.at = "clear", !.slot = 0]
  /\ UNCHANGED <<alloc, active, length, maximum, ret>>
  /\ UNCHANGED <<gen, run, pause, acc, thread, sock, reset, cast, stray, crash, late>>

QuitFree ==
  /\ quit.at = "clear" /\ quit.slot < length
  /\ active' = [active EXCEPT ![quit.slot] = FALSE]
  /\ quit' = [quit EXCEPT !.at = "number"]
  /\ UNCHANGED <<alloc, conset, length, maximum, ret>>
  /\ UNCHANGED <<gen, run, pause, acc, thread, sock, reset, cast, stray, crash, late>>

QuitNumber ==
  /\ quit.at = "number"
  /\ conset' = [conset EXCEPT ![quit.slot].instance = quit.slot]
  /\ quit' = [quit EXCEPT !.at = "clear", !.slot = @ + 1]
  /\ UNCHANGED <<alloc, active, length, maximum, ret>>
  /\ UNCHANGED <<gen, run, pause, acc, thread, sock, reset, cast, stray, crash, late>>

QuitDispose ==
  /\ quit.at = "clear" /\ quit.slot >= length
  /\ Dispose
  /\ gen' = gen + 1
  /\ quit' = [at |-> "flag", slot |-> 0, gen |-> 0, clen |-> 0]
  /\ UNCHANGED <<run, pause, acc, thread, sock, reset, cast, stray, crash, late>>

QuitFlag ==
  /\ quit.at = "flag"
  /\ run' = FALSE
  /\ quit' = [quit EXCEPT !.at = "done"]
  /\ UNCHANGED <<poolVars, gen, pause, acc, thread, sock, reset, cast, stray, crash, late>>

CastBegin ==
  /\ "broadcast" \in Calls /\ acc.at # "start" /\ cast.at = "idle"
  /\ cast' = [at |-> "slot", i |-> 0, clen |-> length]
  /\ UNCHANGED <<poolVars, gen, run, pause, acc, thread, sock, reset, quit, stray, crash, late>>

\* The packet has no message buffer: for an established session the encryption
\* writes through a NULL pointer; for another one the encryption does nothing
\* and the zeroed packet is sent as it is.
CastSlot ==
  /\ cast.at = "slot" /\ cast.i < cast.clen
  /\ cast' = [cast EXCEPT !.i = @ + 1]
  /\ \/ /\ cast.i \in Slots /\ active[cast.i] /\ SeenUp(cast.i)
        /\ IF conset[cast.i].established
           THEN crash' = "broadcast" /\ UNCHANGED stray
           ELSE stray' = stray \cup {conset[cast.i].peer} /\ UNCHANGED crash
     \/ /\ cast.i \in Slots /\ active[cast.i] => SeenDown(cast.i)
        /\ UNCHANGED <<stray, crash>>
  /\ UNCHANGED <<poolVars, gen, run, pause, acc, thread, sock, reset, quit, late>>

CastDone ==
  /\ cast.at = "slot" /\ cast.i >= cast.clen
  /\ cast' = [at |-> "idle", i |-> 0, clen |-> 0]
  /\ UNCHANGED <<poolVars, gen, run, pause, acc, thread, sock, reset, quit, stray, crash, late>>

-----------------------------------------------------------------------------

\* The steps of the accept loop that wait for nobody.
LoopStep ==
  \/ /\ Returned("loop")
     /\ Start \/ LoopNext \/ TargetCleared \/ PollSlot \/ PollReset \/ PollDone \/ LoopAgain
  \/ ResetStep("loop")

QuitStep ==
  \/ /\ Returned("quit")
     /\ QuitBegin \/ QuitSlot \/ QuitReset \/ QuitErase \/ QuitFree \/ QuitNumber \/ QuitDispose \/ QuitFlag
  \/ ResetStep("quit")

ThreadStep(c) ==
  \/ ThreadBegins(c) \/ ThreadNoMemory(c) \/ Establish(c) \/ ExchangeFails(c)
  \/ LoopEnds(c) \/ ThreadExits(c) \/ ThreadStale(c) \/ ResetStep(c)

CallStep ==
  \/ Pause \/ Resume
  \/ QuitStep
  \/ CastBegin \/ CastSlot \/ CastDone

\* A process that has crashed takes no step; after a failed allocation of the
\* arrays the next use of the collection goes through a NULL pointer.
Running == crash = "no" /\ alloc # "lost"
ServerNext ==
  /\ Running
  /\ \/ LoopStep \/ AcceptFails \/ CallStep
     \/ \E c \in Peers : AcceptPeer(c) \/ AcceptNoMemory(c) \/ ThreadStep(c)
     \/ \E c \in Peers : PeerConnects(c) \/ PeerCloses(c) \/ PeerResets(c)

ServerSpec == Init /\ [][ServerNext]_vars

\* The accept loop's thread runs, and accept does not fail for ever while a
\* connection is queued.
LoopFairness ==
  /\ WF_vars(Running /\ LoopStep)
  /\ SF_vars(Running /\ \E c \in Peers : AcceptPeer(c) \/ AcceptNoMemory(c))

ServerFairSpec == ServerSpec /\ LoopFairness

-----------------------------------------------------------------------------
(* Properties *)

\* Type correctness of the server's own variables.
ServerTypeOK ==
  /\ gen \in Nat /\ run \in BOOLEAN /\ pause \in BOOLEAN /\ late \in Nat
  /\ acc \in [at : {"start", "next", "target", "accept", "poll", "pollReset", "loop", "ended"},
              slot : {Null} \cup Nat, gen : Nat, i : Nat, clen : Nat]
  /\ thread \in [Peers -> [at : {"none", "begin", "exchange", "receive", "exit", "done"},
                           slot : {Null} \cup Nat, gen : Nat]]
  /\ sock \in [Peers -> {"away", "queued", "open", "eof", "reset", "closed"}]
  /\ reset \in [Callers -> [at : {"idle", "match", "erase", "number", "free"}, n : Nat, i : Nat]]
  /\ quit \in [at : {"idle", "slot", "reset", "clear", "number", "flag", "done"}, slot : Nat, gen : Nat, clen : Nat]
  /\ cast \in [at : {"idle", "slot"}, i : Nat, clen : Nat]
  /\ stray \subseteq Peers
  /\ crash \in {"no", "stale", "broadcast"}

\* The number of slot 0 is 0 whatever the threads do.  As they zero the number
\* of their own slot, slot 0 is the one that the first-match search of
\* qsmp_connections_reset finds for every thread that ends.
SlotZeroIsFound == alloc = "live" => conset[0].instance = 0

\* A slot other than 0 that carries the number 0, because its thread has begun,
\* is matched by no reset from then on, neither by that of its own thread nor by
\* the poll's or quit's: it stays taken until the dispose.  Each connection on such
\* a slot costs the server the slot for good, except where a reset had matched it
\* by its own number just before the thread began.
Matched(i) == \E a \in Callers : reset[a].at \in {"erase", "number", "free"} /\ reset[a].i = i
Leaked(i) == alloc = "live" /\ active[i] /\ conset[i].instance = 0 /\ ~Matched(i)
LeakedForGood ==
  [][\A i \in Slots \ {0} :
       (Leaked(i) /\ quit.at \notin {"clear", "number"}) => Leaked(i)' \/ alloc' # "live"]_vars

\* However often it goes round, the accept loop takes at most one peer while the
\* server is paused, and at most one after quit has freed the collection: the one
\* that it was waiting for.  (Until then quit does not keep it from taking more.)
AtMostOneLateJoin == late <= 1

\* Until a slot is given back for the first time, every thread that is running
\* has an active slot of its own: claim, accept and thread start hand a slot
\* over without losing or sharing it, also across growth of the arrays.
OwnSlot(c) ==
  Valid(thread[c]) => /\ active[thread[c].slot]
                      /\ \A d \in Peers \ {c} : Live(d) => thread[d].slot # thread[c].slot
NoneGivenBack ==
  /\ \A c \in Peers : thread[c].at # "done" /\ sock[c] \notin {"reset", "closed"}
  /\ quit.at = "idle"
ExclusiveUntilGivenBack == NoneGivenBack => \A c \in Peers : Live(c) => OwnSlot(c)

\* A peer in the listen queue is accepted, unless the server is paused, quits or
\* crashes, or the collection has no slot left and the loop holds none.
Refusing ==
  \/ pause \/ ~run \/ crash # "no" \/ alloc # "live"
  \/ length = maximum /\ (\A i \in Slots : active[i]) /\ acc.at \notin {"target", "accept"}
EveryJoinAnswered == \A c \in Peers : sock[c] = "queued" ~> (sock[c] # "queued" \/ Refusing)

\* "Get the next available connection state": two receiver threads never work on
\* one connection state.
ThreadsHaveOwnSlots ==
  \A c, d \in Peers :
    (c # d /\ Live(c) /\ Live(d) /\ Valid(thread[c]) /\ Valid(thread[d]))
      => thread[c].slot # thread[d].slot
=============================================================================
