# TLA+ models and proofs of QSMP

QSMP is a C library for an encrypted, authenticated channel between two hosts. A simplex
server (`qsmpserver.c`) serves many clients, each authenticated only by the server's
signature; a duplex listener (`qsmpclient.c`) talks to one sender, and both sign. Above
a TCP socket there are three layers: a key exchange (`kex.c`), an encrypted packet
channel with sequence numbers and ratchets (`qsmp.c`, `qsmpclient.c`), and on the server
a collection of connection states shared by the accept loop, one receiver thread per
peer and the application (`connections.c`, `qsmpserver.c`).

This directory holds specifications of those parts, TLC configurations that check them
on small instances, and TLAPS proofs for every value of the constants.

## 1. Inventory

| component | state | operations | interacts with |
|---|---|---|---|
| connection collection (`connections.c`) | two arrays of equal length, connection states and active flags; length; maximum | initialize, next (claim or grow), get, reset, clear, dispose, full, size | called by every thread of the server, without a lock |
| server (`qsmpserver.c`) | run and pause flags; the accept loop's slot; a pointer to a slot per receiver thread | start, accept, receive loop, poll, pause, resume, quit, broadcast | claims and resets slots, runs the simplex exchange in a receiver thread |
| simplex key exchange (`kex.c`) | per host: exchange flag, send and receive counters, cookie, key pair; the channel ciphers it raises | 2 client and 2 server packets, final verification, error packet | over one socket, blocking receives of an exact length |
| duplex key exchange (`kex.c`) | as above, with both signature keys and both secrets | 3 client and 3 listener packets, key query callback | as above |
| packets and channel (`qsmp.c`) | two stream ciphers, two counters | encrypt, decrypt, packet to stream, stream to packet | send and receive threads of both hosts |
| client and listener (`qsmpclient.c`) | connection state, ratchet key, static key pair of the asymmetric ratchet; the heap objects of a session | four functions that connect and four that listen, receive loop, symmetric and asymmetric ratchet, close | a receive thread and the calling thread share one connection state; the receive thread frees it |
| keep-alive (`qsmpclient.c`) | request epoch, sequence, received flag, a copy of the socket | request, response, loop | the listener's keep-alive thread and receive thread; the client echoes |
| keychain (`keychain.c`) | arrays of public keys, private keys and tags | add, remove, find | nobody in the repository |
| RCS cipher (`rcs.c`) | key, counter, running MAC | transform | one context per direction in a connection state |
| hashes, MACs and generators (`sha2.c`, `sha3.c`, `poly1305.c`, `csg.c`, `hcg.c`) | an unfinished block and a position; counters; a cached block of output | update, finalize, squeeze, generate, new seed | SHA-3 and KMAC under everything; the incremental Keccak under the signature schemes |
| asymmetric ciphers (`*base.c`, `ec25519.c`, ...) | none | key pair, encapsulate, decapsulate, sign, verify | called by the exchanges and the asymmetric ratchet |
| logger, sockets, threads, mutexes, utilities, applications | files, handles, none | wrappers of the operating system, prompts | underneath or above the library |

What is hard about it:

- **Interleaving.** The mutexes of `qsmpserver.c` exclude nobody:
  `qsc_async_mutex_lock_ex` creates a new mutex at every call. Accept loop, receiver
  threads and application calls interleave at every access to the collection, and hold
  pointers into arrays that `qsc_memutils_realloc` moves and `qsmp_connections_dispose`
  frees.
- **Numbers as handles.** A thread gives its slot back by the instance number found in
  it, and `server_state_initialize` and `qsmp_connection_state_dispose` zero that
  number.
- **Failure in the middle of an exchange.** Any step may fail at one host; the other one
  is blocked, without a timeout, in a receive of the exact length of the next packet,
  which an error packet does not have.
- **Order.** Counters must stay in step across a dozen places of four functions; a
  ratchet re-keys both directions while packets are under way.
- **Two threads, one state.** The calling thread and the receive thread of a client seal
  packets, advance the counter and ratchet on one connection state without a lock, and
  the receive thread frees that state when its loop ends.
- **A byte stream for packets.** `qsc_socket_send` writes one byte more than it is
  asked, the client's loop reads two more than the packet, the server's loop reads
  whatever is there.
- **Boundaries of blocks.** Position, pointer and length are moved in three places of
  each update function, and padding may need one more block.

What makes each part correct:

- collection: a number is a handle to exactly one slot; a free slot is erased; a refusal
  only for want of memory or capacity; slots are exclusive;
- server: a running thread has a slot of its own; a slot is given back when its thread
  ends; no joins while paused; after quit no connection is served; a queued peer is
  accepted (the code keeps the first four of these only in part, see section 5);
- exchanges: established hosts hold crossed channels from the same secrets, with
  counters in step; each knows with whom; either both end established or both go down;
  no exchange hangs;
- channel and ratchets: what a host accepts is what the other sealed, in order and at
  most once; ratchets leave both with the same keys;
- session: nothing is used after it was freed, everything is given back, a closed
  session ends its threads; a peer that answers is not closed for a bad answer;
- framing: what is delivered is a prefix of what was sent;
- hashes and generators: a digest depends on the message and not on its pieces, the
  output of a generator is one stream.

## 2. Modules

| module | models | properties and proofs |
|---|---|---|
| `SlotPool` | what a user of the collection relies on: exclusive slots, growth only when all are held, release of one slot | abstract specification |
| `Connections` | `connections.c` | implements `SlotPool` |
| `Server`, `MCServer` | `qsmpserver.c` over `Connections`, with the accesses of a reset and of the dispose as steps | safety, one liveness property, one disagreement |
| `ServerProofs` | | all safety properties of `Connections`, its refinement of `SlotPool`, and all safety properties of `Server` that hold |
| `Handshake` | what a key exchange promises: server up first, client last and with its keys, down is final | abstract specification |
| `KexWire` | what both exchanges share: sending, receiving an exact length, the checks of a packet, giving up, loss and corruption | |
| `SimplexKex`, `MCSimplexKex` | simplex exchange | implements `Handshake` |
| `DuplexKex`, `MCDuplexKex` | duplex exchange | implements `Handshake` |
| `KexWireProofs` | | what the common steps of an exchange keep, for any kinds of packets |
| `SimplexKexProofs`, `DuplexKexProofs` | | all safety properties of the two exchanges, and that both implement `Handshake` |
| `SecureStream` | what an established session promises: packets of the other host in order, each at most once, nothing after closing | abstract specification |
| `Channel` | encryption, decryption, both ratchets, two threads a host, faults of the network | implements `SecureStream`; one disagreement |
| `ChannelProofs` | | all safety properties of `Channel` that hold: types, key agreement, and that it implements `SecureStream` |
| `Session` | the eight connect and listen functions, their threads and memory, the keep-alive | safety and liveness |
| `SessionProofs` | | all safety properties of `Session` |
| `Framing` | a byte stream cut into packets by both kinds of receive loop | safety and liveness |
| `FramingProofs` | | the safety properties of `Framing` |
| `Streaming` | the buffers, padding and caches of the hashes, MACs and generators | functional properties against definitions |
| `StreamingProofs` | | all of them, for every block size and length |

`PROJECT.json` maps each definition to the lines it stands for.

### Connections and SlotPool

`conset`, `active`, `length` and `maximum` are the fields of `m_connection_set` and
`m_active`. `alloc` tells apart that there is no memory, that both arrays exist, and
that an allocation failed, after which a pointer is NULL and the next operation would go
through it; nothing is modelled from there. A connection state keeps the fields that
somebody reads through the collection: instance number, peer (the socket in `target`),
connected flag, whether the session is established. `Get` keeps the last match and
`ResetSlot` the first, as the two loops of the code do. In `Connections` a holder
(`Use`) leaves the number alone; what the server's threads do to it is in `Server`.

Every operation is one step here: this is what the collection promises to one caller at
a time, and the refinement of `SlotPool` is about that. The threads of the server are
not one caller at a time. `Server` uses `NextSlot` as it is, since the accept loop alone
claims slots and sets flags, but not `Reset` or `Clear`.

### Server

Each step is what happens between two points where another thread can make a difference:
the accept loop claims a slot (`LoopNext`), clears its target (`TargetCleared`), waits
(`AcceptPeer`, `AcceptNoMemory`, `AcceptFails`), polls slot by slot with a test and a
reset of their own (`PollSlot`, `PollReset`), and reads the pause and run flags
(`LoopAgain`). A receiver thread is at begin, exchange, receive or exit.

`qsmp_connections_reset` is called by the accept loop, by quit and by every thread that
ends, without an effective lock, and its accesses are steps (`reset`, one record for
each caller): the caller reads the number in the slot it points to (`ResetByNumber`),
each comparison of the search is a step (`Match`), and so are the erasure, the new
number and the flag (`Erase`, `Number`, `Free`). In between a thread that has just been
started may zero the number of the slot that was matched, the arrays may grow, or quit
may free them, in which case the writes go to freed memory (`OnMatched`). Quit tests,
closes and resets slot by slot (`QuitSlot`, `QuitReset`), then the dispose erases all
states (`QuitErase`), frees and numbers slot by slot (`QuitFree`, `QuitNumber`), frees
the arrays (`QuitDispose`), and only then the run flag falls (`QuitFlag`); the accept
loop goes on meanwhile. One step each are: the erasure of one state or of all, the
zeroing of lengths with the two frees, and the claim (`NextSlot`): the accept loop alone
sets flags, and what is left out of its scan is only that two slots are freed meanwhile
and it takes the later one, and a scan cut by the dispose. A pointer is an index and a
generation (`gen`), which growth may and dispose does advance; a thread with a stale
pointer crashes or acts on whatever number it reads (`ThreadStale`).
`qsc_socket_is_connected` asks for the pending socket error, which the first one to ask
takes away: after a reset the same socket can be seen down once and up afterwards. A
peer connects once. The exchange is a success or a failure here, and a packet either
lets the receive loop go on or ends it.

### KexWire, SimplexKex, DuplexKex and Handshake

A host is at start, send, receive, failing, failed, session or closed. A step of `kex.c`
consumes the packet it waited for, checks it in the code's order (`Outcome` for sequence
and flag, then the verdict of the step) and creates the next packet or finds an error.
`Send`, `ReceiveFails`, `GiveUp` (error packet, shutdown, disposed state) and
`SessionEnds` are common. `CutOff` is a receive that ends without its bytes, because the
other side has shut down or the connection is lost. `err` is the error the exchange
function returns.

Differences between the two are kept: the duplex listener does not look at the sequence
of the establish request (`InSequence`), and it compares the key identity of a request
with nothing but what its key query answers, which may be the key of any client or none.
The receive loop that follows decides what a late error packet does: that of
`qsmpserver.c` closes on it, that of the listener in `qsmpclient.c` does not
(`ErrorEndsSession`).

### Channel and SecureStream

`txseq`, `rxseq`, `rtcs` and `cipher` are fields of the connection state, `prikey` the
static key pair. A cipher context is a key and a position: the MAC runs on over all
packets, so a packet opens only in exactly the state it was sealed in. A key is named by
its direction and the chain of secrets injected so far. `op` says what each of the two
threads of a host is doing. The steps are the accesses that another thread can come
between: the load and the store of `txseq += 1` (`Begin`, `CountPacket`), its second
load (`NumberPacket`), the transform (`SealPacket`, `OpenPacket`), the send, and in
`symmetric_ratchet` the read of the ratchet key (`DeriveKeys`), the two cipher
initializations (`InstallKeys`) and the write of the key (`KeepChain`). Two accesses of
one context that overlap may leave it `Torn`, as may what was made with it: the build
may produce any mixture, and none of them is a state the other host shares. `crossed`
records that a ratchet began while another was under way; `due`, `made` and `taken` are
the history that the refinement of `SecureStream` reads. A packet stays `due` until the
network has lost its last copy: a repeated packet of which one copy is lost still
arrives, and so does one that the receive thread has already taken to open (`Here`).

The refinement does not say that nothing is left out: when both threads race for a
number, one of two packets repeats it; and when the next packet is sealed under the next
key, a packet that was lost before it is not noticed by its number alone. What holds,
and is checked, is order, at most once, and nothing that was not sent.

### Session

`mem` says of the receiver state, the connection state and the keep-alive state whether
it is unused, held or freed; `pointer` whether the receiver state still points to the
connection state. A touch of a freed object is recorded in `misuse` with the thread that
made it, and the thread goes on with what was there. The eight functions differ in three
things only, `Shape`: whether they listen, whether they close when the send function has
returned, and whether they free then. `main`, `receive` and `keepalive` are the places
of the three threads. As in `Server`, `Connected` asks for the pending error and takes
it. `kpa` is the keep-alive state. A request whose send fails is never asked
(`RequestNotSent`): the thread ends at its next look at the socket. `ReceiveAborted` is
kept out of the fairness: whether closing a socket wakes the thread that reads from it
is up to the operating system.

### Framing

A packet is a sequence of units, two for its header and `BodyLen` for its message, and
`Written` is what `qsc_socket_send` makes of it. `PeekAndRead` and `PeekGarbage` are the
loop of the client library, depending on whether a header stands first; `ReadOnce` is
the server's. Reading past the end of a packet takes the beginning of the next with it,
which is what the two units of a header are for.

### Streaming

A byte of a block is the set of the values XORed into it: the number of a byte of the
message, or a mark of the padding. The permutation or compression stands for "the blocks
so far" (`blocks`). `BlockUpdate` is common to SHA-2, SHA-3, KMAC and KPA, whose update
functions differ in names only and in counting (`count`). The loop over whole blocks is
written in closed form (`CompressWhole`, `Whole`), as are runs of output blocks (`Run`):
each pass does the same to the next block. Poly1305 and the incremental Keccak functions
have their own. `Generated` is the generate function of CSG and HCG; a byte of output is
named by key, block and place.

## 3. Runs

| run | instance | what it shows |
|---|---|---|
| `connections` | 2 peers, capacity up to 4, 8 500 states | types, numbering, erased before reuse, both searches agree, refusal only when exhausted, `SlotPool` implemented |
| `server` | 2 peers, 2 slots of which 1 comes by growth, no calls (pause and quit would excuse the server from accepting); 710 000 states | exclusive slots until the first is given back; a begun slot other than 0 that no reset has matched already stays taken; a queued peer is accepted unless the server refuses for a reason |
| `server_calls` | 2 peers, 1 slot; pause, resume, quit and broadcast at any time, but quit and broadcast not at once; 2.6 M states | at most one join while paused, and at most one after quit has freed the collection |
| `simplex_kex` | 4 identities that differ in kid, key or configuration; 2 keys, 2 secrets, 2 corrupted fields; 10 500 states | key agreement, the client has the server it asked for, sequences in step, `Handshake` implemented, an error takes both down, no exchange hangs |
| `duplex_kex` | 3 listeners, 2 clients, 1 corrupted field; 35 000 states | key agreement, mutual identity, `Handshake` implemented, errors end the exchange, no exchange hangs |
| `channel` | 2 messages or ratchets started by either application, 1 packet lost, repeated, altered or swapped; 930 000 states | `SecureStream` implemented; at rest both hosts have the same keys unless ratchets crossed |
| `session` | all 8 functions, 2 requests, 2 answers; 213 000 states | which functions can touch freed memory after sending or receiving; everything given back when the receive thread has ended; no honest peer closed for a bad keep-alive; closed and returned sessions end |
| `framing` | 5 packets of 6 units, every cut, both loops; 5 300 states | a whole prefix is delivered; packets that arrive alone all arrive |
| `streaming` | blocks of 8, messages and outputs up to 20 bytes, 8 primitives, 2 new seeds; 11 000 states | digests do not depend on the pieces; padding as defined (but for KMAC lengths that do not fit the last block); one output stream |
| `server_slots`, `duplex_teardown`, `channel_ratchet` | as above, `server_slots` with 2 slots from the start, `channel_ratchet` without faults | disagreements of the code with its comments, see section 5 |

Every property has a mutant in `PROJECT.json`: a plausible slip in one definition with
which the same run finds the property violated.

**Bounds and why they are enough.** Two peers give every pair of threads, the accept
loop and a call all their interleavings; a slot that exists and one that growth adds is
the smallest collection in which claim, growth, first match and exhaustion all happen.
`server_calls` has one slot: with two, quit against the steps of the resets passes 20
million states, and what the run checks does not depend on which slot is claimed. It
takes the application to make its calls from one thread (`OneCallAtATime`), and peers to
be interchangeable (`PeerSymmetry`): no definition tells them apart, and the run checks
safety only. The safety properties of `Server` are proved without these bounds, for any
calls, also at once. `MaxSlots = 4` lets the collection alone be initialized with every
count up to 4 and grow from each. In the exchanges two keys and two secrets are enough
to confuse one with another; identities differ in exactly one component each, so that
each check is the only one that can tell. `MaxGarbled` bounds corrupted fields; two
allow both hosts to be misled.

In `Channel` two requests are what it takes to cross two ratchets, to race a message
with a ratchet, or to send after a ratchet; the answers to asymmetric requests come on
top of them, so up to four packets are under way, and one fault hits any of them at any
place. In `Session` two requests of the keep-alive thread let an answer to the first
come before, during or after the second; three of each (580 000 states) show nothing
new. In `Framing` the third packet is the first that can follow a lost beginning of a
header; a body of three units lets a packet be cut in its header, its body and its last
unit. In `Streaming` a message of 20 bytes has zero, one and two whole blocks with every
remainder; the length field of 2 and the code of 3 bytes put the boundary where padding
needs another block inside the block; a reseeding threshold of 9 lies just above a
block.

**Fairness.** The thread of the accept loop and the thread of each host in an exchange
are scheduled by the operating system: weak fairness of their steps, including a receive
whose bytes are there or whose other side has shut down. For `accept` strong fairness:
`AcceptFails` is an error of the operating system and does not win for ever while a
connection is queued. Nothing is assumed of peers, of the application, or of the
network. A host that is silent for ever is therefore not part of `EveryExchangeEnds`;
the code has no timeout against it. In `Session` the threads of the library are
scheduled (weak fairness of `Return`, `ReceiveThread` and `KeepAliveThread`), and a peer
whose connection was closed notices it (`PeerToldToClose`): TCP tells it. The
application may send for ever. In `Framing` bytes that were sent arrive, and the receive
thread is scheduled. `Channel` and `Streaming` state no fairness: nothing has to happen
there.

**Deadlock.** Checking is off in all configurations since the systems may stop: a
collection whose allocation failed, a server that has ended or crashed, an exchange or a
session that is over, a stream that has been sent, a finished digest.

## 4. Proofs

All theorems are for every set of peers, identities, keys and secrets, every capacity,
every bound and every set of calls.

**Connections and server** (`ServerProofs`).

- The collection alone: the inductive invariant is `TypeOK`, `InstanceIsIndex` and
  `FreeIsErased` together. With the types alone nothing says which slot a reset acts on;
  with the numbering, the slots that match a number are the one with that index or none
  (`OneMatch`), so first-match and last-match agree (`SearchesAgree`) and a reset is a
  release of the abstract pool (`Refinement`, step by step in `StepPool`).
- The server: its threads destroy that numbering, and a reset is no single step. The
  invariant `IInv` has five parts: the arrays are as long as `length` and slot 0 carries
  0 (`PoolInv`); types (`ServerTypeOK`); every pointer in use is to a slot or stale
  (`PointersInv`); a search for the number 0 stands at index 0 (`SearchInv`); and
  `LateInv`. From the two about the number 0 follow `SlotZero` and `BegunSlotsLeak`: a
  search for 0 stops at slot 0 before it comes to any other slot, and a search for any
  other number passes by a slot that carries 0. So a slot other than 0 whose thread has
  begun, and that no reset had matched before by its own number, costs the server that
  slot until the dispose. The exception is real: a reset that has matched the slot
  erases and frees it under the thread that begins just then (`qsmpserver.c:34` between
  `connections.c:209` and `:211`).
- `OneLateJoin` rests on `LateInv`: after a late join the accept loop is below its
  accept and the flag that made it late keeps it there, or its next use of the freed
  collection has no slot to give. It speaks of joins while the server is paused and of
  joins after quit has freed the collection. Between the call of quit and the dispose
  any number of peers may join.
- The slots, `HandOver`: until a slot is given back for the first time every running
  thread has an active slot of its own. The invariant (`HandedOver`) says who accounts
  for each active slot, the accept loop or a peer; that only slots in use have lost
  their number, so that a failed accept gives back, through all steps of its reset, the
  very slot the loop holds (`LoopGives`); and that the poll finds nothing to reset.
  `CallersInv` says who else could be in a reset: threads that are done, and quit.
  `GivenBackStays` makes the precondition one that no step restores.

**Exchanges** (`KexWireProofs`, `SimplexKexProofs`, `DuplexKexProofs`).

- `KexWireProofs` is about the steps both exchanges share and takes the kinds of packets
  as a parameter. The two hosts take turns (`Turns`): there is never more than one
  packet of the exchange under way, and never one while a host is about to send. The
  packet carries the number that is expected (`Counts`), unless it was corrupted or is
  an error. Each common step (`Send`, a receive, `GiveUp`, loss, corruption) keeps both.
- `SimplexKexProofs`. `KeyAgreement` is not inductive: it must be known what each packet
  carries (`ToServer`, `ToClient`), up to corruption, in terms of what its sender has
  kept, and what each host holds at each place (`ClientTurn`, `ServerTurn`). A server
  that is established has the client's secret because only the key pair it generated
  opens it, and the client encapsulated to a key that it found signed. `Agreement`
  records what the server agreed to, for the time when it has already given up.
  Theorems: `TypeCorrect`, `SequenceIsKept`, `ServerAskedFor`, `KeysAgree` and, step by
  step, `ImplementsHandshake`.
- `DuplexKexProofs`. The same with two contributions: the client's secret, signed by the
  client, into the listener's keys, and the listener's, signed by the listener, into the
  client's. Here the listener never compares the key identity with its own. That the
  client is at the right listener all the same (`KnowEachOther`) comes from the
  signature: the verification key names the listener, and one key pair has one identity.
  `KeysAgree` and `ImplementsHandshake` as before.

**Channel** (`ChannelProofs`).

- `TypeCorrect`. The types of the records that run through the threads and over the
  network: an asymmetric response carries a secret and a key, only a thread that rekeys
  gets to `derive`, sequences of packets stay such when the network takes out, doubles
  or swaps one.
- `KeysAgree`. `SameKeys` holds only at rest; in between the hosts differ. The invariant
  (`PhaseInv`) says how, for a session that is calm: both sockets open, no fault yet, no
  crossed ratchet. A calm session is in one of four phases: `Quiet` (no ratchet under
  way), `Preparing` (one thread has a request that it has not sent), `Asked` (an
  asymmetric request is under way or is being answered) and `Passing` (the sender
  re-keys or has re-keyed and its packet is under way to the other, or is being taken).
  In each phase it says which chain each host has and which of its two contexts are
  under the next key already. Every step moves one phase on or stays; a thread that
  takes no part in the ratchet is neutral; and a session that is no longer calm is never
  calm again. The agreement at rest is the phase `Quiet`. The number of packets, which
  may be anything, and the torn contexts do not enter.
- `ImplementsStream`. Here nothing may be left out: the two threads of a host race,
  ratchets cross, contexts are torn and the network does what it can. A host accepts
  what opens under its receiving context, so all comes down to where contexts can be
  equal. The invariant (`StreamInv`) is about a map `S` from the packets of each host to
  the contexts in which they were sealed; `S` is existentially quantified, and each seal
  extends it. What every packet under way says of itself agrees with `S` (`Sealed`).
  Under one key positions rise (`Ordered`), so a context never falls back to one it has
  passed. Between keys the danger is that a host returns to a key. It does not, because
  every ratchet injects a secret that one of the threads has drawn (`Origins`), no
  secret is drawn twice (`Numbered`) or known before it is sent (`Unshared`), and a host
  makes keys with it once (`NotYet`), although a packet that carries it may be doubled
  (`OnceEach`). The case that needs the rest: a host has sent a secret and not yet made
  its own keys with it, and the other has already re-keyed and goes on, perhaps through
  further ratchets. Then what the other seals must not be accepted under the old keys
  and later again. `Ahead` and `Dark` say that all it seals from there on is under
  secrets that the host has not got and can get only from those very packets, which it
  cannot open. The lemmas take the steps in groups: those that only let go of something
  (`HarmlessInv`), those of the network (`NetworkStream`), and one lemma for each that
  seals, sends, opens or installs. Each step then maps to a step of `SecureStream` or to
  none (`ThreadStepIsStream` and those after it); that a number is accepted once is
  `WhatOpens`. Before the proof TLC checked the invariant with `S` recorded as a history
  variable, over all 1 077 191 states of two requests with a fault, and an earlier form
  of it over the 14 million of three requests without.

**Session** (`SessionProofs`).

- `SessionTypeCorrect`, `MisuseConfined` and `MemoryGivenBack`, from one invariant that
  follows the receive thread through its frees. `WhoMisuses` alone is not inductive: it
  must be known that outside the simplex listeners what the receive thread has not come
  to is still held (`LoopInv`), that nobody else frees the keep-alive state
  (`KeepAliveInv`), and in which functions the calling thread can be where (`MainInv`).
  `GivenBack` needs what is already behind the receive thread (`PastInv`), including
  that a connection state whose pointer was cleared by a simplex listener was freed by
  it. What the proof needs of the eight functions is read off once, in `ShapeFacts`.
- `HonestPeerIsKept`: the receive thread closes no honest peer for a bad keep-alive.
  That the keep-alive thread may give up such a peer as expired (`qsmpclient.c:617`,
  `TestAnswered`) is another matter, and the theorem does not deny it. The invariant
  (`HonestInv`) follows one request through both queues: with a peer that has not lied
  at most one request or answer is on its way or being noted, it is the one the
  keep-alive state stands for, and until it is noted the keep-alive thread does not come
  to ask again.

**Framing** (`FramingProofs`).

- `FramingTypeCorrect` and `DeliveryIsPrefix`, for any number of packets and any length:
  the receiver's counter is the number of packets delivered, and only the next whole
  packet is accepted (`ReceiveKeeps`); how the stream was cut does not enter, which is
  the point.

**Streaming** (`StreamingProofs`).

- For every block size and every length, from one invariant. `HashInv` says that what
  has been absorbed is a function of the number of bytes (`Canon`): the blocks are the
  whole blocks of the message, the position is the remainder, and the bytes behind it
  are what the primitive leaves there. An update of any length leads from the state of
  `n` bytes to that of `n + k`, for each of the update functions; therefore the cuts do
  not matter (`CutsAreIndifferent`). After the padding the blocks are those of the
  message and `Ending`, a function of the remainder, which is the definition
  (`PaddingIsDefined`), except for the KMAC lengths at which the code of the output
  length does not fit in the last block.
- `OutInv` is about the output: what a generator keeps is what comes next after the last
  byte it gave (`Keeps`, `Ready`), what the squeeze has left of its block likewise
  (`Upto`). A request then continues the stream, whether it is served from the rest,
  from whole blocks or from the beginning of one (`StreamIsInOrder`). The arithmetic of
  blocks and remainders is in the lemmas on division at the beginning.

**Assumptions on constants.** `NoPeer` is no peer; `MaxSlots` is positive; `InitCount`
is between 1 and `MaxSlots`; `Calls` are calls of the model. Bounds are natural numbers
(`BoundAssumption` of `KexWire` and `Channel`, `SessionAssumption`,
`FramingAssumption`), and a message is not empty. The identities of an exchange
(`IdentitiesAssumption`) are records of a key identity, a key and a configuration; a
corrupted field is never the valid configuration (nor, in `SimplexKex`, the valid key
identity) of anybody; and in `DuplexKex` a key identity is generated with its signature
key. `StreamingAssumption` is that sizes and bounds are positive, a lane divides a
block, and the length field and the code of the output length are shorter than a block.

**Only model-checked**: the liveness properties (`EveryJoinAnswered`,
`ErrorsTearDownBoth`, `ErrorsEndTheExchange`, `EveryExchangeEnds`, `ClosedSessionEnds`,
`ReturnEndsSession`, `CalmPacketsArrive`), which need fairness and are out of the
prover's reach. Every safety property of a passing run is stated by a theorem.

## 5. Disagreements found

| run | the code | says otherwise |
|---|---|---|
| `server_slots` | the poll resets the slot of a peer with a socket error while its thread runs on it, and a thread that ends resets slot 0; `qsmp_connections_next` then hands out a state in use (`qsmpserver.c:34`, `:54`, `:161`) | `connections.h:98` "Get the next available connection state" |
| `duplex_teardown` | the listener is established when the client fails on the last packet; its loop has no case for the error (`qsmpclient.c:792`) | `kex.c:505` errors "trigger a tear down ... on both sides" |
| `channel_ratchet` | each host re-keys when it has sent its request and again when it takes the other's; ratchets that cross lose a secret, or inject them in different orders, and the hosts end with different keys although every request returned true (`qsmpclient.c:1052`) | `qsmpclient.h:37-55` "Returns true if the operation succeeded" |

Single facts that the models contain and no run repeats: `pause` is read after accept
(`qsmpserver.c:232`; `qsmpserver.h:52` says "suspending new joins"), of which
`AtMostOneLateJoin` says what remains true; quit clears the run flag after it has
scanned and freed the slots (`qsmpserver.c:284-306`; `qsmpserver.h:57` says "Quit the
server, closing all connections"), so a peer accepted behind its scan is still
connected, with its thread running, when the collection is freed; a reset may erase and
free a slot whose thread begins between its comparison and its writes
(`connections.c:209`); a socket accepted when there is no memory for its thread stays
open with no owner (`qsmpserver.c:214`, `AcceptNoMemory`); the keep-alive thread may
give up a peer whose answer is on its way (`qsmpclient.c:617`, `TestAnswered`); a
broadcast writes through a NULL message pointer (`qsmpserver.c:264`, `CastSlot`); an
error packet of the exchange is too short for the receive that waits, so its reason is
not read (`kex.c:1695`); the simplex listeners free what their receive thread frees
(`qsmpclient.c:1705`; `WhoMisuses` confines it to them); listeners leak their states
when nobody starts the receive thread (`NoConnection`, `NotConnected`, `NotExchanged`);
two packets that arrive together cost the client library the beginning of the second,
and the server the whole of it.

Seen while reading and not modelled: the self test of the exchange leaves the
`key_query` callback of the listener unset (called at `kex.c:549`); `qsmp_keychain`
removal moves key bytes between the two arrays (`keychain.c:148`); the simplex listeners
allocate the receiver state with the size of a pointer (`qsmpclient.c:1653`);
`qsc_cshake_update` absorbs a key longer than the rate at its own length
(`sha3.c:4382`); HCG finalizes, and thereby disposes, the HMAC state that it goes on
with (`hcg.c:27`).

## 6. Assumptions and what is left out

- Both hosts of an exchange follow `kex.c`. Cryptography is ideal: signatures name key
  and data, secrets are recovered with the matching key alone, keys from different seeds
  differ.
- A blocking send fails only on a lost connection. The loss is reported to both hosts (a
  reset counts as loss); what was under way arrives or is lost with it. Corruption hits
  the sequence number or a field of the body. Flag and length are left alone.
- The operating system does not hand a descriptor out again after a close: a close of
  somebody else's new socket is not modelled.
- The connection notices that an established receive loop sends when it closes are left
  out of the exchange models.
- Timing of keys: that a key has expired is a free choice at each check.
- An established session is modelled three times, each time without the others: keys and
  counters (`Channel`), threads and memory (`Session`), bytes (`Framing`). `Channel`
  takes packets as units, `Session` leaves encrypted packets out of the receive loop,
  `Framing` has one sender and no re-keying. Their product is beyond TLC.
- In `Channel` a host that has left its loop is not followed any further; that its send
  thread may still use the freed state is in `Session`.
- In `Session` freed memory keeps its content. Descriptors are not reused.
- In `Streaming` block functions are injective. Where the KMAC length does not fit the
  last block the code pads differently from its reference, and `PaddedAsDefined` leaves
  that case out.

**Not modelled**, with the reason:

- The asymmetric ciphers: Falcon, Dilithium, SPHINCS+, Kyber, NTRU, McEliece and the
  curves are most of the lines of the repository. They are arithmetic without state
  between calls: TLC would have to run them on parameters that make them another
  algorithm, and the prover has no theory of their rings. The exchanges use them as
  ideal primitives.
- Permutations, key schedules and counter mode of Keccak, SHA-2, AES, RCS, CSX, ChaCha,
  with their vector variants: the same reason.
- Containers, thread pool, secure memory and other helpers of QSC that no code of QSMP
  calls; the self tests with their known answers.
- `keychain.c`, which nobody calls; key encoding, logger, string, file and console
  functions and the applications: conversions, input and output.

## 7. Plan

Written, in this order: `Connections` and `Server` with their proofs, the two exchanges,
`Channel`, `Session`, `Framing` and `Streaming`. What is left:

1. Every safety property of the runs is proved. Worth proving on the way to the liveness
   properties: the invariants that would make each of them a matter of fairness alone
   (what an exchange or a closing session still waits for, and that it is on its way).
2. `Keychain`: the three arrays through add and remove, should anything come to call it.
