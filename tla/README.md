# A verification project for PlaySocket

PlaySocket is a C++ library of sockets for game servers: a TCP server
(`StreamSocket`), a WebSocket server (`WSStreamSocket`) and a ZeroMQ router
socket (`RouterSocket`).  This directory holds TLA+ models of its core, the TLC
configurations that check them on small instances, and theorems, checked by
TLAPS, that hold for every instance.  Paths are relative to the repository;
file names without a directory are in `src/playsocket_lib/`.

## 1. Inventory

| component | state | operations | interacts with |
|---|---|---|---|
| `RingBuffer` (`ring_buffer.hpp`) | array, reader index, header index, size, maximum | `push`, `write` (10 overloads together), `pop`, `peek`, `read`, `clear`, `peekInt16/32`, `readInt8/16/32` | owned by a parser, and by a `RouterSocket` as scratch space; one thread at a time |
| `BitConverter` (`bit_converter.hpp`) | none | `toNetwork`, `toHost` for 2, 4 and 8 bytes | called by the parser on what the ring returns, and by `makeClientMessageBody` on what it writes |
| `StreamParser` (`stream_parser.hpp`) | a ring buffer | `write`, `parse` | one per session, called by `onReceived` on the io thread |
| `ClientMessage`, `Header` | session id, type, header, body | constructors, accessors; `body()` moves the body out | made on the io thread, read by the application |
| `Session` (`stream_socket.cpp`) | session id (the native handle of its socket), `_socket`, parser | `onConnected`, `onReceived`, `onError`, `onDisconnected` | callbacks of CppServer on the io thread; push to `_recvBuffer`, insert into and erase from `_sessions` |
| `StreamServer` | `_stream_socket` | `CreateSession`, `onError` (a log line) | called by CppServer when a connection is accepted |
| `StreamSocket` | `_recvBuffer`, `_sessions`, `_service`, `_server` | `bind`, `close`, `send`, `recv`, `addSession`, `removeSession` | called by any thread of the application; shares the two containers with the io thread |
| `WSStreamSocket`, `WSStreamServer`, `WSSession` (`websocket.cpp`) | as the three above | as above, with `onWSConnected` ... and `onWSPing` | as above, behind a WebSocket handshake |
| `RouterSocket`, `RouterMessage` | a ZeroMQ socket, scratch ring; three frames | `bind`, `connect`, `disconnect`, `send`, `recv`, `makeClientMessageBody` | ZeroMQ |
| `SocketConfig` (`router_socket.hpp`) | twelve options with defaults | parses an option string | read by the constructor of `RouterSocket` |
| `Log` (`logger_interface.hpp`) | `_logger`, `_log_level` | `setLogger`, `trace` ... `fatal` | called from every thread |
| `my_lib`, `app/main.cc`, build files, `tools/` | none | demonstration program, build | not part of the library |

What makes the components correct:

* **RingBuffer**: a first-in first-out queue that grows, whatever the rotation
  of its indices, and that refuses only what does not fit.
* **BitConverter**: the most significant byte first in memory, and `toHost` its
  inverse, in words of the right width.
* **StreamParser**: what comes out is what was sent, in order, as soon as it is
  complete, wherever the network cut the stream; nothing received is dropped.
* **StreamSocket**: a session id names one live session; for each id the
  application reads CONNECT, the messages of one session, DISCONNECT; an answer
  goes to the session its message came from; `close` returns.
* **WebSocket**: the same, although a connection has a handle before it has a
  session id, and may end between the two.
* **RouterSocket**: a message is in one place: it is received at most once, never
  without its body, and a send waits only for a server that waits itself.
* **SocketConfig**: an option of the string takes effect, or the log tells.

What is hard to test here: the rotation of the ring when it grows or is exactly
full; the cut of the stream inside a header; an exception in the middle of a
write; the reuse of a handle between the steps of `onDisconnected`; a `send` on
an application thread while the io thread erases the session; `close` while
sessions are open; an upgrade that arrives around the stop of its server; a send
that zmq refuses after the parts of the message were moved out.  `PROJECT.json`
lists each hazard at its line.

## 2. The modules

| module | models |
|---|---|
| `ByteCalls` | the vocabulary of calls on a byte buffer and their results |
| `ByteQueue` | abstract: the queue a `RingBuffer` promises to be |
| `RingBuffer` | `ring_buffer.hpp`, with array and indices; `ImplementsByteQueue` is the refinement |
| `BitConverter` | `bit_converter.hpp`, and the integers of the ring, as pure operators |
| `ClientPacket` | `RouterSocket::makeClientMessageBody`, as pure operators over `BitConverter` |
| `MessageStream` | abstract: what `write` and `parse` promise a session |
| `StreamParser` | `stream_parser.hpp` driven by `Session::onReceived`; its buffer is an instance of `ByteQueue`; `ImplementsMessageStream` is the refinement |
| `SessionFeed` | abstract: the sequence of messages `recv` promises |
| `StreamSocket` | `stream_socket.cpp`: the threads, the registry, the queue; `ImplementsSessionFeed` is the refinement |
| `WebSocket` | `websocket.cpp`: the actions of `StreamSocket`, with the handshake before them |
| `RouterSocket` | `router_socket.cpp`, `router_message.cpp`: several servers and zmq between them |
| `SocketConfig` | the constructor of `SocketConfig` |
| `RingBufferProofs`, `BitConverterProofs`, `ClientPacketProofs`, `StreamParserProofs` | the theorems about the buffer, the conversions, the packets and the parser |
| `StreamSocketProofs`, `WebSocketProofs`, `RouterSocketProofs`, `SocketConfigProofs` | the theorems about the sockets and the options |
| `MC...` | instances for TLC |

`StreamParser` composes with `ByteQueue` (which `RingBuffer` implements) and
`BitConverter`; `StreamSocket` takes from `StreamParser` that a receive which
fails has no message with it (`NothingLost`); `WebSocket` extends `StreamSocket`.
Definitions marked as mutants in a comment are no part of the models: they are
plausible faults of the code, and each property fails when one of them takes the
place of the definition behind it.

### RingBuffer
One variable per field.  Each overload of `write` and `push` is a loop over
`push(byte)`; `StartWrite` is the call, and each iteration is one of
`PushInPlace`, `PushAndGrow` (with `resizeBuffer`) and `PushRefused` (its
exception, which leaves the loop).  So the state after a write that fails
half-way is a state of the model.  All other calls are one step: no exception
can leave their loops.  `ret` records how the last call ended, so that the
queue must agree with the ring on values and exceptions too.
`std::vector::capacity()` of a vector made with n elements is taken to be n, as
in the common standard libraries.

### BitConverter and ClientPacket
A word of w bytes is a number below `Radix^w`; masks and shifts are arithmetic
on digits.  `Place[i]` is `Radix^i`, as a recursive function that can be
unfolded in a proof.  `|` joins disjoint bits and is `+`.  `Radix` is 256 in the code; no
operator depends on its value.  The casts between signed and unsigned keep the
bits and need no model.

`Packet` is what `makeClientMessageBody` writes to its scratch buffer.  The code
makes the zmq message with `bodySize` bytes (`router_socket.cpp:118`) and reads
the whole packet, a header of 13 bytes more, to its address.  So
`MakeClientMessageBody` has two results: the `message`, which is the first
`bodySize` bytes of the packet, and the 13 bytes written `behind` it, which are
the end of the packet and not in the message; or else `out_of_range`, when the
buffer cannot take the packet.
What the bytes behind the allocation do there is outside of the model.
`ReadHeader` is a client that converts as `StreamParser::parse` does, and
`HeaderOf` what it should find.

### StreamParser
`wire` is what the client has sent and the server has not received.  `Receive`
takes a chunk of any length, `StoreByte` and `StoreFails` are
`_parser->write`, `ParseOne` is one message of `parse`, and `ParseReturns` also
pushes the list to `_recvBuffer`, which in the code follows with no other access
to shared state between.  `Accesses` are the reads of an iteration that may throw
and `Succeeds(k)` says, with the rule of the ring, whether the one behind k bytes
does not: `ParseOne` happens when none throws, `ParseFails` at the first that
does, with the bytes before it taken from the buffer.  `StoreFails` and
`ParseFails` are the `catch` of `onReceived`.  The client is external: `WireBigEndian` says in which order it
writes integers.  `MessageStream` is the promise: the messages of the stream, one
after the other, until the session fails; `FairSpec` adds that all of them do.

### StreamSocket
`phase[c]` is where connection `c` is in its life and, in a callback, where the
io thread is in it: `accepted`, `registered` (in `onConnected`), `open`,
`closing` (a `Disconnect` is posted), `released`, `ended`, `unlinked` (in
`onDisconnected`), `closed`.  A callback is one step per access to shared state,
so the steps of `send` and `recv` of other threads fall between them.  `IoIdle`
says that callbacks do not interleave with one another: `bind` makes a
`CppServer::Asio::Service` with its default of one thread.

`concurrent_hash_map` is modelled by what TBB says of it: `insert` keeps an entry
it finds, `find` takes an accessor, `erase` takes the entry out of the table
(`RemoveSession`) and then waits for the accessors on it (`SessionRemoved`).
`close` posts the stop of the server to the io thread, then the stop of the
service, and joins the thread; sessions whose `Disconnect` was not run by then
are `orphaned`.

The application may answer any message it received, a CONNECT or a DISCONNECT
too, with a body of its own.  Assumed of it: it calls `bind` again only after
`close`.  A receive in phase `closing` can happen as long as the posted
`Disconnect` has not run.

`SessionHasSocket` says whether `CreateSession` gives a session its `_socket`.
In the code it does not (finding 3 below): the first `onConnected` dereferences a
null pointer, which the model takes as a callback that never goes on.  The other
runs set it to TRUE, that is, they show what the rest of
the code does once the two-argument constructor of `stream_socket.hpp:30` is
called; the theorems hold for both values.

### WebSocket
The registry, the queue, `send`, `recv`, `bind` and `close` of `websocket.cpp`
are those of `stream_socket.cpp` statement for statement, so each action is one
of `StreamSocket`.  New is `handshake[c]`, the handle of a connection that
CppServer has accepted and not upgraded: `WSSession` overrides the callbacks of
the WebSocket only, so until `onWSConnected` it has no `_sid` and is not
registered, and if the connection ends before, none of its callbacks but
`onError` runs.  An upgrade already received is handled even after the server has
stopped accepting, which `StreamSocket` cannot do: `OnWSConnected` is
`OnConnected` without the guard of `Accept`.

### RouterSocket
Each node is a process with one `RouterSocket`, used by one thread.  `object` is
the `RouterMessage` the application has at hand, `sending` the multipart of a
`send` in progress: `StartSend` moves the parts out of the message, and
`SendQueued`, `SendThrows`, `SendDropped` are the ways zmq ends the call, so a
retry sends the emptied message.  `recv` takes a message from a link or from what
a lost link left behind, and drops those that have not three frames (`Foreign`
peers).  zmq is external: links, the exchange of routing ids after `connect`,
and pipes with a high watermark are modelled as the code uses them.
`mandatory` is the set of nodes whose options have `router_mandatory`.
`Where(b)` is the set of places that hold message `b`, each named by its kind and
position; `Accounted` says that it has one element from `Make` on, and none
before.

### SocketConfig
`given` is the set of options in the string and `accepted` whether
`parse()` accepts every token.  `Assign` is one assignment of the try block in
the order of the source, `Catch` the exception.  A flag that is not given is
`false` to cxxopts; an integer that is not given has no value and throws.

## 3. The runs

| run | instance | distinct states | shows |
|---|---|---|---|
| `ring_buffer` | 3 slots, growing to 6; writes of 2 bytes | 87 889 | queue refinement, indices, refusals |
| `ring_buffer_peek` | 2 slots, growing to 4 | | finding 1 |
| `bit_converter` | 2-bit bytes, all words of 2, 4 and 8 bytes | 65 808 | swaps, inverse, agreement with the ring; what is in a packet's message, no packet refused |
| `stream_parser` | 16 to 64 bytes of buffer, 3 streams of 3 messages, chunks of any length up to 64 bytes | 129 743 | order, promptness, no loss, what is refused, which read throws, delivery in the end, `MessageStream` |
| `stream_parser_test` | the bytes of the first parser test, real capacities | | finding 2 |
| `stream_socket` | 3 connections, 2 handles, 2 threads, 2 binds | 1 210 337 | registry, answers, accessors |
| `stream_socket_live` | 2 connections, 2 handles, 1 thread, 2 messages each, 2 binds | 532 839 | feed refinement, liveness |
| `stream_socket_create` | 2 connections | | finding 3 |
| `web_socket` | 2 connections, 2 handles, 1 thread, 2 binds | 135 169 | registry, handshakes, feed refinement, quiet after `close` |
| `socket_config` | all subsets of the 12 options, accepted or not | 32 760 | losses are logged, nothing is invented |
| `socket_config_set` | the same | | finding 4 |
| `router_socket` | 2 servers, 4 messages, pipes of one message, one or both with `router_mandatory` | 250 404 | whole messages, each in one place; who waits for whom |

**Why the bounds are enough.**  Three slots is the smallest ring with a rotation
that is neither the start nor the end when it grows, and its double is reached
and refused; a write of two bytes can succeed, grow or fail between its bytes.
The swaps treat bytes as opaque digits, so a radix that tells four values apart
shows a misplaced one; body lengths of 0 to 15 are all that a size of two such
bytes can say, and the largest is, as in the code, one byte less than the first
capacity of the scratch buffer.  A buffer of 16 bytes is longer than a header and
shorter than two messages, so both messages and headers lie across chunks, the
buffer wraps and grows twice, and a stream is in the instance that fills it to
the last byte; a chunk may be as long as the whole buffer.  Its proportions are
near those of the code: the maximum is more than twice the largest message,
where the code's is about eight times it, so that three messages suffice to
reach it.  Three connections over two handles reuse a handle while another
session lives and while its predecessor is being unregistered or orphaned; two
threads can hold accessors on two sessions, or on one.  A second `bind` meets
what the first left behind.  For the WebSocket, two connections over two handles
suffice for a handshake beside a session, and for one on the handle of a session
that has ended.  In the router, four messages fill a pipe of one in each
direction and leave a send waiting at each end, so mutual waiting is reached;
a node with and one without `router_mandatory` meet, and a peer whose messages
are dropped.  `CHECK_DEADLOCK` is off for `StreamSocket` and `WebSocket`, which
rest when every connection of the instance is used up and every `bind` made, and
for `SocketConfig`, whose constructor ends.

**Fairness.**  The parser: the network delivers in the end, and the io thread
goes on with what it has begun.  The stream server: weak fairness
of each callback that has begun, of a posted `Disconnect`, of the posted stops,
of the second half of `close`, and of a `send` that was called.  That is what a
running thread and an asio queue give.  No client is made to connect, send
or leave, and no thread to call `recv`, `bind` or `close`.  The router:
zmq completes the exchange of ids of a link that is up, and a send that can be
completed (its own io thread does both).  That applications go on to call `recv`
is not assumed of the system but is the hypothesis of `BlockedOnlyByBlocked`.

### Findings
1. `peekInt16`, `peekInt32`, `readInt16`, `readInt32` throw when the buffer is
   exactly full (`ring_buffer.hpp:238`).  `ParseThrowsFirst` shows what this
   does to `parse`: only its first read in a call can throw, and only on a buffer
   full to its capacity; no later read can, so nothing parsed or taken is lost
   with the exception.
2. `parse` converts the body size and the integer fields to host order although
   the ring has already assembled them (`stream_parser.hpp:38`); on a
   little-endian host the repository's own parser tests cannot pass.  A client
   that writes little-endian integers is understood, and the other parser run
   uses one.
3. `CreateSession` calls the inherited constructor, so `_socket` is null and
   `onConnected` dereferences it (`stream_socket.cpp:94`, also
   `websocket.cpp:96`).
4. The comment on the assignments of `SocketConfig` (`router_socket.hpp:73`) says
   that the parsed values are set; the first integer that is not in the string
   throws (`router_socket.hpp:77`), and the accepted options behind it keep their
   defaults.  `LossIsLogged` shows that this is at least never silent.

## 4. The proofs

**`RingBufferProofs`**, assuming `0 < InitCapacity <= MaxCapacity`, that `Zero` is
a byte and that `MaxWrite` is a natural number.

* `TypeCorrect` and `IndicesAgree`: `TypeOK /\ IndexInv` is inductive.  `TypeOK`
  needs `IndexInv` for `readInt`, which subtracts n from the size after checking
  slots and not the size: that a valid index implies `n <= size` is
  `ReadIndexValid`, from `headerIndex = (readerIndex + size) % capacity`.
* `RefusedMeansFull`: a write is refused only by a buffer that holds
  `MaxCapacity` bytes, under the further assumption `ReachesMaximum` that
  doubling the initial capacity meets the maximum exactly, as it does for both
  buffers of the code (8 KB to 512 KB, 64 KB to 128 KB).  `GrowthInv` carries that assumption
  along the sequence of capacities.
* `RingImplementsQueue`: under `queue <- Front(size)`, each step of the ring is a
  step of the queue.  The lemmas `TakeFront`, `DropFront` and `PushFront` say
  what the front of the ring is after a read and a push; they rest on four lemmas
  about `%` that let the index be advanced in parts (`ModOneTurn`, `ModInRange`,
  `AdvanceValue`, `AdvanceSplit`), which SMT cannot find by itself because
  `capacity` is not a constant.

**`StreamSocketProofs`**, assuming natural bounds and that `NoHandle` and `NoConn`
are no handle and no connection.  No assumption bounds the number of connections,
handles or threads.  The inductive invariant `IInv` adds to the properties:

* `HandlesUnique`: sessions that have begun and not ended have different handles
  (the operating system reuses a handle only when it is free, and the io thread
  finishes `onDisconnected` before it accepts again);
* `ReceivingInv`: messages parsed and not pushed belong to an open session;
* `AccessorInv`: a thread with an accessor is answering a message, and its
  session was registered and is not yet `closed`;
* `MessageInv`: a message queued or being answered came from a session that was
  announced, under the handle it has.

From it follow `RegistryIsExact`, `SendsEndBeforeDisconnected`,
`AnswersGoToOwner` and `MissesMeanEnded`.  The invariant is proved for `AnyStep`,
the steps of `Next` without the condition that the server accepts, so that the
WebSocket server, which upgrades after its stop, can use the same lemmas.

There too is `SocketImplementsFeed`.  The count of a handle is mapped
to what the one announced session with that handle has pushed; `CountAdd`,
`CountBump`, `CountRemove` and `CountSame` say how that function changes when a
session is announced, pushes or ends, all from `HandlesUnique`.  `FreshInv` adds
that a session which is not yet announced has pushed nothing, so that its count
starts at 0.

**`WebSocketProofs`**: under `HandshakeInv` (handles in handshake are distinct and
of no session) each step of `WebSocket` is an `AnyStep` (`StepsOfStreamSocket`);
hence `WSRegistryIsExact`, `WSImplementsFeed` and `HandshakeNotReachable`.  With
`DownInv` (once the service is down the io thread is in no callback)
`QuietAfterClose` follows.  The subtle case of `HandshakeNotReachable` is a handle
released by a session still in `onWSDisconnected`: it is free, but nothing is
accepted before the callback ends.

**`BitConverterProofs` and `ClientPacketProofs`**, for every `Radix` of two or more
and both kinds of host.  A word is decided by its digits (`DigitsDecide`): two
words of w bytes with equal digits are equal.  So a swap need not be computed as a
number: it is enough that each masked and shifted digit lands in its own place,
and the laws of `Place` (`Place[i + j] = Place[i] * Place[j]`) say where.  From
this follow `NetworkOrder`, `HostUndoes`, `BytesAreUndone` and, with the layout of
the 13 bytes of a header, `MessagesAreReadAsGiven`: a message that holds a header reads as what the caller gave, followed by the body but for its
last 13 bytes (the lemmas `Cut` and `ReadInFront`: what stands in front of a cut
reads as in the whole packet).  `NoPacketRefused` needs `Radix >= 4` (256 in the code): with bytes of two or three values a header of 13
bytes would not fit beside the largest body.

**`StreamParserProofs`**, for every radix, pair of capacities
(`InitCapacity <= MaxCapacity`), byte order of the host and set of streams.
The invariants come in two layers.

* `ControlInv` holds whatever byte order the client uses: the types, what each
  value of `pc` says of the locals of `onReceived`, and how much the buffer can
  hold there (after a `parse` that returned, less than one message).  It gives
  `TypeCorrect` and `OnlyFirstAccessThrows` (each access of an iteration is
  examined; behind the first, at least the two bytes of the size have been taken,
  so the buffer is not full, and there are bytes enough for every field); with the
  sequence of capacities (`GrowthInv`, under the assumption `ReachesMaximum` that doubling meets the maximum)
  `OnlyLongChunksRefused`.
* `StreamInv` says that there is a rest `todo` of the stream with `sent` =
  delivered, parsed, `todo`, and that the bytes of buffer, chunk and wire are the
  encoding of `todo`.  It is inductive because the encoding of a concatenation is
  the concatenation of the encodings (`EncodeAllConcat`) and because the fields
  read at the front of an encoded message are those that were written
  (`FrontIsFirst`, from the conversions above).  It needs
  `WireBigEndian = HostBigEndian`, which is what finding 2 is about: under that
  hypothesis `InOrder`, `NoByteLost`, `Prompt` and `ImplementsStream` hold, and
  `AllParsed`, which the run `stream_parser_test` refutes without it.

`EncodeAll` folds over a sequence.  What a fold computes is obtained from
`WellFoundedInduction` by an induction on sets that is written out in the module
(`InductionOnSets`), since a theorem with an operator as parameter cannot be
instantiated.

**`SocketConfigProofs`**: `TypeCorrect`, `LossesAreLogged` and
`NothingIsInvented`, from an invariant that says of each member whether its
assignment has been made.

**`RouterSocketProofs`**, for any number of nodes and messages and any high
watermark.

* `TypeCorrect` and `OnlyWholeMessages`: the inductive invariant is that a message
  object is whole or has neither target nor body, so an emptied message never
  finds a peer.
* `EachInOnePlace` (`Accounted`): the invariant `TrackedInv` gives each body a place
  `w` such that whatever holds the body is `w` (`Sole`) and `w` holds it (`Held`);
  a body not yet made has the place `Unmade`.  Each action has a lemma that says
  where it moves the body: from the object to the send, to the end of a pipe, over,
  or, when a link is cut, from position k of the pipe to position `Len + k` of what
  was left, if it is among those that arrived (`CutMovesSent`).  A receive moves the
  bodies behind the one it takes up by one place (`Dequeued`).

**Only model-checked**: liveness (`EventuallyDelivered`, `SessionsEnd`,
`CloseReturns`, `BlockedOnlyByBlocked`, and the fairness of
`MessageStream` in `ImplementsMessageStream`), which the prover does not treat.
Every invariant and every action property that a passing run checks is a
theorem.  Some hazards of `PROJECT.json` are in the models and excluded by no
property, because the code does not exclude them: a session left orphaned by the
stop of the service, a stale answer to a handle that has a new owner, messages that zmq
drops, two servers that wait for each other; their notes say so.

## 5. Not modelled

* `Log`: nothing in the repository calls `setLogger`, so its state never changes;
  the rest is output, as is the text of all log lines.
* `ClientMessage::body()`, which moves the body out of the message: the send
  functions call it once, on a message they own.  A `send` of a message without
  body is one the application must not make.
* What CppServer puts on the wire: the bytes that `SendAsync` queues, which
  `WSStreamSocket::send` queues without a WebSocket frame, and the pong of
  `onWSPing`, which changes no state of the classes.
* What the bytes that `makeClientMessageBody` copies behind the end of its message
  do there.
* The lifetime of memory (the shared pointers of server, socket and sessions form
  a cycle); a second `bind` without `close`; a ring of capacity 0.
* `my_lib`, `app/`, CMake and `tools/` have no behaviour of the library.

## 6. Plan

1. Proofs: that the parser's buffer may be taken for an abstract queue is proved
   (`RingImplementsQueue`); that the receives of `StreamSocket` may be taken for
   those of `StreamParser` is an argument of section 2, and could be a module that
   composes the two.
2. A `bind` while the first server still runs, as a second io thread.
