# Verification of opensearch-sdk-rs

TLA+ models of the Rust extension SDK in `src/`, the TLC runs that check them on
small instances and the theorems that hold for all instances. Paths below are
relative to the crate (`src/host.rs` is the host's source).

## 1. The system

An extension is a process that listens on a TCP port. OpenSearch nodes (the
*peers*) connect to it, shake hands, initialize the extension and then forward
REST requests to it. The process also sends requests of its own to the peers: on
initialization it registers its REST actions and asks for the environment
settings, and only when both are answered does it answer the init request.

| Component | Source | State | Operations |
|---|---|---|---|
| Extension host, connection threads | `host.rs` | one `Mutex<HostState>` shared by all threads: `next_request_id`, `pending_requests`; per thread: the frame in hand, the frames to write | `serve`, `serve_connection`, `handle_frame`, `handle_response`, `handle_*` |
| Init flow | `host.rs:114-179,212-251` | the continuation of each init request, in `pending_requests` | register, configure, answer |
| Transport framing | `transport.rs:77-321` | position in the byte stream | `TransportTcpHeader::read_from/write_to`, `MessageFrame::request/response/read_from/to_bytes`, `ThreadContext` |
| Stream codec | `stream.rs` | cursor, output bytes | reads and writes of numbers, vints, strings, arrays, maps |
| REST dispatch | `host.rs:253-279`, `extension.rs`, `rest.rs`, `transport.rs:762-806` | the route list, fixed before `serve` | decode, find a route, call its handler, encode |
| Payload types | `transport.rs:323-760` | none | `read_from`, `to_bytes`, with version gates |
| Protobuf builders | `transport.rs:808-867` | none | concatenation of fields |
| Version | `transport.rs:12-74` | none | release ids and their mask |
| Extension API | `extension.rs` | metadata, routes | `Route::matches`, `not_found_response` |
| Trace logging | `host.rs:316-359` | an environment variable | `eprintln!`, which panics when stderr is gone |
| Hello World binary | `main.rs` | two settings | start-up |
| Live harness | `scripts/`, `tests/live_hello.rs` | none | starts OpenSearch and the binary |

How they interact: each accepted connection has a thread that reads a frame
(framing over the stream codec), handles it, writes the frames the handler
returned and reads again. Handlers of different threads meet only in the table
behind the mutex. A request of the host leaves on one connection, and its answer
is looked up in the table by whatever thread reads it.

What is hard:

- *Concurrency.* Threads interleave between reading, handling and writing; ids
  come from one counter, while each peer counts on its own, so ids coincide.
- *Failure.* A thread that ends (closed peer, malformed frame, panicking handler)
  takes its unwritten frames with it and leaves its entries in the table. A panic
  under the mutex poisons the table for all. A listener error ends the process.
- *Ordering.* Answers to different init requests come in any order and twice.
- *Framing.* The stream comes in pieces and breaks off anywhere.
- *Waiting.* The init request waits for two answers of the peer that sent it. A
  write waits for a peer that reads, and a route's handler may never return.
- *Layout.* Bodies have no delimiters: versions, lengths and flags decide what
  comes next, and the protobuf messages in them nest lengths in lengths.

What makes each component correct: requests of the host have distinct ids; each
answer finds its continuation and runs it once; each response goes back to the
connection, id and thread context of its request; no init request skips a stage
or disturbs another; faults stay within their connection unless a trace line
fails under the lock; requests get answered; the frames read are the frames sent;
cut bodies are refused; the first matching route answers; written numbers are
read back.

## 2. The modules

| Module | Models | Uses |
|---|---|---|
| `ExtensionHost` | the process: threads, handlers, table, mutex poisoning; peers and stderr as environment | instantiates `InitFlow` |
| `InitFlow` | abstract: what becomes of each init request | |
| `HostLock` | the mutex around `HostState` in single steps | extends and instantiates `ExtensionHost` |
| `SlowPeers` | the host with buffers that fill up and handlers that hang | extends `HostLock` |
| `StrayAnswers` | the host with answers on the wrong connection | extends `ExtensionHost` |
| `StreamCodec` | readers and writers of `stream.rs` over cells | |
| `FrameStream` | one direction of a connection: `to_bytes`, the network, `read_from` | extends `StreamCodec`, instantiates `FrameChannel` |
| `FrameChannel` | abstract: what a thread may assume of the frames it reads | |
| `Payloads` | versions, task ids, nodes and the init request over cells | extends `StreamCodec` |
| `Protobuf` | the protobuf builders, and the peer's parser | extends `StreamCodec` |
| `Handshakes` | the bodies of one connection, from the start of the process to the response to the init request | extends `Payloads`, `Protobuf` |
| `RestDispatch` | the body of a REST request from its cells to the reply's cells | extends `Payloads` |
| `VInt` | the loops of `write_vint` and `read_vint` | |
| `ExtensionHostProofs` | the theorems about `ExtensionHost` | extends it |
| `StreamCodecProofs` | lemmas: what each writer writes its reader reads back, and a cut of it is refused | extends `Payloads` |
| `FrameStreamProofs` | the theorems about `FrameStream` | extends it and `StreamCodecProofs` |
| `RestDispatchProofs` | the theorems about `RestDispatch` | extends it and `StreamCodecProofs` |
| `StrayAnswersProofs` | the theorem about `StrayAnswers` | extends it and `ExtensionHostProofs` |
| `HandshakesProofs` | the theorems about `Handshakes`, and the lemmas on nodes, extensions and messages | extends it and `StreamCodecProofs` |
| `HostLockProofs`, `VIntProofs` | the theorems about the module they are named for | extend it |
| `MC*` | the instances for TLC | |

Definitions named `X_Y` are not part of a model. Each is the definition `X`
with a plausible slip of the code in it (a counter not advanced, an entry not
removed, a missing comparison), and documents that the properties notice it:
with the slip in place, the property named in `PROJECT.json` is violated.

### ExtensionHost

`pc[c]` is what the thread of connection `c` does: `reading` in
`MessageFrame::read_from`, `handling` a frame it has read, `writing` the frames
in `outbound[c]`, or one of the ends (`closed`: it returned `Ok`; `error`: it
returned `Err`; `panicked`; `killed` with the process). `toHost[c]` is everything
the peer sent and `received[c]` how much of it was read; `wire[c]` is everything
the host wrote. `next_request_id`, `pending_requests` and `poisoned` are
`HostState` and its mutex. `flow` is a history variable: which init request, on
which connection, each id of the host was drawn for.

Every handler that takes the lock keeps it until it returns, so a handler is one
step (`HostLock` shows that it may be): `handle_response` holds the guard `state`
to its end, and `handle_initialize_extension` takes it after decoding. Reading (`host.rs:85`),
handling (`host.rs:88`) and each write (`host.rs:91`) are steps of their own, so
other threads run between them. Every way out of a handler is an action:

| Code | Actions |
|---|---|
| `serve` | `Accept`, `AcceptFails` |
| `read_from` and the loop around it | `ReadFrame`, `ReadMalformed`, `ReadEnds` |
| writing the returned frames | `WriteFrame`, `WriteFails` |
| `handle_tcp_handshake`, `handle_transport_handshake` | `HandleTcpHandshake`, `HandleTransportHandshake` |
| `handle_initialize_extension` | `HandleInitializeExtension`, `InitializeExtensionFails` |
| `handle_rest_execute` | `HandleRestExecute`, `RestExecuteFails` |
| any other action | `IgnoreUnknownAction` |
| `handle_response` | `IgnoreUnknownAnswer`, `AnswerAfterPoison`, `AcknowledgementFails`, `TracePoisons`, `RegistrationRefused`, `RegistrationAcknowledged`, `EnvironmentSettingsReceived` |

Bodies are abstracted to what the handlers branch on: whether a request body
decodes, whether the route's handler panics, and which of `true`, `false` or
undecodable an acknowledgement is. Of a malformed frame only the way reading it
ends is kept; `FrameStream` shows where these ways come from.

Assumptions about the environment, none of them enforced by the host: a peer
answers a request on the connection that carried it (the table does not record
the connection, so an answer on another one would send the next frame there); a
peer does not reuse an id of its own requests on a connection, while ids of
different peers and of the host may coincide; a peer answers only requests it
was sent, though possibly twice. `StrayAnswers` drops the first of them.

A listener error, or a thread that cannot be started, ends the process
(`AcceptFails`). A route's handler may return, panic or hang; the thread of one
that hangs has no next step.

### InitFlow, and what implementing it means

The abstract state is the status of each init request on each connection: idle,
registering, configuring, replying, answered, refused or abandoned. `FlowStatus`
in `ExtensionHost` reads this status off the wire, the thread, its unwritten frames,
the table and, once nothing of the init request is left in these, the ids drawn
for it. `ImplementsInitFlow` says that every step of every thread is a step of one
init request along its stages, the end of some connections, or invisible: no
step moves the init request of another connection, skips or repeats a stage, or
revives an abandoned one.

### HostLock

`HostLock` keeps the environment and the steps that do not touch the table, and
takes the handlers that do apart: `Lock`, `Take` (the removal), `Trace`, `Draw`
(`next_request_id`), `Store` (the insertion) and `Leave`, with `LockFails`,
`NothingToTake`, `Undecodable` and `TracePanics` as the other ways out. `holder` is
the thread whose guard is alive; dropping the guard, on a return as on a panic,
frees the lock. Threads of other connections run between any two of these steps.

`HandlersAreAtomic` is `ExtensionHost`'s `Spec` under a refinement mapping. A handler
takes effect when its outcome is decided: with its trace line, or, for an init
request, with the id it draws. Before that point an entry it has removed still
counts as pending; after it the entry it is about to insert, the id it is about
to draw and the frames it is about to return already count. The mapping needs no
history, because at most one thread is under the lock.

### SlowPeers

`SlowPeers` puts a buffer of `Capacity` frames between the host and each peer: a
thread's write waits for room, and a peer answers only requests it has taken out.
On a connection in `Troubled` the peer may stop reading for good and a route's
handler may never return. `TroubleStaysHome` is `RequestsSettle` for the other
connections. It holds because frames are written and routes are called after the
guard is dropped (`host.rs:88-92`, `host.rs:253-264`); with `Lock_WaitsForWriters`, a
guard that lives until its frames are written, one peer that does not read stops
all others.

### StrayAnswers

The table of pending requests does not record the connection, so the
correlation theorems rest on peers that answer where they were asked.
`StrayAnswers` drops that assumption. The next frame of the init request then leaves
on the connection the answer came on, and `ResponsesMatchRequests` and
`HostRequestsCarryInit` no longer hold. `ContinuedOnce` does, and speaks of each init
request by itself, on all connections together: its settings are asked for at most
once, it has at most one entry in the table, at most one response to it is ever returned,
with its own id and thread context, and none while an entry is left. Two responses to different
init requests may look alike on a wrong connection, so `answered` is a history variable: the
responses that handlers returned, each with the init request behind the entry that was
taken for it (`Recorded`).

### StreamCodec, Payloads and Protobuf

`StreamCodec` reads and writes sequences of cells. A number, a flag, a length and
each byte of a string is one cell, so a reader out of step takes one for the
other, as with bytes. Strings have characters of one and of two bytes, and other
bytes are refused as `String::from_utf8` refuses them. Maps and sets are written in
the order of their strings (`Ordered`), as `BTreeMap` and `BTreeSet` iterate.

`Payloads` translates the readers and writers of `transport.rs:12-643`. A reader is a
list of readers of fields (`ReadFields` runs them until one is refused), and `IsNode`,
`IsExtensionNode` and `IsTask` say what a value of the Rust struct is. The only version gate is the stream address of a node. Release ids are scaled (3.6.0 is
306) with a mask above all of them, as the code's mask is; addresses of one and
of two octets stand for IPv4 and IPv6, and any other length is refused.

`Protobuf` translates `transport.rs:808-867` with varints of two bits a cell, so that
keys and lengths of short messages take one cell or two. The parser is the peer's:
it knows fields by tag and wire type and refuses a length beyond its input.

### Handshakes

`Handshakes` is the process and one of its connections. `Configure` reads the two
settings over the defaults of `ExtensionMetadata::new`, and `Bind` opens the port or
fails. The peer opens the connection under the oldest version, the host answers with
its own, and both go on under the lower of the two (`HandleTcpHandshake`,
`PeerAgrees`). `HandleTransportHandshake` tells the peer the host's node,
`HandleInitializeExtension` reads the init request under the version of its header,
whole or cut, and registers the routes; `HandleAcknowledgement` reads the flag of the
answer and asks for the settings; `HandleSettings` answers the init request. The
peer's side is external: what it writes, and how it reads the host's frames
(`PeerReadsHandshake`, `PeerReadsMessage`, `PeerReadsRoute`), is OpenSearch as this code
relies on it. The extension's paths and names hold no space, which separates the parts of a
registration (`RoutesAssumption`); nothing in the crate sees to that.

`New` is `ExtensionHost::new`. It calls `routes()` and stores the list that is registered
and matched later; then it calls `implemented_interfaces()`, which calls `routes()` a second
time unless the extension overrides it, and stores the list that the init response
tells (`interfaces`). The two calls may disagree and an override may return anything, in the model as
in the trait, and nothing in the crate compares the two. `InterfacesMatchRoutes` says what holds
nevertheless: the peer hears the stored list, and if nothing was overridden and `routes()` was
steady, this list names actions if and only if the peer read some from the
registration. `steady` (the method was not overridden and saw the same list) and `learnt` (what the
peer read) are there for this property.

The address in the host's node is the configured one, so a wildcard is announced as it
is and tells the peer nothing of where the host can be reached; `AnnouncesWhereItListens` is above all
about the port, which comes from the settings, a default or the system.

### FrameStream and FrameChannel

Frames are built by the two constructors, turned into cells by `ToBytes`, carried
by a network that delivers any number of cells at a time and may be reset, and
read back field by field. Each field of the header is one cell, and a
`read_exact` is one step that waits for its cells. `FrameChannel` is what `ExtensionHost`
 takes for granted when its threads read whole frames: frames come
whole, in order and unchanged, a malformed one ends the reading in the way of its
defect (`Outcome` here is `ReadOutcome` there), and reading may end any time the
connection is gone. `FramesAssumption` says that the constants are what `request` and
`response` take: strings, byte vectors and maps of them. Compression is never used and the version field is constant.

### RestDispatch and VInt

`RestDispatch` follows one REST body, cut after any number of cells: `Decode`,
then one `Skip` per route that does not match, `Handle` or `NotFound`, `Encode`.
A path is split at its slashes as `Route::matches` does.
The routes' handlers are external: one may return any `ExtensionRestResponse` (`IsResponse`), of
whatever status, content type, headers and consumed parameters, also parameters the request has not.
`called` is a history variable: whose handler was called.
`VInt` is scaled: groups of two bits in a word of five, so that, like the five
groups of seven bits in a word of 32, the last group sticks out of the word. `Denoted` says what
an input stands for, as a sum, without the loop. The
assumption `WidthsAssumption` says which widths behave alike, and the code's
(7, 32, 28) satisfy it.

## 3. What the runs check

| Run | Instance | Properties |
|---|---|---|
| `host_safety` | 2 connections; per connection one of two init requests with the same id 1, which is also the host's first id; answers in any order and repeated | `TypeOK`, `RequestIdsUnique`, `PendingCoversRequests`, `ResponsesMatchRequests`, `HostRequestsCarryInit`, `AtMostOneResponse`, `InitSequence`, `OneContinuation`, `ImplementsInitFlow` |
| `host_pipelined` | 1 connection; one of the two handshakes, a REST request, an unknown action and two init requests, sent without waiting | `RepliesInOrder`, `OneContinuation` |
| `host_faults` | 2 connections; all defects, undecodable bodies, panicking handlers, closing peers, breaking stderr, failing listener | `PoisonNeedsTrace`, `PoisonFreezesTable`, `ImplementsInitFlow` |
| `host_liveness` | 2 connections; init and REST requests, refusals, a cut header, closing peers, breaking stderr | `RequestsSettle`, `PendingDrains` |
| `host_refused` | 1 connection; finds a violation | `HandlersRespond` |
| `frame_stream` | 2 frames out of four kinds, each intact or with one of four defects; every split into pieces, every reset | `TypeOK`, `ImplementsFrameChannel`, `ReadingProgresses` |
| `lock_atomic` | 2 connections with one init request each under the same id, all acknowledgements, repeated answers, breaking stderr, failing listener | `HandlersAreAtomic`, `WaitersProceed` |
| `slow_peers` | 2 connections with buffers of one frame; on one of them the peer or a handler may hang | `TroubleStaysHome` |
| `stray_answers` | 2 connections with one init request each, under the same id and with any of two contexts; answers on either connection or both, true and false | `ContinuedOnce` |
| `handshakes` | all settings, valid or not; 3 route lists, any two of them returned by the two calls of `routes()`, and 2 overridden lists of interfaces; peers of 5 releases, on both sides of the stream address and of the host's; 2 nodes, 2 extensions, 2 tasks; every cut of the init request; 6 acknowledgements | `PeerReadsResponse`, `AnnouncesWhereItListens`, `HostReadsInit`, `VersionsAgree`, `PeerLearnsRoutes`, `PeerUnderstandsSettingsRequest`, `InterfacesMatchRoutes` |
| `rest_dispatch` | all tables of up to 3 of 4 routes, 7 paths, 2 methods, unknown ordinals, every cut; 4 responses of a handler, of every status, with no headers, several, and headers with several values or none | `DecodesWhatWasSent`, `FirstRouteAnswers`, `PeerUnderstandsReply` |
| `vint` | all 5-bit words; all inputs of up to 4 bytes | `RoundTrip`, `ReadsDenotedValue`, `RefusesEndlessInput` |

`host_refused` is the one disagreement met so far. `DEVELOPMENT_NOTES.md:17` says
that handlers return a response matching the request's id. When the register
request is answered with `acknowledged = false`, `handle_response` drops the entry
and returns nothing (`host.rs:132-134`): the init request is never answered, on a
connection that stays open. `RequestsSettle` is the same statement with that case
allowed, and holds.

Bounds, and why they are enough. Two connections are what the shared table needs
for every interference: each property relates at most two frames, each on one
connection. One init request per connection with coinciding ids exercises the
correlation across connections, with repeated answers, two on one connection
(`host_pipelined`) the correlation within one. `MaxSent = 2` puts a malformed frame before and after a good one, and resets
at every cell of either. Three routes let a literal path, a template and a
duplicate stand in every order. Each connection is accepted once; accepting it
again would be another connection. In `slow_peers` a buffer of one frame is full as
soon as the peer stops reading, and a larger one only later. A peer sends each request and at most two
copies of each answer, and one malformed frame.

`CHECK_DEADLOCK FALSE` is set in all runs because every behaviour may stop: peers
may fall silent, and a thread that waits for a frame then waits for good. The
liveness runs say where it may not.

Fairness. `FairSpec` of `ExtensionHost` assumes weak fairness of each thread (the
operating system schedules runnable threads, a mutex that is free is obtained
because handlers hold it for one step) and of each peer's answers (without which
the host can but wait). Nothing is assumed of accepting, of new requests, of
closing or of faults. `FairLockSpec` of `HostLock` assumes weak fairness of each
thread's steps, taking the lock among them. That is enough for a thread not to
be overtaken for ever: the other threads take the lock once per frame, and the
run's peers send finitely many. With endless traffic `std::sync::Mutex`, which is not
fair, would promise less. `SlowSpec` of `SlowPeers` assumes the same of threads that
can go on, and that the peers of connections without trouble read and answer;
nothing is assumed of the others. `FrameStream` assumes weak fairness of delivery (TCP
delivers what is not reset) and of the reader.

## 4. What is proved

The theorems hold for every value of the constants (any connections, any peers'
requests, any frames, any widths, any releases) and any number of steps. TLC checked each
property, and the invariants used below, on the instances of section 3 before they were
proved; all but `StreamInv`, which speaks of cells that were lost and of no bounded set of
them.

| Module | Theorem | Statement |
|---|---|---|
| `ExtensionHostProofs` | `TypeCorrect` | `Spec => []TypeOK` |
| | `IdsAreUnique` | `Spec => []RequestIdsUnique` |
| | `ResponsesAreCorrelated` | `Spec => []ResponsesMatchRequests` |
| | `RequestsCarryInit` | `Spec => []HostRequestsCarryInit` |
| | `PoisonOnlyByTrace` | `Spec => []PoisonNeedsTrace` |
| | `PoisonIsFinal` | `Spec => PoisonFreezesTable` |
| | `PendingCovers` | `Spec => []PendingCoversRequests` |
| | `AnsweredOnce` | `Spec => []AtMostOneResponse` |
| | `InitInSequence` | `Spec => []InitSequence` |
| | `ContinuationIsOne` | `Spec => []OneContinuation` |
| | `RepliesKeepOrder` | `Spec => []RepliesInOrder` |
| | `InitFlowImplemented` | `Spec => ImplementsInitFlow` |
| `HostLockProofs` | `LockMakesAtomic` | `LockSpec => HandlersAreAtomic` |
| `StrayAnswersProofs` | `NeverTwice` | `StraySpec => []ContinuedOnce` |
| `HandshakesProofs` | `BothAgree` | `Spec => []VersionsAgree` |
| | `ResponseIsRead` | `Spec => []PeerReadsResponse` |
| | `ListensWhereAnnounced` | `Spec => []AnnouncesWhereItListens` |
| | `InitReadAsSent` | `Spec => []HostReadsInit` |
| | `InterfacesTold` | `Spec => []InterfacesMatchRoutes` |
| | `RoutesLearnt` | `Spec => []PeerLearnsRoutes` |
| | `SettingsUnderstood` | `Spec => []PeerUnderstandsSettingsRequest` |
| `VIntProofs` | `WordsReturn` | `Spec => []RoundTrip` |
| | `NumbersAreDenoted` | `Spec => []ReadsDenotedValue` |
| | `EndlessInputRefused` | `Spec => []RefusesEndlessInput` |
| `FrameStreamProofs` | `StreamTyped` | `Spec => []TypeOK` |
| | `FramesSurvive` | `Spec => ImplementsFrameChannel` |
| `RestDispatchProofs` | `DecodedAsSent` | `Spec => []DecodesWhatWasSent` |
| | `FirstCoveringAnswers` | `Spec => []FirstRouteAnswers` |
| | `ReplyUnderstood` | `Spec => []PeerUnderstandsReply` |

The assumptions are those the modules declare, and TLC evaluates them on every
run: `PeersAssumption` (peers' requests are well-formed frames) and
`SwitchesAssumption` of `ExtensionHost`, `HolderAssumption` of `HostLock` (no
connection is called `"none"`, which stands for a free mutex), `ReleasesAssumption`,
`RoutesAssumption`, `InterfacesAssumption`, `AccountsAssumption`, `SettingsAssumption` and
`PeersAssumption` of `Handshakes` (routes, overridden interfaces, service account headers,
settings, nodes, extensions and tasks are values of their Rust types, and no path or name
of a route holds a space), `WidthsAssumption` of `VInt`, `FramesAssumption`
and `FrameBoundsAssumption` of `FrameStream`, and `RoutesAssumption`, `RequestsAssumption` and
`ResponsesAssumption` of `RestDispatch` (paths are strings; a request is what the peer's codec can
write: its ordinals may be unknown, and a task without a node has no number; and what a
handler returns has the Rust type of a response).

**Types and correlation** (`ExtensionHostProofs`). `TypeInv` adds to `TypeOK` that a thread which handles a
frame has read one and that only a writing thread holds frames (`InStep`);
without it `Frame(c)` need not exist. `Correlation` adds why responses are
correlated: an entry of the table is the continuation of the init request that
`flow` records under its key (`PendingKnown`), that init request was read from
the connection `flow` names (`FlowRead`), a request of the host is on that
connection (`RequestsHome`), and an answer in `toHost` belongs to a request the
host wrote there (`AnswersHome`). `ResponsesMatchRequests` alone is not inductive: the
step that answers an init request needs to know that the entry it takes out
belongs to the connection whose answer it reads, which no response on the wire
tells. `AnswersHome` is where the assumption on peers enters.

**The ledger** (`ExtensionHostProofs`). `AtMostOneResponse` and `InitSequence` are not inductive
either: the step that writes or returns a response sees only the entry it takes.
`Ledger` is what has to be known of the ids drawn for an init request: the first
registers and the second asks for the settings (`InStage`); only the latest can wait in the
table, with the continuation of its stage (`LatestWaits`); an id that was sent waits, or
an answer to it has been handled (`WaitsOrHandled`); and nothing waits once the response
is returned (`WaitingUnanswered`). With respect to the ledger there are three kinds of steps, with one
lemma each: those that rest (`Rests`), the one that responds (`Responds`) and those that draw an id
(`Draws`). `RepliesInOrder` needs only one
connection: whatever a thread has read is answered, on the wire or in `outbound`,
before it reads on, and the order on the wire outlives the thread.

**The refinement of `InitFlow`** (`ExtensionHostProofs`). Each action maps to a step of at most one init
request, the one behind the frame in hand, or to the end of some connections.
The ledger says that this init request is where the step finds it: still
unanswered, with no second continuation.

**Atomic handlers** (`HostLockProofs`). `LockInv` is mutual exclusion with what the
thread under the lock knows at each point: whether its entry was there, what it
removed, which id it drew. The step that decides the outcome (the trace line, or
the id an init request draws) maps to the handler of `ExtensionHost`; every other
step under the lock maps to a stutter, because what it still has to do is
already counted by the mapping.

**Stray answers** (`StrayAnswersProofs`). With answers on the wrong connection neither
`Correlation` nor the ledger holds. What is left is what one id, one entry and one reading of a
request give (`StrayEffect`): an id is drawn for an init request that has none yet, or in place of an
entry that is removed in the same step, or nothing is added. So no two entries ever have the
same init request behind them, and one that was gone on with has no registration left
(`AskedOnce`); an entry remembers the id and the context of its init request (`EntriesKnown`); and
every response in the history took the last entry of its init request (`HistoryOK`).

**Varints** (`VIntProofs`). The writer's invariant is that the groups written and the value that
is left make up the word; the reader's that the value is the sum of the groups
read, which is below the weight of the next group, so that only the last group
can lose bits. Sums are functions defined by recursion. What holds of them
for every input is proved by induction, from `NatLessThanWellFounded` and
`WFMin`: the least number at which it failed would have no predecessor.

**Versions** (`HandshakesProofs`). The host's answer to the TCP handshake carries its own
version; from then on the channel is at the lower of the two, on both sides, and
the host answers under it (`AgreementInv`).

**Bodies** (`HandshakesProofs`). Each payload is a list of fields, so it fits its reader and
its reader goes on because its fields and their readers do (`RoleFits`, `NodeFits`,
`ExtensionFits`, `InitializeFits` and the `...GoesOn` beside them, from the lemmas on the codec
below). A node is read back as far as the version tells (`Told`): without the stream
address under versions before it, which both sides leave out alike
(`StreamAddressReads`). `InitCut` then decides between an init request that came whole, which is
read as it was sent, and one that was cut, which is refused. The properties look at a
body long after the step that wrote it, and none is inductive: `BodiesInv` says for
each body what it was written from (the configuration, the port the listener has, the init
request the peer holds, and that what arrived is a first part of it) until the next frame
takes its place. That an announced address is read back needs that the settings are
octets and ASCII digits (`TextIs`, `AddressIs`).

**Messages** (`HandshakesProofs`). The protobuf messages nest lengths in lengths, and a length
takes as many cells as it needs. A number is its lowest group before the varint of the rest, so by
induction all groups but the last are marked and add up to it, and it is read back with anything
behind it (`VarintNumeral`, `VarintReads`). That such a function exists, on which `VarintIs` rests, is
proved by building it up to each number. A field is then two numbers and the bytes the second counts
(`NumberField`, `BytesField`); a message is its fields in order (`FieldsOfMessage`), for a field has at least one
cell and the parser goes on as often as there are cells; and what is found under a tag are the values
that were written under it (`RegistrationValues`). The parts of a registration are told apart by its
first two spaces, because no path or name holds one (`RouteReads`). `MessagesInv`: while the peer
has not answered, the host's last frame is the request written from the routes it still has; and once it
has acknowledged, it keeps an action if and only if there was a route, for what it read are the
registration strings (`RegistrationRead`, `ActionsLearnt`). `InterfacesTold` needs both invariants: the
response is the one written from the stored interfaces, and these agree with the routes if nothing
came between the two calls.

**The codec** (`StreamCodecProofs`). For each writer a lemma says that the cells of a
value, with any cells behind them, are read as that value and leave exactly the cells behind
(`StringReads`, `StringMapReads`, `StringSetMapReads`, ...). Items that each have this property
have it together behind their number (`ManyReads`, by induction on their number), so an
array follows from a string, an entry from a key and its value, a map from its entries.
Maps and sets need more: that the order of strings is total and has a greatest element on every
finite set, so that `Ordered` lists each string once, and that different keys do not
overwrite each other in `MapOf`.

Messages are fields, one behind the other: if each field is read back, so is the message
(`FieldsRead`), and if one is refused, so is the message (`FieldRefused`). That cells are missing is
noticed because a reader that read without an error reads the same with more cells behind
it (`GoesOn`, for each reader): if it took a cut message, it would leave the rest of the whole
one, of which nothing is left (`CutRefused`).

**REST bodies** (`RestDispatchProofs`). `RestInv`: the body is the first part of what was sent;
only if it is all of it, with known ordinals, is it dispatched, and then as the
request that was sent; none of the routes tried matches; the answer is that of the route tried
next, or NOT_FOUND behind the last. A body is complete or refused by the lemmas on fields
and cuts (`DecodedOrRefused`). `Matches` compares segments and `Covers` chooses what stands for a
wildcard; they agree (`MatchesCovers`): the choice for a path that fits is the path's own
segments. `FirstRouteAnswers` speaks of the request as it was sent, so it
needs the first theorem's invariant. `PeerUnderstandsReply` holds for every response of its Rust
type, because each of its six fields fits its reader.

**Framing** (`FrameStreamProofs`). The invariant, `StreamInv`, says where each frame is: what was
read of a header, what waits in the socket, what is on its way and what a reset lost are, in
this order, the cells of the items not yet delivered (`CellsAfter`). Arriving moves cells within
this sum, sending adds an item at its end, and a reset moves cells to its lost end. A complete
header is therefore that of the next item, and the cells behind it are that item's:
`FrameParsed` says, defect by defect, what `read_from` makes of them. Nothing of this is
visible in `TypeOK` or in the frames delivered, which is why neither theorem can be proved
alone.

Only model-checked:

- Liveness: `RequestsSettle`, `PendingDrains`, `WaitersProceed`, `TroubleStaysHome` and
  `ReadingProgresses`. Fairness and `ENABLED` are out of the prover's reach.

## 5. What is not modelled

- The text of trace lines and errors, and `Display` of a version: nothing reads it.
- The bytes of fixed-width numbers: `to_be_bytes` and `from_be_bytes` of the standard
  library are one cell. Characters of three and four bytes.
- The variants of `read_from`, `write_to` and `to_bytes` that supply a version
  themselves. Those that write use the current version and those that read the
  oldest, which differ by the stream address, so a node written with one is misread by
  the other; the host calls the explicit variants only.
- `is_error` and `is_compressed`, which nothing asks: an error answer is handled by
  its body alone, and a compressed frame would be read as it is.
- Memory: buffers and arrays are allocated by lengths from the input, up to 4 GB.
- `route_key` and `ExtensionRestResponse::text`, which have no caller but tests.
- The handler of `/hello`, a constant; handlers in `RestDispatch` may return any response.
- The names of methods and the text of addresses: `AsStr` is one letter for each ordinal and an octet one
  digit, so that the names differ and are read back is modelled, and their spelling is not.
- The live harness, an operational script outside the program. There is no crash
  recovery to model: the process persists nothing, and a restart is a new start.

## 6. Plan

The program's control is modelled: every handler, every way out of one and every payload the
host reads or writes. Its data is abstracted as section 5 lists, and the scripts and tests are left
out. Every safety property, action property and refinement the runs check is
proved, and the liveness properties are only model-checked. Should the program change, the modules to look at
first are those whose sources section 1 names for the part that changed; a new handler is a
new action of `ExtensionHost` with a case in each of its invariants' proofs, and a new payload
a list of fields in `Payloads`, whose reading back follows from `FieldsRead` and `CutRefused`.

## 7. Running it

    tlc -workers 2 -config MCHostSafety.cfg MCExtensionHost.tla
    tlapm ExtensionHostProofs.tla

and likewise for the other modules with proofs.
Each configuration names the module it is for in its file name (`MCHost*` for
`MCExtensionHost`, `MCLock*` for `MCHostLock`; the others have the name of their
module).
