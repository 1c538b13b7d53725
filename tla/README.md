# quail-server in TLA+

quail-server is a QUIC/HTTP3 and WebTransport server built on Google's QUICHE.
This directory models the server's own code (`src/src`, and the part of the
QUICHE platform layer under `src/default` that keeps shared state), checks the
models with TLC on small instances and proves their main invariants with TLAPS
for every value of the constants. Line numbers refer to `src/src` unless a
longer path is given.

    tlc -config MCQuitServerStream.cfg MCQuitServerStream.tla
    tlapm QuitServerStreamProofs.tla

`PROJECT.json` lists the components, the runs, for each property a mutant of
the code that breaks it, the source lines behind each definition, the hazards,
the findings and the theorems.

## 1. Inventory

The server has one thread. `QuailServer::Start` builds a `QuitServer`, which
opens a UDP socket, and runs an event loop for ever. An event makes
`OnSocketEvent` read datagrams and hand them to the dispatcher, which creates a
session for each client hello; QUICHE calls the sessions' and streams' handlers,
and these call the backend, which answers from its cache, accepts a WebTransport
session, or refuses. Alarms run between two events. Only reference counting
is shared with other threads.

| Component | State | Operations | Talks to |
| --- | --- | --- | --- |
| `QuitServerStream` | request headers, `content_length_`, `body_`, `response_sent_`, `generate_bytes_length_`, the delayed-response alarm | handlers of headers, body, FIN, invalid headers, `OnCanWrite`, alarm; the backend's `OnResponseBackendComplete`, `SendStreamData`, `TerminateStreamWithError` | backend (calls, and callbacks at once or later), QUICHE stream |
| `QuitServer` | event loop, dispatcher, socket, socket factory | constructor, `CreateUDPSocketAndListen`, `HandleEventsForever`, `OnSocketEvent`, `Shutdown`, destructor | kernel, dispatcher, backend (raw pointer to the factory) |
| `QuitDispatcher` | `rst_error_map_` | `CreateQuicSession`, `OnRstStreamReceived`, `GetRstErrorCount` | QUICHE, sessions |
| `QuitServerSession` | nothing of its own; QUICHE's streams of the connection | `OnStreamFrame`, `CreateIncomingStream`, `CreateOutgoing...Stream` | QUICHE, backend, streams |
| `QuailServerBackend`, cache | `responses_` | `InitializeBackend`, `AddResponse`, `GetResponse`, `FetchResponseFromBackend` | files, streams |
| `QuailServerBackend`, paths | `callbacks_` | `On`, `ProcessWebTransportRequest` | application, `QuitConverter` |
| `QuitConverter`, `QuitTransportStream`, `QuailTransport` | `transport_`, `session_`, one visitor for each stream | session and stream handlers, `Send`, `SendDatagram` | QUICHE session, application (signals) |
| Echo visitors | `buffer_`, `send_fin_`, `fin_sent_`, `stop_sending_received_`, `streams_to_echo_back_` | stream and session handlers | QUICHE streams |
| Reference counting | `ref_count_`, `object_` | copies, moves, assignments, destruction | any thread |
| File utilities | none | enumerate a directory, read a file | file system |
| Proof source, sigslot, demo, logging, flags, mutexes, URLs | see section 8 | | |

What is hard, and what correctness means there:

* **Stream.** Headers, body, FIN, an answer of the backend that may come at
  once, much later or after a delay, resets, and flow control come in any order.
  The client must see one well-formed response, complete and with nothing
  behind its FIN; the backend must be asked once, with the whole request; a
  late answer must still be wanted; a complete request must be answered.
* **Server loop.** The kernel moves between any two calls of `OnSocketEvent`,
  events disarm themselves before they are handled, and at most 16 sessions are
  created in one event. No event may be lost, no hello dropped, a blocked write
  must resume, and the pointer the backend keeps must never outlive its factory.
* **WebTransport.** Streams, their bytes, FINs, resets and STOP_SENDINGs come
  before, during and after the session. Each stream must get its visitor,
  nothing may be relayed before there is a transport, `Send` must find its
  stream, at whatever time the application calls it.
* **Connection.** A client may have a number of streams open; which side ends
  them decides how many it ever gets. Frames, repeated and late resets
  included, reach session, dispatcher and stream in turn.
* **Echo.** Writes and FINs are refused while the stream is full and must be
  retried in order, once. Credit for streams of the server's own comes when
  the client likes; texts must leave with it, in order.
* **Backend.** Names become keys by arithmetic on positions, files may be
  malformed, the order of loading and of registration decides who wins.
* **Reference counting.** Increments, decrements and deletions of several
  threads interleave; an object must be deleted once, when nobody holds it.

## 2. Modules

| Module | Models | Extends or refines |
| --- | --- | --- |
| `HttpExchange` | what an exchange of one request and one response promises (abstract) | |
| `QuitServerStream` | one request stream, its backend, the send side below it | implements `HttpExchange` |
| `Admission` | what the server promises those who ask for a session (abstract) | |
| `QuitServer` | the server's life and event loop, the dispatcher and socket as the loop sees them | implements `Admission` |
| `QuitTransport` | one WebTransport session: converter, stream visitors, `Send` and `SendDatagram` | |
| `QuitServerSession` | one connection, with the dispatcher's statistics | extends `QuitTransport`, composes with it, implements its specification |
| `Echo` | what an echo of one stream promises (abstract) | |
| `EchoStream` | the bidirectional echo visitor | implements `Echo` |
| `EchoTexts` | what an echo of whole texts promises (abstract) | |
| `EchoSession` | the session visitor: unidirectional echo, the bidirectional stream it opens | implements `EchoTexts` |
| `QuailServerBackend` | loading the cache, looking up, the table of paths | |
| `SharedObjects` | what counted references promise of each object (abstract) | |
| `ReferenceCounted` | counted pointers, one step for each atomic access | implements `SharedObjects` |
| `MC*` | values of the constants for TLC | their module |
| `*Proofs` | invariants, lemmas, theorems | their module |

How state and actions correspond to the code:

* **`QuitServerStream`.** The variables `req`, `body`, `stream`, `alarm` are the
  data members (`quit_server_stream.h:104-120`); `asked` is what the backend
  still owes. A handler, with all the calls it makes, is one step, since the
  server has one thread. A member function that writes is an operator on the
  record `stream`, applied in the order of the calls: `Respond`,
  `SendHeadersAndBodyAndTrailers`, `SendIncompleteResponse`,
  `WriteGeneratedBytes` and so on. What goes to the client is
  kept as a sequence of sections (interim headers, headers, body, trailers), not
  bytes. When FIN comes with the headers, QUICHE delivers the body from inside
  `OnInitialHeadersComplete`; these are the `...AndFin` actions. The build is
  the release build: an assertion that fails is recorded (`failed`) and the
  code goes on. WebTransport CONNECT is in this module as far as the stream
  is concerned. `HttpExchange` sees of the stream how much of the
  request there is (`RequestState`) and what was written: a response is interim
  headers, then headers, then body, then trailers, each once; nothing is written
  while the request is partial, nothing is taken back, and nothing follows
  the FIN.
* **`QuitServer`.** `OnSocketEvent` is cut at its calls into QUICHE, for the
  kernel may act between them: `ProcessBufferedChlos`, `ReadAndDispatchPackets`
  (repeated), `NoMoreToRead`, `RearmReadable`, `OnWritable`; `phase` is
  the place in the function. `io` is the socket, its registration with the
  loop, and the dispatcher's counters. `EdgeTriggered` chooses between the two
  kinds of loop that `CreateEventLoop` may return. `Admission` sees of it the
  hellos: in the socket they ask, in the buffer they are put off, as sessions
  they are admitted, and `turn` is what the event under way has used of its limit.
* **`QuitTransport`.** One step for each handler, the application's
  callback included: the reply, if it sends one, is written in the same step.
  The application may also send at any other time (`Push`, `SendDatagram`),
  for it keeps `QuailTransport` and nobody takes it back; `crashed` says which
  call used a null stream or a deleted session, and the program stops there.
  The state of QUICHE's session (streams that came early, the queue of new
  streams) is modelled since `QuitConverter` accepts one stream for each
  notification.
* **`QuitServerSession`.** Each of its steps is a step of `QuitTransport`, with
  what the connection adds: a new stream only below the client's limit
  (`CreateIncomingStream`), the end of the connection on a frame for a stream
  of the server (`OnServerStreamFrame`), and a RST_STREAM that the dispatcher
  counts before the stream hears of it (`OnRstStream`). `http3` is the version
  of the client's choice; with an older one there is no WebTransport.
  `stopped` and `resetBy` are history, for the properties only.
* **`EchoStream`, `EchoSession`.** The data members of
  `quit_web_transport_visitors.h`; the stream below takes a write whole while
  less than `Threshold` bytes wait in it. `EchoSession` keeps texts as
  the identity of the stream they came on and their size. `EchoTexts` knows
  only texts that have ended, how many streams were ever granted and what was
  sent: as many echoes as both allow, never fewer, and queue and credit do
  not occur in it.
* **`QuailServerBackend`.** Names are sequences of characters, for the key of
  a file is computed from positions in its name; a text is a sequence of
  line kinds. The files are loaded in any order, each in the steps `OpenFile`
  (the name), `Read` (once for every line, `resource` is the `ResourceFile`)
  and `LoadFile` (`AddResponse`). Behind `Spec`, `Headers`, `Malformed`, `Body`
  and `Key` say the same of a text as a whole; they are what the properties
  compare with, not the code.
* **`ReferenceCounted`.** `op[t]` says where thread `t` is in its operation:
  before `fetch_sub`, before `delete`, before the assignment and `fetch_add`.
  Callers keep a pointer that one thread writes from the other threads
  (`MayUse`), as they must for any object of C++. `SharedObjects` has no count:
  an owner is a pointer, or a thread in the middle of an operation that has a
  reference of its own (`HeldBy`); a pointer that is copied to itself
  misuses its object (`Life`).

## 3. Runs

Twelve runs: nine must pass, three show a disagreement (section 5).

| Run | Instance | What it shows |
| --- | --- | --- |
| `stream` | all seven response types, asynchronous backend with a tunnel | `OneResponse`, `NothingAfterFin`, refinement `AnswersOnce`, `GeneratedBodyComplete`, `BackendGetsWholeRequest`, `PendingAnswerWanted`, `AnswerNearer` |
| `stream_progress` | responses that end a request, with fairness | `AnswerOwed`, `RequestAnswered` |
| `stream_once` | the repository's own backend | violates `HeadersIffNotSent` |
| `server_poll` | level-triggered loop, 2 servers over one backend | `NoLostEvent`, `ChlosKept`, refinement `AdmitsInOrder`, `FactoryUsable`, `ChlosServed` |
| `server_edge` | edge-triggered loop | `WritesResume` |
| `server_stall` | level-triggered loop | violates `WritesResume` |
| `transport` | a connection with three bidirectional streams, two of them at a time, and a unidirectional one | `SessionTypeOK`, `TransportReady`, `EveryStreamAccepted`, `OnlyEarlyBytesWait`, `SendFindsStream`, `OnlyClientFreesStreams`, `ResetsCounted` |
| `echo` | one stream, two byte values | `RefusedIsRetried`, refinement `Echoes`, `EndNearer`, `EndAnswered` |
| `echo_uni` | three streams | refinement `EchoesTexts`, `NoneWaitsWithCredit`, `OnlyExtremesLackFin` |
| `backend` | 18 files, two in a directory | `FilesShadowOnlyAliases`, `AllOrNothing`, `ServedAsWritten`, `SessionsGetFirstCallback` |
| `backend_lookup` | one file | violates `RetrievesGiven` |
| `reference_counted` | two threads, four pointers, two objects | refinement `RefinesShared`, `CountsHolders`, `NeverUsedDeleted`, `NeverLeaks`, `UniqueIsAlone` |

The runs `stream` and `server_poll` also check their module's `TypeOK`, and
`transport` the one of both its modules. The types of the other modules, and two
invariants that follow from a refinement (`EchoedInOrder`, `SessionsBounded`),
are proved (section 7) and need no run.

Bounds, and why they are enough:

* **stream.** `Regions` {1, 2} and `MaxBody` 3 give a body in one piece, in
  several, and longer than announced; `ContentLengths` {none, 0, 2} give
  bodies equal to, shorter and longer than the length; `ChunkSize` 2 with paths
  0, 2 and 3 gives no chunk, a full last one and a partial last one, and two
  paths that are no number leave 0 or 1 in the variable parsed into. Every
  response type occurs, delayed and not, with and without hints, body,
  trailers. The state space is small (about 2,000 states) because a stream
  answers one request.
* **server.** With 2 sessions an event, 5 hellos need three events, two of
  them artificial; `SendBuffer` 2 lets a write block in the middle of a batch;
  two servers show what the first one's end leaves in the backend. `MaxChlos`,
  `MaxWrites`, `MaxStarts` bound counters in guards. In `server_stall` one
  datagram fills the socket.
* **transport.** Two streams are the least with which one can be accepted in
  the place of another, and the third is one more than the limit of two, so
  that it needs one of them to be freed; one delivery of 2 bytes and one of
  none (a FIN alone) come before or after the visitor; `Threshold` 1 makes
  the second reply meet a full buffer; two RST_STREAM frames of one code tell
  a first entry from a later one. Streams are symmetric; 1.6 million states.
* **echo.** 5 bytes in chunks of up to 2 with `Threshold` 2: the stream is full
  and refuses more than once, with data behind what was refused; two byte
  values tell the order.
* **echo_uni.** Texts of 0 to 3 bytes around `Threshold` 2; three streams and
  credit of 1 or 2 at a time make texts queue and leave in batches; credit
  for bidirectional streams comes before the session, after it, and again
  when the stream is open.
* **backend.** An alias needs two files; the names cover each way by which
  two names meet (separator, port, cut at a comma), the texts each place
  where `Read` returns early. Paths and callbacks are symmetric.
* **reference_counted.** Two threads race for the last reference; four pointers
  let each have a source and a target; two objects let an assignment give up
  one for another. Symmetric in threads, pointers and objects. No bound: the
  state space is finite and no state is a deadlock.

`CHECK_DEADLOCK FALSE` is set where a program may come to rest: a stream that
is gone, a client that sends no more, a server that is destroyed.

## 4. Properties with exceptions

Some invariants hold with exceptions that are named in them, for the code has
these cases:

* `Overlong`: a CONNECT that delivers more than its content-length in one go gets
  a second response (finding 1). `OneResponse`, `AnswersOnce`,
  `PendingAnswerWanted`, `GeneratedBodyComplete` set it aside;
  `OneResponse` says that it is the only case.
* `NothingAfterFin` also excepts a WebTransport CONNECT whose FIN comes with its
  headers (the session ends the stream before `:status` is written); one that
  was refused, with headers and FIN (`quit_server_stream.cc:89`), and whose
  session, which the stream keeps, answers the client's FIN with a second one;
  and a path
  that is no number: `SimpleAtoi` leaves what it has parsed in
  `generate_bytes_length_` (line 334), and `OnCanWrite` writes it after the 404.
* `GeneratedBodyComplete`: for a length of zero no FIN is sent
  (line 385), hence `MCPositivePaths` in `stream_progress`; `AnswerOwed` sets
  this case aside, and a backend that ignores requests (`EndlessAnswer`). Both
  conditions are about the constants, and neither is met in `stream_progress`.
* `AnswerNearer`: only the alarm behind an interim 100 goes back, to the
  backend's second answer.
* `OnlyEarlyBytesWait`: what arrived before a stream's visitor is read only when
  more arrives, since the call of `OnCanRead` is commented out
  (`quit_converter.cc:53`).
* `SendFindsStream`: `Send` dereferences a null stream when the client has sent
  STOP_SENDING and then finishes the stream, if the application replies; a
  message that is sent later misses a stream the client has closed on both
  sides, and any call misses a session that is deleted. The invariant says
  that these are the only cases: a reply never meets a stream that is gone
  for another reason, and no call comes before the session.
* `OnlyClientFreesStreams`: a client that finishes its streams and reads every
  answer still has at most `MaxStreams` of them in the whole session, and one
  more for each STOP_SENDING. This is a bound on what the code grants,
  not a promise of its documents. QUICHE's own limit on streams that wait for
  their session would free some of them too; it is not modelled.
* `AllOrNothing`: one entry without a status (a dangling link) leaves the cache
  empty; the result of `InitializeBackend` is not looked at
  (`impl/quail_server_impl.cc:26`).
* `OnlyExtremesLackFin`: an empty text, and one that can fill the stream's
  buffer, get no FIN; for the latter the assertion
  `QUICHE_DCHECK(fin_status.ok())` at `quit_web_transport_visitors.h:166` fails.
* `FilesShadowOnlyAliases`: names with `\`, `,` or `:`, and files with an
  X-Original-Url, may meet other names in one key; plain names never do.
* `ServedAsWritten`: a file whose reading broke off keeps its `connection`
  header, has no body and ignores its X-Original-Url, and is served.
* `NeverUsedDeleted`, `UniqueIsAlone`, `RefinesShared`: a pointer copied to itself gives its
  reference up before it takes it again; `selfCopied` remembers such objects.

## 5. Findings

1. `stream_once` (`quit_server_stream.cc:453`): "Headers should be sent iff not
   sent in a previous response." fails for a CONNECT with a
   content-length: answered at its headers, it is answered again when more data
   than announced arrives.
2. `server_stall` (`quit_server.cc:226`): with a level-triggered loop the
   writable event is reported once at the start, with nothing pending, and not
   rearmed; a write that blocks later is never resumed. `quit_server.h:50` says "Handles all events". The
   run's specification has the fairness of section 6.
3. `backend_lookup` (`quail_server_backend.cc:142`): `GetResponse` looks up the
   constant `local2/index.html`; the header promises the response "for a given
   host and path".

## 6. Fairness

* `QuitServerStream`: an alarm that is set fires (QUICHE's alarms are run by the
  loop); a backend that was asked answers; the peer opens its flow control
  window while bytes are left to generate. Nothing is assumed of the client's
  requests. `stream_progress` uses responses that end a request: an ignored one
  is meant to get no answer, and an incomplete one is ended by the backend
  when it likes.
* `QuitServer`: `HandleEventsForever` is an endless loop, so an event that is
  reported is handled and its handling ends; the kernel sends what it has taken.
  Weak fairness suffices. No arrival is assumed.
* `EchoStream`: the client reads, so flow control opens while bytes wait.

The other modules state safety only.

## 7. Proofs

The theorems hold for every value of the constants that satisfies the modules'
assumptions (bounds are naturals, sizes positive where the code has
positive constants, responses and files legal, finitely many threads and pointers).
A bound such as `MaxChlos` may be any natural.

| Module | Theorems | Inductive invariant |
| --- | --- | --- |
| `QuitServerStreamProofs` | `TypeCorrect`, `ResponseStartsOnce`, `FinIsLast`, `LateAnswerWanted`, `WholeRequestFetched`, `GeneratedInFull`, `StreamAnswersOnce`, `NoRequestForgotten`, `AnswerComesNearer` | `ControlInv`, `RequestInv`, `ExchangeInv`, `OwedInv` |
| `QuitServerProofs` | `TypeCorrect`, `EventsSurvive`, `HellosAccounted`, `SessionsLimited`, `FactorySafe`, `ImplementsAdmission` | `ServerInv` |
| `QuitTransportProofs` | `TypeCorrect`, `RelayHasTransport`, `StreamsGetVisitors`, `LaterBytesAreRelayed`, `OnlyStoppedStreamsAreLost` | `TransportInv` |
| `QuitServerSessionProofs` | `SessionCarriesTransport`, `SessionTypeCorrect`, `ConnectionKeepsSession`, `ClientFreesStreams`, `StatisticsComplete` | `ConnectionInv` |
| `EchoStreamProofs` | `TypeCorrect`, `FinIsLast`, `RefusalsRetried`, `VisitorEchoes`, `EndComesNearer` | `EchoInv` |
| `EchoSessionProofs` | `TypeCorrect`, `EchoOrder`, `CreditUsed`, `FinExceptExtremes`, `SessionEchoesTexts` | `EchoInv` |
| `QuailServerBackendProofs` | `TypeCorrect`, `OnlyAliasesShadow`, `DirectoryAsAWhole`, `FilesReadAsWritten`, `FirstCallback` | `ReadingInv`, `LoadInv`, `EnumerationInv`, `PathInv` |
| `ReferenceCountedProofs` | `TypeCorrect`, `CountExact`, `DeletedOnce`, `NoLeak`, `UniqueCorrect`, `ImplementsShared` | `IInv` |

Why the properties need strengthening:

* **Stream.** That an assertion does not fail depends on who may still answer.
  `Control` says it for each phase of a request: before the FIN of an ordinary
  request, while an answer is owed, or an alarm set, nothing final was sent
  (`Unanswered`); while the backend streams, headers are out and the FIN is not
  (`Streaming`); a WebTransport session that was accepted has no FIN before
  the client's. It holds unless the request is `Overlong`. `RequestInv` adds
  that until its FIN a request has collected every byte (`body = rcvd`).
  `ExchangeInv` adds what the refinement needs of the response so far
  (`Proper`): its sections are in order, it has headers unless only interim
  ones were sent, trailers end it, and a generated body is short
  of its length by exactly `generate_bytes_length_`. With it each step
  of the stream is a step of `HttpExchange` or a stutter, and `AnswersOnce`
  follows.
* **Progress of a stream.** Liveness cannot be proved here, but what it rests on
  can. `NoRequestForgotten`: of a complete request without a whole answer
  somebody is to go on with the answer, the backend, the alarm or the loop of
  `OnCanWrite`. `OwedInv` adds that an `Overlong` request has been answered to
  its end and that nothing arrives before the headers. `AnswerComesNearer`:
  the stage of the answer (backend, alarm, streaming, done) and within it the
  bytes left to generate never grow, except from the alarm of an interim 100
  to the backend's next answer. That alarms fire, the backend answers and flow
  control opens is all that is left to assume; `RequestAnswered` adds it as
  fairness and TLC checks the conclusion.
* **Server.** `NoLostEvent` needs that a level-triggered loop is armed, or its
  event is being handled, before anything arrives (`EventInv`);
  `SessionsBounded` that the limit is shared between the buffered hellos and
  those just read (`Limit`); all of them, that a server that does not listen
  has nothing in its socket and that a new one finds the pointer cleared
  (`LifeInv`). For the refinement `Limit` also says that after the buffered hellos
  were served either none is left or the limit is used up: only then
  is every session that is created for a hello from the socket in its turn.
  `AdmissionStep` maps `ProcessBufferedChlos` to `AdmitPutOff`, `ReadAndDispatchPackets`
  to `Hear`, the start and the end of listening to `Open` and `Close`.
* **Transport.** `StreamsGood` says of each stream what the handlers keep (a
  message was relayed only with a visitor; nothing unread but what was early);
  `SessionInv` ties streams to the session and its queue.
* **Connection.** `SessionCarriesTransport` shows that a connection's behaviours
  are behaviours of `QuitTransport`, so its theorems need no second proof.
  `ConnectionInv` adds that the live streams are within the limit
  (`WithinLimit`) and that a stream closed on both sides was stopped by the
  client while its session lasts (`ClosedByClient`); opened streams are live
  or stopped, and the bound is a sum of cardinalities. A reset stream and
  its entry in the statistics change in one step.
* **Echo.** `Accounted`: what was received is what was written, followed by
  `buffer_`. With it each step of the visitor is a step of `Echo` or a stutter.
  `EndComesNearer` is the safety half of `EndAnswered`: after the client's end
  each step shortens `buffer_`, or drains the stream without it growing again;
  `RefusalsRetried` says that such a step is still to come.
* **Echo of a session.** `Order` is `EchoedInOrder` element by element, which the
  loop of `TrySendingUnidirectionalStreams` keeps for any queue and credit
  (`TrySendingFacts`); `FinishedAreWhole` says that a text that was queued is
  complete, hence keeps the size that decides about its FIN. `EchoOf` says of
  one echo what it may have sent of its text, and `Mapping` that as many texts were sent as have
  ended and are granted; `Grows` says what any step adds. `EchoesTexts`
  follows, in which the order of leaving, one echo for each text, and that
  none waits with credit are one formula, and no echo is taken back.
* **Backend.** `EnumerationInv`: the keys in the cache are those of the files
  that were enumerated and are no longer to be loaded. `ReadingInv` is the loop
  invariant of `Read`: up to the line it has reached there were headers only,
  it has collected exactly these, and it has not gone past their end
  (`EndFacts`: the end is the first line that ends them); hence a file that is
  read is read as it is written (`ReadLineFacts`). `LoadInv` carries that on to
  the cache and ties the cache to the order of loading; from it two plain names
  in one key are one file (`PlainFilesApart`, by the lemmas on positions); `PathInv` says that a callback is the first
  registered for its path.
* **Reference counting.** `Sources` says what an operation under way relies on
  (its source still holds the object it read), `Exclusive` that nobody else
  writes it, `Unborn` that nothing holds an object not yet made. The count is
  a cardinality, so each step has a lemma on how the set of holders changes.
  The same lemmas give the refinement: a step creates, shares, hands over or
  drops one reference of one object (`OneObject`), `fetch_sub` of the last one
  drops it, and the thread that saw zero deletes the object no one holds.

Only model-checked: the liveness properties (`RequestAnswered`, `ChlosServed`,
`WritesResume`, `EndAnswered`), since liveness under fairness and ENABLED are
out of the prover's reach, as are induction over data and RECURSIVE operators
(no module uses one). For two of them the safety part, that somebody is to
act and that each step comes nearer, is proved. Every invariant, every action
property and every refinement of a passing run is proved.

## 8. Not modelled

* `QuitServerSession::CreateOutgoingUnidirectionalStream` has no caller:
  WebTransport opens its unidirectional streams without it. Requests of a
  version without HTTP/3 leave nothing in the session; the crypto stream is
  QUICHE's.
* HTTP/2 over gQUIC, and header and frame encoding: QUICHE's.
* The answer to a datagram keeps no state. The discarding visitor reads and
  forgets. `QuitStreamVisitor` is instantiated nowhere; it is the bidirectional
  echo with its FIN commented out.
* A CONNECT for WebTransport with FIN in its headers is in `QuitServerStream`;
  `QuitTransport` starts from sessions whose CONNECT stream is open.
* Proof source, logging, flags, mutexes, URLs, path joining, the demo: input,
  output and formatting. sigslot is vendored.
* After a deleted object has been used C++ promises nothing;
  `ReferenceCounted` leaves its memory as it was and counts nothing on
  it. A cached file that begins with an empty line reads the byte before its
  text (`quail_server_backend.cc:46`); the outcome is that of any empty line.

## 9. Plan

Written, in this order: the request stream, the server loop, the WebTransport
session, the echo visitors with their refinement, the cache and the table of
paths, reference counting; then the abstract exchange that the request stream
implements, the connection around the WebTransport session, and the session
visitor of the echo; each with its run first and its proofs after it. Last
came the abstract specifications `Admission`, `EchoTexts` and `SharedObjects`
with the proofs that the code's models implement them, and the safety part of the
liveness properties of the request stream and the echo.

Still to do, in order of weight:

1. The two components without an abstract specification: `QuitTransport` as a
   relay of messages (each hands over all that has arrived, none after a reset,
   carried to the connection by `SessionCarriesTransport`), and the table of
   paths as a write-once registry.
2. `QuailServerBackend` composed with `QuitServerStream`: the requests a cached
   directory can answer, in place of the constant `Responses`; and with
   `QuitTransport`, so that a session is refused by the table of paths.
3. Several request streams on one connection, so that the limit of
   `QuitServerSession` counts them with those of WebTransport.
4. Liveness of the echo of a session: that every finished text leaves, given
   that the client allows streams for ever.
5. `QuitStreamVisitor`, the discarding visitor and datagrams, if they come to be
   used or to keep state.
