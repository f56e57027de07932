# Verification of uvpp-protocols

TLA+ models of the asynchronous core of uvpp-protocols, TLC configurations that
check them on small instances, and TLAPS proofs of the safety properties of seven
of them for every size. Source paths are relative to the
repository root. `PROJECT.json` lists components, runs, mutants, the map from
definitions to source lines, findings, hazards and theorems.

## 1. The system

uvpp-protocols is a single-threaded library on a libuv loop. Nothing runs in
parallel; what is hard is *re-entrancy* and *order*: almost every function may
call the application, which may call back into the object that is still on the
stack, and results of writes, connects, timers and closes arrive in any order.

| component | state | operations | called by / calls | hard part | correct when |
|---|---|---|---|---|---|
| TCP connect operation (`src/io/transport.cpp`) | candidate index, current handle, closing handles, deadline timer, completed flag | start, cancel, connect result, deadline, close callbacks | application, HTTP client / libuv | deadline, cancel and results race; next attempt starts in a close callback | one callback, one handle at a time, nothing left open, tries every candidate |
| TLS listener (`src/tls/listener.cpp`) | pending handshakes with timers | accept, handshake result, timeout, close | HTTP server / TLS stream | timeout versus result; limit | pending bounded, no stray timer, one report per connection |
| TLS stream (`src/tls/stream.cpp`) | handshake, clear and encrypted write queues, decrypted data, terminal read, close callbacks | start, cancel, read_start, read_stop, write, close, lower reads and writes | any byte-stream user / OpenSSL, lower stream | every callback may re-enter; SSL wants reads for writes; failure with queued work | reads and writes in order, each answered, clean EOF only after close_notify, close flushes |
| HTTP server session (`src/http/server.cpp`) | parser events, active request, response slots, write queue, one timer, upgrade | reads, event handlers, hooks, handlers, deferred and streaming responses, body pause/resume, timeouts, close | byte stream / application | pipelining with out-of-order completion, back-pressure, callbacks during walks over the slots | responses in request order and whole, every slot settled once, limits kept, timers guard idle connections |
| response and body handles (`src/http/response.cpp`, `request.cpp`) | flags of one response, one body | defer, stream, end, cancel; pause, resume | application / session | outlive their session | part of the session |
| HTTP/1 parser adapter (`src/http/detail/`) | event list | parse | session / llhttp | pauses at upgrades, fails for good | part of the session |
| HTTP client and pool (`src/http/client.cpp`) | phase, timer, stream, redirects; upload queue; idle streams per origin | request phases, redirect, cancel, upload writes, take, release, expire | application / DNS, connect, TLS | cancel and timeouts during a redirect; stale pooled streams; callbacks that cancel | one completion, answers matched to requests, no stream leaked or shared, uploads whole |
| WebSocket session (`src/websocket/session.cpp`) | frame buffer, fragments, write queue, close handshake, timer | frames, sends, close, byte-stream mode | application / byte stream | close handshake races; callbacks re-enter parsing | one Close frame, messages whole, close completes, each write answered |
| Multipart parsers (`src/http/multipart.cpp`) | parser phase, buffer, current part, limits | chunks, part consumers, pause, resume; form parsing | request body | delimiters split over chunks, re-entrant resume | each part exactly its payload, both parsers agree |
| Router (`src/http/router.cpp`) | trie of segments with targets, hooks, handlers | add, group, mount, match, fallback | application / session | competing branches, refused registrations, mounts | most specific route, handlers of the right scope |
| static files, DNS, URL, TLS contexts, options | little or none | | | mostly pure functions | |

Interaction: a listener (TCP, pipe or TLS) hands byte streams to
`server::impl::add_listener`, which makes one session per stream. A session owns
its stream until it closes or an upgrade moves it to a WebSocket session. The
HTTP client runs DNS, connect, TLS and request phases in sequence over the same
byte-stream interface. All sharing is by callback.

The hazards each component is exposed to, with their lines and the properties
that cover them, are in `PROJECT.json`.

## 2. Modules

| module | models | state and actions |
|---|---|---|
| `ConnectOperation` | what `tcp_connector::connect()` promises | abstract: one answer, one stream with success and none otherwise, never silence |
| `TcpConnect` | `class tcp_connect_state` | one variable per member; `handle[h]` is the life of candidate h's `uv::tcp`, `thenNext` the handles whose close callback goes on. Actions: the two outcomes of `start()`, `Cancel`, `Timeout`, the three outcomes of a connect callback, the two close callbacks |
| `TcpConnectRefines` | | the refinement mapping from `TcpConnect` to `ConnectOperation` |
| `TcpConnectProofs` | | theorems about `TcpConnect` |
| `TlsListener` | `class tls_listener_model` | `pending_`, `closing_`, per connection its owner, timer and number of reports |
| `TlsListenerProofs` | | theorems about `TlsListener` |
| `SequenceFacts` | | lemmas about sequences and least elements that the proofs below share |
| `TlsStream` | `class tls_stream_model` | one variable per member, OpenSSL's input as `rbio`, the peer and the lower stream as environment, and histories of what was delivered, sent and answered |
| `TlsStreamProofs` | | theorems about `TlsStream` |
| `HttpSession`, `MCHttpSession` | `struct session` with `response_state` and `request_body_stream` | one variable per member that matters, slots as records, the parser as a source of events; the MC module has what the peer sends |
| `HttpSessionProofs` | | theorems about `HttpSession` |
| `ConnectionPool` | `class connection_pool` | operators on a record of idle queues and lives of connections, shared by the two modules below |
| `HttpClient` | `class request_state` | a record per buffered request: phase, timer, stream, redirects; the servers are the environment, and each response unit carries the request and the hop it answers |
| `HttpStreaming` | `class streaming_request_state` | one streaming request: upload queue, backpressure, response framings, and the callbacks that may call in |
| `WebSocketSession` | `struct session::state`, `websocket_byte_stream` | frame buffer, fragments, write queue, close handshake, timer, ownership, byte-stream mode |
| `HttpClientProofs`, `HttpStreamingProofs`, `WebSocketProofs` | | theorems about the three modules above |
| `MultipartStream`, `MCMultipart` | `multipart_stream_state` over a request body; `parse_multipart_form()` | buffer and phase of the parser, what each part was given; the form parser is a function of the whole body |
| `Router`, `MCRouter` | `class router` | two tries, the second of which is mounted in the first, and a log of what was registered as written |

**The call stack.** In `TlsStream`, `HttpSession`, `HttpStreaming`,
`WebSocketSession` and `MultipartStream` the variable `todo` is the C++ call
stack: a sequence of tasks that are still to run before control returns to the
loop. A member function that calls the application pushes a task for the callback
above tasks for the rest of its body; loops (`read_clear_from_ssl`,
`flush_response_slots`, `parse_frames`, walks over `responses_`) are tasks that
push themselves again. While a callback is on top the application may call any
operation, whose tasks go above it. Loop events (reads, write completions,
timers) need an empty stack. This is how re-entrancy is checked rather than
assumed away.

**Synchronous answers of a TLS stream.** A TCP stream or a pipe answers a write from
the loop. A TLS stream answers it inside `write()`: the ciphertext is drained as it is
made, so the `drain_wbio()` that carries the callback finds nothing more and calls it
(`src/tls/stream.cpp:565-578`, `609-613`), and a write it refuses is answered there too
(`146-151`). `read_start()` hands over what was read before (`109-122`). So the users
of a stream are modelled over both kinds. In `HttpSession` a setup says which
(`server.inline`): `Answer` puts the tasks of `on_write()` above the stack of
`flush_next()`'s caller, and `FlushSecure` and `Flushed` are `flush_response_slots()`
before and after it. In `WebSocketSession` `writer` is the state of the stream inside
`write()`: ready, busy in a callback, keeping a write made there, refusing, failed. In
`HttpStreaming` reads come from the loop or, over a secure stream, between
`BeginResponseRead` and `ReadStarted`. Its writes are answered from the loop: an answer
inside `write()` leaves the state that one from the loop directly after it leaves, but
for an `on_drain` that nobody waits for then, and `end()`, which asks again after
`flush_upload_writes()`, finds `reading_response_` or `completed_` set. A write made in
`on_drain` is kept by the stream until that callback has returned.

**Depth.** `MaxDepth` bounds how deep the application may nest. `HttpClient`
needs no stack: `complete()` is the last thing a handler does and the user's
callback the last thing `complete()` does.

**Abstraction.** Payloads are numbers in order; sizes count in the unit of the
limits. OpenSSL's results are nondeterministic among those its contract allows:
a handshake call may want more, finish or fail; a read yields the next record,
close_notify, or an error on bad input; a write may be encrypted, want a read, or
fail; `SSL_shutdown()` emits a close_notify, or nothing on a connection that has
failed or is renegotiating. With a memory BIO `SSL_ERROR_WANT_WRITE` does not occur,
and that branch is left out. In `HttpSession` a request is a `Profile`: which route it matches and
what the session asks about it. A response on the client's side is a head with a
shape (framing, keep-alive, redirect) and units of body. A WebSocket frame is a
kind and its final bit; only whole frames are read, since a partial one leaves the
parser waiting. A multipart body is a sequence of tokens (line end, boundary,
dashes, header lines, anything else), cut by the reads at any place; the
conversions between forms and bodies are modelled (`Encoded`, `FormParts`), with every
limit of both parsers. A route pattern is a sequence of static, parameter and wildcard segments, with the
decoding of segments as a function. Timers fire at any moment while armed. A lower
stream completes one write at a time, and closes after the write in progress has
ended.

**Undefined behaviour.** In `HttpSession` a walk over `responses_` remembers the
slots it has still to visit. If one has left the deque when the walk reaches it, or
`flush_response_slots()` pops from an empty deque, `undefined` is set and the behaviour
ends: what the program does from there is not modelled.

**Discipline.** With `Disciplined` the application of `HttpSession` calls in from a
notification only for the response the notification is about, calls `resume()`
from the loop, and does not throw after it has begun to stream. Without these
rules more sequences end in undefined behaviour; the run `http_stale_slot` shows
that even with them one is left. An application accepts an upgrade at most once.
With `NestedResume` off, a multipart callback does not resume a part that it has
paused itself; the run `multipart_nested_resume` shows why.

## 3. Runs

Passing runs, each property of which has a mutant: an operator next to the
definition it replaces, marked "Mutant of", with a plausible mistake that violates
the property.

- `tcp_connect` (`MaxCandidates` = 3: a first, a middle and a last candidate): all
  interleavings of attempts, deadline and cancel. `ImplementsPromise` is the
  refinement of `ConnectOperation`, its liveness included.
- `tls_listener` (three connections, limit two: at, below and above the limit).
- `tls_stream` (two records, two writes of one or two units, limits two and one,
  three other calls, depth four): both limits are exceeded, a read is queued behind
  another, and a callback's callback calls back in. Reads, writes, callbacks and
  close, and that `close()` ends.
- `http_session`: two pipelined requests whose second is of every kind without a
  body, or one request with a body (streamed with a hook, multipart, buffered,
  refused or unmatched), with a limit of two pending responses, or one so that the
  second is refused. Two requests suffice for order, since the slots treat a pair of
  neighbours alike. Over a secure stream there are three, or an upload: a slot popped
  in another's place takes a third. `MaxDepth` = 5 lets a callback of `on_write()`, which
  itself runs inside a call of the application, call in.
- `http_client`: two requests over two origins, one of them secure, with one idle
  connection per origin, redirects (one allowed), every framing, servers that close
  at any time, cancellation and timeouts. Two connections make reuse, and a
  refusal to reuse, both happen.
- `http_streaming`: one request in each upload mode, three writes against a limit
  of two bytes, every response framing up to one unit above the body limit, one 1xx
  response before it (`MaxInterim`; a second one is never read), early answers and early
  closes, plain and secure streams, and application calls from every callback.
- `websocket_session`: up to two frames and three calls, four together (`MaxInputs`), over
  both kinds of stream. A callback repeated by a refusing stream takes a send whose
  write is refused and two more from callbacks. Of the kinds of frame, `big` and
  `badop` are left out: they are refused where `bad` and `badclose` are. Two frames
  make a fragmented message, a message cut short by an error, and a frame behind a
  Close.
- `multipart`: forms of up to two parts whose payloads contain line ends and
  boundaries, one part too many, header blocks and payloads at and beyond each limit
  (`MaxPartHeader`, `MaxField`, `MaxFile`, `MaxText`, `MaxMemory`, `MaxTotal`), bytes behind
  the last delimiter, reads cut anywhere, two pauses. Each exception of `AgreesWithForm`
  is reached.
- `router`: every sequence of four registrations or mounts from patterns that
  compete; after each, every path is matched and compared with a reference that
  judges one route at a time, and its handlers with those of the groups around it.

In the last five modules type correctness is the first conjunct of a property
(`BacklogBounded`, `OneOwner`, `UploadWhole`, `PartsExact`, `FallbackInScope`).

Fairness. The loop runs what is due: running timers, connect results (the connect
operation has its own deadline), closes of TCP handles, which libuv always ends and
with them the writes in progress; and code on the stack runs to its end, callbacks of
the application included. Nothing is assumed of peers, nor of what the application
calls: a write to a TCP stream need not end while the stream is open, since the peer
may stop reading. A TLS stream's `close()` waits for such a write, without a timer
(`src/tls/stream.cpp:163-198`), so both `CloseCompletes` allow the one behaviour in which
it never ends (`Stalled`), and no fairness is given to the end of a TLS stream's close
in `WebSocketSession`. `HttpClient` awaits a close only in a redirect, and assumes that
it ends. So `RequestsComplete` and `RequestCompletes` need a timeout for every phase
(`Timed`), which is a setting of the client; `TimedHandshakesEnd` and the WebSocket's
`CloseCompletes` rest on their timers; `ResumeCompletes` assumes that a body that is
not paused is delivered to its end.

Deadlock checking is off where the system may rest: an operation that has
completed, a closed stream, an idle connection, a form that has ended, a router
that is set up.

Runs that are expected to be violated compare a statement of the documents with
the code; `PROJECT.json` "findings" quotes both:

- `http_stale_slot`: `end()` inside `on_drain` removes a slot from the deque the
  notifying loop is walking.
- `client_interim`: a 1xx response completes its request and frees the connection
  while the real response is still to come.
- `multipart_nested_resume`: a callback that pauses and resumes its part parses the
  same bytes twice.

## 4. Known divergences the properties except

The models have these behaviours too. The property that is named states the exception
in its formula and its comment. Where a document promises otherwise it is named;
these are disagreements that no run of their own shows.

- `TlsStream`: ciphertext waiting for a slow lower stream is in no count
  (`src/tls/stream.cpp:605`). A write after `fail()` is queued and never answered
  (`:132`); `CallbacksOnce` speaks of writes taken in by a live stream. When
  `SSL_shutdown()` emits nothing, as in a renegotiation, `close()` closes the lower stream
  over the ciphertext that is queued (`:184-194`, `609-613`), that of writes answered
  with success included (`docs/user/tls.md:151` speaks of shutdown bytes only);
  `CloseFlushes` requires a close_notify. A peer that stops reading holds `close()` for ever (`CloseCompletes`);
  `docs/proposals/tls-graceful-shutdown.md:12` only proposes a bound.
- `HttpSession`: bytes queued by later responses keep `pending_write_bytes_` above the
  low watermark, so `on_drain` of the first may not come (`src/http/server.cpp:1124`,
  `NoLostDrain`). On EOF the active body stream gets neither `on_end` nor `on_error`
  (`:265`). Payloads of a streamed response are not counted by
  `max_pending_responses_per_connection` once its slot has left (`:925`, `979`), although
  `docs/design/http-server.md:530-532` includes responses "completed but not yet fully
  written"; `LimitHolds` speaks of slots and buffered responses. `send_error()` takes no
  slot and overtakes earlier responses (`:794`, `ResponsesInOrder`). A streamed response with a content-length, or over TLS,
  leaves the idle timer unarmed (`:1049`, `1238`, `IdleGuarded`), although
  `docs/user/http-server.md:189` and `docs/design/http-server.md:652` promise
  `idle_timeout`. Over TLS `on_write()` runs while `flush_response_slots()` holds a streamed
  slot: `pop_front()` (`:925`) may then meet a deque that a nested `close()` has cleared,
  which is undefined, or take a later request's slot, which nobody settles
  (`SlotsSettled`, `Dropped`). An accepted upgrade leaves earlier deferred
  responses unsettled until the end (`:861`).
- `HttpClient`: `cancel()` or a timeout while a redirect waits for the old connection to
  close completes the request, and the close callback starts the next hop all the
  same (`src/http/client.cpp:1016`); the connection it opens is in `Left`, excepted by
  `OneOwner`. A failed write leaves the stream to its destructor.
- `HttpStreaming`: when `on_response_headers` cancels the request or ends the upload
  short, `process_buffer()` goes on (`src/http/client.cpp:1699-1731`): it may arm a
  timer, deliver data after `on_complete`, or put the closing stream into the pool.
  `ended_in_headers` excepts it in `QuietWhenComplete`. `begin_response_read()` arms the
  timer after `read_start()` without asking `completed_` (`:1642-1646`): a request that
  completes inside `read_start()` of a secure stream has a timer running on, which keeps
  the loop alive and then does nothing (`QuietWhenComplete`). A 1xx head passes for the
  whole response (`:207`, `1703`): success is reported with nothing delivered
  (`SuccessIsWhole`); the run `client_interim` shows the same for the pool.
- `WebSocketSession`: `close_transport()` drops the callbacks of queued writes
  (`src/websocket/session.cpp:651`, `WritesAccounted`). `on_write()` with an error calls the
  callback of the front and leaves it in the queue (`:566-571`): over TLS, a callback
  that sends makes `flush_next()` offer the front again, and a stream that refuses it
  calls the same callback again (`WritesAccounted` allows this repetition only). A
  `close()` before the stream has come is neither sent nor timed by `start()` (`:201`,
  `CloseCompletes`). Over wss the close waits for a peer that does not read, although
  `docs/user/websocket.md:83` has `close_timeout` end it (`CloseCompletes`, `Stalled`). In
  byte-stream mode a message that arrives while no reader is set is lost (`:411`).
- `MultipartStream`: a part header at the limit is accepted or refused depending on how
  the reads cut it (`src/http/multipart.cpp:569`), and a part read by `text()` may be
  longer than the application allows (`:1129-1135`): `StreamMayRefuse`. Only the form
  parser refuses bytes behind the last delimiter, payloads beyond `max_memory_bytes`
  (`:959-962`) and files where `max_file_bytes` is 0: `OnlyFormRefuses`. `AgreesWithForm`
  allows these differences and no other.
- `Router`: the search for a `not_found` handler does not backtrack: a static node
  without one hides a parameter group's, and likewise an `on_exception` handler
  (`src/http/router.cpp:662`), though `docs/user/http-server.md:276` and
  `docs/archive/route-groups-and-hooks.md:368` promise the most specific group.
  `FallbackInScope` excepts exactly the groups that are hidden so (`Hidden`).

## 5. Proofs

`TcpConnectProofs` proves, for every number of candidates, type correctness, the
safety invariants and the action property of the run. The invariants are not
inductive alone. `IInv` adds: `InTurn` (candidates before the current one are
closed, those after it unused), `Owned` (a connecting handle is the current `tcp_`
and the last one tried), `Pending` (an operation in progress has a connecting
handle or a closing one that will go on, and a request belongs to a live handle),
`Unstarted` and `Settled` (what holds before `start()` and after completion).
`StepPreserves` has a step per action and below it one per conjunct. Boolean and
other variables are typed in separate steps, since the provers handle them apart.
`HandlesInTurn` of the run is proved from its parts in `HandlesTakeTurns`.
Assumption: `MaxCandidatesAssumption` (a natural number).

`TlsListenerProofs` proves, for every finite set of connections and every limit,
type correctness and the invariants. `IInv` adds that an unreported connection is
new, pending or cut off by `close()`, and that nothing is pending after it. The
cardinality facts are lemmas over the library's theorems about finite sets;
`FinishPreserves` is the step the three ends of a handshake share.

`ImplementsPromiseSafely` (`TcpConnectProofs`) is the safety part of the refinement:
`TcpConnect` starts in an initial state of `ConnectOperation` and every step is a step
of it or a stutter. `IInv` is needed because a step's answer must come with no open
handle left, or with exactly the one that is handed over.

`SequenceFacts` has what several proofs use: the elements of a concatenation, of a
tail and of a sequence without its k-th element, the sum of the sizes in a queue and
what an append and a removal do to it, the number of its entries of one kind, how a
stack changes under its top, and `LeastNatural`, the form of induction used
throughout. The provers cannot instantiate a theorem that takes a
predicate, so an argument over a queue or a stack is made about the least position
at which the claim fails, in a set.

`WebSocketProofs` proves, for every bound, `OneClose`, `MessagesWhole`,
`WritesAccounted` and `BacklogBounded`. `IInv` adds: `CloseInv` (without `close_sent` no
Close frame is on the wire or queued, with it one, counting the frame in flight once),
`CallInv` (every callback has been answered or is in the queue, each once, until
`close_transport()` drops the queue; only the front of a stream that refuses may be
both), `Tally` (`pending_write_bytes` is the sum over
the queue) and `StreamMatches` (the stream is given up only with the session).

`TlsStreamProofs` proves, for every bound, `TypeOK`, `CallbacksOnce`, `NothingStranded`,
`CloseFlushes` and `ReadsInOrder`. `TlsInv` has four groups of parts, each part with a
lemma that has one step per action.

- `Types`: the variables, and that a lower write in progress is the first of the queue.
  The counter of queued writes is a sum over the queue, by the lemmas of `SequenceFacts`.
- `Lifecycle`: what stands on the call stack for what is still to be done. A failure
  whose handshake callback waits has its report on the stack (`Handing`), a failed stream
  has `close_lower()` on it or is closed (`Closing`), the `close_notify` is sent by the one
  `shutdown` frame of the first `close()` (`Parting`), a `write_done` frame lies directly on
  its `finish_processing` frame and there is one of each (`Nested`), and every `close()` is
  answered or registered (`CloseCounts`).
- `WriteSide`: the flags of `process_clear_writes()` are the frames of that call, and a
  queued write of a live stream is waiting for input or about to be processed
  (`Working`); a write is answered exactly when it has left the queue (`Answering`); what
  has left, what is encrypted and what is queued follow each other (`Ordered`, `Below`);
  nothing is queued behind the `close_notify`, and what was encrypted is in the output or
  has left unless the stream is failing (`Sealing`).
- `ReadSide`: who delivers, reads and turns lower reads on (`Reading`, `Shaking`); the
  stream ends once and is not read further (`Ending`); while records are buffered and a
  callback is set, a `deliver_pending` frame lies above every frame that reads more
  (`Guarded`), which is why a nested `read_start()` cannot reorder records; delivered,
  buffered and unread records follow each other (`Delivering`) and until a `close()` they
  are all the peer has sent, except for the record a failing stream refuses (`Exact`);
  the end is delivered last (`Final`, `Tidy`).

The stack is handled through the set of its frames: a step replaces the top by frames
(`Runs`), pushes some (`Enters`) or starts some on an empty stack (`Begins`), and a lemma
per action says which. Only `Nested` and `Guarded` need positions.

`HttpClientProofs` proves `OneOwner` for every set of requests, origins and
connections. `OwnerInv` says where the connections of a request are in each phase
(`Placed`), and `Owned` that the holdings of requests, what was left behind and the
idle queues are apart; the operations of the pool are lemmas about `Owned` with the
requests abstracted to the sets they hold. On top of it `FlowInv` gives `AnswersMatch` and
`PoolQuiet`: what is on its way through a connection is what its holder asked for
(`Mine`), and nothing is on its way through the others (`Calm`). These two assume
`MaxInterim = 0`: the run `client_interim` shows that they fail without it, since a 1xx
response completes its request while the real one is still to come.

`HttpStreamingProofs` proves `UploadWhole`, `NoLostDrain`, `SuccessIsWhole` and
`QuietWhenComplete` for every number of writes, limit and body. `Inv` has four parts,
which are proved action by action: types; `Upload` (the accepted writes are the sent
ones, the one in flight and the queued ones, in order, and the counters their sizes);
`Response` (what the head announced, what was delivered and what the server has still
to send add up); `Connection` (which phase and which tasks hold a stream and a timer).
The request is to one origin, as in the run.

`HttpSessionProofs` proves `TypeOK` and `LimitHolds` for every set of setups and every
bound, over both kinds of stream. Neither is inductive alone: `Types` adds which
frames of the call stack are about a request, that events and the active request are ones the parser has begun,
that a write in progress is the first of the queue, and that
`pending_response_writes_` is the number of full responses in `writes_`, as the
cardinality of a set of positions; lemmas say how an append and the completion of the
first write change that set.

`AnswersInOrder` there proves `ResponsesInOrder` for a disciplined application, which
is what the run assumes too, and a stream that answers writes from the loop (`InLoop`).
Over a secure stream `on_write()` is nested in `flush_response_slots()`, a slot may be
dropped, and `Rise` and `Cancelling` below do not hold; there the run checks the two
properties. `Disciplined` leaves out three things: a call for another
response from inside a notification, which would change `responses_` while it is being
walked; a `resume()` from inside a callback; and an exception after `stream()`, which
resets a response that has begun. Undefined behaviour that a disciplined application
still reaches (`http_stale_slot`) ends the behaviour in the model, so the theorem is
about what was sent until then. `Order` has five parts.

- `Rise`: slots are made and kept in the order of the requests, since the heads among
  the events, the active request and the slots rise; each slot is sane (what is
  queued has a head before it, what is completed has ended).
- `Cancelling`: a cancellation is at the top of the call stack, or under the
  notification of the response it has just cancelled, so that no response is written
  to while `responses_` is walked and cleared.
- `Erring`: after a failed write or a timeout the cancellation is followed by `close()`.
- `Lined`, about `Line`, what was written and what is in `writes_`: payloads rise with
  the requests, none is later than the pending responses, the latest is final unless
  its response is pending or the connection ends, consecutive ones follow each other
  (`InTurn`), responses that are dropped with the connection open have written nothing
  (`Cutting`), and the parts of a pending response, written and queued, are a head,
  chunks and an end (`Grammatical`).
- `Ending`: after a payload that closes the connection is closed, or `close()` is the
  last frame of the stack.

An action is shown to be one of four kinds: it writes nothing of a response (`Steady`),
queues parts (`Writing`), makes a slot (`Making`), or hands payloads over (`Hands`); each
kind keeps `Lined` by one lemma, and `CancelEnds`, which drops responses, by its own.

`SettlesOnce` proves `SlotsSettled` for the same applications and streams. `Settling`
rests on `Types` and `Order` and adds:

- `Accounted`: a response is cancelled or completed, not both, and one that is no longer
  pending was one of them (`Accounts`); a pending response has been told of a
  cancellation only while a cancellation is on the call stack (`Uncancelled`); a walk that
  cancels has settled what it has passed (`Strided`);
- `Emptied`: a closed connection that was not upgraded has no pending response, or a
  cancellation of all of them is on the stack;
- `Shutting`: the stream is closed only after the session is;
- `Bodies`: the frames that dispatch a request with a body stream are of distinct
  requests, and their streams have not begun.

Constants. Each module's `ASSUME` says what the proofs take: bounds are natural
numbers, sets of requests and connections finite, limits at least one where the code
refuses zero. TLC evaluates them in the runs.

Only model-checked:

- liveness and `RequestsComplete`-like promises, the fair part of the refinement
  included: outside this prover;
- `ResponsesInOrder` and `SlotsSettled` over a secure stream;
- `NoLostDrain` and `IdleGuarded` of `HttpSession`: not proved. The first needs the sum of
  what every slot has queued to be tied to `pending_write_bytes_`. The second needs a
  strengthening as large as `Settling`: until the connection has begun to end, writes in
  the queue are being written, events that wait have a reader on the call stack unless
  reading is paused, a response that is to close the connection is pending with its
  closing part queued once it has ended, and a session with nothing to do has a phase
  timer or an `after_write` frame that is about to start one. TLC finds no violation
  of that strengthening on the bounds of `http_session`; its proof is not written;
- `MultipartStream` and `Router`: their properties compare the code with what a
  reference computes from the whole input, which needs induction over that input; the
  matching in `Router` is a `RECURSIVE` operator besides, which the prover does not take.

## 6. Not modelled

Static files: `file_sender` writes until refused, goes on in `on_drain` and ends, which
`HttpSession` lets every application do; the rest is blocking reads, path mapping,
ETags and ranges. URL, headers, options, TLS contexts: functions of strings or
configuration, whose outcomes are inputs of the models. Masking, UTF-8, header text and
serialisation: data. The views of a parsed form and typed route handlers: accessors.
Memory lifetime other than the walks over `responses_` and the active request: not
visible at this level.

Of the synchronous behaviour of TLS streams: what `read_start()` delivers inside a server
session's or a WebSocket's start is taken for a read from the loop, since they do
nothing after it; buffered client requests read from the loop; the answer of a
write that waits for a renegotiation, which comes from the loop, is left to the runs
over TCP; and a TLS stream that is already closed calls `on_close` inline, where the
sessions call `close()` only once. Mounting a router in itself or in one with another
matching mode is refused before anything changes (`src/http/router.cpp:294-299`), and
left out.

## 7. Plan

1. Done: the modules above, the refinement of `ConnectOperation`, and the proofs of
   section 5.
2. Proofs: `IdleGuarded` and `NoLostDrain` of `HttpSession`.
3. An abstract byte stream (ordered writes, each answered once, nothing after close)
   that `TlsStream` implements until it fails.
