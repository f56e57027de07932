----------------------------- MODULE HttpStreaming -----------------------------
(***************************************************************************)
(* One streaming request of uvp::http::client (class                       *)
(* streaming_request_state of src/http/client.cpp): a body written piece   *)
(* by piece, then a response delivered piece by piece, over a connection   *)
(* of the pool.                                                            *)
(*                                                                         *)
(* q is the request's state.  todo is the call stack: what is left to run  *)
(* before control returns to the loop.  While a callback of the            *)
(* application is on top ("headers", "data", "drain") it may call in; what *)
(* the code does after the callback is the task below it.  on_complete is  *)
(* the last thing a handler does, and the request ignores every call from  *)
(* it on.                                                                  *)
(*                                                                         *)
(* A write has one unit of payload, and a chunk or the last chunk one unit *)
(* of framing.  The response is a head and up to two units of body; a      *)
(* chunked one ends with a unit "last".  Units "interim" may come before   *)
(* the head: responses of status 1xx, which announce the answer.           *)
(*                                                                         *)
(* A secure stream has read before it is asked to: read_start() hands over *)
(* what it has, its end or its error included, before it returns.          *)
(***************************************************************************)
EXTENDS ConnectionPool

CONSTANTS
  Timed,            \* the phases with a positive timeout
  MaxWrites,        \* bound: calls of write()
  MaxPending,       \* max_pending_request_body_bytes
  MaxBody,          \* max_body_bytes, in units of body
  MaxInterim        \* bound: 1xx responses a server sends before its answer

Phases == {"dns", "tls_handshake", "request_body", "response_header",
           "response_body"}

ASSUME StreamingAssumption ==
  /\ Timed \subseteq Phases
  /\ {MaxStreams, MaxIdle, MaxWrites, MaxPending, MaxBody, MaxInterim}
       \subseteq Nat
  /\ \E o \in Origins : Origins = {o}

VARIABLES q, net, todo,
  peer  \* external: the server's side of the connection

vars == <<q, net, todo, peer>>

Origin == CHOOSE o \in Origins : TRUE

\* header(), content_length() and chunked() before start(); n is the length.
Configured(mode, n, secure) ==
  [secure |-> secure, upload_mode |-> mode, content_length |-> n,
   pending |-> "new", timer |-> "none", stream |-> NoStream,
   lower |-> NoStream, accepted |-> 0, upload_writes |-> <<>>,
   pending_bytes |-> 0, upload_writing |-> FALSE, upload_ended |-> FALSE,
   backpressured |-> FALSE, headers_started |-> FALSE,
   headers_written |-> FALSE, reading_response |-> FALSE,
   headers_seen |-> FALSE, interim |-> FALSE, reusable |-> FALSE,
   body_mode |-> "unknown",
   remaining |-> 0, buffer |-> <<>>, delivered |-> 0, completed |-> FALSE,
   result |-> "none",
   sent |-> <<>>,    \* history: writes handed to the stream
   late |-> FALSE,   \* history: a callback ran after on_complete
   ended_in_headers |-> FALSE]  \* history: completed by on_response_headers

Init ==
  /\ \E mode \in {"none", "content_length", "chunked"}, secure \in BOOLEAN :
       \E n \in IF mode = "content_length" THEN 0 .. MaxWrites ELSE {0} :
         q = Configured(mode, n, secure)
  /\ \E pooled \in SUBSET {s \in Streams : s = 1 /\ MaxIdle > 0} :
       \* an earlier request may have left a connection idle
       net = [idle |-> [o \in Origins |-> IF pooled = {} THEN <<>> ELSE <<1>>],
              life |-> [s \in Streams |-> IF s \in pooled THEN "open"
                                                          ELSE "none"]]
  /\ todo = <<>>
  /\ peer = [shape |-> [framing |-> "none", keep |-> TRUE, body |-> 0],
             sent |-> "nothing", interims |-> 0, inbox |-> <<>>, gone |-> FALSE]

-------------------------------------------------------------------------------
(***************************************************************************)
(* The stack, and the end of a request.                                    *)
(***************************************************************************)

Idle == todo = <<>>

Top == IF todo = <<>> THEN "loop" ELSE Head(todo)

Callbacks == {"headers", "data", "drain"}

\* The application runs: called by the loop, or in a callback.
Calling == Top \in Callbacks \cup {"loop"}

Becomes(x) == q' = x.r /\ net' = x.n

Pair(r, n) == [r |-> r, n |-> n]

\* A callback of the application, which ought not to follow on_complete.
Call(r) == [r EXCEPT !.late = @ \/ r.completed]

StartPhaseTimeout(r, phase) ==
  [r EXCEPT !.timer = IF phase \in Timed THEN phase ELSE "none"]

StopPhaseTimeout(r) == [r EXCEPT !.timer = "none"]

\* complete()
Complete(r, n, result) ==
  IF r.completed THEN Pair(r, n)
  ELSE Pair([StopPhaseTimeout(r) EXCEPT !.completed = TRUE,
                                        !.result = result], n)

\* fail_request_body(), and close_stream() and complete() elsewhere.
FailRequestBody(r, n) == Complete(r, CloseStream(n, r.stream), "error")

\* What cancel() and on_timeout() do.
Abandon(r, n) ==
  Complete(r, CloseStream(CloseStream(n, r.lower), r.stream), "error")

-------------------------------------------------------------------------------
(***************************************************************************)
(* Getting a connection.                                                   *)
(***************************************************************************)

\* write_request(): a length of zero ends the upload.
WriteRequest(r, n) ==
  Pair(StartPhaseTimeout(
         [r EXCEPT !.pending = "headers", !.headers_started = TRUE,
                   !.upload_ended = \/ @
                                    \/ /\ r.upload_mode = "content_length"
                                       /\ r.content_length = 0],
         "request_body"), n)

\* start(): an unusable URL, or a proxy, completes the request.
Start ==
  /\ Idle /\ q.pending = "new"
  /\ \/ Becomes(Complete([q EXCEPT !.pending = "none"], net, "error"))
     \/ IF net.idle[Origin] # <<>>
        THEN Becomes(WriteRequest([q EXCEPT !.stream = Head(net.idle[Origin])],
                                  Take(net, Origin)))
        ELSE Becomes(Pair(StartPhaseTimeout([q EXCEPT !.pending = "dns"],
                                            "dns"), net))
  /\ UNCHANGED <<todo, peer>>

Live(pending) == Idle /\ q.pending = pending /\ ~q.completed

\* on_resolved()
OnResolved ==
  /\ Live("dns")
  /\ \/ Becomes(Complete(q, net, "error"))
     \/ Becomes(Pair(StopPhaseTimeout([q EXCEPT !.pending = "connect"]), net))
  /\ UNCHANGED <<todo, peer>>

CanOpen == \E s \in Streams : net.life[s] = "none"

Fresh == CHOOSE s \in Streams : net.life[s] = "none"

\* start_tls(): a context that cannot be built loses the connection.
StartTls(r, n) ==
  \/ Becomes(Pair(StartPhaseTimeout([r EXCEPT !.pending = "tls",
                                              !.lower = Fresh],
                                    "tls_handshake"), n))
  \/ Becomes(Complete(r, [n EXCEPT !.life[Fresh] = "destroyed"], "error"))

\* on_connected()
OnConnected ==
  /\ Live("connect")
  /\ \/ Becomes(Complete(q, net, "error"))
     \/ LET opened == [net EXCEPT !.life[Fresh] = "open"]
        IN /\ CanOpen
           /\ IF q.secure THEN StartTls(q, opened)
              ELSE Becomes(WriteRequest([q EXCEPT !.stream = Fresh], opened))
  /\ UNCHANGED <<todo, peer>>

\* on_tls_connected()
OnTlsConnected ==
  /\ Live("tls")
  /\ \/ Becomes(Complete([q EXCEPT !.lower = NoStream],
                         CloseStream(net, q.lower), "error"))
     \/ Becomes(WriteRequest([q EXCEPT !.stream = q.lower,
                                       !.lower = NoStream], net))
  /\ UNCHANGED <<todo, peer>>

-------------------------------------------------------------------------------
(***************************************************************************)
(* The upload.                                                             *)
(***************************************************************************)

\* begin_response_read(), up to the return of read_start(); rest is what the
\* stack holds below.
BeginResponseRead(r, rest) ==
  IF r.completed \/ r.reading_response THEN q' = r /\ todo' = rest
  ELSE /\ q' = [r EXCEPT !.reading_response = TRUE]
       /\ todo' = <<"reading">> \o rest

\* Mutant of ReadStarted: the timer of the upload is only stopped.
ReadStartedUntimed ==
  /\ Top = "reading"
  /\ q' = StopPhaseTimeout(q)
  /\ todo' = Tail(todo)
  /\ UNCHANGED <<net, peer>>

\* ... and what follows it, whatever read_start() has handed over: the timer is
\* armed without asking whether the request is completed, or has its head.
ReadStarted ==
  /\ Top = "reading"
  /\ q' = StartPhaseTimeout(q, "response_header")
  /\ todo' = Tail(todo)
  /\ UNCHANGED <<net, peer>>

\* flush_upload_writes(): one write at a time, after the headers.
FlushUploadWrites(r) ==
  IF \/ r.completed \/ ~r.headers_written \/ r.upload_writing
     \/ r.upload_writes = <<>>
  THEN r
  ELSE [r EXCEPT !.upload_writing = TRUE,
                 !.sent = Append(@, Head(r.upload_writes).id)]

\* The bytes a piece of payload is on the wire: serialize_chunk() frames it.
WireBytes(mode) == IF mode = "chunked" THEN 2 ELSE 1

LastChunk == [id |-> 0, size |-> 1]

Push(r, write) == [r EXCEPT !.upload_writes = Append(@, write),
                            !.pending_bytes = @ + write.size]

\* The conditions under which write() takes nothing.
Rejects(r) ==
  \/ r.completed \/ r.upload_ended  \* not_connected
  \/ r.backpressured                \* would_block
  \/ r.upload_mode = "none" /\ r.headers_started
  \/ r.upload_mode = "content_length" /\ r.accepted + 1 > r.content_length

\* write(): without a mode the upload becomes chunked.
Write ==
  /\ Calling /\ q.pending # "new" /\ q.accepted < MaxWrites
  /\ ~Rejects(q)
  /\ LET mode == IF q.upload_mode = "none" THEN "chunked" ELSE q.upload_mode
         write == [id |-> q.accepted + 1, size |-> WireBytes(mode)]
         queued == FlushUploadWrites(Push(
                     [q EXCEPT !.upload_mode = mode, !.accepted = @ + 1],
                     write))
     IN q' = [queued EXCEPT !.backpressured =
                MaxPending > 0 /\ queued.pending_bytes >= MaxPending]
  /\ UNCHANGED <<net, todo, peer>>

\* end(): a length that was not reached fails the request.
End ==
  /\ Calling /\ q.pending # "new" /\ ~q.completed /\ ~q.upload_ended
  /\ IF q.upload_mode = "content_length" /\ q.accepted # q.content_length
     THEN /\ Becomes(FailRequestBody(
                       [q EXCEPT !.ended_in_headers = Top = "headers"], net))
          /\ UNCHANGED todo
     ELSE LET last == IF q.upload_mode = "chunked" THEN Push(q, LastChunk)
                                                   ELSE q
              r == FlushUploadWrites([last EXCEPT !.upload_ended = TRUE])
          IN /\ IF r.headers_written /\ r.upload_writes = <<>>
                  /\ ~r.upload_writing
                THEN BeginResponseRead(r, todo)
                ELSE q' = r /\ UNCHANGED todo
             /\ UNCHANGED net
  /\ UNCHANGED peer

\* on_request_headers_written(): a failure leaves the stream as it is.
OnRequestHeadersWritten ==
  /\ Live("headers")
  /\ \/ /\ Becomes(Complete([q EXCEPT !.pending = "none"], net, "left"))
        /\ UNCHANGED todo
     \/ LET r == [q EXCEPT !.pending = "none", !.headers_written = TRUE]
        IN /\ IF /\ r.upload_mode = "none" \/ r.upload_ended
                 /\ r.upload_writes = <<>> /\ ~r.upload_writing
              THEN BeginResponseRead(r, todo)
              ELSE q' = FlushUploadWrites(r) /\ UNCHANGED todo
           /\ UNCHANGED net
  /\ UNCHANGED peer

\* Mutant of Drains: the watermark has to be met exactly.
DrainsExactly(r) == r.backpressured /\ r.pending_bytes = MaxPending \div 2

\* notify_upload_drain_if_needed()
Drains(r) == r.backpressured /\ r.pending_bytes <= MaxPending \div 2

\* on_upload_written(), up to the drain callback.
OnUploadWritten ==
  /\ Idle /\ q.upload_writing /\ ~q.completed
  /\ \/ /\ Becomes(FailRequestBody([q EXCEPT !.upload_writing = FALSE], net))
        /\ UNCHANGED todo
     \/ LET r == [q EXCEPT !.upload_writing = FALSE,
                           !.upload_writes = Tail(@),
                           !.pending_bytes =
                             @ - Min({@, Head(q.upload_writes).size})]
        IN /\ q' = IF Drains(r) THEN [Call(r) EXCEPT !.backpressured = FALSE]
                                ELSE r
           /\ todo' = IF Drains(r) THEN <<"drain", "written">>
                                   ELSE <<"written">>
           /\ UNCHANGED net
  /\ UNCHANGED peer

\* Mutant of AfterUploadWritten: the queue is not looked at again.
AfterUploadWrittenEarly ==
  /\ Top = "written"
  /\ IF q.upload_ended THEN BeginResponseRead(q, Tail(todo))
     ELSE q' = FlushUploadWrites(q) /\ todo' = Tail(todo)
  /\ UNCHANGED <<net, peer>>

\* ... and what follows it.
AfterUploadWritten ==
  /\ Top = "written"
  /\ IF q.upload_writes = <<>> /\ q.upload_ended
     THEN BeginResponseRead(q, Tail(todo))
     ELSE q' = FlushUploadWrites(q) /\ todo' = Tail(todo)
  /\ UNCHANGED <<net, peer>>

-------------------------------------------------------------------------------
(***************************************************************************)
(* The response.                                                           *)
(***************************************************************************)

\* finish_response_success(): stream_ is tested, not whether it is closed.
FinishResponseSuccess(r, n) ==
  IF MaxIdle > 0 /\ r.reusable /\ r.stream # NoStream
  THEN Complete([r EXCEPT !.stream = NoStream],
                Release(n, Origin, r.stream), "success")
  ELSE Complete(r, CloseStream(n, r.stream), "success")

\* process_buffer() while no head was seen: it is parsed and reported.
ProcessHead ==
  /\ Top = "process" /\ ~q.headers_seen /\ ~q.completed
  /\ IF q.buffer = <<>>
     THEN todo' = Tail(todo) /\ UNCHANGED <<q, net>>
     ELSE IF Head(q.buffer) = "head" /\ peer.shape.framing = "bad"
     THEN Becomes(FailRequestBody(q, net)) /\ todo' = Tail(todo)
     ELSE /\ q' = [Call(q) EXCEPT !.headers_seen = TRUE,
                                  !.buffer = Tail(@),
                                  !.interim = Head(q.buffer) = "interim",
                                  !.reusable = \/ Head(q.buffer) = "interim"
                                               \/ peer.shape.keep]
          /\ todo' = <<"headers", "mode">> \o Tail(todo)
          /\ UNCHANGED net
  /\ UNCHANGED peer

\* ... and, after on_response_headers, the framing of the body is chosen,
\* completed or not.  A head of status 1xx has no body, like a 204 or a 304: it
\* passes for the whole response.
BodyMode ==
  /\ Top = "mode"
  /\ LET framing == IF q.interim THEN "none" ELSE peer.shape.framing
     IN IF framing = "none"
        THEN /\ Becomes(FinishResponseSuccess([q EXCEPT !.body_mode = "none"],
                                              net))
             /\ todo' = Tail(todo)
        ELSE IF framing = "content_length" /\ peer.shape.body > MaxBody
        THEN Becomes(FailRequestBody(q, net)) /\ todo' = Tail(todo)
        ELSE /\ q' = StartPhaseTimeout([q EXCEPT !.body_mode = framing,
                                                 !.remaining = peer.shape.body],
                                       "response_body")
             /\ todo' = <<"body">> \o Tail(todo)
             /\ UNCHANGED net
  /\ UNCHANGED peer

ProcessBody ==
  /\ Top = "process" /\ (q.headers_seen \/ q.completed)
  /\ todo' = (IF q.completed THEN <<>> ELSE <<"body">>) \o Tail(todo)
  /\ UNCHANGED <<q, net, peer>>

\* emit_body(): k units in one callback, then the rest of the buffer.
EmitBody(k) ==
  /\ q' = [Call(q) EXCEPT !.delivered = @ + k,
                          !.buffer = SubSeq(@, k + 1, Len(q.buffer)),
                          !.remaining = IF @ > k THEN @ - k ELSE 0]
  /\ todo' = <<"data", "body">> \o Tail(todo)
  /\ UNCHANGED net

\* Done with the buffer for now.
Return == todo' = Tail(todo) /\ UNCHANGED <<q, net>>

Finish == Becomes(FinishResponseSuccess(q, net)) /\ todo' = Tail(todo)

Overflows(k) == q.delivered + k > MaxBody

TooLong == Becomes(FailRequestBody(q, net)) /\ todo' = Tail(todo)

\* Mutant of ProcessContentLengthBody: completed_ is not asked after the data.
ProcessContentLengthBodyGoesOn ==
  /\ Top = "body" /\ q.body_mode = "content_length"
  /\ IF q.remaining = 0 THEN Finish
     ELSE IF q.buffer = <<>> THEN Return
     ELSE EmitBody(Min({q.remaining, Len(q.buffer)}))
  /\ UNCHANGED peer

\* process_content_length_body()
ProcessContentLengthBody ==
  /\ Top = "body" /\ q.body_mode = "content_length"
  /\ IF q.completed THEN Return
     ELSE IF q.remaining = 0 THEN Finish
     ELSE IF q.buffer = <<>> THEN Return
     ELSE EmitBody(Min({q.remaining, Len(q.buffer)}))
  /\ UNCHANGED peer

\* process_chunked_body()
ProcessChunkedBody ==
  /\ Top = "body" /\ q.body_mode = "chunked"
  /\ IF q.completed \/ q.buffer = <<>> THEN Return
     ELSE IF Head(q.buffer) = "last" THEN Finish
     ELSE IF Overflows(1) THEN TooLong
     ELSE EmitBody(1)
  /\ UNCHANGED peer

\* emit_buffer_as_body(): whether the request is completed is not asked.
EmitBufferAsBody ==
  /\ Top = "body" /\ q.body_mode = "eof"
  /\ IF q.buffer = <<>> THEN Return
     ELSE IF Overflows(Len(q.buffer)) THEN TooLong
     ELSE EmitBody(Len(q.buffer))
  /\ UNCHANGED peer

\* The stream has a callback to read into: from the loop or, when it is secure,
\* inside read_start().
Reading ==
  /\ Idle \/ (Top = "reading" /\ q.secure)
  /\ q.reading_response /\ ~q.completed

\* on_read() with bytes
OnRead ==
  /\ Reading
  /\ \E k \in 1 .. Len(peer.inbox) :
       /\ q' = [q EXCEPT !.buffer = @ \o SubSeq(peer.inbox, 1, k)]
       /\ peer' = [peer EXCEPT
                     !.inbox = SubSeq(@, k + 1, Len(peer.inbox))]
  /\ todo' = <<"process">> \o todo
  /\ UNCHANGED net

OnReadError ==
  /\ Reading /\ peer.gone
  /\ Becomes(FailRequestBody(q, net))
  /\ UNCHANGED <<todo, peer>>

\* Mutant of EofIsEnd: an open length is not an error.
EofIsEndAlways == q.headers_seen /\ q.body_mode # "chunked"

EofIsEnd ==
  /\ q.headers_seen
  /\ q.body_mode # "chunked"
  /\ q.body_mode = "content_length" => q.remaining = 0

\* on_eof(): the buffer of an EOF-delimited body was emitted as it came.
OnEof ==
  /\ Reading /\ peer.gone /\ peer.inbox = <<>>
  /\ Becomes(IF EofIsEnd
             THEN Complete(q, CloseStream(net, q.stream), "success")
             ELSE FailRequestBody(q, net))
  /\ UNCHANGED <<todo, peer>>

-------------------------------------------------------------------------------
(***************************************************************************)
(* Cancellation, timers, returns of callbacks, closed streams.             *)
(***************************************************************************)

\* request_body_writer::cancel()
Cancel ==
  /\ Calling /\ q.pending # "new" /\ ~q.completed
  /\ Becomes(Abandon([q EXCEPT !.ended_in_headers = Top = "headers"], net))
  /\ UNCHANGED <<todo, peer>>

\* on_timeout(): a timer armed after completion has nothing to do.
OnTimeout ==
  /\ Idle /\ q.timer # "none"
  /\ Becomes(IF q.completed THEN Pair(StopPhaseTimeout(q), net)
                            ELSE Abandon(q, net))
  /\ UNCHANGED <<todo, peer>>

\* The application's callback returns.
CallbackReturns ==
  /\ Top \in Callbacks
  /\ todo' = Tail(todo)
  /\ UNCHANGED <<q, net, peer>>

OnClosed ==
  /\ Idle
  /\ \E s \in Streams : /\ net.life[s] = "closing"
                        /\ net' = [net EXCEPT !.life[s] = "closed"]
  /\ UNCHANGED <<q, todo, peer>>

IdleTimeout ==
  /\ Idle
  /\ \E i \in DOMAIN net.idle[Origin] :
       net' = Expire(net, Origin, i)
  /\ UNCHANGED <<q, todo, peer>>

-------------------------------------------------------------------------------
(***************************************************************************)
(* External: the server answers when it has the headers, early or late.    *)
(***************************************************************************)

Shapes ==
  {s \in [framing : {"none", "content_length", "chunked", "eof", "bad"},
          keep : BOOLEAN, body : 0 .. MaxBody + 1] :
     /\ s.framing \in {"none", "bad"} => s.body = 0
     /\ s.framing \in {"eof", "bad"} => ~s.keep}

Units == {"interim", "head", "data", "last"}

BodyUnits(shape) ==
  [i \in 1 .. shape.body |-> "data"]
    \o IF shape.framing = "chunked" THEN <<"last">> ELSE <<>>

Answers == Idle /\ q.headers_written /\ peer.sent = "nothing" /\ ~peer.gone

SendInterim ==
  /\ Answers /\ peer.interims < MaxInterim
  /\ peer' = [peer EXCEPT !.interims = @ + 1, !.inbox = Append(@, "interim")]
  /\ UNCHANGED <<q, net, todo>>

SendHead ==
  /\ Answers
  /\ \E shape \in Shapes :
       peer' = [peer EXCEPT !.shape = shape, !.sent = "head",
                            !.inbox = Append(@, "head")]
  /\ UNCHANGED <<q, net, todo>>

SendBody ==
  /\ Idle /\ peer.sent = "head" /\ ~peer.gone
  /\ \E whole \in BOOLEAN :
       LET units == BodyUnits(peer.shape)
           part == IF whole \/ units = <<>> THEN units ELSE Front(units)
       IN peer' = [peer EXCEPT !.inbox = @ \o part, !.sent = "body",
                               !.gone = ~whole \/ ~peer.shape.keep]
  /\ UNCHANGED <<q, net, todo>>

PeerCloses ==
  /\ Idle /\ ~peer.gone /\ q.headers_started
  /\ peer' = [peer EXCEPT !.gone = TRUE]
  /\ UNCHANGED <<q, net, todo>>

Next ==
  \/ Start \/ Write \/ End \/ Cancel \/ OnTimeout
  \/ OnResolved \/ OnConnected \/ OnTlsConnected
  \/ OnRequestHeadersWritten \/ OnUploadWritten \/ AfterUploadWritten
  \/ ReadStarted
  \/ OnRead \/ OnReadError \/ OnEof
  \/ ProcessHead \/ BodyMode \/ ProcessBody
  \/ ProcessContentLengthBody \/ ProcessChunkedBody \/ EmitBufferAsBody
  \/ CallbackReturns \/ OnClosed \/ IdleTimeout
  \/ SendInterim \/ SendHead \/ SendBody \/ PeerCloses

\* The code runs on, callbacks return, and the loop runs the timers and the
\* results of the connect operation, which has a deadline of its own.
Fairness ==
  /\ WF_vars(AfterUploadWritten) /\ WF_vars(ReadStarted)
  /\ WF_vars(CallbackReturns)
  /\ WF_vars(ProcessHead) /\ WF_vars(BodyMode) /\ WF_vars(ProcessBody)
  /\ WF_vars(ProcessContentLengthBody) /\ WF_vars(ProcessChunkedBody)
  /\ WF_vars(EmitBufferAsBody)
  /\ WF_vars(OnTimeout) /\ WF_vars(OnConnected)

Spec == Init /\ [][Next]_vars /\ Fairness

-------------------------------------------------------------------------------
(***************************************************************************)
(* Properties.                                                             *)
(***************************************************************************)

Request ==
  [secure : BOOLEAN, upload_mode : {"none", "content_length", "chunked"},
   content_length : Nat,
   pending : {"new", "none", "dns", "connect", "tls", "headers"},
   timer : Timed \cup {"none"}, stream : Streams \cup {NoStream},
   lower : Streams \cup {NoStream}, accepted : Nat,
   upload_writes : Seq([id : Nat, size : Nat]), pending_bytes : Nat,
   upload_writing : BOOLEAN, upload_ended : BOOLEAN, backpressured : BOOLEAN,
   headers_started : BOOLEAN, headers_written : BOOLEAN,
   reading_response : BOOLEAN, headers_seen : BOOLEAN, interim : BOOLEAN,
   reusable : BOOLEAN,
   body_mode : {"unknown", "none", "content_length", "chunked", "eof"},
   remaining : Nat, buffer : Seq(Units), delivered : Nat,
   completed : BOOLEAN, result : {"none", "success", "error", "left"},
   sent : Seq(Nat), late : BOOLEAN, ended_in_headers : BOOLEAN]

Net == [idle : [Origins -> Seq(Streams)], life : [Streams -> Lives]]

Peer == [shape : Shapes, sent : {"nothing", "head", "body"}, interims : Nat,
         inbox : Seq(Units), gone : BOOLEAN]

\* Every variable has a value of its kind, and write() takes no more than was
\* announced.
TypeOK ==
  /\ q \in Request
  /\ q.accepted <= IF q.upload_mode = "content_length" THEN q.content_length
                                                       ELSE MaxWrites
  /\ net \in Net
  /\ todo \in Seq(Callbacks
                 \cup {"written", "reading", "process", "mode", "body"})
  /\ peer \in Peer

\* The response is read only once the request is on the wire whole: every piece
\* write() took, in order, with the last chunk behind the chunked ones and as
\* many as content-length announced.  Before that, no more than was announced is
\* taken, and every variable has a value of its kind.
UploadWhole ==
  /\ TypeOK
  /\ q.reading_response =>
       /\ q.upload_writes = <<>> /\ ~q.upload_writing
       /\ q.sent = [i \in 1 .. q.accepted |-> i]
                     \o IF q.upload_mode = "chunked" THEN <<0>> ELSE <<>>
       /\ q.upload_mode = "content_length" => q.accepted = q.content_length

\* A writer told to wait is called back: while it waits, bytes above the
\* watermark are queued, and one of them is being written once the headers are.
NoLostDrain ==
  Idle /\ q.backpressured /\ ~q.completed =>
    /\ q.upload_writes # <<>>
    /\ q.pending_bytes > MaxPending \div 2
    /\ q.headers_written => q.upload_writing

\* A request that reports success has delivered the whole body, wherever the
\* reads cut it and whenever the server went away.  Two cases are excepted.  A
\* body that only EOF ends may have been cut.  And a head of status 1xx, which
\* has no body (docs/proposals/http-client.md:291), passes for the whole
\* response (response_must_not_have_body), although the answer follows it: then
\* success is reported with nothing delivered, whatever the answer was.
SuccessIsWhole ==
  q.result = "success" =>
    \/ q.interim /\ q.delivered = 0
    \/ peer.shape.framing = "eof"
    \/ q.delivered = peer.shape.body

\* Nothing is left to happen when on_complete has run: no callback follows it,
\* no timer runs on, the connection is closed or back in the pool, and the pool
\* has only open connections.  A write of the head that failed leaves the
\* stream to its destructor.  Two cases are excepted.  A request that
\* on_response_headers ends: process_buffer() goes on with the body after that
\* callback.  And the timer of a request that completes inside the read_start()
\* of its secure stream: begin_response_read() arms it afterwards, and it keeps
\* the loop and the request alive until it fires.
QuietWhenComplete ==
  /\ ~q.ended_in_headers =>
       /\ ~q.late
       /\ PoolKept(net)
       /\ q.completed /\ Idle =>
            q.timer \in {"none"} \cup (IF q.secure THEN {"response_header"}
                                                 ELSE {})
  /\ q.completed /\ Idle /\ q.stream # NoStream /\ q.result # "left"
       => net.life[q.stream] # "open"

\* With a timeout for every phase a request that was started completes.
RequestCompletes == q.pending # "new" ~> q.completed

===============================================================================
