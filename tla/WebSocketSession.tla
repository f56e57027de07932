--------------------------- MODULE WebSocketSession ---------------------------
(***************************************************************************)
(* One server-side WebSocket session of uvp::websocket (struct             *)
(* session::state of src/websocket/session.cpp) with the byte-stream       *)
(* adapter that may stand in front of it.                                  *)
(*                                                                         *)
(* A frame of the peer is its kind and whether it is final: "bad" has      *)
(* reserved bits or no mask, "big" a length over the message limit,        *)
(* "badop" an unknown opcode or a broken control frame, "badclose" an      *)
(* illegal close code.  A frame that has not arrived whole leaves the      *)
(* parser waiting, so only whole frames are read.                          *)
(*                                                                         *)
(* todo is the call stack: what is left to run before control returns to   *)
(* the loop.  While a callback is on top ("user") the application may call *)
(* in.  Whether a callback is set makes no difference to the session; the  *)
(* application of the model sets them all.                                 *)
(*                                                                         *)
(* A TCP stream answers a write from the loop.  A TLS stream (wss)         *)
(* encrypts it and answers inside write(), so on_write() runs nested in    *)
(* flush_next(); a write made from that callback is kept until the         *)
(* callback has returned, but a refused one is always answered at once     *)
(* (write() and process_clear_writes() of src/tls/stream.cpp).             *)
(***************************************************************************)
EXTENDS Naturals, FiniteSets, Sequences, SequencesExt

CONSTANTS
  Kinds,       \* the kinds of frame the peer sends
  MaxFrames,   \* bound: frames the peer sends
  MaxCalls,    \* bound: calls of the application
  MaxInputs,   \* bound: frames and calls together
  MaxDepth,    \* bound: tasks on the stack when the application calls in
  MaxMessage,  \* bound: largest max_message_bytes, in frames' payloads
  MaxPending   \* max_pending_write_bytes, in units of a frame's payload

ASSUME BoundsAssumption ==
  {MaxFrames, MaxCalls, MaxInputs, MaxDepth, MaxMessage, MaxPending}
    \subseteq Nat

VARIABLES
  upgrade,     \* how far the HTTP upgrade has come
  detached,    \* accept_detached() rather than accept()
  max_message_bytes, \* of accept_options
  owned,       \* the application holds the owning session handle
  stream,      \* life of the stream; "none" until start()
  writer,      \* how it answers writes: "loop" if TCP; if TLS inside write(),
               \* unless "busy" in a callback or "keeping" a write made there;
               \* "refusing" once it has refused the front of the queue,
               \* "failed" once encrypting it has failed
  read_buffer, \* whole frames not yet parsed
  fragments,   \* fragmented_opcode and fragmented_message: frames so far
  writes, writing, pending_write_bytes,
  closed, close_sent,
  early,       \* history: close() came before the stream
  close_timer, \* "idle" when close_timeout_active is false
  byte_mode, byte_read, keep_alive,
  closeCallback, \* close_transport() was given a callback not yet invoked
  todo, calls,
  consumed,    \* history: frames parsed
  delivered,   \* history: messages dispatched, with who got them
  errored,     \* history: notify_error() has run
  wire,        \* history: kinds of frame handed to the stream, less failed ones
  answers,     \* history: what each write callback was told
  asked        \* history: writes with a callback

options == <<detached, max_message_bytes>>  \* given to accept()

hostVars == <<upgrade, options, owned, keep_alive>>
lifeVars == <<hostVars, writer>>
readVars == <<read_buffer, fragments, consumed, delivered>>
writeVars == <<writes, writing, pending_write_bytes, wire>>
endVars == <<stream, closed, close_timer, closeCallback, early>>
callbackVars == <<answers, asked>>
modeVars == <<byte_mode, byte_read>>

vars == <<lifeVars, readVars, writeVars, endVars, callbackVars, modeVars,
          close_sent, errored, todo, calls>>

Frame == [kind : Kinds, fin : BOOLEAN, id : 1 .. MaxFrames]

Tasks == {"user", "parse", "pong", "closeEof", "closeReply", "reportClose",
          "closeFrame", "fail", "failRead", "closeTransport", "flush",
          "answered", "closeTimer"}

Write == [kind : {"data", "pong", "close"}, size : Nat, id : Nat]

Message == [to : {"app", "reader", "nobody"}, frames : Seq(Frame)]

\* Every variable has a value of its kind.
TypeOK ==
  /\ upgrade \in {"offered", "rejected", "accepted", "started", "refused"}
  /\ {detached, owned, keep_alive, writing, closed, close_sent, byte_mode,
      byte_read, closeCallback, early, errored} \subseteq BOOLEAN
  /\ max_message_bytes \in 1 .. MaxMessage
  /\ stream \in {"none", "open", "closing", "closed"}
  /\ writer \in {"loop", "ready", "busy", "keeping", "refusing",
                 "failed"}
  /\ close_timer \in {"none", "idle", "active", "closing", "closed"}
  /\ {read_buffer, fragments, consumed} \subseteq Seq(Frame)
  /\ delivered \in Seq(Message)
  /\ todo \in Seq(Tasks)
  /\ writes \in Seq(Write) /\ wire \in Seq({"data", "pong", "close"})
  /\ pending_write_bytes \in Nat /\ calls \in 0 .. MaxCalls
  /\ asked \in 0 .. MaxCalls
  /\ answers \in Seq([id : 1 .. asked, what : {"ok", "error", "not_connected",
                                               "would_block"}])

Init ==
  /\ upgrade = "offered" /\ detached = FALSE /\ owned = FALSE
  /\ max_message_bytes \in 1 .. MaxMessage
  /\ keep_alive = FALSE
  /\ stream = "none" /\ writer \in {"loop", "ready"}
  /\ closed = FALSE /\ close_timer = "none"
  /\ closeCallback = FALSE /\ early = FALSE
  /\ read_buffer = <<>> /\ fragments = <<>> /\ consumed = <<>>
  /\ delivered = <<>>
  /\ writes = <<>> /\ writing = FALSE /\ pending_write_bytes = 0 /\ wire = <<>>
  /\ answers = <<>> /\ asked = 0
  /\ byte_mode = FALSE /\ byte_read = FALSE
  /\ close_sent = FALSE /\ errored = FALSE
  /\ todo = <<>> /\ calls = 0

-------------------------------------------------------------------------------
(***************************************************************************)
(* The stack.                                                              *)
(***************************************************************************)

\* write() of a TLS stream has not returned: nothing else runs.
Answering ==
  writing /\ stream = "open" /\ writer \in {"ready", "busy", "refusing"}

Idle == todo = <<>> /\ ~Answering  \* the loop runs

Top == IF todo = <<>> THEN "loop" ELSE Head(todo)

Run(task) == Top = task /\ ~Answering

Then(tasks) == todo' = tasks \o Tail(todo)

\* The application runs: in a callback, or called by the loop.
Calls ==
  /\ Run("loop") \/ Run("user")
  /\ Len(todo) <= MaxDepth
  /\ upgrade \notin {"offered", "rejected"}
  /\ calls < MaxCalls
  /\ calls + Len(consumed) + Len(read_buffer) < MaxInputs
  /\ calls' = calls + 1

Into(tasks) == todo' = tasks \o todo

-------------------------------------------------------------------------------
(***************************************************************************)
(* Writing.                                                                *)
(***************************************************************************)

\* make_frame() adds a header to the payload; the length of a frame in units.
FrameBytes(payload) == payload + 1

ClosePayload == 1

\* flush_next(): the front of the queue goes to the stream, one at a time.
FlushNext(queue) ==
  IF closed \/ writing \/ queue = <<>> \/ stream # "open"
  THEN UNCHANGED <<writing, wire>>
  ELSE /\ writing' = TRUE
       /\ wire' = Append(wire, queue[1].kind)

\* queue(): id is the write callback's, 0 for none.
Queue(kind, payload, id) ==
  LET queue == Append(writes, [kind |-> kind, size |-> FrameBytes(payload),
                               id |-> id])
  IN /\ writes' = queue
     /\ pending_write_bytes' = pending_write_bytes + FrameBytes(payload)
     /\ FlushNext(queue)

\* start_close_timeout()
StartCloseTimeout ==
  close_timer' = IF ~closed /\ close_timer = "idle" THEN "active"
                                                    ELSE close_timer

\* Mutant of SendClose: the timer is not armed.
SendCloseUntimed ==
  /\ close_sent' = TRUE
  /\ Queue("close", ClosePayload, 0)
  /\ early' = (stream = "none")
  /\ UNCHANGED <<stream, closed, close_timer, closeCallback>>

\* The Close frame and the timer that bounds the wait for the peer's.
SendClose ==
  /\ close_sent' = TRUE
  /\ Queue("close", ClosePayload, 0)
  /\ StartCloseTimeout
  /\ early' = (stream = "none")
  /\ UNCHANGED <<stream, closed, closeCallback>>

\* Mutant of Close: only closed is tested.
CloseAgain ==
  IF closed
  THEN UNCHANGED <<close_sent, writeVars, endVars>>
  ELSE SendClose

\* close(): a second Close frame is never sent.
Close ==
  IF closed \/ close_sent
  THEN UNCHANGED <<close_sent, writeVars, endVars>>
  ELSE SendClose

\* The tasks a write callback with this id adds: id 0 has none.
Callback(id) == IF id = 0 THEN <<>> ELSE <<"user">>

Answer(id, what) ==
  answers' = IF id = 0 THEN answers
             ELSE Append(answers, [id |-> id, what |-> what])

\* Mutant of OverLimit: the bytes already queued are left out.
OverLimitAlone(payload) == payload > MaxPending

OverLimit(payload) == pending_write_bytes + payload > MaxPending

\* send_frame(): refused without a stream; over the limit the session reports
\* the error and starts to close; else queued.  Close frames sent before do not
\* matter.  Front is the stack the call's own tasks go in front of.
SendFrame(kind, payload, id, front) ==
  IF closed \/ stream = "none"
  THEN /\ Answer(id, "not_connected")
       /\ todo' = Callback(id) \o front
       /\ UNCHANGED <<writeVars, endVars, close_sent, errored>>
  ELSE IF OverLimit(payload)
  THEN /\ Answer(id, "would_block")
       /\ todo' = Callback(id) \o <<"reportClose">> \o front
       /\ UNCHANGED <<writeVars, endVars, close_sent, errored>>
  ELSE /\ Queue(kind, payload, id)
       /\ todo' = front
       /\ UNCHANGED <<endVars, close_sent, errored, answers>>

\* close_with_error() and, first, notify_error().
ReportClose ==
  /\ Run("reportClose")
  /\ errored' = TRUE
  /\ Then(<<"user", "closeFrame">>)
  /\ UNCHANGED <<lifeVars, readVars, writeVars, endVars, callbackVars, modeVars,
                 close_sent, calls>>

CloseFrame ==
  /\ Run("closeFrame")
  /\ Close
  /\ Then(<<>>)
  /\ UNCHANGED <<lifeVars, readVars, callbackVars, modeVars, errored, calls>>

-------------------------------------------------------------------------------
(***************************************************************************)
(* The end of a session.                                                   *)
(***************************************************************************)

\* close_transport(): queued writes are forgotten with their callbacks; the
\* timer and keep_alive go when the stream has closed, at once without one.
CloseTransport(cb, front) ==
  IF closed
  THEN /\ todo' = (IF cb THEN <<"user">> ELSE <<>>) \o front
       /\ UNCHANGED <<endVars, writes, pending_write_bytes>>
  ELSE /\ closed' = TRUE
       /\ writes' = <<>> /\ pending_write_bytes' = 0
       /\ UNCHANGED early
       /\ close_timer' = IF close_timer = "active" THEN "idle" ELSE close_timer
       /\ IF stream = "open"
          THEN /\ stream' = "closing"
               /\ closeCallback' = cb
               /\ todo' = front
          ELSE /\ todo' = (IF cb THEN <<"user">> ELSE <<>>)
                             \o <<"closeTimer">> \o front
               /\ UNCHANGED <<stream, closeCallback>>

CloseTransportTask ==
  /\ Run("closeTransport")
  /\ CloseTransport(FALSE, Tail(todo))
  /\ UNCHANGED <<lifeVars, readVars, writing, wire, callbackVars, modeVars,
                 close_sent, errored, calls>>

\* close_timer_handle(): with no timer left only keep_alive is released.
CloseTimerHandle ==
  /\ Run("closeTimer")
  /\ IF close_timer \in {"none", "closing", "closed"}
     THEN /\ keep_alive' = FALSE
          /\ UNCHANGED close_timer
     ELSE /\ close_timer' = "closing"
          /\ UNCHANGED keep_alive
  /\ Then(<<>>)
  /\ UNCHANGED <<upgrade, options, owned, writer, readVars, writeVars, stream,
                 closed, closeCallback, early, callbackVars, modeVars,
                 close_sent, errored, calls>>

\* fail(): on_error, then the reader, then the transport.
Fail ==
  /\ Run("fail")
  /\ errored' = TRUE
  /\ Then(<<"user", "failRead", "closeTransport">>)
  /\ UNCHANGED <<lifeVars, readVars, writeVars, endVars, callbackVars, modeVars,
                 close_sent, calls>>

FailRead ==
  /\ Run("failRead")
  /\ Then(IF byte_read THEN <<"user">> ELSE <<>>)
  /\ UNCHANGED <<lifeVars, readVars, writeVars, endVars, callbackVars, modeVars,
                 close_sent, errored, calls>>

\* The timer fires: on_close_timeout().
OnCloseTimeout ==
  /\ Idle /\ close_timer = "active"
  /\ CloseTransport(FALSE, <<>>)
  /\ UNCHANGED <<lifeVars, readVars, writing, wire, callbackVars, modeVars,
                 close_sent, errored, calls>>

\* The stream has closed: the callback, then close_timer_handle().
OnStreamClosed ==
  /\ Idle /\ stream = "closing" /\ ~writing
  /\ stream' = "closed"
  /\ todo' = (IF closeCallback THEN <<"user">> ELSE <<>>) \o <<"closeTimer">>
  /\ closeCallback' = FALSE
  /\ UNCHANGED <<lifeVars, readVars, writeVars, closed, close_timer, early,
                 callbackVars, modeVars, close_sent, errored, calls>>

\* The timer has closed.
OnTimerClosed ==
  /\ Idle /\ close_timer = "closing"
  /\ close_timer' = "closed"
  /\ keep_alive' = FALSE
  /\ UNCHANGED <<upgrade, options, owned, writer, readVars, writeVars, stream,
                 closed, closeCallback, early, callbackVars, modeVars,
                 close_sent, errored, calls, todo>>

-------------------------------------------------------------------------------
(***************************************************************************)
(* The write queue's completions: on_write().                              *)
(***************************************************************************)

\* The stream ends a write: TCP from the loop, TLS inside write() or, if it has
\* kept the write, when the callback it ran has returned.
Ends ==
  /\ writing /\ stream = "open"
  /\ \/ writer = "loop" /\ Idle
     \/ writer = "ready"
     \/ writer = "keeping" /\ Run("answered")

\* What on_write() returns to: a TLS stream, busy until then.
Caller == IF writer = "ready" THEN <<"answered">> \o todo ELSE todo

\* An orderly completion: the callback runs before the next write starts.
OnWriteOk ==
  /\ Ends
  /\ writer' = IF writer = "loop" THEN "loop" ELSE "busy"
  /\ writing' = FALSE
  /\ writes' = Tail(writes)
  /\ pending_write_bytes' = pending_write_bytes - Head(writes).size
  /\ Answer(Head(writes).id, "ok")
  /\ todo' = Callback(Head(writes).id) \o <<"flush">> \o Caller
  /\ UNCHANGED <<hostVars, readVars, wire, endVars, asked, modeVars, close_sent,
                 errored, calls>>

\* Mutant of WriteFails: the session goes on with its queue.
WriteFailsGoesOn ==
  /\ writing' = FALSE
  /\ wire' = Front(wire)
  /\ Answer(Head(writes).id, "error")
  /\ todo' = Callback(Head(writes).id) \o <<"flush">> \o todo
  /\ UNCHANGED <<hostVars, readVars, writes, pending_write_bytes, endVars,
                 asked, modeVars, close_sent, errored, calls>>

\* on_write() with an error: the front's callback is called but not taken out of
\* the queue, then fail().
WriteFails ==
  /\ writing' = FALSE
  /\ wire' = Front(wire)
  /\ Answer(Head(writes).id, "error")
  /\ todo' = Callback(Head(writes).id) \o <<"fail">> \o todo
  /\ UNCHANGED <<hostVars, readVars, writes, pending_write_bytes, endVars,
                 asked, modeVars, close_sent, errored, calls>>

\* A write fails.  A TLS stream takes no more after SSL_write() has failed: what
\* the callback sends is cancelled when the session closes.
OnWriteError ==
  /\ Ends
  /\ writer' = IF writer = "loop" THEN "loop" ELSE "failed"
  /\ WriteFails

\* A TLS stream that is not open, or whose limit the frame exceeds, refuses it
\* inside write(), and refuses it again if it is offered again.
OnWriteRefused ==
  /\ writing /\ stream = "open"
  /\ writer \in {"ready", "busy", "refusing"}
  /\ writer' = "refusing"
  /\ WriteFails

\* A TLS stream called from its own callback takes the write and returns.
Keep ==
  /\ writing /\ stream = "open" /\ writer = "busy"
  /\ writer' = "keeping"
  /\ UNCHANGED <<hostVars, readVars, writeVars, endVars, callbackVars, modeVars,
                 close_sent, errored, todo, calls>>

\* The callback has returned to a TLS stream that has kept nothing.
Answered ==
  /\ Run("answered")
  /\ writer # "keeping" \/ stream # "open"
  /\ writer' = IF writer \in {"busy", "keeping"} THEN "ready" ELSE writer
  /\ Then(<<>>)
  /\ UNCHANGED <<hostVars, readVars, writeVars, endVars, callbackVars, modeVars,
                 close_sent, errored, calls>>

\* The stream cancels the write in progress when it closes: on_write() returns.
\* When it does so makes no difference to a closed session.
OnWriteAfterClose ==
  /\ Idle /\ writing /\ stream = "closing"
  /\ writing' = FALSE
  /\ UNCHANGED <<lifeVars, readVars, writes, pending_write_bytes, wire, endVars,
                 callbackVars, modeVars, close_sent, errored, todo, calls>>

Flush ==
  /\ Run("flush")
  /\ FlushNext(writes)
  /\ Then(<<>>)
  /\ UNCHANGED <<lifeVars, readVars, writes, pending_write_bytes, endVars,
                 callbackVars, modeVars, close_sent, errored, calls>>

-------------------------------------------------------------------------------
(***************************************************************************)
(* Reading.                                                                *)
(***************************************************************************)

Data == {"text", "binary"}

\* The frames the peer may send next, n of them.
Arrivals(n) ==
  {fs \in [1 .. n -> Frame] :
     \A i \in 1 .. n :
       /\ fs[i].id = Len(consumed) + Len(read_buffer) + i
       /\ fs[i].fin \/ fs[i].kind \in Data \cup {"cont"}}

Room(n) ==
  /\ Len(consumed) + Len(read_buffer) + n <= MaxFrames
  /\ calls + Len(consumed) + Len(read_buffer) + n <= MaxInputs

\* on_read() with data: whole frames arrive, several perhaps in one read.
OnRead(n) ==
  /\ Idle /\ stream = "open" /\ Room(n)
  /\ \E fs \in Arrivals(n) : read_buffer' = read_buffer \o fs
  /\ todo' = <<"parse">>
  /\ UNCHANGED <<lifeVars, fragments, consumed, delivered, writeVars, endVars,
                 callbackVars, modeVars, close_sent, errored, calls>>

\* on_read() at the end of the stream: the close handshake is over, or the peer
\* is gone.  Read errors are taken the second way whatever was sent.
OnEof ==
  /\ Idle /\ stream = "open"
  /\ \/ close_sent /\ todo' = <<"closeTransport">>
     \/ todo' = <<"fail">>
  /\ UNCHANGED <<lifeVars, readVars, writeVars, endVars, callbackVars, modeVars,
                 close_sent, errored, calls>>

\* What is left of parse_frames() once the frame's handler has run.
Handled(tasks) == Then(tasks \o <<"parse">>)

\* parse_frames() returns: the session has closed or no whole frame is left.
ParseDone ==
  /\ Run("parse")
  /\ closed \/ read_buffer = <<>>
  /\ Then(<<>>)
  /\ UNCHANGED <<lifeVars, readVars, writeVars, endVars, callbackVars, modeVars,
                 close_sent, errored, calls>>

\* A header that is refused is not consumed: the next read meets it again.
ParseRefuses ==
  /\ Run("parse") /\ ~closed /\ read_buffer # <<>>
  /\ Head(read_buffer).kind \in {"bad", "big"}
  /\ Then(<<"reportClose">>)
  /\ UNCHANGED <<lifeVars, readVars, writeVars, endVars, callbackVars, modeVars,
                 close_sent, errored, calls>>

\* parse_frames() takes the next frame for handle_frame(), if it is of these
\* kinds.
Takes(kinds) ==
  /\ Run("parse") /\ ~closed /\ read_buffer # <<>>
  /\ Head(read_buffer).kind \in kinds
  /\ read_buffer' = Tail(read_buffer)
  /\ consumed' = Append(consumed, Head(read_buffer))
  /\ UNCHANGED <<lifeVars, writeVars, endVars, callbackVars, modeVars,
                 close_sent, errored, calls>>

\* dispatch_message(): to the callbacks; in byte mode only binary messages, and
\* to nobody while no reader is set.
DispatchMessage(frames) ==
  IF ~byte_mode
  THEN /\ delivered' = Append(delivered, [to |-> "app", frames |-> frames])
       /\ Handled(<<"user">>)
  ELSE IF frames[1].kind # "binary"
  THEN /\ Handled(<<"reportClose">>)
       /\ UNCHANGED delivered
  ELSE /\ delivered' = Append(delivered,
                         [to |-> IF byte_read THEN "reader" ELSE "nobody",
                          frames |-> frames])
       /\ Handled(IF byte_read THEN <<"user">> ELSE <<>>)

\* Mutant of HandleDataFrame: a message in progress is replaced.
HandleDataFrameReplaces ==
  /\ Takes(Data)
  /\ IF Head(read_buffer).fin
     THEN DispatchMessage(<<Head(read_buffer)>>) /\ UNCHANGED fragments
     ELSE /\ fragments' = <<Head(read_buffer)>>
          /\ Handled(<<>>)
          /\ UNCHANGED delivered

\* handle_data_frame()
HandleDataFrame ==
  /\ Takes(Data)
  /\ IF fragments # <<>>
     THEN Handled(<<"reportClose">>) /\ UNCHANGED <<fragments, delivered>>
     ELSE IF Head(read_buffer).fin
     THEN DispatchMessage(<<Head(read_buffer)>>) /\ UNCHANGED fragments
     ELSE /\ fragments' = <<Head(read_buffer)>>
          /\ Handled(<<>>)
          /\ UNCHANGED delivered

\* handle_continuation(): the fragments so far are kept when one is refused.
HandleContinuation ==
  /\ Takes({"cont"})
  /\ LET whole == Append(fragments, Head(read_buffer))
     IN IF fragments = <<>> \/ Len(whole) > max_message_bytes
        THEN Handled(<<"reportClose">>) /\ UNCHANGED <<fragments, delivered>>
        ELSE IF ~Head(read_buffer).fin
        THEN /\ fragments' = whole
             /\ Handled(<<>>)
             /\ UNCHANGED delivered
        ELSE /\ fragments' = <<>>
             /\ DispatchMessage(whole)

\* dispatch_ping(): on_ping, then the pong (auto_pong is on).  dispatch_pong():
\* on_pong.  Everything else that is refused.
HandleControl ==
  /\ \/ Takes({"ping"}) /\ Handled(<<"user", "pong">>)
     \/ Takes({"pong"}) /\ Handled(<<"user">>)
     \/ Takes({"badop", "badclose"}) /\ Handled(<<"reportClose">>)
  /\ UNCHANGED <<fragments, delivered>>

AutoPong ==
  /\ Run("pong")
  /\ SendFrame("pong", 1, 0, Tail(todo))
  /\ UNCHANGED <<lifeVars, readVars, asked, modeVars, calls>>

\* dispatch_close(): on_close and the reader's end of file, then the answer.
DispatchClose ==
  /\ Takes({"close"})
  /\ Handled(<<"user", "closeEof", "closeReply">>)
  /\ UNCHANGED <<fragments, delivered>>

CloseEof ==
  /\ Run("closeEof")
  /\ Then(IF byte_read THEN <<"user">> ELSE <<>>)
  /\ UNCHANGED <<lifeVars, readVars, writeVars, endVars, callbackVars, modeVars,
                 close_sent, errored, calls>>

CloseReply ==
  /\ Run("closeReply")
  /\ IF close_sent
     THEN /\ CloseTransport(FALSE, Tail(todo))
          /\ UNCHANGED <<close_sent, writing, wire>>
     ELSE SendClose /\ Then(<<>>)
  /\ UNCHANGED <<lifeVars, readVars, callbackVars, modeVars, errored, calls>>

-------------------------------------------------------------------------------
(***************************************************************************)
(* The upgrade and the application.                                        *)
(***************************************************************************)

\* accept() and accept_detached(): valid_handshake() decides; the stream comes
\* later, when the 101 response is written.
Accept(valid, det) ==
  /\ upgrade = "offered"
  /\ upgrade' = IF valid THEN "accepted" ELSE "rejected"
  /\ detached' = (valid /\ det)
  /\ owned' = (valid /\ ~det)
  /\ UNCHANGED <<max_message_bytes, keep_alive, writer, readVars, writeVars,
                 endVars, callbackVars, modeVars, close_sent, errored, todo,
                 calls>>

\* start(): a session closed meanwhile closes the stream it is given; else the
\* bytes read behind the request are parsed before reading starts.
Start(n) ==
  /\ Idle /\ upgrade = "accepted"
  /\ Room(n)
  /\ IF closed
     THEN /\ n = 0
          /\ upgrade' = "refused"
          /\ UNCHANGED <<stream, close_timer, keep_alive, read_buffer, todo>>
     ELSE /\ upgrade' = "started"
          /\ stream' = "open"
          /\ close_timer' = "idle"
          /\ keep_alive' = detached
          /\ \E fs \in Arrivals(n) : read_buffer' = fs
          /\ todo' = IF n = 0 THEN <<>> ELSE <<"parse">>
  /\ UNCHANGED <<options, owned, writer, fragments, consumed, delivered,
                 writeVars, closed, closeCallback, early, callbackVars,
                 modeVars, close_sent, errored, calls>>

\* text(), binary(), ping(), pong(): no callback.
Send(payload) ==
  /\ Calls
  /\ SendFrame("data", payload, 0, todo)
  /\ UNCHANGED <<lifeVars, readVars, asked, modeVars>>

\* websocket_byte_stream::write()
ByteWrite(payload) ==
  /\ Calls /\ byte_mode
  /\ asked' = asked + 1
  /\ SendFrame("data", payload, asked + 1, todo)
  /\ UNCHANGED <<lifeVars, readVars, modeVars>>

\* session::close()
AppClose ==
  /\ Calls
  /\ Close
  /\ UNCHANGED <<lifeVars, readVars, callbackVars, modeVars, errored, todo>>

\* The owning handle is destroyed: release_owned().
Drop ==
  /\ Calls /\ owned
  /\ owned' = FALSE
  /\ CloseTransport(FALSE, todo)
  /\ UNCHANGED <<upgrade, options, keep_alive, writer, readVars, writing, wire,
                 callbackVars, modeVars, close_sent, errored>>

\* into_byte_stream() consumes the handle.
IntoByteStream ==
  /\ Calls /\ ~byte_mode
  /\ owned \/ detached
  /\ byte_mode' = TRUE
  /\ owned' = FALSE
  /\ UNCHANGED <<upgrade, options, keep_alive, writer, readVars, writeVars,
                 endVars, callbackVars, byte_read, close_sent, errored, todo>>

\* websocket_byte_stream::read_start() and read_stop()
ByteRead ==
  /\ Calls /\ byte_mode
  /\ byte_read' = ~byte_read
  /\ UNCHANGED <<lifeVars, readVars, writeVars, endVars, callbackVars,
                 byte_mode, close_sent, errored, todo>>

\* websocket_byte_stream::close()
ByteClose ==
  /\ Calls /\ byte_mode
  /\ CloseTransport(TRUE, todo)
  /\ UNCHANGED <<lifeVars, readVars, writing, wire, callbackVars, modeVars,
                 close_sent, errored>>

\* The application's callback returns.
Return ==
  /\ Run("user")
  /\ Then(<<>>)
  /\ UNCHANGED <<lifeVars, readVars, writeVars, endVars, callbackVars, modeVars,
                 close_sent, errored, calls>>

-------------------------------------------------------------------------------
Tasking ==
  \/ ReportClose \/ CloseFrame \/ CloseTransportTask \/ CloseTimerHandle
  \/ Fail \/ FailRead \/ Flush \/ Answered
  \/ ParseDone \/ ParseRefuses \/ HandleDataFrame \/ HandleContinuation
  \/ HandleControl \/ AutoPong \/ DispatchClose \/ CloseEof \/ CloseReply
  \/ Return

Loop ==
  \/ OnCloseTimeout \/ OnStreamClosed \/ OnTimerClosed \/ OnWriteAfterClose

Writing == OnWriteOk \/ OnWriteError \/ OnWriteRefused \/ Keep

Peer ==
  \/ OnEof
  \/ \E n \in 1 .. 2 : OnRead(n)

App ==
  \/ \E valid, det \in BOOLEAN : Accept(valid, det)
  \/ \E n \in 0 .. 1 : Start(n)
  \/ Send(1) \/ ByteWrite(1)
  \/ AppClose \/ Drop \/ IntoByteStream \/ ByteRead \/ ByteClose

Next == Tasking \/ Loop \/ Writing \/ Peer \/ App

\* The stack runs to its end, callbacks and write() return, and the loop reports
\* closed handles, cancelled writes and expired timers.  Nothing is assumed of
\* the peer, of a TCP write, of the application, or of a TLS stream's close,
\* which waits for the peer to read what is queued before it.
Fairness ==
  /\ WF_vars(Tasking)
  /\ WF_vars(writer # "loop" /\ Writing)
  /\ WF_vars(OnCloseTimeout \/ OnTimerClosed \/ OnWriteAfterClose)
  /\ WF_vars(writer = "loop" /\ OnStreamClosed)

Spec == Init /\ [][Next]_vars /\ Fairness

-------------------------------------------------------------------------------
(***************************************************************************)
(* Properties.                                                             *)
(***************************************************************************)

\* Where the Close frames are: those handed to the stream, and those queued. The
\* front of the queue counts once while it is being written.
ClosesSent == {i \in DOMAIN wire : wire[i] = "close"}

ClosesQueued ==
  {i \in DOMAIN writes : writes[i].kind = "close" /\ (i > 1 \/ ~writing)}

\* At most one Close frame is ever written or queued, though the peer's Close,
\* the application's close() and every protocol error ask for one and their
\* callbacks ask again (dispatch_close(), close(), close_with_error()).
OneClose ==
  /\ \A i, j \in ClosesSent : i = j
  /\ \A i, j \in ClosesQueued : i = j
  /\ ClosesSent = {} \/ ClosesQueued = {}

\* What a correct reader makes of well-formed frames, one more frame at a time:
\* messages end with a final frame, control frames may come between fragments.
Reading(acc, f) ==
  IF f.kind \notin Data \cup {"cont"} THEN acc
  ELSE IF f.fin
  THEN [open |-> <<>>, out |-> Append(acc.out, Append(acc.open, f))]
  ELSE [open |-> Append(acc.open, f), out |-> acc.out]

Reassembled(frames) ==
  LET read[i \in 0 .. Len(frames)] ==
        IF i = 0 THEN [open |-> <<>>, out |-> <<>>]
                 ELSE Reading(read[i - 1], frames[i])
  IN read[Len(frames)]

\* Until an error is reported, the messages dispatched are those the frames
\* spell, whole and in order (handle_data_frame(), handle_continuation()).
MessagesWhole ==
  (~errored /\ "reportClose" \notin Range(todo)) =>
    /\ [i \in DOMAIN delivered |-> delivered[i].frames]
         = Reassembled(consumed).out
    /\ fragments = Reassembled(consumed).open

\* Write callbacks: each is invoked at most once, with the one exception the
\* code makes.  A failed write's callback is called while it is the front of the
\* queue; if it, or on_error after it, sends again, flush_next() offers the
\* front again, and a TLS stream that refuses it again calls the callback again.
\* Only that callback is repeated, and only with an error.  While the session is
\* open the callbacks not yet invoked are those in the queue, and none was
\* passed over; close_transport() forgets them (send_frame(), on_write(),
\* flush_next()).
WritesAccounted ==
  /\ \A i, j \in DOMAIN answers :
       answers[i].id = answers[j].id =>
         \/ i = j
         \/ /\ writer = "refusing"
            /\ {answers[i].what, answers[j].what} = {"error"}
  /\ \A i, j \in DOMAIN answers :
       {answers[i].what, answers[j].what} = {"error"} =>
         answers[i].id = answers[j].id
  /\ ~closed =>
       \A id \in 1 .. asked :
         \/ \E i \in DOMAIN answers : answers[i].id = id
         \/ \E i \in DOMAIN writes : writes[i].id = id

\* The bytes of the frames in a queue.
Bytes(queue) ==
  LET sum[i \in 0 .. Len(queue)] ==
        IF i = 0 THEN 0 ELSE sum[i - 1] + queue[i].size
  IN sum[Len(queue)]

\* The session's state is well typed, and the counter is the queue's size and
\* stays within the limit plus one header and the Close frame, which are not
\* tested against it (send_frame(), queue()).
BacklogBounded ==
  /\ TypeOK
  /\ ~closed =>
       /\ pending_write_bytes = Bytes(writes)
       /\ pending_write_bytes <= MaxPending + 1 + FrameBytes(ClosePayload)

\* A TLS stream's close() has not ended and never will: the peer does not read
\* the ciphertext that is queued before the end of the connection.
Stalled == [](writer # "loop" /\ closed /\ stream = "closing")

\* A session that has asked for the close handshake closes its stream, and ends
\* and releases all it holds once the stream has closed, even if the peer never
\* answers (start_close_timeout(), close_transport(), close_timer_handle()).
\* There are two exceptions.  After a close() before the stream has come,
\* start() neither sends its frame nor arms the timer.  And a TLS stream's
\* close() has no timer of its own, so over wss the session, with its timer
\* handle and keep_alive, stays while the peer does not read, though
\* docs/user/websocket.md:83 has the timeout close the transport.
CloseCompletes ==
  (close_sent /\ ~early) ~>
     \/ closed /\ stream = "closed" /\ close_timer = "closed" /\ ~keep_alive
     \/ Stalled

===============================================================================
