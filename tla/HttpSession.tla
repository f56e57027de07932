------------------------------ MODULE HttpSession ------------------------------
(***************************************************************************)
(* One HTTP/1.1 server connection: struct session of src/http/server.cpp   *)
(* with the response_state of src/http/response.cpp behind every response  *)
(* slot and the request_body_stream of src/http/request.cpp.               *)
(*                                                                         *)
(* Requests are numbered in the order of their heads.  todo is the C++     *)
(* call stack, as in module TlsStream: frames in UserOps are application   *)
(* callbacks in progress, which may call back into the session.  A walk    *)
(* (a range-for over responses_) keeps the slots it has still to visit; it *)
(* reads a destroyed element, and undefined is set, when such a slot has   *)
(* left responses_ meanwhile.                                              *)
(*                                                                         *)
(* The parser (llhttp) is external: it turns a read into events.  Payloads *)
(* are abstracted to what they carry of a response, each counting 1.       *)
(*                                                                         *)
(* A plain stream answers a write from the loop.  A secure one answers it  *)
(* inside write(), a refusal included; a write that is made while it runs  *)
(* on_write() it answers when on_write() has returned, still inside the    *)
(* first write().  The frame "answered" marks an on_write() of that kind.  *)
(***************************************************************************)
EXTENDS Naturals, Sequences, SequencesExt, FiniteSets

CONSTANTS
  MaxRequests,          \* the most requests the peer sends
  Setups,               \* server: the connection's server, of Server
                        \* script: what the peer sends, a sequence of Profile
  MaxPendingWrite,      \* max_pending_write_bytes, in payloads
  MaxBody,              \* route_body_limit, in chunks
  KeepAlive,            \* server_options::keep_alive
  Disciplined,          \* the application keeps to the rules stated at Calls,
                        \* Resume and Throws
  MaxWrites,            \* bound: accepted writes per streaming response
  MaxPauses,            \* bound: pause() calls
  MaxErrors,            \* bound: reads after a parse error
  MaxDepth              \* bound: frames when the application calls in

Requests == 1 .. MaxRequests

\* route: "badpath", "unmatched", "upgrade", or the body mode of the matched
\* route.  body: it announces one.  keep: should_keep_alive at its end.  head:
\* the method is HEAD.  hooks: the route has on_request hooks.
Profile ==
  [route : {"badpath", "unmatched", "upgrade", "none", "buffered", "stream",
            "multipart"},
   body : BOOLEAN, keep : BOOLEAN, head : BOOLEAN, hooks : BOOLEAN]

\* limit: max_pending_responses_per_connection.  inline: stream_ answers a write
\* inside write().
Server == [limit : Nat \ {0}, inline : BOOLEAN]

ASSUME SessionAssumption ==
  /\ {MaxRequests, MaxPendingWrite, MaxBody, MaxWrites, MaxPauses, MaxErrors,
      MaxDepth} \subseteq Nat
  /\ Setups \subseteq [server : Server, script : Seq(Profile)]
  /\ \A setup \in Setups : Len(setup.script) <= MaxRequests
  /\ KeepAlive \in BOOLEAN /\ Disciplined \in BOOLEAN

VARIABLES
  todo, undefined,
  closed_, timeout_closing_,
  timeout_phase_, timeout_timer_closed_,
  profile,        \* of each request
  server,         \* the options of the server and the kind of stream_
  parsed,         \* heads parsed so far
  parsing,        \* the request being parsed, 0 between requests
  chunks,         \* body chunks parsed of it
  parserState,    \* what the parser makes of the next byte
  errors,         \* parse errors reported
  events,         \* parser_.events() from handled_events_ on
  active_,        \* request of active_request_, 0 when null
  rejected_, received_,
  body_processing_paused_,
  bodyLive,       \* body streams handed out and active
  bodyPaused,     \* those paused
  bodyEnds,       \* history: on_end and on_error calls per body stream
  pauses,
  slot, responses_,
  outcome,        \* what run_response_hooks reported of each slot
  cancels,        \* history: on_cancel calls per slot
  dispatching_response_,
  writes_, writing_, pending_response_writes_, pending_write_bytes_,
  wire,           \* history: payloads written
  reading,        \* read_start is in force
  stream,         \* "open", "closing", "closed" or "upgraded"
  upgrade         \* "none", "offered" or "accepted"

life == <<closed_, timeout_closing_>>
timers == <<timeout_phase_, timeout_timer_closed_>>
parser == <<profile, server, parsed, parsing, chunks, parserState, errors>>
body == <<active_, rejected_, received_, body_processing_paused_, bodyLive,
          bodyPaused, bodyEnds, pauses>>
slots == <<slot, responses_, outcome, cancels>>
output == <<writes_, writing_, pending_response_writes_, pending_write_bytes_,
            wire>>
lower == <<reading, stream, upgrade>>

conn == <<undefined, life, timers, lower>>
input == <<parser, events, body>>
resp == <<slots, dispatching_response_, output>>
session == <<conn, input, resp>>

vars == <<todo, session>>

UserOps == {"hook", "handler", "recover", "data", "notice", "upgrading"}

Ops == UserOps \cup
  {"parse", "process", "process_upgrade", "upgrade", "dispatch", "finish",
   "undispatch", "maybe_flush", "flush", "pressure", "after_data",
   "too_large", "cancel_all", "cancel_error", "cancel", "cancelling_error",
   "errors", "error", "drains", "drain", "after_write", "close",
   "stream_close", "start_read", "flushed", "answered"}

Frame == [op : Ops, r : 0 .. MaxRequests, rest : Seq(Requests)]

Slot ==
  [made : BOOLEAN,
   ended : BOOLEAN, deferred : BOOLEAN, claimed : BOOLEAN,   \* response_state
   cancelled : BOOLEAN,
   completed : BOOLEAN, close_after : BOOLEAN, streaming : BOOLEAN,
   headed : BOOLEAN, chunked : BOOLEAN, backpressured : BOOLEAN,
   stream_ended : BOOLEAN,
   queued : Seq([part : {"head", "chunk", "end"}, close_after : BOOLEAN]),
   writes : Nat]

NoSlot ==
  [made |-> FALSE, ended |-> FALSE, deferred |-> FALSE, claimed |-> FALSE,
   cancelled |-> FALSE, completed |-> FALSE, close_after |-> FALSE,
   streaming |-> FALSE, headed |-> FALSE, chunked |-> TRUE,
   backpressured |-> FALSE, stream_ended |-> FALSE, queued |-> <<>>,
   writes |-> 0]

Write ==
  [r : 0 .. MaxRequests,
   part : {"full", "head", "chunk", "end", "error", "accept"},
   close_after : BOOLEAN]

TypeOK ==
  /\ todo \in Seq(Frame)
  /\ parserState \in {"open", "closed", "failed", "upgrade"}
  /\ {undefined, closed_, timeout_closing_, timeout_timer_closed_,
      rejected_, body_processing_paused_, dispatching_response_, writing_,
      reading} \subseteq BOOLEAN
  /\ timeout_phase_ \in {"none", "header", "body", "idle"}
  /\ parsed \in 0 .. MaxRequests /\ parsing \in 0 .. parsed
  /\ [server |-> server, script |-> profile] \in Setups
  /\ chunks \in Nat /\ received_ \in Nat /\ errors \in Nat /\ pauses \in Nat
  /\ events \in Seq([type : {"headers", "body", "complete"}, r : Requests])
  /\ active_ \in 0 .. parsed
  /\ bodyLive \subseteq Requests /\ bodyPaused \subseteq Requests
  /\ bodyEnds \in [Requests -> Nat]
  /\ slot \in [Requests -> Slot]
  /\ responses_ \in Seq(Requests)
  /\ outcome \in [Requests -> {"none", "completed", "cancelled", "error"}]
  /\ cancels \in [Requests -> Nat]
  /\ writes_ \in Seq(Write) /\ wire \in Seq(Write)
  /\ pending_response_writes_ \in Nat /\ pending_write_bytes_ \in Nat
  /\ stream \in {"open", "closing", "closed", "upgraded"}
  /\ upgrade \in {"none", "offered", "accepted"}

\* start(): the header timer runs and the stream is read.
Init ==
  /\ todo = <<>> /\ undefined = FALSE
  /\ closed_ = FALSE /\ timeout_closing_ = FALSE
  /\ timeout_phase_ = "header" /\ timeout_timer_closed_ = FALSE
  /\ \E setup \in Setups : profile = setup.script /\ server = setup.server
  /\ parsed = 0 /\ parsing = 0 /\ chunks = 0
  /\ parserState = "open" /\ errors = 0 /\ events = <<>>
  /\ active_ = 0 /\ rejected_ = FALSE /\ received_ = 0
  /\ body_processing_paused_ = FALSE
  /\ bodyLive = {} /\ bodyPaused = {} /\ bodyEnds = [r \in Requests |-> 0]
  /\ pauses = 0
  /\ slot = [r \in Requests |-> NoSlot] /\ responses_ = <<>>
  /\ outcome = [r \in Requests |-> "none"]
  /\ cancels = [r \in Requests |-> 0]
  /\ dispatching_response_ = FALSE
  /\ writes_ = <<>> /\ writing_ = FALSE /\ wire = <<>>
  /\ pending_response_writes_ = 0 /\ pending_write_bytes_ = 0
  /\ reading = TRUE /\ stream = "open" /\ upgrade = "none"

-------------------------------------------------------------------------------
(***************************************************************************)
(* The call stack.                                                         *)
(***************************************************************************)

Do(op) == [op |-> op, r |-> 0, rest |-> <<>>]
DoFor(op, r) == [op |-> op, r |-> r, rest |-> <<>>]
Walk(op, rest) == [op |-> op, r |-> 0, rest |-> rest]

\* A secure stream is inside write(), and about to answer it.
Answering ==
  /\ server.inline /\ writing_
  /\ \A i \in 1 .. Len(todo) : todo[i].op # "answered"

\* Code of the session runs on.  Nothing is known of a program once it has used
\* a destroyed element.
Running == ~undefined /\ ~Answering

Top(op) == Running /\ todo # <<>> /\ Head(todo).op = op

Run(op, tasks) == Top(op) /\ todo' = tasks \o Tail(todo)

Event(tasks) == Running /\ todo = <<>> /\ todo' = tasks

\* A write is answered: inside write(), on top of what called it, or from the
\* loop.
Answer(tasks) ==
  IF server.inline
  THEN /\ ~undefined /\ Answering
       /\ todo' = tasks \o <<Do("answered")>> \o todo
  ELSE Event(tasks)

\* The application calls in on behalf of request r (0: the connection), from
\* the loop or from a callback.  A disciplined application calls in from a
\* notification (on_cancel, on_drain, on_error, on_end) only for
\* the response it is about.
Calls(r, tasks) ==
  /\ Running /\ stream # "upgraded"
  /\ IF todo = <<>> THEN TRUE
     ELSE LET top == Head(todo) IN
          /\ top.op \in UserOps
          /\ Len(todo) <= MaxDepth
          /\ Disciplined => top.op # "notice" \/ top.r = r
  /\ todo' = tasks \o todo

\* A callback that has nothing left to report returns.
Return ==
  /\ \E op \in {"data", "notice", "upgrading"} : Run(op, <<>>)
  /\ UNCHANGED session

\* on_write() returns into write().
Answered ==
  /\ server.inline
  /\ Run("answered", <<>>)
  /\ UNCHANGED session

-------------------------------------------------------------------------------
(***************************************************************************)
(* Timers and output.                                                      *)
(***************************************************************************)

StopTimeout == timeout_phase_' = "none" /\ UNCHANGED timeout_timer_closed_

StartTimeout(phase) ==
  /\ timeout_phase_' = IF closed_ \/ timeout_timer_closed_
                         THEN timeout_phase_ ELSE phase
  /\ UNCHANGED timeout_timer_closed_

CloseTimeoutTimer ==
  timeout_phase_' = "none" /\ timeout_timer_closed_' = TRUE

\* writes_ becomes queue, and flush_next() runs.
FlushNext(queue) ==
  /\ writes_' = queue
  /\ writing_' = (writing_ \/ (~closed_ /\ queue # <<>>))

\* send_error(): written at once, whatever slots are pending.
SendError ==
  /\ FlushNext(Append(writes_,
                      [r |-> 0, part |-> "error", close_after |-> TRUE]))
  /\ pending_write_bytes_' = pending_write_bytes_ + 1
  /\ UNCHANGED <<pending_response_writes_, wire>>

\* Mutant of CloseTasks: pending responses are not cancelled.
CloseTasksOnly == IF closed_ THEN <<>> ELSE <<Do("stream_close")>>

\* close(): its two callouts follow as tasks.
CloseTasks == IF closed_ THEN <<>> ELSE <<Do("cancel_all"), Do("stream_close")>>

Closing ==
  /\ closed_' = TRUE
  /\ UNCHANGED timeout_closing_
  /\ IF closed_ THEN UNCHANGED timers ELSE CloseTimeoutTimer

Close ==
  /\ Run("close", CloseTasks)
  /\ Closing
  /\ UNCHANGED <<input, resp, lower, undefined>>

StreamClose ==
  /\ Run("stream_close", <<>>)
  /\ reading' = FALSE
  /\ stream' = "closing"
  /\ UNCHANGED <<input, resp, life, timers, undefined, upgrade>>

-------------------------------------------------------------------------------
(***************************************************************************)
(* Reads: on_read() and the parser.                                        *)
(***************************************************************************)

\* Data arrives; the header timer starts with the first byte of a request.
Read ==
  /\ reading /\ stream = "open" /\ ~closed_ /\ ~timeout_closing_
  /\ parserState \in {"failed", "upgrade"} => errors < MaxErrors
  /\ Event(<<Do("parse")>>)
  /\ IF \/ timeout_phase_ = "idle"
        \/ timeout_phase_ = "none" /\ active_ = 0
       THEN StartTimeout("header") ELSE UNCHANGED timers
  /\ UNCHANGED <<input, resp, life, lower, undefined>>

\* The events of one read, collected before any is handled.
ParseHead ==
  LET r == parsed + 1
      p == profile[r] IN
  /\ parsing = 0 /\ parserState = "open" /\ parsed < Len(profile)
  /\ Run("parse", IF p.route = "upgrade"
                    THEN <<Do("process_upgrade"), Do("upgrade")>>
                    ELSE <<Do("parse")>>)
  /\ parsed' = r
  /\ chunks' = 0
  /\ IF p.route = "upgrade"
       THEN /\ parserState' = "upgrade"
            /\ events' = events \o <<[type |-> "headers", r |-> r],
                                     [type |-> "complete", r |-> r]>>
            /\ UNCHANGED parsing
       ELSE /\ parsing' = r
            /\ events' = Append(events, [type |-> "headers", r |-> r])
            /\ UNCHANGED parserState
  /\ UNCHANGED <<conn, resp, body, profile, server, errors>>

ParseBody ==
  /\ parsing # 0
  /\ profile[parsing].body /\ chunks <= MaxBody
  /\ Run("parse", <<Do("parse")>>)
  /\ chunks' = chunks + 1
  /\ events' = Append(events, [type |-> "body", r |-> parsing])
  /\ UNCHANGED <<conn, resp, body, profile, server, parsed, parsing,
                 parserState, errors>>

\* The parser refuses what follows a request that asked for close.
ParseComplete ==
  /\ parsing # 0
  /\ profile[parsing].body => chunks > 0
  /\ Run("parse", <<Do("parse")>>)
  /\ events' = Append(events, [type |-> "complete", r |-> parsing])
  /\ parsing' = 0
  /\ parserState' = IF profile[parsing].keep THEN "open" ELSE "closed"
  /\ UNCHANGED <<conn, resp, body, profile, server, parsed, chunks, errors>>

Parsed ==
  /\ parserState \in {"open", "closed"}
  /\ Run("parse", <<Do("process")>>)
  /\ UNCHANGED session

\* A parse error answers at once; events of the same read stay unhandled.
ParseError ==
  /\ parserState # "upgrade" /\ errors < MaxErrors
  /\ Run("parse", <<>>)
  /\ errors' = errors + 1
  /\ parserState' = "failed"
  /\ StopTimeout
  /\ SendError
  /\ UNCHANGED <<life, lower, body, slots, undefined, profile, server, parsed,
                 parsing, chunks, events, dispatching_response_>>

\* The parser stays paused after an upgrade request: more data on the stream
\* brings handle_upgrade() again.
ParseUpgradeAgain ==
  /\ parserState = "upgrade" /\ errors < MaxErrors
  /\ Run("parse", <<Do("process_upgrade"), Do("upgrade")>>)
  /\ errors' = errors + 1
  /\ UNCHANGED <<conn, resp, body, profile, server, parsed, parsing, chunks,
                 parserState, events>>

\* EOF or a read error.
ReadEnd ==
  /\ reading /\ stream = "open" /\ ~closed_ /\ ~timeout_closing_
  /\ Event(<<Do("errors"), Do("close")>>)
  /\ reading' = FALSE
  /\ UNCHANGED <<input, resp, life, timers, undefined, stream, upgrade>>

-------------------------------------------------------------------------------
(***************************************************************************)
(* process_parser_events() and the handlers of an event.                   *)
(***************************************************************************)

Processing ==
  /\ Running /\ todo # <<>>
  /\ Head(todo).op \in {"process", "process_upgrade"}
  /\ ~closed_ /\ ~body_processing_paused_ /\ events # <<>>
  /\ Head(todo).op = "process_upgrade" => Head(events).type # "complete"

Handle(type, tasks) ==
  /\ Processing
  /\ Head(events).type = type
  /\ events' = Tail(events)
  /\ todo' = tasks \o todo

\* The loop is over; resume_request_body() goes on to start_read().
ProcessEnds ==
  /\ ~Processing
  /\ \E op \in {"process", "process_upgrade"} : Run(op, <<>>)
  /\ UNCHANGED session

Streams(r) == profile[r].route \in {"stream", "multipart"}

\* A bad path, or a body the route does not take.
HeadersRefused ==
  LET r == Head(events).r
      p == profile[r] IN
  /\ Handle("headers", <<>>)
  /\ p.route = "badpath" \/ (p.route = "none" /\ p.body)
  /\ active_' = r /\ rejected_' = TRUE /\ received_' = 0
  /\ StopTimeout
  /\ SendError
  /\ UNCHANGED <<life, lower, parser, slots, undefined,
                 body_processing_paused_, bodyLive, bodyPaused, bodyEnds,
                 pauses, dispatching_response_>>

\* No slot is needed before the request is complete.
HeadersBuffered ==
  LET r == Head(events).r
      p == profile[r] IN
  /\ Handle("headers", <<>>)
  /\ p.route \in {"unmatched", "upgrade", "none", "buffered"}
  /\ ~(p.route = "none" /\ p.body)
  /\ p.hooks => p.route \in {"unmatched", "upgrade"}
  /\ active_' = r /\ rejected_' = FALSE /\ received_' = 0
  /\ StartTimeout(IF p.body THEN "body" ELSE "none")
  /\ UNCHANGED <<resp, life, lower, parser, undefined,
                 body_processing_paused_, bodyLive, bodyPaused, bodyEnds,
                 pauses>>

\* Mutant of SlotRefused: responses still being written are not counted.
SlotRefusedBySlots == Len(responses_) >= server.limit

\* The check of create_response_slot().
SlotRefused == Len(responses_) + pending_response_writes_ >= server.limit

MakeSlot(r, close_after) ==
  /\ slot' = [slot EXCEPT ![r].made = TRUE, ![r].close_after = close_after]
  /\ responses_' = Append(responses_, r)
  /\ UNCHANGED <<outcome, cancels>>

\* Hooks and streaming bodies need the slot now.  message.keep_alive is only
\* set when the message is complete, so these slots always close.
HeadersDispatched ==
  LET r == Head(events).r
      p == profile[r] IN
  /\ Handle("headers",
            IF SlotRefused THEN CloseTasks
            ELSE (IF p.hooks THEN <<DoFor("hook", r), Do("undispatch")>>
                             ELSE <<>>)
                 \o (IF Streams(r) THEN <<DoFor("dispatch", r)>> ELSE <<>>))
  /\ \/ p.hooks /\ (p.route = "buffered" \/ (p.route = "none" /\ ~p.body))
     \/ Streams(r)
  /\ active_' = r /\ rejected_' = SlotRefused /\ received_' = 0
  /\ IF SlotRefused
       THEN Closing /\ UNCHANGED <<slots, dispatching_response_>>
       ELSE /\ MakeSlot(r, TRUE)
            /\ dispatching_response_' = (p.hooks \/ dispatching_response_)
            /\ StartTimeout(IF p.body THEN "body" ELSE "none")
            /\ UNCHANGED life
  /\ UNCHANGED <<lower, parser, output, undefined, body_processing_paused_,
                 bodyLive, bodyPaused, bodyEnds, pauses>>

\* dispatch_stream_request(), unless a hook has answered.
DispatchStream ==
  LET r == Head(todo).r IN
  /\ Run("dispatch", IF rejected_ THEN <<>>
                     ELSE <<DoFor("handler", r), Do("undispatch")>>)
  /\ dispatching_response_' = (dispatching_response_ \/ ~rejected_)
  /\ bodyLive' = IF rejected_ THEN bodyLive ELSE bodyLive \cup {r}
  /\ UNCHANGED <<conn, parser, slots, output, events, active_, rejected_,
                 received_, body_processing_paused_, bodyPaused, bodyEnds,
                 pauses>>

BodySkipped ==
  /\ Handle("body", <<>>)
  /\ active_ = 0 \/ rejected_
  /\ UNCHANGED <<conn, resp, parser, body>>

\* The limit, which only a matched route has.
Limited(r) == profile[r].route \notin {"badpath", "unmatched", "upgrade"}

\* Within the limit; a live body stream gets the chunk.
BodyChunk ==
  LET emit == Streams(active_) /\ active_ \in bodyLive IN
  /\ active_ # 0 /\ ~rejected_
  /\ Limited(active_) => received_ < MaxBody
  /\ Handle("body", IF emit THEN <<DoFor("data", active_),
                                  DoFor("after_data", active_)>>
                            ELSE <<>>)
  /\ received_' = received_ + 1
  /\ UNCHANGED <<conn, resp, parser, active_, rejected_,
                 body_processing_paused_, bodyLive, bodyPaused, bodyEnds,
                 pauses>>

\* Over it: the body stream ends in an error, and except for multipart routes,
\* whose handler owns the answer, 413 follows.
BodyTooLarge ==
  LET emit == Streams(active_) /\ active_ \in bodyLive IN
  /\ active_ # 0 /\ ~rejected_
  /\ Limited(active_) /\ received_ >= MaxBody
  /\ Handle("body", (IF emit THEN <<DoFor("notice", active_)>> ELSE <<>>)
                    \o (IF profile[active_].route = "multipart"
                          THEN <<>> ELSE <<Do("too_large")>>))
  /\ received_' = received_ + 1
  /\ rejected_' = TRUE
  /\ bodyLive' = bodyLive \ {active_}
  /\ bodyEnds' = IF emit THEN [bodyEnds EXCEPT ![active_] = @ + 1] ELSE bodyEnds
  /\ StopTimeout
  /\ UNCHANGED <<resp, life, lower, parser, undefined, active_,
                 body_processing_paused_, bodyPaused, pauses>>

TooLarge ==
  /\ Run("too_large", <<>>)
  /\ SendError
  /\ UNCHANGED <<conn, input, slots, dispatching_response_>>

\* After emit_data() the chunk's request is used again: it is gone if a nested
\* resume() has completed the message.
AfterData ==
  /\ Run("after_data", <<>>)
  /\ IF active_ = Head(todo).r
       THEN /\ body_processing_paused_' = (body_processing_paused_
                                            \/ active_ \in bodyPaused)
            /\ UNCHANGED undefined
       ELSE undefined' = TRUE /\ UNCHANGED body_processing_paused_
  /\ UNCHANGED <<resp, life, timers, lower, parser, events, active_,
                 rejected_, received_, bodyLive, bodyPaused, bodyEnds, pauses>>

\* The end of a request that was answered early, or of a streamed body.
CompleteStreamed ==
  LET emit == active_ \in bodyLive IN
  /\ active_ # 0
  /\ rejected_ \/ Streams(active_)
  /\ Handle("complete", IF ~rejected_ /\ emit THEN <<DoFor("notice", active_)>>
                                              ELSE <<>>)
  /\ active_' = 0
  /\ bodyLive' = bodyLive \ (IF rejected_ THEN {} ELSE {active_})
  /\ bodyEnds' = IF ~rejected_ /\ emit
                   THEN [bodyEnds EXCEPT ![active_] = @ + 1] ELSE bodyEnds
  /\ StopTimeout
  /\ UNCHANGED <<resp, life, lower, parser, undefined, rejected_, received_,
                 body_processing_paused_, bodyPaused, pauses>>

\* handle_buffered_message(), with the slot its hooks made or a new one.
CompleteBuffered ==
  LET r == active_
      refused == ~slot[r].made /\ SlotRefused IN
  /\ r # 0 /\ ~rejected_ /\ ~Streams(r)
  /\ Handle("complete",
            IF refused THEN CloseTasks
            ELSE <<DoFor("handler", r), DoFor("finish", r), Do("undispatch")>>)
  /\ active_' = 0
  /\ IF refused
       THEN Closing /\ UNCHANGED <<slots, dispatching_response_>>
       ELSE /\ StopTimeout
            /\ UNCHANGED life
            /\ dispatching_response_' = TRUE
            /\ IF slot[r].made
                 THEN UNCHANGED slots
                 ELSE MakeSlot(r, ~(KeepAlive /\ profile[r].keep))
  /\ UNCHANGED <<lower, parser, output, undefined, rejected_, received_,
                 body_processing_paused_, bodyLive, bodyPaused, bodyEnds,
                 pauses>>

-------------------------------------------------------------------------------
(***************************************************************************)
(* Application code in charge of a response: a hook, a handler, or the     *)
(* exception handler.                                                      *)
(***************************************************************************)

Active(s) == ~s.ended /\ ~s.cancelled

Untouched(s) == ~s.ended /\ ~s.deferred /\ ~s.claimed

\* response_state::complete() on slot value s, then complete_response(), whose
\* flush is CompletionTasks.  The response hooks only observe.
Complete(r, s) ==
  /\ slot' = [slot EXCEPT ![r] =
                IF Active(s) THEN [s EXCEPT !.ended = TRUE, !.deferred = FALSE,
                                            !.completed = TRUE]
                             ELSE s]
  /\ outcome' = IF Active(s) /\ ~s.completed /\ outcome[r] = "none"
                  THEN [outcome EXCEPT ![r] = "completed"] ELSE outcome
  /\ UNCHANGED <<responses_, cancels>>

CompletionTasks(s) ==
  IF Active(s) /\ ~s.completed THEN <<Do("maybe_flush")>> ELSE <<>>

\* The callback returns with nothing to report, or a hook lets the request pass.
HandlerReturns ==
  LET r == Head(todo).r IN
  /\ \E op \in {"hook", "handler", "recover"} :
       /\ Run(op, <<>>)
       /\ op = "hook" => Untouched(slot[r])
  /\ UNCHANGED session

\* A hook stops the request or has claimed the response: the handler does not
\* run, and what is left of a request in progress is ignored.
HookStops ==
  LET r == Head(todo).r IN
  /\ \/ Run("hook", <<DoFor("finish", r)>>)
     \/ Run("handler", <<DoFor("finish", r)>>)   \* in a pre_handler hook
  /\ rejected_' = (rejected_ \/ active_ = r)
  /\ IF Top("hook") THEN StopTimeout ELSE UNCHANGED timers
  /\ UNCHANGED <<resp, life, lower, parser, undefined, events, active_,
                 received_, body_processing_paused_, bodyLive, bodyPaused,
                 bodyEnds, pauses>>

\* It throws: handle_exception() resets the response, whatever became of it,
\* and has the exception handler or a 500 complete it.  A disciplined
\* application does not throw once it streams.
Throws ==
  LET r == Head(todo).r
      done == <<DoFor("finish", r)>> IN
  /\ \/ Run("hook", <<DoFor("recover", r)>> \o done)
     \/ Run("handler", <<DoFor("recover", r)>> \o done)
     \/ Run("recover", done)
  /\ Disciplined => ~slot[r].streaming
  /\ slot' = [slot EXCEPT ![r].ended = FALSE, ![r].deferred = FALSE,
                          ![r].claimed = FALSE, ![r].cancelled = FALSE]
  /\ rejected_' = (rejected_ \/ active_ = r)
  /\ IF Top("hook") THEN StopTimeout ELSE UNCHANGED timers
  /\ UNCHANGED <<life, lower, parser, output, undefined, events, active_,
                 received_, body_processing_paused_, bodyLive, bodyPaused,
                 bodyEnds, pauses, responses_, outcome, cancels,
                 dispatching_response_>>

\* finish_response_if_needed().
Finish ==
  LET r == Head(todo).r
      s == slot[r] IN
  /\ Run("finish", IF Untouched(s) THEN CompletionTasks(s) ELSE <<>>)
  /\ IF Untouched(s) THEN Complete(r, s) ELSE UNCHANGED slots
  /\ UNCHANGED <<conn, input, output, dispatching_response_>>

\* The dispatch_guard.
Undispatch ==
  /\ Run("undispatch", <<Do("flush")>>)
  /\ dispatching_response_' = FALSE
  /\ UNCHANGED <<conn, input, slots, output>>

\* response::defer() and response::stream(), by the code in charge.
InCharge(r) == /\ Running /\ todo # <<>>
               /\ Head(todo).op \in {"hook", "handler", "recover"}
               /\ Head(todo).r = r

Claim(r) ==
  /\ InCharge(r)
  /\ Active(slot[r]) /\ Untouched(slot[r])
  /\ \/ slot' = [slot EXCEPT ![r].deferred = TRUE]
     \/ slot' = [slot EXCEPT ![r].claimed = TRUE]
  /\ UNCHANGED <<conn, input, output, todo, responses_, outcome, cancels,
                 dispatching_response_>>

\* response::end() by the code in charge, or a deferred_response, at any time.
Respond(r) ==
  LET s == slot[r] IN
  /\ s.made /\ Active(s) /\ ~s.claimed
  /\ s.deferred \/ InCharge(r)
  /\ Calls(r, CompletionTasks(s))
  /\ Complete(r, s)
  /\ UNCHANGED <<conn, input, output, dispatching_response_>>

-------------------------------------------------------------------------------
(***************************************************************************)
(* Streaming responses: write_stream_chunk() and end_stream().             *)
(***************************************************************************)

\* A call the session does not refuse outright.
StreamOpen(r) ==
  LET s == slot[r] IN
  s.claimed /\ Active(s) /\ ~closed_ /\ ~s.completed /\ ~s.stream_ended

Part(part, close_after) == [part |-> part, close_after |-> close_after]

\* streaming_response::write(); chunked is FALSE if the application has set a
\* content-length.  Nothing is queued for a HEAD request.
StreamWrite(r, chunked) ==
  LET s == slot[r]
      new == (IF s.headed THEN <<>> ELSE <<Part("head", FALSE)>>)
             \o <<Part("chunk", FALSE)>> IN
  /\ StreamOpen(r) /\ ~s.backpressured
  /\ s.writes < MaxWrites
  /\ s.headed => chunked = s.chunked
  /\ IF profile[r].head
       THEN /\ Calls(r, <<>>)
            /\ slot' = [slot EXCEPT ![r].streaming = TRUE, ![r].writes = @ + 1]
            /\ UNCHANGED pending_write_bytes_
       ELSE /\ Calls(r, <<Do("flush"), DoFor("pressure", r)>>)
            /\ slot' = [slot EXCEPT ![r].streaming = TRUE,
                                    ![r].headed = TRUE,
                                    ![r].chunked = chunked,
                                    ![r].queued = @ \o new,
                                    ![r].writes = @ + 1]
            /\ pending_write_bytes_' = pending_write_bytes_ + Len(new)
  /\ UNCHANGED <<conn, input, responses_, outcome, cancels,
                 dispatching_response_, writes_, writing_,
                 pending_response_writes_, wire>>

\* The end of write_stream_chunk().
Pressure ==
  LET r == Head(todo).r IN
  /\ Run("pressure", <<>>)
  /\ slot' = [slot EXCEPT ![r].backpressured =
                            (@ \/ pending_write_bytes_ >= MaxPendingWrite)]
  /\ UNCHANGED <<conn, input, output, responses_, outcome, cancels,
                 dispatching_response_>>

\* streaming_response::end().  Only a terminating chunk, or the head of a HEAD
\* response, carries close_after.
StreamEnd(r, chunked) ==
  LET s == slot[r]
      head == profile[r].head
      new == (IF s.headed THEN <<>>
              ELSE <<Part("head", head /\ s.close_after)>>)
             \o (IF ~head /\ chunked THEN <<Part("end", s.close_after)>>
                                     ELSE <<>>)
      ended == [s EXCEPT !.streaming = TRUE, !.stream_ended = TRUE,
                         !.headed = TRUE, !.chunked = chunked,
                         !.queued = @ \o new, !.claimed = FALSE] IN
  /\ StreamOpen(r)
  /\ s.headed => chunked = s.chunked
  /\ Calls(r, CompletionTasks(s) \o <<Do("maybe_flush")>>)
  /\ Complete(r, ended)
  /\ pending_write_bytes_' = pending_write_bytes_ + Len(new)
  /\ UNCHANGED <<conn, input, dispatching_response_, writes_, writing_,
                 pending_response_writes_, wire>>

-------------------------------------------------------------------------------
(***************************************************************************)
(* flush_response_slots(), one slot per step, and the walks over           *)
(* responses_ that call the application.                                   *)
(***************************************************************************)

MaybeFlush ==
  /\ Run("maybe_flush", IF dispatching_response_ THEN <<>> ELSE <<Do("flush")>>)
  /\ UNCHANGED session

FirstSlot == slot[Head(responses_)]

FlushStops ==
  /\ responses_ # <<>> => ~FirstSlot.streaming /\ ~FirstSlot.completed
  /\ Run("flush", <<>>)
  /\ UNCHANGED session

\* What follows a slot that left: the rest is cancelled if it closes.
AfterSlot(s) == IF s.close_after THEN <<Do("cancel_all")>> ELSE <<Do("flush")>>

\* flush_stream_writes(): the slot hands over what it has queued.
HandOver(r) ==
  /\ FlushNext(writes_ \o [i \in 1 .. Len(slot[r].queued) |->
                             [r |-> r, part |-> slot[r].queued[i].part,
                              close_after |-> slot[r].queued[i].close_after]])
  /\ slot' = [slot EXCEPT ![r].queued = <<>>]

\* Mutant of FlushStreaming: the slot leaves with its first payload.
FlushStreamingLeaves ==
  LET r == Head(responses_)
      s == FirstSlot IN
  /\ ~server.inline /\ responses_ # <<>> /\ s.streaming
  /\ Run("flush", AfterSlot(s))
  /\ HandOver(r)
  /\ responses_' = Tail(responses_)
  /\ UNCHANGED <<conn, input, outcome, cancels, dispatching_response_,
                 pending_response_writes_, pending_write_bytes_, wire>>

\* A streaming slot hands over, and leaves when completed.
FlushStreaming ==
  LET r == Head(responses_)
      s == FirstSlot IN
  /\ ~server.inline /\ responses_ # <<>> /\ s.streaming
  /\ Run("flush", IF s.completed THEN AfterSlot(s) ELSE <<>>)
  /\ HandOver(r)
  /\ responses_' = IF s.completed THEN Tail(responses_) ELSE responses_
  /\ UNCHANGED <<conn, input, outcome, cancels, dispatching_response_,
                 pending_response_writes_, pending_write_bytes_, wire>>

\* ... on a secure stream, which runs on_write() in between ...
FlushSecure ==
  LET r == Head(responses_) IN
  /\ server.inline /\ responses_ # <<>> /\ FirstSlot.streaming
  /\ Run("flush", <<DoFor("flushed", r)>>)
  /\ HandOver(r)
  /\ UNCHANGED <<conn, input, responses_, outcome, cancels,
                 dispatching_response_, pending_response_writes_,
                 pending_write_bytes_, wire>>

\* ... and then takes the first slot from responses_, be it that one or not.
Flushed ==
  LET s == slot[Head(todo).r]
      leaves == s.completed /\ s.queued = <<>> IN
  /\ server.inline
  /\ Run("flushed", IF leaves THEN AfterSlot(s) ELSE <<>>)
  /\ responses_' = IF leaves /\ responses_ # <<>> THEN Tail(responses_)
                                                  ELSE responses_
  /\ undefined' = (leaves /\ responses_ = <<>>)
  /\ UNCHANGED <<input, life, timers, lower, slot, outcome, cancels, output,
                 dispatching_response_>>

FlushCompleted ==
  LET r == Head(responses_)
      s == FirstSlot IN
  /\ responses_ # <<>> /\ ~s.streaming /\ s.completed
  /\ Run("flush", AfterSlot(s))
  /\ FlushNext(Append(writes_, [r |-> r, part |-> "full",
                                close_after |-> s.close_after]))
  /\ pending_response_writes_' = pending_response_writes_ + 1
  /\ pending_write_bytes_' = pending_write_bytes_ + 1
  /\ responses_' = Tail(responses_)
  /\ UNCHANGED <<conn, input, slot, outcome, cancels, dispatching_response_,
                 wire>>

\* The start of a walk: its end is fixed here.
WalkStarts ==
  /\ \/ Run("cancel_all", <<Walk("cancel", responses_)>>)
     \/ Run("cancel_error", <<Walk("cancelling_error", responses_)>>)
     \/ Run("errors", <<Walk("error", responses_)>>)
     \/ Run("drains", IF pending_write_bytes_ > MaxPendingWrite \div 2
                        THEN <<>> ELSE <<Walk("drain", responses_)>>)
  /\ UNCHANGED session

\* The walk is at a slot of responses_, or at what used to be one.
At(op, r) ==
  /\ Top(op)
  /\ Head(todo).rest # <<>>
  /\ r = Head(Head(todo).rest)

Continue(op, tasks) == Run(op, tasks \o <<Walk(op, Tail(Head(todo).rest))>>)

WalkIsStale ==
  /\ \E r \in Requests,
        op \in {"cancel", "cancelling_error", "error", "drain"} :
       /\ At(op, r)
       /\ r \notin Range(responses_)
       /\ Continue(op, <<>>)
  /\ undefined' = TRUE
  /\ UNCHANGED <<input, resp, life, timers, lower>>

\* cancel_pending_responses(): on_cancel, then the response hooks.
CancelSlot(op, r) ==
  LET s == slot[r] IN
  /\ At(op, r)
  /\ r \in Range(responses_)
  /\ IF s.completed
       THEN Continue(op, <<>>) /\ UNCHANGED slots
       ELSE /\ Continue(op, <<DoFor("notice", r)>>)
            /\ slot' = IF Active(s)
                         THEN [slot EXCEPT ![r].cancelled = TRUE,
                                           ![r].deferred = FALSE]
                         ELSE slot
            /\ cancels' = IF Active(s) THEN [cancels EXCEPT ![r] = @ + 1]
                                       ELSE cancels
            /\ outcome' = [outcome EXCEPT ![r] =
                             IF @ # "none" THEN @
                             ELSE IF op = "cancel" THEN "cancelled"
                             ELSE "error"]
            /\ UNCHANGED responses_
  /\ UNCHANGED <<conn, input, output, dispatching_response_>>

\* Its responses_.clear().
CancelEnds ==
  /\ todo # <<>> /\ Head(todo).rest = <<>>
  /\ \E op \in {"cancel", "cancelling_error"} : Run(op, <<>>)
  /\ responses_' = <<>>
  /\ UNCHANGED <<conn, input, output, slot, outcome, cancels,
                 dispatching_response_>>

\* notify_stream_errors() tells the streaming responses not yet completed,
\* notify_drains() those it had refused.
Notify(op, r) ==
  LET s == slot[r] IN
  /\ At(op, r)
  /\ r \in Range(responses_)
  /\ Continue(op, IF \/ op = "error" /\ s.streaming /\ ~s.completed
                     \/ /\ op = "drain" /\ s.backpressured
                        /\ Active(s) /\ s.claimed
                    THEN <<DoFor("notice", r)>> ELSE <<>>)
  /\ slot' = IF op = "drain" THEN [slot EXCEPT ![r].backpressured = FALSE]
                             ELSE slot
  /\ UNCHANGED <<conn, input, output, responses_, outcome, cancels,
                 dispatching_response_>>

NotifyEnds ==
  /\ todo # <<>> /\ Head(todo).rest = <<>>
  /\ \E op \in {"error", "drain"} : Run(op, <<>>)
  /\ UNCHANGED session

-------------------------------------------------------------------------------
(***************************************************************************)
(* on_write().                                                             *)
(***************************************************************************)

WriteFails ==
  /\ writing_
  /\ Answer(IF closed_ THEN <<>>
            ELSE <<Do("errors"), Do("cancel_error"), Do("close")>>)
  /\ writing_' = FALSE
  /\ UNCHANGED <<conn, input, slots, dispatching_response_, writes_,
                 pending_response_writes_, pending_write_bytes_, wire>>

\* Mutants of LessPending: no guard for payloads that were not counted (an
\* accepted upgrade), or no subtraction.
LessPendingUnguarded == pending_write_bytes_ - 1

LessPendingNot == pending_write_bytes_

\* pending_write_bytes_ after a payload has been written.
LessPending ==
  pending_write_bytes_ - (IF pending_write_bytes_ > 0 THEN 1 ELSE 0)

\* An accepted upgrade takes the stream away; else drains, then close() or the
\* next write.
Written ==
  LET w == Head(writes_) IN
  /\ writing_ /\ ~closed_
  /\ Answer(IF w.part = "accept" THEN <<Do("notice")>>
            ELSE <<Do("drains"), Do(IF w.close_after THEN "close"
                                                     ELSE "after_write")>>)
  /\ writing_' = FALSE
  /\ writes_' = Tail(writes_)
  /\ wire' = Append(wire, w)
  /\ pending_write_bytes_' = LessPending
  /\ pending_response_writes_' = pending_response_writes_
                                   - (IF w.part = "full" THEN 1 ELSE 0)
  /\ closed_' = (w.part = "accept")
  /\ stream' = IF w.part = "accept" THEN "upgraded" ELSE stream
  /\ UNCHANGED <<input, timers, slots, undefined, timeout_closing_,
                 dispatching_response_, reading, upgrade>>

\* Mutant of AfterWrite: maybe_start_idle_timeout() is forgotten.
AfterWriteOnly ==
  /\ Run("after_write", <<>>)
  /\ FlushNext(writes_)
  /\ UNCHANGED <<input, conn, slots, dispatching_response_,
                 pending_response_writes_, pending_write_bytes_, wire>>

\* flush_next(), then maybe_start_idle_timeout().
AfterWrite ==
  /\ Run("after_write", <<>>)
  /\ FlushNext(writes_)
  /\ IF /\ timeout_phase_ = "none" /\ ~timeout_closing_ /\ KeepAlive
        /\ active_ = 0 /\ ~body_processing_paused_
        /\ ~writing_ /\ writes_ = <<>> /\ responses_ = <<>>
        /\ pending_response_writes_ = 0 /\ events = <<>>
       THEN StartTimeout("idle") ELSE UNCHANGED timers
  /\ UNCHANGED <<input, life, lower, slots, undefined, dispatching_response_,
                 pending_response_writes_, pending_write_bytes_, wire>>

-------------------------------------------------------------------------------
(***************************************************************************)
(* on_timeout().                                                           *)
(***************************************************************************)

HeaderTimeout ==
  /\ timeout_phase_ = "header" /\ ~closed_
  /\ Event(<<>>)
  /\ StopTimeout
  /\ timeout_closing_' = TRUE
  /\ reading' = FALSE
  /\ SendError
  /\ UNCHANGED <<input, slots, undefined, closed_, dispatching_response_,
                 stream, upgrade>>

BodyTimeout ==
  LET emit == Streams(active_) /\ active_ \in bodyLive IN
  /\ timeout_phase_ = "body" /\ ~closed_
  /\ Event((IF emit THEN <<DoFor("notice", active_)>> ELSE <<>>)
           \o <<Do("errors"), Do("cancel_error"), Do("close")>>)
  /\ StopTimeout
  /\ timeout_closing_' = TRUE
  /\ bodyLive' = bodyLive \ {active_}
  /\ bodyEnds' = IF emit THEN [bodyEnds EXCEPT ![active_] = @ + 1] ELSE bodyEnds
  /\ UNCHANGED <<resp, lower, parser, undefined, closed_, events, active_,
                 rejected_, received_, body_processing_paused_, bodyPaused,
                 pauses>>

IdleTimeout ==
  /\ timeout_phase_ = "idle" /\ ~closed_
  /\ Event(<<Do("close")>>)
  /\ StopTimeout
  /\ UNCHANGED <<input, resp, life, lower, undefined>>

-------------------------------------------------------------------------------
(***************************************************************************)
(* Request bodies, upgrades and the server's close().                      *)
(***************************************************************************)

\* request_body_stream::pause(), then pause_request_body().
Pause(r) ==
  /\ r \in bodyLive /\ r \notin bodyPaused
  /\ pauses < MaxPauses
  /\ Calls(r, <<>>)
  /\ pauses' = pauses + 1
  /\ bodyPaused' = bodyPaused \cup {r}
  /\ body_processing_paused_' = TRUE
  /\ reading' = FALSE
  /\ StopTimeout
  /\ UNCHANGED <<resp, life, parser, undefined, events, active_, rejected_,
                 received_, bodyLive, bodyEnds, stream, upgrade>>

\* request_body_stream::resume(), then resume_request_body(): the waiting
\* events first, and start_read() if none has paused again.  A disciplined
\* application resumes from the loop.
Resume(r) ==
  /\ r \in bodyLive \cap bodyPaused
  /\ Disciplined => todo = <<>>
  /\ Calls(r, IF closed_ THEN <<>> ELSE <<Do("process"), Do("start_read")>>)
  /\ bodyPaused' = bodyPaused \ {r}
  /\ IF closed_
       THEN UNCHANGED <<timers, body_processing_paused_>>
       ELSE /\ body_processing_paused_' = FALSE
            /\ IF active_ # 0 /\ ~rejected_ /\ profile[active_].body
                 THEN StartTimeout("body") ELSE UNCHANGED timers
  /\ UNCHANGED <<resp, life, lower, parser, undefined, events, active_,
                 rejected_, received_, bodyLive, bodyEnds, pauses>>

StartRead ==
  /\ Run("start_read", <<>>)
  /\ reading' = (reading \/ (~closed_ /\ ~body_processing_paused_))
  /\ UNCHANGED <<input, resp, life, timers, undefined, stream, upgrade>>

\* handle_upgrade(): the active request decides, and the route's handler may
\* accept.
HandleUpgrade ==
  LET offered == active_ # 0 /\ profile[active_].route = "upgrade" IN
  /\ Run("upgrade", IF offered THEN <<DoFor("upgrading", active_)>> ELSE <<>>)
  /\ IF offered THEN UNCHANGED output ELSE SendError
  /\ upgrade' = IF offered THEN "offered" ELSE upgrade
  /\ UNCHANGED <<input, life, timers, slots, undefined,
                 dispatching_response_, reading, stream>>

UpgradeThrows ==
  /\ Run("upgrading", <<>>)
  /\ SendError
  /\ UNCHANGED <<conn, input, slots, dispatching_response_>>

\* accept_upgrade().
Accept ==
  /\ upgrade = "offered" /\ stream = "open"
  /\ Calls(0, <<>>)
  /\ upgrade' = "accepted"
  /\ reading' = FALSE
  /\ CloseTimeoutTimer
  /\ FlushNext(Append(writes_,
                      [r |-> 0, part |-> "accept", close_after |-> FALSE]))
  /\ UNCHANGED <<input, life, slots, undefined, dispatching_response_,
                 pending_response_writes_, pending_write_bytes_, wire,
                 stream>>

\* server::close().
ServerClose ==
  /\ ~closed_
  /\ Calls(0, <<Do("close")>>)
  /\ UNCHANGED session

StreamClosed ==
  /\ stream = "closing" /\ ~writing_
  /\ Event(<<>>)
  /\ stream' = "closed"
  /\ UNCHANGED <<input, resp, life, timers, undefined, reading, upgrade>>

-------------------------------------------------------------------------------

Stack ==
  \/ Return \/ Close \/ StreamClose
  \/ ParseHead \/ ParseBody \/ ParseComplete \/ Parsed \/ ParseError
  \/ ParseUpgradeAgain
  \/ ProcessEnds \/ HeadersRefused \/ HeadersBuffered \/ HeadersDispatched
  \/ DispatchStream \/ BodySkipped \/ BodyChunk \/ BodyTooLarge \/ TooLarge
  \/ AfterData \/ CompleteStreamed \/ CompleteBuffered
  \/ HandlerReturns \/ HookStops \/ Throws \/ Finish \/ Undispatch
  \/ Pressure \/ MaybeFlush \/ FlushStops \/ FlushStreaming
  \/ FlushCompleted
  \/ WalkStarts \/ WalkIsStale \/ CancelEnds \/ NotifyEnds
  \/ \E r \in Requests :
       \E op \in {"cancel", "cancelling_error"} : CancelSlot(op, r)
  \/ \E r \in Requests, op \in {"error", "drain"} : Notify(op, r)
  \/ AfterWrite \/ StartRead \/ HandleUpgrade \/ UpgradeThrows

\* What only a secure stream adds.
Inline == FlushSecure \/ Flushed \/ Answered

Loop == Written \/ WriteFails \/ StreamClosed

Timer == HeaderTimeout \/ BodyTimeout \/ IdleTimeout

Peer == Read \/ ReadEnd

Application ==
  \/ Accept \/ ServerClose
  \/ \E r \in Requests :
       \/ Claim(r) \/ Respond(r) \/ Pause(r) \/ Resume(r)
       \/ \E chunked \in BOOLEAN :
            StreamWrite(r, chunked) \/ StreamEnd(r, chunked)

Next == Stack \/ Inline \/ Loop \/ Timer \/ Peer \/ Application

Spec == Init /\ [][Next]_vars

-------------------------------------------------------------------------------
(***************************************************************************)
(* Properties.                                                             *)
(***************************************************************************)

Idle == todo = <<>>   \* control is back in the loop

\* The i-th and the j-th payload are parts of responses, with none between.
Consecutive(i, j) ==
  /\ i < j /\ wire[i].r # 0 /\ wire[j].r # 0
  /\ \A k \in 1 .. Len(wire) : i < k /\ k < j => wire[k].r = 0

\* Payload b may be the next one after a that belongs to a response.
Follows(a, b) ==
  IF a.r = b.r
    THEN a.part \in {"head", "chunk"} /\ b.part \in {"chunk", "end"}
    ELSE /\ a.r < b.r
         /\ \/ a.part \in {"full", "end"}
            \/ profile[a.r].head
            \/ ~slot[a.r].chunked
         /\ b.part \in {"full", "head"}

\* Responses leave in the order of their requests, whatever order they are
\* completed in, and each one whole before the next: a full response, or a head,
\* chunks and, unless a content-length told the peer, the end.  After a payload
\* that closes, an error among them, nothing follows.
ResponsesInOrder ==
  /\ \A i, j \in 1 .. Len(wire) : Consecutive(i, j) => Follows(wire[i], wire[j])
  /\ \A i \in 1 .. Len(wire) - 1 : ~wire[i].close_after

\* Over a secure stream flush_response_slots() may take the slot behind a
\* streamed response from responses_ in that one's place, when on_drain has
\* ended it meanwhile: nobody settles the response of that slot.
Dropped(r) ==
  server.inline /\ \E q \in Requests : q < r /\ slot[q].streaming

\* When the connection is closed every response was settled once: completed, or
\* cancelled with one on_cancel, and never both; and no body stream is told
\* twice that it ended.  A dropped response is excepted from the first part.
SlotsSettled ==
  /\ \A r \in Requests :
       /\ cancels[r] <= 1 /\ bodyEnds[r] <= 1
       /\ outcome[r] = "completed" => cancels[r] = 0
  /\ Idle /\ stream = "closed" =>
       \A r \in Requests : slot[r].made => outcome[r] # "none" \/ Dropped(r)

\* max_pending_responses_per_connection holds over the slots and the buffered
\* responses being written, and the counter of the latter never drifts from the
\* queue.  A streamed response is not counted from the moment all of it is in
\* the queue: its payloads have counts_response false and its slot is gone,
\* although docs/design/http-server.md:530 has the limit include responses
\* "completed but not yet fully written".
LimitHolds ==
  /\ pending_response_writes_ =
       Cardinality({i \in 1 .. Len(writes_) : writes_[i].part = "full"})
  /\ Len(responses_) + pending_response_writes_ <= server.limit

Blocked(r) == slot[r].backpressured /\ slot[r].claimed /\ Active(slot[r])

\* A streaming response told to wait for on_drain gets it: while it is the next
\* to write and no other response holds payloads back, a write is under way.
NoLostDrain ==
  \A r \in Requests :
    /\ Idle /\ ~closed_ /\ responses_ # <<>>
    /\ r = Head(responses_) /\ Blocked(r)
    /\ \A q \in Requests \ {r} : slot[q].queued = <<>>
    => writing_

\* A connection with nothing to do: no request, response, write or upgrade.
Quiet ==
  /\ Idle /\ ~closed_ /\ stream = "open" /\ ~timeout_closing_
  /\ active_ = 0 /\ ~body_processing_paused_ /\ events = <<>>
  /\ responses_ = <<>> /\ ~writing_ /\ upgrade = "none"

\* The last payload was of a streamed response whose slot was still in
\* responses_ when it was written: it leaves after the writes over a secure
\* stream and, with a content-length, when end() finds nothing to write.
Unguarded ==
  \E r \in Requests :
    /\ wire # <<>> /\ Last(wire).r = r
    /\ slot[r].headed
    /\ server.inline \/ ~slot[r].chunked

\* A kept-alive connection with nothing to do is under a timer, so that a silent
\* peer cannot hold it.  A streamed response over a secure stream, or with a
\* content-length, is excepted: the connection stays without a timer after it,
\* although docs/user/http-server.md:189 and docs/design/http-server.md:652 have
\* idle_timeout apply to every keep-alive connection without a request.
IdleGuarded ==
  KeepAlive /\ Quiet /\ ~Unguarded => timeout_phase_ # "none"

\* No walk over responses_ meets a slot that a callback has removed, no slot is
\* taken from an empty responses_, and no chunk outlives the request it belongs
\* to.
NoStaleSlot == ~undefined

===============================================================================
