------------------------------ MODULE HttpClient ------------------------------
(***************************************************************************)
(* The buffered requests of uvp::http::client (class request_state of      *)
(* src/http/client.cpp) over one pool of connections, with the resolver,   *)
(* the connect operation, the TLS handshake and the servers they meet.     *)
(*                                                                         *)
(* A handler is an operator from a request's record q and the connections  *)
(* n to a pair [q, n].  The user's callback is the last thing complete()   *)
(* does and complete() the last thing a handler does, so no handler is     *)
(* re-entered and one step of the loop is one action.  In cancel() and     *)
(* on_timeout() the operations they cancel call back at once, with         *)
(* cancelled_ set: on_resolved(), on_connected() and on_tls_connected()    *)
(* then only report what their caller is about to report.                  *)
(*                                                                         *)
(* A response on the wire is a head and, if its framing has one, a body,   *)
(* each tagged with the request and the hop that the server answers with   *)
(* them.                                                                   *)
(***************************************************************************)
EXTENDS ConnectionPool

CONSTANTS
  Requests,
  Replayable,   \* the requests whose method is GET or HEAD
  Secure,       \* the origins whose scheme is https
  Proxy,        \* options.proxy: "none", "http" or "bad"
  Timed,        \* the phases with a positive timeout
  FollowRedirects, MaxRedirects,
  Framings,     \* how the servers frame their bodies
  Locations,    \* where the servers redirect to
  MaxInterim    \* bound: 1xx responses a server sends before an answer

Phases == {"dns", "tls_handshake", "request_body", "response_header",
           "response_body"}

ASSUME ClientAssumption ==
  /\ Replayable \subseteq Requests /\ Secure \subseteq Origins
  /\ Timed \subseteq Phases
  /\ Proxy \in {"none", "http", "bad"} /\ FollowRedirects \in BOOLEAN
  /\ {MaxStreams, MaxIdle, MaxRedirects, MaxInterim} \subseteq Nat
  /\ Framings \subseteq {"none", "length", "chunked", "eof", "bad"}
  /\ Locations \subseteq Origins \cup {"bad"}

VARIABLES
  req,   \* the requests
  net,   \* the pool and the life of every connection
  peer   \* external: the server's side of every connection

vars == <<req, net, peer>>

\* A response: its framing, whether it lets the connection be reused, and where
\* it redirects to ("no" when it does not, "bad" for an unusable Location).
\* Bound: the redirects, and the responses that end a connection whose body has
\* a length, are the ones without a body.
Shapes ==
  {s \in [framing : Framings, keep : BOOLEAN,
          location : Locations \cup {"no"}, interim : {FALSE}] :
     /\ s.framing # "none" => (s.keep = (s.framing \in {"length", "chunked"}))
     /\ s.framing # "none" => s.location = "no"}

InterimShape ==
  [framing |-> "none", keep |-> TRUE, location |-> "no", interim |-> TRUE]

HasBody(shape) == shape.framing \notin {"none", "bad"}

Tag(r, hop) == [request |-> r, hop |-> hop]

Unit(tag, part, shape) == [tag |-> tag, part |-> part, shape |-> shape]

NewRequest(r) ==
  [id |-> r, pending |-> "new", timer |-> "none",
   origin |-> "no", stream |-> NoStream, lower |-> NoStream, redirects |-> 0,
   hop |-> 0, received |-> <<>>, headers_complete |-> FALSE, next |-> "no",
   completed |-> FALSE, result |-> "none",
   answer |-> [of |-> {}, whole |-> TRUE], left |-> "no"]

IdlePeer == [busy |-> FALSE, inbox |-> <<>>, gone |-> FALSE, interims |-> 0]

Init ==
  /\ req = [r \in Requests |-> NewRequest(r)]
  /\ net = [idle |-> NoConnections.idle, life |-> NoConnections.life,
            owed |-> [s \in Streams |-> <<>>]]
  /\ peer = [s \in Streams |-> IdlePeer]

-------------------------------------------------------------------------------
(***************************************************************************)
(* The phase timer, completion, and the ways a request gives up.           *)
(***************************************************************************)

Pair(q, n) == [q |-> q, n |-> n]

\* start_phase_timeout(): one timer at a time, none for a zero duration.
StartPhaseTimeout(q, phase) ==
  [q EXCEPT !.timer = IF phase \in Timed THEN phase ELSE "none"]

StopPhaseTimeout(q) == [q EXCEPT !.timer = "none"]

\* complete(): the callback, once.
Complete(q, n, result) ==
  IF q.completed THEN Pair(q, n)
  ELSE Pair([StopPhaseTimeout(q) EXCEPT !.completed = TRUE,
                                        !.result = result,
                                        !.received = <<>>,
                                        !.headers_complete = FALSE], n)

\* close_stream() and complete() with an error.
Fail(q, n) == Complete(q, CloseStream(n, q.stream), "error")

\* Mutant of Abandon: a handshake keeps its stream.
AbandonLower(q, n, result) == Complete(q, CloseStream(n, q.stream), result)

\* What cancel() and on_timeout() stop: the resolver and the connect operation
\* give up what they hold, a handshake closes the stream below it.
Abandon(q, n, result) ==
  Complete(q, CloseStream(CloseStream(n, q.lower), q.stream), result)

-------------------------------------------------------------------------------
(***************************************************************************)
(* From a URL to a request on the wire.                                    *)
(***************************************************************************)

\* select_connect_endpoint(): https through a proxy is refused, and so is a
\* proxy that is not an http URL.
SelectConnectEndpoint(target) ==
  IF Proxy = "none" THEN "origin"
  ELSE IF target \in Secure \/ Proxy = "bad" THEN "refused"
  ELSE "proxy"

\* write_buffered_request()
WriteBufferedRequest(q, n) ==
  Pair(StartPhaseTimeout([q EXCEPT !.pending = "write"], "request_body"),
       [n EXCEPT !.owed[q.stream] = Append(@, Tag(q.id, q.hop))])

\* connection_pool_key(): the options are the same for every request of the
\* client, so the proxy's part of a key tells no two keys apart.
ConnectionPoolKey(target) == target

\* resolver::resolve(): host and service are never empty here, so the answer
\* comes from the loop; cancel() would give it at once.
Resolve(q) == [q EXCEPT !.pending = "dns"]

\* start(): a URL that cannot be used completes the request; an idle connection
\* is taken at once; else the name is resolved.
Start(q, n, target) ==
  LET key == ConnectionPoolKey(target)
      at == [q EXCEPT !.origin = key, !.hop = @ + 1,
                      !.left = IF q.completed THEN "hop" ELSE @]
  IN IF target = "bad" THEN Complete(q, n, "error")
     ELSE IF SelectConnectEndpoint(target) = "refused"
     THEN Complete(q, n, "error")
     ELSE IF n.idle[key] # <<>>
     THEN WriteBufferedRequest([at EXCEPT !.stream = Head(n.idle[key])],
                               Take(n, key))
     ELSE Pair(StartPhaseTimeout(Resolve(at), "dns"), n)

\* A fresh connection.
Opened(n) == CHOOSE s \in Streams :
               /\ n.life[s] = "none"
               /\ \A t \in Streams : n.life[t] = "none" => s <= t

CanOpen(n) == \E s \in Streams : n.life[s] = "none"

\* on_resolved(): the connect operation has a deadline of its own.
Resolved(q, n, ok) ==
  IF q.completed THEN Pair([q EXCEPT !.pending = "none"], n)
  ELSE IF ~ok THEN Complete([q EXCEPT !.pending = "none"], n, "error")
  ELSE Pair(StopPhaseTimeout([q EXCEPT !.pending = "connect"]), n)

\* start_tls(): a context that cannot be built loses the connection.
StartTls(q, n, s, built) ==
  IF ~built
  THEN Complete([q EXCEPT !.pending = "none"],
                [n EXCEPT !.life[s] = "destroyed"], "error")
  ELSE Pair(StartPhaseTimeout([q EXCEPT !.pending = "tls", !.lower = s],
                              "tls_handshake"),
            [n EXCEPT !.life[s] = "open"])

\* on_connected()
Connected(q, n, ok, built) ==
  LET s == Opened(n)
  IN IF ~ok THEN Complete([q EXCEPT !.pending = "none"], n, "error")
     ELSE IF q.origin \in Secure THEN StartTls(q, n, s, built)
     ELSE WriteBufferedRequest([q EXCEPT !.stream = s],
                               [n EXCEPT !.life[s] = "open"])

\* on_tls_connected(): a failed handshake has closed its stream, an
\* unexpected protocol closes it here.
TlsConnected(q, n, result) ==
  LET done == [q EXCEPT !.lower = NoStream, !.pending = "none"]
  IN IF result # "http/1.1"
     THEN Complete(done, CloseStream(n, q.lower), "error")
     ELSE WriteBufferedRequest([done EXCEPT !.stream = q.lower], n)

\* Mutant of Written: the wait for the response is not timed.
WrittenUntimed(q, n, ok) ==
  IF q.completed THEN Pair([q EXCEPT !.pending = "none"], n)
  ELSE IF ~ok
  THEN Complete([q EXCEPT !.pending = "none", !.left = "write"], n, "error")
  ELSE Pair(StopPhaseTimeout([q EXCEPT !.pending = "read"]), n)

\* on_written(): a failure completes the request and leaves the stream as it is.
Written(q, n, ok) ==
  IF q.completed THEN Pair([q EXCEPT !.pending = "none"], n)
  ELSE IF ~ok
  THEN Complete([q EXCEPT !.pending = "none", !.left = "write"], n, "error")
  ELSE Pair(StartPhaseTimeout([q EXCEPT !.pending = "read"],
                              "response_header"), n)

-------------------------------------------------------------------------------
(***************************************************************************)
(* The response.                                                           *)
(***************************************************************************)

\* connection_requests_close() and response_has_reusable_framing()
Reusable(shape) == MaxIdle > 0 /\ shape.keep /\ shape.framing # "eof"

\* close_or_release_current() with nothing to do afterwards.
CloseOrRelease(q, n, reusable) ==
  IF reusable THEN Pair([q EXCEPT !.stream = NoStream],
                        Release(n, q.origin, q.stream))
              ELSE Pair(q, CloseStream(n, q.stream))

GiveUpRedirect(q, n, reusable) ==
  LET x == CloseOrRelease(StopPhaseTimeout(q), n, reusable)
  IN Complete(x.q, x.n, "error")

MayFollow(q, location) ==
  q.id \in Replayable /\ q.redirects < MaxRedirects /\ location # "bad"

\* follow_redirect(): the next hop starts at once when the connection went back
\* to the pool, and otherwise when it has closed.
FollowRedirect(q, n, location, reusable) ==
  LET again == StopPhaseTimeout([q EXCEPT !.received = <<>>,
                                          !.headers_complete = FALSE,
                                          !.redirects = @ + 1])
  IN IF ~MayFollow(q, location)
     THEN GiveUpRedirect(q, n, reusable)
     ELSE IF reusable
     THEN Start([again EXCEPT !.stream = NoStream],
                Release(n, q.origin, q.stream), location)
     ELSE Pair([again EXCEPT !.pending = "close", !.next = location],
               CloseStream(n, q.stream))

\* What a response was made of: the answers its units belong to, and whether
\* they are all there.
Answer(units) ==
  [of |-> {units[i].tag : i \in DOMAIN units},
   whole |-> Head(units).shape.framing \in {"length", "chunked"}
               => Len(units) = 2]

\* complete_buffered_response()
CompleteBuffered(q, n, units, reusable) ==
  LET done == [q EXCEPT !.pending = "none", !.answer = Answer(units)]
      x == CloseOrRelease(done, n, reusable)
  IN IF FollowRedirects /\ Head(units).shape.location # "no"
     THEN FollowRedirect([q EXCEPT !.pending = "none"], n,
                         Head(units).shape.location, reusable)
     ELSE Complete(x.q, x.n, "response")

\* parse_response_head(): a head that is over the limit or cannot be parsed.
ParseResponseHead(unit) ==
  IF unit.part # "head" \/ unit.shape.framing = "bad" THEN "malformed"
                                                     ELSE "whole"

\* decode_chunked() of so many units of body: bytes behind it are an error.
DecodeChunked(body) ==
  IF body = 0 THEN "incomplete" ELSE IF body = 1 THEN "whole" ELSE "malformed"

\* Mutant of ContentLength: the body is not waited for.
ContentLengthEarly(body) == "whole"

\* The comparison with content-length: bytes behind the body are dropped.
ContentLength(body) == IF body = 0 THEN "incomplete" ELSE "whole"

\* What the bytes so far are; what is incomplete at the end of the stream is
\* malformed, save a body that only that end delimits.
ParseResponse(bytes, eof) ==
  LET framing == Head(bytes).shape.framing
      body == Len(bytes) - 1
      verdict == IF framing = "none" THEN "whole"
                 ELSE IF framing = "chunked" THEN DecodeChunked(body)
                 ELSE IF framing = "length" THEN ContentLength(body)
                 ELSE IF eof THEN "whole" ELSE "incomplete"
  IN IF ParseResponseHead(Head(bytes)) = "malformed" THEN "malformed"
     ELSE IF verdict = "incomplete" /\ eof THEN "malformed"
     ELSE verdict

\* The units the response is made of.
ResponseUnits(bytes) ==
  LET shape == Head(bytes).shape
  IN IF shape.framing = "none" THEN SubSeq(bytes, 1, 1)
     ELSE IF shape.framing = "length"
     THEN SubSeq(bytes, 1, Min({2, Len(bytes)}))
     ELSE bytes

\* try_complete_buffered_response()
TryComplete(q, n, eof) ==
  LET seen == IF q.headers_complete THEN q
              ELSE StartPhaseTimeout([q EXCEPT !.headers_complete = TRUE],
                                     "response_body")
      verdict == ParseResponse(q.received, eof)
      shape == Head(q.received).shape
  IN IF q.received = <<>> THEN IF eof THEN Fail(q, n) ELSE Pair(q, n)
     ELSE IF verdict = "malformed" THEN Fail(seen, n)
     ELSE IF verdict = "incomplete" THEN Pair(seen, n)
     ELSE CompleteBuffered(seen, n, ResponseUnits(q.received),
                           Reusable(shape))

-------------------------------------------------------------------------------
(***************************************************************************)
(* The actions: calls of the application, then callbacks of the loop.      *)
(***************************************************************************)

Becomes(r, x) ==
  /\ req' = [req EXCEPT ![r] = x.q]
  /\ net' = x.n

\* The URLs a request is made for; "bad" is one that cannot be used.  Bound:
\* what is posted is posted to a plain origin.
Targets(r) ==
  {"bad"} \cup IF r \in Replayable THEN Origins ELSE Origins \ Secure

\* client::fetch()
Fetch(r) ==
  /\ req[r].pending = "new"
  /\ \E target \in Targets(r) :
       Becomes(r, Start([req[r] EXCEPT !.pending = "none"], net, target))
  /\ UNCHANGED peer

\* request_operation::cancel()
Cancel(r) ==
  /\ req[r].pending # "new" /\ ~req[r].completed
  /\ Becomes(r, Abandon(req[r], net, "cancelled"))
  /\ UNCHANGED peer

\* on_timeout(): the timer of an earlier phase has been closed.
OnTimeout(r) ==
  /\ req[r].timer # "none" /\ ~req[r].completed
  /\ Becomes(r, Abandon(req[r], net, "error"))
  /\ UNCHANGED peer

\* client::close_idle_connections()
CloseIdleConnections ==
  /\ net' = CloseAll(net)
  /\ \E o \in Origins : net.idle[o] # <<>>
  /\ UNCHANGED <<req, peer>>

IdleTimeout ==
  /\ \E o \in Origins : \E i \in DOMAIN net.idle[o] :
       net' = Expire(net, o, i)
  /\ UNCHANGED <<req, peer>>

OnResolved(r) ==
  /\ req[r].pending = "dns"
  /\ \E ok \in BOOLEAN : Becomes(r, Resolved(req[r], net, ok))
  /\ UNCHANGED peer

OnConnected(r) ==
  /\ req[r].pending = "connect" /\ ~req[r].completed
  /\ \E ok, built \in BOOLEAN :
       /\ ok => CanOpen(net)
       /\ Becomes(r, Connected(req[r], net, ok, built))
  /\ UNCHANGED peer

OnTlsConnected(r) ==
  /\ req[r].pending = "tls" /\ ~req[r].completed
  /\ \E result \in {"http/1.1", "failed", "h2"} :
       Becomes(r, TlsConnected(req[r], net, result))
  /\ UNCHANGED peer

\* A write of a stream that the request has closed fails.
OnWritten(r) ==
  /\ req[r].pending = "write"
  /\ \E ok \in BOOLEAN :
       /\ ok => net.life[req[r].stream] = "open"
       /\ Becomes(r, Written(req[r], net, ok))
  /\ UNCHANGED peer

Reading(r) ==
  /\ req[r].pending = "read" /\ ~req[r].completed
  /\ net.life[req[r].stream] = "open"

\* on_read() with bytes: as much of what has arrived as one read takes.
OnRead(r) ==
  /\ Reading(r)
  /\ LET s == req[r].stream
         inbox == peer[s].inbox
     IN \E k \in 1 .. Len(inbox) :
          /\ peer' = [peer EXCEPT ![s].inbox = SubSeq(inbox, k + 1, Len(inbox))]
          /\ Becomes(r, TryComplete([req[r] EXCEPT
                 !.received = @ \o SubSeq(inbox, 1, k)], net, FALSE))

OnEof(r) ==
  /\ Reading(r)
  /\ peer[req[r].stream].gone /\ peer[req[r].stream].inbox = <<>>
  /\ Becomes(r, TryComplete(req[r], net, TRUE))
  /\ UNCHANGED peer

OnReadError(r) ==
  /\ Reading(r)
  /\ peer[req[r].stream].gone
  /\ Becomes(r, Fail(req[r], net))
  /\ UNCHANGED peer

\* A stream has closed; the request that waits for it starts its next hop,
\* completed or not.
OnClosed(s) ==
  LET closed == [net EXCEPT !.life[s] = "closed", !.owed[s] = <<>>]
      waiting == {r \in Requests :
                    req[r].pending = "close" /\ req[r].stream = s}
  IN /\ net.life[s] = "closing"
     /\ IF waiting = {}
        THEN net' = closed /\ UNCHANGED req
        ELSE \E r \in waiting :
               Becomes(r, Start([req[r] EXCEPT !.pending = "none"], closed,
                                req[r].next))
     /\ peer' = [peer EXCEPT ![s] = IdlePeer]

-------------------------------------------------------------------------------
(***************************************************************************)
(* External: the servers.  A server answers the requests of a connection   *)
(* in order, may send 1xx heads first, and may go away at any time.        *)
(***************************************************************************)

Answering(s) ==
  net.life[s] = "open" /\ net.owed[s] # <<>> /\ ~peer[s].gone

\* The heads a server may send next.
Heads(s) ==
  IF peer[s].interims < MaxInterim THEN Shapes \cup {InterimShape} ELSE Shapes

SendHead(s) ==
  /\ Answering(s) /\ ~peer[s].busy
  /\ \E shape \in Heads(s) :
       LET unit == Unit(Head(net.owed[s]), "head", shape)
           final == ~HasBody(shape) /\ ~shape.interim
       IN /\ peer' = [peer EXCEPT ![s].inbox = Append(@, unit),
                                  ![s].busy = HasBody(shape),
                                  ![s].gone = final /\ ~shape.keep,
                                  ![s].interims = @ + IF shape.interim
                                                      THEN 1 ELSE 0]
          /\ net' = IF final THEN [net EXCEPT !.owed[s] = Tail(@)] ELSE net
  /\ UNCHANGED req

SendBody(s) ==
  /\ Answering(s) /\ peer[s].busy
  /\ \E keep \in BOOLEAN :
       peer' = [peer EXCEPT ![s].busy = FALSE, ![s].gone = ~keep,
                  ![s].inbox = Append(@, Unit(Head(net.owed[s]), "body",
                                              InterimShape))]
  /\ net' = [net EXCEPT !.owed[s] = Tail(@)]
  /\ UNCHANGED req

PeerCloses(s) ==
  /\ net.life[s] = "open" /\ ~peer[s].gone
  /\ peer' = [peer EXCEPT ![s].gone = TRUE]
  /\ UNCHANGED <<req, net>>

Next ==
  \/ \E r \in Requests :
       \/ Fetch(r) \/ Cancel(r) \/ OnTimeout(r)
       \/ OnResolved(r) \/ OnConnected(r) \/ OnTlsConnected(r)
       \/ OnWritten(r) \/ OnRead(r) \/ OnEof(r) \/ OnReadError(r)
  \/ \E s \in Streams :
       OnClosed(s) \/ SendHead(s) \/ SendBody(s) \/ PeerCloses(s)
  \/ CloseIdleConnections \/ IdleTimeout

\* The loop runs every callback that is due: timers, results of the resolver
\* and of the connect operation (which has a deadline), closed streams.
Fairness ==
  /\ \A r \in Requests : WF_vars(OnTimeout(r)) /\ WF_vars(OnConnected(r))
  /\ \A s \in Streams : WF_vars(OnClosed(s))

Spec == Init /\ [][Next]_vars /\ Fairness

-------------------------------------------------------------------------------
(***************************************************************************)
(* Properties.                                                             *)
(***************************************************************************)

Tags == [request : Requests, hop : Nat]

Units == [tag : Tags, part : {"head", "body"},
          shape : Shapes \cup {InterimShape}]

Request ==
  [id : Requests,
   pending : {"new", "none", "dns", "connect", "tls", "write", "read", "close"},
   timer : Timed \cup {"none"}, origin : Origins \cup {"no"},
   stream : Streams \cup {NoStream}, lower : Streams \cup {NoStream},
   redirects : Nat, hop : Nat, received : Seq(Units),
   headers_complete : BOOLEAN, next : Locations \cup {"no"},
   completed : BOOLEAN, result : {"none", "response", "error", "cancelled"},
   answer : [of : SUBSET Tags, whole : BOOLEAN],
   left : {"no", "write", "hop"}]

Net == [idle : [Origins -> Seq(Streams)], life : [Streams -> Lives],
        owed : [Streams -> Seq(Tags)]]

Peer == [busy : BOOLEAN, inbox : Seq(Units), gone : BOOLEAN, interims : Nat]

\* Every variable has a value of its kind, and no request follows more redirects
\* than it may.
TypeOK ==
  /\ req \in [Requests -> Request]
  /\ net \in Net
  /\ peer \in [Streams -> Peer]
  /\ \A r \in Requests :
       /\ req[r].redirects <= MaxRedirects
       /\ req[r].hop <= req[r].redirects + 1

\* A response given to the application is the whole answer to the request's
\* last hop: its head and its body, and nothing sent for another request.
AnswersMatch ==
  \A r \in Requests :
    req[r].result = "response" =>
      req[r].answer = [of |-> {Tag(r, req[r].hop)}, whole |-> TRUE]

\* The requests that hold stream s and are still to use it.
Holders(s) == {r \in Requests : /\ ~req[r].completed
                                /\ s \in {req[r].stream, req[r].lower}
                                /\ req[r].pending # "close"}

\* Streams a completed request was left holding: its write failed, or it had
\* been cancelled while it waited for an old connection to close.
Left == {req[r].stream : r \in {q \in Requests : req[q].left # "no"}}

\* The state is well typed, and an open connection has one owner, the pool or a
\* request that is not completed, whatever was cancelled, timed out or expired
\* meanwhile; and the pool holds only open connections, no more than it may.
OneOwner ==
  /\ TypeOK
  /\ PoolKept(net)
  /\ \A s \in Streams :
       LET owners == Cardinality(Entries(net, s)) + Cardinality(Holders(s))
       IN net.life[s] = "open" /\ s \notin Left => owners = 1

\* A connection is idle only after the response before it is fully consumed
\* (docs/proposals/http-client.md): the server owes it nothing, and no byte of
\* an earlier answer is left for the next request to read.
PoolQuiet ==
  \A o \in Origins : \A i \in DOMAIN net.idle[o] :
    LET s == net.idle[o][i]
    IN net.owed[s] = <<>> /\ peer[s].inbox = <<>>

\* With a timeout for every phase a request that was started is completed,
\* whatever the resolver and the servers do.  (A request is started once and
\* stays completed, so one that never completes would stay open for ever.)
RequestsComplete ==
  LET open == \E r \in Requests : req[r].pending # "new" /\ ~req[r].completed
  IN open ~> ~open

===============================================================================
