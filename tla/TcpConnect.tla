------------------------------ MODULE TcpConnect ------------------------------
(***************************************************************************)
(* One outbound TCP connect operation of uvp::io (class tcp_connect_state  *)
(* of src/io/transport.cpp): candidates are tried one after the other, a   *)
(* whole-operation timer may fire and the application may cancel.          *)
(*                                                                         *)
(* libuv is modelled by what the code relies on: a connect request ends in *)
(* exactly one callback, which for a handle that was closed meanwhile      *)
(* reports ECANCELED and comes before the handle's close callback.         *)
(***************************************************************************)
EXTENDS Naturals, FiniteSets

CONSTANT MaxCandidates  \* the longest address list; candidate i uses handle i

ASSUME MaxCandidatesAssumption == MaxCandidates \in Nat

VARIABLES
  started,     \* tcp_connector::connect has run start()
  hasCallback, \* callback_ was not empty
  size,        \* candidates_.size()
  timed,       \* connect_options::timeout is greater than zero
  next_,       \* candidates handed to uv_tcp_connect so far
  tcp_,        \* the handle being connected, 0 when tcp_ is null
  handle,      \* life of the uv::tcp created for each candidate
  request,     \* handles whose connect request has not called back yet
  thenNext,    \* handles whose close callback goes on with connect_next
  timer,       \* life of timeout_timer_
  cancelled_, completed_,
  result,      \* what complete() passed on, "none" before it ran
  calls        \* times the application's callback was invoked

options == <<hasCallback, size, timed>>  \* given to tcp_connector::connect

vars == <<started, options, next_, tcp_, handle, request, thenNext, timer,
          cancelled_, completed_, result, calls>>

Handles == 1 .. MaxCandidates

HandleStates == {"unused", "connecting", "closing", "closed", "delivered"}

Errors == {"no_addresses", "cancelled", "connect_failed", "timeout"}

TypeOK ==
  /\ started \in BOOLEAN
  /\ hasCallback \in BOOLEAN
  /\ timed \in BOOLEAN
  /\ cancelled_ \in BOOLEAN
  /\ completed_ \in BOOLEAN
  /\ size \in 0 .. MaxCandidates
  /\ next_ \in 0 .. MaxCandidates
  /\ tcp_ \in 0 .. MaxCandidates
  /\ handle \in [Handles -> HandleStates]
  /\ request \subseteq Handles
  /\ thenNext \subseteq Handles
  /\ timer \in {"none", "running", "closed"}
  /\ result \in {"none", "connected"} \cup Errors
  /\ calls \in Nat

Init ==
  /\ started = FALSE
  /\ hasCallback \in BOOLEAN
  /\ size \in 0 .. MaxCandidates
  /\ timed \in BOOLEAN
  /\ next_ = 0
  /\ tcp_ = 0
  /\ handle = [h \in Handles |-> "unused"]
  /\ request = {}
  /\ thenNext = {}
  /\ timer = "none"
  /\ cancelled_ = FALSE
  /\ completed_ = FALSE
  /\ result = "none"
  /\ calls = 0

-------------------------------------------------------------------------------
(***************************************************************************)
(* Helpers of the class.                                                   *)
(***************************************************************************)

\* Mutant of Complete: completed_ is not latched.
CompleteUnlatched(res) ==
  /\ timer' = IF timer = "running" THEN "closed" ELSE timer
  /\ result' = res
  /\ calls' = IF hasCallback THEN calls + 1 ELSE calls
  /\ UNCHANGED completed_

\* complete(): only the first call counts; it closes the timer and moves the
\* callback out before invoking it.
Complete(res) ==
  IF completed_
  THEN UNCHANGED <<timer, completed_, result, calls>>
  ELSE /\ completed_' = TRUE
       /\ timer' = IF timer = "running" THEN "closed" ELSE timer
       /\ result' = res
       /\ calls' = IF hasCallback THEN calls + 1 ELSE calls

\* close_current(): the open handle, if any, moves to closing_.
CloseCurrent ==
  /\ tcp_' = 0
  /\ handle' = IF tcp_ = 0 THEN handle ELSE [handle EXCEPT ![tcp_] = "closing"]

\* The connect call of connect_next() on a new handle: its request is pending,
\* or uv_tcp_connect throws and close_current_then_next() closes the handle, to
\* go on from its close callback.
ConnectPends(h, hs, tn) ==
  /\ tcp_' = h
  /\ handle' = [hs EXCEPT ![h] = "connecting"]
  /\ request' = request \cup {h}
  /\ thenNext' = tn

\* Mutant of ConnectThrows: close_current() without the continuation.
ConnectThrowsStops(h, hs, tn) ==
  /\ handle' = [hs EXCEPT ![h] = "closing"]
  /\ thenNext' = tn
  /\ UNCHANGED <<tcp_, request>>

ConnectThrows(h, hs, tn) ==
  /\ handle' = [hs EXCEPT ![h] = "closing"]
  /\ thenNext' = tn \cup {h}
  /\ UNCHANGED <<tcp_, request>>

\* Mutants of Exhausted: one candidate too many, one too few.
ExhaustedLate == next_ > size

ExhaustedEarly == next_ + 1 >= size

\* No candidate is left to try.
Exhausted == next_ >= size

\* Mutant of ConnectNext: completed_ is not tested.
ConnectNextUnguarded(hs, tn, tm) ==
  IF Exhausted
  THEN /\ handle' = hs
       /\ thenNext' = tn
       /\ Complete("connect_failed")
       /\ UNCHANGED <<next_, tcp_, request>>
  ELSE /\ next_' = next_ + 1
       /\ ConnectPends(next_ + 1, hs, tn) \/ ConnectThrows(next_ + 1, hs, tn)
       /\ timer' = tm
       /\ UNCHANGED <<completed_, result, calls>>

\* connect_next(), with the handles, continuations and timer it starts from:
\* nothing once completed_, failure after the last candidate, else a new handle.
ConnectNext(hs, tn, tm) ==
  \/ /\ completed_
     /\ handle' = hs
     /\ thenNext' = tn
     /\ UNCHANGED <<next_, tcp_, request, timer, completed_, result, calls>>
  \/ /\ ~completed_ /\ Exhausted
     /\ handle' = hs
     /\ thenNext' = tn
     /\ Complete("connect_failed")
     /\ UNCHANGED <<next_, tcp_, request>>
  \/ /\ ~completed_ /\ ~Exhausted
     /\ next_' = next_ + 1
     /\ ConnectPends(next_ + 1, hs, tn) \/ ConnectThrows(next_ + 1, hs, tn)
     /\ timer' = tm
     /\ UNCHANGED <<completed_, result, calls>>

-------------------------------------------------------------------------------
(***************************************************************************)
(* Calls by the application.                                               *)
(***************************************************************************)

\* start() refuses a missing callback, then an empty candidate list.
StartRefused ==
  /\ ~started
  /\ ~hasCallback \/ size = 0
  /\ started' = TRUE
  /\ Complete(IF hasCallback THEN "no_addresses" ELSE "connect_failed")
  /\ UNCHANGED <<options, next_, tcp_, handle, request, thenNext,
                 cancelled_>>

\* start_timeout(), then the first connect_next().
StartConnecting ==
  /\ ~started
  /\ hasCallback /\ size > 0
  /\ started' = TRUE
  /\ ConnectNext(handle, thenNext, IF timed THEN "running" ELSE "none")
  /\ UNCHANGED <<options, cancelled_>>

\* Mutant of Cancel: close_current() is forgotten.
CancelLeavesHandle ==
  /\ started
  /\ ~completed_
  /\ cancelled_' = TRUE
  /\ Complete("cancelled")
  /\ UNCHANGED <<started, options, next_, tcp_, handle, request, thenNext>>

\* connect_operation::cancel(); the operation exists once start() returned.
Cancel ==
  /\ started
  /\ ~completed_
  /\ cancelled_' = TRUE
  /\ CloseCurrent
  /\ Complete("cancelled")
  /\ UNCHANGED <<started, options, next_, request, thenNext>>

-------------------------------------------------------------------------------
(***************************************************************************)
(* Callbacks of the event loop.                                            *)
(***************************************************************************)

\* on_timeout(), from the running timer.
Timeout ==
  /\ timer = "running"
  /\ ~completed_
  /\ cancelled_' = TRUE
  /\ CloseCurrent
  /\ Complete("timeout")
  /\ UNCHANGED <<started, options, next_, request, thenNext>>

\* on_connected() with a good result: the handle becomes the byte_stream.
Connected(h) ==
  /\ h \in request
  /\ handle[h] = "connecting"
  /\ request' = request \ {h}
  /\ ~completed_
  /\ tcp_' = 0
  /\ handle' = [handle EXCEPT ![h] = "delivered"]
  /\ Complete("connected")
  /\ UNCHANGED <<started, options, next_, thenNext, cancelled_>>

\* on_connected() with an error: close_current_then_next().
ConnectFailed(h) ==
  /\ h \in request
  /\ handle[h] = "connecting"
  /\ request' = request \ {h}
  /\ ~completed_
  /\ tcp_' = 0
  /\ handle' = [handle EXCEPT ![h] = "closing"]
  /\ thenNext' = thenNext \cup {h}
  /\ UNCHANGED <<started, options, next_, timer, cancelled_,
                 completed_, result, calls>>

\* The request of a handle closed meanwhile: on_connected() returns at once.
ConnectAborted(h) ==
  /\ h \in request
  /\ handle[h] = "closing"
  /\ completed_
  /\ request' = request \ {h}
  /\ UNCHANGED <<started, options, next_, tcp_, handle, thenNext,
                 timer, cancelled_, completed_, result, calls>>

\* The close callback of a handle close_current() closed: erase_closing().
Closed(h) ==
  /\ handle[h] = "closing"
  /\ h \notin request
  /\ h \notin thenNext
  /\ handle' = [handle EXCEPT ![h] = "closed"]
  /\ UNCHANGED <<started, options, next_, tcp_, request, thenNext,
                 timer, cancelled_, completed_, result, calls>>

\* The close callback of a handle close_current_then_next() closed:
\* erase_closing(), then connect_next().
ClosedThenNext(h) ==
  /\ handle[h] = "closing"
  /\ h \notin request
  /\ h \in thenNext
  /\ ConnectNext([handle EXCEPT ![h] = "closed"], thenNext \ {h}, timer)
  /\ UNCHANGED <<started, options, cancelled_>>

Loop ==
  \/ Timeout
  \/ \E h \in Handles : \/ Connected(h)
                        \/ ConnectFailed(h)
                        \/ ConnectAborted(h)
                        \/ Closed(h)
                        \/ ClosedThenNext(h)

Next == StartRefused \/ StartConnecting \/ Cancel \/ Loop

\* The loop runs every ready callback; the application starts the operation but
\* need not cancel it, and a connect attempt ends one way or the other.
Fairness ==
  /\ WF_vars(StartRefused \/ StartConnecting)
  /\ \A h \in Handles :
       WF_vars(Connected(h) \/ ConnectFailed(h) \/ ConnectAborted(h)
                 \/ Closed(h) \/ ClosedThenNext(h))

Spec == Init /\ [][Next]_vars /\ Fairness

-------------------------------------------------------------------------------
(***************************************************************************)
(* Properties.                                                             *)
(***************************************************************************)

Open(h) == handle[h] \in {"connecting", "closing"}

\* The callback runs exactly once per operation that has one, whichever of
\* success, last failure, cancel and timeout comes first, and it runs with the
\* completion and not before it.
CallbackOnce ==
  calls = (IF completed_ /\ hasCallback THEN 1 ELSE 0)

\* tcp_connect_state reuses connect_request_ and tcp_ for every candidate, so a
\* second handle may not be created while an earlier one is still connecting or
\* closing.
OneHandleAtATime ==
  \A g, h \in Handles : Open(g) /\ Open(h) => g = h

\* Once the operation is over it owns nothing that keeps the loop alive: no
\* handle is left connecting, and the timer is closed.
NothingLeftOpen ==
  completed_ => /\ tcp_ = 0
                /\ \A h \in Handles : handle[h] # "connecting"
                /\ timer # "running"

\* The application owns a stream exactly when it was told so, it is the last
\* candidate tried, and every earlier candidate has been given up and closed.
DeliveredIsLast ==
  /\ (result = "connected") <=> \E h \in Handles : handle[h] = "delivered"
  /\ \A h \in Handles : handle[h] = "delivered" =>
       /\ h = next_
       /\ \A g \in 1 .. (h - 1) : handle[g] = "closed"

\* The handles take their turns: one at a time, none left behind, the last one
\* delivered.
HandlesInTurn == OneHandleAtATime /\ NothingLeftOpen /\ DeliveredIsLast

\* A verdict of "connect_failed" for an operation that had a callback means that
\* every candidate was tried and has been closed.
FailedMeansExhausted ==
  result = "connect_failed" /\ hasCallback =>
    /\ next_ = size
    /\ \A h \in 1 .. size : handle[h] = "closed"

\* No candidate is tried after a cancel, a timeout or a success, even when the
\* close callback that would go on to it is still to come.
NoAttemptAfterCompletion == [][completed_ => UNCHANGED next_]_vars

\* Every operation completes, and every handle it opened ends up closed or with
\* the application.
Completes ==
  <>[](completed_ /\ \A h \in Handles : ~Open(h))

===============================================================================
