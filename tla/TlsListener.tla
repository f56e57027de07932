------------------------------ MODULE TlsListener ------------------------------
(***************************************************************************)
(* The TLS listener: class tls_listener_model of src/tls/listener.cpp.     *)
(* It starts a server handshake on every connection its lower listener     *)
(* accepts, under a limit and a timer, and passes on what is established.  *)
(*                                                                         *)
(* A handshake is the handshake_operation of module TlsStream seen from    *)
(* outside: while active it ends once, in success or in failure, cancel()  *)
(* makes it fail at once, and its failure closes the connection.           *)
(***************************************************************************)
EXTENDS Naturals, FiniteSets

CONSTANTS
  Conns,       \* connections that may reach the lower listener
  MaxPending   \* listener_options::max_pending_handshakes

ASSUME ListenerAssumption == IsFiniteSet(Conns) /\ MaxPending \in Nat

VARIABLES
  timed,       \* handshake_timeout is greater than zero
  closing_,
  pending_,    \* connections with an entry in pending_
  conn,        \* owner of each connection's stream
  timer,       \* life of each entry's timer
  reports      \* history: accept_results passed to on_accept_ per connection

vars == <<timed, closing_, pending_, conn, timer, reports>>

TypeOK ==
  /\ timed \in BOOLEAN
  /\ closing_ \in BOOLEAN
  /\ pending_ \in SUBSET Conns
  /\ conn \in [Conns -> {"none", "handshake", "application", "closed"}]
  /\ timer \in [Conns -> {"none", "running", "closed"}]
  /\ reports \in [Conns -> Nat]

Init ==
  /\ timed \in BOOLEAN
  /\ closing_ = FALSE
  /\ pending_ = {}
  /\ conn = [c \in Conns |-> "none"]
  /\ timer = [c \in Conns |-> "none"]
  /\ reports = [c \in Conns |-> 0]

-------------------------------------------------------------------------------

CloseTimer(c) ==
  timer' = [timer EXCEPT ![c] = IF @ = "running" THEN "closed" ELSE @]

\* on_accept_, unless the listener is closing.
Report(c) ==
  reports' = IF closing_ THEN reports ELSE [reports EXCEPT ![c] = @ + 1]

\* finish_handshake(): the entry and its timer go before the report.
FinishHandshake(c) ==
  /\ CloseTimer(c)
  /\ pending_' = pending_ \ {c}
  /\ Report(c)

\* Mutant of AtLimit: one handshake too many.
AtLimitLate == Cardinality(pending_) > MaxPending

AtLimit == Cardinality(pending_) >= MaxPending

\* The accept callback below the limit: entry, timer, then the handshake.
Accept(c) ==
  /\ conn[c] = "none"
  /\ ~closing_
  /\ ~AtLimit
  /\ pending_' = pending_ \cup {c}
  /\ timer' = [timer EXCEPT ![c] = IF timed THEN "running" ELSE "none"]
  /\ conn' = [conn EXCEPT ![c] = "handshake"]
  /\ UNCHANGED <<timed, closing_, reports>>

\* Mutant of AcceptOverLimit: the application is not told.
AcceptOverLimitSilently(c) ==
  /\ conn[c] = "none"
  /\ ~closing_
  /\ AtLimit
  /\ conn' = [conn EXCEPT ![c] = "closed"]
  /\ UNCHANGED <<timed, closing_, pending_, timer, reports>>

\* At the limit the stream is closed and the application told.
AcceptOverLimit(c) ==
  /\ conn[c] = "none"
  /\ ~closing_
  /\ AtLimit
  /\ conn' = [conn EXCEPT ![c] = "closed"]
  /\ Report(c)
  /\ UNCHANGED <<timed, closing_, pending_, timer>>

HandshakeSucceeds(c) ==
  /\ conn[c] = "handshake"
  /\ conn' = [conn EXCEPT ![c] = "application"]
  /\ FinishHandshake(c)
  /\ UNCHANGED <<timed, closing_>>

HandshakeFails(c) ==
  /\ conn[c] = "handshake"
  /\ conn' = [conn EXCEPT ![c] = "closed"]
  /\ FinishHandshake(c)
  /\ UNCHANGED <<timed, closing_>>

\* Mutant of HandshakeTimeout: the handshake is not cancelled.
TimeoutForgets(c) ==
  /\ timer[c] = "running"
  /\ CloseTimer(c)
  /\ UNCHANGED <<timed, closing_, pending_, conn, reports>>

\* The timer closes itself and cancels the handshake, which fails.
HandshakeTimeout(c) ==
  /\ timer[c] = "running"
  /\ conn' = [conn EXCEPT ![c] = IF @ = "handshake" THEN "closed" ELSE @]
  /\ IF conn[c] = "handshake"
       THEN FinishHandshake(c)
       ELSE CloseTimer(c) /\ UNCHANGED <<pending_, reports>>
  /\ UNCHANGED <<timed, closing_>>

\* close(): every pending handshake is cancelled; its report is suppressed.
Close ==
  /\ ~closing_
  /\ closing_' = TRUE
  /\ pending_' = {}
  /\ timer' = [c \in Conns |-> IF c \in pending_ /\ timer[c] = "running"
                                 THEN "closed" ELSE timer[c]]
  /\ conn' = [c \in Conns |-> IF c \in pending_ THEN "closed" ELSE conn[c]]
  /\ UNCHANGED <<timed, reports>>

Next ==
  \/ Close
  \/ \E c \in Conns :
       \/ Accept(c) \/ AcceptOverLimit(c) \/ HandshakeTimeout(c)
       \/ HandshakeSucceeds(c) \/ HandshakeFails(c)

\* A running timer fires.
Fairness == \A c \in Conns : WF_vars(HandshakeTimeout(c))

Spec == Init /\ [][Next]_vars /\ Fairness

-------------------------------------------------------------------------------

\* The entries are exactly the handshakes in progress, and never more than
\* max_pending_handshakes: close() and every way a handshake ends remove theirs.
PendingBounded ==
  /\ pending_ = {c \in Conns : conn[c] = "handshake"}
  /\ Cardinality(pending_) <= MaxPending

\* A timer runs only for a handshake in progress, so that none can cancel a
\* connection that the application already owns or outlive the listener.
TimersPending == \A c \in Conns : timer[c] = "running" => c \in pending_

\* The entries and their timers are those of the handshakes in progress, within
\* the limit.
EntriesExact == PendingBounded /\ TimersPending

\* Every connection is reported at most once, and the application has been told
\* of every connection it owns; an unreported one was cut off by close().
ReportedOnce ==
  \A c \in Conns :
    /\ reports[c] <= 1
    /\ conn[c] = "application" => reports[c] = 1
    /\ conn[c] = "closed" /\ ~closing_ => reports[c] = 1

\* With a timeout no handshake stays pending for ever, however the peer stalls.
TimedHandshakesEnd ==
  \A c \in Conns : (timed /\ c \in pending_) ~> c \notin pending_

===============================================================================
