--------------------------- MODULE TlsListenerProofs ---------------------------
(***************************************************************************)
(* The safety properties of module TlsListener for every limit and any     *)
(* finite number of connections.                                           *)
(***************************************************************************)
EXTENDS TlsListener, FiniteSetTheorems, TLAPS

\* A connection whose handshake has not ended has not been reported yet.
UnreportedBefore ==
  \A c \in Conns : conn[c] \in {"none", "handshake"} => reports[c] = 0

\* close() leaves no handshake behind, and none starts after it.
NoneAfterClose == closing_ => pending_ = {}

IInv ==
  /\ TypeOK
  /\ PendingBounded
  /\ TimersPending
  /\ ReportedOnce
  /\ UnreportedBefore
  /\ NoneAfterClose

-------------------------------------------------------------------------------
\* Sets of connections are finite, so entries can be counted.
LEMMA CountsAreNatural ==
  ASSUME NEW S \in SUBSET Conns
  PROVE  IsFiniteSet(S) /\ Cardinality(S) \in Nat
  BY ListenerAssumption, FS_Subset, FS_CardinalityType

\* A new entry adds one to pending_.size().
LEMMA EntryCounts ==
  ASSUME NEW S \in SUBSET Conns, NEW c \in Conns, c \notin S
  PROVE  Cardinality(S \cup {c}) = Cardinality(S) + 1
  BY CountsAreNatural, FS_AddElement

\* Erasing an entry does not add to it.
LEMMA RemovalCounts ==
  ASSUME NEW S \in SUBSET Conns, NEW c \in Conns
  PROVE  Cardinality(S \ {c}) <= Cardinality(S)
  BY CountsAreNatural, FS_Subset

\* Ending a handshake, with or without success, preserves the invariant: the
\* entry, the timer and the stream change hands together.
LEMMA FinishPreserves ==
  ASSUME IInv, NEW c \in Conns, conn[c] = "handshake",
         NEW end \in {"application", "closed"},
         conn' = [conn EXCEPT ![c] = end], FinishHandshake(c),
         UNCHANGED <<timed, closing_>>
  PROVE  IInv'
  <1> USE DEF IInv, TypeOK
  <1>1. c \in pending_ /\ ~closing_
    BY DEF PendingBounded, NoneAfterClose
  <1>2. /\ reports' = [reports EXCEPT ![c] = reports[c] + 1]
        /\ pending_' = pending_ \ {c}
        /\ timer' = [timer EXCEPT ![c] = IF timer[c] = "running"
                                           THEN "closed" ELSE timer[c]]
    BY <1>1 DEF FinishHandshake, Report, CloseTimer
  <1>3. TypeOK'
    BY <1>2
  <1>4. PendingBounded'
    <2>1. pending_' = {d \in Conns : conn'[d] = "handshake"}
      BY <1>2 DEF PendingBounded
    <2>2. Cardinality(pending_') <= Cardinality(pending_)
      BY <1>2, RemovalCounts
    <2>3. QED
      BY <1>3, <2>1, <2>2, CountsAreNatural, ListenerAssumption
         DEF PendingBounded
  <1>5. TimersPending'
    BY <1>2 DEF TimersPending
  <1>6. ReportedOnce' /\ UnreportedBefore'
    BY <1>1, <1>2 DEF ReportedOnce, UnreportedBefore
  <1>7. NoneAfterClose'
    BY <1>1 DEF NoneAfterClose
  <1>8. QED
    BY <1>3, <1>4, <1>5, <1>6, <1>7

-------------------------------------------------------------------------------
\* A new listener satisfies the inductive invariant.
LEMMA InitEstablishes == Init => IInv
  <1> SUFFICES ASSUME Init PROVE IInv
    OBVIOUS
  <1>1. TypeOK
    BY DEF Init, TypeOK
  <1>2. PendingBounded
    BY ListenerAssumption, FS_EmptySet DEF Init, PendingBounded
  <1>3. TimersPending /\ ReportedOnce /\ UnreportedBefore /\ NoneAfterClose
    BY DEF Init, TimersPending, ReportedOnce, UnreportedBefore, NoneAfterClose
  <1>4. QED
    BY <1>1, <1>2, <1>3 DEF IInv

\* Every callback and call of the listener preserves it.
LEMMA StepPreserves == IInv /\ [Next]_vars => IInv'
  <1> SUFFICES ASSUME IInv, [Next]_vars PROVE IInv'
    OBVIOUS
  <1> USE DEF IInv, TypeOK
  <1>1. CASE Close
    <2>1. TypeOK'
      BY <1>1 DEF Close
    <2>2. PendingBounded'
      BY <1>1, ListenerAssumption, FS_EmptySet DEF Close, PendingBounded
    <2>3. TimersPending'
      BY <1>1 DEF Close, TimersPending
    <2>4. ReportedOnce' /\ UnreportedBefore'
      BY <1>1 DEF Close, ReportedOnce, UnreportedBefore, PendingBounded
    <2>5. NoneAfterClose'
      BY <1>1 DEF Close, NoneAfterClose
    <2>6. QED
      BY <2>1, <2>2, <2>3, <2>4, <2>5
  <1>2. ASSUME NEW c \in Conns, Accept(c) PROVE IInv'
    <2>1. TypeOK'
      BY <1>2 DEF Accept
    <2>2. PendingBounded'
      <3>1. pending_' = {d \in Conns : conn'[d] = "handshake"}
        BY <1>2 DEF Accept, PendingBounded
      <3>2. c \notin pending_ /\ pending_' = pending_ \cup {c}
        BY <1>2 DEF Accept, PendingBounded
      <3>3. Cardinality(pending_') = Cardinality(pending_) + 1
        BY <3>2, EntryCounts
      <3>4. Cardinality(pending_) < MaxPending
        BY <1>2, CountsAreNatural, ListenerAssumption DEF Accept, AtLimit
      <3>5. QED
        BY <3>1, <3>3, <3>4, CountsAreNatural, ListenerAssumption
           DEF PendingBounded
    <2>3. TimersPending'
      BY <1>2 DEF Accept, TimersPending
    <2>4. ReportedOnce' /\ UnreportedBefore'
      BY <1>2 DEF Accept, ReportedOnce, UnreportedBefore
    <2>5. NoneAfterClose'
      BY <1>2 DEF Accept, NoneAfterClose
    <2>6. QED
      BY <2>1, <2>2, <2>3, <2>4, <2>5
  <1>3. ASSUME NEW c \in Conns, AcceptOverLimit(c) PROVE IInv'
    <2>1. TypeOK'
      BY <1>3 DEF AcceptOverLimit, Report
    <2>2. PendingBounded' /\ TimersPending' /\ NoneAfterClose'
      BY <1>3 DEF AcceptOverLimit, PendingBounded, TimersPending,
         NoneAfterClose
    <2>3. ReportedOnce' /\ UnreportedBefore'
      BY <1>3 DEF AcceptOverLimit, Report, ReportedOnce, UnreportedBefore
    <2>4. QED
      BY <2>1, <2>2, <2>3
  <1>4. ASSUME NEW c \in Conns, HandshakeSucceeds(c) PROVE IInv'
    BY <1>4, FinishPreserves DEF HandshakeSucceeds
  <1>5. ASSUME NEW c \in Conns, HandshakeFails(c) PROVE IInv'
    BY <1>5, FinishPreserves DEF HandshakeFails
  <1>6. ASSUME NEW c \in Conns, HandshakeTimeout(c) PROVE IInv'
    <2>1. conn[c] = "handshake"
      BY <1>6 DEF HandshakeTimeout, TimersPending, PendingBounded
    <2>2. conn' = [conn EXCEPT ![c] = "closed"] /\ FinishHandshake(c)
      BY <1>6, <2>1 DEF HandshakeTimeout
    <2>3. QED
      BY <1>6, <2>1, <2>2, FinishPreserves DEF HandshakeTimeout
  <1>7. CASE UNCHANGED vars
    BY <1>7 DEF vars, PendingBounded, TimersPending, ReportedOnce,
       UnreportedBefore, NoneAfterClose
  <1>8. QED
    BY <1>1, <1>2, <1>3, <1>4, <1>5, <1>6, <1>7 DEF Next

\* The inductive invariant holds for the life of the listener.
LEMMA Invariance == Spec => []IInv
  BY InitEstablishes, StepPreserves, PTL DEF Spec

\* Every variable of the listener keeps its type.
THEOREM TypeCorrect == Spec => []TypeOK
  <1>1. IInv => TypeOK
    BY DEF IInv
  <1>2. QED
    BY Invariance, <1>1, PTL

\* pending_ holds exactly the handshakes in progress and never more than
\* max_pending_handshakes of them, for every limit.
THEOREM LimitHolds == Spec => []PendingBounded
  <1>1. IInv => PendingBounded
    BY DEF IInv
  <1>2. QED
    BY Invariance, <1>1, PTL

\* No handshake timer outlives its entry in pending_.
THEOREM TimersEndWithEntries == Spec => []TimersPending
  <1>1. IInv => TimersPending
    BY DEF IInv
  <1>2. QED
    BY Invariance, <1>1, PTL

\* Entries, timers and handshakes agree, within every limit, until the listener
\* is closed and after.
THEOREM EntriesStayExact == Spec => []EntriesExact
  <1>1. QED
    BY LimitHolds, TimersEndWithEntries, PTL DEF EntriesExact

\* on_accept_ hears of each accepted connection once, and of none twice.
THEOREM ConnectionsReportedOnce == Spec => []ReportedOnce
  <1>1. IInv => ReportedOnce
    BY DEF IInv
  <1>2. QED
    BY Invariance, <1>1, PTL

===============================================================================
