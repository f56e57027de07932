--------------------------- MODULE TcpConnectProofs ---------------------------
(***************************************************************************)
(* The safety properties of module TcpConnect for every address list, and  *)
(* that its steps are steps of the abstract ConnectOperation.              *)
(***************************************************************************)
EXTENDS TcpConnectRefines, FiniteSetTheorems, TLAPS

\* Candidates are used in turn: those before next_ are over and closed, those
\* after it untouched, so only candidate next_ can be alive.
InTurn ==
  /\ next_ <= size
  /\ \A h \in Handles : h < next_ => handle[h] = "closed"
  /\ \A h \in Handles : h > next_ => handle[h] = "unused"
  /\ next_ # 0 => handle[next_] # "unused"

\* What tcp_, the pending request and the pending continuation say of it.
Owned ==
  /\ \A h \in Handles : handle[h] = "connecting" <=> tcp_ = h
  /\ \A h \in request : handle[h] \in {"connecting", "closing"}
  /\ \A h \in thenNext : handle[h] = "closing" /\ h \notin request
  /\ tcp_ # 0 => tcp_ \in request

\* Before its completion an operation has made no report, and the candidate in
\* use is connecting or will go on from its close callback.
Pending ==
  ~completed_ => /\ result = "none"
                 /\ timer = (IF started /\ timed THEN "running" ELSE "none")
                 /\ next_ # 0 => \/ handle[next_] = "connecting"
                                 \/ next_ \in thenNext
                 /\ started <=> next_ # 0

Unstarted == ~started => ~completed_

Settled ==
  completed_ => /\ result # "none"
                /\ tcp_ = 0
                /\ timer # "running"

IInv ==
  /\ TypeOK
  /\ InTurn
  /\ Owned
  /\ Pending
  /\ Unstarted
  /\ Settled
  /\ CallbackOnce
  /\ DeliveredIsLast
  /\ FailedMeansExhausted

-------------------------------------------------------------------------------

\* TypeOK in two parts, for the provers' sake: the Boolean variables, which SMT
\* handles poorly beside the others, and the rest.
FlagsTyped ==
  /\ started \in BOOLEAN
  /\ hasCallback \in BOOLEAN
  /\ timed \in BOOLEAN
  /\ cancelled_ \in BOOLEAN
  /\ completed_ \in BOOLEAN

DataTyped ==
  /\ size \in 0 .. MaxCandidates
  /\ next_ \in 0 .. MaxCandidates
  /\ tcp_ \in 0 .. MaxCandidates
  /\ handle \in [Handles -> HandleStates]
  /\ request \subseteq Handles
  /\ thenNext \subseteq Handles
  /\ timer \in {"none", "running", "closed"}
  /\ result \in {"none", "connected"} \cup Errors
  /\ calls \in Nat

\* The two parts make up the type invariant, before and after a step.
LEMMA TypesSplit ==
  /\ TypeOK <=> FlagsTyped /\ DataTyped
  /\ TypeOK' <=> FlagsTyped' /\ DataTyped'
  BY DEF TypeOK, FlagsTyped, DataTyped

\* Every initial state of an operation satisfies the inductive invariant.
LEMMA InitEstablishes == Init => IInv
  <1> SUFFICES ASSUME Init PROVE IInv
    OBVIOUS
  <1> USE MaxCandidatesAssumption DEF Init, Handles
  <1>1. FlagsTyped /\ DataTyped
    <2>1. FlagsTyped
      BY DEF FlagsTyped
    <2>2. DataTyped
      BY DEF DataTyped, HandleStates
    <2>3. QED
      BY <2>1, <2>2
  <1>2. InTurn /\ Owned
    BY DEF InTurn, Owned
  <1>3. Pending /\ Unstarted /\ Settled
    BY DEF Pending, Unstarted, Settled
  <1>4. CallbackOnce /\ DeliveredIsLast /\ FailedMeansExhausted
    BY DEF CallbackOnce, DeliveredIsLast, FailedMeansExhausted
  <1>5. QED
    BY <1>1, <1>2, <1>3, <1>4, TypesSplit DEF IInv

\* Every call and every callback preserves the inductive invariant.
LEMMA StepPreserves == IInv /\ [Next]_vars => IInv'
  <1> SUFFICES ASSUME IInv, [Next]_vars PROVE IInv'
    OBVIOUS
  <1> USE MaxCandidatesAssumption DEF IInv, Handles, Exhausted
  <1>1. CASE StartRefused
    <2>1. FlagsTyped'
      BY <1>1 DEF StartRefused, Complete, options, TypeOK, FlagsTyped
    <2>2. DataTyped'
      BY <1>1 DEF StartRefused, Complete, options, TypeOK, InTurn, DataTyped,
         HandleStates, Errors
    <2>3. InTurn'
      BY <1>1 DEF StartRefused, Complete, options, TypeOK, InTurn, Owned,
         Pending, HandleStates
    <2>4. Owned'
      BY <1>1 DEF StartRefused, Complete, options, TypeOK, InTurn, Owned,
         Pending, Settled, HandleStates
    <2>5. Pending' /\ Unstarted' /\ Settled'
      BY <1>1 DEF StartRefused, Complete, options, TypeOK, InTurn, Owned,
         Pending, Unstarted, Settled, HandleStates
    <2>6. CallbackOnce' /\ DeliveredIsLast' /\ FailedMeansExhausted'
      BY <1>1 DEF StartRefused, Complete, options, TypeOK, InTurn, Owned,
         Pending, Unstarted, Settled, CallbackOnce, DeliveredIsLast,
         FailedMeansExhausted
    <2>7. QED
      BY <2>1, <2>2, <2>3, <2>4, <2>5, <2>6, TypesSplit
  <1>2. CASE StartConnecting
    <2>0. /\ next_ = 0 /\ 0 < size /\ next_' = 1 /\ 1 \in Handles
          /\ started' /\ ~completed_
          /\ UNCHANGED <<completed_, result, calls, cancelled_>>
          /\ UNCHANGED <<size, timed, hasCallback>>
          /\ timer' = IF timed THEN "running" ELSE "none"
      BY <1>2 DEF StartConnecting, ConnectNext, Unstarted, Pending, options,
         TypeOK
    <2>1. CASE ConnectPends(1, handle, thenNext)
      <3>1. FlagsTyped'
        BY <1>2, <2>0, <2>1 DEF ConnectPends, TypeOK, FlagsTyped
      <3>2. DataTyped'
        BY <1>2, <2>0, <2>1 DEF ConnectPends, TypeOK, InTurn, DataTyped,
           HandleStates, Errors
      <3>3. InTurn'
        BY <1>2, <2>0, <2>1 DEF ConnectPends, TypeOK, InTurn, Owned, Pending,
           HandleStates
      <3>4. Owned'
        BY <1>2, <2>0, <2>1 DEF ConnectPends, TypeOK, InTurn, Owned, Pending,
           Settled, HandleStates
      <3>5. Pending' /\ Unstarted' /\ Settled'
        BY <1>2, <2>0, <2>1 DEF ConnectPends, TypeOK, InTurn, Owned, Pending,
           Unstarted, Settled, HandleStates
      <3>6. CallbackOnce' /\ DeliveredIsLast' /\ FailedMeansExhausted'
        BY <1>2, <2>0, <2>1 DEF ConnectPends, TypeOK, InTurn, Owned, Pending,
           Unstarted, Settled, CallbackOnce, DeliveredIsLast,
           FailedMeansExhausted
      <3>7. QED
        BY <3>1, <3>2, <3>3, <3>4, <3>5, <3>6, TypesSplit
    <2>2. CASE ConnectThrows(1, handle, thenNext)
      <3>1. FlagsTyped'
        BY <1>2, <2>0, <2>2 DEF ConnectThrows, TypeOK, FlagsTyped
      <3>2. DataTyped'
        BY <1>2, <2>0, <2>2 DEF ConnectThrows, TypeOK, InTurn, DataTyped,
           HandleStates, Errors
      <3>3. InTurn'
        BY <1>2, <2>0, <2>2 DEF ConnectThrows, TypeOK, InTurn, Owned, Pending,
           HandleStates
      <3>4. Owned'
        BY <1>2, <2>0, <2>2 DEF ConnectThrows, TypeOK, InTurn, Owned, Pending,
           Settled, HandleStates
      <3>5. Pending' /\ Unstarted' /\ Settled'
        BY <1>2, <2>0, <2>2 DEF ConnectThrows, TypeOK, InTurn, Owned, Pending,
           Unstarted, Settled, HandleStates
      <3>6. CallbackOnce' /\ DeliveredIsLast' /\ FailedMeansExhausted'
        BY <1>2, <2>0, <2>2 DEF ConnectThrows, TypeOK, InTurn, Owned, Pending,
           Unstarted, Settled, CallbackOnce, DeliveredIsLast,
           FailedMeansExhausted
      <3>7. QED
        BY <3>1, <3>2, <3>3, <3>4, <3>5, <3>6, TypesSplit
    <2>3. QED
      BY <1>2, <2>0, <2>1, <2>2 DEF StartConnecting, ConnectNext, TypeOK
  <1>3. CASE Cancel
    <2>1. FlagsTyped'
      BY <1>3 DEF Cancel, CloseCurrent, Complete, options, TypeOK, FlagsTyped
    <2>2. DataTyped'
      BY <1>3 DEF Cancel, CloseCurrent, Complete, options, TypeOK, InTurn,
         DataTyped, HandleStates, Errors
    <2>3. InTurn'
      BY <1>3 DEF Cancel, CloseCurrent, Complete, options, TypeOK, InTurn,
         Owned, Pending, HandleStates
    <2>4. Owned'
      BY <1>3 DEF Cancel, CloseCurrent, Complete, options, TypeOK, InTurn,
         Owned, Pending, Settled, HandleStates
    <2>5. Pending' /\ Unstarted' /\ Settled'
      BY <1>3 DEF Cancel, CloseCurrent, Complete, options, TypeOK, InTurn,
         Owned, Pending, Unstarted, Settled, HandleStates
    <2>6. CallbackOnce' /\ DeliveredIsLast' /\ FailedMeansExhausted'
      BY <1>3 DEF Cancel, CloseCurrent, Complete, options, TypeOK, InTurn,
         Owned, Pending, Unstarted, Settled, CallbackOnce, DeliveredIsLast,
         FailedMeansExhausted
    <2>7. QED
      BY <2>1, <2>2, <2>3, <2>4, <2>5, <2>6, TypesSplit
  <1>4. CASE Timeout
    <2>1. FlagsTyped'
      BY <1>4 DEF Timeout, CloseCurrent, Complete, options, TypeOK, FlagsTyped
    <2>2. DataTyped'
      BY <1>4 DEF Timeout, CloseCurrent, Complete, options, TypeOK, InTurn,
         DataTyped, HandleStates, Errors
    <2>3. InTurn'
      BY <1>4 DEF Timeout, CloseCurrent, Complete, options, TypeOK, InTurn,
         Owned, Pending, HandleStates
    <2>4. Owned'
      BY <1>4 DEF Timeout, CloseCurrent, Complete, options, TypeOK, InTurn,
         Owned, Pending, Settled, HandleStates
    <2>5. Pending' /\ Unstarted' /\ Settled'
      BY <1>4 DEF Timeout, CloseCurrent, Complete, options, TypeOK, InTurn,
         Owned, Pending, Unstarted, Settled, HandleStates
    <2>6. CallbackOnce' /\ DeliveredIsLast' /\ FailedMeansExhausted'
      BY <1>4 DEF Timeout, CloseCurrent, Complete, options, TypeOK, InTurn,
         Owned, Pending, Unstarted, Settled, CallbackOnce, DeliveredIsLast,
         FailedMeansExhausted
    <2>7. QED
      BY <2>1, <2>2, <2>3, <2>4, <2>5, <2>6, TypesSplit
  <1>5. ASSUME NEW h \in Handles, Connected(h) PROVE IInv'
    <2>1. FlagsTyped'
      BY <1>5 DEF Connected, Complete, options, TypeOK, FlagsTyped
    <2>2. DataTyped'
      BY <1>5 DEF Connected, Complete, options, TypeOK, InTurn, DataTyped,
         HandleStates, Errors
    <2>3. InTurn'
      BY <1>5 DEF Connected, Complete, options, TypeOK, InTurn, Owned,
         Pending, HandleStates
    <2>4. Owned'
      BY <1>5 DEF Connected, Complete, options, TypeOK, InTurn, Owned,
         Pending, Settled, HandleStates
    <2>5. Pending' /\ Unstarted' /\ Settled'
      BY <1>5 DEF Connected, Complete, options, TypeOK, InTurn, Owned,
         Pending, Unstarted, Settled, HandleStates
    <2>6. CallbackOnce' /\ DeliveredIsLast' /\ FailedMeansExhausted'
      BY <1>5 DEF Connected, Complete, options, TypeOK, InTurn, Owned,
         Pending, Unstarted, Settled, CallbackOnce, DeliveredIsLast,
         FailedMeansExhausted
    <2>7. QED
      BY <2>1, <2>2, <2>3, <2>4, <2>5, <2>6, TypesSplit
  <1>6. ASSUME NEW h \in Handles, ConnectFailed(h) PROVE IInv'
    <2>1. FlagsTyped'
      BY <1>6 DEF ConnectFailed, options, TypeOK, FlagsTyped
    <2>2. DataTyped'
      BY <1>6 DEF ConnectFailed, options, TypeOK, InTurn, DataTyped,
         HandleStates, Errors
    <2>3. InTurn'
      BY <1>6 DEF ConnectFailed, options, TypeOK, InTurn, Owned, Pending,
         HandleStates
    <2>4. Owned'
      BY <1>6 DEF ConnectFailed, options, TypeOK, InTurn, Owned, Pending,
         Settled, HandleStates
    <2>5. Pending' /\ Unstarted' /\ Settled'
      BY <1>6 DEF ConnectFailed, options, TypeOK, InTurn, Owned, Pending,
         Unstarted, Settled, HandleStates
    <2>6. CallbackOnce' /\ DeliveredIsLast' /\ FailedMeansExhausted'
      BY <1>6 DEF ConnectFailed, options, TypeOK, InTurn, Owned, Pending,
         Unstarted, Settled, CallbackOnce, DeliveredIsLast,
         FailedMeansExhausted
    <2>7. QED
      BY <2>1, <2>2, <2>3, <2>4, <2>5, <2>6, TypesSplit
  <1>7. ASSUME NEW h \in Handles, ConnectAborted(h) PROVE IInv'
    <2>1. FlagsTyped'
      BY <1>7 DEF ConnectAborted, options, TypeOK, FlagsTyped
    <2>2. DataTyped'
      BY <1>7 DEF ConnectAborted, options, TypeOK, InTurn, DataTyped,
         HandleStates, Errors
    <2>3. InTurn'
      BY <1>7 DEF ConnectAborted, options, TypeOK, InTurn, Owned, Pending,
         HandleStates
    <2>4. Owned'
      BY <1>7 DEF ConnectAborted, options, TypeOK, InTurn, Owned, Pending,
         Settled, HandleStates
    <2>5. Pending' /\ Unstarted' /\ Settled'
      BY <1>7 DEF ConnectAborted, options, TypeOK, InTurn, Owned, Pending,
         Unstarted, Settled, HandleStates
    <2>6. CallbackOnce' /\ DeliveredIsLast' /\ FailedMeansExhausted'
      BY <1>7 DEF ConnectAborted, options, TypeOK, InTurn, Owned, Pending,
         Unstarted, Settled, CallbackOnce, DeliveredIsLast,
         FailedMeansExhausted
    <2>7. QED
      BY <2>1, <2>2, <2>3, <2>4, <2>5, <2>6, TypesSplit
  <1>8. ASSUME NEW h \in Handles, Closed(h) PROVE IInv'
    <2>1. FlagsTyped'
      BY <1>8 DEF Closed, options, TypeOK, FlagsTyped
    <2>2. DataTyped'
      BY <1>8 DEF Closed, options, TypeOK, InTurn, DataTyped, HandleStates,
         Errors
    <2>3. InTurn'
      BY <1>8 DEF Closed, options, TypeOK, InTurn, Owned, Pending,
         HandleStates
    <2>4. Owned'
      BY <1>8 DEF Closed, options, TypeOK, InTurn, Owned, Pending, Settled,
         HandleStates
    <2>5. Pending' /\ Unstarted' /\ Settled'
      BY <1>8 DEF Closed, options, TypeOK, InTurn, Owned, Pending, Unstarted,
         Settled, HandleStates
    <2>6. CallbackOnce' /\ DeliveredIsLast' /\ FailedMeansExhausted'
      BY <1>8 DEF Closed, options, TypeOK, InTurn, Owned, Pending, Unstarted,
         Settled, CallbackOnce, DeliveredIsLast, FailedMeansExhausted
    <2>7. QED
      BY <2>1, <2>2, <2>3, <2>4, <2>5, <2>6, TypesSplit
  <1>9. ASSUME NEW h \in Handles, ClosedThenNext(h) PROVE IInv'
    <2>0. h = next_
      BY <1>9 DEF ClosedThenNext, TypeOK, InTurn
    <2>1. CASE completed_
      <3>1. FlagsTyped'
        BY <1>9, <2>0, <2>1 DEF ClosedThenNext, ConnectNext, options, TypeOK,
           FlagsTyped
      <3>2. DataTyped'
        BY <1>9, <2>0, <2>1 DEF ClosedThenNext, ConnectNext, options, TypeOK,
           InTurn, DataTyped, HandleStates, Errors
      <3>3. InTurn'
        BY <1>9, <2>0, <2>1 DEF ClosedThenNext, ConnectNext, options, TypeOK,
           InTurn, Owned, Pending, HandleStates
      <3>4. Owned'
        BY <1>9, <2>0, <2>1, ZenonT(60)
           DEF ClosedThenNext, ConnectNext, options, TypeOK,
           InTurn, Owned, Pending, Settled, HandleStates
      <3>5. Pending' /\ Unstarted' /\ Settled'
        BY <1>9, <2>0, <2>1 DEF ClosedThenNext, ConnectNext, options, TypeOK,
           InTurn, Owned, Pending, Unstarted, Settled, HandleStates
      <3>6. CallbackOnce' /\ DeliveredIsLast' /\ FailedMeansExhausted'
        BY <1>9, <2>0, <2>1 DEF ClosedThenNext, ConnectNext, options, TypeOK,
           InTurn, Owned, Pending, Unstarted, Settled, CallbackOnce,
           DeliveredIsLast, FailedMeansExhausted
      <3>7. QED
        BY <3>1, <3>2, <3>3, <3>4, <3>5, <3>6, TypesSplit
    <2>2. CASE ~completed_ /\ Exhausted
      <3>0. /\ handle' = [handle EXCEPT ![h] = "closed"]
            /\ thenNext' = thenNext \ {h}
            /\ UNCHANGED <<started, size, timed, hasCallback>>
            /\ UNCHANGED <<next_, tcp_, request, cancelled_>>
            /\ completed_' /\ result' = "connect_failed"
            /\ timer' \in {"none", "closed"}
            /\ calls' = IF hasCallback THEN calls + 1 ELSE calls
        BY <1>9, <2>2 DEF ClosedThenNext, ConnectNext, Complete, options, TypeOK
      <3>1. FlagsTyped'
        BY <1>9, <2>0, <2>2, <3>0 DEF ClosedThenNext, TypeOK, FlagsTyped
      <3>2. DataTyped'
        BY <1>9, <2>0, <2>2, <3>0 DEF ClosedThenNext, TypeOK, InTurn,
           DataTyped, HandleStates, Errors
      <3>3. InTurn'
        BY <1>9, <2>0, <2>2, <3>0 DEF ClosedThenNext, TypeOK, InTurn, Owned,
           Pending, HandleStates
      <3>4. Owned'
        BY <1>9, <2>0, <2>2, <3>0 DEF ClosedThenNext, TypeOK, InTurn, Owned,
           Pending, Settled, HandleStates
      <3>5. Pending' /\ Unstarted' /\ Settled'
        BY <1>9, <2>0, <2>2, <3>0 DEF ClosedThenNext, TypeOK, InTurn, Owned,
           Pending, Unstarted, Settled, HandleStates
      <3>6. CallbackOnce' /\ DeliveredIsLast' /\ FailedMeansExhausted'
        BY <1>9, <2>0, <2>2, <3>0 DEF ClosedThenNext, TypeOK, InTurn, Owned,
           Pending, Unstarted, Settled, CallbackOnce, DeliveredIsLast,
           FailedMeansExhausted
      <3>7. QED
        BY <3>1, <3>2, <3>3, <3>4, <3>5, <3>6, TypesSplit
    <2>3. ASSUME ~completed_, ~Exhausted
          PROVE  /\ next_' = next_ + 1 /\ next_ + 1 \in Handles
                 /\ UNCHANGED <<started, completed_, result, calls>>
                 /\ UNCHANGED <<cancelled_, timer, size, timed, hasCallback>>
      BY <1>9, <2>3 DEF ClosedThenNext, ConnectNext, options, TypeOK
    <2>4. CASE /\ ~completed_ /\ ~Exhausted
               /\ ConnectPends(next_ + 1, [handle EXCEPT ![h] = "closed"],
                               thenNext \ {h})
      <3>1. FlagsTyped'
        BY <1>9, <2>0, <2>3, <2>4 DEF ClosedThenNext, ConnectPends, TypeOK,
           FlagsTyped
      <3>2. DataTyped'
        BY <1>9, <2>0, <2>3, <2>4 DEF ClosedThenNext, ConnectPends, TypeOK,
           InTurn, DataTyped, HandleStates, Errors
      <3>3. InTurn'
        BY <1>9, <2>0, <2>3, <2>4 DEF ClosedThenNext, ConnectPends, TypeOK,
           InTurn, Owned, Pending, HandleStates
      <3>4. Owned'
        BY <1>9, <2>0, <2>3, <2>4 DEF ClosedThenNext, ConnectPends, TypeOK,
           InTurn, Owned, Pending, Settled, HandleStates
      <3>5. Pending' /\ Unstarted' /\ Settled'
        BY <1>9, <2>0, <2>3, <2>4 DEF ClosedThenNext, ConnectPends, TypeOK,
           InTurn, Owned, Pending, Unstarted, Settled, HandleStates
      <3>6. CallbackOnce' /\ DeliveredIsLast' /\ FailedMeansExhausted'
        BY <1>9, <2>0, <2>3, <2>4 DEF ClosedThenNext, ConnectPends, TypeOK,
           InTurn, Owned, Pending, Unstarted, Settled, CallbackOnce,
           DeliveredIsLast, FailedMeansExhausted
      <3>7. QED
        BY <3>1, <3>2, <3>3, <3>4, <3>5, <3>6, TypesSplit
    <2>5. CASE /\ ~completed_ /\ ~Exhausted
               /\ ConnectThrows(next_ + 1, [handle EXCEPT ![h] = "closed"],
                               thenNext \ {h})
      <3>1. FlagsTyped'
        BY <1>9, <2>0, <2>3, <2>5 DEF ClosedThenNext, ConnectThrows, TypeOK,
           FlagsTyped
      <3>2. DataTyped'
        BY <1>9, <2>0, <2>3, <2>5 DEF ClosedThenNext, ConnectThrows, TypeOK,
           InTurn, DataTyped, HandleStates, Errors
      <3>3. InTurn'
        BY <1>9, <2>0, <2>3, <2>5 DEF ClosedThenNext, ConnectThrows, TypeOK,
           InTurn, Owned, Pending, HandleStates
      <3>4. Owned'
        BY <1>9, <2>0, <2>3, <2>5 DEF ClosedThenNext, ConnectThrows, TypeOK,
           InTurn, Owned, Pending, Settled, HandleStates
      <3>5. Pending' /\ Unstarted' /\ Settled'
        BY <1>9, <2>0, <2>3, <2>5 DEF ClosedThenNext, ConnectThrows, TypeOK,
           InTurn, Owned, Pending, Unstarted, Settled, HandleStates
      <3>6. CallbackOnce' /\ DeliveredIsLast' /\ FailedMeansExhausted'
        BY <1>9, <2>0, <2>3, <2>5 DEF ClosedThenNext, ConnectThrows, TypeOK,
           InTurn, Owned, Pending, Unstarted, Settled, CallbackOnce,
           DeliveredIsLast, FailedMeansExhausted
      <3>7. QED
        BY <3>1, <3>2, <3>3, <3>4, <3>5, <3>6, TypesSplit
    <2>6. QED
      BY <1>9, <2>1, <2>2, <2>4, <2>5 DEF ClosedThenNext, ConnectNext, TypeOK
  <1>10. CASE UNCHANGED vars
    BY <1>10 DEF vars, options, TypeOK, InTurn, Owned, Pending, Unstarted,
       Settled, CallbackOnce, DeliveredIsLast, FailedMeansExhausted
  <1>11. QED
    BY <1>1, <1>2, <1>3, <1>4, <1>5, <1>6, <1>7, <1>8, <1>9, <1>10
       DEF Next, Loop

-------------------------------------------------------------------------------
\* The inductive invariant holds throughout every operation.
LEMMA Invariance == Spec => []IInv
  <1>1. QED
    BY InitEstablishes, StepPreserves, PTL DEF Spec

\* Every variable of tcp_connect_state keeps its type.
THEOREM TypeCorrect == Spec => []TypeOK
  <1>1. IInv => TypeOK
    BY DEF IInv
  <1>2. QED
    BY Invariance, <1>1, PTL

\* For every address list the callback of an operation runs once, when
\* complete() first runs.
THEOREM CallbackExactlyOnce == Spec => []CallbackOnce
  <1>1. IInv => CallbackOnce
    BY DEF IInv
  <1>2. QED
    BY Invariance, <1>1, PTL

\* connect_next() never creates a handle while an earlier one is alive, so
\* connect_request_ is never in use twice.
THEOREM SingleHandle == Spec => []OneHandleAtATime
  <1>1. IInv => OneHandleAtATime
    BY MaxCandidatesAssumption DEF IInv, TypeOK, InTurn, OneHandleAtATime,
       Open, Handles
  <1>2. QED
    BY Invariance, <1>1, PTL

\* complete() leaves neither a connecting handle nor a running timer behind.
THEOREM CompletionIsTidy == Spec => []NothingLeftOpen
  <1>1. IInv => NothingLeftOpen
    BY MaxCandidatesAssumption DEF IInv, TypeOK, Owned, Settled,
       NothingLeftOpen, Handles
  <1>2. QED
    BY Invariance, <1>1, PTL

\* A stream reaches the application exactly with a result of success, and all
\* earlier candidates are closed by then.
THEOREM DeliveryIsLast == Spec => []DeliveredIsLast
  <1>1. IInv => DeliveredIsLast
    BY DEF IInv
  <1>2. QED
    BY Invariance, <1>1, PTL

\* For every address list the handles take their turns: connect_next() and
\* complete() leave no second one, and none behind.
THEOREM HandlesTakeTurns == Spec => []HandlesInTurn
  <1>1. QED
    BY SingleHandle, CompletionIsTidy, DeliveryIsLast, PTL DEF HandlesInTurn

\* connect_failed means that every candidate was tried and closed.
THEOREM FailureIsExhaustive == Spec => []FailedMeansExhausted
  <1>1. IInv => FailedMeansExhausted
    BY DEF IInv
  <1>2. QED
    BY Invariance, <1>1, PTL

\* A close callback that comes after the completion starts no other candidate:
\* next_ changes in ConnectNext alone, behind its test of completed_.
THEOREM NoLateAttempt == Spec => NoAttemptAfterCompletion
  <1>1. IInv /\ [Next]_vars => [completed_ => UNCHANGED next_]_vars
    <2> SUFFICES ASSUME IInv, Next, completed_ PROVE UNCHANGED next_
      BY DEF vars, options
    <2>1. ~StartConnecting
      BY DEF IInv, Unstarted, StartConnecting
    <2>2. QED
      BY <2>1 DEF Next, Loop, StartRefused, Cancel, Timeout, Connected,
         ConnectFailed, ConnectAborted, Closed, ClosedThenNext, ConnectNext
  <1>2. QED
    BY Invariance, <1>1, PTL DEF Spec, NoAttemptAfterCompletion

-------------------------------------------------------------------------------
(***************************************************************************)
(* The refinement.                                                         *)
(***************************************************************************)

\* How many streams the application was given.
Streams == Cardinality({h \in Handles : handle[h] = "delivered"})

StreamsMatch == Streams = IF result = "connected" THEN 1 ELSE 0

\* The number of streams is fixed by the result: on_connected() hands over the
\* handle in the step that completes, and no other handle is ever handed over.
LEMMA StreamsByResult == IInv => StreamsMatch
  <1> SUFFICES ASSUME IInv PROVE StreamsMatch
    OBVIOUS
  <1> USE DEF StreamsMatch
  <1> DEFINE given == {h \in Handles : handle[h] = "delivered"}
  <1>1. CASE result = "connected"
    <2>1. PICK h \in Handles : handle[h] = "delivered"
      BY <1>1 DEF IInv, DeliveredIsLast
    <2>2. given = {h}
      BY <2>1 DEF IInv, DeliveredIsLast
    <2>3. QED
      BY <1>1, <2>2, FS_Singleton DEF Streams
  <1>2. CASE result # "connected"
    <2>1. given = {}
      BY <1>2 DEF IInv, DeliveredIsLast
    <2>2. QED
      BY <1>2, <2>1, FS_EmptySet DEF Streams
  <1>3. QED
    BY <1>1, <1>2

\* The same of the state after a step.
LEMMA StreamsByResultNext == IInv' => StreamsMatch'
  BY StreamsByResult, PTL

\* What one step of the operation is to its caller: the start, the answer to a
\* refused start, the answer to a running one, or nothing.  The completion is a
\* single step, with callback and result.
LEMMA CallerSees ==
  ASSUME IInv, Next
  PROVE  /\ hasCallback' = hasCallback
         /\ \/ UNCHANGED <<started, completed_, result, calls>>
            \/ /\ ~started /\ ~completed_ /\ started' /\ ~completed_'
               /\ UNCHANGED <<result, calls>>
            \/ /\ ~completed_ /\ completed_'
               /\ result' \in IF started
                    THEN {"cancelled", "timeout", "connect_failed", "connected"}
                    ELSE {"no_addresses", "connect_failed"}
               /\ calls' = IF hasCallback THEN calls + 1 ELSE calls
  <1> USE DEF IInv, options
  <1>1. CASE StartRefused
    BY <1>1 DEF StartRefused, Complete, Unstarted
  <1>2. CASE StartConnecting
    <2>1. ~completed_ /\ next_ = 0
      BY <1>2 DEF StartConnecting, Unstarted, Pending
    <2>2. ~Exhausted
      BY <1>2, <2>1 DEF StartConnecting, Exhausted, TypeOK
    <2>3. UNCHANGED <<completed_, result, calls>>
      BY <1>2, <2>1, <2>2 DEF StartConnecting, ConnectNext
    <2>4. started' /\ ~started /\ hasCallback' = hasCallback
      BY <1>2 DEF StartConnecting
    <2>5. QED
      BY <2>1, <2>3, <2>4
  <1>3. CASE Cancel
    BY <1>3 DEF Cancel, Complete
  <1>4. CASE Timeout
    BY <1>4 DEF Timeout, Complete, Pending
  <1>5. ASSUME NEW h \in Handles, Connected(h)
        PROVE  started /\ ~completed_ /\ completed_' /\ result' = "connected"
               /\ calls' = (IF hasCallback THEN calls + 1 ELSE calls)
               /\ hasCallback' = hasCallback
    BY <1>5 DEF Connected, Complete, Pending, InTurn, TypeOK, Handles
  <1>6. ASSUME NEW h \in Handles, ClosedThenNext(h)
        PROVE  /\ UNCHANGED <<hasCallback, started>>
               /\ \/ UNCHANGED <<completed_, result, calls>>
                  \/ /\ started /\ ~completed_ /\ completed_'
                     /\ result' = "connect_failed"
                     /\ calls' = IF hasCallback THEN calls + 1 ELSE calls
    <2>1. next_ # 0
      BY <1>6, MaxCandidatesAssumption DEF ClosedThenNext, TypeOK, InTurn,
         Handles
    <2>2. QED
      BY <1>6, <2>1 DEF ClosedThenNext, ConnectNext, Complete, Pending
  <1>7. ASSUME NEW h \in Handles,
               ConnectFailed(h) \/ ConnectAborted(h) \/ Closed(h)
        PROVE  UNCHANGED <<hasCallback, started, completed_, result, calls>>
    BY <1>7 DEF ConnectFailed, ConnectAborted, Closed
  <1>8. QED
    BY <1>1, <1>2, <1>3, <1>4, <1>5, <1>6, <1>7 DEF Next, Loop

\* A new operation is a new promise: nothing was answered or handed over.
LEMMA InitImplements == Init => Promise!Init
  <1> SUFFICES ASSUME Init PROVE Promise!Init
    OBVIOUS
  <1>1. Streams = 0
    BY InitEstablishes, StreamsByResult DEF Init, StreamsMatch
  <1>2. QED
    BY <1>1 DEF Init, Promise!Init, Streams

\* Every call and callback of tcp_connect_state is a step of the promise or
\* invisible to the caller.
LEMMA StepImplements ==
  IInv /\ IInv' /\ [Next]_vars => [Promise!Next]_(Promise!vars)
  <1> SUFFICES ASSUME IInv, IInv', [Next]_vars
               PROVE  [Promise!Next]_(Promise!vars)
    OBVIOUS
  <1>1. CASE UNCHANGED vars
    BY <1>1 DEF vars, options, Promise!vars, Handles
  <1>2. CASE Next
    <2>1. /\ Streams = IF result = "connected" THEN 1 ELSE 0
          /\ Streams' = IF result' = "connected" THEN 1 ELSE 0
      BY StreamsByResult, StreamsByResultNext DEF StreamsMatch
    <2>2. CASE UNCHANGED <<started, completed_, result, calls>>
      <3>1. UNCHANGED <<hasCallback, started, completed_, result, calls,
                        Streams>>
        BY <1>2, <2>1, <2>2, CallerSees
      <3>2. QED
        BY <3>1 DEF Promise!vars, Streams
    <2>3. CASE /\ ~started /\ ~completed_ /\ started' /\ ~completed_'
               /\ UNCHANGED <<result, calls>>
      <3>1. UNCHANGED <<hasCallback, result, calls, Streams>>
        BY <1>2, <2>1, <2>3, CallerSees
      <3>2. Promise!Start
        BY <2>3, <3>1 DEF Promise!Start, Streams
      <3>3. QED
        BY <3>2 DEF Promise!Next
    <2>4. CASE /\ ~completed_ /\ completed_'
               /\ calls' = IF hasCallback THEN calls + 1 ELSE calls
      <3>1. /\ hasCallback' = hasCallback
            /\ result = "none" /\ Streams = 0
        BY <1>2, <2>1, <2>4, CallerSees DEF IInv, Pending
      <3>2. calls' = calls + IF hasCallback THEN 1 ELSE 0
        BY <2>4 DEF IInv, TypeOK
      <3>3. Streams' = Streams + IF result' = "connected" THEN 1 ELSE 0
        BY <2>1, <3>1
      <3>4. Promise!Answer(result')
        BY <2>4, <3>1, <3>2, <3>3 DEF Promise!Answer, Streams
      <3>5. result' \in IF started
              THEN {"cancelled", "timeout", "connect_failed", "connected"}
              ELSE {"no_addresses", "connect_failed"}
        BY <1>2, <2>4, CallerSees
      <3>6. CASE started
        BY <2>4, <3>4, <3>5, <3>6 DEF Promise!Next, Promise!Finish
      <3>7. CASE ~started
        BY <2>4, <3>4, <3>5, <3>7 DEF Promise!Next, Promise!Refuse
      <3>8. QED
        BY <3>6, <3>7
    <2>5. QED
      BY <1>2, <2>2, <2>3, <2>4, CallerSees
  <1>3. QED
    BY <1>1, <1>2

\* Everything a caller of tcp_connector::connect() can observe is what the
\* promise allows, for every address list: one answer, in one step, with the
\* stream exactly when it is success.
THEOREM ImplementsPromiseSafely ==
  Spec => Promise!Init /\ [][Promise!Next]_(Promise!vars)
  <1>1. QED
    BY Invariance, InitImplements, StepImplements, PTL DEF Spec

===============================================================================
