--------------------------- MODULE TcpConnectRefines ---------------------------
(***************************************************************************)
(* The connect operation of TcpConnect, with its handles, its timer and    *)
(* its close callbacks, implements ConnectOperation.                       *)
(***************************************************************************)
EXTENDS TcpConnect

Promise == INSTANCE ConnectOperation WITH
  Refusals <- {"no_addresses", "connect_failed"},
  Failures <- {"cancelled", "timeout", "connect_failed"},
  wanted <- hasCallback,
  phase <- IF completed_ THEN "done" ELSE IF started THEN "running" ELSE "new",
  answer <- result,
  answers <- calls,
  streams <- Cardinality({h \in Handles : handle[h] = "delivered"})

\* Every operation gives its caller one answer, exactly one stream with success
\* and none otherwise, and is never silent, however failing candidates, the
\* deadline, cancel() and late close callbacks interleave (complete()).
ImplementsPromise == Promise!Spec

===============================================================================
