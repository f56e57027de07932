---------------------------- MODULE ConnectionPool ----------------------------
(***************************************************************************)
(* The idle connections of uvp::http::client (class connection_pool of     *)
(* src/http/client.cpp) as operators on a record net of two fields: idle,  *)
(* the queue of idle streams of every origin, and life, what has become of *)
(* every stream.  An entry has its expiry timer exactly while it is idle:  *)
(* take() and close_entry() both stop and close it, so Expire is possible  *)
(* for the streams in a queue and no others.                               *)
(***************************************************************************)
EXTENDS Naturals, FiniteSets, Sequences, SequencesExt

CONSTANTS
  Origins,     \* the keys of the pool
  MaxStreams,  \* bound: connections ever made
  MaxIdle      \* max_idle_connections_per_origin

Streams == 1 .. MaxStreams

NoStream == 0

Lives == {"none", "open", "closing", "closed", "destroyed"}

\* Closing a stream that is empty or closed already does nothing.
CloseStream(net, s) ==
  IF s = NoStream THEN net
  ELSE IF net.life[s] # "open" THEN net
  ELSE [net EXCEPT !.life[s] = "closing"]

\* close_entry()
CloseEntry(net, s) == CloseStream(net, s)

\* Mutant of Take: the entry stays in its queue.
TakeCopy(net, o) == net

\* take(): the oldest entry leaves the queue.
Take(net, o) == [net EXCEPT !.idle[o] = Tail(@)]

\* release(): with no room at all the stream is closed; else it joins the back
\* of the queue and the oldest entries beyond the limit are closed.
Release(net, o, s) ==
  LET queue == Append(net.idle[o], s)
  IN IF MaxIdle = 0 THEN CloseEntry(net, s)
     ELSE IF Len(queue) <= MaxIdle THEN [net EXCEPT !.idle[o] = queue]
     ELSE CloseEntry([net EXCEPT !.idle[o] = Tail(queue)], Head(queue))

\* expire(): the timer of the i-th idle entry.
Expire(net, o, i) ==
  CloseEntry([net EXCEPT !.idle[o] = RemoveAt(@, i)], net.idle[o][i])

\* close_all()
CloseAll(net) ==
  LET kept(s) == \A o \in Origins : ~ \E i \in DOMAIN net.idle[o] :
                                         net.idle[o][i] = s
  IN [net EXCEPT !.idle = [o \in Origins |-> <<>>],
                 !.life = [s \in Streams |-> IF kept(s) THEN net.life[s]
                                             ELSE CloseEntry(net, s).life[s]]]

\* The entries of the pool that hold stream s.
Entries(net, s) ==
  UNION {{<<o, i>> : i \in {j \in DOMAIN net.idle[o] : net.idle[o][j] = s}}
           : o \in Origins}

\* What the pool promises of itself: no stream twice, none beyond the limit,
\* none that is closing or closed.
PoolKept(net) ==
  /\ \A s \in Streams : Cardinality(Entries(net, s)) <= 1
  /\ \A o \in Origins : Len(net.idle[o]) <= MaxIdle
  /\ \A o \in Origins : \A i \in DOMAIN net.idle[o] :
       net.life[net.idle[o][i]] = "open"

NoConnections ==
  [idle |-> [o \in Origins |-> <<>>], life |-> [s \in Streams |-> "none"]]

===============================================================================
