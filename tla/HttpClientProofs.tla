--------------------------- MODULE HttpClientProofs ---------------------------
(***************************************************************************)
(* Proofs about the buffered requests of the client and their pool: who    *)
(* owns a connection, and what is on its way through one.                  *)
(***************************************************************************)
EXTENDS HttpClient, SequenceFacts, FiniteSetTheorems

-------------------------------------------------------------------------------
(***************************************************************************)
(* Ownership of connections, apart from the requests: h says which streams *)
(* every request holds, l which ones completed requests have left behind,  *)
(* n is the network.                                                       *)
(***************************************************************************)

InPool(n, s) ==
  \E o \in Origins : \E i \in DOMAIN n.idle[o] : n.idle[o][i] = s

HeldOpen(h, n) ==
  \A r \in Requests : \A s \in h[r] : s \in Streams /\ n.life[s] = "open"

HeldOnce(h) == \A r, p \in Requests : \A s \in h[r] : s \in h[p] => r = p

IdleFew(n) == \A o \in Origins : Len(n.idle[o]) <= MaxIdle

IdleOpen(n) == \A s \in Streams : InPool(n, s) => n.life[s] = "open"

IdleFree(h, n) ==
  \A s \in Streams : InPool(n, s) => \A r \in Requests : s \notin h[r]

IdleOnce(n) ==
  \A o, p \in Origins : \A i \in DOMAIN n.idle[o], j \in DOMAIN n.idle[p] :
    n.idle[o][i] = n.idle[p][j] => o = p /\ i = j

OpenOwned(h, l, n) ==
  \A s \in Streams :
    n.life[s] = "open" =>
      s \in l \/ InPool(n, s) \/ \E r \in Requests : s \in h[r]

Owned(h, l, n) ==
  /\ HeldOpen(h, n) /\ HeldOnce(h)
  /\ IdleFew(n) /\ IdleOpen(n) /\ IdleFree(h, n) /\ IdleOnce(n)
  /\ OpenOwned(h, l, n)

Holding == [Requests -> SUBSET Streams]

\* Lives only advance.
Ages(n, m) ==
  \A s \in Streams :
    /\ n.life[s] # "none" => m.life[s] # "none"
    /\ n.life[s] = "closed" => m.life[s] = "closed"
    /\ n.life[s] \in {"closing", "closed"} =>
         m.life[s] \in {"closing", "closed"}

\* Ages is transitive.
LEMMA AgesTwice ==
  ASSUME NEW n, NEW m, NEW k, Ages(n, m), Ages(m, k)
  PROVE  Ages(n, k)
  BY DEF Ages

\* The pool holds streams.
LEMMA IdleTyped ==
  ASSUME NEW n \in Net, NEW o \in Origins
  PROVE  /\ n.idle \in [Origins -> Seq(Streams)]
         /\ n.idle[o] \in Seq(Streams)
         /\ DOMAIN n.idle[o] = 1 .. Len(n.idle[o])
         /\ \A i \in DOMAIN n.idle[o] : n.idle[o][i] \in Streams
  <1>1. n.idle \in [Origins -> Seq(Streams)]
    BY DEF Net
  <1>2. n.idle[o] \in Seq(Streams)
    BY <1>1
  <1>3. QED
    BY <1>1, <1>2

\* Closing a stream.
LEMMA CloseStreamNet ==
  ASSUME NEW n \in Net, NEW s \in Streams \cup {NoStream}
  PROVE  LET m == CloseStream(n, s)
         IN /\ m \in Net /\ m.idle = n.idle /\ m.owed = n.owed
            /\ \A t \in Streams :
                 m.life[t] = IF t = s /\ n.life[t] = "open" THEN "closing"
                                                            ELSE n.life[t]
            /\ Ages(n, m)
  <1>1. CASE s = NoStream
    BY <1>1 DEF CloseStream, Net, NoStream, Streams, Ages
  <1>2. CASE s # NoStream /\ n.life[s] # "open"
    BY <1>2 DEF CloseStream, Net, Ages
  <1>3. CASE s # NoStream /\ n.life[s] = "open"
    <2> DEFINE m == [n EXCEPT !.life[s] = "closing"]
    <2>1. s \in Streams /\ CloseStream(n, s) = m
      BY <1>3 DEF CloseStream
    <2>2. m \in Net /\ m.idle = n.idle /\ m.owed = n.owed
      BY <2>1 DEF Net, Lives
    <2>3. \A t \in Streams :
            m.life[t] = IF t = s THEN "closing" ELSE n.life[t]
      BY <2>1 DEF Net
    <2>4. Ages(n, m)
      BY <1>3, <2>3 DEF Ages
    <2> HIDE DEF m
    <2>5. QED
      BY <1>3, <2>1, <2>2, <2>3, <2>4
  <1>4. QED
    BY <1>1, <1>2, <1>3

\* A request closes the stream it holds.
LEMMA OwnClose ==
  ASSUME NEW h \in Holding, NEW l, NEW n \in Net, Owned(h, l, n),
         NEW r \in Requests, NEW s \in Streams, h[r] = {s}
  PROVE  Owned([h EXCEPT ![r] = {}], l, CloseStream(n, s))
  <1> DEFINE m == CloseStream(n, s)
             g == [h EXCEPT ![r] = {}]
  <1>1. /\ m \in Net /\ m.idle = n.idle
        /\ \A t \in Streams :
             m.life[t] = IF t = s /\ n.life[t] = "open" THEN "closing"
                                                        ELSE n.life[t]
    BY CloseStreamNet
  <1>2. \A p \in Requests : g[p] = IF p = r THEN {} ELSE h[p]
    BY DEF Holding
  <1>3. ~InPool(n, s) /\ \A t : InPool(m, t) <=> InPool(n, t)
    BY <1>1 DEF Owned, IdleFree, InPool
  <1> HIDE DEF m, g
  <1>4. HeldOpen(g, m) /\ HeldOnce(g)
    BY <1>1, <1>2 DEF Owned, HeldOpen, HeldOnce
  <1>5. IdleFew(m) /\ IdleOpen(m) /\ IdleFree(g, m) /\ IdleOnce(m)
    BY <1>1, <1>2, <1>3 DEF Owned, IdleFew, IdleOpen, IdleFree, IdleOnce
  <1>6. OpenOwned(g, l, m)
    BY <1>1, <1>2, <1>3 DEF Owned, OpenOwned
  <1>7. QED
    BY <1>4, <1>5, <1>6 DEF Owned, m, g

\* Closing a stream that nobody holds and that is not open changes nothing.
LEMMA CloseNothing ==
  ASSUME NEW n \in Net, NEW s \in Streams \cup {NoStream},
         s = NoStream \/ n.life[s] # "open"
  PROVE  CloseStream(n, s) = n
  BY DEF CloseStream

\* A request whose write failed leaves its stream behind.
LEMMA OwnLeave ==
  ASSUME NEW h \in Holding, NEW l, NEW n \in Net, Owned(h, l, n),
         NEW r \in Requests, NEW s \in Streams, h[r] = {s}
  PROVE  Owned([h EXCEPT ![r] = {}], l \cup {s}, n)
  <1> DEFINE g == [h EXCEPT ![r] = {}]
  <1>1. \A p \in Requests : g[p] = IF p = r THEN {} ELSE h[p]
    BY DEF Holding
  <1> HIDE DEF g
  <1>2. QED
    BY <1>1 DEF Owned, HeldOpen, HeldOnce, IdleFew, IdleOpen, IdleFree,
       IdleOnce, OpenOwned, g

\* A new connection is the request's that asked for it.
LEMMA OwnOpen ==
  ASSUME NEW h \in Holding, NEW l, NEW n \in Net, Owned(h, l, n),
         NEW r \in Requests, NEW s \in Streams, h[r] = {},
         n.life[s] = "none", NEW m \in Net, m.idle = n.idle,
         \A t \in Streams : m.life[t] = IF t = s THEN "open" ELSE n.life[t]
  PROVE  Owned([h EXCEPT ![r] = {s}], l, m)
  <1> DEFINE g == [h EXCEPT ![r] = {s}]
  <1>1. \A p \in Requests : g[p] = IF p = r THEN {s} ELSE h[p]
    BY DEF Holding
  <1>2. ~InPool(n, s) /\ \A t : InPool(m, t) <=> InPool(n, t)
    BY DEF Owned, IdleOpen, InPool
  <1>3. \A p \in Requests : s \notin h[p]
    BY DEF Owned, HeldOpen
  <1> HIDE DEF g
  <1>4. HeldOpen(g, m) /\ HeldOnce(g)
    BY <1>1, <1>3 DEF Owned, HeldOpen, HeldOnce
  <1>5. IdleFew(m) /\ IdleOpen(m) /\ IdleFree(g, m) /\ IdleOnce(m)
    BY <1>1, <1>2 DEF Owned, IdleFew, IdleOpen, IdleFree, IdleOnce
  <1>6. OpenOwned(g, l, m)
    BY <1>1, <1>2 DEF Owned, OpenOwned
  <1>7. QED
    BY <1>4, <1>5, <1>6 DEF Owned, g

\* What becomes of a stream that is not open, and stays so, is nobody's matter.
LEMMA OwnIgnores ==
  ASSUME NEW h \in Holding, NEW l, NEW n \in Net, Owned(h, l, n),
         NEW m \in Net, m.idle = n.idle,
         \A t \in Streams : m.life[t] = "open" <=> n.life[t] = "open"
  PROVE  Owned(h, l, m)
  <1>1. HeldOpen(h, m) /\ HeldOnce(h) /\ IdleFew(m)
    BY DEF Owned, HeldOpen, IdleFew
  <1>2. \A t : InPool(m, t) <=> InPool(n, t)
    BY DEF InPool
  <1>3. IdleOpen(m) /\ IdleFree(h, m) /\ IdleOnce(m) /\ OpenOwned(h, l, m)
    BY <1>2 DEF Owned, IdleOpen, IdleFree, IdleOnce, OpenOwned
  <1>4. QED
    BY <1>1, <1>2, <1>3 DEF Owned

\* take()
LEMMA TakeNet ==
  ASSUME NEW n \in Net, NEW o \in Origins, n.idle[o] # <<>>
  PROVE  LET m == Take(n, o)
         IN /\ m \in Net /\ m.life = n.life /\ m.owed = n.owed
            /\ Head(n.idle[o]) \in Streams
            /\ \A p \in Origins :
                 m.idle[p] = IF p = o THEN Tail(n.idle[o]) ELSE n.idle[p]
  <1>1. n.idle \in [Origins -> Seq(Streams)] /\ n.idle[o] \in Seq(Streams)
    BY IdleTyped
  <1>2. Head(n.idle[o]) \in Streams /\ Tail(n.idle[o]) \in Seq(Streams)
    BY <1>1
  <1> DEFINE m == [n EXCEPT !.idle[o] = Tail(@)]
  <1>3. m \in Net
    BY <1>1, <1>2 DEF Net
  <1>4. /\ m.life = n.life /\ m.owed = n.owed
        /\ \A p \in Origins :
             m.idle[p] = IF p = o THEN Tail(n.idle[o]) ELSE n.idle[p]
    BY <1>1 DEF Net
  <1> HIDE DEF m
  <1>5. Take(n, o) = m
    BY DEF Take, m
  <1>6. QED
    BY <1>2, <1>3, <1>4, <1>5

\* The queue of o has lost its k-th entry.
Removed(n, m, o, k) ==
  /\ Len(m.idle[o]) = Len(n.idle[o]) - 1
  /\ \A i \in 1 .. Len(n.idle[o]) - 1 :
       m.idle[o][i] = n.idle[o][IF i < k THEN i ELSE i + 1]
  /\ \A p \in Origins : p # o => m.idle[p] = n.idle[p]

\* Its stream is no longer in the pool, and nothing else has changed.
LEMMA RemovedIsGone ==
  ASSUME NEW n \in Net, NEW m \in Net, NEW o \in Origins,
         NEW k \in DOMAIN n.idle[o], Removed(n, m, o, k), IdleOnce(n)
  PROVE  /\ IdleOnce(m)
         /\ \A s : InPool(m, s) <=> InPool(n, s) /\ s # n.idle[o][k]
  <1> DEFINE old(i) == IF i < k THEN i ELSE i + 1
  <1>1. /\ DOMAIN n.idle[o] = 1 .. Len(n.idle[o]) /\ Len(n.idle[o]) \in Nat
        /\ DOMAIN m.idle[o] = 1 .. Len(m.idle[o])
        /\ k \in 1 .. Len(n.idle[o])
    <2>1. n.idle[o] \in Seq(Streams) /\ m.idle[o] \in Seq(Streams)
      BY IdleTyped
    <2>2. QED
      BY <2>1
  <1>2. \A i \in DOMAIN m.idle[o] :
          old(i) \in DOMAIN n.idle[o] /\ old(i) # k
          /\ m.idle[o][i] = n.idle[o][old(i)]
    BY <1>1, SMTT(60) DEF Removed
  <1>3. \A i, j \in DOMAIN m.idle[o] : old(i) = old(j) => i = j
    BY <1>1 DEF Removed
  <1>4. \A i \in DOMAIN n.idle[o] :
          i # k => \E j \in DOMAIN m.idle[o] : i = old(j)
    <2> SUFFICES ASSUME NEW i \in DOMAIN n.idle[o], i # k
                 PROVE  \E j \in DOMAIN m.idle[o] : i = old(j)
      OBVIOUS
    <2>1. CASE i < k
      <3>1. i \in DOMAIN m.idle[o]
        BY <1>1, <2>1 DEF Removed
      <3>2. QED
        BY <2>1, <3>1
    <2>2. CASE i > k
      <3>1. i - 1 \in DOMAIN m.idle[o] /\ i = old(i - 1)
        BY <1>1, <2>2 DEF Removed
      <3>2. QED
        BY <3>1
    <2>3. QED
      BY <1>1, <2>1, <2>2
  <1> HIDE DEF old
  <1>5. IdleOnce(m)
    <2> SUFFICES ASSUME NEW p \in Origins, NEW x \in Origins,
                        NEW i \in DOMAIN m.idle[p], NEW j \in DOMAIN m.idle[x],
                        m.idle[p][i] = m.idle[x][j]
                 PROVE  p = x /\ i = j
      BY DEF IdleOnce
    <2>1. CASE p = o /\ x = o
      BY <1>2, <1>3, <2>1 DEF IdleOnce
    <2>2. CASE p # o /\ x # o
      BY <2>2 DEF IdleOnce, Removed
    <2>3. CASE p = o /\ x # o
      BY <1>2, <2>3 DEF IdleOnce, Removed
    <2>4. CASE p # o /\ x = o
      BY <1>2, <2>4 DEF IdleOnce, Removed
    <2>5. QED
      BY <2>1, <2>2, <2>3, <2>4
  <1>6. ASSUME NEW s, InPool(m, s)
        PROVE  InPool(n, s) /\ s # n.idle[o][k]
    <2>1. PICK p \in Origins : \E i \in DOMAIN m.idle[p] : m.idle[p][i] = s
      BY <1>6 DEF InPool
    <2>2. PICK i \in DOMAIN m.idle[p] : m.idle[p][i] = s
      BY <2>1
    <2>3. CASE p = o
      BY <1>2, <2>2, <2>3 DEF IdleOnce, InPool
    <2>4. CASE p # o
      BY <2>2, <2>4 DEF IdleOnce, Removed, InPool
    <2>5. QED
      BY <2>3, <2>4
  <1>7. ASSUME NEW s, InPool(n, s), s # n.idle[o][k]
        PROVE  InPool(m, s)
    <2>1. PICK p \in Origins : \E i \in DOMAIN n.idle[p] : n.idle[p][i] = s
      BY <1>7 DEF InPool
    <2>2. PICK i \in DOMAIN n.idle[p] : n.idle[p][i] = s
      BY <2>1
    <2>3. CASE p = o
      <3>1. i # k
        BY <1>7, <2>2, <2>3
      <3>2. PICK j \in DOMAIN m.idle[o] : i = old(j)
        BY <1>4, <2>2, <2>3, <3>1
      <3>3. m.idle[o][j] = s
        BY <1>2, <2>2, <2>3, <3>2
      <3>4. QED
        BY <3>2, <3>3 DEF InPool
    <2>4. CASE p # o
      BY <2>2, <2>4 DEF Removed, InPool
    <2>5. QED
      BY <2>3, <2>4
  <1>8. QED
    BY <1>5, <1>6, <1>7

\* The entry taken becomes the request's,
LEMMA OwnTake ==
  ASSUME NEW h \in Holding, NEW l, NEW n \in Net, Owned(h, l, n),
         NEW r \in Requests, h[r] = {}, NEW o \in Origins, n.idle[o] # <<>>
  PROVE  /\ Owned([h EXCEPT ![r] = {Head(n.idle[o])}], l, Take(n, o))
         /\ Owned(h, l \cup {Head(n.idle[o])}, Take(n, o))
         /\ InPool(n, Head(n.idle[o]))
         /\ \A s : InPool(Take(n, o), s) <=>
                    InPool(n, s) /\ s # Head(n.idle[o])
  <1> DEFINE m == Take(n, o)
             s == Head(n.idle[o])
             g == [h EXCEPT ![r] = {s}]
  <1>1. /\ m \in Net /\ m.life = n.life /\ s \in Streams
        /\ \A p \in Origins :
             m.idle[p] = IF p = o THEN Tail(n.idle[o]) ELSE n.idle[p]
    BY TakeNet
  <1>2. n.idle[o] \in Seq(Streams)
    BY IdleTyped
  <1>3. 1 \in DOMAIN n.idle[o] /\ s = n.idle[o][1]
    BY <1>2
  <1>4. \A p \in Requests : g[p] = IF p = r THEN {s} ELSE h[p]
    BY DEF Holding
  <1> HIDE DEF m, s, g
  <1>5. Removed(n, m, o, 1)
    <2>1. /\ Len(Tail(n.idle[o])) = Len(n.idle[o]) - 1
          /\ \A i \in 1 .. Len(n.idle[o]) - 1 :
               ~(i < 1) /\ Tail(n.idle[o])[i] = n.idle[o][i + 1]
      BY <1>2
    <2>2. QED
      BY <1>1, <2>1 DEF Removed
  <1>6. IdleOnce(m) /\ \A t : InPool(m, t) <=> InPool(n, t) /\ t # s
    BY <1>1, <1>3, <1>5, RemovedIsGone DEF Owned
  <1>7. InPool(n, s)
    BY <1>3 DEF InPool
  <1>8. IdleFew(m)
    <2>1. \A p \in Origins : Len(m.idle[p]) <= Len(n.idle[p])
      BY <1>1, <1>2, <1>5 DEF Removed
    <2>2. \A p \in Origins : Len(m.idle[p]) \in Nat /\ Len(n.idle[p]) \in Nat
      BY <1>1, IdleTyped
    <2>3. QED
      BY <2>1, <2>2, ClientAssumption DEF Owned, IdleFew
  <1>9. Owned(g, l, m)
    <2>1. HeldOpen(g, m) /\ HeldOnce(g)
      BY <1>1, <1>4, <1>7 DEF Owned, HeldOpen, HeldOnce, IdleOpen, IdleFree
    <2>2. IdleOpen(m) /\ IdleFree(g, m) /\ OpenOwned(g, l, m)
      BY <1>1, <1>4, <1>6 DEF Owned, IdleOpen, IdleFree, OpenOwned
    <2>3. QED
      BY <1>6, <1>8, <2>1, <2>2 DEF Owned
  <1>10. Owned(h, l \cup {s}, m)
    <2>1. HeldOpen(h, m) /\ HeldOnce(h)
      BY <1>1 DEF Owned, HeldOpen
    <2>2. IdleOpen(m) /\ IdleFree(h, m) /\ OpenOwned(h, l \cup {s}, m)
      BY <1>1, <1>6 DEF Owned, IdleOpen, IdleFree, OpenOwned
    <2>3. QED
      BY <1>6, <1>8, <2>1, <2>2 DEF Owned
  <1>11. QED
    BY <1>6, <1>7, <1>9, <1>10 DEF m, s, g

\* expire() closes the entry it takes out of the pool.
LEMMA OwnExpire ==
  ASSUME NEW h \in Holding, NEW l, NEW n \in Net, Owned(h, l, n),
         NEW o \in Origins, NEW k \in DOMAIN n.idle[o]
  PROVE  LET m == Expire(n, o, k)
         IN /\ m \in Net /\ Owned(h, l, m) /\ Ages(n, m) /\ m.owed = n.owed
            /\ \A t : InPool(m, t) => InPool(n, t)
            /\ \A t \in Streams : m.life[t] = "none" => n.life[t] = "none"
  <1> DEFINE q == n.idle[o]
             s == n.idle[o][k]
             c == [n EXCEPT !.idle[o] = RemoveAt(@, k)]
             m == CloseStream(c, s)
  <1>1. n.idle \in [Origins -> Seq(Streams)] /\ q \in Seq(Streams)
    BY IdleTyped
  <1>2. k \in 1 .. Len(q) /\ Len(q) \in Nat /\ s \in Streams
    BY <1>1
  <1>3. /\ RemoveAt(q, k) \in Seq(Streams) /\ Len(RemoveAt(q, k)) = Len(q) - 1
        /\ \A i \in 1 .. Len(q) - 1 :
             RemoveAt(q, k)[i] = q[IF i < k THEN i ELSE i + 1]
    <2> HIDE DEF q, s
    <2>1. QED
      BY <1>1, <1>2, RemoveAtIs
  <1>4. /\ c \in Net /\ c.life = n.life /\ c.owed = n.owed
        /\ \A p \in Origins :
             c.idle[p] = IF p = o THEN RemoveAt(q, k) ELSE n.idle[p]
    <2> HIDE DEF s
    <2>1. c \in Net
      BY <1>1, <1>3 DEF Net
    <2>2. QED
      BY <1>1, <2>1 DEF Net
  <1>5. Expire(n, o, k) = m
    BY DEF Expire, CloseEntry
  <1> HIDE DEF c
  <1>6. /\ m \in Net /\ m.idle = c.idle /\ m.owed = n.owed /\ Ages(n, m)
        /\ \A t \in Streams :
             m.life[t] = IF t = s /\ n.life[t] = "open" THEN "closing"
                                                        ELSE n.life[t]
    <2>1. s \in Streams \cup {NoStream}
      BY <1>2
    <2> HIDE DEF s
    <2>2. QED
      BY <1>4, <2>1, CloseStreamNet, SMTT(60) DEF Ages
  <1>7. Removed(n, m, o, k)
    BY <1>3, <1>4, <1>6 DEF Removed
  <1> HIDE DEF m
  <1>8. IdleOnce(m) /\ \A t : InPool(m, t) <=> InPool(n, t) /\ t # s
    BY <1>6, <1>7, RemovedIsGone DEF Owned
  <1>9. InPool(n, s)
    BY DEF InPool
  <1> HIDE DEF s
  <1>10. IdleFew(m)
    <2>1. Len(m.idle[o]) = Len(n.idle[o]) - 1
      BY <1>7 DEF Removed
    <2>2. QED
      BY <1>2, <1>7, <2>1, ClientAssumption, SMTT(60)
         DEF Owned, IdleFew, Removed
  <1>11. HeldOpen(h, m) /\ HeldOnce(h)
    BY <1>6, <1>9 DEF Owned, HeldOpen, IdleFree
  <1>12. IdleOpen(m) /\ IdleFree(h, m) /\ OpenOwned(h, l, m)
    BY <1>6, <1>8 DEF Owned, IdleOpen, IdleFree, OpenOwned
  <1>13. \A t \in Streams : m.life[t] = "none" => n.life[t] = "none"
    BY <1>6
  <1>14. QED
    BY <1>5, <1>6, <1>8, <1>10, <1>11, <1>12, <1>13 DEF Owned

\* close_all() closes every entry.
LEMMA OwnCloseAll ==
  ASSUME NEW h \in Holding, NEW l, NEW n \in Net, Owned(h, l, n)
  PROVE  LET m == CloseAll(n)
         IN /\ m \in Net /\ Owned(h, l, m) /\ Ages(n, m) /\ m.owed = n.owed
            /\ \A t : InPool(m, t) => InPool(n, t)
            /\ \A t \in Streams : m.life[t] = "none" => n.life[t] = "none"
  <1> DEFINE kept(s) == \A o \in Origins : ~ \E i \in DOMAIN n.idle[o] :
                                               n.idle[o][i] = s
             life == [s \in Streams |-> IF kept(s) THEN n.life[s]
                                        ELSE CloseEntry(n, s).life[s]]
             m == [n EXCEPT !.idle = [o \in Origins |-> <<>>], !.life = life]
  <1>1. CloseAll(n) = m
    BY DEF CloseAll
  <1>2. \A s \in Streams : kept(s) <=> ~InPool(n, s)
    BY DEF InPool
  <1>3. \A s \in Streams :
          life[s] = IF InPool(n, s) /\ n.life[s] = "open" THEN "closing"
                                                          ELSE n.life[s]
    <2>1. \A s \in Streams :
            CloseEntry(n, s).life[s] = IF n.life[s] = "open" THEN "closing"
                                                             ELSE n.life[s]
      BY CloseStreamNet DEF CloseEntry
    <2> HIDE DEF kept
    <2>2. QED
      BY <1>2, <2>1
  <1>4. life \in [Streams -> Lives]
    <2>1. \A s \in Streams : n.life[s] \in Lives
      BY DEF Net
    <2>2. \A s \in Streams : life[s] \in Lives
      BY <1>3, <2>1 DEF Lives
    <2>3. life = [s \in Streams |-> life[s]]
      OBVIOUS
    <2> HIDE DEF life
    <2>4. QED
      BY <2>2, <2>3
  <1> HIDE DEF life
  <1>5. \A o \in Origins : <<>> \in Seq(Streams)
    OBVIOUS
  <1>6. /\ m \in Net /\ m.owed = n.owed /\ m.life = life
        /\ m.idle = [o \in Origins |-> <<>>]
    BY <1>4, <1>5 DEF Net
  <1> HIDE DEF m
  <1>7. \A o \in Origins : m.idle[o] = <<>> /\ Len(m.idle[o]) = 0
    BY <1>6
  <1>8. \A o \in Origins : DOMAIN m.idle[o] = {}
    BY <1>7
  <1>9. \A t : ~InPool(m, t)
    BY <1>8 DEF InPool
  <1>10. HeldOpen(h, m) /\ HeldOnce(h)
    BY <1>3, <1>6 DEF Owned, HeldOpen, IdleFree
  <1>11. IdleFew(m) /\ IdleOpen(m) /\ IdleFree(h, m) /\ IdleOnce(m)
    BY <1>7, <1>8, <1>9, ClientAssumption DEF IdleFew, IdleOpen, IdleFree,
       IdleOnce
  <1>12. OpenOwned(h, l, m)
    BY <1>3, <1>6 DEF Owned, OpenOwned
  <1>13. /\ Ages(n, m)
         /\ \A t \in Streams : m.life[t] = "none" => n.life[t] = "none"
    BY <1>3, <1>6 DEF Ages
  <1>14. QED
    BY <1>1, <1>6, <1>9, <1>10, <1>11, <1>12, <1>13 DEF Owned

\* release() gives the stream to the pool, which closes what it has no room for.
LEMMA OwnRelease ==
  ASSUME NEW h \in Holding, NEW l, NEW n \in Net, Owned(h, l, n),
         NEW r \in Requests, NEW s \in Streams, h[r] = {s},
         NEW o \in Origins
  PROVE  LET m == Release(n, o, s)
         IN /\ m \in Net /\ Owned([h EXCEPT ![r] = {}], l, m)
            /\ Ages(n, m) /\ m.owed = n.owed
            /\ \A t : InPool(m, t) => InPool(n, t) \/ t = s
            /\ \A t \in Streams : m.life[t] = "none" => n.life[t] = "none"
  <1> DEFINE q == n.idle[o]
             g == [h EXCEPT ![r] = {}]
             a == Append(q, s)
             b == Tail(a)
             c == [n EXCEPT !.idle[o] = a]
             e == [n EXCEPT !.idle[o] = b]
             old == Head(a)
  <1>0. MaxIdle \in Nat
    BY ClientAssumption
  <1>1. n.idle \in [Origins -> Seq(Streams)] /\ q \in Seq(Streams)
    BY IdleTyped
  <1>2. /\ a \in Seq(Streams) /\ Len(a) = Len(q) + 1
        /\ DOMAIN a = 1 .. Len(q) + 1
        /\ DOMAIN q = 1 .. Len(q) /\ Len(q) \in Nat
        /\ \A i \in 1 .. Len(q) : a[i] = q[i]
        /\ a[Len(q) + 1] = s
    BY <1>1
  <1>15. /\ b \in Seq(Streams) /\ Len(b) = Len(a) - 1 /\ old \in Streams
         /\ \A i \in 1 .. Len(a) - 1 : ~(i < 1) /\ b[i] = a[i + 1]
         /\ 1 \in DOMAIN a /\ old = a[1]
    BY <1>1
  <1>16. \A i \in DOMAIN a : \/ i \in DOMAIN q /\ a[i] = q[i]
                             \/ i = Len(q) + 1 /\ a[i] = s
    <2> HIDE DEF a, q
    <2>1. QED
      BY <1>2
  <1>3. \A p \in Requests : g[p] = IF p = r THEN {} ELSE h[p]
    BY DEF Holding
  <1>4. ~InPool(n, s) /\ n.life[s] = "open"
    BY DEF Owned, IdleFree, HeldOpen
  <1>5. CASE MaxIdle = 0
    <2>1. Release(n, o, s) = CloseStream(n, s)
      BY <1>5 DEF Release, CloseEntry
    <2> DEFINE m == CloseStream(n, s)
    <2>2. /\ m \in Net /\ m.idle = n.idle /\ m.owed = n.owed /\ Ages(n, m)
          /\ \A t \in Streams : m.life[t] = "none" => n.life[t] = "none"
      BY CloseStreamNet
    <2>3. Owned(g, l, m)
      BY OwnClose
    <2>4. \A t : InPool(m, t) <=> InPool(n, t)
      BY <2>2 DEF InPool
    <2> HIDE DEF m, g
    <2>5. QED
      BY <2>1, <2>2, <2>3, <2>4 DEF m, g
  <1>6. /\ c \in Net /\ c.life = n.life /\ c.owed = n.owed
        /\ \A p \in Origins : c.idle[p] = IF p = o THEN a ELSE n.idle[p]
    <2>1. c \in Net
      BY <1>1, <1>2 DEF Net
    <2>2. QED
      BY <1>1, <2>1 DEF Net
  <1>7. /\ e \in Net /\ e.life = n.life /\ e.owed = n.owed
        /\ \A p \in Origins : e.idle[p] = IF p = o THEN b ELSE n.idle[p]
    <2>1. e \in Net
      BY <1>1, <1>15 DEF Net
    <2>2. QED
      BY <1>1, <2>1 DEF Net
  <1>14. q = n.idle[o]
    OBVIOUS
  <1> HIDE DEF c, e, g, q, a, b, old
  <1>8. \A t : InPool(c, t) <=> InPool(n, t) \/ t = s
    <2>0. \A p \in Origins : \A i \in DOMAIN n.idle[p] :
            i \in DOMAIN c.idle[p] /\ c.idle[p][i] = n.idle[p][i]
      BY <1>2, <1>6, <1>14, SMTT(60)
    <2>1. ASSUME NEW t, InPool(n, t) PROVE InPool(c, t)
      BY <2>0, <2>1 DEF InPool
    <2>2. InPool(c, s)
      <3>1. Len(q) + 1 \in DOMAIN c.idle[o] /\ c.idle[o][Len(q) + 1] = s
        BY <1>2, <1>6
      <3>2. QED
        BY <3>1 DEF InPool
    <2>3. ASSUME NEW t, InPool(c, t) PROVE InPool(n, t) \/ t = s
      <3>1. \A p \in Origins : \A i \in DOMAIN c.idle[p] :
              \/ i \in DOMAIN n.idle[p] /\ c.idle[p][i] = n.idle[p][i]
              \/ c.idle[p][i] = s
        BY <1>6, <1>14, <1>16
      <3>2. QED
        BY <2>3, <3>1 DEF InPool
    <2>4. QED
      BY <2>1, <2>2, <2>3
  <1>9. IdleOnce(c)
    <2> SUFFICES ASSUME NEW p \in Origins, NEW x \in Origins,
                        NEW i \in DOMAIN c.idle[p], NEW j \in DOMAIN c.idle[x],
                        c.idle[p][i] = c.idle[x][j]
                 PROVE  p = x /\ i = j
      BY DEF IdleOnce
    <2>1. \A y \in Origins : \A k \in DOMAIN c.idle[y] :
            \/ k \in DOMAIN n.idle[y] /\ c.idle[y][k] = n.idle[y][k]
            \/ y = o /\ k = Len(q) + 1 /\ c.idle[y][k] = s
      BY <1>6, <1>14, <1>16
    <2>2. \A y \in Origins : \A k \in DOMAIN n.idle[y] : n.idle[y][k] # s
      BY <1>4 DEF InPool
    <2>3. QED
      BY <2>1, <2>2 DEF Owned, IdleOnce
  <1>10. HeldOpen(g, n) /\ HeldOnce(g) /\ \A p \in Requests : s \notin g[p]
    BY <1>3 DEF Owned, HeldOpen, HeldOnce
  <1>11. CASE MaxIdle # 0 /\ Len(a) <= MaxIdle
    <2>1. Release(n, o, s) = c
      BY <1>11 DEF Release, c, q, a
    <2>2. IdleFew(c)
      BY <1>6, <1>11 DEF Owned, IdleFew
    <2>3. IdleOpen(c) /\ IdleFree(g, c) /\ OpenOwned(g, l, c)
      BY <1>3, <1>4, <1>6, <1>8, <1>10 DEF Owned, IdleOpen, IdleFree, OpenOwned
    <2>4. HeldOpen(g, c)
      BY <1>6, <1>10 DEF HeldOpen
    <2>5. Owned(g, l, c)
      BY <1>9, <1>10, <2>2, <2>3, <2>4 DEF Owned
    <2>6. /\ Ages(n, c)
          /\ \A t \in Streams : c.life[t] = "none" => n.life[t] = "none"
      BY <1>6 DEF Ages
    <2>7. QED
      BY <1>6, <1>8, <2>1, <2>5, <2>6 DEF g
  <1>12. CASE MaxIdle # 0 /\ ~(Len(a) <= MaxIdle)
    <2> DEFINE m == CloseStream(e, old)
    <2>1. Release(n, o, s) = m
      BY <1>12 DEF Release, CloseEntry, e, q, a, b, old
    <2>2. /\ m \in Net /\ m.idle = e.idle /\ m.owed = n.owed
          /\ \A t \in Streams :
               m.life[t] = IF t = old /\ n.life[t] = "open" THEN "closing"
                                                            ELSE n.life[t]
      <3>1. old \in Streams \cup {NoStream}
        BY <1>15
      <3>2. e \in Net /\ e.life = n.life /\ e.owed = n.owed
        BY <1>7
      <3>3. /\ m \in Net /\ m.idle = e.idle /\ m.owed = e.owed
            /\ \A t \in Streams :
                 m.life[t] = IF t = old /\ e.life[t] = "open" THEN "closing"
                                                              ELSE e.life[t]
        BY <3>1, <3>2, CloseStreamNet
      <3>4. QED
        BY <3>2, <3>3
    <2> HIDE DEF m
    <2>3. Removed(c, m, o, 1) /\ 1 \in DOMAIN c.idle[o] /\ old = c.idle[o][1]
      BY <1>6, <1>7, <1>15, <2>2, SMTT(60) DEF Removed
    <2>4. IdleOnce(m) /\ \A t : InPool(m, t) <=> InPool(c, t) /\ t # old
      BY <1>6, <1>9, <2>2, <2>3, RemovedIsGone
    <2>5. InPool(c, old)
      BY <2>3 DEF InPool
    <2>6. n.life[old] = "open" /\ \A p \in Requests : old \notin g[p]
      BY <1>3, <1>4, <1>8, <1>10, <1>15, <2>5 DEF Owned, IdleOpen, IdleFree
    <2>7. IdleFew(m)
      <3>1. Len(b) = Len(q) /\ Len(q) <= MaxIdle
        BY <1>2, <1>14, <1>15 DEF Owned, IdleFew
      <3>2. QED
        BY <1>7, <2>2, <3>1 DEF Owned, IdleFew
    <2>8. HeldOpen(g, m)
      BY <1>10, <2>2, <2>6 DEF HeldOpen
    <2>9. IdleOpen(m) /\ IdleFree(g, m)
      BY <1>3, <1>4, <1>8, <1>10, <2>2, <2>4 DEF Owned, IdleOpen, IdleFree
    <2>10. OpenOwned(g, l, m)
      BY <1>3, <1>8, <2>2, <2>4 DEF Owned, OpenOwned
    <2>11. Owned(g, l, m)
      BY <1>10, <2>4, <2>7, <2>8, <2>9, <2>10 DEF Owned
    <2>12. /\ Ages(n, m)
           /\ \A t \in Streams : m.life[t] = "none" => n.life[t] = "none"
      BY <2>2 DEF Ages
    <2>13. QED
      BY <1>8, <2>1, <2>2, <2>4, <2>11, <2>12 DEF g
  <1>13. QED
    BY <1>5, <1>11, <1>12

\* Being left behind by more requests does not matter.
LEMMA OwnMore ==
  ASSUME NEW h, NEW l, NEW n, Owned(h, l, n), NEW k, l \subseteq k
  PROVE  Owned(h, k, n)
  BY DEF Owned, OpenOwned

-------------------------------------------------------------------------------
(***************************************************************************)
(* The handlers: each takes a sound pair of a request and a network to     *)
(* another one, whatever the other requests hold.                          *)
(***************************************************************************)

\* The stream a request is using, or has left.
HeldBy(q) ==
  IF q.completed THEN {}
  ELSE IF q.pending \in {"write", "read"} THEN {q.stream}
  ELSE IF q.pending = "tls" THEN {q.lower}
  ELSE {}

LeftBy(q) == IF q.left # "no" THEN {q.stream} ELSE {}

Held == [r \in Requests |-> HeldBy(req[r])]

OthersLeft(r) ==
  {req[p].stream : p \in {q \in Requests \ {r} : req[q].left # "no"}}

\* A stream of an earlier hop.
Spent(s, n) == s = NoStream \/ n.life[s] = "closed"

\* Where a request is with its streams.
Placed(q, n) ==
  /\ q.stream # NoStream => n.life[q.stream] # "none"
  /\ q.lower # NoStream => n.life[q.lower] # "none"
  /\ q.left # "no" => q.completed /\ q.pending \notin {"new", "close"}
  /\ q.pending = "new" => ~q.completed /\ q.timer = "none"
  /\ q.pending = "close" =>
       /\ q.stream \in Streams /\ n.life[q.stream] \in {"closing", "closed"}
       /\ q.next \in Origins
  /\ ~q.completed =>
       /\ q.pending \in {"dns", "connect", "tls", "write", "read"} =>
            q.origin \in Origins
       /\ IF q.pending = "tls" THEN q.lower \in Streams ELSE q.lower = NoStream
       /\ q.pending \in {"write", "read"} => q.stream \in Streams
       /\ q.pending \in {"new", "none", "dns", "connect", "tls"} =>
            Spent(q.stream, n)

\* How many hops a request may still make.
Counted(q) ==
  /\ q.redirects <= MaxRedirects /\ q.hop <= q.redirects + 1
  /\ q.pending \in {"new", "close"} => q.hop <= q.redirects

Sound(r, q, n) ==
  /\ q \in Request /\ n \in Net /\ q.id = r
  /\ Placed(q, n) /\ Counted(q) /\ Ages(net, n)
  /\ Owned([Held EXCEPT ![r] = HeldBy(q)], OthersLeft(r) \cup LeftBy(q), n)

\* The ownership invariant.
OwnerInv ==
  /\ req \in [Requests -> Request] /\ net \in Net
  /\ peer \in [Streams -> Peer]
  /\ \A r \in Requests :
       req[r].id = r /\ Placed(req[r], net) /\ Counted(req[r])
  /\ Owned(Held, Left, net)

\* What requests hold are streams.
LEMMA HeldTyped ==
  ASSUME OwnerInv PROVE Held \in Holding
  <1>1. \A r \in Requests : HeldBy(req[r]) \in SUBSET Streams
    BY DEF OwnerInv, HeldBy, Placed
  <1>2. QED
    BY <1>1 DEF Held, Holding

\* Every request is sound between the actions.
LEMMA InvSound ==
  ASSUME OwnerInv, NEW r \in Requests
  PROVE  Sound(r, req[r], net)
  <1>1. req[r] \in Request /\ net \in Net
    BY DEF OwnerInv
  <1>2. [Held EXCEPT ![r] = HeldBy(req[r])] = Held
    BY DEF Held
  <1>3. OthersLeft(r) \cup LeftBy(req[r]) = Left
    BY DEF OthersLeft, LeftBy, Left
  <1>4. Ages(net, net)
    BY DEF Ages
  <1>5. QED
    BY <1>1, <1>2, <1>3, <1>4 DEF OwnerInv, Sound

\* A step of one request, sound when it is done, keeps the invariant.
LEMMA SoundStep ==
  ASSUME OwnerInv, NEW r \in Requests, NEW x, Becomes(r, x),
         Sound(r, x.q, x.n), peer' \in [Streams -> Peer]
  PROVE  OwnerInv'
  <1>1. /\ req' \in [Requests -> Request] /\ net' \in Net /\ net' = x.n
        /\ \A p \in Requests : req'[p] = IF p = r THEN x.q ELSE req[p]
    BY DEF OwnerInv, Sound, Becomes
  <1>2. \A p \in Requests :
          req'[p].id = p /\ Placed(req'[p], net') /\ Counted(req'[p])
    <2>1. ASSUME NEW p \in Requests, p # r
          PROVE  Placed(req[p], x.n)
      <3>1. req[p] \in Request /\ Placed(req[p], net) /\ Ages(net, x.n)
        BY DEF OwnerInv, Sound
      <3>2. /\ req[p].stream # NoStream => req[p].stream \in Streams
            /\ req[p].lower # NoStream => req[p].lower \in Streams
        BY <3>1 DEF Request
      <3>3. QED
        BY <3>1, <3>2 DEF Placed, Ages, Spent
    <2>2. QED
      BY <1>1, <2>1 DEF OwnerInv, Sound
  <1>3. Held' = [Held EXCEPT ![r] = HeldBy(x.q)]
    BY <1>1 DEF Held, HeldBy
  <1>4. Left' = OthersLeft(r) \cup LeftBy(x.q)
    BY <1>1 DEF Left, OthersLeft, LeftBy
  <1>5. Owned(Held', Left', net')
    BY <1>1, <1>3, <1>4 DEF Sound
  <1>6. Owned(Held, Left, net)'
    BY <1>5 DEF Owned, HeldOpen, HeldOnce, IdleFew, IdleOpen, IdleFree,
       IdleOnce, OpenOwned, InPool
  <1>7. QED
    BY <1>1, <1>2, <1>6 DEF OwnerInv

\* The rest of the requests, seen from one.
LEMMA Focus ==
  ASSUME OwnerInv, NEW r \in Requests, NEW q, NEW n, Sound(r, q, n)
  PROVE  LET g == [Held EXCEPT ![r] = HeldBy(q)]
         IN /\ g \in Holding /\ g[r] = HeldBy(q)
            /\ \A X \in SUBSET Streams :
                 [g EXCEPT ![r] = X] = [Held EXCEPT ![r] = X]
  <1>1. HeldBy(q) \in SUBSET Streams
    BY DEF Sound, HeldBy, Placed
  <1>2. Held \in [Requests -> SUBSET Streams]
    BY HeldTyped DEF Holding
  <1>3. QED
    BY <1>1, <1>2 DEF Holding

\* complete() of a request that is not completed.
LEMMA CompleteIs ==
  ASSUME NEW q \in Request, NEW n \in Net, ~q.completed,
         NEW result \in {"none", "response", "error", "cancelled"}
  PROVE  LET x == Complete(q, n, result)
         IN /\ x.n = n /\ x.q \in Request /\ x.q.completed
            /\ x.q.result = result
            /\ x.q.id = q.id /\ x.q.pending = q.pending
            /\ x.q.stream = q.stream /\ x.q.lower = q.lower
            /\ x.q.origin = q.origin /\ x.q.next = q.next
            /\ x.q.redirects = q.redirects /\ x.q.hop = q.hop
            /\ x.q.left = q.left /\ x.q.answer = q.answer
  <1> DEFINE d == [q EXCEPT !.timer = "none", !.completed = TRUE,
                            !.result = result, !.received = <<>>,
                            !.headers_complete = FALSE]
  <1>1. <<>> \in Seq(Units)
    OBVIOUS
  <1>2. d \in Request
    BY <1>1, ZenonT(60) DEF Request
  <1>3. /\ d.completed /\ d.id = q.id /\ d.pending = q.pending
        /\ d.stream = q.stream /\ d.lower = q.lower /\ d.result = result
        /\ d.origin = q.origin /\ d.next = q.next
        /\ d.redirects = q.redirects /\ d.hop = q.hop
        /\ d.left = q.left /\ d.answer = q.answer
    BY DEF Request
  <1>4. Complete(q, n, result) = [q |-> d, n |-> n]
    <2>1. [[q EXCEPT !.timer = "none"] EXCEPT !.completed = TRUE,
             !.result = result, !.received = <<>>, !.headers_complete = FALSE]
            = d
      BY DEF Request
    <2> HIDE DEF d
    <2>2. QED
      BY <2>1 DEF Complete, StopPhaseTimeout, Pair
  <1> HIDE DEF d
  <1>5. QED
    BY <1>2, <1>3, <1>4

\* A request about to complete: it holds nothing any more.
GivenUp(r, q, n) ==
  /\ q \in Request /\ n \in Net /\ q.id = r /\ q.pending # "new"
  /\ q.stream # NoStream => n.life[q.stream] # "none"
  /\ q.lower # NoStream => n.life[q.lower] # "none"
  /\ q.left # "no" => q.pending # "close"
  /\ q.pending = "close" =>
       /\ q.stream \in Streams /\ n.life[q.stream] \in {"closing", "closed"}
       /\ q.next \in Origins
  /\ Counted(q) /\ Ages(net, n)
  /\ Owned([Held EXCEPT ![r] = {}], OthersLeft(r) \cup LeftBy(q), n)

\* complete() of a request that has given up what it held leaves it sound.
LEMMA CompleteSound ==
  ASSUME NEW r, NEW q \in Request, NEW n \in Net, ~q.completed,
         GivenUp(r, q, n),
         NEW result \in {"none", "response", "error", "cancelled"}
  PROVE  LET x == Complete(q, n, result) IN Sound(r, x.q, x.n)
  <1> DEFINE x == Complete(q, n, result)
  <1>1. /\ x.n = n /\ x.q \in Request /\ x.q.completed
        /\ x.q.id = q.id /\ x.q.pending = q.pending
        /\ x.q.stream = q.stream /\ x.q.lower = q.lower
        /\ x.q.next = q.next
        /\ x.q.redirects = q.redirects /\ x.q.hop = q.hop
        /\ x.q.left = q.left
    BY CompleteIs
  <1> HIDE DEF x
  <1>2. HeldBy(x.q) = {} /\ LeftBy(x.q) = LeftBy(q)
    BY <1>1 DEF HeldBy, LeftBy
  <1>3. Placed(x.q, x.n) /\ Counted(x.q)
    BY <1>1 DEF Placed, Counted, GivenUp
  <1>4. Sound(r, x.q, x.n)
    BY <1>1, <1>2, <1>3 DEF Sound, GivenUp
  <1>5. QED
    BY <1>4 DEF x

\* cancel() and on_timeout() close what the request holds.
LEMMA AbandonSound ==
  ASSUME OwnerInv, NEW r \in Requests, NEW q, NEW n, Sound(r, q, n),
         ~q.completed, q.pending # "new",
         NEW result \in {"none", "response", "error", "cancelled"}
  PROVE  LET x == Abandon(q, n, result) IN Sound(r, x.q, x.n)
  <1> DEFINE g == [Held EXCEPT ![r] = HeldBy(q)]
             l == OthersLeft(r) \cup LeftBy(q)
             m == CloseStream(CloseStream(n, q.lower), q.stream)
  <1>1. /\ q \in Request /\ n \in Net /\ q.id = r /\ Placed(q, n) /\ Counted(q)
        /\ Ages(net, n) /\ Owned(g, l, n) /\ q.left = "no"
    BY DEF Sound, Placed
  <1>2. /\ g \in Holding /\ g[r] = HeldBy(q)
        /\ [g EXCEPT ![r] = {}] = [Held EXCEPT ![r] = {}]
    BY Focus
  <1>3. /\ q.stream \in Streams \cup {NoStream}
        /\ q.lower \in Streams \cup {NoStream}
    BY <1>1 DEF Request
  <1> HIDE DEF g, l
  <1>4. m \in Net /\ Ages(n, m)
    BY <1>1, <1>3, CloseStreamNet, AgesTwice
  <1>5. Owned([Held EXCEPT ![r] = {}], l, m)
    <2>1. CASE q.pending \in {"write", "read"}
      <3>1. q.lower = NoStream /\ HeldBy(q) = {q.stream} /\ q.stream \in Streams
        BY <1>1, <2>1 DEF Placed, HeldBy
      <3>2. m = CloseStream(n, q.stream)
        BY <3>1 DEF CloseStream
      <3> HIDE DEF m
      <3>3. QED
        BY <1>1, <1>2, <3>1, <3>2, OwnClose
    <2>2. CASE q.pending = "tls"
      <3>1. /\ HeldBy(q) = {q.lower} /\ q.lower \in Streams
            /\ Spent(q.stream, n)
        BY <1>1, <2>2 DEF Placed, HeldBy
      <3>2. Owned([Held EXCEPT ![r] = {}], l, CloseStream(n, q.lower))
        BY <1>1, <1>2, <3>1, OwnClose
      <3>3. /\ CloseStream(n, q.lower) \in Net
            /\ \/ q.stream = NoStream
               \/ CloseStream(n, q.lower).life[q.stream] # "open"
        BY <1>1, <1>3, <3>1, CloseStreamNet DEF Ages, Spent
      <3>4. m = CloseStream(n, q.lower)
        BY <1>3, <3>3, CloseNothing
      <3>5. QED
        BY <3>2, <3>4
    <2>3. CASE q.pending \notin {"write", "read", "tls"}
      <3>1. /\ HeldBy(q) = {} /\ q.lower = NoStream
            /\ q.stream = NoStream \/ n.life[q.stream] # "open"
        BY <1>1, <2>3 DEF Placed, HeldBy, Spent, Request
      <3>2. m = n
        BY <3>1 DEF CloseStream
      <3>3. [Held EXCEPT ![r] = {}] = g
        BY <3>1 DEF g
      <3>4. QED
        BY <1>1, <3>2, <3>3
    <2>4. QED
      BY <2>1, <2>2, <2>3
  <1>6. Ages(net, m)
    BY <1>1, <1>4, AgesTwice
  <1> HIDE DEF m
  <1>7. /\ q.stream # NoStream => m.life[q.stream] # "none"
        /\ q.lower # NoStream => m.life[q.lower] # "none"
        /\ q.pending = "close" =>
             /\ q.stream \in Streams
             /\ m.life[q.stream] \in {"closing", "closed"}
             /\ q.next \in Origins
    BY <1>1, <1>3, <1>4 DEF Placed, Ages
  <1>8. GivenUp(r, q, m)
    BY <1>1, <1>4, <1>5, <1>6, <1>7 DEF GivenUp, l
  <1>9. QED
    BY <1>1, <1>4, <1>8, CompleteSound DEF Abandon, m

\* write_buffered_request() marks the request and what the server owes.
LEMMA WriteIs ==
  ASSUME NEW q \in Request, NEW n \in Net, q.stream \in Streams
  PROVE  LET x == WriteBufferedRequest(q, n)
         IN /\ x.q \in Request /\ x.q.pending = "write"
            /\ x.q.id = q.id /\ x.q.stream = q.stream /\ x.q.lower = q.lower
            /\ x.q.origin = q.origin /\ x.q.redirects = q.redirects
            /\ x.q.hop = q.hop /\ x.q.left = q.left
            /\ x.q.completed <=> q.completed
            /\ x.q.received = q.received /\ x.q.result = q.result
            /\ x.q.answer = q.answer
            /\ x.n \in Net /\ x.n.idle = n.idle /\ x.n.life = n.life
            /\ \A t \in Streams :
                 x.n.owed[t] = IF t = q.stream
                               THEN Append(n.owed[t], Tag(q.id, q.hop))
                               ELSE n.owed[t]
  <1> DEFINE t == IF "request_body" \in Timed THEN "request_body" ELSE "none"
             d == [[q EXCEPT !.pending = "write"] EXCEPT !.timer = t]
             m == [n EXCEPT !.owed[q.stream] = Append(@, Tag(q.id, q.hop))]
  <1>1. WriteBufferedRequest(q, n) = [q |-> d, n |-> m]
    BY DEF WriteBufferedRequest, StartPhaseTimeout, Pair
  <1>2. t \in Timed \cup {"none"}
    OBVIOUS
  <1> HIDE DEF t
  <1>3. d \in Request
    BY <1>2, ZenonT(60) DEF Request
  <1>4. /\ d.pending = "write" /\ d.id = q.id /\ d.stream = q.stream
        /\ d.lower = q.lower /\ d.origin = q.origin
        /\ d.redirects = q.redirects /\ d.hop = q.hop /\ d.left = q.left
        /\ d.completed <=> q.completed
        /\ d.received = q.received /\ d.result = q.result
        /\ d.answer = q.answer
    BY DEF Request
  <1>5. Tag(q.id, q.hop) \in Tags
    BY DEF Request, Tag, Tags
  <1>6. n.owed \in [Streams -> Seq(Tags)]
    BY DEF Net
  <1>7. \A s \in Streams : Append(n.owed[s], Tag(q.id, q.hop)) \in Seq(Tags)
    BY <1>5, <1>6
  <1>8. m \in Net
    BY <1>6, <1>7 DEF Net
  <1>9. /\ m.idle = n.idle /\ m.life = n.life
        /\ \A s \in Streams :
             m.owed[s] = IF s = q.stream
                         THEN Append(n.owed[s], Tag(q.id, q.hop))
                         ELSE n.owed[s]
    BY <1>6 DEF Net
  <1> HIDE DEF d, m
  <1>10. QED
    BY <1>1, <1>3, <1>4, <1>8, <1>9

\* A request with a stream to write to.
Ready(r, q, n) ==
  /\ q \in Request /\ n \in Net /\ q.id = r
  /\ q.stream \in Streams /\ n.life[q.stream] # "none"
  /\ q.lower # NoStream => n.life[q.lower] # "none"
  /\ ~q.completed => q.lower = NoStream
  /\ q.left # "no" => q.completed
  /\ q.origin \in Origins
  /\ q.redirects <= MaxRedirects /\ q.hop <= q.redirects + 1
  /\ Ages(net, n)
  /\ Owned([Held EXCEPT ![r] = IF q.completed THEN {} ELSE {q.stream}],
           OthersLeft(r) \cup LeftBy(q), n)

\* write_buffered_request() on a connection that is ready leaves it sound.
LEMMA WriteSound ==
  ASSUME OwnerInv, NEW r \in Requests, NEW q \in Request, NEW n \in Net,
         Ready(r, q, n)
  PROVE  LET x == WriteBufferedRequest(q, n) IN Sound(r, x.q, x.n)
  <1> DEFINE x == WriteBufferedRequest(q, n)
  <1>1. q.stream \in Streams
    BY DEF Ready
  <1>2. /\ x.q \in Request /\ x.q.pending = "write"
        /\ x.q.id = q.id /\ x.q.stream = q.stream /\ x.q.lower = q.lower
        /\ x.q.origin = q.origin /\ x.q.redirects = q.redirects
        /\ x.q.hop = q.hop /\ x.q.left = q.left
        /\ x.q.completed <=> q.completed
        /\ x.n \in Net /\ x.n.idle = n.idle /\ x.n.life = n.life
    BY <1>1, WriteIs
  <1> HIDE DEF x
  <1>3. /\ HeldBy(x.q) = IF q.completed THEN {} ELSE {q.stream}
        /\ LeftBy(x.q) = LeftBy(q)
    BY <1>2 DEF HeldBy, LeftBy
  <1>4. Placed(x.q, x.n) /\ Counted(x.q) /\ Ages(net, x.n)
    BY <1>2 DEF Placed, Counted, Ready, Ages
  <1> DEFINE g == [Held EXCEPT ![r] = HeldBy(x.q)]
             l == OthersLeft(r) \cup LeftBy(x.q)
  <1>5. Owned(g, l, n)
    BY <1>3 DEF Ready
  <1>6. g \in Holding
    BY <1>1, <1>3, HeldTyped DEF Holding
  <1> HIDE DEF g, l
  <1>7. Owned(g, l, x.n)
    BY <1>2, <1>5, <1>6, OwnIgnores
  <1>8. Sound(r, x.q, x.n)
    BY <1>2, <1>4, <1>7 DEF Sound, Ready, g, l
  <1>9. QED
    BY <1>8 DEF x

\* start(): the first hop and every other.
LEMMA StartSound ==
  ASSUME OwnerInv, NEW r \in Requests, NEW q \in Request, NEW n \in Net,
         Sound(r, q, n), q.pending = "none", q.left = "no",
         q.hop <= q.redirects, NEW target \in Origins \cup {"bad"}
  PROVE  LET x == Start(q, n, target) IN Sound(r, x.q, x.n)
  <1> DEFINE at == [q EXCEPT !.origin = target, !.hop = @ + 1,
                             !.left = IF q.completed THEN "hop" ELSE @]
             took == [at EXCEPT !.stream = Head(n.idle[target])]
             asks == StartPhaseTimeout(Resolve(at), "dns")
  <1>1. CASE target = "bad" \/ SelectConnectEndpoint(target) = "refused"
    <2>1. Start(q, n, target) = Complete(q, n, "error")
      BY <1>1 DEF Start
    <2>2. CASE q.completed
      <3>1. Complete(q, n, "error") = [q |-> q, n |-> n]
        BY <2>2 DEF Complete, Pair
      <3>2. QED
        BY <2>1, <3>1
    <2>3. CASE ~q.completed
      <3>1. GivenUp(r, q, n)
        <4>1. HeldBy(q) = {}
          BY <2>3 DEF HeldBy
        <4>2. QED
          BY <4>1 DEF Sound, GivenUp, Placed
      <3>2. QED
        BY <2>1, <2>3, <3>1, CompleteSound
    <2>4. QED
      BY <2>2, <2>3
  <1>2. CASE target \in Origins /\ ~(target = "bad")
             /\ SelectConnectEndpoint(target) # "refused"
    <2>0. /\ Placed(q, n) /\ Counted(q) /\ Ages(net, n) /\ q.id = r
          /\ q.hop \in Nat /\ q.redirects \in Nat
      BY DEF Sound, Request
    <2>1. /\ at \in Request /\ at.origin = target /\ at.hop = q.hop + 1
          /\ at.left = (IF q.completed THEN "hop" ELSE q.left)
          /\ at.completed <=> q.completed
          /\ at.id = q.id /\ at.stream = q.stream /\ at.lower = q.lower
          /\ at.redirects = q.redirects
      <3> DEFINE v == IF q.completed THEN "hop" ELSE q.left
      <3>1. v \in {"no", "write", "hop"} /\ q.hop + 1 \in Nat
        BY <2>0 DEF Request
      <3>2. at = [q EXCEPT !.origin = target, !.hop = q.hop + 1, !.left = v]
        OBVIOUS
      <3> HIDE DEF v
      <3>3. at \in Request
        BY <1>2, <3>1, <3>2, ZenonT(60) DEF Request
      <3>4. /\ at.origin = target /\ at.hop = q.hop + 1 /\ at.left = v
            /\ at.completed <=> q.completed
            /\ at.id = q.id /\ at.stream = q.stream /\ at.lower = q.lower
            /\ at.redirects = q.redirects
        BY <3>2 DEF Request
      <3>5. QED
        BY <3>3, <3>4 DEF v
    <2> DEFINE g == [Held EXCEPT ![r] = HeldBy(q)]
    <2>2. HeldBy(q) = {} /\ LeftBy(q) = {}
      BY DEF HeldBy, LeftBy
    <2>3. g \in Holding /\ g[r] = {} /\ g = [Held EXCEPT ![r] = {}]
          /\ \A X \in SUBSET Streams :
               [g EXCEPT ![r] = X] = [Held EXCEPT ![r] = X]
      BY <2>2, Focus
    <2>4. Owned(g, OthersLeft(r), n)
      BY <2>2 DEF Sound
    <2> HIDE DEF g, at
    <2>5. CASE n.idle[target] # <<>>
      <3> DEFINE s == Head(n.idle[target])
                 m == Take(n, target)
      <3>1. Start(q, n, target) = WriteBufferedRequest(took, m)
        BY <1>2, <2>5 DEF Start, ConnectionPoolKey, at
      <3>2. /\ m \in Net /\ m.life = n.life /\ s \in Streams
            /\ Owned([g EXCEPT ![r] = {s}], OthersLeft(r), m)
            /\ Owned(g, OthersLeft(r) \cup {s}, m) /\ InPool(n, s)
        <4>1. m \in Net /\ m.life = n.life /\ s \in Streams
          BY <1>2, <2>5, TakeNet
        <4>2. /\ Owned([g EXCEPT ![r] = {s}], OthersLeft(r), m)
              /\ Owned(g, OthersLeft(r) \cup {s}, m) /\ InPool(n, s)
          BY <1>2, <2>3, <2>4, <2>5, OwnTake
        <4>3. QED
          BY <4>1, <4>2
      <3>3. n.life[s] = "open"
        BY <2>4, <3>2 DEF Owned, IdleOpen
      <3> HIDE DEF s, m
      <3>4. took = [at EXCEPT !.stream = s]
        BY DEF s
      <3> HIDE DEF took
      <3>5. /\ took \in Request /\ took.stream = s /\ took.origin = target
            /\ took.hop = q.hop + 1 /\ took.redirects = q.redirects
            /\ took.left = (IF q.completed THEN "hop" ELSE q.left)
            /\ took.completed <=> q.completed
            /\ took.id = q.id /\ took.lower = q.lower
        BY <2>1, <3>2, <3>4, ZenonT(60) DEF Request
      <3>6. Owned([Held EXCEPT ![r] = IF took.completed THEN {} ELSE {s}],
                  OthersLeft(r) \cup LeftBy(took), m)
        <4>1. CASE q.completed
          <5>1. LeftBy(took) = {s}
            BY <3>5, <4>1 DEF LeftBy
          <5>2. QED
            BY <2>3, <3>2, <3>5, <4>1, <5>1
        <4>2. CASE ~q.completed
          <5>1. LeftBy(took) = {}
            BY <3>5, <4>2 DEF LeftBy
          <5>2. {s} \in SUBSET Streams
            BY <3>2
          <5>3. QED
            BY <2>3, <3>2, <3>5, <4>2, <5>1, <5>2
        <4>3. QED
          BY <4>1, <4>2
      <3>7. Ages(net, m)
        BY <2>0, <3>2 DEF Ages
      <3>8. Ready(r, took, m)
        BY <1>2, <2>0, <3>2, <3>3, <3>5, <3>6, <3>7
           DEF Ready, Placed, Counted
      <3>9. QED
        BY <3>1, <3>2, <3>5, <3>8, WriteSound
    <2>6. CASE n.idle[target] = <<>>
      <3>1. Start(q, n, target) = [q |-> asks, n |-> n]
        BY <1>2, <2>6 DEF Start, ConnectionPoolKey, at, Pair
      <3>2. /\ asks \in Request /\ asks.pending = "dns"
            /\ asks.origin = target /\ asks.stream = q.stream
            /\ asks.hop = q.hop + 1 /\ asks.redirects = q.redirects
            /\ asks.left = (IF q.completed THEN "hop" ELSE q.left)
            /\ asks.completed <=> q.completed
            /\ asks.id = q.id /\ asks.lower = q.lower
        <4> DEFINE t == IF "dns" \in Timed THEN "dns" ELSE "none"
        <4>1. t \in Timed \cup {"none"}
          OBVIOUS
        <4>2. asks = [[at EXCEPT !.pending = "dns"] EXCEPT !.timer = t]
          BY DEF StartPhaseTimeout, Resolve
        <4> HIDE DEF asks, t
        <4>3. asks \in Request
          BY <2>1, <4>1, <4>2, ZenonT(60) DEF Request
        <4>4. QED
          BY <2>1, <4>2, <4>3 DEF Request
      <3> HIDE DEF asks
      <3>3. HeldBy(asks) = {}
        BY <3>2 DEF HeldBy
      <3>4. Owned([Held EXCEPT ![r] = HeldBy(asks)],
                  OthersLeft(r) \cup LeftBy(asks), n)
        BY <2>3, <2>4, <3>3, OwnMore
      <3>5. Placed(asks, n) /\ Counted(asks)
        BY <1>2, <2>0, <3>2 DEF Placed, Counted
      <3>6. Sound(r, asks, n)
        BY <2>0, <3>2, <3>4, <3>5 DEF Sound
      <3>7. QED
        BY <3>1, <3>6
    <2>7. QED
      BY <2>5, <2>6
  <1>3. QED
    BY <1>1, <1>2

\* The pending field, set.
LEMMA PendingIs ==
  ASSUME NEW q \in Request,
         NEW w \in {"new", "none", "dns", "connect", "tls", "write", "read",
                    "close"}
  PROVE  LET e == [q EXCEPT !.pending = w]
         IN /\ e \in Request /\ e.pending = w /\ e.id = q.id
            /\ e.stream = q.stream /\ e.lower = q.lower
            /\ e.origin = q.origin /\ e.next = q.next
            /\ e.redirects = q.redirects /\ e.hop = q.hop
            /\ e.left = q.left
            /\ e.completed <=> q.completed
            /\ e.received = q.received /\ e.result = q.result
            /\ e.answer = q.answer
  <1> DEFINE e == [q EXCEPT !.pending = w]
  <1>1. e \in Request
    BY SMTT(60) DEF Request
  <1>2. /\ e.pending = w /\ e.id = q.id
        /\ e.stream = q.stream /\ e.lower = q.lower
        /\ e.origin = q.origin /\ e.next = q.next
        /\ e.redirects = q.redirects /\ e.hop = q.hop
        /\ e.left = q.left
        /\ e.completed <=> q.completed
        /\ e.received = q.received /\ e.result = q.result
        /\ e.answer = q.answer
    BY DEF Request
  <1>3. QED
    BY <1>1, <1>2

\* The timer, set.
LEMMA TimedIs ==
  ASSUME NEW q \in Request, NEW t \in Timed \cup {"none"}
  PROVE  LET e == [q EXCEPT !.timer = t]
         IN /\ e \in Request /\ e.pending = q.pending /\ e.id = q.id
            /\ e.stream = q.stream /\ e.lower = q.lower
            /\ e.origin = q.origin /\ e.next = q.next
            /\ e.redirects = q.redirects /\ e.hop = q.hop
            /\ e.left = q.left
            /\ e.completed <=> q.completed
            /\ e.received = q.received /\ e.result = q.result
            /\ e.answer = q.answer
  <1> DEFINE e == [q EXCEPT !.timer = t]
  <1>1. e \in Request
    BY DEF Request
  <1>2. /\ e.pending = q.pending /\ e.id = q.id
        /\ e.stream = q.stream /\ e.lower = q.lower
        /\ e.origin = q.origin /\ e.next = q.next
        /\ e.redirects = q.redirects /\ e.hop = q.hop
        /\ e.left = q.left
        /\ e.completed <=> q.completed
        /\ e.received = q.received /\ e.result = q.result
        /\ e.answer = q.answer
    BY DEF Request
  <1>3. QED
    BY <1>1, <1>2

\* start_phase_timeout() changes only the timer.
LEMMA TimerIs ==
  ASSUME NEW q, NEW phase
  PROVE  \E t \in Timed \cup {"none"} :
           StartPhaseTimeout(q, phase) = [q EXCEPT !.timer = t]
  BY DEF StartPhaseTimeout

\* on_resolved()
LEMMA ResolvedSound ==
  ASSUME OwnerInv, NEW r \in Requests, NEW q \in Request, NEW n \in Net,
         Sound(r, q, n), q.pending = "dns", NEW ok \in BOOLEAN
  PROVE  LET x == Resolved(q, n, ok) IN Sound(r, x.q, x.n)
  <1> DEFINE e == [q EXCEPT !.pending = "none"]
             d == [[q EXCEPT !.pending = "connect"] EXCEPT !.timer = "none"]
  <1>1. /\ e \in Request /\ e.pending = "none" /\ e.id = q.id
        /\ e.stream = q.stream /\ e.lower = q.lower
        /\ e.redirects = q.redirects /\ e.hop = q.hop
        /\ e.left = q.left
        /\ e.completed <=> q.completed
    BY PendingIs, ZenonT(60)
  <1>2. /\ d \in Request /\ d.pending = "connect" /\ d.id = q.id
        /\ d.stream = q.stream /\ d.lower = q.lower /\ d.origin = q.origin
        /\ d.redirects = q.redirects /\ d.hop = q.hop
        /\ d.left = q.left
        /\ d.completed <=> q.completed
    <2> DEFINE c == [q EXCEPT !.pending = "connect"]
    <2>1. /\ c \in Request /\ c.pending = "connect" /\ c.id = q.id
          /\ c.stream = q.stream /\ c.lower = q.lower /\ c.origin = q.origin
          /\ c.redirects = q.redirects /\ c.hop = q.hop
          /\ c.left = q.left
          /\ c.completed <=> q.completed
      BY PendingIs, ZenonT(60)
    <2>2. d = [c EXCEPT !.timer = "none"]
      OBVIOUS
    <2> HIDE DEF c, d
    <2>3. QED
      BY <2>1, <2>2, TimedIs
  <1>3. /\ q.completed => Resolved(q, n, ok) = [q |-> e, n |-> n]
        /\ ~q.completed /\ ~ok => Resolved(q, n, ok) = Complete(e, n, "error")
        /\ ~q.completed /\ ok => Resolved(q, n, ok) = [q |-> d, n |-> n]
    BY DEF Resolved, StopPhaseTimeout, Pair
  <1> HIDE DEF e, d
  <1>4. HeldBy(e) = HeldBy(q) /\ HeldBy(d) = HeldBy(q) /\ HeldBy(q) = {}
        /\ LeftBy(e) = LeftBy(q) /\ LeftBy(d) = LeftBy(q)
    BY <1>1, <1>2 DEF HeldBy, LeftBy
  <1>5. Sound(r, e, n)
    BY <1>1, <1>4 DEF Sound, Placed, Counted
  <1>6. ~q.completed => Sound(r, d, n)
    BY <1>2, <1>4 DEF Sound, Placed, Counted
  <1>7. ~q.completed => GivenUp(r, e, n)
    BY <1>1, <1>4, <1>5 DEF Sound, GivenUp, Placed
  <1>8. CASE q.completed
    BY <1>3, <1>5, <1>8
  <1>9. CASE ~q.completed /\ ok
    <2>1. Resolved(q, n, ok) = [q |-> d, n |-> n] /\ Sound(r, d, n)
      BY <1>3, <1>6, <1>9
    <2>2. QED
      BY <2>1
  <1>10. CASE ~q.completed /\ ~ok
    BY <1>1, <1>3, <1>7, <1>10, CompleteSound
  <1>11. QED
    BY <1>8, <1>9, <1>10

\* A connection is made with a stream that was never used.
LEMMA OpenedIsNew ==
  ASSUME NEW n, CanOpen(n)
  PROVE  Opened(n) \in Streams /\ n.life[Opened(n)] = "none"
  <1> DEFINE free == {s \in Streams : n.life[s] = "none"}
  <1>1. free # {} /\ free \subseteq Nat
    BY DEF CanOpen, Streams
  <1>2. PICK s \in free : \A t \in free : ~(t < s)
    <2> HIDE DEF free
    <2>1. QED
      BY <1>1, LeastNatural
  <1>3. /\ s \in Streams /\ n.life[s] = "none"
        /\ \A t \in Streams : n.life[t] = "none" => s <= t
    BY <1>2 DEF Streams
  <1>4. QED
    BY <1>3 DEF Opened

\* on_connected() and start_tls()
LEMMA ConnectedSound ==
  ASSUME OwnerInv, NEW r \in Requests, NEW q \in Request, NEW n \in Net,
         Sound(r, q, n), q.pending = "connect", ~q.completed,
         NEW ok \in BOOLEAN, NEW built \in BOOLEAN, ok => CanOpen(n)
  PROVE  LET x == Connected(q, n, ok, built) IN Sound(r, x.q, x.n)
  <1> DEFINE s == Opened(n)
             e == [q EXCEPT !.pending = "none"]
             g == [Held EXCEPT ![r] = HeldBy(q)]
             m == [n EXCEPT !.life[s] = "open"]
             k == [n EXCEPT !.life[s] = "destroyed"]
             w == [q EXCEPT !.stream = s]
  <1>1. /\ e \in Request /\ e.pending = "none" /\ e.id = q.id
        /\ e.stream = q.stream /\ e.lower = q.lower
        /\ e.redirects = q.redirects /\ e.hop = q.hop
        /\ e.left = q.left
        /\ e.completed <=> q.completed
    BY PendingIs, ZenonT(60)
  <1>2. /\ Placed(q, n) /\ Counted(q) /\ Ages(net, n) /\ q.id = r
        /\ q.lower = NoStream /\ Spent(q.stream, n) /\ q.left = "no"
        /\ q.origin \in Origins
        /\ q.stream \in Streams \cup {NoStream}
    BY DEF Sound, Placed, Request
  <1>3. HeldBy(q) = {} /\ LeftBy(q) = {} /\ LeftBy(e) = {}
    BY <1>1, <1>2 DEF HeldBy, LeftBy
  <1>4. /\ g \in Holding /\ g[r] = {} /\ g = [Held EXCEPT ![r] = {}]
        /\ \A X \in SUBSET Streams :
             [g EXCEPT ![r] = X] = [Held EXCEPT ![r] = X]
    BY <1>3, Focus
  <1>5. Owned(g, OthersLeft(r), n)
    BY <1>3 DEF Sound
  <1> HIDE DEF g, e
  <1>6. CASE ~ok
    <2>1. Connected(q, n, ok, built) = Complete(e, n, "error")
      BY <1>6 DEF Connected, e
    <2>2. GivenUp(r, e, n)
      BY <1>1, <1>2, <1>3, <1>4, <1>5 DEF GivenUp, Placed, Counted
    <2>3. QED
      BY <1>1, <2>1, <2>2, CompleteSound
  <1>7. CASE ok
    <2>1. s \in Streams /\ n.life[s] = "none"
      BY <1>7, OpenedIsNew
    <2> HIDE DEF s
    <2>2. /\ m \in Net /\ m.idle = n.idle
          /\ \A t \in Streams : m.life[t] = IF t = s THEN "open" ELSE n.life[t]
      BY <2>1 DEF Net, Lives
    <2>3. /\ k \in Net /\ k.idle = n.idle
          /\ \A t \in Streams : k.life[t] = IF t = s THEN "destroyed"
                                             ELSE n.life[t]
      BY <2>1 DEF Net, Lives
    <2> HIDE DEF m, k
    <2>4. Ages(net, m) /\ Ages(net, k)
      BY <1>2, <2>1, <2>2, <2>3 DEF Ages
    <2>5. Owned([Held EXCEPT ![r] = {s}], OthersLeft(r), m)
      <3>1. {s} \in SUBSET Streams
        BY <2>1
      <3>2. Owned([g EXCEPT ![r] = {s}], OthersLeft(r), m)
        BY <1>4, <1>5, <2>1, <2>2, OwnOpen
      <3>3. QED
        BY <1>4, <3>1, <3>2
    <2>6. Owned([Held EXCEPT ![r] = {}], OthersLeft(r), k)
      BY <1>4, <1>5, <2>1, <2>3, OwnIgnores
    <2>7. CASE q.origin \notin Secure
      <3>1. Connected(q, n, ok, built) = WriteBufferedRequest(w, m)
        BY <1>7, <2>7 DEF Connected, s, m
      <3>2. /\ w \in Request /\ w.stream = s /\ w.id = q.id
            /\ w.lower = q.lower /\ w.left = q.left /\ w.origin = q.origin
            /\ w.redirects = q.redirects /\ w.hop = q.hop
            /\ w.completed <=> q.completed
        BY <2>1 DEF Request
      <3> HIDE DEF w
      <3>3. LeftBy(w) = {}
        BY <1>2, <3>2 DEF LeftBy
      <3>4. Ready(r, w, m)
        BY <1>2, <2>1, <2>2, <2>4, <2>5, <3>2, <3>3 DEF Ready, Counted
      <3>5. QED
        BY <2>2, <3>1, <3>2, <3>4, WriteSound
    <2>8. CASE q.origin \in Secure /\ ~built
      <3>1. Connected(q, n, ok, built) = Complete(e, k, "error")
        BY <1>7, <2>8 DEF Connected, StartTls, s, k, e
      <3>2. GivenUp(r, e, k)
        BY <1>1, <1>2, <1>3, <2>1, <2>3, <2>4, <2>6
           DEF GivenUp, Counted, Spent
      <3>3. QED
        BY <1>1, <2>3, <3>1, <3>2, CompleteSound
    <2>9. CASE q.origin \in Secure /\ built
      <3> DEFINE v == [q EXCEPT !.pending = "tls", !.lower = s]
                 d == StartPhaseTimeout(v, "tls_handshake")
      <3>1. Connected(q, n, ok, built) = [q |-> d, n |-> m]
        BY <1>7, <2>9 DEF Connected, StartTls, Pair, s, m
      <3>2. PICK t \in Timed \cup {"none"} : d = [v EXCEPT !.timer = t]
        BY TimerIs
      <3> HIDE DEF d
      <3>3. /\ d \in Request /\ d.pending = "tls" /\ d.lower = s
            /\ d.id = q.id /\ d.stream = q.stream /\ d.left = q.left
            /\ d.origin = q.origin
            /\ d.redirects = q.redirects /\ d.hop = q.hop
            /\ d.completed <=> q.completed
        BY <2>1, <3>2 DEF Request
      <3>4. HeldBy(d) = {s} /\ LeftBy(d) = {}
        BY <1>2, <3>3 DEF HeldBy, LeftBy
      <3>5. Placed(d, m) /\ Counted(d)
        BY <1>2, <2>1, <2>2, <3>3 DEF Placed, Counted, Spent
      <3>6. Sound(r, d, m)
        BY <1>2, <2>2, <2>4, <2>5, <3>3, <3>4, <3>5 DEF Sound
      <3>7. QED
        BY <3>1, <3>6
    <2>10. QED
      BY <2>7, <2>8, <2>9
  <1>8. QED
    BY <1>6, <1>7

\* on_tls_connected()
LEMMA TlsConnectedSound ==
  ASSUME OwnerInv, NEW r \in Requests, NEW q \in Request, NEW n \in Net,
         Sound(r, q, n), q.pending = "tls", ~q.completed,
         NEW result \in {"http/1.1", "failed", "h2"}
  PROVE  LET x == TlsConnected(q, n, result) IN Sound(r, x.q, x.n)
  <1> DEFINE e == [q EXCEPT !.lower = NoStream, !.pending = "none"]
             w == [e EXCEPT !.stream = q.lower]
             g == [Held EXCEPT ![r] = HeldBy(q)]
             m == CloseStream(n, q.lower)
  <1>1. /\ Placed(q, n) /\ Counted(q) /\ Ages(net, n) /\ q.id = r
        /\ q.lower \in Streams /\ Spent(q.stream, n) /\ q.left = "no"
        /\ q.origin \in Origins /\ n.life[q.lower] # "none"
        /\ q.stream \in Streams \cup {NoStream}
    BY DEF Sound, Placed, Request, Streams, NoStream
  <1>2. /\ e \in Request /\ e.pending = "none" /\ e.lower = NoStream
        /\ e.id = q.id /\ e.stream = q.stream /\ e.left = q.left
        /\ e.origin = q.origin
        /\ e.redirects = q.redirects /\ e.hop = q.hop
        /\ e.completed <=> q.completed
    BY ZenonT(60) DEF Request
  <1> HIDE DEF e
  <1>3. /\ w \in Request /\ w.lower = NoStream /\ w.stream = q.lower
        /\ w.id = q.id /\ w.left = q.left /\ w.origin = q.origin
        /\ w.redirects = q.redirects /\ w.hop = q.hop
        /\ w.completed <=> q.completed
    BY <1>1, <1>2, ZenonT(60) DEF Request
  <1> HIDE DEF w
  <1>4. HeldBy(q) = {q.lower} /\ LeftBy(q) = {} /\ LeftBy(e) = {}
        /\ LeftBy(w) = {}
    BY <1>1, <1>2, <1>3 DEF HeldBy, LeftBy
  <1>5. /\ g \in Holding /\ g[r] = {q.lower}
        /\ [g EXCEPT ![r] = {}] = [Held EXCEPT ![r] = {}]
    BY <1>4, Focus
  <1>6. Owned(g, OthersLeft(r), n) /\ g = [Held EXCEPT ![r] = {q.lower}]
    BY <1>4 DEF Sound
  <1> HIDE DEF g
  <1>7. CASE result # "http/1.1"
    <2>1. TlsConnected(q, n, result) = Complete(e, m, "error")
      BY <1>7 DEF TlsConnected, e
    <2>2. m \in Net /\ Ages(n, m) /\ Ages(net, m)
      BY <1>1, CloseStreamNet, AgesTwice
    <2>3. Owned([Held EXCEPT ![r] = {}], OthersLeft(r), m)
      <3>1. Owned([g EXCEPT ![r] = {}], OthersLeft(r), m)
        BY <1>1, <1>5, <1>6, OwnClose
      <3>2. QED
        BY <1>5, <3>1
    <2> HIDE DEF m
    <2>4. GivenUp(r, e, m)
      BY <1>1, <1>2, <1>4, <2>2, <2>3
         DEF GivenUp, Placed, Counted, Ages
    <2>5. ~e.completed
      BY <1>2
    <2>6. QED
      BY <1>2, <2>1, <2>2, <2>4, <2>5, CompleteSound
  <1>8. CASE result = "http/1.1"
    <2>1. TlsConnected(q, n, result) = WriteBufferedRequest(w, n)
      BY <1>8 DEF TlsConnected, w, e
    <2>2. Ready(r, w, n)
      BY <1>1, <1>3, <1>4, <1>6 DEF Ready, Counted
    <2>3. QED
      BY <1>3, <2>1, <2>2, WriteSound
  <1>9. QED
    BY <1>7, <1>8

\* on_written()
LEMMA WrittenSound ==
  ASSUME OwnerInv, NEW r \in Requests, NEW q \in Request, NEW n \in Net,
         Sound(r, q, n), q.pending = "write", NEW ok \in BOOLEAN
  PROVE  LET x == Written(q, n, ok) IN Sound(r, x.q, x.n)
  <1> DEFINE e == [q EXCEPT !.pending = "none"]
             f == [q EXCEPT !.pending = "none", !.left = "write"]
             c == [q EXCEPT !.pending = "read"]
             d == StartPhaseTimeout(c, "response_header")
             g == [Held EXCEPT ![r] = HeldBy(q)]
  <1>1. /\ Placed(q, n) /\ Counted(q) /\ Ages(net, n) /\ q.id = r
    BY DEF Sound
  <1>2. CASE q.completed
    <2>1. Written(q, n, ok) = [q |-> e, n |-> n]
      BY <1>2 DEF Written, Pair
    <2>2. /\ e \in Request /\ e.pending = "none" /\ e.id = q.id
          /\ e.stream = q.stream /\ e.lower = q.lower
          /\ e.redirects = q.redirects /\ e.hop = q.hop
          /\ e.left = q.left
          /\ e.completed <=> q.completed
      BY PendingIs, ZenonT(60)
    <2> HIDE DEF e
    <2>3. HeldBy(e) = HeldBy(q) /\ LeftBy(e) = LeftBy(q)
      BY <1>2, <2>2 DEF HeldBy, LeftBy
    <2>4. Placed(e, n) /\ Counted(e)
      BY <1>1, <1>2, <2>2 DEF Placed, Counted
    <2>5. Sound(r, e, n)
      BY <2>2, <2>3, <2>4 DEF Sound
    <2>6. QED
      BY <2>1, <2>5
  <1>3. CASE ~q.completed /\ ~ok
    <2>1. Written(q, n, ok) = Complete(f, n, "error")
      BY <1>3 DEF Written
    <2>2. /\ f \in Request /\ f.pending = "none" /\ f.id = q.id
          /\ f.stream = q.stream /\ f.lower = q.lower
          /\ f.redirects = q.redirects /\ f.hop = q.hop /\ f.left = "write"
          /\ f.completed <=> q.completed
      BY ZenonT(60) DEF Request
    <2> HIDE DEF f
    <2>3. /\ HeldBy(q) = {q.stream} /\ q.stream \in Streams
          /\ LeftBy(q) = {} /\ LeftBy(f) = {q.stream}
      BY <1>1, <1>3, <2>2 DEF HeldBy, LeftBy, Placed
    <2>4. /\ g \in Holding /\ g[r] = {q.stream}
          /\ [g EXCEPT ![r] = {}] = [Held EXCEPT ![r] = {}]
      BY <2>3, Focus
    <2>5. Owned(g, OthersLeft(r), n)
      BY <2>3 DEF Sound
    <2> HIDE DEF g
    <2>6. Owned([Held EXCEPT ![r] = {}], OthersLeft(r) \cup {q.stream}, n)
      BY <2>3, <2>4, <2>5, OwnLeave
    <2>7. GivenUp(r, f, n)
      BY <1>1, <2>2, <2>3, <2>6 DEF GivenUp, Placed, Counted
    <2>8. ~f.completed
      BY <1>3, <2>2
    <2>9. QED
      BY <2>1, <2>2, <2>7, <2>8, CompleteSound
  <1>4. CASE ~q.completed /\ ok
    <2>1. Written(q, n, ok) = [q |-> d, n |-> n]
      BY <1>4 DEF Written, Pair
    <2>2. PICK t \in Timed \cup {"none"} : d = [c EXCEPT !.timer = t]
      BY TimerIs
    <2>3. /\ c \in Request /\ c.pending = "read" /\ c.id = q.id
          /\ c.stream = q.stream /\ c.lower = q.lower /\ c.origin = q.origin
          /\ c.redirects = q.redirects /\ c.hop = q.hop
          /\ c.left = q.left
          /\ c.completed <=> q.completed
      BY PendingIs, ZenonT(60)
    <2> HIDE DEF c, d
    <2>4. /\ d \in Request /\ d.pending = "read" /\ d.id = q.id
          /\ d.stream = q.stream /\ d.lower = q.lower /\ d.origin = q.origin
          /\ d.redirects = q.redirects /\ d.hop = q.hop
          /\ d.left = q.left
          /\ d.completed <=> q.completed
      BY <2>2, <2>3, TimedIs
    <2>5. HeldBy(d) = HeldBy(q) /\ LeftBy(d) = LeftBy(q)
      BY <1>4, <2>4 DEF HeldBy, LeftBy
    <2>6. Placed(d, n) /\ Counted(d)
      BY <1>1, <1>4, <2>4 DEF Placed, Counted
    <2>7. Sound(r, d, n)
      BY <2>4, <2>5, <2>6 DEF Sound
    <2>8. QED
      BY <2>1, <2>7
  <1>5. QED
    BY <1>2, <1>3, <1>4

\* Two records of a request that use its streams alike.
SameUse(q, d) ==
  /\ d.id = q.id /\ d.pending = q.pending /\ q.pending # "new"
  /\ d.stream = q.stream /\ d.lower = q.lower
  /\ d.origin = q.origin /\ d.next = q.next
  /\ d.redirects = q.redirects /\ d.hop = q.hop /\ d.left = q.left
  /\ d.completed <=> q.completed

\* A request that uses the same connections stays sound.
LEMMA SameSound ==
  ASSUME NEW r, NEW q, NEW n, Sound(r, q, n), NEW d \in Request, SameUse(q, d)
  PROVE  Sound(r, d, n)
  <1>1. HeldBy(d) = HeldBy(q) /\ LeftBy(d) = LeftBy(q)
    BY DEF SameUse, HeldBy, LeftBy
  <1>2. Placed(d, n) /\ Counted(d)
    BY DEF Sound, SameUse, Placed, Counted
  <1>3. QED
    BY <1>1, <1>2 DEF Sound, SameUse

\* A request that has read its response and still has the connection.
Served(r, q, n) ==
  /\ q \in Request /\ n \in Net /\ q.id = r /\ ~q.completed
  /\ q.pending = "none" /\ q.stream \in Streams /\ q.lower = NoStream
  /\ q.left = "no" /\ q.origin \in Origins /\ Counted(q)
  /\ n.life[q.stream] # "none" /\ Ages(net, n)
  /\ Owned([Held EXCEPT ![r] = {q.stream}], OthersLeft(r), n)

\* It is, when a read has all of it.
LEMMA ReadServed ==
  ASSUME NEW r, NEW q, NEW n, Sound(r, q, n), q.pending = "read",
         ~q.completed, NEW d \in Request, d.pending = "none",
         SameUse(q, [d EXCEPT !.pending = "read"])
  PROVE  Served(r, d, n)
  <1> DEFINE c == [d EXCEPT !.pending = "read"]
  <1>1. /\ d.id = c.id /\ d.stream = c.stream /\ d.lower = c.lower
        /\ d.origin = c.origin /\ d.next = c.next /\ d.left = c.left
        /\ d.redirects = c.redirects /\ d.hop = c.hop
        /\ d.completed <=> c.completed
    BY DEF Request
  <1>2. SameUse(q, c)
    OBVIOUS
  <1> HIDE DEF c
  <1>3. /\ d.id = q.id /\ d.stream = q.stream /\ d.lower = q.lower
        /\ d.origin = q.origin /\ d.left = q.left
        /\ d.redirects = q.redirects /\ d.hop = q.hop
        /\ d.completed <=> q.completed
    BY <1>1, <1>2 DEF SameUse
  <1>4. HeldBy(q) = {q.stream} /\ LeftBy(q) = {}
    BY DEF HeldBy, LeftBy, Sound, Placed
  <1>5. /\ q.stream \in Streams /\ q.lower = NoStream /\ q.origin \in Origins
        /\ q.left = "no" /\ n.life[q.stream] # "none"
    BY DEF Sound, Placed, Streams, NoStream
  <1>6. Counted(d)
    BY <1>3 DEF Counted, Sound
  <1>7. QED
    BY <1>3, <1>4, <1>5, <1>6 DEF Served, Sound

\* The connection of such a request can be closed or given back.
LEMMA ServedLetsGo ==
  ASSUME OwnerInv, NEW r \in Requests, NEW q \in Request, NEW n \in Net,
         Served(r, q, n)
  PROVE  LET c == CloseStream(n, q.stream)
             m == Release(n, q.origin, q.stream)
         IN /\ c \in Net /\ Ages(net, c) /\ c.life[q.stream] = "closing"
            /\ Owned([Held EXCEPT ![r] = {}], OthersLeft(r), c)
            /\ m \in Net /\ Ages(net, m)
            /\ Owned([Held EXCEPT ![r] = {}], OthersLeft(r), m)
  <1> DEFINE g == [Held EXCEPT ![r] = {q.stream}]
             s == q.stream
             o == q.origin
             c == CloseStream(n, s)
             m == Release(n, o, s)
  <1>1. /\ s \in Streams /\ o \in Origins /\ Ages(net, n)
        /\ Owned(g, OthersLeft(r), n)
    BY DEF Served
  <1>2. /\ g \in Holding /\ g[r] = {s}
        /\ [g EXCEPT ![r] = {}] = [Held EXCEPT ![r] = {}]
    BY <1>1, HeldTyped DEF Holding
  <1> HIDE DEF g, s, o
  <1>3. n.life[s] = "open"
    BY <1>1, <1>2 DEF Owned, HeldOpen
  <1>4. c \in Net /\ Ages(n, c) /\ c.life[s] = "closing"
    BY <1>1, <1>3, CloseStreamNet
  <1>5. Owned([g EXCEPT ![r] = {}], OthersLeft(r), c)
    BY <1>1, <1>2, OwnClose
  <1>6. m \in Net /\ Ages(n, m) /\ Owned([g EXCEPT ![r] = {}], OthersLeft(r), m)
    BY <1>1, <1>2, OwnRelease
  <1> HIDE DEF c, m
  <1>7. Ages(net, c) /\ Ages(net, m)
    BY <1>1, <1>4, <1>6, AgesTwice
  <1>8. QED
    BY <1>2, <1>4, <1>5, <1>6, <1>7 DEF c, m, s, o

\* complete() after close_or_release_current()
LEMMA LetGoSound ==
  ASSUME OwnerInv, NEW r \in Requests, NEW q \in Request, NEW n \in Net,
         Served(r, q, n), NEW reusable \in BOOLEAN,
         NEW result \in {"none", "response", "error", "cancelled"}
  PROVE  LET x == CloseOrRelease(q, n, reusable)
             y == Complete(x.q, x.n, result)
         IN Sound(r, y.q, y.n)
  <1> DEFINE c == CloseStream(n, q.stream)
             m == Release(n, q.origin, q.stream)
             d == [q EXCEPT !.stream = NoStream]
             x == CloseOrRelease(q, n, reusable)
  <1>1. /\ c \in Net /\ Ages(net, c) /\ c.life[q.stream] = "closing"
        /\ Owned([Held EXCEPT ![r] = {}], OthersLeft(r), c)
        /\ m \in Net /\ Ages(net, m)
        /\ Owned([Held EXCEPT ![r] = {}], OthersLeft(r), m)
    BY ServedLetsGo
  <1>2. /\ reusable => x = [q |-> d, n |-> m]
        /\ ~reusable => x = [q |-> q, n |-> c]
    BY DEF CloseOrRelease, Pair
  <1>3. /\ d \in Request /\ d.stream = NoStream /\ d.id = q.id
        /\ d.pending = q.pending /\ d.lower = q.lower /\ d.left = q.left
        /\ d.redirects = q.redirects /\ d.hop = q.hop
        /\ d.completed <=> q.completed
    BY DEF Request
  <1> HIDE DEF c, m, d, x
  <1>4. CASE reusable
    <2>1. LeftBy(d) = {}
      BY <1>3 DEF LeftBy, Served
    <2>2. GivenUp(r, d, m)
      BY <1>1, <1>3, <2>1 DEF GivenUp, Served, Counted
    <2>3. ~d.completed /\ x.q = d /\ x.n = m
      BY <1>2, <1>3, <1>4 DEF Served
    <2>4. QED
      BY <1>1, <1>3, <2>2, <2>3, CompleteSound DEF x
  <1>5. CASE ~reusable
    <2>1. LeftBy(q) = {}
      BY DEF LeftBy, Served
    <2>2. GivenUp(r, q, c)
      BY <1>1, <2>1 DEF GivenUp, Served
    <2>3. ~q.completed /\ x.q = q /\ x.n = c
      BY <1>2, <1>5 DEF Served
    <2>4. QED
      BY <1>1, <2>2, <2>3, CompleteSound DEF x
  <1>6. QED
    BY <1>4, <1>5

\* follow_redirect(): the request before it starts again,
Again(q) ==
  StopPhaseTimeout([q EXCEPT !.received = <<>>, !.headers_complete = FALSE,
                             !.redirects = @ + 1])

\* What a redirect makes of the request, before the next hop starts.
LEMMA AgainIs ==
  ASSUME NEW r, NEW q \in Request, NEW n, Served(r, q, n), NEW location,
         MayFollow(q, location)
  PROVE  LET again == Again(q)
         IN /\ again \in Request /\ again.pending = "none" /\ again.id = r
            /\ again.stream = q.stream /\ again.lower = NoStream
            /\ again.hop <= again.redirects
            /\ again.redirects <= MaxRedirects
            /\ again.left = "no" /\ ~again.completed
            /\ again.received = <<>> /\ again.result = q.result
  <1> DEFINE b == [q EXCEPT !.received = <<>>, !.headers_complete = FALSE,
                            !.redirects = q.redirects + 1]
             again == [b EXCEPT !.timer = "none"]
  <1>1. q.redirects \in Nat /\ q.hop \in Nat /\ MaxRedirects \in Nat
    BY ClientAssumption DEF Request
  <1>2. /\ b \in Request /\ b.pending = q.pending /\ b.id = q.id
        /\ b.stream = q.stream /\ b.lower = q.lower
        /\ b.redirects = q.redirects + 1 /\ b.hop = q.hop
        /\ b.left = q.left
        /\ b.completed <=> q.completed
        /\ b.received = <<>> /\ b.result = q.result
    <2>1. <<>> \in Seq(Units) /\ q.redirects + 1 \in Nat
      BY <1>1
    <2>2. b \in Request
      BY <2>1 DEF Request
    <2>3. QED
      BY <2>2 DEF Request
  <1>3. Again(q) = again
    BY DEF Again, StopPhaseTimeout
  <1> HIDE DEF b
  <1>4. /\ again \in Request /\ again.pending = "none" /\ again.id = r
        /\ again.stream = q.stream /\ again.lower = NoStream
        /\ again.redirects = q.redirects + 1 /\ again.hop = q.hop
        /\ again.left = "no"
        /\ again.completed <=> q.completed
        /\ again.received = <<>> /\ again.result = q.result
    <2>1. /\ again \in Request /\ again.pending = b.pending
          /\ again.id = b.id /\ again.stream = b.stream
          /\ again.lower = b.lower
          /\ again.redirects = b.redirects /\ again.hop = b.hop
          /\ again.left = b.left
          /\ again.completed <=> b.completed
          /\ again.received = b.received /\ again.result = b.result
      BY <1>2, TimedIs, ZenonT(60)
    <2> HIDE DEF again
    <2>2. q.pending = "none" /\ q.id = r /\ q.lower = NoStream /\ q.left = "no"
      BY DEF Served
    <2>3. QED
      BY <1>2, <2>1, <2>2
  <1> HIDE DEF again
  <1>5. again.hop <= again.redirects /\ again.redirects <= MaxRedirects
    BY <1>1, <1>4 DEF Served, Counted, MayFollow
  <1>6. ~again.completed
    BY <1>4 DEF Served
  <1>7. QED
    BY <1>3, <1>4, <1>5, <1>6

\* with its connection back in the pool,
LEMMA AgainSound ==
  ASSUME OwnerInv, NEW r \in Requests, NEW q \in Request, NEW n \in Net,
         Served(r, q, n), NEW location, MayFollow(q, location)
  PROVE  LET e == [Again(q) EXCEPT !.stream = NoStream]
             m == Release(n, q.origin, q.stream)
         IN /\ e \in Request /\ m \in Net /\ Sound(r, e, m)
            /\ e.pending = "none" /\ e.left = "no" /\ e.hop <= e.redirects
            /\ e.received = <<>> /\ e.result = q.result /\ ~e.completed
  <1> DEFINE again == Again(q)
             m == Release(n, q.origin, q.stream)
             e == [again EXCEPT !.stream = NoStream]
  <1>1. /\ m \in Net /\ Ages(net, m)
        /\ Owned([Held EXCEPT ![r] = {}], OthersLeft(r), m)
    BY ServedLetsGo
  <1>2. /\ again \in Request /\ again.pending = "none" /\ again.id = r
        /\ again.lower = NoStream
        /\ again.hop <= again.redirects
        /\ again.redirects <= MaxRedirects
        /\ again.left = "no" /\ ~again.completed
        /\ again.received = <<>> /\ again.result = q.result
    BY AgainIs
  <1> HIDE DEF again, m
  <1>3. e \in Request
    <2>1. again \in Request
      BY <1>2
    <2>2. QED
      BY <2>1, ZenonT(60) DEF Request
  <1>4. /\ e.pending = again.pending /\ e.id = again.id
        /\ e.stream = NoStream /\ e.lower = again.lower
        /\ e.redirects = again.redirects /\ e.hop = again.hop
        /\ e.left = again.left
        /\ e.completed <=> again.completed
        /\ e.received = again.received /\ e.result = again.result
    BY <1>2 DEF Request
  <1> HIDE DEF e
  <1>5. ~e.completed /\ e.hop \in Nat /\ e.redirects \in Nat
    BY <1>2, <1>3, <1>4 DEF Request
  <1>6. HeldBy(e) = {} /\ LeftBy(e) = {}
    BY <1>2, <1>4 DEF HeldBy, LeftBy
  <1>7. Placed(e, m) /\ Counted(e)
    BY <1>2, <1>4, <1>5 DEF Placed, Counted, Spent
  <1>8. Sound(r, e, m)
    BY <1>1, <1>2, <1>3, <1>4, <1>6, <1>7 DEF Sound
  <1>9. QED
    BY <1>1, <1>2, <1>3, <1>4, <1>5, <1>8 DEF e, again, m

\* or waiting for it to close.
LEMMA FollowSound ==
  ASSUME OwnerInv, NEW r \in Requests, NEW q \in Request, NEW n \in Net,
         Served(r, q, n), NEW reusable \in BOOLEAN, NEW location \in Locations
  PROVE  LET x == FollowRedirect(q, n, location, reusable)
         IN Sound(r, x.q, x.n)
  <1> DEFINE again == Again(q)
             c == CloseStream(n, q.stream)
             m == Release(n, q.origin, q.stream)
  <1>1. /\ c \in Net /\ Ages(net, c) /\ c.life[q.stream] = "closing"
        /\ Owned([Held EXCEPT ![r] = {}], OthersLeft(r), c)
    BY ServedLetsGo
  <1>2. location \in Origins \cup {"bad"}
    BY ClientAssumption
  <1>3. CASE ~MayFollow(q, location)
    <2> DEFINE d == StopPhaseTimeout(q)
    <2>1. FollowRedirect(q, n, location, reusable)
            = GiveUpRedirect(q, n, reusable)
      BY <1>3 DEF FollowRedirect
    <2>2. d = [q EXCEPT !.timer = "none"]
      BY DEF StopPhaseTimeout
    <2> HIDE DEF d
    <2>3. /\ d \in Request /\ d.pending = q.pending /\ d.id = q.id
          /\ d.stream = q.stream /\ d.lower = q.lower /\ d.origin = q.origin
          /\ d.redirects = q.redirects /\ d.hop = q.hop
          /\ d.left = q.left
          /\ d.completed <=> q.completed
      BY <2>2, TimedIs
    <2>4. Served(r, d, n)
      BY <2>3 DEF Served, Counted
    <2>5. QED
      BY <2>1, <2>3, <2>4, LetGoSound DEF GiveUpRedirect, d
  <1>4. CASE MayFollow(q, location) /\ reusable
    <2> DEFINE e == [again EXCEPT !.stream = NoStream]
    <2>1. FollowRedirect(q, n, location, reusable) = Start(e, m, location)
      BY <1>4 DEF FollowRedirect, Again
    <2>2. /\ e \in Request /\ m \in Net /\ Sound(r, e, m)
          /\ e.pending = "none" /\ e.left = "no" /\ e.hop <= e.redirects
      BY <1>4, AgainSound
    <2> HIDE DEF e, m
    <2>3. QED
      BY <1>2, <2>1, <2>2, StartSound
  <1>5. CASE MayFollow(q, location) /\ ~reusable
    <2> DEFINE f == [again EXCEPT !.pending = "close"]
               e == [f EXCEPT !.next = location]
    <2>1. FollowRedirect(q, n, location, reusable)
            = [q |-> [again EXCEPT !.pending = "close", !.next = location],
               n |-> c]
      BY <1>5 DEF FollowRedirect, Again, Pair
    <2>2. [again EXCEPT !.pending = "close", !.next = location] = e
      OBVIOUS
    <2>3. /\ again \in Request /\ again.id = r
          /\ again.stream = q.stream /\ again.lower = NoStream
          /\ again.hop <= again.redirects
          /\ again.redirects <= MaxRedirects
          /\ again.left = "no" /\ ~again.completed
      BY <1>5, AgainIs
    <2> HIDE DEF again
    <2>4. /\ f \in Request /\ f.pending = "close" /\ f.id = again.id
          /\ f.stream = again.stream /\ f.lower = again.lower
          /\ f.left = again.left
          /\ f.redirects = again.redirects /\ f.hop = again.hop
          /\ f.completed <=> again.completed
      BY <2>3, PendingIs, ZenonT(60)
    <2> HIDE DEF f
    <2>5. e \in Request
      BY <2>4 DEF Request
    <2>6. /\ e.pending = f.pending /\ e.id = f.id /\ e.next = location
          /\ e.stream = f.stream /\ e.lower = f.lower /\ e.left = f.left
          /\ e.redirects = f.redirects /\ e.hop = f.hop
          /\ e.completed <=> f.completed
      BY <2>4 DEF Request
    <2> HIDE DEF e, c
    <2>7. HeldBy(e) = {} /\ LeftBy(e) = {}
      BY <2>3, <2>4, <2>6 DEF HeldBy, LeftBy
    <2>8. Counted(e)
      <3>1. e.hop \in Nat /\ e.redirects \in Nat
        BY <2>5 DEF Request
      <3>2. QED
        BY <2>3, <2>4, <2>6, <3>1 DEF Counted
    <2>9. location \in Origins
      BY <1>2, <1>5 DEF MayFollow
    <2>10. Placed(e, c)
      BY <1>1, <2>3, <2>4, <2>6, <2>9 DEF Placed, Served
    <2>11. Sound(r, e, c)
      BY <1>1, <2>3, <2>4, <2>5, <2>6, <2>7, <2>8, <2>10 DEF Sound
    <2>12. FollowRedirect(q, n, location, reusable) = [q |-> e, n |-> c]
      BY <2>1, <2>2
    <2>13. QED
      BY <2>11, <2>12
  <1>6. QED
    BY <1>3, <1>4, <1>5

\* What a unit says.
LEMMA UnitTyped ==
  ASSUME NEW u \in Units
  PROVE  /\ u.tag \in Tags /\ u.shape.keep \in BOOLEAN
         /\ u.shape.location \in Locations \cup {"no"}
         /\ u.shape.interim \in BOOLEAN
  <1>1. u.tag \in Tags /\ u.shape \in Shapes \cup {InterimShape}
    BY DEF Units
  <1> DEFINE v == u.shape
  <1> HIDE DEF v
  <1>2. v \in Shapes => /\ v.keep \in BOOLEAN /\ v.interim \in BOOLEAN
                        /\ v.location \in Locations \cup {"no"}
    BY DEF Shapes
  <1>3. v = InterimShape => /\ v.keep \in BOOLEAN /\ v.interim \in BOOLEAN
                            /\ v.location \in Locations \cup {"no"}
    BY DEF InterimShape
  <1>4. QED
    BY <1>1, <1>2, <1>3 DEF v

\* A response takes one unit, or the two there are.
LEMMA LeastOfTwo ==
  ASSUME NEW n \in Nat \ {0}
  PROVE  /\ Min({2, n}) = IF n = 1 THEN 1 ELSE 2
         /\ Min({2, n}) \in 1 .. n
  BY LeastOfPair

\* The units a response is made of are the first that were read.
LEMMA UnitsAre ==
  ASSUME NEW bytes \in Seq(Units), bytes # <<>>
  PROVE  LET units == ResponseUnits(bytes)
             framing == Head(bytes).shape.framing
         IN /\ units \in Seq(Units) /\ Len(units) \in 1 .. Len(bytes)
            /\ \A i \in 1 .. Len(units) : units[i] = bytes[i]
            /\ Head(units) = Head(bytes)
            /\ framing = "none" => Len(units) = 1
            /\ framing = "length" /\ Len(bytes) >= 2 => Len(units) = 2
            /\ framing \notin {"none", "length"} => units = bytes
  <1> DEFINE units == ResponseUnits(bytes)
             framing == Head(bytes).shape.framing
             k == IF framing = "none" THEN 1
                  ELSE IF framing = "length" THEN Min({2, Len(bytes)})
                  ELSE Len(bytes)
  <1>1. Len(bytes) \in Nat \ {0}
    BY EmptySeq, LenProperties
  <1> DEFINE l == Min({2, Len(bytes)})
  <1>2. l = (IF Len(bytes) = 1 THEN 1 ELSE 2) /\ l \in 1 .. Len(bytes)
    BY <1>1, LeastOfTwo
  <1>3. k \in 1 .. Len(bytes)
    <2>1. 1 \in 1 .. Len(bytes) /\ Len(bytes) \in 1 .. Len(bytes)
      BY <1>1
    <2> HIDE DEF l, framing
    <2>2. QED
      BY <1>2, <2>1 DEF l
  <1>4. units = SubSeq(bytes, 1, k)
    <2>1. bytes = SubSeq(bytes, 1, Len(bytes))
      OBVIOUS
    <2>2. QED
      BY <2>1 DEF ResponseUnits
  <1>5. /\ framing = "none" => k = 1
        /\ framing = "length" /\ Len(bytes) >= 2 => k = 2
        /\ framing \notin {"none", "length"} => units = bytes
    <2>1. framing = "length" /\ Len(bytes) >= 2 => k = 2
      <3> DEFINE c == Len(bytes)
      <3>0. c \in Nat \ {0} /\ l = IF c = 1 THEN 1 ELSE 2
        BY <1>1, <1>2
      <3> HIDE DEF framing, l, c
      <3>1. c >= 2 => l = 2
        BY <3>0
      <3>2. QED
        BY <3>1 DEF l, c
    <2>2. framing \notin {"none", "length"} => units = bytes
      BY DEF ResponseUnits
    <2>3. QED
      BY <2>1, <2>2
  <1> HIDE DEF units, framing, k
  <1>6. /\ units \in Seq(Units) /\ Len(units) = k
        /\ \A i \in 1 .. k : units[i] = bytes[i]
    BY <1>1, <1>3, <1>4
  <1>7. Head(units) = Head(bytes)
    <2>1. units[1] = bytes[1] /\ units # <<>>
      BY <1>3, <1>6
    <2>2. QED
      BY <1>6, <2>1
  <1>8. QED
    BY <1>3, <1>5, <1>6, <1>7 DEF units, framing

\* An answer is the tags of its units.
LEMMA AnswerTyped ==
  ASSUME NEW units \in Seq(Units)
  PROVE  Answer(units) \in [of : SUBSET Tags, whole : BOOLEAN]
  <1>1. \A i \in DOMAIN units : units[i].tag \in Tags
    <2>1. \A i \in DOMAIN units : units[i] \in Units
      OBVIOUS
    <2>2. QED
      BY <2>1, UnitTyped
  <1>2. QED
    BY <1>1 DEF Answer

\* complete_buffered_response()
LEMMA CompleteBufferedSound ==
  ASSUME OwnerInv, NEW r \in Requests, NEW q \in Request, NEW n \in Net,
         Sound(r, q, n), q.pending = "read", ~q.completed,
         NEW units \in Seq(Units), units # <<>>, NEW reusable \in BOOLEAN
  PROVE  LET x == CompleteBuffered(q, n, units, reusable)
         IN Sound(r, x.q, x.n)
  <1> DEFINE a == Answer(units)
             done == [q EXCEPT !.pending = "none", !.answer = a]
             e == [q EXCEPT !.pending = "none"]
             location == Head(units).shape.location
             x == CloseOrRelease(done, n, reusable)
  <1>1. a \in [of : SUBSET Tags, whole : BOOLEAN]
    BY AnswerTyped
  <1> HIDE DEF a
  <1>2. done \in Request /\ done.pending = "none" /\ e \in Request
        /\ e.pending = "none"
    BY <1>1, ZenonT(60) DEF Request
  <1>3. /\ SameUse(q, [done EXCEPT !.pending = "read"])
        /\ SameUse(q, [e EXCEPT !.pending = "read"])
    <2>1. q.pending = "read"
      OBVIOUS
    <2>2. QED
      BY <2>1 DEF SameUse, Request
  <1> HIDE DEF done, e
  <1>4. Served(r, done, n) /\ Served(r, e, n)
    BY <1>2, <1>3, ReadServed
  <1>5. CASE FollowRedirects /\ location # "no"
    <2>1. CompleteBuffered(q, n, units, reusable)
            = FollowRedirect(e, n, location, reusable)
      BY <1>5 DEF CompleteBuffered, e
    <2>2. location \in Locations
      <3>1. Head(units) \in Units
        OBVIOUS
      <3>2. location \in Locations \cup {"no"}
        BY <3>1, UnitTyped
      <3>3. QED
        BY <1>5, <3>2
    <2> HIDE DEF location
    <2>3. QED
      BY <1>2, <1>4, <2>1, <2>2, FollowSound
  <1>6. CASE ~(FollowRedirects /\ location # "no")
    <2>1. CompleteBuffered(q, n, units, reusable)
            = Complete(x.q, x.n, "response")
      BY <1>6 DEF CompleteBuffered, done, a
    <2>2. QED
      BY <1>2, <1>4, <2>1, LetGoSound
  <1>7. QED
    BY <1>5, <1>6

\* A read that failed or ended the connection too early.
LEMMA FailSound ==
  ASSUME OwnerInv, NEW r \in Requests, NEW q \in Request, NEW n \in Net,
         Sound(r, q, n), q.pending = "read", ~q.completed
  PROVE  LET x == Fail(q, n) IN Sound(r, x.q, x.n)
  <1>1. Fail(q, n) = Abandon(q, n, "error")
    <2>1. q.lower = NoStream
      BY DEF Sound, Placed
    <2>2. QED
      BY <2>1 DEF Fail, Abandon, CloseStream
  <1>2. QED
    BY <1>1, AbandonSound

\* try_complete_buffered_response()
LEMMA TryCompleteSound ==
  ASSUME OwnerInv, NEW r \in Requests, NEW q \in Request, NEW n \in Net,
         Sound(r, q, n), q.pending = "read", ~q.completed, NEW eof \in BOOLEAN
  PROVE  LET x == TryComplete(q, n, eof) IN Sound(r, x.q, x.n)
  <1> DEFINE h == [q EXCEPT !.headers_complete = TRUE]
             t == StartPhaseTimeout(h, "response_body")
             seen == IF q.headers_complete THEN q ELSE t
             bytes == q.received
             verdict == ParseResponse(bytes, eof)
             shape == Head(bytes).shape
             units == ResponseUnits(bytes)
  <1>1. bytes \in Seq(Units)
    BY DEF Request
  <1>2. seen \in Request /\ SameUse(q, seen)
    <2>1. PICK u \in Timed \cup {"none"} : t = [h EXCEPT !.timer = u]
      BY TimerIs
    <2>2. h \in Request /\ SameUse(q, h)
      BY ZenonT(60) DEF Request, SameUse
    <2> HIDE DEF h, t
    <2>3. t \in Request /\ SameUse(q, t)
      BY <2>1, <2>2, TimedIs DEF SameUse
    <2>4. SameUse(q, q)
      BY DEF SameUse
    <2>5. QED
      BY <2>3, <2>4
  <1> HIDE DEF seen
  <1>3. Sound(r, seen, n) /\ seen.pending = "read" /\ ~seen.completed
    BY <1>2, SameSound DEF SameUse
  <1>4. CASE bytes = <<>> /\ eof
    <2>1. TryComplete(q, n, eof) = Fail(q, n)
      BY <1>4 DEF TryComplete
    <2>2. QED
      BY <2>1, FailSound
  <1>5. CASE bytes = <<>> /\ ~eof
    <2>1. TryComplete(q, n, eof) = [q |-> q, n |-> n]
      BY <1>5 DEF TryComplete, Pair
    <2>2. QED
      BY <2>1
  <1>6. CASE bytes # <<>> /\ verdict = "malformed"
    <2>1. TryComplete(q, n, eof) = Fail(seen, n)
      BY <1>6 DEF TryComplete, seen
    <2>2. QED
      BY <1>2, <1>3, <2>1, FailSound
  <1>7. CASE bytes # <<>> /\ verdict # "malformed" /\ verdict = "incomplete"
    <2>1. TryComplete(q, n, eof) = [q |-> seen, n |-> n]
      BY <1>7 DEF TryComplete, seen, Pair
    <2>2. QED
      BY <1>3, <2>1
  <1>8. CASE bytes # <<>> /\ verdict # "malformed" /\ verdict # "incomplete"
    <2>1. TryComplete(q, n, eof)
            = CompleteBuffered(seen, n, units, Reusable(shape))
      BY <1>8 DEF TryComplete, seen
    <2>2. units \in Seq(Units) /\ units # <<>>
      <3>1. units \in Seq(Units) /\ Len(units) \in 1 .. Len(bytes)
        BY <1>1, <1>8, UnitsAre
      <3> HIDE DEF units
      <3>2. QED
        BY <3>1
    <2>3. Reusable(shape) \in BOOLEAN
      <3>1. Head(bytes) \in Units
        BY <1>1, <1>8
      <3>2. shape.keep \in BOOLEAN
        BY <3>1, UnitTyped
      <3>3. QED
        BY <3>2 DEF Reusable
    <2> HIDE DEF units, shape
    <2>4. QED
      BY <1>2, <1>3, <2>1, <2>2, <2>3, CompleteBufferedSound
  <1>9. QED
    BY <1>4, <1>5, <1>6, <1>7, <1>8

-------------------------------------------------------------------------------
(***************************************************************************)
(* The actions keep the ownership invariant.                               *)
(***************************************************************************)

\* fetch() keeps connections with one owner.
LEMMA FetchOwner ==
  ASSUME OwnerInv, NEW r \in Requests, Fetch(r)
  PROVE  OwnerInv'
  <1> DEFINE q == [req[r] EXCEPT !.pending = "none"]
  <1>1. Sound(r, req[r], net) /\ req[r] \in Request /\ net \in Net
    BY InvSound DEF Sound
  <1>2. req[r].pending = "new"
    BY DEF Fetch
  <1>3. /\ q \in Request /\ q.pending = "none" /\ q.id = req[r].id
        /\ q.stream = req[r].stream /\ q.lower = req[r].lower
        /\ q.redirects = req[r].redirects /\ q.hop = req[r].hop
        /\ q.left = req[r].left
        /\ q.completed <=> req[r].completed
    BY <1>1, PendingIs, ZenonT(60)
  <1>4. PICK target \in Targets(r) : Becomes(r, Start(q, net, target))
    BY DEF Fetch
  <1> HIDE DEF q
  <1>5. HeldBy(q) = HeldBy(req[r]) /\ LeftBy(q) = LeftBy(req[r])
    BY <1>2, <1>3 DEF HeldBy, LeftBy
  <1>6. Placed(q, net) /\ Counted(q) /\ q.left = "no" /\ q.hop <= q.redirects
    BY <1>1, <1>2, <1>3 DEF Sound, Placed, Counted
  <1>7. Sound(r, q, net)
    BY <1>1, <1>3, <1>5, <1>6 DEF Sound
  <1>8. target \in Origins \cup {"bad"}
    BY <1>4 DEF Targets
  <1> DEFINE x == Start(q, net, target)
  <1>9. Sound(r, x.q, x.n)
    BY <1>1, <1>3, <1>6, <1>7, <1>8, StartSound
  <1>10. peer' \in [Streams -> Peer]
    BY DEF Fetch, OwnerInv
  <1> HIDE DEF x
  <1>11. Becomes(r, x)
    BY <1>4 DEF x
  <1>12. QED
    BY <1>9, <1>10, <1>11, SoundStep

\* cancel() and timeouts keep connections with one owner.
LEMMA AbandonOwner ==
  ASSUME OwnerInv, NEW r \in Requests, Cancel(r) \/ OnTimeout(r)
  PROVE  OwnerInv'
  <1>1. Sound(r, req[r], net) /\ req[r] \in Request /\ net \in Net
    BY InvSound DEF Sound
  <1>2. PICK result \in {"error", "cancelled"} :
          Becomes(r, Abandon(req[r], net, result))
    BY DEF Cancel, OnTimeout
  <1>3. ~req[r].completed
    BY DEF Cancel, OnTimeout
  <1>4. req[r].pending # "new"
    <2>1. CASE Cancel(r)
      BY <2>1 DEF Cancel
    <2>2. CASE OnTimeout(r)
      BY <2>2 DEF OnTimeout, OwnerInv, Placed
    <2>3. QED
      BY <2>1, <2>2
  <1> DEFINE x == Abandon(req[r], net, result)
  <1>5. Sound(r, x.q, x.n)
    BY <1>1, <1>3, <1>4, AbandonSound
  <1>6. peer' \in [Streams -> Peer]
    BY DEF Cancel, OnTimeout, OwnerInv
  <1> HIDE DEF x
  <1>7. Becomes(r, x)
    BY <1>2 DEF x
  <1>8. QED
    BY <1>5, <1>6, <1>7, SoundStep

\* The steps that make a connection keep connections with one owner.
LEMMA ConnectingOwner ==
  ASSUME OwnerInv, NEW r \in Requests,
         OnResolved(r) \/ OnConnected(r) \/ OnTlsConnected(r) \/ OnWritten(r)
  PROVE  OwnerInv'
  <1>1. Sound(r, req[r], net) /\ req[r] \in Request /\ net \in Net
    BY InvSound DEF Sound
  <1>2. peer' \in [Streams -> Peer]
    BY DEF OnResolved, OnConnected, OnTlsConnected, OnWritten, OwnerInv
  <1>3. CASE OnResolved(r)
    <2>1. PICK ok \in BOOLEAN : Becomes(r, Resolved(req[r], net, ok))
      BY <1>3 DEF OnResolved
    <2>2. req[r].pending = "dns"
      BY <1>3 DEF OnResolved
    <2> DEFINE x == Resolved(req[r], net, ok)
    <2>3. Sound(r, x.q, x.n)
      BY <1>1, <2>2, ResolvedSound
    <2> HIDE DEF x
    <2>4. Becomes(r, x)
      BY <2>1 DEF x
    <2>5. QED
      BY <1>2, <2>3, <2>4, SoundStep
  <1>4. CASE OnConnected(r)
    <2>1. PICK ok \in BOOLEAN, built \in BOOLEAN :
            /\ (ok => CanOpen(net))
            /\ Becomes(r, Connected(req[r], net, ok, built))
      BY <1>4 DEF OnConnected
    <2>2. req[r].pending = "connect" /\ ~req[r].completed
      BY <1>4 DEF OnConnected
    <2> DEFINE x == Connected(req[r], net, ok, built)
    <2>3. Sound(r, x.q, x.n)
      BY <1>1, <2>1, <2>2, ConnectedSound
    <2> HIDE DEF x
    <2>4. Becomes(r, x)
      BY <2>1 DEF x
    <2>5. QED
      BY <1>2, <2>3, <2>4, SoundStep
  <1>5. CASE OnTlsConnected(r)
    <2>1. PICK result \in {"http/1.1", "failed", "h2"} :
            Becomes(r, TlsConnected(req[r], net, result))
      BY <1>5 DEF OnTlsConnected
    <2>2. req[r].pending = "tls" /\ ~req[r].completed
      BY <1>5 DEF OnTlsConnected
    <2> DEFINE x == TlsConnected(req[r], net, result)
    <2>3. Sound(r, x.q, x.n)
      BY <1>1, <2>2, TlsConnectedSound
    <2> HIDE DEF x
    <2>4. Becomes(r, x)
      BY <2>1 DEF x
    <2>5. QED
      BY <1>2, <2>3, <2>4, SoundStep
  <1>6. CASE OnWritten(r)
    <2>1. PICK ok \in BOOLEAN : Becomes(r, Written(req[r], net, ok))
      BY <1>6 DEF OnWritten
    <2>2. req[r].pending = "write"
      BY <1>6 DEF OnWritten
    <2> DEFINE x == Written(req[r], net, ok)
    <2>3. Sound(r, x.q, x.n)
      BY <1>1, <2>2, WrittenSound
    <2> HIDE DEF x
    <2>4. Becomes(r, x)
      BY <2>1 DEF x
    <2>5. QED
      BY <1>2, <2>3, <2>4, SoundStep
  <1>7. QED
    BY <1>3, <1>4, <1>5, <1>6

\* on_read() keeps connections with one owner.
LEMMA OnReadOwner ==
  ASSUME OwnerInv, NEW r \in Requests, OnRead(r)
  PROVE  OwnerInv'
  <1> DEFINE s == req[r].stream
             inbox == peer[s].inbox
  <1>1. Sound(r, req[r], net) /\ req[r] \in Request /\ net \in Net
    BY InvSound DEF Sound
  <1>2. req[r].pending = "read" /\ ~req[r].completed /\ s \in Streams
    BY SMTT(60) DEF OnRead, Reading, OwnerInv, Placed
  <1>3. PICK k \in 1 .. Len(inbox) :
          /\ peer' = [peer EXCEPT ![s].inbox = SubSeq(inbox, k + 1, Len(inbox))]
          /\ Becomes(r, TryComplete([req[r] EXCEPT
                 !.received = @ \o SubSeq(inbox, 1, k)], net, FALSE))
    BY DEF OnRead
  <1>4. peer \in [Streams -> Peer] /\ inbox \in Seq(Units)
    BY <1>2 DEF OwnerInv, Peer
  <1> DEFINE new == SubSeq(inbox, 1, k)
             rest == SubSeq(inbox, k + 1, Len(inbox))
             bytes == req[r].received \o new
             q == [req[r] EXCEPT !.received = bytes]
             x == TryComplete(q, net, FALSE)
  <1> HIDE DEF s, inbox
  <1>5. new \in Seq(Units) /\ rest \in Seq(Units)
    BY <1>3, <1>4
  <1>6. bytes \in Seq(Units)
    <2>1. req[r].received \in Seq(Units)
      BY <1>1 DEF Request
    <2> HIDE DEF new
    <2>2. QED
      BY <1>5, <2>1
  <1>7. Becomes(r, x) /\ peer' = [peer EXCEPT ![s].inbox = rest]
    BY <1>3
  <1> HIDE DEF bytes, new, rest
  <1>8. q \in Request
    BY <1>1, <1>6 DEF Request
  <1>9. SameUse(req[r], q)
    BY <1>1, <1>2 DEF Request, SameUse
  <1> HIDE DEF q
  <1>10. Sound(r, q, net) /\ q.pending = "read" /\ ~q.completed
    BY <1>1, <1>2, <1>8, <1>9, SameSound DEF SameUse
  <1>11. Sound(r, x.q, x.n)
    BY <1>1, <1>8, <1>10, TryCompleteSound
  <1> HIDE DEF x
  <1>12. peer' \in [Streams -> Peer]
    <2>1. [peer[s] EXCEPT !.inbox = rest] \in Peer
      BY <1>2, <1>4, <1>5 DEF Peer, s
    <2>2. peer' = [peer EXCEPT ![s] = [peer[s] EXCEPT !.inbox = rest]]
      BY <1>7
    <2>3. QED
      BY <1>4, <2>1, <2>2
  <1>13. QED
    BY <1>7, <1>11, <1>12, SoundStep

\* EOF and read errors keep connections with one owner.
LEMMA EndOfReadOwner ==
  ASSUME OwnerInv, NEW r \in Requests, OnEof(r) \/ OnReadError(r)
  PROVE  OwnerInv'
  <1>1. Sound(r, req[r], net) /\ req[r] \in Request /\ net \in Net
    BY InvSound DEF Sound
  <1>2. req[r].pending = "read" /\ ~req[r].completed
    BY DEF OnEof, OnReadError, Reading
  <1>3. peer' \in [Streams -> Peer]
    BY DEF OnEof, OnReadError, OwnerInv
  <1>4. CASE OnEof(r)
    <2> DEFINE x == TryComplete(req[r], net, TRUE)
    <2>1. Sound(r, x.q, x.n)
      BY <1>1, <1>2, TryCompleteSound
    <2> HIDE DEF x
    <2>2. Becomes(r, x)
      BY <1>4 DEF OnEof, x
    <2>3. QED
      BY <1>3, <2>1, <2>2, SoundStep
  <1>5. CASE OnReadError(r)
    <2> DEFINE x == Fail(req[r], net)
    <2>1. Sound(r, x.q, x.n)
      BY <1>1, <1>2, FailSound
    <2> HIDE DEF x
    <2>2. Becomes(r, x)
      BY <1>5 DEF OnReadError, x
    <2>3. QED
      BY <1>3, <2>1, <2>2, SoundStep
  <1>6. QED
    BY <1>4, <1>5

\* A step of the network that leaves the requests alone.
LEMMA NetStep ==
  ASSUME OwnerInv, req' = req, net' \in Net, Ages(net, net'),
         Owned(Held, Left, net'), peer' \in [Streams -> Peer]
  PROVE  OwnerInv'
  <1>1. \A p \in Requests :
          req'[p].id = p /\ Placed(req'[p], net') /\ Counted(req'[p])
    <2>1. ASSUME NEW p \in Requests
          PROVE  Placed(req[p], net')
      <3>1. req[p] \in Request /\ Placed(req[p], net)
        BY DEF OwnerInv
      <3>2. /\ req[p].stream # NoStream => req[p].stream \in Streams
            /\ req[p].lower # NoStream => req[p].lower \in Streams
        BY <3>1 DEF Request
      <3>3. QED
        BY <3>1, <3>2 DEF Placed, Ages, Spent
    <2>2. QED
      BY <2>1 DEF OwnerInv
  <1>2. Held' = Held /\ Left' = Left
    BY DEF Held, HeldBy, Left
  <1>3. Owned(Held', Left', net')
    BY <1>2
  <1>4. Owned(Held, Left, net)'
    BY <1>3 DEF Owned, HeldOpen, HeldOnce, IdleFew, IdleOpen, IdleFree,
       IdleOnce, OpenOwned, InPool
  <1>5. QED
    BY <1>1, <1>4 DEF OwnerInv

\* The request that waited for a stream to close.
LEMMA ClosedSound ==
  ASSUME OwnerInv, NEW s \in Streams, net.life[s] = "closing",
         NEW c \in Net, c.idle = net.idle,
         \A t \in Streams :
           c.life[t] = IF t = s THEN "closed" ELSE net.life[t],
         NEW r \in Requests, req[r].pending = "close", req[r].stream = s,
         NEW q \in Request, q.pending = "none", q.id = req[r].id,
         q.stream = req[r].stream, q.lower = req[r].lower,
         q.redirects = req[r].redirects, q.hop = req[r].hop,
         q.left = req[r].left, q.completed <=> req[r].completed
  PROVE  /\ Sound(r, q, c) /\ q.left = "no" /\ q.hop <= q.redirects
         /\ req[r].next \in Origins \cup {"bad"}
  <1>1. /\ Sound(r, req[r], net) /\ req[r] \in Request /\ req[r].id = r
        /\ net \in Net
    BY InvSound DEF Sound
  <1>2. HeldBy(q) = HeldBy(req[r]) /\ LeftBy(q) = LeftBy(req[r])
    BY DEF HeldBy, LeftBy
  <1> DEFINE g == [Held EXCEPT ![r] = HeldBy(q)]
             l == OthersLeft(r) \cup LeftBy(q)
  <1>3. Owned(g, l, net)
    BY <1>1, <1>2 DEF Sound
  <1>4. g \in Holding
    BY <1>1, <1>2, Focus
  <1> HIDE DEF g, l
  <1>5. Owned(g, l, c)
    BY <1>1, <1>3, <1>4, OwnIgnores
  <1>6. /\ Placed(req[r], net) /\ Counted(req[r])
        /\ req[r].stream \in Streams \cup {NoStream}
        /\ req[r].lower \in Streams \cup {NoStream}
    BY <1>1 DEF Sound, Request
  <1>7. Placed(q, c)
    BY <1>6 DEF Placed, Spent
  <1>8. Counted(q) /\ q.hop <= q.redirects /\ q.left = "no"
        /\ req[r].next \in Origins \cup {"bad"}
    BY <1>6 DEF Counted, Placed
  <1>9. Ages(net, c)
    BY DEF Ages
  <1>10. Sound(r, q, c)
    BY <1>1, <1>5, <1>7, <1>8, <1>9 DEF Sound, g, l
  <1>11. QED
    BY <1>8, <1>10

\* Nothing is owed by a connection that has closed.
LEMMA OnClosedOwner ==
  ASSUME OwnerInv, NEW s \in Streams, OnClosed(s)
  PROVE  OwnerInv'
  <1> DEFINE c == [net EXCEPT !.life[s] = "closed", !.owed[s] = <<>>]
             waiting == {r \in Requests :
                           req[r].pending = "close" /\ req[r].stream = s}
  <1>1. net \in Net /\ Held \in Holding /\ Owned(Held, Left, net)
    BY HeldTyped DEF OwnerInv
  <1>2. net.life[s] = "closing"
    BY DEF OnClosed
  <1>3. /\ c \in Net /\ c.idle = net.idle
        /\ \A t \in Streams :
             c.life[t] = IF t = s THEN "closed" ELSE net.life[t]
    <2>1. <<>> \in Seq(Tags)
      OBVIOUS
    <2>2. c \in Net
      BY <1>1, <2>1 DEF Net, Lives
    <2>3. QED
      BY <1>1, <2>2 DEF Net
  <1>4. peer' \in [Streams -> Peer]
    <2>1. IdlePeer \in Peer
      <3>1. <<>> \in Seq(Units)
        OBVIOUS
      <3>2. QED
        BY <3>1 DEF IdlePeer, Peer
    <2>2. QED
      BY <2>1 DEF OnClosed, OwnerInv
  <1>5. IF waiting = {} THEN net' = c /\ req' = req
        ELSE \E r \in waiting :
               Becomes(r, Start([req[r] EXCEPT !.pending = "none"], c,
                                req[r].next))
    BY DEF OnClosed
  <1> HIDE DEF c
  <1>6. Ages(net, c)
    BY <1>2, <1>3 DEF Ages
  <1>7. CASE waiting = {}
    <2>1. Owned(Held, Left, c)
      BY <1>1, <1>2, <1>3, OwnIgnores
    <2>2. net' = c /\ req' = req
      BY <1>5, <1>7
    <2>3. QED
      BY <1>3, <1>4, <1>6, <2>1, <2>2, NetStep
  <1>8. CASE waiting # {}
    <2>1. PICK r \in waiting :
               Becomes(r, Start([req[r] EXCEPT !.pending = "none"], c,
                                req[r].next))
      BY <1>5, <1>8
    <2>2. /\ r \in Requests /\ req[r].pending = "close" /\ req[r].stream = s
          /\ req[r] \in Request
      BY <2>1 DEF OwnerInv
    <2> DEFINE q == [req[r] EXCEPT !.pending = "none"]
               target == req[r].next
               x == Start(q, c, target)
    <2>3. Becomes(r, x)
      BY <2>1
    <2>4. /\ q \in Request /\ q.pending = "none" /\ q.id = req[r].id
          /\ q.stream = req[r].stream /\ q.lower = req[r].lower
          /\ q.redirects = req[r].redirects /\ q.hop = req[r].hop
          /\ q.left = req[r].left
          /\ q.completed <=> req[r].completed
      BY <2>2, PendingIs, ZenonT(60)
    <2> HIDE DEF q, waiting
    <2>5. /\ Sound(r, q, c) /\ q.left = "no" /\ q.hop <= q.redirects
          /\ target \in Origins \cup {"bad"}
      BY <1>2, <1>3, <2>2, <2>4, ClosedSound
    <2> HIDE DEF target
    <2>6. Sound(r, x.q, x.n)
      BY <1>3, <2>2, <2>4, <2>5, StartSound
    <2> HIDE DEF x
    <2>7. QED
      BY <1>4, <2>2, <2>3, <2>6, SoundStep
  <1>9. QED
    BY <1>7, <1>8

\* Idle timeouts and close_idle_connections() keep connections with one owner.
LEMMA PoolStepOwner ==
  ASSUME OwnerInv, CloseIdleConnections \/ IdleTimeout
  PROVE  OwnerInv'
  <1>1. net \in Net /\ Held \in Holding /\ Owned(Held, Left, net)
    BY HeldTyped DEF OwnerInv
  <1>2. req' = req /\ peer' \in [Streams -> Peer]
    BY DEF CloseIdleConnections, IdleTimeout, OwnerInv
  <1>3. CASE CloseIdleConnections
    <2> DEFINE m == CloseAll(net)
    <2>1. m \in Net /\ Owned(Held, Left, m) /\ Ages(net, m)
      BY <1>1, OwnCloseAll
    <2> HIDE DEF m
    <2>2. net' = m
      BY <1>3 DEF CloseIdleConnections, m
    <2>3. QED
      BY <1>2, <2>1, <2>2, NetStep
  <1>4. CASE IdleTimeout
    <2>0. PICK o \in Origins : \E i \in DOMAIN net.idle[o] :
            net' = Expire(net, o, i)
      BY <1>4 DEF IdleTimeout
    <2>1. PICK i \in DOMAIN net.idle[o] : net' = Expire(net, o, i)
      BY <2>0
    <2> DEFINE m == Expire(net, o, i)
    <2>2. m \in Net /\ Owned(Held, Left, m) /\ Ages(net, m)
      BY <1>1, OwnExpire
    <2> HIDE DEF m
    <2>3. net' = m
      BY <2>1 DEF m
    <2>4. QED
      BY <1>2, <2>2, <2>3, NetStep
  <1>5. QED
    BY <1>3, <1>4

\* What a server sends: the unit goes to the inbox, and with the last one of
\* an answer the tag is no longer owed.
LEMMA SendIs ==
  ASSUME OwnerInv, NEW s \in Streams, SendHead(s) \/ SendBody(s)
  PROVE  /\ net' \in Net /\ net'.idle = net.idle /\ net'.life = net.life
         /\ peer' \in [Streams -> Peer] /\ req' = req
         /\ \A t \in Streams : t # s =>
              net'.owed[t] = net.owed[t] /\ peer'[t] = peer[t]
  <1>1. /\ net \in Net /\ net.owed \in [Streams -> Seq(Tags)]
        /\ peer \in [Streams -> Peer] /\ peer[s] \in Peer
        /\ peer[s].inbox \in Seq(Units) /\ peer[s].interims \in Nat
    BY SMTT(60) DEF OwnerInv, Net, Peer
  <1>2. net.owed[s] \in Seq(Tags) /\ net.owed[s] # <<>>
    BY <1>1 DEF SendHead, SendBody, Answering
  <1>3. Head(net.owed[s]) \in Tags /\ Tail(net.owed[s]) \in Seq(Tags)
    BY <1>2
  <1> DEFINE paid == [net EXCEPT !.owed[s] = Tail(@)]
  <1>4. /\ paid \in Net /\ paid.idle = net.idle /\ paid.life = net.life
        /\ \A t \in Streams : t # s => paid.owed[t] = net.owed[t]
    <2>1. paid \in Net
      BY <1>1, <1>3 DEF Net
    <2>2. QED
      BY <1>1, <2>1 DEF Net
  <1> HIDE DEF paid
  <1>5. CASE SendHead(s)
    <2>1. PICK shape \in Heads(s) :
            LET unit == Unit(Head(net.owed[s]), "head", shape)
                final == ~HasBody(shape) /\ ~shape.interim
            IN /\ peer' = [peer EXCEPT ![s].inbox = Append(@, unit),
                                  ![s].busy = HasBody(shape),
                                  ![s].gone = final /\ ~shape.keep,
                                  ![s].interims = @ + IF shape.interim
                                                      THEN 1 ELSE 0]
               /\ net' = IF final THEN [net EXCEPT !.owed[s] = Tail(@)]
                                  ELSE net
      BY <1>5 DEF SendHead
    <2> DEFINE unit == Unit(Head(net.owed[s]), "head", shape)
               final == ~HasBody(shape) /\ ~shape.interim
               i == peer[s].interims + IF shape.interim THEN 1 ELSE 0
               b == HasBody(shape)
               z == final /\ ~shape.keep
               box == Append(peer[s].inbox, unit)
               w == [peer[s] EXCEPT !.inbox = box, !.busy = b, !.gone = z,
                                    !.interims = i]
    <2>2. unit \in Units
      <3>1. shape \in Shapes \cup {InterimShape}
        BY <2>1 DEF Heads
      <3>2. QED
        BY <1>3, <3>1 DEF Unit, Units
    <2>3. i \in Nat /\ b \in BOOLEAN /\ z \in BOOLEAN
      BY <1>1 DEF HasBody
    <2>4. box \in Seq(Units)
      <3> HIDE DEF unit
      <3>1. QED
        BY <1>1, <2>2
    <2>5. net' = paid \/ net' = net
      BY <2>1 DEF paid
    <2>6. peer' = [peer EXCEPT ![s] = w]
      BY <1>1, <2>1 DEF Peer
    <2> HIDE DEF i, b, z, box
    <2>7. w \in Peer
      BY <1>1, <2>3, <2>4 DEF Peer
    <2> HIDE DEF w
    <2>8. /\ peer' \in [Streams -> Peer]
          /\ \A t \in Streams : t # s => peer'[t] = peer[t]
      BY <1>1, <2>6, <2>7, SMTT(60)
    <2>9. req' = req
      BY <1>5 DEF SendHead
    <2>10. QED
      BY <1>1, <1>4, <2>5, <2>8, <2>9, SMTT(60)
  <1>6. CASE SendBody(s)
    <2> DEFINE unit == Unit(Head(net.owed[s]), "body", InterimShape)
               box == Append(peer[s].inbox, unit)
    <2>1. PICK keep \in BOOLEAN :
            peer' = [peer EXCEPT ![s].busy = FALSE, ![s].gone = ~keep,
                                 ![s].inbox = Append(@, unit)]
      BY <1>6 DEF SendBody
    <2> DEFINE w == [peer[s] EXCEPT !.busy = FALSE, !.gone = ~keep,
                                    !.inbox = box]
    <2>2. unit \in Units
      BY <1>3 DEF Unit, Units
    <2>3. box \in Seq(Units)
      <3> HIDE DEF unit
      <3>1. QED
        BY <1>1, <2>2
    <2>4. net' = paid /\ req' = req
      BY <1>6 DEF SendBody, paid
    <2>5. peer' = [peer EXCEPT ![s] = w]
      BY <1>1, <2>1 DEF Peer
    <2> HIDE DEF box
    <2>6. w \in Peer
      BY <1>1, <2>3 DEF Peer
    <2> HIDE DEF w
    <2>7. /\ peer' \in [Streams -> Peer]
          /\ \A t \in Streams : t # s => peer'[t] = peer[t]
      BY <1>1, <2>5, <2>6
    <2>8. QED
      BY <1>4, <2>4, <2>7, SMTT(60)
  <1>7. QED
    BY <1>5, <1>6

\* The servers keep connections with one owner.
LEMMA ServerOwner ==
  ASSUME OwnerInv, NEW s \in Streams,
         SendHead(s) \/ SendBody(s) \/ PeerCloses(s)
  PROVE  OwnerInv'
  <1>1. net \in Net /\ Held \in Holding /\ Owned(Held, Left, net)
    BY HeldTyped DEF OwnerInv
  <1>2. CASE SendHead(s) \/ SendBody(s)
    <2>1. /\ net' \in Net /\ net'.idle = net.idle /\ net'.life = net.life
          /\ peer' \in [Streams -> Peer] /\ req' = req
      BY <1>2, SendIs
    <2>2. Owned(Held, Left, net')
      BY <1>1, <2>1, OwnIgnores
    <2>3. Ages(net, net')
      BY <2>1 DEF Ages
    <2>4. QED
      BY <2>1, <2>2, <2>3, NetStep
  <1>3. CASE PeerCloses(s)
    <2>1. net' = net /\ req' = req
      BY <1>3 DEF PeerCloses
    <2>2. peer' \in [Streams -> Peer]
      <3>1. peer \in [Streams -> Peer] /\ peer' = [peer EXCEPT ![s].gone = TRUE]
        BY <1>3 DEF PeerCloses, OwnerInv
      <3>2. [peer[s] EXCEPT !.gone = TRUE] \in Peer
        BY <3>1 DEF Peer
      <3>3. QED
        BY <3>1, <3>2
    <2>3. Ages(net, net')
      BY <2>1 DEF Ages
    <2>4. Owned(Held, Left, net') /\ net' \in Net
      BY <1>1, <2>1
    <2>5. QED
      BY <2>1, <2>2, <2>3, <2>4, NetStep
  <1>4. QED
    BY <1>2, <1>3

\* Initially every connection is unused.
LEMMA InitOwner ==
  ASSUME Init PROVE OwnerInv
  <1> DEFINE blank == [of |-> {}, whole |-> TRUE]
  <1>1. ASSUME NEW r \in Requests
        PROVE  NewRequest(r) \in Request
    <2>1. blank \in [of : SUBSET Tags, whole : BOOLEAN] /\ <<>> \in Seq(Units)
      OBVIOUS
    <2> HIDE DEF blank
    <2>2. QED
      BY <2>1 DEF NewRequest, Request, blank
  <1>2. ASSUME NEW r \in Requests
        PROVE  /\ NewRequest(r).id = r /\ NewRequest(r).pending = "new"
               /\ NewRequest(r).stream = NoStream
               /\ NewRequest(r).lower = NoStream
               /\ NewRequest(r).timer = "none"
               /\ NewRequest(r).redirects = 0 /\ NewRequest(r).hop = 0
               /\ NewRequest(r).left = "no" /\ ~NewRequest(r).completed
    BY DEF NewRequest
  <1>3. \A r \in Requests : req[r] = NewRequest(r)
    BY DEF Init
  <1>4. req \in [Requests -> Request]
    BY <1>1 DEF Init
  <1>5. /\ net \in Net /\ net.idle = [o \in Origins |-> <<>>]
        /\ net.life = [s \in Streams |-> "none"]
    <2>1. <<>> \in Seq(Streams) /\ <<>> \in Seq(Tags)
      OBVIOUS
    <2>2. QED
      BY <2>1 DEF Init, NoConnections, Net, Lives
  <1>6. peer \in [Streams -> Peer]
    <2>1. <<>> \in Seq(Units)
      OBVIOUS
    <2>2. QED
      BY <2>1 DEF Init, IdlePeer, Peer
  <1>7. MaxRedirects \in Nat /\ MaxIdle \in Nat
    BY ClientAssumption
  <1>8. \A r \in Requests :
          req[r].id = r /\ Placed(req[r], net) /\ Counted(req[r])
    BY <1>2, <1>3, <1>7 DEF Placed, Counted, Spent
  <1>9. \A r \in Requests : Held[r] = {}
    BY <1>2, <1>3 DEF Held, HeldBy
  <1>10. \A s : ~InPool(net, s)
    BY <1>5 DEF InPool
  <1>11. IdleFew(net) /\ IdleOnce(net)
    BY <1>5, <1>7 DEF IdleFew, IdleOnce
  <1>12. Owned(Held, Left, net)
    BY <1>5, <1>9, <1>10, <1>11
       DEF Owned, HeldOpen, HeldOnce, IdleOpen, IdleFree, OpenOwned
  <1>13. QED
    BY <1>4, <1>5, <1>6, <1>8, <1>12 DEF OwnerInv

\* Every step keeps connections with one owner.
LEMMA StepOwner ==
  ASSUME OwnerInv, [Next]_vars PROVE OwnerInv'
  <1>1. CASE UNCHANGED vars
    <2>1. req' = req /\ net' = net /\ peer' = peer
      BY <1>1 DEF vars
    <2>2. net' \in Net /\ Owned(Held, Left, net') /\ peer' \in [Streams -> Peer]
      BY <2>1 DEF OwnerInv
    <2>3. Ages(net, net')
      BY <2>1 DEF Ages
    <2>4. QED
      BY <2>1, <2>2, <2>3, NetStep
  <1>2. CASE Next
    <2>1. ASSUME NEW r \in Requests,
                 \/ Fetch(r) \/ Cancel(r) \/ OnTimeout(r)
                 \/ OnResolved(r) \/ OnConnected(r) \/ OnTlsConnected(r)
                 \/ OnWritten(r) \/ OnRead(r) \/ OnEof(r) \/ OnReadError(r)
          PROVE  OwnerInv'
      BY <2>1, FetchOwner, AbandonOwner, ConnectingOwner, OnReadOwner,
         EndOfReadOwner
    <2>2. ASSUME NEW s \in Streams,
                 OnClosed(s) \/ SendHead(s) \/ SendBody(s) \/ PeerCloses(s)
          PROVE  OwnerInv'
      BY <2>2, OnClosedOwner, ServerOwner
    <2>3. CASE CloseIdleConnections \/ IdleTimeout
      BY <2>3, PoolStepOwner
    <2>4. QED
      BY <1>2, <2>1, <2>2, <2>3 DEF Next
  <1>3. QED
    BY <1>1, <1>2

\* OwnerInv always holds.
LEMMA OwnerInvariance == Spec => []OwnerInv
  <1>1. Init => OwnerInv
    BY InitOwner
  <1>2. OwnerInv /\ [Next]_vars => OwnerInv'
    BY StepOwner
  <1>3. QED
    BY <1>1, <1>2, PTL DEF Spec

\* A stream that is open is held by the request whose work it is.
LEMMA HoldersAre ==
  ASSUME OwnerInv, NEW s \in Streams, net.life[s] = "open"
  PROVE  Holders(s) = {r \in Requests : s \in Held[r]}
  <1>1. ASSUME NEW r \in Requests
        PROVE  r \in Holders(s) <=> s \in HeldBy(req[r])
    <2>1. Placed(req[r], net) /\ req[r] \in Request /\ s # NoStream
      BY DEF OwnerInv, Streams, NoStream
    <2>2. QED
      BY <2>1 DEF Holders, HeldBy, Placed, Spent, Request
  <1>2. QED
    BY <1>1 DEF Holders, Held

\* A stream is at most once in the pool.
LEMMA EntriesAre ==
  ASSUME OwnerInv, NEW s \in Streams
  PROVE  Cardinality(Entries(net, s)) = IF InPool(net, s) THEN 1 ELSE 0
  <1>0. \A e : e \in Entries(net, s) <=>
          \E o \in Origins : \E i \in DOMAIN net.idle[o] :
            net.idle[o][i] = s /\ e = <<o, i>>
    BY DEF Entries
  <1>1. ASSUME ~InPool(net, s) PROVE Cardinality(Entries(net, s)) = 0
    <2>1. Entries(net, s) = {}
      BY <1>0, <1>1 DEF InPool
    <2>2. QED
      BY <2>1, FS_EmptySet
  <1>2. ASSUME InPool(net, s) PROVE Cardinality(Entries(net, s)) = 1
    <2>1. PICK o \in Origins : \E i \in DOMAIN net.idle[o] : net.idle[o][i] = s
      BY <1>2 DEF InPool
    <2>2. PICK i \in DOMAIN net.idle[o] : net.idle[o][i] = s
      BY <2>1
    <2>3. IdleOnce(net)
      BY DEF OwnerInv, Owned
    <2>4. \A e : e \in Entries(net, s) <=> e = <<o, i>>
      BY <1>0, <2>1, <2>2, <2>3 DEF IdleOnce
    <2>5. Entries(net, s) = {<<o, i>>}
      BY <2>4
    <2>6. QED
      BY <2>5, FS_Singleton
  <1>3. QED
    BY <1>1, <1>2

\* OwnerInv gives the property.
LEMMA OwnerMeans ==
  ASSUME OwnerInv PROVE OneOwner
  <1>1. TypeOK
    BY DEF OwnerInv, TypeOK, Counted
  <1>2. Cardinality({}) = 0 /\ \A e : Cardinality({e}) = 1
    BY FS_EmptySet, FS_Singleton
  <1>3. PoolKept(net)
    <2>1. \A s \in Streams : Cardinality(Entries(net, s)) <= 1
      BY EntriesAre
    <2>2. \A o \in Origins : \A i \in DOMAIN net.idle[o] :
            net.life[net.idle[o][i]] = "open"
      <3> SUFFICES ASSUME NEW o \in Origins, NEW i \in DOMAIN net.idle[o]
                   PROVE  net.life[net.idle[o][i]] = "open"
        OBVIOUS
      <3>1. net \in Net /\ IdleOpen(net)
        BY DEF OwnerInv, Owned
      <3>2. net.idle[o][i] \in Streams
        BY <3>1, IdleTyped
      <3>3. QED
        BY <3>1, <3>2 DEF IdleOpen, InPool
    <2>3. QED
      BY <2>1, <2>2 DEF PoolKept, OwnerInv, Owned, IdleFew
  <1>4. ASSUME NEW s \in Streams, net.life[s] = "open", s \notin Left
        PROVE  Cardinality(Entries(net, s)) + Cardinality(Holders(s)) = 1
    <2>1. Holders(s) = {r \in Requests : s \in Held[r]}
      BY <1>4, HoldersAre
    <2>2. InPool(net, s) \/ \E r \in Requests : s \in Held[r]
      BY <1>4 DEF OwnerInv, Owned, OpenOwned
    <2>3. CASE InPool(net, s)
      <3>1. Holders(s) = {}
        BY <2>1, <2>3 DEF OwnerInv, Owned, IdleFree
      <3>2. QED
        BY <1>2, <2>3, <3>1, EntriesAre
    <2>4. CASE ~InPool(net, s)
      <3>1. PICK r \in Requests : s \in Held[r]
        BY <2>2, <2>4
      <3>2. Holders(s) = {r}
        BY <2>1, <3>1 DEF OwnerInv, Owned, HeldOnce
      <3>3. Cardinality(Holders(s)) = 1
        BY <1>2, <3>2
      <3>4. Cardinality(Entries(net, s)) = 0
        BY <2>4, EntriesAre
      <3>5. QED
        BY <3>3, <3>4
    <2>5. QED
      BY <2>3, <2>4
  <1>5. QED
    BY <1>1, <1>3, <1>4 DEF OneOwner

\* Whatever is cancelled, times out, expires or is redirected, an open
\* connection has one owner, the pool or a request at work, unless a completed
\* request has left it behind; and the pool keeps open connections only, each
\* once and never more of an origin than max_idle_connections_per_origin
\* (connection_pool and request_state of src/http/client.cpp).
THEOREM OwnsOnce == Spec => []OneOwner
  <1>1. OwnerInv => OneOwner
    BY OwnerMeans
  <1>2. QED
    BY <1>1, OwnerInvariance, PTL

-------------------------------------------------------------------------------
(***************************************************************************)
(* What is on its way through the connections, when no server sends an     *)
(* interim response: the answer to the request at work on a connection,    *)
(* as far as the server has sent it, and nothing on a connection that is   *)
(* idle, new or in a handshake.                                            *)
(***************************************************************************)

Quiet(n, p, s) == n.owed[s] = <<>> /\ p[s].inbox = <<>> /\ ~p[s].busy

\* How far the answer t is: not begun, its head but not yet its body, or whole,
\* without a body or with one.
Stage(t, units, owed, busy) ==
  \/ units = <<>> /\ owed = <<t>> /\ ~busy
  \/ /\ Len(units) = 1 /\ units[1].tag = t /\ HasBody(units[1].shape)
     /\ owed = <<t>> /\ busy
  \/ /\ Len(units) = 1 /\ units[1].tag = t /\ ~HasBody(units[1].shape)
     /\ owed = <<>> /\ ~busy
  \/ /\ Len(units) = 2 /\ units[1].tag = t /\ HasBody(units[1].shape)
     /\ units[2].tag = t /\ owed = <<>> /\ ~busy

Staged(q, n, p) ==
  Stage(Tag(q.id, q.hop), q.received \o p[q.stream].inbox,
        n.owed[q.stream], p[q.stream].busy)

\* What has been read is not yet a response.
Waiting(q) ==
  q.received # <<>> =>
    /\ HasBody(q.received[1].shape)
    /\ q.received[1].shape.framing # "eof" => Len(q.received) = 1

Mine(q, n, p) ==
  ~q.completed =>
    /\ q.pending # "read" => q.received = <<>>
    /\ q.pending = "tls" => Quiet(n, p, q.lower)
    /\ q.pending \in {"write", "read"} => Staged(q, n, p) /\ Waiting(q)

Answered(q) ==
  q.result = "response" =>
    /\ q.completed /\ q.pending = "none"
    /\ q.answer = [of |-> {Tag(q.id, q.hop)}, whole |-> TRUE]

Calm(n, p) ==
  \A s \in Streams : n.life[s] = "none" \/ InPool(n, s) => Quiet(n, p, s)

FlowInv ==
  /\ \A r \in Requests : Mine(req[r], net, peer) /\ Answered(req[r])
  /\ Calm(net, peer)

\* What request r may become, for the others not to notice.
Others(r) == UNION {Held[p] : p \in Requests \ {r}}

Unseen(r, n, p) ==
  \A t \in Others(r) : n.owed[t] = net.owed[t] /\ p[t] = peer[t]

Flows(r, q, n, p) ==
  Mine(q, n, p) /\ Answered(q) /\ Calm(n, p) /\ Unseen(r, n, p)

\* What the others hold is open, is not r's and is not in the pool.
LEMMA OthersAre ==
  ASSUME OwnerInv, NEW r \in Requests, NEW q, NEW n, Sound(r, q, n)
  PROVE  \A t \in Others(r) :
           /\ t \in Streams /\ n.life[t] = "open"
           /\ ~InPool(n, t) /\ t \notin HeldBy(q)
  <1> DEFINE g == [Held EXCEPT ![r] = HeldBy(q)]
  <1>1. Held \in Holding /\ HeldBy(q) \in SUBSET Streams
    BY HeldTyped DEF Sound, HeldBy, Placed
  <1>2. /\ g[r] = HeldBy(q)
        /\ \A p \in Requests \ {r} : g[p] = Held[p]
    BY <1>1 DEF Holding
  <1>3. HeldOpen(g, n) /\ HeldOnce(g) /\ IdleFree(g, n)
    BY DEF Sound, Owned
  <1> HIDE DEF g
  <1>4. SUFFICES ASSUME NEW t \in Others(r)
                 PROVE  /\ t \in Streams /\ n.life[t] = "open"
                        /\ ~InPool(n, t) /\ t \notin HeldBy(q)
    OBVIOUS
  <1>5. PICK p \in Requests \ {r} : t \in Held[p]
    BY DEF Others
  <1>6. QED
    BY <1>2, <1>3, <1>5 DEF HeldOpen, HeldOnce, IdleFree

\* Every request flows between the actions.
LEMMA InvFlows ==
  ASSUME FlowInv, NEW r \in Requests
  PROVE  Flows(r, req[r], net, peer)
  BY DEF FlowInv, Flows, Unseen

\* A step of one request that flows keeps the invariant.
LEMMA FlowStep ==
  ASSUME OwnerInv, FlowInv, NEW r \in Requests, NEW x, Becomes(r, x),
         Flows(r, x.q, x.n, peer')
  PROVE  FlowInv'
  <1>1. /\ net' = x.n
        /\ \A p \in Requests : req'[p] = IF p = r THEN x.q ELSE req[p]
    BY DEF OwnerInv, Becomes
  <1>2. ASSUME NEW p \in Requests, p # r PROVE Mine(req[p], x.n, peer')
    <2>1. Mine(req[p], net, peer) /\ HeldBy(req[p]) \subseteq Others(r)
      BY <1>2 DEF FlowInv, Others, Held
    <2>2. \A t \in HeldBy(req[p]) :
            x.n.owed[t] = net.owed[t] /\ peer'[t] = peer[t]
      BY <2>1 DEF Flows, Unseen
    <2>3. QED
      BY <2>1, <2>2 DEF Mine, HeldBy, Staged, Quiet
  <1>3. \A p \in Requests : Mine(req'[p], net', peer') /\ Answered(req'[p])
    BY <1>1, <1>2 DEF Flows, FlowInv
  <1>4. Calm(net', peer')
    BY <1>1 DEF Flows
  <1>5. QED
    BY <1>3, <1>4 DEF FlowInv, Mine, Answered, Calm, Staged, Waiting, Quiet,
       InPool

\* A step of the network that only the streams no request holds can notice.
LEMMA FlowNetStep ==
  ASSUME OwnerInv, FlowInv, req' = req, Calm(net', peer'),
         \A r \in Requests : Mine(req[r], net', peer')
  PROVE  FlowInv'
  <1>1. \A p \in Requests : Mine(req'[p], net', peer') /\ Answered(req'[p])
    BY DEF FlowInv
  <1>2. QED
    BY <1>1 DEF FlowInv, Mine, Answered, Calm, Staged, Waiting, Quiet, InPool

\* A request that has just completed without a response.
LEMMA CompleteFlows ==
  ASSUME NEW r, NEW q \in Request, NEW n \in Net, NEW p,
         q.completed => Answered(q),
         Calm(n, p), Unseen(r, n, p), NEW result \in {"error", "cancelled"}
  PROVE  LET x == Complete(q, n, result) IN Flows(r, x.q, x.n, p)
  <1> DEFINE x == Complete(q, n, result)
  <1>1. CASE q.completed
    <2>1. Complete(q, n, result) = [q |-> q, n |-> n]
      BY <1>1 DEF Complete, Pair
    <2>2. QED
      BY <1>1, <2>1 DEF Flows, Mine
  <1>2. CASE ~q.completed
    <2>1. x.n = n /\ x.q.completed /\ x.q.result = result
      BY <1>2, CompleteIs
    <2> HIDE DEF x
    <2>2. Flows(r, x.q, x.n, p)
      BY <2>1 DEF Flows, Mine, Answered
    <2>3. QED
      BY <2>2 DEF x
  <1>3. QED
    BY <1>1, <1>2

\* Closing a stream is not noticed.
LEMMA CloseFlows ==
  ASSUME NEW r, NEW n \in Net, NEW p, NEW s \in Streams \cup {NoStream},
         Calm(n, p), Unseen(r, n, p)
  PROVE  LET m == CloseStream(n, s)
         IN m \in Net /\ Calm(m, p) /\ Unseen(r, m, p)
  <1> DEFINE m == CloseStream(n, s)
  <1>1. /\ m \in Net /\ m.idle = n.idle /\ m.owed = n.owed
        /\ \A t \in Streams : m.life[t] = "none" => n.life[t] = "none"
    BY CloseStreamNet
  <1> HIDE DEF m
  <1>2. \A t : InPool(m, t) <=> InPool(n, t)
    BY <1>1 DEF InPool
  <1>3. Calm(m, p) /\ Unseen(r, m, p)
    BY <1>1, <1>2 DEF Calm, Unseen, Quiet
  <1>4. QED
    BY <1>1, <1>3 DEF m

\* A request that gives its connections up has nothing more to read.
LEMMA AbandonFlows ==
  ASSUME NEW r, NEW q \in Request, NEW n \in Net, NEW p, ~q.completed,
         Calm(n, p), Unseen(r, n, p), NEW result \in {"error", "cancelled"}
  PROVE  /\ LET x == Abandon(q, n, result) IN Flows(r, x.q, x.n, p)
         /\ LET x == Fail(q, n) IN Flows(r, x.q, x.n, p)
  <1> DEFINE a == CloseStream(n, q.lower)
             b == CloseStream(a, q.stream)
             c == CloseStream(n, q.stream)
  <1>1. /\ q.stream \in Streams \cup {NoStream}
        /\ q.lower \in Streams \cup {NoStream}
    BY DEF Request
  <1>2. /\ a \in Net /\ Calm(a, p) /\ Unseen(r, a, p)
        /\ c \in Net /\ Calm(c, p) /\ Unseen(r, c, p)
    BY <1>1, CloseFlows
  <1> HIDE DEF a
  <1>3. b \in Net /\ Calm(b, p) /\ Unseen(r, b, p)
    BY <1>1, <1>2, CloseFlows
  <1> HIDE DEF b, c
  <1>4. /\ Abandon(q, n, result) = Complete(q, b, result)
        /\ Fail(q, n) = Complete(q, c, "error")
    BY DEF Abandon, Fail, a, b, c
  <1>5. QED
    BY <1>2, <1>3, <1>4, CompleteFlows

\* A request with a quiet stream to write to.
Begins(r, q, n, p) ==
  /\ q.stream \in Streams /\ q.stream \notin Others(r)
  /\ ~InPool(n, q.stream) /\ n.life[q.stream] # "none"
  /\ Quiet(n, p, q.stream)
  /\ ~q.completed => q.received = <<>>
  /\ q.result # "response"
  /\ Calm(n, p) /\ Unseen(r, n, p)

\* write_buffered_request() on a quiet stream begins an answer.
LEMMA WriteFlows ==
  ASSUME OwnerInv, NEW r, NEW q \in Request, NEW n \in Net,
         NEW p \in [Streams -> Peer], Begins(r, q, n, p)
  PROVE  LET x == WriteBufferedRequest(q, n) IN Flows(r, x.q, x.n, p)
  <1> DEFINE x == WriteBufferedRequest(q, n)
             s == q.stream
             t == Tag(q.id, q.hop)
  <1>0. /\ s \in Streams /\ s \notin Others(r) /\ ~InPool(n, s)
        /\ n.life[s] # "none" /\ Quiet(n, p, s)
        /\ ~q.completed => q.received = <<>>
        /\ q.result # "response" /\ Calm(n, p) /\ Unseen(r, n, p)
    BY DEF Begins
  <1>1. /\ x.q.pending = "write" /\ x.q.id = q.id /\ x.q.stream = s
        /\ x.q.hop = q.hop
        /\ x.q.completed <=> q.completed
        /\ x.q.received = q.received /\ x.q.result = q.result
        /\ x.n \in Net /\ x.n.idle = n.idle /\ x.n.life = n.life
        /\ \A u \in Streams : x.n.owed[u] = IF u = s THEN Append(n.owed[u], t)
                                                     ELSE n.owed[u]
    BY <1>0, WriteIs
  <1> HIDE DEF x
  <1>2. /\ n.owed[s] = <<>> /\ p[s].inbox = <<>> /\ ~p[s].busy
    BY <1>0 DEF Quiet
  <1>3. x.n.owed[s] = <<t>>
    <2>1. Append(<<>>, t) = <<t>>
      OBVIOUS
    <2> HIDE DEF t
    <2>2. QED
      BY <1>0, <1>1, <1>2, <2>1
  <1>4. Mine(x.q, x.n, p)
    <2>1. SUFFICES ASSUME ~q.completed PROVE Staged(x.q, x.n, p) /\ Waiting(x.q)
                                             /\ x.q.received = <<>>
      BY <1>1 DEF Mine
    <2>2. x.q.received = <<>> /\ p[x.q.stream].inbox = <<>>
      BY <1>0, <1>1, <1>2, <2>1
    <2>3. x.q.received \o p[x.q.stream].inbox = <<>>
      BY <2>2
    <2>4. Tag(x.q.id, x.q.hop) = t
      BY <1>1
    <2> HIDE DEF t
    <2>5. Staged(x.q, x.n, p)
      BY <1>1, <1>2, <1>3, <2>3, <2>4 DEF Staged, Stage
    <2>6. QED
      BY <2>2, <2>5 DEF Waiting
  <1>5. \A u : InPool(x.n, u) <=> InPool(n, u)
    BY <1>1 DEF InPool
  <1>6. Calm(x.n, p) /\ Answered(x.q)
    BY <1>0, <1>1, <1>5 DEF Calm, Quiet, Answered
  <1>7. Unseen(r, x.n, p)
    <2>1. \A u \in Others(r) : u \in Streams /\ u # s
      BY <1>0, HeldTyped DEF Others, Holding
    <2>2. QED
      BY <1>0, <1>1, <2>1 DEF Unseen
  <1>8. Flows(r, x.q, x.n, p)
    BY <1>4, <1>6, <1>7 DEF Flows
  <1>9. QED
    BY <1>8 DEF x

\* start()
LEMMA StartFlows ==
  ASSUME OwnerInv, NEW r \in Requests, NEW q \in Request, NEW n \in Net,
         NEW p \in [Streams -> Peer], Sound(r, q, n), Flows(r, q, n, p),
         q.pending = "none", q.left = "no", q.result # "response",
         NEW target \in Origins \cup {"bad"}
  PROVE  LET x == Start(q, n, target) IN Flows(r, x.q, x.n, p)
  <1> DEFINE v == IF q.completed THEN "hop" ELSE q.left
             at == [q EXCEPT !.origin = target, !.hop = q.hop + 1, !.left = v]
  <1>0. /\ Mine(q, n, p) /\ Answered(q) /\ Calm(n, p) /\ Unseen(r, n, p)
        /\ ~q.completed => q.received = <<>>
    BY DEF Flows, Mine
  <1>1. CASE target = "bad" \/ SelectConnectEndpoint(target) = "refused"
    <2>1. Start(q, n, target) = Complete(q, n, "error")
      BY <1>1 DEF Start
    <2>2. QED
      BY <1>0, <2>1, CompleteFlows
  <1>2. CASE target \in Origins /\ ~(target = "bad")
             /\ SelectConnectEndpoint(target) # "refused"
    <2>1. v \in {"no", "write", "hop"} /\ q.hop + 1 \in Nat
      <3>1. q.hop \in Nat /\ q.left \in {"no", "write", "hop"}
        BY DEF Request
      <3>2. QED
        BY <3>1
    <2> DEFINE j == q.hop + 1
    <2> HIDE DEF v, j
    <2>2. at \in Request
      <3>1. at = [q EXCEPT !.origin = target, !.hop = j, !.left = v]
        BY DEF j
      <3>2. j \in Nat
        BY <2>1 DEF j
      <3> HIDE DEF at
      <3>3. QED
        BY <1>2, <2>1, <3>1, <3>2 DEF Request
    <2>3. /\ at.received = q.received /\ at.result = q.result
          /\ at.completed <=> q.completed
      BY DEF Request
    <2> HIDE DEF at
    <2>4. CASE n.idle[target] # <<>>
      <3> DEFINE s == Head(n.idle[target])
                 m == Take(n, target)
                 took == [at EXCEPT !.stream = s]
                 g == [Held EXCEPT ![r] = HeldBy(q)]
      <3>1. Start(q, n, target) = WriteBufferedRequest(took, m)
        BY <1>2, <2>4 DEF Start, ConnectionPoolKey, at, v
      <3>2. HeldBy(q) = {} /\ g \in Holding /\ g[r] = {}
        <4>1. HeldBy(q) = {}
          BY DEF HeldBy
        <4>2. QED
          BY <4>1, Focus
      <3>3. Owned(g, OthersLeft(r) \cup LeftBy(q), n)
        BY DEF Sound
      <3> HIDE DEF g
      <3>4. /\ m \in Net /\ m.life = n.life /\ m.owed = n.owed
            /\ s \in Streams /\ InPool(n, s)
        BY <1>2, <2>4, <3>2, <3>3, TakeNet, OwnTake, ZenonT(60)
      <3>5. \A t : InPool(m, t) <=> InPool(n, t) /\ t # s
        BY <1>2, <2>4, <3>2, <3>3, OwnTake, ZenonT(60)
      <3>6. n.life[s] = "open" /\ s \notin Others(r)
        BY <3>3, <3>4, OthersAre DEF Owned, IdleOpen
      <3> HIDE DEF m, s
      <3>7. /\ took \in Request /\ took.stream = s
            /\ took.received = q.received /\ took.result = q.result
            /\ took.completed <=> q.completed
        <4>1. took \in Request
          BY <2>2, <3>4, ZenonT(60) DEF Request
        <4>2. /\ took.stream = s
              /\ took.received = at.received /\ took.result = at.result
              /\ took.completed <=> at.completed
          BY <2>2 DEF Request
        <4> HIDE DEF took
        <4>3. QED
          BY <2>3, <4>1, <4>2
      <3> HIDE DEF took
      <3>8. Quiet(m, p, s) /\ Calm(m, p) /\ Unseen(r, m, p)
        BY <1>0, <3>4, <3>5 DEF Calm, Quiet, Unseen
      <3>9. Begins(r, took, m, p)
        BY <1>0, <3>4, <3>5, <3>6, <3>7, <3>8 DEF Begins
      <3>10. QED
        BY <3>1, <3>4, <3>7, <3>9, WriteFlows
    <2>5. CASE n.idle[target] = <<>>
      <3> DEFINE a == [at EXCEPT !.pending = "dns"]
                 asks == StartPhaseTimeout(a, "dns")
      <3>1. Start(q, n, target) = [q |-> asks, n |-> n]
        BY <1>2, <2>5 DEF Start, ConnectionPoolKey, at, v, Pair, Resolve
      <3>2. PICK t \in Timed \cup {"none"} : asks = [a EXCEPT !.timer = t]
        BY TimerIs
      <3>3. /\ a \in Request /\ a.pending = "dns"
            /\ a.received = q.received /\ a.result = q.result
            /\ a.completed <=> q.completed
        <4>1. /\ a \in Request /\ a.pending = "dns"
              /\ a.received = at.received /\ a.result = at.result
              /\ a.completed <=> at.completed
          BY <2>2, PendingIs, ZenonT(60)
        <4> HIDE DEF a
        <4>2. QED
          BY <2>3, <4>1
      <3> HIDE DEF a, asks
      <3>4. /\ asks.pending = "dns"
            /\ asks.received = q.received /\ asks.result = q.result
            /\ asks.completed <=> q.completed
        BY <3>2, <3>3, TimedIs
      <3>5. Flows(r, asks, n, p)
        BY <1>0, <3>4 DEF Flows, Mine, Answered
      <3>6. QED
        BY <3>1, <3>5
    <2>6. QED
      BY <2>4, <2>5
  <1>3. QED
    BY <1>1, <1>2

\* on_resolved()
LEMMA ResolvedFlows ==
  ASSUME NEW r, NEW q \in Request, NEW n \in Net, NEW p,
         Flows(r, q, n, p), q.pending = "dns", NEW ok \in BOOLEAN
  PROVE  LET x == Resolved(q, n, ok) IN Flows(r, x.q, x.n, p)
  <1> DEFINE e == [q EXCEPT !.pending = "none"]
             c == [q EXCEPT !.pending = "connect"]
             d == [c EXCEPT !.timer = "none"]
  <1>1. /\ Mine(q, n, p) /\ Answered(q) /\ Calm(n, p) /\ Unseen(r, n, p)
        /\ q.result # "response" /\ ~q.completed => q.received = <<>>
    BY DEF Flows, Mine, Answered
  <1>2. /\ e \in Request /\ e.pending = "none"
        /\ e.received = q.received /\ e.result = q.result
        /\ e.completed <=> q.completed
    BY PendingIs, ZenonT(60)
  <1>3. /\ c \in Request /\ c.pending = "connect"
        /\ c.received = q.received /\ c.result = q.result
        /\ c.completed <=> q.completed
    BY PendingIs, ZenonT(60)
  <1>4. Resolved(q, n, ok) = IF q.completed THEN [q |-> e, n |-> n]
                             ELSE IF ~ok THEN Complete(e, n, "error")
                             ELSE [q |-> d, n |-> n]
    BY DEF Resolved, StopPhaseTimeout, Pair
  <1> HIDE DEF e, c
  <1>5. /\ d.pending = "connect"
        /\ d.received = q.received /\ d.result = q.result
        /\ d.completed <=> q.completed
    BY <1>3, TimedIs
  <1> HIDE DEF d
  <1>6. Flows(r, e, n, p) /\ Flows(r, d, n, p)
    BY <1>1, <1>2, <1>5 DEF Flows, Mine, Answered
  <1>7. LET x == Complete(e, n, "error") IN Flows(r, x.q, x.n, p)
    BY <1>1, <1>2, <1>6, CompleteFlows DEF Flows
  <1>8. CASE q.completed
    BY <1>4, <1>6, <1>8
  <1>9. CASE ~q.completed /\ ~ok
    BY <1>4, <1>7, <1>9
  <1>10. CASE ~q.completed /\ ok
    BY <1>4, <1>6, <1>10
  <1>11. QED
    BY <1>8, <1>9, <1>10

\* on_connected() and start_tls()
LEMMA ConnectedFlows ==
  ASSUME OwnerInv, NEW r \in Requests, NEW q \in Request, NEW n \in Net,
         NEW p \in [Streams -> Peer], Sound(r, q, n), Flows(r, q, n, p),
         q.pending = "connect", ~q.completed,
         NEW ok \in BOOLEAN, NEW built \in BOOLEAN, ok => CanOpen(n)
  PROVE  LET x == Connected(q, n, ok, built) IN Flows(r, x.q, x.n, p)
  <1> DEFINE s == Opened(n)
             e == [q EXCEPT !.pending = "none"]
             m == [n EXCEPT !.life[s] = "open"]
             k == [n EXCEPT !.life[s] = "destroyed"]
             w == [q EXCEPT !.stream = s]
  <1>1. /\ Calm(n, p) /\ Unseen(r, n, p)
        /\ q.result # "response" /\ q.received = <<>>
    BY DEF Flows, Mine, Answered
  <1>2. e \in Request /\ ~e.completed
    <2>1. e \in Request /\ (e.completed <=> q.completed)
      BY PendingIs
    <2>2. QED
      BY <2>1
  <1> HIDE DEF e
  <1>3. CASE ~ok
    <2>1. Connected(q, n, ok, built) = Complete(e, n, "error")
      BY <1>3 DEF Connected, e
    <2>2. QED
      BY <1>1, <1>2, <2>1, CompleteFlows
  <1>4. CASE ok
    <2>1. s \in Streams /\ n.life[s] = "none"
      BY <1>4, OpenedIsNew
    <2> HIDE DEF s
    <2>2. /\ m \in Net /\ m.idle = n.idle /\ m.owed = n.owed
          /\ m.life[s] = "open"
          /\ \A t \in Streams : m.life[t] = "none" => n.life[t] = "none"
      BY <2>1 DEF Net, Lives
    <2>3. /\ k \in Net /\ k.idle = n.idle /\ k.owed = n.owed
          /\ \A t \in Streams : k.life[t] = "none" => n.life[t] = "none"
      BY <2>1 DEF Net, Lives
    <2> HIDE DEF m, k
    <2>4. \A t : /\ InPool(m, t) <=> InPool(n, t)
                 /\ InPool(k, t) <=> InPool(n, t)
      BY <2>2, <2>3 DEF InPool
    <2>5. Calm(m, p) /\ Unseen(r, m, p) /\ Calm(k, p) /\ Unseen(r, k, p)
      BY <1>1, <2>2, <2>3, <2>4 DEF Calm, Quiet, Unseen
    <2>6. Quiet(m, p, s)
      BY <1>1, <2>1, <2>2 DEF Calm, Quiet
    <2>7. s \notin Others(r) /\ ~InPool(m, s)
      BY <2>1, <2>4, OthersAre DEF Sound, Owned, IdleOpen
    <2>8. CASE q.origin \notin Secure
      <3>1. Connected(q, n, ok, built) = WriteBufferedRequest(w, m)
        BY <1>4, <2>8 DEF Connected, s, m
      <3>2. /\ w \in Request /\ w.stream = s
            /\ w.received = q.received /\ w.result = q.result
        BY <2>1 DEF Request
      <3> HIDE DEF w
      <3>3. Begins(r, w, m, p)
        BY <1>1, <2>1, <2>2, <2>5, <2>6, <2>7, <3>2 DEF Begins
      <3>4. QED
        BY <2>2, <3>1, <3>2, <3>3, WriteFlows
    <2>9. CASE q.origin \in Secure /\ ~built
      <3>1. Connected(q, n, ok, built) = Complete(e, k, "error")
        BY <1>4, <2>9 DEF Connected, StartTls, s, k, e
      <3>2. QED
        BY <1>2, <2>3, <2>5, <3>1, CompleteFlows
    <2>10. CASE q.origin \in Secure /\ built
      <3> DEFINE v == [q EXCEPT !.pending = "tls", !.lower = s]
                 d == StartPhaseTimeout(v, "tls_handshake")
      <3>1. Connected(q, n, ok, built) = [q |-> d, n |-> m]
        BY <1>4, <2>10 DEF Connected, StartTls, Pair, s, m
      <3>2. PICK t \in Timed \cup {"none"} : d = [v EXCEPT !.timer = t]
        BY TimerIs
      <3> HIDE DEF d
      <3>3. /\ d.pending = "tls" /\ d.lower = s
            /\ d.received = q.received /\ d.result = q.result
        BY <3>2 DEF Request
      <3>4. Flows(r, d, m, p)
        BY <1>1, <2>5, <2>6, <3>3 DEF Flows, Mine, Answered
      <3>5. QED
        BY <3>1, <3>4
    <2>11. QED
      BY <2>8, <2>9, <2>10
  <1>5. QED
    BY <1>3, <1>4

\* on_tls_connected()
LEMMA TlsConnectedFlows ==
  ASSUME OwnerInv, NEW r \in Requests, NEW q \in Request, NEW n \in Net,
         NEW p \in [Streams -> Peer], Sound(r, q, n), Flows(r, q, n, p),
         q.pending = "tls", ~q.completed,
         NEW result \in {"http/1.1", "failed", "h2"}
  PROVE  LET x == TlsConnected(q, n, result) IN Flows(r, x.q, x.n, p)
  <1> DEFINE e == [q EXCEPT !.lower = NoStream, !.pending = "none"]
             w == [e EXCEPT !.stream = q.lower]
             m == CloseStream(n, q.lower)
  <1>1. /\ Calm(n, p) /\ Unseen(r, n, p)
        /\ q.result # "response" /\ q.received = <<>>
        /\ Quiet(n, p, q.lower)
    BY DEF Flows, Mine, Answered
  <1>2. /\ q.lower \in Streams /\ n.life[q.lower] # "none"
        /\ q.lower \in Streams \cup {NoStream}
    BY DEF Sound, Placed, Streams, NoStream
  <1>3. HeldBy(q) = {q.lower}
    BY DEF HeldBy
  <1>4. /\ e \in Request /\ e.received = q.received /\ e.result = q.result
        /\ e.completed <=> q.completed
    BY ZenonT(60) DEF Request
  <1> HIDE DEF e
  <1>5. /\ w \in Request /\ w.stream = q.lower
        /\ w.received = q.received /\ w.result = q.result
    BY <1>2, <1>4, SMTT(60) DEF Request
  <1> HIDE DEF w
  <1>6. CASE result # "http/1.1"
    <2>1. TlsConnected(q, n, result) = Complete(e, m, "error")
      BY <1>6 DEF TlsConnected, e
    <2>2. m \in Net /\ Calm(m, p) /\ Unseen(r, m, p)
      BY <1>1, <1>2, CloseFlows
    <2> HIDE DEF m
    <2>3. ~e.completed
      BY <1>4
    <2>4. QED
      BY <1>4, <2>1, <2>2, <2>3, CompleteFlows
  <1>7. CASE result = "http/1.1"
    <2>1. TlsConnected(q, n, result) = WriteBufferedRequest(w, n)
      BY <1>7 DEF TlsConnected, w, e
    <2>2. q.lower \notin Others(r)
      BY <1>3, OthersAre
    <2>3. ~InPool(n, q.lower)
      <3> DEFINE g == [Held EXCEPT ![r] = HeldBy(q)]
      <3>1. g[r] = {q.lower}
        BY <1>3, Focus
      <3>2. IdleFree(g, n)
        BY DEF Sound, Owned
      <3> HIDE DEF g
      <3>3. QED
        BY <1>2, <3>1, <3>2 DEF IdleFree
    <2>4. Begins(r, w, n, p)
      BY <1>1, <1>2, <1>5, <2>2, <2>3 DEF Begins
    <2>5. QED
      BY <1>5, <2>1, <2>4, WriteFlows
  <1>8. QED
    BY <1>6, <1>7

\* on_written()
LEMMA WrittenFlows ==
  ASSUME NEW r, NEW q \in Request, NEW n \in Net, NEW p,
         Flows(r, q, n, p), q.pending = "write", NEW ok \in BOOLEAN
  PROVE  LET x == Written(q, n, ok) IN Flows(r, x.q, x.n, p)
  <1> DEFINE e == [q EXCEPT !.pending = "none"]
             f == [q EXCEPT !.pending = "none", !.left = "write"]
             c == [q EXCEPT !.pending = "read"]
             d == StartPhaseTimeout(c, "response_header")
  <1>1. /\ Mine(q, n, p) /\ Calm(n, p) /\ Unseen(r, n, p)
        /\ q.result # "response"
    BY DEF Flows, Answered
  <1>2. CASE q.completed
    <2>1. Written(q, n, ok) = [q |-> e, n |-> n]
      BY <1>2 DEF Written, Pair
    <2>2. e.result = q.result /\ (e.completed <=> q.completed)
      BY PendingIs
    <2> HIDE DEF e
    <2>3. Flows(r, e, n, p)
      BY <1>1, <1>2, <2>2 DEF Flows, Mine, Answered
    <2>4. QED
      BY <2>1, <2>3
  <1>3. CASE ~q.completed /\ ~ok
    <2>1. Written(q, n, ok) = Complete(f, n, "error")
      BY <1>3 DEF Written
    <2>2. f \in Request /\ (f.completed <=> q.completed)
      BY ZenonT(60) DEF Request
    <2> HIDE DEF f
    <2>3. ~f.completed
      BY <1>3, <2>2
    <2>4. QED
      BY <1>1, <2>1, <2>2, <2>3, CompleteFlows
  <1>4. CASE ~q.completed /\ ok
    <2>1. Written(q, n, ok) = [q |-> d, n |-> n]
      BY <1>4 DEF Written, Pair
    <2>2. PICK t \in Timed \cup {"none"} : d = [c EXCEPT !.timer = t]
      BY TimerIs
    <2>3. /\ c \in Request /\ c.pending = "read" /\ c.id = q.id
          /\ c.stream = q.stream /\ c.hop = q.hop
          /\ c.completed <=> q.completed
          /\ c.received = q.received /\ c.result = q.result
      BY PendingIs, ZenonT(60)
    <2> HIDE DEF c, d
    <2>4. /\ d \in Request /\ d.pending = "read" /\ d.id = q.id
          /\ d.stream = q.stream /\ d.hop = q.hop
          /\ d.completed <=> q.completed
          /\ d.received = q.received /\ d.result = q.result
      BY <2>2, <2>3, TimedIs
    <2>5. Mine(d, n, p)
      BY <1>1, <1>4, <2>4 DEF Mine, Staged, Waiting
    <2>6. Flows(r, d, n, p)
      BY <1>1, <2>4, <2>5 DEF Flows, Answered
    <2>7. QED
      BY <2>1, <2>6
  <1>5. QED
    BY <1>2, <1>3, <1>4

\* How a unit is framed.
LEMMA FramingTyped ==
  ASSUME NEW u \in Units
  PROVE  u.shape.framing \in {"none", "length", "chunked", "eof", "bad"}
  <1> DEFINE v == u.shape
  <1>1. v \in Shapes \cup {InterimShape}
    BY DEF Units
  <1> HIDE DEF v
  <1>2. v \in Shapes => v.framing \in Framings
    BY DEF Shapes
  <1>3. v = InterimShape => v.framing = "none"
    BY DEF InterimShape
  <1>4. Framings \subseteq {"none", "length", "chunked", "eof", "bad"}
    BY ClientAssumption
  <1>5. QED
    BY <1>1, <1>2, <1>3, <1>4 DEF v

\* What the parser's verdict says of the bytes.
LEMMA ParseIs ==
  ASSUME NEW a \in Seq(Units), a # <<>>, NEW eof \in BOOLEAN
  PROVE  LET v == ParseResponse(a, eof)
             f == a[1].shape.framing
         IN /\ v # "malformed" => f # "bad"
            /\ v = "incomplete" => f # "none" /\ (f # "eof" => Len(a) = 1)
            /\ v \notin {"malformed", "incomplete"} =>
                 (f \in {"chunked", "length"} => Len(a) >= 2)
  <1> DEFINE h == Head(a)
             f == h.shape.framing
             b == Len(a) - 1
             w == IF f = "none" THEN "whole"
                  ELSE IF f = "chunked" THEN DecodeChunked(b)
                  ELSE IF f = "length" THEN ContentLength(b)
                  ELSE IF eof THEN "whole" ELSE "incomplete"
             v == ParseResponse(a, eof)
  <1>1. h = a[1] /\ h \in Units /\ Len(a) \in Nat \ {0}
    <2>1. Len(a) \in Nat \ {0}
      BY EmptySeq, LenProperties
    <2>2. QED
      BY <2>1
  <1>2. f \in {"none", "length", "chunked", "eof", "bad"}
    BY <1>1, FramingTyped
  <1>3. v = IF ParseResponseHead(h) = "malformed" THEN "malformed"
            ELSE IF w = "incomplete" /\ eof THEN "malformed" ELSE w
    BY DEF ParseResponse
  <1>4. f = "bad" => ParseResponseHead(h) = "malformed"
    BY DEF ParseResponseHead
  <1>5. /\ DecodeChunked(b) = "incomplete" <=> Len(a) = 1
        /\ ContentLength(b) = "incomplete" <=> Len(a) = 1
    <2> DEFINE c == Len(a)
    <2>1. c \in Nat \ {0} /\ b = c - 1
      BY <1>1
    <2> HIDE DEF c, b
    <2>2. QED
      BY <2>1 DEF DecodeChunked, ContentLength, c
  <1>6. Len(a) # 1 => Len(a) >= 2
    <2> DEFINE c == Len(a)
    <2>1. c \in Nat \ {0}
      BY <1>1
    <2> HIDE DEF c
    <2>2. c # 1 => c >= 2
      BY <2>1
    <2>3. QED
      BY <2>2 DEF c
  <1> HIDE DEF h, b, v
  <1>7. /\ v # "malformed" => f # "bad"
        /\ v = "incomplete" => f # "none" /\ (f # "eof" => Len(a) = 1)
        /\ v \notin {"malformed", "incomplete"} =>
             (f \in {"chunked", "length"} => Len(a) # 1)
    BY <1>2, <1>3, <1>4, <1>5
  <1>8. QED
    BY <1>1, <1>6, <1>7 DEF v

\* The ways to cut an answer of at most two units.
LEMMA PartsOfTwo ==
  ASSUME NEW x \in Nat \ {0}, NEW y \in Nat, NEW z, z = x + y, z \in {1, 2}
  PROVE  /\ x \in {1, 2} /\ 1 \in 1 .. x
         /\ z = 1 => x = 1 /\ y = 0
         /\ x >= 2 => z = 2 /\ y = 0
  OBVIOUS

\* What has been read of an answer.
LEMMA StageParts ==
  ASSUME NEW a \in Seq(Units), NEW b \in Seq(Units), a # <<>>, NEW t,
         NEW owed, NEW busy, Stage(t, a \o b, owed, busy)
  PROVE  /\ \A i \in 1 .. Len(a) : a[i].tag = t
         /\ ~HasBody(a[1].shape) \/ Len(a) >= 2 =>
              b = <<>> /\ owed = <<>> /\ ~busy
         /\ ~HasBody(a[1].shape) => Len(a) = 1
         /\ Len(a) \in {1, 2}
  <1> DEFINE u == a \o b
  <1>1. Len(a) \in Nat \ {0} /\ Len(b) \in Nat
    BY EmptySeq, LenProperties
  <1>2. /\ Len(u) = Len(a) + Len(b)
        /\ \A i \in 1 .. Len(a) : u[i] = a[i]
    BY <1>1
  <1>3. u # <<>>
    BY <1>1, <1>2
  <1>4. Len(b) = 0 => b = <<>>
    BY EmptySeq
  <1>5. Stage(t, u, owed, busy)
    OBVIOUS
  <1> HIDE DEF u
  <1>6. Len(u) \in {1, 2} /\ u[1].tag = t /\ (Len(u) = 2 => u[2].tag = t)
    BY <1>3, <1>5 DEF Stage
  <1>7. /\ Len(a) \in {1, 2} /\ 1 \in 1 .. Len(a)
        /\ Len(u) = 1 => Len(a) = 1 /\ Len(b) = 0
        /\ Len(a) >= 2 => Len(u) = 2 /\ Len(b) = 0
    BY <1>1, <1>2, <1>6, PartsOfTwo
  <1>8. a[1] = u[1]
    BY <1>2, <1>7
  <1>9. \A i \in 1 .. Len(a) : a[i].tag = t
    <2> SUFFICES ASSUME NEW i \in 1 .. Len(a) PROVE a[i].tag = t
      OBVIOUS
    <2>1. i = 1 \/ (i = 2 /\ Len(u) = 2)
      BY <1>1, <1>2, <1>6, <1>7
    <2>2. QED
      BY <1>2, <1>6, <2>1
  <1>12. ~HasBody(a[1].shape) => Len(u) = 1 /\ owed = <<>> /\ ~busy
    BY <1>3, <1>5, <1>8 DEF Stage
  <1>13. Len(u) = 2 => owed = <<>> /\ ~busy
    BY <1>3, <1>5 DEF Stage
  <1>14. QED
    BY <1>4, <1>7, <1>9, <1>12, <1>13

\* What a read may do with what has arrived.
LEMMA ResponseIs ==
  ASSUME NEW q \in Request, NEW n \in Net, NEW p \in [Streams -> Peer],
         q.stream \in Streams, Staged(q, n, p), q.received # <<>>,
         NEW eof \in BOOLEAN
  PROVE  LET a == q.received
             v == ParseResponse(a, eof)
         IN /\ v = "incomplete" => Waiting(q)
            /\ v \notin {"malformed", "incomplete"} =>
                 /\ Answer(ResponseUnits(a))
                      = [of |-> {Tag(q.id, q.hop)}, whole |-> TRUE]
                 /\ Reusable(Head(a).shape) => Quiet(n, p, q.stream)
  <1> DEFINE a == q.received
             b == p[q.stream].inbox
             t == Tag(q.id, q.hop)
             v == ParseResponse(a, eof)
             f == a[1].shape.framing
             units == ResponseUnits(a)
  <1>1. a \in Seq(Units) /\ b \in Seq(Units)
    BY DEF Request, Peer
  <1>2. a # <<>> /\ Stage(t, a \o b, n.owed[q.stream], p[q.stream].busy)
    BY DEF Staged
  <1>3. Head(a) = a[1] /\ a[1] \in Units
    BY <1>1, <1>2
  <1> HIDE DEF a, b, t
  <1>4. /\ \A i \in 1 .. Len(a) : a[i].tag = t
        /\ ~HasBody(a[1].shape) \/ Len(a) >= 2 =>
             b = <<>> /\ n.owed[q.stream] = <<>> /\ ~p[q.stream].busy
        /\ ~HasBody(a[1].shape) => Len(a) = 1
        /\ Len(a) \in {1, 2}
    BY <1>1, <1>2, StageParts
  <1>5. /\ v # "malformed" => f # "bad"
        /\ v = "incomplete" => f # "none" /\ (f # "eof" => Len(a) = 1)
        /\ v \notin {"malformed", "incomplete"} =>
             (f \in {"chunked", "length"} => Len(a) >= 2)
    BY <1>1, <1>2, ParseIs
  <1>6. f \in {"none", "length", "chunked", "eof", "bad"}
    BY <1>3, FramingTyped
  <1> HIDE DEF v
  <1>7. v = "incomplete" => Waiting(q)
    BY <1>5 DEF Waiting, HasBody, a
  <1>8. ASSUME v \notin {"malformed", "incomplete"}
        PROVE  /\ Answer(units) = [of |-> {t}, whole |-> TRUE]
               /\ Reusable(Head(a).shape) => Quiet(n, p, q.stream)
    <2>1. /\ units \in Seq(Units) /\ Len(units) \in 1 .. Len(a)
          /\ \A i \in 1 .. Len(units) : units[i] = a[i]
          /\ Head(units) = Head(a)
          /\ f = "length" /\ Len(a) >= 2 => Len(units) = 2
          /\ f \notin {"none", "length"} => units = a
      BY <1>1, <1>2, <1>3, UnitsAre
    <2> HIDE DEF units, f
    <2>2. \A i \in 1 .. Len(units) : units[i].tag = t
      BY <1>4, <2>1
    <2>3. {units[i].tag : i \in DOMAIN units} = {t}
      <3>1. DOMAIN units = 1 .. Len(units) /\ 1 \in 1 .. Len(units)
        BY <1>4, <2>1
      <3>2. QED
        BY <2>2, <3>1
    <2>4. f \in {"length", "chunked"} => Len(units) = 2
      BY <1>4, <1>5, <1>8, <2>1
    <2>5. Head(units).shape.framing = f
      BY <1>3, <2>1 DEF f
    <2>6. Answer(units) = [of |-> {t}, whole |-> TRUE]
      BY <2>3, <2>4, <2>5 DEF Answer
    <2>7. ASSUME Reusable(Head(a).shape) PROVE Quiet(n, p, q.stream)
      <3>1. f # "eof" /\ f # "bad"
        BY <1>3, <1>5, <1>8, <2>7 DEF Reusable, f
      <3>2. ~HasBody(a[1].shape) \/ Len(a) >= 2
        BY <1>5, <1>6, <1>8, <3>1 DEF HasBody, f
      <3>3. QED
        BY <1>4, <3>2 DEF Quiet, b
    <2>8. QED
      BY <2>6, <2>7
  <1>9. QED
    BY <1>7, <1>8 DEF a, v, t, units

\* A quiet connection goes back to the pool.
LEMMA ReleaseFlows ==
  ASSUME OwnerInv, NEW r \in Requests, NEW q \in Request, NEW n \in Net,
         NEW p, Served(r, q, n), Calm(n, p), Unseen(r, n, p),
         Quiet(n, p, q.stream)
  PROVE  LET m == Release(n, q.origin, q.stream)
         IN m \in Net /\ Calm(m, p) /\ Unseen(r, m, p)
  <1> DEFINE g == [Held EXCEPT ![r] = {q.stream}]
             s == q.stream
             o == q.origin
             m == Release(n, o, s)
  <1>1. s \in Streams /\ o \in Origins /\ Owned(g, OthersLeft(r), n)
    BY DEF Served
  <1>2. g \in Holding /\ g[r] = {s}
    BY <1>1, HeldTyped DEF Holding
  <1> HIDE DEF g, s, o
  <1>3. /\ m \in Net /\ m.owed = n.owed
        /\ \A t : InPool(m, t) => InPool(n, t) \/ t = s
        /\ \A t \in Streams : m.life[t] = "none" => n.life[t] = "none"
    <2>1. /\ m \in Net /\ Owned([g EXCEPT ![r] = {}], OthersLeft(r), m)
          /\ Ages(n, m) /\ m.owed = n.owed
          /\ \A t : InPool(m, t) => InPool(n, t) \/ t = s
          /\ \A t \in Streams : m.life[t] = "none" => n.life[t] = "none"
      BY <1>1, <1>2, OwnRelease
    <2>2. QED
      BY <2>1
  <1> HIDE DEF m
  <1>4. Quiet(n, p, s)
    BY DEF s
  <1>5. Calm(m, p) /\ Unseen(r, m, p)
    BY <1>3, <1>4 DEF Calm, Unseen, Quiet
  <1>6. QED
    BY <1>3, <1>5 DEF m, s, o

\* complete() after close_or_release_current()
LEMMA LetGoFlows ==
  ASSUME OwnerInv, NEW r \in Requests, NEW q \in Request, NEW n \in Net,
         NEW p, Served(r, q, n), Calm(n, p), Unseen(r, n, p),
         NEW reusable \in BOOLEAN, reusable => Quiet(n, p, q.stream),
         NEW result \in {"response", "error"},
         result = "response" =>
           q.answer = [of |-> {Tag(q.id, q.hop)}, whole |-> TRUE]
  PROVE  LET x == CloseOrRelease(q, n, reusable)
             y == Complete(x.q, x.n, result)
         IN Flows(r, y.q, y.n, p)
  <1> DEFINE d == [q EXCEPT !.stream = NoStream]
             x == CloseOrRelease(q, n, reusable)
             y == Complete(x.q, x.n, result)
  <1>1. /\ q.pending = "none" /\ ~q.completed
        /\ q.stream \in Streams \cup {NoStream}
    BY DEF Served, Request
  <1>2. /\ x.q \in Request /\ x.q.pending = "none"
        /\ x.q.id = q.id /\ x.q.hop = q.hop /\ x.q.answer = q.answer
        /\ x.q.completed <=> q.completed
        /\ x.n \in Net /\ Calm(x.n, p) /\ Unseen(r, x.n, p)
    <2>1. CASE reusable
      <3>1. x = [q |-> d, n |-> Release(n, q.origin, q.stream)]
        BY <2>1 DEF CloseOrRelease, Pair
      <3>2. /\ d \in Request /\ d.pending = "none" /\ d.id = q.id
            /\ d.hop = q.hop /\ d.answer = q.answer
            /\ d.completed <=> q.completed
        BY <1>1 DEF Request
      <3> DEFINE m == Release(n, q.origin, q.stream)
      <3>3. m \in Net /\ Calm(m, p) /\ Unseen(r, m, p)
        BY <2>1, ReleaseFlows
      <3>4. x.q = d /\ x.n = m
        BY <3>1
      <3> HIDE DEF d, x, m
      <3>5. QED
        BY <3>2, <3>3, <3>4
    <2>2. CASE ~reusable
      <3> DEFINE m == CloseStream(n, q.stream)
      <3>1. x = [q |-> q, n |-> m]
        BY <2>2 DEF CloseOrRelease, Pair
      <3>2. m \in Net /\ Calm(m, p) /\ Unseen(r, m, p)
        BY <1>1, CloseFlows
      <3>3. x.q = q /\ x.n = m
        BY <3>1
      <3> HIDE DEF x, m
      <3>4. QED
        BY <1>1, <3>2, <3>3
    <2>3. QED
      BY <2>1, <2>2
  <1> HIDE DEF x
  <1>3. ~x.q.completed
    BY <1>1, <1>2
  <1>4. /\ y.n = x.n /\ y.q.completed /\ y.q.result = result
        /\ y.q.id = x.q.id /\ y.q.pending = x.q.pending
        /\ y.q.hop = x.q.hop /\ y.q.answer = x.q.answer
    BY <1>2, <1>3, CompleteIs
  <1> HIDE DEF y
  <1>5. Mine(y.q, y.n, p)
    BY <1>4 DEF Mine
  <1>6. Answered(y.q)
    BY <1>2, <1>4 DEF Answered
  <1>7. Flows(r, y.q, y.n, p)
    BY <1>2, <1>4, <1>5, <1>6 DEF Flows
  <1>8. QED
    BY <1>7 DEF y, x

\* follow_redirect()
LEMMA FollowFlows ==
  ASSUME OwnerInv, NEW r \in Requests, NEW q \in Request, NEW n \in Net,
         NEW p \in [Streams -> Peer], Served(r, q, n), Calm(n, p),
         Unseen(r, n, p), NEW reusable \in BOOLEAN,
         reusable => Quiet(n, p, q.stream), q.result # "response",
         NEW location \in Locations
  PROVE  LET x == FollowRedirect(q, n, location, reusable)
         IN Flows(r, x.q, x.n, p)
  <1> DEFINE again == Again(q)
             c == CloseStream(n, q.stream)
             m == Release(n, q.origin, q.stream)
  <1>1. /\ location \in Origins \cup {"bad"}
        /\ q.stream \in Streams \cup {NoStream}
    BY ClientAssumption DEF Request
  <1>2. CASE ~MayFollow(q, location)
    <2> DEFINE d == StopPhaseTimeout(q)
    <2>1. FollowRedirect(q, n, location, reusable)
            = GiveUpRedirect(q, n, reusable)
      BY <1>2 DEF FollowRedirect
    <2>2. d = [q EXCEPT !.timer = "none"]
      BY DEF StopPhaseTimeout
    <2> HIDE DEF d
    <2>3. /\ d \in Request /\ d.pending = q.pending /\ d.id = q.id
          /\ d.stream = q.stream /\ d.lower = q.lower /\ d.origin = q.origin
          /\ d.redirects = q.redirects /\ d.hop = q.hop
          /\ d.left = q.left
          /\ d.completed <=> q.completed
      BY <2>2, TimedIs
    <2>4. Served(r, d, n) /\ (reusable => Quiet(n, p, d.stream))
      BY <2>3 DEF Served, Counted
    <2>5. QED
      BY <2>1, <2>3, <2>4, LetGoFlows DEF GiveUpRedirect, d
  <1>3. CASE MayFollow(q, location) /\ reusable
    <2> DEFINE e == [again EXCEPT !.stream = NoStream]
    <2>1. FollowRedirect(q, n, location, reusable) = Start(e, m, location)
      BY <1>3 DEF FollowRedirect, Again
    <2>2. /\ e \in Request /\ m \in Net /\ Sound(r, e, m)
          /\ e.pending = "none" /\ e.left = "no"
          /\ e.received = <<>> /\ e.result = q.result
      BY <1>3, AgainSound
    <2>3. Calm(m, p) /\ Unseen(r, m, p)
      BY <1>3, ReleaseFlows
    <2> HIDE DEF e, m
    <2>4. Flows(r, e, m, p)
      BY <2>2, <2>3 DEF Flows, Mine, Answered
    <2>5. e.result # "response"
      BY <2>2
    <2>6. QED
      BY <1>1, <2>1, <2>2, <2>4, <2>5, StartFlows
  <1>4. CASE MayFollow(q, location) /\ ~reusable
    <2> DEFINE f == [again EXCEPT !.pending = "close"]
               e == [f EXCEPT !.next = location]
    <2>1. FollowRedirect(q, n, location, reusable)
            = [q |-> [again EXCEPT !.pending = "close", !.next = location],
               n |-> c]
      BY <1>4 DEF FollowRedirect, Again, Pair
    <2>2. [again EXCEPT !.pending = "close", !.next = location] = e
      OBVIOUS
    <2>3. again \in Request /\ again.received = <<>> /\ again.result = q.result
      BY <1>4, AgainIs
    <2> HIDE DEF again
    <2>4. /\ f \in Request /\ f.pending = "close"
          /\ f.received = again.received /\ f.result = again.result
      BY <2>3, PendingIs
    <2> HIDE DEF f
    <2>5. /\ e.pending = f.pending /\ e.received = f.received
          /\ e.result = f.result
      BY <2>4 DEF Request
    <2>6. c \in Net /\ Calm(c, p) /\ Unseen(r, c, p)
      BY <1>1, CloseFlows
    <2> HIDE DEF e, c
    <2>7. Flows(r, e, c, p)
      BY <2>3, <2>4, <2>5, <2>6 DEF Flows, Mine, Answered
    <2>8. FollowRedirect(q, n, location, reusable) = [q |-> e, n |-> c]
      BY <2>1, <2>2
    <2>9. QED
      BY <2>7, <2>8
  <1>5. QED
    BY <1>2, <1>3, <1>4

\* complete_buffered_response()
LEMMA CompleteBufferedFlows ==
  ASSUME OwnerInv, NEW r \in Requests, NEW q \in Request, NEW n \in Net,
         NEW p \in [Streams -> Peer], Sound(r, q, n),
         q.pending = "read", ~q.completed, q.result # "response",
         Calm(n, p), Unseen(r, n, p),
         NEW units \in Seq(Units), units # <<>>,
         Answer(units) = [of |-> {Tag(q.id, q.hop)}, whole |-> TRUE],
         NEW reusable \in BOOLEAN, reusable => Quiet(n, p, q.stream)
  PROVE  LET x == CompleteBuffered(q, n, units, reusable)
         IN Flows(r, x.q, x.n, p)
  <1> DEFINE a == Answer(units)
             done == [q EXCEPT !.pending = "none", !.answer = a]
             e == [q EXCEPT !.pending = "none"]
             location == Head(units).shape.location
             x == CloseOrRelease(done, n, reusable)
  <1>1. a \in [of : SUBSET Tags, whole : BOOLEAN]
    BY AnswerTyped
  <1>2. a = [of |-> {Tag(q.id, q.hop)}, whole |-> TRUE]
    OBVIOUS
  <1> HIDE DEF a
  <1>3. done \in Request /\ done.pending = "none" /\ e \in Request
        /\ e.pending = "none"
    BY <1>1, ZenonT(60) DEF Request
  <1>4. /\ SameUse(q, [done EXCEPT !.pending = "read"])
        /\ SameUse(q, [e EXCEPT !.pending = "read"])
    <2>1. q.pending = "read"
      OBVIOUS
    <2>2. QED
      BY <2>1 DEF SameUse, Request
  <1>5. /\ done.stream = q.stream /\ done.id = q.id /\ done.hop = q.hop
        /\ done.answer = a
        /\ e.stream = q.stream /\ e.result = q.result
    BY DEF Request
  <1> HIDE DEF done, e
  <1>6. Served(r, done, n) /\ Served(r, e, n)
    BY <1>3, <1>4, ReadServed
  <1>7. CASE FollowRedirects /\ location # "no"
    <2>1. CompleteBuffered(q, n, units, reusable)
            = FollowRedirect(e, n, location, reusable)
      BY <1>7 DEF CompleteBuffered, e
    <2>2. location \in Locations
      <3>1. Head(units) \in Units
        OBVIOUS
      <3>2. location \in Locations \cup {"no"}
        BY <3>1, UnitTyped
      <3>3. QED
        BY <1>7, <3>2
    <2> HIDE DEF location
    <2>3. (reusable => Quiet(n, p, e.stream)) /\ e.result # "response"
      BY <1>5
    <2>4. QED
      BY <1>3, <1>6, <2>1, <2>2, <2>3, FollowFlows
  <1>8. CASE ~(FollowRedirects /\ location # "no")
    <2>1. CompleteBuffered(q, n, units, reusable)
            = Complete(x.q, x.n, "response")
      BY <1>8 DEF CompleteBuffered, done, a
    <2>2. /\ reusable => Quiet(n, p, done.stream)
          /\ done.answer = [of |-> {Tag(done.id, done.hop)}, whole |-> TRUE]
      BY <1>2, <1>5
    <2>3. QED
      BY <1>3, <1>6, <2>1, <2>2, LetGoFlows
  <1>9. QED
    BY <1>7, <1>8

\* try_complete_buffered_response(), with bytes or at the end of the stream.
LEMMA TryCompleteFlows ==
  ASSUME OwnerInv, NEW r \in Requests, NEW q \in Request, NEW n \in Net,
         NEW p \in [Streams -> Peer], Sound(r, q, n),
         q.pending = "read", ~q.completed, q.result # "response",
         Staged(q, n, p), Calm(n, p), Unseen(r, n, p), NEW eof \in BOOLEAN
  PROVE  LET x == TryComplete(q, n, eof) IN Flows(r, x.q, x.n, p)
  <1> DEFINE h == [q EXCEPT !.headers_complete = TRUE]
             t == StartPhaseTimeout(h, "response_body")
             seen == IF q.headers_complete THEN q ELSE t
             bytes == q.received
             verdict == ParseResponse(bytes, eof)
             shape == Head(bytes).shape
             units == ResponseUnits(bytes)
  <1>1. bytes \in Seq(Units) /\ q.stream \in Streams
    BY DEF Request, Sound, Placed
  <1>2. /\ seen \in Request /\ SameUse(q, seen) /\ seen.received = q.received
        /\ seen.result = q.result
    <2>1. PICK u \in Timed \cup {"none"} : t = [h EXCEPT !.timer = u]
      BY TimerIs
    <2>2. /\ h \in Request /\ SameUse(q, h) /\ h.received = q.received
          /\ h.result = q.result
      BY ZenonT(60) DEF Request, SameUse
    <2> HIDE DEF h, t
    <2>3. /\ t \in Request /\ SameUse(q, t) /\ t.received = q.received
          /\ t.result = q.result
      BY <2>1, <2>2, TimedIs DEF SameUse
    <2>4. SameUse(q, q)
      BY DEF SameUse
    <2>5. QED
      BY <2>3, <2>4
  <1> HIDE DEF seen
  <1>3. /\ Sound(r, seen, n) /\ seen.pending = "read" /\ ~seen.completed
        /\ seen.result # "response" /\ seen.stream = q.stream
        /\ seen.id = q.id /\ seen.hop = q.hop
    BY <1>2, SameSound DEF SameUse
  <1>4. CASE bytes = <<>> /\ eof
    <2>1. TryComplete(q, n, eof) = Fail(q, n)
      BY <1>4 DEF TryComplete
    <2>2. QED
      BY <2>1, AbandonFlows
  <1>5. CASE bytes = <<>> /\ ~eof
    <2>1. TryComplete(q, n, eof) = [q |-> q, n |-> n]
      BY <1>5 DEF TryComplete, Pair
    <2>2. Flows(r, q, n, p)
      BY <1>5 DEF Flows, Mine, Answered, Waiting
    <2>3. QED
      BY <2>1, <2>2
  <1>6. CASE bytes # <<>> /\ verdict = "malformed"
    <2>1. TryComplete(q, n, eof) = Fail(seen, n)
      BY <1>6 DEF TryComplete, seen
    <2>2. QED
      BY <1>2, <1>3, <2>1, AbandonFlows
  <1>7. CASE bytes # <<>> /\ verdict # "malformed" /\ verdict = "incomplete"
    <2>1. TryComplete(q, n, eof) = [q |-> seen, n |-> n]
      BY <1>7 DEF TryComplete, seen, Pair
    <2>2. Waiting(q)
      BY <1>1, <1>7, ResponseIs
    <2>3. Staged(seen, n, p) /\ Waiting(seen)
      BY <1>2, <1>3, <2>2 DEF Staged, Waiting
    <2>4. Flows(r, seen, n, p)
      BY <1>3, <2>3 DEF Flows, Mine, Answered
    <2>5. QED
      BY <2>1, <2>4
  <1>8. CASE bytes # <<>> /\ verdict # "malformed" /\ verdict # "incomplete"
    <2>1. TryComplete(q, n, eof)
            = CompleteBuffered(seen, n, units, Reusable(shape))
      BY <1>8 DEF TryComplete, seen
    <2>2. units \in Seq(Units) /\ units # <<>>
      <3>1. units \in Seq(Units) /\ Len(units) \in 1 .. Len(bytes)
        BY <1>1, <1>8, UnitsAre
      <3> HIDE DEF units
      <3>2. QED
        BY <3>1
    <2>3. Reusable(shape) \in BOOLEAN
      <3>1. Head(bytes) \in Units
        BY <1>1, <1>8
      <3>2. shape.keep \in BOOLEAN
        BY <3>1, UnitTyped
      <3>3. QED
        BY <3>2 DEF Reusable
    <2>4. /\ Answer(units) = [of |-> {Tag(q.id, q.hop)}, whole |-> TRUE]
          /\ Reusable(shape) => Quiet(n, p, q.stream)
      BY <1>1, <1>8, ResponseIs
    <2> DEFINE reusable == Reusable(shape)
    <2> HIDE DEF units, shape, reusable
    <2>5. /\ Answer(units) = [of |-> {Tag(seen.id, seen.hop)}, whole |-> TRUE]
          /\ reusable => Quiet(n, p, seen.stream)
          /\ reusable \in BOOLEAN
      BY <1>3, <2>3, <2>4 DEF reusable
    <2>6. TryComplete(q, n, eof) = CompleteBuffered(seen, n, units, reusable)
      BY <2>1 DEF reusable
    <2>7. QED
      BY <1>2, <1>3, <2>2, <2>5, <2>6, CompleteBufferedFlows
  <1>9. QED
    BY <1>4, <1>5, <1>6, <1>7, <1>8

-------------------------------------------------------------------------------
(***************************************************************************)
(* The actions keep it.                                                    *)
(***************************************************************************)

\* fetch() keeps answers matched.
LEMMA FetchFlow ==
  ASSUME OwnerInv, FlowInv, NEW r \in Requests, Fetch(r)
  PROVE  FlowInv'
  <1> DEFINE q == [req[r] EXCEPT !.pending = "none"]
  <1>1. /\ Sound(r, req[r], net) /\ req[r] \in Request /\ net \in Net
        /\ Flows(r, req[r], net, peer) /\ peer \in [Streams -> Peer]
    BY InvSound, InvFlows DEF Sound, OwnerInv
  <1>2. req[r].pending = "new" /\ peer' = peer
    BY DEF Fetch
  <1>3. /\ q \in Request /\ q.pending = "none" /\ q.id = req[r].id
        /\ q.stream = req[r].stream /\ q.lower = req[r].lower
        /\ q.redirects = req[r].redirects /\ q.hop = req[r].hop
        /\ q.left = req[r].left
        /\ q.completed <=> req[r].completed
        /\ q.received = req[r].received /\ q.result = req[r].result
    BY <1>1, PendingIs, ZenonT(60)
  <1>4. PICK target \in Targets(r) : Becomes(r, Start(q, net, target))
    BY DEF Fetch
  <1> HIDE DEF q
  <1>5. HeldBy(q) = HeldBy(req[r]) /\ LeftBy(q) = LeftBy(req[r])
    BY <1>2, <1>3 DEF HeldBy, LeftBy
  <1>6. Placed(q, net) /\ Counted(q) /\ q.left = "no"
    BY <1>1, <1>2, <1>3 DEF Sound, Placed, Counted
  <1>7. Sound(r, q, net)
    BY <1>1, <1>3, <1>5, <1>6 DEF Sound
  <1>8. Flows(r, q, net, peer) /\ q.result # "response"
    BY <1>1, <1>2, <1>3 DEF Flows, Mine, Answered
  <1>9. target \in Origins \cup {"bad"}
    BY <1>4 DEF Targets
  <1> DEFINE x == Start(q, net, target)
  <1>10. Flows(r, x.q, x.n, peer)
    BY <1>1, <1>3, <1>6, <1>7, <1>8, <1>9, StartFlows
  <1> HIDE DEF x
  <1>11. Becomes(r, x)
    BY <1>4 DEF x
  <1>12. QED
    BY <1>2, <1>10, <1>11, FlowStep

\* The handlers that read no answer keep answers matched.
LEMMA HandlerFlow ==
  ASSUME OwnerInv, FlowInv, NEW r \in Requests,
         \/ Cancel(r) \/ OnTimeout(r) \/ OnReadError(r)
         \/ OnResolved(r) \/ OnConnected(r) \/ OnTlsConnected(r)
         \/ OnWritten(r) \/ OnEof(r)
  PROVE  FlowInv'
  <1>1. /\ Sound(r, req[r], net) /\ req[r] \in Request /\ net \in Net
        /\ Flows(r, req[r], net, peer) /\ peer \in [Streams -> Peer]
    BY InvSound, InvFlows DEF Sound, OwnerInv
  <1>2. peer' = peer
    BY DEF Cancel, OnTimeout, OnReadError, OnResolved, OnConnected,
       OnTlsConnected, OnWritten, OnEof
  <1>3. ASSUME NEW x, Becomes(r, x), Flows(r, x.q, x.n, peer) PROVE FlowInv'
    BY <1>2, <1>3, FlowStep
  <1>4. Calm(net, peer) /\ Unseen(r, net, peer)
    BY <1>1 DEF Flows
  <1>5. CASE Cancel(r)
    <2> DEFINE x == Abandon(req[r], net, "cancelled")
    <2>1. Flows(r, x.q, x.n, peer)
      BY <1>1, <1>4, <1>5, AbandonFlows DEF Cancel
    <2> HIDE DEF x
    <2>2. QED
      BY <1>3, <1>5, <2>1 DEF Cancel, x
  <1>6. CASE OnTimeout(r)
    <2> DEFINE x == Abandon(req[r], net, "error")
    <2>1. Flows(r, x.q, x.n, peer)
      BY <1>1, <1>4, <1>6, AbandonFlows DEF OnTimeout
    <2> HIDE DEF x
    <2>2. QED
      BY <1>3, <1>6, <2>1 DEF OnTimeout, x
  <1>7. CASE OnReadError(r)
    <2> DEFINE x == Fail(req[r], net)
    <2>1. Flows(r, x.q, x.n, peer)
      BY <1>1, <1>4, <1>7, AbandonFlows DEF OnReadError, Reading
    <2> HIDE DEF x
    <2>2. QED
      BY <1>3, <1>7, <2>1 DEF OnReadError, x
  <1>8. CASE OnResolved(r)
    <2>1. PICK ok \in BOOLEAN : Becomes(r, Resolved(req[r], net, ok))
      BY <1>8 DEF OnResolved
    <2> DEFINE x == Resolved(req[r], net, ok)
    <2>2. Flows(r, x.q, x.n, peer)
      BY <1>1, <1>8, ResolvedFlows DEF OnResolved
    <2> HIDE DEF x
    <2>3. QED
      BY <1>3, <2>1, <2>2 DEF x
  <1>9. CASE OnConnected(r)
    <2>1. PICK ok \in BOOLEAN, built \in BOOLEAN :
            /\ (ok => CanOpen(net))
            /\ Becomes(r, Connected(req[r], net, ok, built))
      BY <1>9 DEF OnConnected
    <2> DEFINE x == Connected(req[r], net, ok, built)
    <2>2. req[r].pending = "connect" /\ ~req[r].completed
      BY <1>9 DEF OnConnected
    <2>3. Flows(r, x.q, x.n, peer)
      BY <1>1, <2>1, <2>2, ConnectedFlows
    <2> HIDE DEF x
    <2>4. QED
      BY <1>3, <2>1, <2>3 DEF x
  <1>10. CASE OnTlsConnected(r)
    <2>1. PICK result \in {"http/1.1", "failed", "h2"} :
            Becomes(r, TlsConnected(req[r], net, result))
      BY <1>10 DEF OnTlsConnected
    <2> DEFINE x == TlsConnected(req[r], net, result)
    <2>2. req[r].pending = "tls" /\ ~req[r].completed
      BY <1>10 DEF OnTlsConnected
    <2>3. Flows(r, x.q, x.n, peer)
      BY <1>1, <2>2, TlsConnectedFlows
    <2> HIDE DEF x
    <2>4. QED
      BY <1>3, <2>1, <2>3 DEF x
  <1>11. CASE OnWritten(r)
    <2>1. PICK ok \in BOOLEAN : Becomes(r, Written(req[r], net, ok))
      BY <1>11 DEF OnWritten
    <2> DEFINE x == Written(req[r], net, ok)
    <2>2. Flows(r, x.q, x.n, peer)
      BY <1>1, <1>11, WrittenFlows DEF OnWritten
    <2> HIDE DEF x
    <2>3. QED
      BY <1>3, <2>1, <2>2 DEF x
  <1>12. CASE OnEof(r)
    <2> DEFINE x == TryComplete(req[r], net, TRUE)
    <2>1. req[r].pending = "read" /\ ~req[r].completed
      BY <1>12 DEF OnEof, Reading
    <2>2. Staged(req[r], net, peer) /\ req[r].result # "response"
      BY <1>1, <2>1 DEF Flows, Mine, Answered
    <2>3. Flows(r, x.q, x.n, peer)
      BY <1>1, <1>4, <2>1, <2>2, TryCompleteFlows
    <2> HIDE DEF x
    <2>4. QED
      BY <1>3, <1>12, <2>3 DEF OnEof, x
  <1>13. QED
    BY <1>5, <1>6, <1>7, <1>8, <1>9, <1>10, <1>11, <1>12

\* What is read leaves the inbox.
LEMMA ReadMoves ==
  ASSUME NEW S, NEW a \in Seq(S), NEW b \in Seq(S), NEW k \in 1 .. Len(b)
  PROVE  LET new == SubSeq(b, 1, k)
             rest == SubSeq(b, k + 1, Len(b))
         IN (a \o new) \o rest = a \o b
  <1> DEFINE new == SubSeq(b, 1, k)
             rest == SubSeq(b, k + 1, Len(b))
  <1>1. new \o rest = b
    <2>1. SubSeq(b, 1, k) \o SubSeq(b, k + 1, Len(b)) = SubSeq(b, 1, Len(b))
      BY ConcatAdjacentSubSeq
    <2>2. QED
      BY <2>1, SubSeqFull
  <1>2. new \in Seq(S) /\ rest \in Seq(S)
    OBVIOUS
  <1> HIDE DEF new, rest
  <1>3. (a \o new) \o rest = a \o (new \o rest)
    BY <1>2, SMTT(60)
  <1>4. QED
    BY <1>1, <1>3 DEF new, rest

\* on_read() keeps answers matched.
LEMMA OnReadFlow ==
  ASSUME OwnerInv, FlowInv, NEW r \in Requests, OnRead(r)
  PROVE  FlowInv'
  <1> DEFINE s == req[r].stream
             inbox == peer[s].inbox
             old == req[r].received
  <1>1. /\ Sound(r, req[r], net) /\ req[r] \in Request /\ net \in Net
        /\ Flows(r, req[r], net, peer) /\ peer \in [Streams -> Peer]
    BY InvSound, InvFlows DEF Sound, OwnerInv
  <1>2. req[r].pending = "read" /\ ~req[r].completed /\ s \in Streams
    BY DEF OnRead, Reading, OwnerInv, Placed
  <1>3. PICK k \in 1 .. Len(inbox) :
          /\ peer' = [peer EXCEPT ![s].inbox = SubSeq(inbox, k + 1, Len(inbox))]
          /\ Becomes(r, TryComplete([req[r] EXCEPT
                 !.received = @ \o SubSeq(inbox, 1, k)], net, FALSE))
    BY DEF OnRead
  <1>4. inbox \in Seq(Units) /\ old \in Seq(Units)
    BY <1>1, <1>2 DEF Peer, Request
  <1> DEFINE new == SubSeq(inbox, 1, k)
             rest == SubSeq(inbox, k + 1, Len(inbox))
             bytes == old \o new
             q == [req[r] EXCEPT !.received = bytes]
             x == TryComplete(q, net, FALSE)
  <1>5. bytes \o rest = old \o inbox
    <2> HIDE DEF inbox, old
    <2>1. QED
      BY <1>3, <1>4, ReadMoves
  <1>6. new \in Seq(Units) /\ rest \in Seq(Units)
    <2> HIDE DEF inbox
    <2>1. QED
      BY <1>3, <1>4
  <1>7. Becomes(r, x) /\ peer' = [peer EXCEPT ![s].inbox = rest]
    BY <1>3
  <1>8. bytes \in Seq(Units)
    <2> HIDE DEF new, old
    <2>1. QED
      BY <1>4, <1>6
  <1> HIDE DEF bytes, new, rest, inbox
  <1>9. q \in Request
    BY <1>1, <1>8 DEF Request
  <1>10. SameUse(req[r], q) /\ q.received = bytes /\ q.result = req[r].result
    BY <1>1, <1>2 DEF Request, SameUse
  <1> HIDE DEF q
  <1>11. /\ Sound(r, q, net) /\ q.pending = "read" /\ ~q.completed
         /\ q.stream = s /\ q.id = req[r].id /\ q.hop = req[r].hop
    BY <1>1, <1>2, <1>9, <1>10, SameSound DEF SameUse
  <1>12. /\ peer' \in [Streams -> Peer]
         /\ peer'[s].inbox = rest /\ (peer'[s].busy <=> peer[s].busy)
         /\ \A t \in Streams : t # s => peer'[t] = peer[t]
    <2> DEFINE w == [peer[s] EXCEPT !.inbox = rest]
    <2>1. w \in Peer /\ w.inbox = rest /\ (w.busy <=> peer[s].busy)
      BY <1>1, <1>2, <1>6 DEF Peer
    <2>2. peer' = [peer EXCEPT ![s] = w]
      BY <1>7
    <2> HIDE DEF w, s
    <2>3. QED
      BY <1>1, <1>2, <2>1, <2>2
  <1>13. Staged(q, net, peer')
    <2>1. Staged(req[r], net, peer)
      BY <1>1, <1>2 DEF Flows, Mine
    <2>2. q.received \o peer'[q.stream].inbox = req[r].received \o peer[s].inbox
      BY <1>5, <1>10, <1>11, <1>12 DEF inbox
    <2>3. peer'[q.stream].busy <=> peer[s].busy
      BY <1>11, <1>12
    <2> DEFINE u == q.received \o peer'[q.stream].inbox
               z == req[r].received \o peer[s].inbox
    <2>4. Stage(Tag(q.id, q.hop), z, net.owed[s], peer[s].busy)
      BY <1>11, <2>1 DEF Staged
    <2>5. u = z
      BY <2>2
    <2> HIDE DEF u, z
    <2>6. Stage(Tag(q.id, q.hop), u, net.owed[q.stream], peer'[q.stream].busy)
      BY <1>11, <2>3, <2>4, <2>5 DEF Stage
    <2>7. QED
      BY <2>6 DEF Staged, u
  <1>14. HeldBy(req[r]) = {s}
    BY <1>2 DEF HeldBy
  <1>15. Unseen(r, net, peer')
    <2>1. \A t \in Others(r) : t \in Streams /\ t # s
      BY <1>1, <1>14, OthersAre
    <2>2. QED
      BY <1>12, <2>1 DEF Unseen
  <1>16. Calm(net, peer')
    <2>1. Held[r] = {s}
      BY <1>14 DEF Held
    <2>2. net.life[s] = "open" /\ ~InPool(net, s)
      BY <1>2, <2>1 DEF OwnerInv, Owned, HeldOpen, IdleFree
    <2>3. Calm(net, peer)
      BY DEF FlowInv
    <2> HIDE DEF s
    <2>4. QED
      BY <1>12, <2>2, <2>3 DEF Calm, Quiet
  <1>17. q.result # "response"
    BY <1>1, <1>2, <1>10 DEF Flows, Answered
  <1>18. Flows(r, x.q, x.n, peer')
    BY <1>1, <1>9, <1>11, <1>12, <1>13, <1>15, <1>16, <1>17, TryCompleteFlows
  <1> HIDE DEF x
  <1>19. QED
    BY <1>7, <1>18, FlowStep

\* on_closed(), with the next hop of a redirect, keeps answers matched.
LEMMA OnClosedFlow ==
  ASSUME OwnerInv, FlowInv, NEW s \in Streams, OnClosed(s)
  PROVE  FlowInv'
  <1> DEFINE c == [net EXCEPT !.life[s] = "closed", !.owed[s] = <<>>]
             waiting == {r \in Requests :
                           req[r].pending = "close" /\ req[r].stream = s}
  <1>1. /\ net \in Net /\ Held \in Holding /\ Owned(Held, Left, net)
        /\ peer \in [Streams -> Peer]
    BY HeldTyped DEF OwnerInv
  <1>2. net.life[s] = "closing" /\ peer' = [peer EXCEPT ![s] = IdlePeer]
    BY DEF OnClosed
  <1>3. /\ c \in Net /\ c.idle = net.idle
        /\ \A t \in Streams :
             /\ c.life[t] = IF t = s THEN "closed" ELSE net.life[t]
             /\ t # s => c.owed[t] = net.owed[t]
    <2>1. <<>> \in Seq(Tags)
      OBVIOUS
    <2>2. c \in Net
      BY <1>1, <2>1 DEF Net, Lives
    <2>3. QED
      BY <1>1, <2>2 DEF Net
  <1>4. /\ peer' \in [Streams -> Peer]
        /\ \A t \in Streams : t # s => peer'[t] = peer[t]
    <2>1. IdlePeer \in Peer
      <3>1. <<>> \in Seq(Units)
        OBVIOUS
      <3>2. QED
        BY <3>1 DEF IdlePeer, Peer
    <2>2. QED
      BY <1>1, <1>2, <2>1
  <1>5. IF waiting = {} THEN net' = c /\ req' = req
        ELSE \E r \in waiting :
               Becomes(r, Start([req[r] EXCEPT !.pending = "none"], c,
                                req[r].next))
    BY DEF OnClosed
  <1> HIDE DEF c
  <1>6. ~InPool(net, s) /\ \A r \in Requests : s \notin Held[r]
    BY <1>1, <1>2 DEF Owned, IdleOpen, HeldOpen
  <1>7. Calm(c, peer')
    <2>1. \A t : InPool(c, t) <=> InPool(net, t)
      BY <1>3 DEF InPool
    <2>2. QED
      BY <1>3, <1>4, <1>6, <2>1 DEF FlowInv, Calm, Quiet
  <1>8. CASE waiting = {}
    <2>1. net' = c /\ req' = req
      BY <1>5, <1>8
    <2>2. ASSUME NEW r \in Requests PROVE Mine(req[r], net', peer')
      <3>1. \A t \in HeldBy(req[r]) : t \in Streams /\ t # s
        BY <1>1, <1>6 DEF Held, Holding
      <3>2. Mine(req[r], net, peer)
        BY DEF FlowInv
      <3>3. \A t \in HeldBy(req[r]) :
              net'.owed[t] = net.owed[t] /\ peer'[t] = peer[t]
        BY <1>3, <1>4, <2>1, <3>1
      <3>4. QED
        BY <3>2, <3>3 DEF Mine, HeldBy, Staged, Quiet
    <2>3. QED
      BY <1>7, <2>1, <2>2, FlowNetStep
  <1>9. CASE waiting # {}
    <2>1. PICK r \in waiting :
               Becomes(r, Start([req[r] EXCEPT !.pending = "none"], c,
                                req[r].next))
      BY <1>5, <1>9
    <2>2. /\ r \in Requests /\ req[r].pending = "close" /\ req[r].stream = s
          /\ req[r] \in Request
      BY <2>1 DEF OwnerInv
    <2> DEFINE q == [req[r] EXCEPT !.pending = "none"]
               target == req[r].next
               x == Start(q, c, target)
    <2>3. Becomes(r, x)
      BY <2>1
    <2>4. /\ q \in Request /\ q.pending = "none" /\ q.id = req[r].id
          /\ q.stream = req[r].stream /\ q.lower = req[r].lower
          /\ q.redirects = req[r].redirects /\ q.hop = req[r].hop
          /\ q.left = req[r].left
          /\ q.completed <=> req[r].completed
          /\ q.received = req[r].received /\ q.result = req[r].result
      BY <2>2, PendingIs, ZenonT(60)
    <2> HIDE DEF q, waiting
    <2>5. Sound(r, q, c) /\ q.left = "no" /\ target \in Origins \cup {"bad"}
      BY <1>2, <1>3, <2>2, <2>4, ClosedSound
    <2>6. Unseen(r, c, peer')
      <3>1. \A t \in Others(r) : t \in Streams /\ t # s
        BY <1>1, <1>6 DEF Others, Holding
      <3>2. QED
        BY <1>3, <1>4, <3>1 DEF Unseen
    <2>7. Flows(r, q, c, peer') /\ q.result # "response"
      <3>1. Mine(req[r], net, peer) /\ Answered(req[r])
        BY <2>2 DEF FlowInv
      <3>2. QED
        BY <1>7, <2>2, <2>4, <2>6, <3>1 DEF Flows, Mine, Answered
    <2> HIDE DEF target
    <2>8. Flows(r, x.q, x.n, peer')
      BY <1>3, <1>4, <2>2, <2>4, <2>5, <2>7, StartFlows
    <2> HIDE DEF x
    <2>9. QED
      BY <2>2, <2>3, <2>8, FlowStep
  <1>10. QED
    BY <1>8, <1>9

\* The pool closing what it keeps disturbs no answer.
LEMMA PoolStepFlow ==
  ASSUME OwnerInv, FlowInv, CloseIdleConnections \/ IdleTimeout
  PROVE  FlowInv'
  <1>1. net \in Net /\ Held \in Holding /\ Owned(Held, Left, net)
    BY HeldTyped DEF OwnerInv
  <1>2. req' = req /\ peer' = peer
    BY DEF CloseIdleConnections, IdleTimeout
  <1>3. /\ net'.owed = net.owed
        /\ \A t : InPool(net', t) => InPool(net, t)
        /\ \A t \in Streams : net'.life[t] = "none" => net.life[t] = "none"
    <2>1. CASE CloseIdleConnections
      <3> DEFINE m == CloseAll(net)
      <3>1. /\ m.owed = net.owed
            /\ \A t : InPool(m, t) => InPool(net, t)
            /\ \A t \in Streams : m.life[t] = "none" => net.life[t] = "none"
        BY <1>1, OwnCloseAll
      <3> HIDE DEF m
      <3>2. net' = m
        BY <2>1 DEF CloseIdleConnections, m
      <3>3. QED
        BY <3>1, <3>2
    <2>2. CASE IdleTimeout
      <3>1. PICK o \in Origins : \E i \in DOMAIN net.idle[o] :
              net' = Expire(net, o, i)
        BY <2>2 DEF IdleTimeout
      <3>2. PICK i \in DOMAIN net.idle[o] : net' = Expire(net, o, i)
        BY <3>1
      <3> DEFINE m == Expire(net, o, i)
      <3>3. /\ m.owed = net.owed
            /\ \A t : InPool(m, t) => InPool(net, t)
            /\ \A t \in Streams : m.life[t] = "none" => net.life[t] = "none"
        BY <1>1, OwnExpire
      <3> HIDE DEF m
      <3>4. net' = m
        BY <3>2 DEF m
      <3>5. QED
        BY <3>3, <3>4
    <2>3. QED
      BY <2>1, <2>2
  <1>4. Calm(net', peer')
    BY <1>2, <1>3 DEF FlowInv, Calm, Quiet
  <1>5. ASSUME NEW r \in Requests PROVE Mine(req[r], net', peer')
    <2>1. Mine(req[r], net, peer)
      BY DEF FlowInv
    <2>2. QED
      BY <1>2, <1>3, <2>1 DEF Mine, Staged, Quiet
  <1>6. QED
    BY <1>2, <1>4, <1>5, FlowNetStep

\* Appending to the second part appends to the whole.
LEMMA ConcatAppend ==
  ASSUME NEW S, NEW a \in Seq(S), NEW b \in Seq(S), NEW u \in S
  PROVE  a \o Append(b, u) = Append(a \o b, u)
  OBVIOUS

\* The head of the answer that is due, and nothing more when it has no body.
LEMMA StageHead ==
  ASSUME NEW t, NEW units \in Seq(Units), NEW owed \in Seq(Tags),
         Stage(t, units, owed, FALSE), owed # <<>>, NEW shape,
         NEW u, u = Unit(Head(owed), "head", shape)
  PROVE  LET due == IF HasBody(shape) THEN owed ELSE Tail(owed)
         IN Stage(t, Append(units, u), due, HasBody(shape))
  <1>1. units = <<>> /\ owed = <<t>>
    BY DEF Stage
  <1>2. Head(owed) = t /\ Tail(owed) = <<>>
    BY <1>1
  <1>3. u.tag = t /\ u.shape = shape
    BY <1>2 DEF Unit
  <1> DEFINE w == Append(units, u)
  <1>4. Len(w) = 1 /\ w[1] = u
    BY <1>1
  <1> HIDE DEF w
  <1>5. Stage(t, w, IF HasBody(shape) THEN owed ELSE Tail(owed), HasBody(shape))
    BY <1>1, <1>2, <1>3, <1>4 DEF Stage
  <1>6. QED
    BY <1>5 DEF w

\* The body of the answer that is due completes it.
LEMMA StageBody ==
  ASSUME NEW t, NEW units \in Seq(Units), NEW owed \in Seq(Tags),
         Stage(t, units, owed, TRUE), NEW shape,
         NEW u \in Units, u = Unit(Head(owed), "body", shape)
  PROVE  Stage(t, Append(units, u), Tail(owed), FALSE)
  <1>1. /\ Len(units) = 1 /\ units[1].tag = t /\ HasBody(units[1].shape)
        /\ owed = <<t>>
    BY DEF Stage
  <1>2. Head(owed) = t /\ Tail(owed) = <<>>
    BY <1>1
  <1>3. u.tag = t
    BY <1>2 DEF Unit
  <1> DEFINE w == Append(units, u)
  <1>4. Len(w) = 2 /\ w[1] = units[1] /\ w[2] = u
    <2>1. Len(w) = Len(units) + 1 /\ w[Len(units) + 1] = u
      BY AppendProperties
    <2>2. \A i \in 1 .. Len(units) : w[i] = units[i]
      BY AppendProperties
    <2>3. 1 \in 1 .. Len(units) /\ Len(units) + 1 = 2
      BY <1>1
    <2> HIDE DEF w
    <2>4. QED
      BY <2>1, <2>2, <2>3
  <1> HIDE DEF w
  <1>5. Stage(t, w, Tail(owed), FALSE)
    BY <1>1, <1>2, <1>3, <1>4 DEF Stage
  <1>6. QED
    BY <1>5 DEF w

\* What a server sends to s, when it sends no interim response.
LEMMA SendsAnswer ==
  ASSUME OwnerInv, MaxInterim = 0, NEW s \in Streams,
         SendHead(s) \/ SendBody(s), NEW t, NEW a \in Seq(Units),
         Stage(t, a \o peer[s].inbox, net.owed[s], peer[s].busy)
  PROVE  Stage(t, a \o peer'[s].inbox, net'.owed[s], peer'[s].busy)
  <1> DEFINE owed == net.owed[s]
             inbox == peer[s].inbox
             units == a \o inbox
  <1>1. /\ net \in Net /\ net.owed \in [Streams -> Seq(Tags)]
        /\ peer \in [Streams -> Peer] /\ peer[s] \in Peer
        /\ inbox \in Seq(Units) /\ peer[s].interims \in Nat
        /\ peer[s].busy \in BOOLEAN
    BY SMTT(60) DEF OwnerInv, Net, Peer
  <1>2. owed \in Seq(Tags) /\ owed # <<>>
    BY <1>1 DEF SendHead, SendBody, Answering
  <1>3. Head(owed) \in Tags /\ Tail(owed) \in Seq(Tags)
    <2> HIDE DEF owed
    <2>1. QED
      BY <1>2
  <1>4. units \in Seq(Units)
    <2> HIDE DEF inbox
    <2>1. QED
      BY <1>1
  <1>5. Stage(t, units, owed, peer[s].busy)
    OBVIOUS
  <1> DEFINE paid == [net EXCEPT !.owed[s] = Tail(@)]
  <1>6. paid.owed[s] = Tail(owed)
    BY <1>1 DEF Net
  <1> HIDE DEF paid, units
  <1>7. CASE SendHead(s)
    <2>1. PICK shape \in Heads(s) :
            LET unit == Unit(Head(net.owed[s]), "head", shape)
                final == ~HasBody(shape) /\ ~shape.interim
            IN /\ peer' = [peer EXCEPT ![s].inbox = Append(@, unit),
                                  ![s].busy = HasBody(shape),
                                  ![s].gone = final /\ ~shape.keep,
                                  ![s].interims = @ + IF shape.interim
                                                      THEN 1 ELSE 0]
               /\ net' = IF final THEN [net EXCEPT !.owed[s] = Tail(@)]
                                  ELSE net
      BY <1>7 DEF SendHead
    <2>2. shape \in Shapes /\ ~shape.interim
      <3>1. ~(peer[s].interims < MaxInterim)
        BY <1>1
      <3>2. shape \in Shapes
        BY <2>1, <3>1 DEF Heads
      <3>3. QED
        BY <3>2 DEF Shapes
    <2> DEFINE u == Unit(Head(owed), "head", shape)
    <2>3. u \in Units
      BY <1>3, <2>2 DEF Unit, Units
    <2>4. net' = IF HasBody(shape) THEN net ELSE paid
      BY <2>1, <2>2 DEF paid
    <2>5. net'.owed[s] = IF HasBody(shape) THEN owed ELSE Tail(owed)
      BY <1>6, <2>4
    <2>6. /\ peer'[s].inbox = Append(inbox, u)
          /\ peer'[s].busy = HasBody(shape)
      BY <1>1, <2>1, SMTT(60) DEF Peer
    <2>7. ~peer[s].busy
      BY <1>7 DEF SendHead
    <2>8. Stage(t, units, owed, FALSE)
      BY <1>5, <2>7 DEF Stage
    <2>9. u = Unit(Head(owed), "head", shape)
      OBVIOUS
    <2> HIDE DEF u, owed, inbox
    <2>10. LET due == IF HasBody(shape) THEN owed ELSE Tail(owed)
           IN Stage(t, Append(units, u), due, HasBody(shape))
      BY <1>2, <1>4, <2>8, <2>9, StageHead
    <2>11. a \o Append(inbox, u) = Append(units, u)
      BY <1>1, <2>3, ConcatAppend, SMTT(60) DEF units
    <2>12. QED
      BY <2>5, <2>6, <2>10, <2>11, SMTT(60)
  <1>8. CASE SendBody(s)
    <2> DEFINE u == Unit(Head(owed), "body", InterimShape)
    <2>1. PICK keep \in BOOLEAN :
            peer' = [peer EXCEPT ![s].busy = FALSE, ![s].gone = ~keep,
                                 ![s].inbox = Append(@, u)]
      BY <1>8 DEF SendBody
    <2>2. u \in Units
      BY <1>3 DEF Unit, Units
    <2>3. net'.owed[s] = Tail(owed)
      BY <1>6, <1>8 DEF SendBody, paid
    <2>4. peer'[s].inbox = Append(inbox, u) /\ peer'[s].busy = FALSE
      BY <1>1, <2>1 DEF Peer
    <2>5. peer[s].busy
      BY <1>8 DEF SendBody
    <2>6. Stage(t, units, owed, TRUE)
      BY <1>5, <2>5 DEF Stage
    <2>7. u = Unit(Head(owed), "body", InterimShape)
      OBVIOUS
    <2> HIDE DEF u, owed, inbox
    <2>8. Stage(t, Append(units, u), Tail(owed), FALSE)
      BY <1>2, <1>4, <2>2, <2>6, <2>7, StageBody
    <2>9. a \o Append(inbox, u) = Append(units, u)
      BY <1>1, <2>2, ConcatAppend DEF units
    <2>10. QED
      BY <2>3, <2>4, <2>8, <2>9
  <1>9. QED
    BY <1>7, <1>8

\* The servers answer what is owed, in order.
LEMMA ServerFlow ==
  ASSUME OwnerInv, FlowInv, MaxInterim = 0, NEW s \in Streams,
         SendHead(s) \/ SendBody(s) \/ PeerCloses(s)
  PROVE  FlowInv'
  <1>1. Held \in Holding /\ Calm(net, peer) /\ peer \in [Streams -> Peer]
    BY HeldTyped DEF OwnerInv, FlowInv
  <1>2. CASE SendHead(s) \/ SendBody(s)
    <2>1. /\ net'.idle = net.idle /\ net'.life = net.life /\ req' = req
          /\ \A t \in Streams : t # s =>
               net'.owed[t] = net.owed[t] /\ peer'[t] = peer[t]
      BY <1>2, SendIs, SMTT(60)
    <2>2. ~Quiet(net, peer, s)
      BY <1>2 DEF SendHead, SendBody, Answering, Quiet
    <2>3. Calm(net', peer')
      <3>1. \A t : InPool(net', t) <=> InPool(net, t)
        BY <2>1 DEF InPool
      <3>2. QED
        BY <1>1, <2>1, <2>2, <3>1 DEF Calm, Quiet
    <2>4. ASSUME NEW r \in Requests PROVE Mine(req[r], net', peer')
      <3>1. Mine(req[r], net, peer) /\ req[r].received \in Seq(Units)
        BY DEF FlowInv, OwnerInv, Request
      <3>2. \A t \in HeldBy(req[r]) : t \in Streams
        BY <1>1 DEF Held, Holding
      <3>3. ASSUME ~req[r].completed, req[r].pending = "tls"
            PROVE  Quiet(net', peer', req[r].lower)
        <4>1. Quiet(net, peer, req[r].lower) /\ req[r].lower \in Streams
          BY <3>1, <3>2, <3>3 DEF Mine, HeldBy
        <4>2. QED
          BY <2>1, <2>2, <4>1 DEF Quiet
      <3>4. ASSUME ~req[r].completed, req[r].pending \in {"write", "read"}
            PROVE  Staged(req[r], net', peer')
        <4>1. Staged(req[r], net, peer) /\ req[r].stream \in Streams
          BY <3>1, <3>2, <3>4 DEF Mine, HeldBy
        <4>2. CASE req[r].stream = s
          BY <1>2, <3>1, <4>1, <4>2, SendsAnswer DEF Staged
        <4>3. CASE req[r].stream # s
          BY <2>1, <4>1, <4>3 DEF Staged
        <4>4. QED
          BY <4>2, <4>3
      <3>5. QED
        BY <3>1, <3>3, <3>4 DEF Mine
    <2>5. QED
      BY <2>1, <2>3, <2>4, FlowNetStep
  <1>3. CASE PeerCloses(s)
    <2>1. net' = net /\ req' = req
      BY <1>3 DEF PeerCloses
    <2>2. \A t \in Streams : /\ peer'[t].inbox = peer[t].inbox
                             /\ peer'[t].busy = peer[t].busy
      BY <1>1, <1>3 DEF PeerCloses, Peer
    <2>3. Calm(net', peer')
      BY <1>1, <2>1, <2>2 DEF Calm, Quiet
    <2>4. ASSUME NEW r \in Requests PROVE Mine(req[r], net', peer')
      <3>1. Mine(req[r], net, peer)
        BY DEF FlowInv
      <3>2. \A t \in HeldBy(req[r]) : t \in Streams
        BY <1>1 DEF Held, Holding
      <3>3. QED
        BY <2>1, <2>2, <3>1, <3>2 DEF Mine, HeldBy, Staged, Quiet
    <2>5. QED
      BY <2>1, <2>3, <2>4, FlowNetStep
  <1>4. QED
    BY <1>2, <1>3

\* Initially nothing is owed.
LEMMA InitFlow ==
  ASSUME Init PROVE FlowInv
  <1>1. \A r \in Requests : /\ req[r].pending = "new" /\ req[r].received = <<>>
                            /\ req[r].result = "none"
    BY DEF Init, NewRequest
  <1>2. \A s \in Streams : Quiet(net, peer, s)
    BY DEF Init, IdlePeer, Quiet
  <1>3. QED
    BY <1>1, <1>2 DEF FlowInv, Mine, Answered, Calm

\* Every step keeps answers matched.
LEMMA StepFlow ==
  ASSUME OwnerInv, FlowInv, MaxInterim = 0, [Next]_vars
  PROVE  FlowInv'
  <1>1. CASE UNCHANGED vars
    <2>1. req' = req /\ net' = net /\ peer' = peer
      BY <1>1 DEF vars
    <2>2. Calm(net', peer') /\ \A r \in Requests : Mine(req[r], net', peer')
      BY <2>1 DEF FlowInv
    <2>3. QED
      BY <2>1, <2>2, FlowNetStep
  <1>2. CASE Next
    <2>1. ASSUME NEW r \in Requests,
                 \/ Fetch(r) \/ Cancel(r) \/ OnTimeout(r)
                 \/ OnResolved(r) \/ OnConnected(r) \/ OnTlsConnected(r)
                 \/ OnWritten(r) \/ OnRead(r) \/ OnEof(r) \/ OnReadError(r)
          PROVE  FlowInv'
      BY <2>1, FetchFlow, HandlerFlow, OnReadFlow
    <2>2. ASSUME NEW s \in Streams,
                 OnClosed(s) \/ SendHead(s) \/ SendBody(s) \/ PeerCloses(s)
          PROVE  FlowInv'
      BY <2>2, OnClosedFlow, ServerFlow
    <2>3. CASE CloseIdleConnections \/ IdleTimeout
      BY <2>3, PoolStepFlow
    <2>4. QED
      BY <1>2, <2>1, <2>2, <2>3 DEF Next
  <1>3. QED
    BY <1>1, <1>2

\* FlowInv always holds when servers send no interim response.
LEMMA FlowInvariance ==
  ASSUME MaxInterim = 0 PROVE Spec => []FlowInv
  <1>1. Init => FlowInv
    BY InitFlow
  <1>2. OwnerInv /\ FlowInv /\ [Next]_vars => FlowInv'
    BY StepFlow
  <1>3. QED
    BY <1>1, <1>2, OwnerInvariance, PTL DEF Spec

\* When no server sends an interim response, a response given to the
\* application is made of the whole answer to the last hop of its request and
\* of nothing else, whatever shares the connections with it, is cancelled,
\* fails or is redirected (complete_buffered_response() of
\* src/http/client.cpp).
THEOREM MatchesAnswers ==
  ASSUME MaxInterim = 0 PROVE Spec => []AnswersMatch
  <1>1. OwnerInv /\ FlowInv => AnswersMatch
    BY DEF OwnerInv, FlowInv, Answered, AnswersMatch
  <1>2. QED
    BY <1>1, OwnerInvariance, FlowInvariance, PTL

\* When no server sends an interim response, a connection the pool keeps is
\* quiet: its server owes nothing, and no byte of an earlier answer waits for
\* the next request (close_or_release_current() of src/http/client.cpp).
THEOREM KeepsPoolQuiet ==
  ASSUME MaxInterim = 0 PROVE Spec => []PoolQuiet
  <1>1. ASSUME OwnerInv, FlowInv PROVE PoolQuiet
    <2>1. SUFFICES ASSUME NEW o \in Origins, NEW i \in DOMAIN net.idle[o]
                   PROVE  /\ net.owed[net.idle[o][i]] = <<>>
                          /\ peer[net.idle[o][i]].inbox = <<>>
      BY DEF PoolQuiet
    <2>2. net.idle[o][i] \in Streams /\ InPool(net, net.idle[o][i])
      BY <1>1, IdleTyped DEF OwnerInv, InPool
    <2>3. QED
      BY <1>1, <2>2 DEF FlowInv, Calm, Quiet
  <1>2. QED
    BY <1>1, OwnerInvariance, FlowInvariance, PTL

===============================================================================
