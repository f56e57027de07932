-------------------------- MODULE HttpStreamingProofs --------------------------
(***************************************************************************)
(* Proofs about one streaming request of the client: its upload, its       *)
(* response and its connection.                                            *)
(***************************************************************************)
EXTENDS HttpStreaming, SequenceFacts, FiniteSetTheorems

-------------------------------------------------------------------------------
(***************************************************************************)
(* The inductive invariant, in four parts.                                 *)
(***************************************************************************)

\* What lies below the stream's callback: the loop or, in a secure stream, the
\* read_start() of begin_response_read(), which end() may have called from the
\* drain callback.
Bases == {<<>>, <<"reading">>, <<"reading", "drain", "written">>}

\* What the call stack may be.
Bodying(st) ==
  st \in {<<"body">>, <<"body", "reading">>,
          <<"body", "reading", "drain", "written">>}

Emitting(st) ==
  st \in {<<"data", "body">>, <<"data", "body", "reading">>,
          <<"data", "body", "reading", "drain", "written">>}

Heading(st) ==
  st \in {<<"headers", "mode">>, <<"mode">>,
          <<"headers", "mode", "reading">>, <<"mode", "reading">>,
          <<"headers", "mode", "reading", "drain", "written">>,
          <<"mode", "reading", "drain", "written">>}

Processing(st) ==
  st \in {<<"process">>, <<"process", "reading">>,
          <<"process", "reading", "drain", "written">>}

Outer(st) == st \in {<<>>, <<"written">>, <<"drain", "written">>}

Waiting(st) == st \in {<<"reading">>, <<"reading", "drain", "written">>}

Stack(st) ==
  \/ Outer(st) \/ Waiting(st) \/ Processing(st) \/ Heading(st)
  \/ Bodying(st) \/ Emitting(st)

\* ... inside read_start(), and above the end of a write.
Inside(st) ==
  st \in {<<"process", "reading">>,
          <<"process", "reading", "drain", "written">>,
          <<"headers", "mode", "reading">>, <<"mode", "reading">>,
          <<"headers", "mode", "reading", "drain", "written">>,
          <<"mode", "reading", "drain", "written">>,
          <<"body", "reading">>, <<"body", "reading", "drain", "written">>,
          <<"data", "body", "reading">>,
          <<"data", "body", "reading", "drain", "written">>}

Written(st) ==
  st \in {<<"written">>, <<"drain", "written">>,
          <<"reading", "drain", "written">>,
          <<"process", "reading", "drain", "written">>,
          <<"headers", "mode", "reading", "drain", "written">>,
          <<"mode", "reading", "drain", "written">>,
          <<"body", "reading", "drain", "written">>,
          <<"data", "body", "reading", "drain", "written">>}

Types == q \in Request /\ net \in Net /\ peer \in Peer /\ Stack(todo)

\* How many writes the upload so far has, and what the i-th of them is.
Count(r) ==
  r.accepted + IF r.upload_mode = "chunked" /\ r.upload_ended THEN 1 ELSE 0

Piece(r, i) ==
  [id |-> IF i <= r.accepted THEN i ELSE 0,
   size |-> IF i <= r.accepted THEN WireBytes(r.upload_mode) ELSE 1]

\* The bytes of so many writes at the end of the upload.
Load(r, n) ==
  IF r.upload_mode # "chunked" THEN n
  ELSE IF r.upload_ended /\ n > 0 THEN n + n - 1 ELSE n + n

\* The writes that the stream has finished.
Flown(r) == Len(r.sent) - IF r.upload_writing THEN 1 ELSE 0

\* While the request goes on, what is not on the wire is queued.
Queued(r) ==
  /\ Flown(r) \in Nat
  /\ Flown(r) + Len(r.upload_writes) = Count(r)
  /\ \A i \in 1 .. Len(r.upload_writes) :
       r.upload_writes[i] = Piece(r, Flown(r) + i)
  /\ r.pending_bytes = Load(r, Len(r.upload_writes))
  /\ r.upload_writing => r.upload_writes # <<>> /\ r.headers_written
  /\ r.backpressured => r.pending_bytes > MaxPending \div 2

Uploaded(r) ==
  /\ r.upload_writes = <<>> /\ ~r.upload_writing
  /\ r.upload_ended \/ r.upload_mode = "none"
  /\ Len(r.sent) = Count(r)
  /\ r.headers_written

\* What is true of the upload whoever runs ...
Sound(r) ==
  /\ r.accepted <= IF r.upload_mode = "content_length" THEN r.content_length
                                                       ELSE MaxWrites
  /\ Len(r.sent) <= Count(r)
  /\ \A i \in 1 .. Len(r.sent) : r.sent[i] = Piece(r, i).id
  /\ r.upload_mode = "content_length" /\ r.upload_ended =>
       r.accepted = r.content_length
  /\ r.upload_mode = "none" => r.accepted = 0
  /\ r.headers_written => r.headers_started
  /\ r.reading_response => Uploaded(r)
  /\ ~r.completed => Queued(r)

\* ... and that somebody will write what is queued.
Upload(r, st) ==
  /\ Sound(r)
  /\ Written(st) => r.headers_written
  /\ Outer(st) \/ r.reading_response
  /\ ~r.completed /\ r.headers_written /\ r.upload_writes # <<>>
       => r.upload_writing \/ Written(st)

\* The i-th unit of a response, and how many units it has: the interim ones come
\* before the head.
Unit(p, i) ==
  IF i <= p.interims THEN "interim"
  ELSE IF i = p.interims + 1 THEN "head"
  ELSE IF i <= p.interims + 1 + p.shape.body THEN "data" ELSE "last"

Length(p) ==
  p.interims + 1 + IF p.shape.framing = "chunked" THEN p.shape.body + 1
                                                  ELSE p.shape.body

\* The units that process_buffer() is done with.
Used(r) == IF r.headers_seen THEN r.delivered + 1 ELSE 0

Arrived(r, p) == Used(r) + Len(r.buffer) + Len(p.inbox)

\* What lies between the server and the application is the response's, in order
\* and with nothing lost.
Bytes(r, p) ==
  /\ \A i \in 1 .. Len(r.buffer) : r.buffer[i] = Unit(p, Used(r) + i)
  /\ \A i \in 1 .. Len(p.inbox) :
       p.inbox[i] = Unit(p, Used(r) + Len(r.buffer) + i)
  /\ p.sent = "nothing" => Arrived(r, p) = p.interims
  /\ p.sent = "head" => Arrived(r, p) = p.interims + 1
  /\ p.sent = "body" => Arrived(r, p) <= Length(p)

\* A length is counted down by what was delivered, and success follows the whole
\* body, unless an interim head passed for the response.
Response(r, p, st) ==
  /\ Bytes(r, p)
  /\ r.interim => r.headers_seen /\ r.body_mode \in {"unknown", "none"}
  /\ r.headers_seen /\ ~r.interim => p.interims = 0
  /\ r.body_mode # "unknown" =>
       r.headers_seen /\ (r.interim \/ r.body_mode = p.shape.framing)
  /\ r.body_mode \in {"unknown", "none"} => r.delivered = 0
  /\ r.body_mode = "content_length" =>
       r.delivered + r.remaining = p.shape.body
  /\ Heading(st) =>
       /\ r.headers_seen /\ r.body_mode = "unknown"
       /\ r.interim \/ p.shape.framing # "bad"
  /\ r.headers_seen /\ ~r.completed => r.body_mode # "unknown" \/ Heading(st)
  /\ r.result = "success" =>
       /\ r.completed /\ r.headers_seen
       /\ \/ r.interim \/ p.shape.framing = "eof"
          \/ r.delivered = p.shape.body
  /\ r.body_mode = "eof" =>
       /\ Emitting(st) => r.buffer = <<>>
       /\ Bodying(st) /\ r.completed /\ ~r.ended_in_headers =>
            r.buffer = <<>>

InPool(n, s) == \E i \in 1 .. Len(n.idle[Origin]) : n.idle[Origin][i] = s

Pool(n) ==
  /\ Len(n.idle[Origin]) <= MaxIdle
  /\ \A s \in Streams : InPool(n, s) => n.life[s] = "open"
  /\ \A i, j \in 1 .. Len(n.idle[Origin]) :
       n.idle[Origin][i] = n.idle[Origin][j] => i = j

\* A stream the request may use.
Mine(n, s) == s \in Streams /\ n.life[s] = "open" /\ ~InPool(n, s)

\* Where the request is on its way to a connection, and what it holds.
Place(r, n) ==
  \/ r.pending \in {"new", "dns", "connect"} /\ r.stream = NoStream
       /\ r.lower = NoStream
  \/ r.pending = "tls" /\ r.stream = NoStream /\ Mine(n, r.lower)
  \/ r.pending \in {"headers", "none"} /\ Mine(n, r.stream)
       /\ r.lower = NoStream

\* Nothing is handed over inside the read_start() of a plain stream.
Safe(r, st) == ~r.secure => ~Inside(st) /\ (Waiting(st) => ~r.completed)

\* A timer that a completed request may have.
Spare(r) == r.timer = "none" \/ (r.secure /\ r.timer = "response_header")

Connection(r, n, st) ==
  /\ Safe(r, st)
  /\ ~r.completed => Place(r, n)
  /\ r.completed /\ r.stream # NoStream /\ r.result # "left" =>
       n.life[r.stream] # "open"
  /\ r.pending = "new" => r.timer = "none" /\ ~r.completed
  /\ r.pending = "headers" \/ st # <<>> => r.headers_started
  /\ r.headers_started => r.pending \in {"headers", "none"}
  /\ r.ended_in_headers => r.completed
  /\ ~r.ended_in_headers =>
       /\ Pool(n) /\ ~r.late
       /\ Heading(st) => ~r.completed
       /\ r.completed => Spare(r)

Inv ==
  /\ Types
  /\ Upload(q, todo)
  /\ Response(q, peer, todo)
  /\ Connection(q, net, todo)

-------------------------------------------------------------------------------
(***************************************************************************)
(* The call stack.                                                         *)
(***************************************************************************)

\* A sequence made of two others.
LEMMA Spliced ==
  ASSUME NEW S, NEW s \in Seq(S), NEW t \in Seq(S), NEW u \in Seq(S),
         Len(u) = Len(s) + Len(t),
         \A i \in 1 .. Len(s) : u[i] = s[i],
         \A i \in 1 .. Len(t) : u[Len(s) + i] = t[i]
  PROVE  s \o t = u
  <1>1. /\ s \o t \in Seq(S) /\ Len(s \o t) = Len(s) + Len(t)
        /\ Len(s) \in Nat /\ Len(t) \in Nat
        /\ \A j \in 1 .. Len(s) : (s \o t)[j] = s[j]
        /\ \A j \in 1 .. Len(t) : (s \o t)[Len(s) + j] = t[j]
    BY Concats
  <1> DEFINE w == s \o t
  <1> HIDE DEF w
  <1>2. ASSUME NEW i \in 1 .. Len(u) PROVE w[i] = u[i]
    <2>1. CASE i \in 1 .. Len(s)
      BY <1>1, <2>1 DEF w
    <2>2. CASE i \notin 1 .. Len(s)
      <3>1. i - Len(s) \in 1 .. Len(t) /\ Len(s) + (i - Len(s)) = i
        BY <1>1, <2>2
      <3>2. QED
        BY <1>1, <3>1 DEF w
    <2>3. QED
      BY <2>1, <2>2
  <1>3. QED
    BY <1>1, <1>2, SeqEqual DEF w

\* Short stacks, joined.
LEMMA Stacked ==
  ASSUME NEW x, NEW y
  PROVE  /\ <<x>> \o <<>> = <<x>> /\ <<x, y>> \o <<>> = <<x, y>>
         /\ <<x>> \o <<"reading">> = <<x, "reading">>
         /\ <<x, y>> \o <<"reading">> = <<x, y, "reading">>
         /\ <<x>> \o <<"reading", "drain", "written">> =
              <<x, "reading", "drain", "written">>
         /\ <<x, y>> \o <<"reading", "drain", "written">> =
              <<x, y, "reading", "drain", "written">>
         /\ <<x>> \o <<"drain", "written">> = <<x, "drain", "written">>
  <1> DEFINE S == {x, y, "reading", "drain", "written"}
             one == <<x>>
             two == <<x, y>>
             read == <<"reading">>
             drain == <<"drain", "written">>
             all == <<"reading", "drain", "written">>
  <1>1. <<x>> \o <<>> = <<x>> /\ <<x, y>> \o <<>> = <<x, y>>
    OBVIOUS
  <1>2. /\ one \in Seq(S) /\ two \in Seq(S) /\ read \in Seq(S)
        /\ drain \in Seq(S) /\ all \in Seq(S)
    OBVIOUS
  <1>3. /\ Len(one) = 1 /\ one[1] = x
        /\ Len(two) = 2 /\ two[1] = x /\ two[2] = y
        /\ Len(read) = 1 /\ read[1] = "reading"
        /\ Len(drain) = 2 /\ drain[1] = "drain" /\ drain[2] = "written"
        /\ Len(all) = 3 /\ all[1] = "reading" /\ all[2] = "drain"
        /\ all[3] = "written"
    OBVIOUS
  <1>4. one \o read = <<x, "reading">>
    <2> DEFINE u == <<x, "reading">>
    <2>1. /\ u \in Seq(S) /\ Len(u) = 2
          /\ u[1] = x /\ u[2] = "reading"
      OBVIOUS
    <2> HIDE DEF u, S, one, read
    <2>2. /\ \A i \in 1 .. Len(one) : u[i] = one[i]
          /\ \A i \in 1 .. Len(read) :
               u[Len(one) + i] = read[i]
      <3>1. \A i \in 1 .. 1 : i = 1
        OBVIOUS
      <3>2. 1 + 1 = 2
        OBVIOUS
      <3>3. QED
        BY <1>3, <2>1, <3>1, <3>2
    <2>3. Len(u) = Len(one) + Len(read)
      BY <1>3, <2>1
    <2>4. one \o read = u
      BY <1>2, <2>1, <2>2, <2>3, Spliced
    <2>5. QED
      BY <2>4 DEF u
  <1>5. two \o read = <<x, y, "reading">>
    <2> DEFINE u == <<x, y, "reading">>
    <2>1. /\ u \in Seq(S) /\ Len(u) = 3
          /\ u[1] = x /\ u[2] = y /\ u[3] = "reading"
      OBVIOUS
    <2> HIDE DEF u, S, two, read
    <2>2. /\ \A i \in 1 .. Len(two) : u[i] = two[i]
          /\ \A i \in 1 .. Len(read) :
               u[Len(two) + i] = read[i]
      <3>1. \A i \in 1 .. 2 : i = 1 \/ i = 2
        OBVIOUS
      <3>2. 2 + 1 = 3
        OBVIOUS
      <3>3. QED
        BY <1>3, <2>1, <3>1, <3>2
    <2>3. Len(u) = Len(two) + Len(read)
      BY <1>3, <2>1
    <2>4. two \o read = u
      BY <1>2, <2>1, <2>2, <2>3, Spliced
    <2>5. QED
      BY <2>4 DEF u
  <1>6. one \o all = <<x, "reading", "drain", "written">>
    <2> DEFINE u == <<x, "reading", "drain", "written">>
    <2>1. /\ u \in Seq(S) /\ Len(u) = 4
          /\ u[1] = x /\ u[2] = "reading" /\ u[3] = "drain"
          /\ u[4] = "written"
      OBVIOUS
    <2> HIDE DEF u, S, one, all
    <2>2. /\ \A i \in 1 .. Len(one) : u[i] = one[i]
          /\ \A i \in 1 .. Len(all) :
               u[Len(one) + i] = all[i]
      <3>1. \A i \in 1 .. 3 : i = 1 \/ i = 2 \/ i = 3
        OBVIOUS
      <3>2. 1 + 1 = 2 /\ 1 + 2 = 3 /\ 1 + 3 = 4
        OBVIOUS
      <3>3. QED
        BY <1>3, <2>1, <3>1, <3>2
    <2>3. Len(u) = Len(one) + Len(all)
      BY <1>3, <2>1
    <2>4. one \o all = u
      BY <1>2, <2>1, <2>2, <2>3, Spliced
    <2>5. QED
      BY <2>4 DEF u
  <1>7. two \o all = <<x, y, "reading", "drain", "written">>
    <2> DEFINE u == <<x, y, "reading", "drain", "written">>
    <2>1. /\ u \in Seq(S) /\ Len(u) = 5
          /\ u[1] = x /\ u[2] = y /\ u[3] = "reading"
          /\ u[4] = "drain" /\ u[5] = "written"
      OBVIOUS
    <2> HIDE DEF u, S, two, all
    <2>2. /\ \A i \in 1 .. Len(two) : u[i] = two[i]
          /\ \A i \in 1 .. Len(all) :
               u[Len(two) + i] = all[i]
      <3>1. \A i \in 1 .. 3 : i = 1 \/ i = 2 \/ i = 3
        OBVIOUS
      <3>2. 2 + 1 = 3 /\ 2 + 2 = 4 /\ 2 + 3 = 5
        OBVIOUS
      <3>3. QED
        BY <1>3, <2>1, <3>1, <3>2
    <2>3. Len(u) = Len(two) + Len(all)
      BY <1>3, <2>1
    <2>4. two \o all = u
      BY <1>2, <2>1, <2>2, <2>3, Spliced
    <2>5. QED
      BY <2>4 DEF u
  <1>8. one \o drain = <<x, "drain", "written">>
    <2> DEFINE u == <<x, "drain", "written">>
    <2>1. /\ u \in Seq(S) /\ Len(u) = 3
          /\ u[1] = x /\ u[2] = "drain" /\ u[3] = "written"
      OBVIOUS
    <2> HIDE DEF u, S, one, drain
    <2>2. /\ \A i \in 1 .. Len(one) : u[i] = one[i]
          /\ \A i \in 1 .. Len(drain) :
               u[Len(one) + i] = drain[i]
      <3>1. \A i \in 1 .. 2 : i = 1 \/ i = 2
        OBVIOUS
      <3>2. 1 + 1 = 2 /\ 1 + 2 = 3
        OBVIOUS
      <3>3. QED
        BY <1>3, <2>1, <3>1, <3>2
    <2>3. Len(u) = Len(one) + Len(drain)
      BY <1>3, <2>1
    <2>4. one \o drain = u
      BY <1>2, <2>1, <2>2, <2>3, Spliced
    <2>5. QED
      BY <2>4 DEF u
  <1>9. QED
    BY <1>1, <1>4, <1>5, <1>6, <1>7, <1>8

\* The tasks of process_buffer() over what lies below them.
Over(b) ==
  {<<"process">> \o b, <<"headers", "mode">> \o b, <<"mode">> \o b,
   <<"body">> \o b, <<"data", "body">> \o b}

\* ... and what kind of stack that is.
LEMMA OnBase ==
  ASSUME NEW b \in Bases
  PROVE  /\ Stack(b) /\ ~Heading(b) /\ ~Bodying(b) /\ ~Emitting(b)
         /\ ~Inside(b) /\ (Waiting(b) <=> b # <<>>) /\ (Outer(b) <=> b = <<>>)
         /\ Processing(<<"process">> \o b) /\ Heading(<<"mode">> \o b)
         /\ Heading(<<"headers", "mode">> \o b) /\ Bodying(<<"body">> \o b)
         /\ Emitting(<<"data", "body">> \o b)
         /\ \A st \in Over(b) :
              /\ Stack(st) /\ ~Outer(st) /\ ~Waiting(st) /\ st # <<>>
              /\ Written(st) <=> Written(b)
              /\ Inside(st) <=> b # <<>>
  <1>1. CASE b = <<>>
    <2>1. /\ <<"process">> \o b = <<"process">>
          /\ <<"headers", "mode">> \o b = <<"headers", "mode">>
          /\ <<"mode">> \o b = <<"mode">>
          /\ <<"body">> \o b = <<"body">>
          /\ <<"data", "body">> \o b = <<"data", "body">>
      BY <1>1, Stacked
    <2>2. \A st \in Over(b) :
            /\ Stack(st) /\ ~Outer(st) /\ ~Waiting(st) /\ st # <<>>
            /\ Written(st) <=> Written(b)
            /\ Inside(st) <=> b # <<>>
      <3>1. ~Written(b)
        BY <1>1 DEF Written
      <3>2. \A st \in Over(b) :
              st \in {<<"process">>, <<"headers", "mode">>, <<"mode">>,
                     <<"body">>, <<"data", "body">>}
        BY <2>1 DEF Over
      <3>3. ASSUME NEW st \in {<<"process">>, <<"headers", "mode">>,
                               <<"mode">>, <<"body">>, <<"data", "body">>}
            PROVE  /\ Stack(st) /\ ~Outer(st) /\ ~Waiting(st) /\ st # <<>>
                   /\ ~Written(st) /\ ~Inside(st)
        BY <3>3 DEF Stack, Outer, Waiting, Processing, Heading, Bodying,
                    Emitting, Inside, Written
      <3>4. QED
        BY <1>1, <3>1, <3>2, <3>3
    <2>3. /\ Processing(<<"process">> \o b) /\ Heading(<<"mode">> \o b)
          /\ Heading(<<"headers", "mode">> \o b) /\ Bodying(<<"body">> \o b)
          /\ Emitting(<<"data", "body">> \o b)
      BY <2>1 DEF Processing, Heading, Bodying, Emitting
    <2>4. /\ Stack(b) /\ ~Heading(b) /\ ~Bodying(b) /\ ~Emitting(b)
          /\ ~Inside(b) /\ (Waiting(b) <=> b # <<>>)
          /\ (Outer(b) <=> b = <<>>)
      BY <1>1 DEF Stack, Outer, Waiting, Processing, Heading, Bodying,
                   Emitting, Inside
    <2>5. QED
      BY <2>2, <2>3, <2>4
  <1>2. CASE b = <<"reading">>
    <2>1. /\ <<"process">> \o b = <<"process", "reading">>
          /\ <<"headers", "mode">> \o b = <<"headers", "mode", "reading">>
          /\ <<"mode">> \o b = <<"mode", "reading">>
          /\ <<"body">> \o b = <<"body", "reading">>
          /\ <<"data", "body">> \o b = <<"data", "body", "reading">>
      BY <1>2, Stacked
    <2>2. \A st \in Over(b) :
            /\ Stack(st) /\ ~Outer(st) /\ ~Waiting(st) /\ st # <<>>
            /\ Written(st) <=> Written(b)
            /\ Inside(st) <=> b # <<>>
      BY <1>2, <2>1 DEF Over, Stack, Outer, Waiting, Processing, Heading,
                         Bodying, Emitting, Inside, Written
    <2>3. /\ Processing(<<"process">> \o b) /\ Heading(<<"mode">> \o b)
          /\ Heading(<<"headers", "mode">> \o b) /\ Bodying(<<"body">> \o b)
          /\ Emitting(<<"data", "body">> \o b)
      BY <2>1 DEF Processing, Heading, Bodying, Emitting
    <2>4. /\ Stack(b) /\ ~Heading(b) /\ ~Bodying(b) /\ ~Emitting(b)
          /\ ~Inside(b) /\ (Waiting(b) <=> b # <<>>)
          /\ (Outer(b) <=> b = <<>>)
      BY <1>2 DEF Stack, Outer, Waiting, Processing, Heading, Bodying,
                   Emitting, Inside
    <2>5. QED
      BY <2>2, <2>3, <2>4
  <1>3. CASE b = <<"reading", "drain", "written">>
    <2>1. /\ <<"process">> \o b =
               <<"process", "reading", "drain", "written">>
          /\ <<"headers", "mode">> \o b =
               <<"headers", "mode", "reading", "drain", "written">>
          /\ <<"mode">> \o b =
               <<"mode", "reading", "drain", "written">>
          /\ <<"body">> \o b =
               <<"body", "reading", "drain", "written">>
          /\ <<"data", "body">> \o b =
               <<"data", "body", "reading", "drain", "written">>
      BY <1>3, Stacked
    <2>2. \A st \in Over(b) :
            /\ Stack(st) /\ ~Outer(st) /\ ~Waiting(st) /\ st # <<>>
            /\ Written(st) <=> Written(b)
            /\ Inside(st) <=> b # <<>>
      BY <1>3, <2>1 DEF Over, Stack, Outer, Waiting, Processing, Heading,
                         Bodying, Emitting, Inside, Written
    <2>3. /\ Processing(<<"process">> \o b) /\ Heading(<<"mode">> \o b)
          /\ Heading(<<"headers", "mode">> \o b) /\ Bodying(<<"body">> \o b)
          /\ Emitting(<<"data", "body">> \o b)
      BY <2>1 DEF Processing, Heading, Bodying, Emitting
    <2>4. /\ Stack(b) /\ ~Heading(b) /\ ~Bodying(b) /\ ~Emitting(b)
          /\ ~Inside(b) /\ (Waiting(b) <=> b # <<>>)
          /\ (Outer(b) <=> b = <<>>)
      BY <1>3 DEF Stack, Outer, Waiting, Processing, Heading, Bodying,
                   Emitting, Inside
    <2>5. QED
      BY <2>2, <2>3, <2>4
  <1>4. QED
    BY <1>1, <1>2, <1>3 DEF Bases

\* The kinds exclude each other.
LEMMA OneKind ==
  /\ \A st : Processing(st) => ~Heading(st) /\ ~Bodying(st) /\ ~Emitting(st)
  /\ \A st : Bodying(st) => ~Heading(st) /\ ~Emitting(st)
  /\ \A st : Emitting(st) => ~Heading(st) /\ ~Bodying(st)
  /\ \A st : Heading(st) => ~Bodying(st) /\ ~Emitting(st)
  BY DEF Processing, Heading, Bodying, Emitting

\* What is on the stack, by what is on top of it.
LEMMA TopIs ==
  ASSUME Stack(todo)
  PROVE  /\ Top = "written" => todo = <<"written">>
         /\ Top = "drain" => todo = <<"drain", "written">>
         /\ Top = "reading" => Waiting(todo)
         /\ Top = "process" => Processing(todo)
         /\ Top = "headers" => Heading(todo)
         /\ Top = "mode" => Heading(todo)
         /\ Top = "body" => Bodying(todo)
         /\ Top = "data" => Emitting(todo)
  BY DEF Stack, Outer, Waiting, Processing, Heading, Bodying, Emitting, Top

\* ... and below it.
LEMMA BaseOf ==
  ASSUME Stack(todo), NEW x \in {"process", "mode", "body"}, Top = x
  PROVE  \E b \in Bases : todo = <<x>> \o b /\ Tail(todo) = b
  <1>1. \/ todo = <<x>>
        \/ todo = <<x, "reading">>
        \/ todo = <<x, "reading", "drain", "written">>
    BY DEF Stack, Outer, Waiting, Processing, Heading, Bodying, Emitting, Top
  <1>2. CASE todo = <<x>>
    <2>1. Tail(<<x>>) = <<>> /\ <<>> \in Bases
      BY DEF Bases
    <2>2. QED
      BY <1>2, <2>1, Stacked
  <1>3. CASE todo = <<x, "reading">>
    <2>1. Tail(<<x, "reading">>) = <<"reading">> /\ <<"reading">> \in Bases
      BY DEF Bases
    <2>2. QED
      BY <1>3, <2>1, Stacked
  <1>4. CASE todo = <<x, "reading", "drain", "written">>
    <2>1. /\ Tail(<<x, "reading", "drain", "written">>) =
               <<"reading", "drain", "written">>
          /\ <<"reading", "drain", "written">> \in Bases
      BY DEF Bases
    <2>2. QED
      BY <1>4, <2>1, Stacked
  <1>5. QED
    BY <1>1, <1>2, <1>3, <1>4

-------------------------------------------------------------------------------
(***************************************************************************)
(* What the operations of the pool do to the connections.                  *)
(***************************************************************************)

\* There is one origin, the one of the request.
LEMMA OneOrigin ==
  Origin \in Origins /\ Origins = {Origin}
  BY StreamingAssumption DEF Origin

\* What the type of the connections says of the pool.
LEMMA NetTyped ==
  ASSUME NEW n \in Net
  PROVE  /\ n.idle \in [Origins -> Seq(Streams)]
         /\ n.life \in [Streams -> Lives]
         /\ n.idle[Origin] \in Seq(Streams) /\ Len(n.idle[Origin]) \in Nat
         /\ \A i \in 1 .. Len(n.idle[Origin]) : n.idle[Origin][i] \in Streams
  <1>1. /\ n.idle \in [Origins -> Seq(Streams)]
        /\ n.life \in [Streams -> Lives]
    BY DEF Net
  <1>2. n.idle[Origin] \in Seq(Streams)
    BY <1>1, OneOrigin
  <1> DEFINE queue == n.idle[Origin]
  <1> HIDE DEF queue
  <1>3. queue \in Seq(Streams)
    BY <1>2 DEF queue
  <1>4. Len(queue) \in Nat /\ \A i \in 1 .. Len(queue) : queue[i] \in Streams
    BY <1>3
  <1>5. QED
    BY <1>1, <1>2, <1>4 DEF queue

\* No life begins anew.
Fades(n, m) ==
  \A s \in Streams :
    /\ m.life[s] = "open" => n.life[s] = "open"
    /\ m.life[s] = "none" => n.life[s] = "none"

\* close_stream() closes that stream, if it is open, and no other.
LEMMA CloseIs ==
  ASSUME NEW n \in Net, NEW s \in Streams \cup {NoStream}
  PROVE  LET m == CloseStream(n, s)
         IN /\ m \in Net /\ m.idle = n.idle /\ Fades(n, m)
            /\ \A t \in Streams : t # s => m.life[t] = n.life[t]
            /\ s \in Streams => m.life[s] # "open"
  <1> DEFINE c == [n EXCEPT !.life[s] = "closing"]
             m == CloseStream(n, s)
  <1>0. n.life \in [Streams -> Lives]
    BY NetTyped
  <1>1. CASE s = NoStream \/ n.life[s] # "open"
    <2>1. m = n
      BY <1>1 DEF CloseStream
    <2>2. s = NoStream => s \notin Streams
      BY DEF Streams, NoStream
    <2>3. QED
      BY <1>1, <2>1, <2>2 DEF Fades
  <1>2. CASE ~(s = NoStream \/ n.life[s] # "open")
    <2>1. m = c /\ s \in Streams
      BY <1>2 DEF CloseStream
    <2>2. c \in Net
      BY <1>0, <2>1 DEF Net, Lives
    <2>3. c.idle = n.idle /\ c.life = [n.life EXCEPT ![s] = "closing"]
      BY DEF Net
    <2> HIDE DEF c, m
    <2>4. \A t \in Streams :
            c.life[t] = IF t = s THEN "closing" ELSE n.life[t]
      BY <1>0, <2>3
    <2>5. /\ m \in Net /\ m.idle = n.idle /\ Fades(n, m)
          /\ \A t \in Streams : t # s => m.life[t] = n.life[t]
          /\ s \in Streams => m.life[s] # "open"
      BY <2>1, <2>2, <2>3, <2>4 DEF Fades
    <2>6. QED
      BY <2>5 DEF m
  <1>3. QED
    BY <1>1, <1>2

\* Closing a stream that is not in the pool leaves the pool as it is.
LEMMA ClosePool ==
  ASSUME NEW n \in Net, NEW s \in Streams \cup {NoStream}, Pool(n),
         ~InPool(n, s)
  PROVE  LET m == CloseStream(n, s)
         IN Pool(m) /\ \A t : InPool(m, t) <=> InPool(n, t)
  <1> DEFINE m == CloseStream(n, s)
  <1>1. m.idle = n.idle /\ \A t \in Streams : t # s => m.life[t] = n.life[t]
    BY CloseIs
  <1> HIDE DEF m
  <1>2. \A t : InPool(m, t) <=> InPool(n, t)
    BY <1>1 DEF InPool
  <1>3. Pool(m)
    BY <1>1, <1>2 DEF Pool
  <1>4. QED
    BY <1>2, <1>3 DEF m

\* take() gives away the first of the pool.
LEMMA TakeIs ==
  ASSUME NEW n \in Net, n.idle[Origin] # <<>>
  PROVE  LET m == Take(n, Origin)
             s == Head(n.idle[Origin])
         IN /\ m \in Net /\ s \in Streams /\ m.life = n.life
            /\ Pool(n) => Pool(m) /\ Mine(m, s)
  <1> DEFINE queue == n.idle[Origin]
             m == Take(n, Origin)
             s == Head(queue)
  <1>1. /\ n.idle \in [Origins -> Seq(Streams)] /\ Origin \in Origins
        /\ queue \in Seq(Streams) /\ queue # <<>>
    BY NetTyped, OneOrigin
  <1>2. m \in Net /\ m.life = n.life /\ m.idle[Origin] = Tail(queue)
    <2> DEFINE w == Tail(queue)
    <2>1. w \in Seq(Streams)
      <3> HIDE DEF queue
      <3>1. QED
        BY <1>1
    <2>2. m = [n EXCEPT !.idle[Origin] = w]
      BY DEF Take
    <2> HIDE DEF w, m
    <2>3. m \in Net
      BY <1>1, <2>1, <2>2 DEF Net
    <2>4. m.life = n.life /\ m.idle[Origin] = w
      BY <1>1, <2>2 DEF Net
    <2>5. QED
      BY <2>3, <2>4 DEF w
  <1> HIDE DEF m, queue
  <1>3. /\ Len(queue) \in Nat \ {0} /\ s = queue[1]
        /\ Len(Tail(queue)) = Len(queue) - 1
        /\ \A i \in 1 .. Len(queue) - 1 : Tail(queue)[i] = queue[i + 1]
        /\ \A i \in 1 .. Len(queue) : queue[i] \in Streams
    BY <1>1
  <1>4. ASSUME Pool(n) PROVE Pool(m) /\ Mine(m, s)
    <2>1. /\ Len(queue) <= MaxIdle /\ MaxIdle \in Nat
          /\ \A i \in 1 .. Len(queue) : n.life[queue[i]] = "open"
          /\ \A i, j \in 1 .. Len(queue) : queue[i] = queue[j] => i = j
      BY <1>3, <1>4, StreamingAssumption DEF Pool, InPool, queue
    <2>2. \A t : InPool(m, t) <=>
            \E i \in 1 .. Len(queue) - 1 : queue[i + 1] = t
      BY <1>2, <1>3 DEF InPool
    <2>3. \A i \in 1 .. Len(queue) - 1 : i + 1 \in 1 .. Len(queue) /\ i + 1 # 1
      BY <1>3
    <2>4. ~InPool(m, s) /\ s \in Streams /\ m.life[s] = "open"
      BY <1>2, <1>3, <2>1, <2>2, <2>3
    <2>5. \A t \in Streams : InPool(m, t) => m.life[t] = "open"
      BY <1>2, <2>1, <2>2, <2>3
    <2>6. \A i, j \in 1 .. Len(queue) - 1 :
            queue[i + 1] = queue[j + 1] => i = j
      <3> SUFFICES ASSUME NEW i \in 1 .. Len(queue) - 1,
                          NEW j \in 1 .. Len(queue) - 1,
                          queue[i + 1] = queue[j + 1]
                   PROVE  i = j
        OBVIOUS
      <3>1. i + 1 = j + 1
        BY <2>1, <2>3
      <3>2. QED
        BY <1>3, <3>1
    <2>7. Pool(m)
      BY <1>2, <1>3, <2>1, <2>5, <2>6 DEF Pool
    <2>8. QED
      BY <2>4, <2>7 DEF Mine
  <1>5. s \in Streams
    BY <1>3
  <1>6. QED
    BY <1>2, <1>4, <1>5 DEF m, queue

\* The connections with another queue of idle ones.
LEMMA QueueIs ==
  ASSUME NEW n \in Net, NEW queue \in Seq(Streams)
  PROVE  LET m == [n EXCEPT !.idle[Origin] = queue]
         IN m \in Net /\ m.life = n.life /\ m.idle[Origin] = queue
  <1>1. n.idle \in [Origins -> Seq(Streams)] /\ Origin \in Origins
    BY NetTyped, OneOrigin
  <1>2. [n EXCEPT !.idle[Origin] = queue] \in Net
    BY <1>1 DEF Net
  <1>3. QED
    BY <1>1, <1>2 DEF Net

\* release() keeps the stream, closing the oldest when there is no room.
LEMMA ReleaseIs ==
  ASSUME NEW n \in Net, NEW s \in Streams, MaxIdle > 0
  PROVE  LET m == Release(n, Origin, s)
         IN /\ m \in Net /\ Fades(n, m)
            /\ Pool(n) /\ Mine(n, s) => Pool(m)
  <1> DEFINE old == n.idle[Origin]
             queue == Append(old, s)
             room == [n EXCEPT !.idle[Origin] = queue]
             less == [n EXCEPT !.idle[Origin] = Tail(queue)]
             oldest == Head(queue)
             m == Release(n, Origin, s)
  <1>1. old \in Seq(Streams) /\ Len(old) \in Nat /\ MaxIdle \in Nat \ {0}
    BY NetTyped, StreamingAssumption
  <1>2. m = IF Len(queue) <= MaxIdle THEN room ELSE CloseStream(less, oldest)
    BY <1>1 DEF Release, CloseEntry
  <1> HIDE DEF old, m
  <1>3. /\ queue \in Seq(Streams) /\ Len(queue) = Len(old) + 1
        /\ queue[Len(old) + 1] = s
        /\ \A i \in 1 .. Len(old) : queue[i] = old[i]
    BY <1>1, AppendProperties
  <1> HIDE DEF queue
  <1>4. /\ Tail(queue) \in Seq(Streams) /\ Len(Tail(queue)) = Len(old)
        /\ \A i \in 1 .. Len(old) : Tail(queue)[i] = queue[i + 1]
        /\ oldest = queue[1] /\ oldest \in Streams
    BY <1>1, <1>3
  <1>5. /\ room \in Net /\ room.life = n.life /\ room.idle[Origin] = queue
        /\ less \in Net /\ less.life = n.life
        /\ less.idle[Origin] = Tail(queue)
    BY <1>3, <1>4, QueueIs
  <1> HIDE DEF room, less
  <1>6. ASSUME Pool(n), Mine(n, s)
        PROVE  /\ \A i \in 1 .. Len(old) + 1 : n.life[queue[i]] = "open"
               /\ \A i, j \in 1 .. Len(old) + 1 : queue[i] = queue[j] => i = j
    <2>1. /\ \A i \in 1 .. Len(old) : n.life[old[i]] = "open" /\ old[i] # s
          /\ \A i, j \in 1 .. Len(old) : old[i] = old[j] => i = j
          /\ n.life[s] = "open"
      BY <1>1, <1>6, NetTyped DEF Pool, Mine, InPool, old
    <2>2. \A i \in 1 .. Len(old) + 1 : i \in 1 .. Len(old) \/ i = Len(old) + 1
      BY <1>1
    <2>3. QED
      BY <1>3, <2>1, <2>2
  <1>7. CASE Len(queue) <= MaxIdle
    <2>1. m = room
      BY <1>2, <1>7
    <2>2. Fades(n, m)
      BY <1>5, <2>1 DEF Fades
    <2>3. ASSUME Pool(n), Mine(n, s) PROVE Pool(m)
      <3>1. \A t : InPool(m, t) <=> \E i \in 1 .. Len(old) + 1 : queue[i] = t
        BY <1>3, <1>5, <2>1 DEF InPool
      <3>2. QED
        BY <1>3, <1>5, <1>6, <1>7, <2>1, <2>3, <3>1 DEF Pool
    <2>4. QED
      BY <1>5, <2>1, <2>2, <2>3 DEF m
  <1>8. CASE ~(Len(queue) <= MaxIdle)
    <2>1. m = CloseStream(less, oldest)
      BY <1>2, <1>8
    <2>2. oldest \in Streams \cup {NoStream}
      BY <1>4
    <2>3. /\ m \in Net /\ Fades(less, m)
          /\ m.idle = less.idle
      BY <1>5, <2>1, <2>2, CloseIs
    <2>4. Fades(n, m)
      BY <1>5, <2>3 DEF Fades
    <2>5. ASSUME Pool(n), Mine(n, s) PROVE Pool(m)
      <3>1. \A i \in 1 .. Len(old) :
              /\ i + 1 \in 1 .. Len(old) + 1 /\ i + 1 # 1
              /\ 1 \in 1 .. Len(old) + 1
        BY <1>1
      <3>2. \A t : InPool(less, t) <=>
              \E i \in 1 .. Len(old) : queue[i + 1] = t
        BY <1>4, <1>5, ZenonT(60) DEF InPool
      <3>3. ~InPool(less, oldest)
        BY <1>4, <1>6, <2>5, <3>1, <3>2
      <3>4. \A t \in Streams : InPool(less, t) => less.life[t] = "open"
        BY <1>5, <1>6, <2>5, <3>1, <3>2
      <3>5. ASSUME NEW i \in 1 .. Len(old), NEW j \in 1 .. Len(old),
                   queue[i + 1] = queue[j + 1]
            PROVE  i = j
        <4>1. i + 1 = j + 1
          BY <1>6, <2>5, <3>1, <3>5
        <4>2. QED
          BY <1>1, <4>1
      <3>6. Len(old) <= MaxIdle
        BY <2>5 DEF Pool, old
      <3>7. Pool(less)
        <4> DEFINE w == Tail(queue)
        <4>1. /\ Len(w) = Len(old) /\ less.idle[Origin] = w
              /\ \A i \in 1 .. Len(old) : w[i] = queue[i + 1]
          BY <1>4, <1>5
        <4> HIDE DEF w
        <4>2. \A i, j \in 1 .. Len(w) : w[i] = w[j] => i = j
          BY <3>5, <4>1
        <4>3. QED
          BY <3>4, <3>6, <4>1, <4>2 DEF Pool
      <3>8. QED
        BY <1>5, <2>1, <2>2, <3>3, <3>7, ClosePool
    <2>6. QED
      BY <2>3, <2>4, <2>5 DEF m
  <1>9. QED
    BY <1>7, <1>8

\* expire() closes the entry it takes out.
LEMMA ExpireIs ==
  ASSUME NEW n \in Net, NEW k \in DOMAIN n.idle[Origin]
  PROVE  LET m == Expire(n, Origin, k)
         IN /\ m \in Net /\ Fades(n, m)
            /\ \A t : InPool(m, t) => InPool(n, t)
            /\ \A t \in Streams : ~InPool(n, t) => m.life[t] = n.life[t]
            /\ Pool(n) => Pool(m)
  <1> DEFINE old == n.idle[Origin]
             s == old[k]
             rest == RemoveAt(old, k)
             c == [n EXCEPT !.idle[Origin] = rest]
             m == Expire(n, Origin, k)
  <1>1. /\ old \in Seq(Streams) /\ Len(old) \in Nat /\ k \in 1 .. Len(old)
        /\ s \in Streams
    BY NetTyped
  <1>2. m = CloseStream(c, s)
    BY DEF Expire, CloseEntry
  <1> HIDE DEF old, m, s
  <1>3. /\ rest \in Seq(Streams) /\ Len(rest) = Len(old) - 1
        /\ \A i \in 1 .. Len(old) - 1 :
             rest[i] = old[IF i < k THEN i ELSE i + 1]
    BY <1>1, RemoveAtIs
  <1> HIDE DEF rest
  <1>4. c \in Net /\ c.life = n.life /\ c.idle[Origin] = rest
    BY <1>3, QueueIs
  <1> HIDE DEF c
  <1>5. s \in Streams \cup {NoStream}
    BY <1>1
  <1>6. /\ m \in Net /\ m.idle = c.idle /\ Fades(c, m)
        /\ \A t \in Streams : t # s => m.life[t] = c.life[t]
    BY <1>2, <1>4, <1>5, CloseIs
  <1>7. \A i \in 1 .. Len(old) - 1 :
          /\ (IF i < k THEN i ELSE i + 1) \in 1 .. Len(old)
          /\ (IF i < k THEN i ELSE i + 1) # k
    BY <1>1
  <1>8. \A t : InPool(c, t) <=> \E i \in 1 .. Len(old) - 1 : rest[i] = t
    BY <1>3, <1>4 DEF InPool
  <1>9. \A t : InPool(n, t) <=> \E i \in 1 .. Len(old) : old[i] = t
    BY DEF InPool, old
  <1>10. \A t : InPool(c, t) => InPool(n, t)
    BY <1>3, <1>7, <1>8, <1>9
  <1>11. InPool(n, s)
    BY <1>1, <1>9 DEF s
  <1>12. \A t : InPool(m, t) <=> InPool(c, t)
    BY <1>6 DEF InPool
  <1>13. ASSUME Pool(n) PROVE Pool(m)
    <2>1. /\ Len(old) <= MaxIdle /\ MaxIdle \in Nat
          /\ \A i, j \in 1 .. Len(old) : old[i] = old[j] => i = j
      BY <1>13, StreamingAssumption DEF Pool, old
    <2>2. ~InPool(c, s)
      BY <1>1, <1>3, <1>7, <1>8, <2>1, SMTT(60) DEF s
    <2>3. ASSUME NEW i \in 1 .. Len(old) - 1, NEW j \in 1 .. Len(old) - 1,
                 rest[i] = rest[j]
          PROVE  i = j
      <3>1. (IF i < k THEN i ELSE i + 1) = (IF j < k THEN j ELSE j + 1)
        BY <1>3, <1>7, <2>1, <2>3
      <3>2. QED
        BY <1>1, <3>1
    <2>4. \A t \in Streams : InPool(c, t) => c.life[t] = "open"
      BY <1>4, <1>10, <1>13 DEF Pool
    <2>5. Len(rest) <= MaxIdle
      BY <1>1, <1>3, <2>1
    <2>6. Pool(c)
      BY <1>3, <1>4, <2>3, <2>4, <2>5 DEF Pool
    <2>7. QED
      BY <1>2, <1>4, <1>5, <2>2, <2>6, ClosePool
  <1>14. /\ Fades(n, m)
         /\ \A t \in Streams : ~InPool(n, t) => m.life[t] = n.life[t]
    BY <1>4, <1>6, <1>11 DEF Fades
  <1>15. \A t : InPool(m, t) => InPool(n, t)
    BY <1>10, <1>12
  <1>16. QED
    BY <1>6, <1>13, <1>14, <1>15 DEF m

-------------------------------------------------------------------------------
(***************************************************************************)
(* The parts of a request that its handlers change apart from each other.  *)
(***************************************************************************)

SameUpload(a, b) ==
  /\ b.upload_mode = a.upload_mode /\ b.content_length = a.content_length
  /\ b.accepted = a.accepted /\ b.upload_writes = a.upload_writes
  /\ b.pending_bytes = a.pending_bytes /\ b.sent = a.sent
  /\ b.upload_writing <=> a.upload_writing
  /\ b.upload_ended <=> a.upload_ended
  /\ b.backpressured <=> a.backpressured
  /\ b.headers_started <=> a.headers_started
  /\ b.headers_written <=> a.headers_written
  /\ b.reading_response <=> a.reading_response

SameResponse(a, b) ==
  /\ b.body_mode = a.body_mode /\ b.remaining = a.remaining
  /\ b.buffer = a.buffer /\ b.delivered = a.delivered
  /\ b.headers_seen <=> a.headers_seen
  /\ b.interim <=> a.interim

SameWay(a, b) ==
  /\ b.pending = a.pending /\ b.stream = a.stream /\ b.lower = a.lower
  /\ b.late <=> a.late
  /\ b.secure <=> a.secure
  /\ b.headers_started <=> a.headers_started

SameEnd(a, b) ==
  /\ b.result = a.result
  /\ b.completed <=> a.completed
  /\ b.ended_in_headers <=> a.ended_in_headers

\* An upload nobody touches stays right, completed or not.
LEMMA UploadKept ==
  ASSUME NEW a, NEW b, NEW st, NEW su, Upload(a, st), SameUpload(a, b),
         a.completed => b.completed, Written(st) <=> Written(su),
         Outer(su) \/ ~Outer(st) \/ a.reading_response
  PROVE  Upload(b, su)
  <1>1. /\ Count(b) = Count(a) /\ Flown(b) = Flown(a)
        /\ \A i : Piece(b, i) = Piece(a, i) /\ Load(b, i) = Load(a, i)
    BY DEF SameUpload, Count, Flown, Piece, Load
  <1>2. Uploaded(a) => Uploaded(b)
    BY <1>1 DEF SameUpload, Uploaded
  <1>3. Queued(a) => Queued(b)
    BY <1>1 DEF SameUpload, Queued
  <1>4. QED
    BY <1>1, <1>2, <1>3 DEF Upload, Sound, SameUpload

\* A response nobody touches stays right.
LEMMA ResponseKept ==
  ASSUME NEW a, NEW b, NEW p, NEW st, Response(a, p, st), SameResponse(a, b),
         SameEnd(a, b)
  PROVE  Response(b, p, st)
  BY DEF Response, Bytes, SameResponse, SameEnd, Used, Arrived

\* Where the stack may go when the request completes.
Unwinds(st, su) ==
  /\ ~Bodying(su)
  /\ \/ su = st
     \/ /\ su \in Bases
        /\ Written(su) => Written(st)
        /\ su # <<>> => ~Outer(st)

\* Unwinding enters no part of the response or of a write.
LEMMA UnwindsIs ==
  ASSUME NEW st, NEW su, Unwinds(st, su)
  PROVE  /\ Written(su) => Written(st)
         /\ Heading(su) => Heading(st) /\ su = st
         /\ Emitting(su) => Emitting(st)
         /\ Outer(su) \/ ~Outer(st)
         /\ su # <<>> => st # <<>>
         /\ Stack(st) => Stack(su)
  <1>1. CASE su = st
    BY <1>1
  <1>2. CASE su # st
    <2>1. /\ su \in Bases
          /\ Written(su) => Written(st)
          /\ su # <<>> => ~Outer(st)
      BY <1>2 DEF Unwinds
    <2>2. /\ Stack(su) /\ ~Heading(su) /\ ~Emitting(su)
          /\ Outer(su) <=> su = <<>>
      BY <2>1, OnBase
    <2>3. ~Outer(st) => st # <<>>
      BY DEF Outer
    <2>4. QED
      BY <2>1, <2>2, <2>3
  <1>3. QED
    BY <1>1, <1>2

\* ... and when the request completes without success.
LEMMA ResponseEnds ==
  ASSUME NEW a, NEW b, NEW p, NEW st, NEW su, Response(a, p, st),
         SameResponse(a, b), b.completed, b.result # "success",
         Unwinds(st, su)
  PROVE  Response(b, p, su)
  <1>1. Used(b) = Used(a) /\ Arrived(b, p) = Arrived(a, p)
    BY DEF SameResponse, Used, Arrived
  <1>2. /\ Heading(su) => Heading(st)
        /\ Emitting(su) => Emitting(st)
        /\ ~Bodying(su)
    BY UnwindsIs DEF Unwinds
  <1>3. QED
    BY <1>1, <1>2 DEF Response, Bytes, SameResponse

\* A connection nobody touches stays right.
LEMMA ConnectionKept ==
  ASSUME NEW a, NEW b, NEW n, NEW st, NEW su, Connection(a, n, st),
         SameWay(a, b), SameEnd(a, b),
         \/ b.timer = a.timer
         \/ b.pending # "new" /\ (b.completed => Spare(b)),
         Safe(b, su),
         su # <<>> => b.headers_started,
         Heading(su) => Heading(st) \/ ~b.completed
  PROVE  Connection(b, n, su)
  <1>1. b.timer = a.timer => (Spare(b) <=> Spare(a))
    BY DEF Spare, SameWay
  <1>2. QED
    BY <1>1 DEF Connection, SameWay, SameEnd, Place

\* ... and when the request completes: what it holds is closed.
LEMMA ConnectionEnds ==
  ASSUME NEW a, NEW b, NEW n, NEW m, NEW st, NEW su,
         Connection(a, n, st), ~a.completed,
         b.completed, b.timer = "none", b.pending # "new",
         b.headers_started <=> a.headers_started,
         b.pending \in {a.pending, "none"},
         b.late <=> a.late,
         b.stream # NoStream /\ b.result # "left" => m.life[b.stream] # "open",
         Pool(n) => Pool(m),
         su # <<>> => st # <<>>,
         Inside(su) \/ Waiting(su) => b.secure,
         Heading(su) => b.ended_in_headers
  PROVE  Connection(b, m, su)
  <1>1. Safe(b, su) /\ Spare(b)
    BY DEF Safe, Spare
  <1>2. QED
    BY <1>1 DEF Connection

\* The four parts make the invariant.
LEMMA InvNext ==
  ASSUME q' \in Request, net' \in Net, peer' \in Peer, Stack(todo'),
         Upload(q', todo'), Response(q', peer', todo'),
         Connection(q', net', todo')
  PROVE  Inv'
  <1>1. Types'
    BY DEF Types, Stack, Outer, Waiting, Processing, Heading, Bodying, Emitting
  <1>2. Upload(q, todo)'
    BY DEF Upload, Sound, Queued, Uploaded, Count, Flown, Piece, Load, Written,
           WireBytes, Outer
  <1>3. Response(q, peer, todo)'
    BY DEF Response, Bytes, Used, Arrived, Unit, Length, Heading, Emitting,
           Bodying
  <1>4. Connection(q, net, todo)'
    BY DEF Connection, Place, Mine, Pool, InPool, Heading, Safe, Inside,
           Waiting, Spare
  <1>5. QED
    BY <1>1, <1>2, <1>3, <1>4 DEF Inv

\* complete() ends the request once.
LEMMA CompleteIs ==
  ASSUME NEW r \in Request, NEW n, NEW result \in {"success", "error", "left"}
  PROVE  LET x == Complete(r, n, result)
         IN /\ x.r \in Request /\ x.n = n /\ x.r.completed
            /\ SameUpload(r, x.r) /\ SameResponse(r, x.r) /\ SameWay(r, x.r)
            /\ x.r.ended_in_headers <=> r.ended_in_headers
            /\ r.completed => x.r = r
            /\ ~r.completed => x.r.timer = "none" /\ x.r.result = result
  <1> DEFINE x == Complete(r, n, result)
             z == [StopPhaseTimeout(r) EXCEPT !.completed = TRUE,
                                              !.result = result]
  <1>1. CASE r.completed
    <2>1. x = [r |-> r, n |-> n]
      BY <1>1 DEF Complete, Pair
    <2>2. QED
      BY <1>1, <2>1 DEF SameUpload, SameResponse, SameWay
  <1>2. CASE ~r.completed
    <2>1. x = [r |-> z, n |-> n]
      BY <1>2 DEF Complete, Pair
    <2>2. z \in Request
      BY ZenonT(60) DEF Request, StopPhaseTimeout
    <2>3. SameUpload(r, z) /\ SameResponse(r, z)
      BY DEF Request, SameUpload, SameResponse, StopPhaseTimeout
    <2>4. /\ SameWay(r, z) /\ z.completed /\ z.timer = "none"
          /\ z.result = result
          /\ z.ended_in_headers <=> r.ended_in_headers
      BY DEF Request, SameWay, StopPhaseTimeout
    <2> HIDE DEF z
    <2>5. QED
      BY <1>2, <2>1, <2>2, <2>3, <2>4
  <1>3. QED
    BY <1>1, <1>2

\* A step in which the request completes, but not with success.
LEMMA EndStep ==
  ASSUME Inv, ~q.completed, NEW z \in Request, NEW m \in Net,
         NEW result \in {"error", "left"}, ~z.completed,
         SameResponse(q, z),
         z.headers_started <=> q.headers_started,
         z.late <=> q.late,
         z.pending \in {q.pending, "none"}, z.pending # "new",
         z.stream # NoStream /\ result # "left" => m.life[z.stream] # "open",
         Pool(net) => Pool(m),
         Unwinds(todo, todo'),
         Inside(todo') \/ Waiting(todo') => z.secure,
         Heading(todo') => z.ended_in_headers,
         q' = Complete(z, m, result).r, net' = m, peer' = peer,
         Upload(Complete(z, m, result).r, todo')
  PROVE  Inv'
  <1> DEFINE b == Complete(z, m, result).r
  <1>1. /\ b \in Request /\ b.completed /\ b.timer = "none"
        /\ b.result = result
        /\ SameResponse(z, b) /\ SameWay(z, b)
        /\ b.ended_in_headers <=> z.ended_in_headers
    BY CompleteIs
  <1>2. q' = b /\ Upload(b, todo')
    OBVIOUS
  <1> HIDE DEF b
  <1>3. SameResponse(q, b)
    BY <1>1 DEF SameResponse
  <1>4. Response(b, peer, todo')
    BY <1>1, <1>3, ResponseEnds DEF Inv
  <1>5. /\ b.headers_started <=> q.headers_started
        /\ b.late <=> q.late
        /\ b.pending \in {q.pending, "none"} /\ b.pending # "new"
        /\ b.stream = z.stream
        /\ b.secure <=> z.secure
    BY <1>1 DEF SameWay
  <1>6. Connection(b, m, todo')
    BY <1>1, <1>5, UnwindsIs, ConnectionEnds DEF Inv
  <1>7. Stack(todo') /\ peer \in Peer
    BY UnwindsIs DEF Inv, Types
  <1>8. QED
    BY <1>1, <1>2, <1>4, <1>6, <1>7, InvNext

\* As SameUpload, but a write in progress may be given up.
Stops(a, b) ==
  /\ b.upload_mode = a.upload_mode /\ b.content_length = a.content_length
  /\ b.accepted = a.accepted /\ b.upload_writes = a.upload_writes
  /\ b.sent = a.sent
  /\ b.upload_writing => a.upload_writing
  /\ b.upload_ended <=> a.upload_ended
  /\ b.headers_started <=> a.headers_started
  /\ b.headers_written <=> a.headers_written
  /\ b.reading_response <=> a.reading_response

\* An upload that stops because the request completes stays right.
LEMMA UploadStops ==
  ASSUME NEW a, NEW b, NEW st, NEW su, Upload(a, st), Stops(a, b),
         b.completed, Written(su) => Written(st), Outer(su) \/ ~Outer(st)
  PROVE  Upload(b, su)
  <1>1. Count(b) = Count(a) /\ \A i : Piece(b, i) = Piece(a, i)
    BY DEF Stops, Count, Piece
  <1>2. Uploaded(a) => Uploaded(b)
    BY <1>1 DEF Stops, Uploaded
  <1>3. QED
    BY <1>1, <1>2 DEF Upload, Sound, Stops

\* Stopping, then leaving the upload alone, is stopping.
LEMMA SameStops ==
  ASSUME NEW a, NEW b, NEW c, Stops(a, b), SameUpload(b, c)
  PROVE  Stops(a, c)
  BY DEF Stops, SameUpload

\* An upload left alone may be seen as stopped.
LEMMA Stopped ==
  ASSUME NEW a, NEW b, SameUpload(a, b)
  PROVE  Stops(a, b)
  BY DEF Stops, SameUpload

\* cancel() and on_timeout(): everything the request holds is closed.
LEMMA AbandonStep ==
  ASSUME Inv, ~q.completed, q.pending # "new", NEW z \in Request, ~z.completed,
         SameResponse(q, z), SameWay(q, z), SameUpload(q, z),
         q' = Abandon(z, net).r, net' = Abandon(z, net).n, peer' = peer,
         Unwinds(todo, todo'), Inside(todo') \/ Waiting(todo') => q.secure,
         Heading(todo') => z.ended_in_headers
  PROVE  Inv'
  <1> DEFINE a == CloseStream(net, q.lower)
             m == CloseStream(a, q.stream)
  <1>1. /\ net \in Net /\ Place(q, net)
        /\ q.stream \in Streams \cup {NoStream}
        /\ q.lower \in Streams \cup {NoStream}
    BY DEF Inv, Types, Request, Connection
  <1>2. a \in Net
    BY <1>1, CloseIs
  <1>3. m \in Net /\ (q.stream \in Streams => m.life[q.stream] # "open")
    <2> HIDE DEF a
    <2>1. QED
      BY <1>1, <1>2, CloseIs
  <1>4. ~InPool(net, q.lower) /\ ~InPool(net, q.stream)
    <2>1. ~InPool(net, NoStream)
      BY <1>1, NetTyped DEF InPool, Streams, NoStream
    <2>2. QED
      BY <1>1, <2>1 DEF Place, Mine
  <1>5. ASSUME Pool(net) PROVE Pool(m)
    <2>1. Pool(a) /\ \A t : InPool(a, t) <=> InPool(net, t)
      BY <1>1, <1>4, <1>5, ClosePool
    <2> HIDE DEF a
    <2>2. QED
      BY <1>1, <1>2, <1>4, <2>1, ClosePool
  <1>6. z.stream = q.stream /\ z.lower = q.lower
    BY DEF SameWay
  <1>7. Abandon(z, net) = Complete(z, m, "error")
    BY <1>6 DEF Abandon
  <1> HIDE DEF m
  <1>8. /\ q' = Complete(z, m, "error").r
        /\ SameUpload(z, Complete(z, m, "error").r)
        /\ Complete(z, m, "error").r.completed
        /\ net' = m
    BY <1>7, CompleteIs
  <1>9. Upload(Complete(z, m, "error").r, todo')
    BY <1>8, Stopped, SameStops, UploadStops, UnwindsIs DEF Inv
  <1>10. z.stream # NoStream => m.life[z.stream] # "open"
    BY <1>1, <1>3, <1>6
  <1>11. /\ z.headers_started <=> q.headers_started
         /\ z.late <=> q.late
         /\ z.pending \in {q.pending, "none"} /\ z.pending # "new"
         /\ z.secure <=> q.secure
    BY DEF SameWay
  <1>12. QED
    BY <1>3, <1>5, <1>8, <1>9, <1>10, <1>11, EndStep

\* fail_request_body(): the stream is closed.
LEMMA FailStep ==
  ASSUME Inv, ~q.completed, q.pending # "new", NEW z \in Request,
         ~z.completed, SameResponse(q, z), SameWay(q, z), Stops(q, z),
         q' = FailRequestBody(z, net).r, net' = FailRequestBody(z, net).n,
         peer' = peer, Unwinds(todo, todo'),
         Inside(todo') \/ Waiting(todo') => q.secure,
         Heading(todo') => z.ended_in_headers
  PROVE  Inv'
  <1> DEFINE m == CloseStream(net, q.stream)
  <1>1. /\ net \in Net /\ Place(q, net)
        /\ q.stream \in Streams \cup {NoStream}
    BY DEF Inv, Types, Request, Connection
  <1>2. m \in Net /\ (q.stream \in Streams => m.life[q.stream] # "open")
    BY <1>1, CloseIs
  <1>3. ASSUME Pool(net) PROVE Pool(m)
    <2>1. ~InPool(net, NoStream)
      BY <1>1, NetTyped DEF InPool, Streams, NoStream
    <2>2. ~InPool(net, q.stream)
      BY <1>1, <2>1 DEF Place, Mine
    <2>3. QED
      BY <1>1, <1>3, <2>2, ClosePool
  <1>4. z.stream = q.stream
    BY DEF SameWay
  <1>5. FailRequestBody(z, net) = Complete(z, m, "error")
    BY <1>4 DEF FailRequestBody
  <1> HIDE DEF m
  <1>6. /\ q' = Complete(z, m, "error").r
        /\ SameUpload(z, Complete(z, m, "error").r)
        /\ Complete(z, m, "error").r.completed
        /\ net' = m
    BY <1>5, CompleteIs
  <1>7. Upload(Complete(z, m, "error").r, todo')
    BY <1>6, SameStops, UploadStops, UnwindsIs DEF Inv
  <1>8. z.stream # NoStream => m.life[z.stream] # "open"
    BY <1>1, <1>2, <1>4
  <1>9. /\ z.headers_started <=> q.headers_started
        /\ z.late <=> q.late
        /\ z.pending \in {q.pending, "none"} /\ z.pending # "new"
        /\ z.secure <=> q.secure
    BY DEF SameWay
  <1>10. QED
    BY <1>2, <1>3, <1>6, <1>7, <1>8, <1>9, EndStep

-------------------------------------------------------------------------------
(***************************************************************************)
(* Getting a connection.                                                   *)
(***************************************************************************)

\* The loop's stack holds nothing.
LEMMA Empty ==
  ASSUME NEW st, st = <<>>
  PROVE  /\ ~Written(st) /\ ~Heading(st) /\ ~Bodying(st) /\ ~Emitting(st)
         /\ ~Inside(st) /\ ~Waiting(st) /\ Outer(st) /\ Stack(st)
         /\ Unwinds(st, st) /\ (\A r : Safe(r, st))
  BY DEF Written, Heading, Bodying, Emitting, Inside, Waiting, Outer, Stack,
         Unwinds, Safe

\* A request that has not begun to write goes on to its next phase.
LEMMA WayStep ==
  ASSUME Inv, ~q.completed, todo = <<>>, ~q.headers_started,
         NEW z \in Request, NEW m \in Net,
         SameUpload(q, z), SameResponse(q, z), SameEnd(q, z),
         z.late <=> q.late,
         z.pending \in {"dns", "connect", "tls"}, Place(z, m),
         Pool(net) => Pool(m),
         q' = z, net' = m, todo' = todo, peer' = peer
  PROVE  Inv'
  <1>1. Upload(z, todo)
    BY UploadKept DEF Inv, SameEnd
  <1>2. Response(z, peer, todo)
    BY ResponseKept DEF Inv
  <1>3. Connection(z, m, todo)
    BY Empty DEF Inv, Connection, SameEnd, SameUpload
  <1>4. Stack(todo) /\ peer \in Peer
    BY DEF Inv, Types
  <1>5. QED
    BY <1>1, <1>2, <1>3, <1>4, InvNext

\* The upload as write_request() leaves it.
Begins(a, b) ==
  /\ b.upload_mode = a.upload_mode /\ b.content_length = a.content_length
  /\ b.accepted = a.accepted /\ b.upload_writes = a.upload_writes
  /\ b.pending_bytes = a.pending_bytes /\ b.sent = a.sent
  /\ b.upload_writing <=> a.upload_writing
  /\ b.backpressured <=> a.backpressured
  /\ b.headers_written <=> a.headers_written
  /\ b.reading_response <=> a.reading_response
  /\ b.headers_started
  /\ b.upload_ended <=>
       \/ a.upload_ended
       \/ a.upload_mode = "content_length" /\ a.content_length = 0

\* What write_request() changes.
LEMMA WriteRequestIs ==
  ASSUME NEW r \in Request, NEW n
  PROVE  LET x == WriteRequest(r, n)
         IN /\ x.r \in Request /\ x.n = n
            /\ x.r.pending = "headers" /\ x.r.headers_started
            /\ x.r.stream = r.stream /\ x.r.lower = r.lower
            /\ x.r.late <=> r.late
            /\ SameResponse(r, x.r) /\ SameEnd(r, x.r)
            /\ Begins(r, x.r)
  <1> DEFINE ended == \/ r.upload_ended
                      \/ /\ r.upload_mode = "content_length"
                         /\ r.content_length = 0
             time == IF "request_body" \in Timed THEN "request_body" ELSE "none"
             z == [r EXCEPT !.pending = "headers", !.headers_started = TRUE,
                            !.upload_ended = ended, !.timer = time]
  <1>1. WriteRequest(r, n) = [r |-> z, n |-> n]
    BY DEF WriteRequest, StartPhaseTimeout, Pair
  <1>2. time \in Timed \cup {"none"} /\ ended \in BOOLEAN
    BY DEF Request
  <1> HIDE DEF time
  <1>3. z.upload_ended <=> ended
    BY DEF Request
  <1> HIDE DEF ended
  <1>4. z \in Request
    BY <1>2, ZenonT(60) DEF Request
  <1>5. /\ z.pending = "headers" /\ z.headers_started
        /\ z.stream = r.stream /\ z.lower = r.lower
        /\ z.late <=> r.late
    BY DEF Request
  <1>6. SameResponse(r, z) /\ SameEnd(r, z)
    BY DEF Request, SameResponse, SameEnd
  <1>7. Begins(r, z)
    BY <1>3 DEF Request, Begins, ended
  <1> HIDE DEF z
  <1>8. QED
    BY <1>1, <1>4, <1>5, <1>6, <1>7

\* Starting to write the headers leaves the upload right.
LEMMA UploadBegins ==
  ASSUME NEW a \in Request, NEW b \in Request, NEW st, Upload(a, st),
         Begins(a, b), ~a.headers_started, ~a.completed, ~Written(st)
  PROVE  Upload(b, st)
  <1>1. a.accepted \in Nat /\ a.content_length \in Nat
    BY DEF Request
  <1>2. ~a.headers_written /\ ~a.reading_response /\ Queued(a)
    BY DEF Upload, Sound, Uploaded
  <1>3. a.upload_mode = "content_length" /\ a.content_length = 0 =>
          a.accepted = a.content_length
    BY <1>1 DEF Upload, Sound
  <1>4. /\ Count(b) = Count(a) /\ Flown(b) = Flown(a)
        /\ \A i : Piece(b, i) = Piece(a, i) /\ Load(b, i) = Load(a, i)
    BY <1>1, <1>2 DEF Begins, Count, Flown, Piece, Load
  <1>5. Queued(b)
    BY <1>2, <1>4 DEF Begins, Queued
  <1>6. QED
    BY <1>1, <1>2, <1>3, <1>4, <1>5 DEF Upload, Sound, Begins

\* A step in which the request has its connection and begins to write.
LEMMA BeginStep ==
  ASSUME Inv, ~q.completed, todo = <<>>, ~q.headers_started,
         NEW z \in Request, NEW m \in Net,
         SameUpload(q, z), SameResponse(q, z), SameEnd(q, z),
         z.late <=> q.late,
         Mine(m, z.stream), z.lower = NoStream, Pool(net) => Pool(m),
         q' = WriteRequest(z, m).r, net' = WriteRequest(z, m).n,
         todo' = todo, peer' = peer
  PROVE  Inv'
  <1> DEFINE b == WriteRequest(z, m).r
  <1>1. /\ b \in Request /\ b.pending = "headers" /\ b.headers_started
        /\ b.stream = z.stream /\ b.lower = z.lower
        /\ b.late <=> z.late
        /\ SameResponse(z, b) /\ SameEnd(z, b) /\ Begins(z, b)
    BY WriteRequestIs
  <1>2. q' = b /\ net' = m
    BY WriteRequestIs
  <1> HIDE DEF b
  <1>3. ~Written(todo) /\ ~Heading(todo) /\ Safe(b, todo)
    BY Empty
  <1>4. Upload(z, todo)
    BY UploadKept DEF Inv, SameEnd
  <1>5. Upload(b, todo)
    <2>1. ~z.headers_started /\ ~z.completed
      BY DEF SameUpload, SameEnd
    <2>2. QED
      BY <1>1, <1>3, <1>4, <2>1, UploadBegins
  <1>6. Response(b, peer, todo)
    <2>1. Response(z, peer, todo)
      BY ResponseKept DEF Inv
    <2>2. QED
      BY <1>1, <2>1, ResponseKept
  <1>7. Connection(b, m, todo)
    <2>1. /\ ~b.completed /\ ~b.ended_in_headers
          /\ b.late <=> q.late
      BY <1>1 DEF SameEnd, Inv, Connection
    <2>2. Pool(m) /\ ~b.late
      BY <2>1 DEF Inv, Connection
    <2>3. Place(b, m)
      BY <1>1 DEF Place
    <2>4. QED
      BY <1>1, <1>3, <2>1, <2>2, <2>3 DEF Connection
  <1>8. Stack(todo) /\ peer \in Peer
    BY DEF Inv, Types
  <1>9. QED
    BY <1>1, <1>2, <1>5, <1>6, <1>7, <1>8, InvNext

\* A stream outside the pool gets another life.
LEMMA LifeIs ==
  ASSUME NEW n \in Net, NEW s \in Streams, Pool(n), ~InPool(n, s),
         NEW life \in Lives
  PROVE  LET m == [n EXCEPT !.life[s] = life]
         IN /\ m \in Net /\ Pool(m) /\ m.life[s] = life
            /\ \A t : InPool(m, t) <=> InPool(n, t)
  <1> DEFINE m == [n EXCEPT !.life[s] = life]
  <1>1. n.life \in [Streams -> Lives]
    BY NetTyped
  <1>2. m \in Net
    BY <1>1 DEF Net
  <1>3. m.idle = n.idle /\ m.life = [n.life EXCEPT ![s] = life]
    BY DEF Net
  <1> HIDE DEF m
  <1>4. \A t \in Streams : m.life[t] = IF t = s THEN life ELSE n.life[t]
    BY <1>1, <1>3
  <1>5. \A t : InPool(m, t) <=> InPool(n, t)
    BY <1>3 DEF InPool
  <1>6. Pool(m)
    BY <1>3, <1>4, <1>5 DEF Pool
  <1>7. QED
    BY <1>2, <1>4, <1>5, <1>6 DEF m

\* A request on its way, with what is known of it.
LEMMA OnItsWay ==
  ASSUME Inv, ~q.completed
  PROVE  /\ q \in Request /\ net \in Net /\ Place(q, net) /\ Pool(net)
         /\ q.pending \in {"new", "dns", "connect", "tls"} =>
              ~q.headers_started
         /\ q.stream \in Streams \cup {NoStream}
         /\ q.lower \in Streams \cup {NoStream}
  BY DEF Inv, Types, Connection, Request

\* start() keeps the invariant.
LEMMA StartInv ==
  ASSUME Inv, Start
  PROVE  Inv'
  <1>1. /\ ~q.completed /\ todo = <<>> /\ q.pending = "new"
        /\ todo' = todo /\ peer' = peer
    BY DEF Start, Idle, Inv, Connection
  <1>2. /\ q \in Request /\ net \in Net /\ Place(q, net) /\ Pool(net)
        /\ ~q.headers_started
    BY <1>1, OnItsWay
  <1>3. q.stream = NoStream /\ q.lower = NoStream
    BY <1>1, <1>2 DEF Place
  <1>4. /\ ~Heading(todo) /\ ~Inside(todo) /\ ~Waiting(todo)
        /\ Unwinds(todo, todo)
    BY <1>1, Empty
  <1>5. CASE Becomes(Complete([q EXCEPT !.pending = "none"], net, "error"))
    <2> DEFINE z == [q EXCEPT !.pending = "none"]
    <2>1. z \in Request
      BY <1>2, ZenonT(60) DEF Request
    <2>2. /\ SameResponse(q, z) /\ SameUpload(q, z) /\ ~z.completed
          /\ z.stream = NoStream /\ z.pending = "none"
          /\ z.late <=> q.late
          /\ z.headers_started <=> q.headers_started
      BY <1>1, <1>2, <1>3 DEF Request, SameResponse, SameUpload
    <2> HIDE DEF z
    <2>3. /\ SameUpload(z, Complete(z, net, "error").r)
          /\ Complete(z, net, "error").r.completed
          /\ Complete(z, net, "error").n = net
      BY <2>1, CompleteIs
    <2>4. Upload(Complete(z, net, "error").r, todo)
      BY <2>2, <2>3, Stopped, SameStops, UploadStops DEF Inv
    <2>5. q' = Complete(z, net, "error").r /\ net' = net
      BY <1>5, <2>3 DEF Becomes, z
    <2>6. QED
      BY <1>1, <1>2, <1>4, <2>1, <2>2, <2>4, <2>5, EndStep
  <1>6. CASE /\ net.idle[Origin] # <<>>
             /\ Becomes(WriteRequest(
                          [q EXCEPT !.stream = Head(net.idle[Origin])],
                          Take(net, Origin)))
    <2> DEFINE m == Take(net, Origin)
               s == Head(net.idle[Origin])
               z == [q EXCEPT !.stream = s]
    <2>1. m \in Net /\ s \in Streams /\ Pool(m) /\ Mine(m, s)
      BY <1>2, <1>6, TakeIs
    <2>2. q' = WriteRequest(z, m).r /\ net' = WriteRequest(z, m).n
      BY <1>6 DEF Becomes
    <2> HIDE DEF m, s
    <2>3. z \in Request
      BY <1>2, <2>1, ZenonT(60) DEF Request
    <2>4. /\ SameResponse(q, z) /\ SameUpload(q, z) /\ SameEnd(q, z)
          /\ z.late <=> q.late
          /\ z.stream = s /\ z.lower = NoStream
      BY <1>2, <1>3 DEF Request, SameResponse, SameUpload, SameEnd
    <2> HIDE DEF z
    <2>5. QED
      BY <1>1, <1>2, <2>1, <2>2, <2>3, <2>4, BeginStep
  <1>7. CASE Becomes(Pair(StartPhaseTimeout([q EXCEPT !.pending = "dns"],
                                            "dns"), net))
    <2> DEFINE time == IF "dns" \in Timed THEN "dns" ELSE "none"
               z == [q EXCEPT !.pending = "dns", !.timer = time]
    <2>1. time \in Timed \cup {"none"}
      OBVIOUS
    <2>2. q' = z /\ net' = net
      BY <1>7 DEF Becomes, Pair, StartPhaseTimeout
    <2> HIDE DEF time
    <2>3. z \in Request
      BY <1>2, <2>1, ZenonT(60) DEF Request
    <2>4. /\ SameResponse(q, z) /\ SameUpload(q, z) /\ SameEnd(q, z)
          /\ z.late <=> q.late
          /\ z.stream = NoStream /\ z.lower = NoStream /\ z.pending = "dns"
      BY <1>2, <1>3 DEF Request, SameResponse, SameUpload, SameEnd
    <2> HIDE DEF z
    <2>5. Place(z, net)
      BY <2>4 DEF Place
    <2>6. QED
      BY <1>1, <1>2, <2>2, <2>3, <2>4, <2>5, WayStep
  <1>8. QED
    BY <1>5, <1>6, <1>7 DEF Start

\* A request that ends before it begins to write.
LEMMA LostStep ==
  ASSUME Inv, ~q.completed, todo = <<>>, q.pending # "new",
         NEW z \in Request, NEW m \in Net, SameUpload(q, z),
         SameResponse(q, z), SameEnd(q, z),
         z.late <=> q.late,
         z.pending = q.pending, z.stream = NoStream, Pool(m),
         Becomes(Complete(z, m, "error")), todo' = todo, peer' = peer
  PROVE  Inv'
  <1>1. /\ SameUpload(z, Complete(z, m, "error").r)
        /\ Complete(z, m, "error").r.completed
        /\ Complete(z, m, "error").n = m
    BY CompleteIs
  <1>2. /\ ~Heading(todo) /\ ~Inside(todo) /\ ~Waiting(todo)
        /\ Unwinds(todo, todo)
    BY Empty
  <1>3. Upload(Complete(z, m, "error").r, todo)
    BY <1>1, Stopped, SameStops, UploadStops DEF Inv
  <1>4. q' = Complete(z, m, "error").r /\ net' = m
    BY <1>1 DEF Becomes
  <1>5. /\ ~z.completed
        /\ z.headers_started <=> q.headers_started
    BY DEF SameEnd, SameUpload
  <1>6. QED
    BY <1>2, <1>3, <1>4, <1>5, EndStep

\* Whoever does nothing changes nothing.
LEMMA SameSelf ==
  ASSUME NEW a
  PROVE  SameUpload(a, a) /\ SameResponse(a, a) /\ SameEnd(a, a)
         /\ SameWay(a, a)
  BY DEF SameUpload, SameResponse, SameEnd, SameWay

\* on_resolved() keeps the invariant.
LEMMA OnResolvedInv ==
  ASSUME Inv, OnResolved
  PROVE  Inv'
  <1>1. /\ ~q.completed /\ todo = <<>> /\ q.pending = "dns"
        /\ todo' = todo /\ peer' = peer
    BY DEF OnResolved, Live, Idle
  <1>2. /\ q \in Request /\ net \in Net /\ Place(q, net) /\ Pool(net)
        /\ ~q.headers_started
    BY <1>1, OnItsWay
  <1>3. q.stream = NoStream /\ q.lower = NoStream
    BY <1>1, <1>2 DEF Place
  <1>4. CASE Becomes(Complete(q, net, "error"))
    BY <1>1, <1>2, <1>3, <1>4, SameSelf, LostStep
  <1>5. CASE Becomes(Pair(StopPhaseTimeout([q EXCEPT !.pending = "connect"]),
                          net))
    <2> DEFINE z == [q EXCEPT !.pending = "connect", !.timer = "none"]
    <2>1. q' = z /\ net' = net
      BY <1>5 DEF Becomes, Pair, StopPhaseTimeout
    <2>2. z \in Request
      BY <1>2, ZenonT(60) DEF Request
    <2>3. /\ SameResponse(q, z) /\ SameUpload(q, z) /\ SameEnd(q, z)
          /\ z.late <=> q.late
          /\ z.stream = NoStream /\ z.lower = NoStream
          /\ z.pending = "connect"
      BY <1>2, <1>3 DEF Request, SameResponse, SameUpload, SameEnd
    <2> HIDE DEF z
    <2>4. Place(z, net)
      BY <2>3 DEF Place
    <2>5. QED
      BY <1>1, <1>2, <2>1, <2>2, <2>3, <2>4, WayStep
  <1>6. QED
    BY <1>4, <1>5 DEF OnResolved

\* on_connected() keeps the invariant.
LEMMA OnConnectedInv ==
  ASSUME Inv, OnConnected
  PROVE  Inv'
  <1>1. /\ ~q.completed /\ todo = <<>> /\ q.pending = "connect"
        /\ todo' = todo /\ peer' = peer
    BY DEF OnConnected, Live, Idle
  <1>2. /\ q \in Request /\ net \in Net /\ Place(q, net) /\ Pool(net)
        /\ ~q.headers_started
    BY <1>1, OnItsWay
  <1>3. q.stream = NoStream /\ q.lower = NoStream
    BY <1>1, <1>2 DEF Place
  <1> DEFINE opened == [net EXCEPT !.life[Fresh] = "open"]
             lost == [opened EXCEPT !.life[Fresh] = "destroyed"]
  <1>4. CASE Becomes(Complete(q, net, "error"))
    BY <1>1, <1>2, <1>3, <1>4, SameSelf, LostStep
  <1>5. ASSUME CanOpen
        PROVE  /\ opened \in Net /\ Pool(opened) /\ Mine(opened, Fresh)
               /\ lost \in Net /\ Pool(lost) /\ Fresh \in Streams
    <2> DEFINE s == Fresh
    <2>1. s \in Streams /\ net.life[s] = "none"
      BY <1>5 DEF CanOpen, Fresh
    <2> HIDE DEF s
    <2> DEFINE a == [net EXCEPT !.life[s] = "open"]
               b == [a EXCEPT !.life[s] = "destroyed"]
    <2>2. ~InPool(net, s)
      BY <1>2, <2>1 DEF Pool
    <2>3. "open" \in Lives /\ "destroyed" \in Lives
      BY DEF Lives
    <2>4. /\ a \in Net /\ Pool(a) /\ a.life[s] = "open"
          /\ \A t : InPool(a, t) <=> InPool(net, t)
      BY <1>2, <2>1, <2>2, <2>3, LifeIs
    <2> HIDE DEF a
    <2>5. b \in Net /\ Pool(b)
      BY <2>1, <2>2, <2>3, <2>4, LifeIs
    <2>6. Mine(a, s)
      BY <2>1, <2>2, <2>4 DEF Mine
    <2>7. QED
      BY <2>1, <2>4, <2>5, <2>6 DEF a, s
  <1> HIDE DEF lost
  <1>6. CASE CanOpen /\ Becomes(WriteRequest([q EXCEPT !.stream = Fresh],
                                             opened))
    <2> DEFINE s == Fresh
               z == [q EXCEPT !.stream = s]
    <2>1. q' = WriteRequest(z, opened).r /\ net' = WriteRequest(z, opened).n
      BY <1>6 DEF Becomes
    <2>2. s \in Streams /\ Mine(opened, s) /\ opened \in Net /\ Pool(opened)
      BY <1>5, <1>6
    <2> HIDE DEF s, opened
    <2>3. z \in Request
      BY <1>2, <2>2, ZenonT(60) DEF Request
    <2>4. /\ SameResponse(q, z) /\ SameUpload(q, z) /\ SameEnd(q, z)
          /\ z.late <=> q.late
          /\ z.stream = s /\ z.lower = NoStream
      BY <1>2, <1>3 DEF Request, SameResponse, SameUpload, SameEnd
    <2> HIDE DEF z
    <2>5. QED
      BY <1>1, <1>2, <2>1, <2>2, <2>3, <2>4, BeginStep
  <1>7. CASE CanOpen /\ Becomes(Pair(StartPhaseTimeout(
                          [q EXCEPT !.pending = "tls", !.lower = Fresh],
                          "tls_handshake"), opened))
    <2> DEFINE s == Fresh
               time == IF "tls_handshake" \in Timed THEN "tls_handshake"
                                                    ELSE "none"
               z == [q EXCEPT !.pending = "tls", !.lower = s, !.timer = time]
    <2>1. q' = z /\ net' = opened
      BY <1>7 DEF Becomes, Pair, StartPhaseTimeout
    <2>2. /\ s \in Streams /\ Mine(opened, s) /\ opened \in Net
          /\ Pool(opened) /\ time \in Timed \cup {"none"}
      BY <1>5, <1>7
    <2> HIDE DEF s, opened, time
    <2>3. z \in Request
      BY <1>2, <2>2, ZenonT(60) DEF Request
    <2>4. /\ SameResponse(q, z) /\ SameUpload(q, z) /\ SameEnd(q, z)
          /\ z.late <=> q.late
          /\ z.stream = NoStream /\ z.lower = s /\ z.pending = "tls"
      BY <1>2, <1>3 DEF Request, SameResponse, SameUpload, SameEnd
    <2> HIDE DEF z
    <2>5. Place(z, opened)
      BY <2>2, <2>4 DEF Place
    <2>6. QED
      BY <1>1, <1>2, <2>1, <2>2, <2>3, <2>4, <2>5, WayStep
  <1>8. CASE CanOpen /\ Becomes(Complete(q, lost, "error"))
    <2>1. lost \in Net /\ Pool(lost)
      BY <1>5, <1>8
    <2>2. QED
      BY <1>1, <1>2, <1>3, <1>8, <2>1, SameSelf, LostStep
  <1>9. QED
    BY <1>4, <1>6, <1>7, <1>8 DEF OnConnected, StartTls, lost

\* on_tls_connected() keeps the invariant.
LEMMA OnTlsConnectedInv ==
  ASSUME Inv, OnTlsConnected
  PROVE  Inv'
  <1>1. /\ ~q.completed /\ todo = <<>> /\ q.pending = "tls"
        /\ todo' = todo /\ peer' = peer
    BY DEF OnTlsConnected, Live, Idle
  <1>2. /\ q \in Request /\ net \in Net /\ Place(q, net) /\ Pool(net)
        /\ ~q.headers_started
    BY <1>1, OnItsWay
  <1>3. q.stream = NoStream /\ Mine(net, q.lower) /\ q.lower \in Streams
    BY <1>1, <1>2 DEF Place, Mine
  <1>4. CASE Becomes(Complete([q EXCEPT !.lower = NoStream],
                              CloseStream(net, q.lower), "error"))
    <2> DEFINE m == CloseStream(net, q.lower)
               z == [q EXCEPT !.lower = NoStream]
    <2>1. m \in Net /\ Pool(m)
      BY <1>2, <1>3, CloseIs, ClosePool DEF Mine
    <2> HIDE DEF m
    <2>2. z \in Request
      BY <1>2, ZenonT(60) DEF Request
    <2>3. /\ SameResponse(q, z) /\ SameUpload(q, z) /\ SameEnd(q, z)
          /\ z.late <=> q.late
          /\ z.pending = q.pending /\ z.stream = NoStream
      BY <1>2, <1>3 DEF Request, SameResponse, SameUpload, SameEnd
    <2>4. Becomes(Complete(z, m, "error"))
      BY <1>4 DEF m
    <2> HIDE DEF z
    <2>5. QED
      BY <1>1, <2>1, <2>2, <2>3, <2>4, LostStep
  <1>5. CASE Becomes(WriteRequest([q EXCEPT !.stream = q.lower,
                                            !.lower = NoStream], net))
    <2> DEFINE z == [q EXCEPT !.stream = q.lower, !.lower = NoStream]
    <2>1. q' = WriteRequest(z, net).r /\ net' = WriteRequest(z, net).n
      BY <1>5 DEF Becomes
    <2>2. z \in Request
      BY <1>2, <1>3, ZenonT(60) DEF Request
    <2>3. /\ SameResponse(q, z) /\ SameUpload(q, z) /\ SameEnd(q, z)
          /\ z.late <=> q.late
          /\ z.stream = q.lower /\ z.lower = NoStream
      BY <1>2, <1>3 DEF Request, SameResponse, SameUpload, SameEnd
    <2> HIDE DEF z
    <2>4. QED
      BY <1>1, <1>2, <1>3, <2>1, <2>2, <2>3, BeginStep
  <1>6. QED
    BY <1>4, <1>5 DEF OnTlsConnected

-------------------------------------------------------------------------------
(***************************************************************************)
(* The upload.                                                             *)
(***************************************************************************)

\* Everything but the upload, and the timer of a request that goes on.
Aside(a, b) ==
  /\ SameResponse(a, b) /\ SameEnd(a, b) /\ SameWay(a, b)
  /\ \/ b.timer = a.timer
     \/ b.pending # "new" /\ (b.completed => Spare(b))

\* Doing nothing is a step aside.
LEMMA AsideSelf ==
  ASSUME NEW a
  PROVE  Aside(a, a)
  BY DEF Aside, SameResponse, SameEnd, SameWay

\* Two steps aside are one.
LEMMA AsideTrans ==
  ASSUME NEW a, NEW b, NEW c, Aside(a, b), Aside(b, c)
  PROVE  Aside(a, c)
  BY DEF Aside, SameResponse, SameEnd, SameWay, Spare

\* The response does not mind who runs, outside of process_buffer().
LEMMA ResponseMoves ==
  ASSUME NEW a, NEW b, NEW p, NEW st, NEW su, Response(a, p, st),
         SameResponse(a, b), SameEnd(a, b),
         su = st \/ (/\ ~Heading(st) /\ ~Heading(su)
                     /\ ~Bodying(su) /\ ~Emitting(su))
  PROVE  Response(b, p, su)
  <1>1. Used(b) = Used(a) /\ Arrived(b, p) = Arrived(a, p)
    BY DEF SameResponse, Used, Arrived
  <1>2. CASE su = st
    BY <1>2, ResponseKept
  <1>3. CASE /\ ~Heading(st) /\ ~Heading(su)
             /\ ~Bodying(su) /\ ~Emitting(su)
    BY <1>1, <1>3 DEF Response, Bytes, SameResponse, SameEnd
  <1>4. QED
    BY <1>2, <1>3

\* A step of the upload, from a request that is already right otherwise ...
LEMMA UploadStepFrom ==
  ASSUME Types, NEW a, Response(a, peer, todo), Connection(a, net, todo),
         NEW z \in Request, Aside(a, z), Upload(z, todo'),
         Stack(todo'), todo' # <<>> => a.headers_started, Safe(a, todo'),
         todo' = todo \/ (/\ ~Heading(todo) /\ ~Heading(todo')
                          /\ ~Bodying(todo') /\ ~Emitting(todo')),
         q' = z, net' = net, peer' = peer
  PROVE  Inv'
  <1>1. Response(z, peer, todo')
    BY ResponseMoves DEF Aside
  <1>2. Connection(z, net, todo')
    <2>1. /\ z.headers_started <=> a.headers_started
          /\ Safe(z, todo')
      BY DEF Aside, SameWay, SameEnd, Safe
    <2>2. QED
      BY <2>1, ConnectionKept DEF Aside
  <1>3. net \in Net /\ peer \in Peer
    BY DEF Types
  <1>4. QED
    BY <1>1, <1>2, <1>3, InvNext

\* ... and from the one there is.
LEMMA UploadStep ==
  ASSUME Inv, NEW z \in Request, Aside(q, z), Upload(z, todo'),
         Stack(todo'), todo' # <<>> => q.headers_started, Safe(q, todo'),
         todo' = todo \/ (/\ ~Heading(todo) /\ ~Heading(todo')
                          /\ ~Bodying(todo') /\ ~Emitting(todo')),
         q' = z, net' = net, peer' = peer
  PROVE  Inv'
  <1>1. Types /\ Response(q, peer, todo) /\ Connection(q, net, todo)
    BY DEF Inv
  <1>2. QED
    BY <1>1, UploadStepFrom

\* What flush_upload_writes() does to an upload.
LEMMA FlushIs ==
  ASSUME NEW r \in Request
  PROVE  LET f == FlushUploadWrites(r)
         IN /\ f \in Request /\ Aside(r, f)
            /\ f.upload_mode = r.upload_mode
            /\ f.content_length = r.content_length
            /\ f.accepted = r.accepted /\ f.upload_writes = r.upload_writes
            /\ f.pending_bytes = r.pending_bytes
            /\ f.upload_ended <=> r.upload_ended
            /\ f.backpressured <=> r.backpressured
            /\ f.headers_started <=> r.headers_started
            /\ f.headers_written <=> r.headers_written
            /\ f.reading_response <=> r.reading_response
            /\ \/ /\ f = r
                  /\ \/ r.completed \/ ~r.headers_written
                     \/ r.upload_writing \/ r.upload_writes = <<>>
               \/ /\ ~r.completed /\ r.headers_written /\ ~r.upload_writing
                  /\ r.upload_writes # <<>>
                  /\ f.upload_writing
                  /\ f.sent = Append(r.sent, Head(r.upload_writes).id)
  <1> DEFINE f == FlushUploadWrites(r)
             skip == \/ r.completed \/ ~r.headers_written \/ r.upload_writing
                     \/ r.upload_writes = <<>>
             gone == Append(r.sent, Head(r.upload_writes).id)
             z == [r EXCEPT !.upload_writing = TRUE, !.sent = gone]
  <1>1. CASE skip
    <2>1. f = r
      BY <1>1 DEF FlushUploadWrites
    <2> HIDE DEF f
    <2>2. QED
      BY <1>1, <2>1, AsideSelf DEF f
  <1>2. CASE ~skip
    <2>1. f = z
      BY <1>2 DEF FlushUploadWrites
    <2>2. gone \in Seq(Nat)
      <3> DEFINE w == r.upload_writes
                 x == Head(w)
                 W == [id : Nat, size : Nat]
      <3>1. w \in Seq(W) /\ w # <<>> /\ r.sent \in Seq(Nat)
        BY <1>2 DEF Request
      <3> HIDE DEF w, W
      <3>2. x \in W
        BY <3>1
      <3> HIDE DEF x
      <3>3. x.id \in Nat
        BY <3>2 DEF W
      <3>4. QED
        BY <3>1, <3>3 DEF x, w
    <2> HIDE DEF gone
    <2>3. z \in Request
      BY <2>2, ZenonT(60) DEF Request
    <2>4. Aside(r, z)
      <3>1. SameResponse(r, z) /\ SameEnd(r, z)
        BY DEF Request, SameResponse, SameEnd
      <3>2. SameWay(r, z) /\ z.timer = r.timer
        BY DEF Request, SameWay
      <3>3. QED
        BY <3>1, <3>2 DEF Aside
    <2>5. /\ z.upload_mode = r.upload_mode
          /\ z.content_length = r.content_length
          /\ z.accepted = r.accepted /\ z.upload_writes = r.upload_writes
          /\ z.pending_bytes = r.pending_bytes
          /\ z.upload_ended <=> r.upload_ended
          /\ z.backpressured <=> r.backpressured
          /\ z.headers_started <=> r.headers_started
          /\ z.headers_written <=> r.headers_written
          /\ z.reading_response <=> r.reading_response
          /\ z.upload_writing /\ z.sent = gone
      BY DEF Request
    <2> HIDE DEF z, f
    <2>6. QED
      BY <1>2, <2>1, <2>3, <2>4, <2>5 DEF f, gone
  <1>3. QED
    BY <1>1, <1>2

\* A sound upload is in good hands once it was flushed.
LEMMA FlushSound ==
  ASSUME NEW r \in Request, Sound(r), NEW st, Written(st) => r.headers_written,
         Outer(st) \/ r.reading_response
  PROVE  Upload(FlushUploadWrites(r), st)
  <1> DEFINE f == FlushUploadWrites(r)
  <1>1. /\ f \in Request /\ Aside(r, f)
        /\ f.upload_mode = r.upload_mode
        /\ f.content_length = r.content_length
        /\ f.accepted = r.accepted /\ f.upload_writes = r.upload_writes
        /\ f.pending_bytes = r.pending_bytes
        /\ f.upload_ended <=> r.upload_ended
        /\ f.backpressured <=> r.backpressured
        /\ f.headers_started <=> r.headers_started
        /\ f.headers_written <=> r.headers_written
        /\ f.reading_response <=> r.reading_response
        /\ \/ /\ f = r
              /\ \/ r.completed \/ ~r.headers_written
                 \/ r.upload_writing \/ r.upload_writes = <<>>
           \/ /\ ~r.completed /\ r.headers_written /\ ~r.upload_writing
              /\ r.upload_writes # <<>>
              /\ f.upload_writing
              /\ f.sent = Append(r.sent, Head(r.upload_writes).id)
    BY FlushIs
  <1> HIDE DEF f
  <1>2. CASE f = r /\ \/ r.completed \/ ~r.headers_written
                      \/ r.upload_writing \/ r.upload_writes = <<>>
    <2>1. Upload(f, st)
      BY <1>1, <1>2 DEF Upload
    <2>2. QED
      BY <2>1 DEF f
  <1>3. CASE /\ ~r.completed /\ r.headers_written /\ ~r.upload_writing
             /\ r.upload_writes # <<>>
             /\ f.upload_writing
             /\ f.sent = Append(r.sent, Head(r.upload_writes).id)
    <2>1. /\ r.sent \in Seq(Nat) /\ Len(r.sent) \in Nat
          /\ r.upload_writes \in Seq([id : Nat, size : Nat])
          /\ Len(r.upload_writes) \in Nat \ {0} /\ r.accepted \in Nat
      <3> DEFINE w == r.upload_writes
      <3>1. w \in Seq([id : Nat, size : Nat]) /\ w # <<>>
            /\ r.sent \in Seq(Nat) /\ r.accepted \in Nat
        BY <1>3 DEF Request
      <3> HIDE DEF w
      <3>2. Len(w) \in Nat \ {0}
        BY <3>1
      <3>3. QED
        BY <3>1, <3>2 DEF w
    <2>2. /\ Queued(r) /\ Flown(r) = Len(r.sent)
          /\ Count(r) \in Nat
      BY <1>3, <2>1 DEF Sound, Flown, Count
    <2>3. /\ Head(r.upload_writes).id = Piece(r, Len(r.sent) + 1).id
          /\ Len(r.sent) + 1 <= Count(r)
      <3>1. /\ Head(r.upload_writes) = r.upload_writes[1]
            /\ 1 \in 1 .. Len(r.upload_writes)
        BY <2>1
      <3>2. r.upload_writes[1] = Piece(r, Len(r.sent) + 1)
        BY <2>2, <3>1 DEF Queued
      <3>3. QED
        <4>1. Len(r.sent) + Len(r.upload_writes) = Count(r)
          BY <2>2 DEF Queued
        <4>2. Len(r.sent) + 1 <= Count(r)
          <5> DEFINE a == Len(r.sent)
                     b == Len(r.upload_writes)
                     c == Count(r)
          <5>1. a \in Nat /\ b \in Nat \ {0} /\ c \in Nat /\ a + b = c
            BY <2>1, <2>2, <4>1
          <5> HIDE DEF a, b, c
          <5>2. a + 1 <= c
            BY <5>1
          <5>3. QED
            BY <5>2 DEF a, c
        <4>3. QED
          BY <3>1, <3>2, <4>2
    <2>4. Piece(r, Len(r.sent) + 1).id \in Nat
      BY <2>1 DEF Piece
    <2>5. /\ Len(f.sent) = Len(r.sent) + 1
          /\ \A i \in 1 .. Len(f.sent) : f.sent[i] = Piece(r, i).id
      <3> DEFINE x == Piece(r, Len(r.sent) + 1).id
                 t == r.sent
      <3>1. f.sent = Append(t, x)
        BY <1>3, <2>3
      <3>2. \A i \in 1 .. Len(t) : t[i] = Piece(r, i).id
        BY DEF Sound
      <3>3. t \in Seq(Nat) /\ x \in Nat
        BY <2>1, <2>4
      <3>4. x = Piece(r, Len(t) + 1).id
        OBVIOUS
      <3> HIDE DEF x, t
      <3>5. /\ Len(Append(t, x)) = Len(t) + 1
            /\ \A i \in 1 .. Len(t) : Append(t, x)[i] = t[i]
            /\ Append(t, x)[Len(t) + 1] = x
        BY <3>3, AppendProperties
      <3>6. \A i \in 1 .. Len(t) + 1 : i \in 1 .. Len(t) \/ i = Len(t) + 1
        BY <3>3
      <3>7. QED
        BY <3>1, <3>2, <3>4, <3>5, <3>6 DEF t
    <2>6. /\ Count(f) = Count(r)
          /\ \A i : Piece(f, i) = Piece(r, i) /\ Load(f, i) = Load(r, i)
      BY <1>1 DEF Count, Piece, Load
    <2>7. Flown(f) = Flown(r)
      BY <1>3, <2>1, <2>2, <2>5 DEF Flown
    <2>8. Queued(f)
      BY <1>1, <1>3, <2>2, <2>6, <2>7 DEF Queued
    <2>9. ~r.reading_response
      BY <1>3 DEF Sound, Uploaded
    <2>10. Sound(f)
      BY <1>1, <2>3, <2>5, <2>6, <2>8, <2>9 DEF Sound
    <2>11. Upload(f, st)
      BY <1>1, <1>3, <2>10 DEF Upload
    <2>12. QED
      BY <2>11 DEF f
  <1>4. QED
    BY <1>1, <1>2, <1>3

\* Outside of process_buffer().
LEMMA Apart ==
  /\ \A st : Outer(st) \/ Waiting(st) =>
       /\ Stack(st) /\ ~Heading(st) /\ ~Bodying(st) /\ ~Emitting(st)
       /\ ~Inside(st)
  /\ \A st : Outer(st) => ~Waiting(st)
  /\ \A st : Waiting(st) => st # <<>>
  BY DEF Outer, Waiting, Stack, Heading, Bodying, Emitting, Inside

\* begin_response_read() once everything is on the wire.
LEMMA BeginReadIs ==
  ASSUME NEW r \in Request, NEW rest, Upload(r, rest), rest # <<"written">>,
         r.headers_written, r.upload_writes = <<>>, ~r.upload_writing,
         r.upload_ended \/ r.upload_mode = "none",
         BeginResponseRead(r, rest)
  PROVE  /\ q' \in Request /\ Aside(r, q') /\ Upload(q', todo')
         /\ todo' = rest \/ (Waiting(todo') /\ Outer(rest) /\ ~r.completed)
  <1> DEFINE z == [r EXCEPT !.reading_response = TRUE]
  <1>1. CASE r.completed \/ r.reading_response
    <2>1. q' = r /\ todo' = rest
      BY <1>1 DEF BeginResponseRead
    <2>2. QED
      BY <2>1, AsideSelf
  <1>2. CASE ~(r.completed \/ r.reading_response)
    <2>1. q' = z /\ todo' = <<"reading">> \o rest
      BY <1>2 DEF BeginResponseRead
    <2>2. z \in Request
      BY ZenonT(60) DEF Request
    <2>3. Aside(r, z)
      BY DEF Request, Aside, SameResponse, SameEnd, SameWay
    <2>4. /\ z.upload_mode = r.upload_mode
          /\ z.content_length = r.content_length
          /\ z.accepted = r.accepted /\ z.upload_writes = r.upload_writes
          /\ z.pending_bytes = r.pending_bytes /\ z.sent = r.sent
          /\ z.upload_writing <=> r.upload_writing
          /\ z.upload_ended <=> r.upload_ended
          /\ z.backpressured <=> r.backpressured
          /\ z.headers_started <=> r.headers_started
          /\ z.headers_written <=> r.headers_written
          /\ z.completed <=> r.completed
          /\ z.reading_response
      BY DEF Request
    <2> HIDE DEF z
    <2>5. /\ Count(z) = Count(r) /\ Flown(z) = Flown(r)
          /\ \A i : Piece(z, i) = Piece(r, i) /\ Load(z, i) = Load(r, i)
      BY <2>4 DEF Count, Flown, Piece, Load
    <2>6. Queued(r) /\ Queued(z)
      BY <1>2, <2>4, <2>5 DEF Upload, Sound, Queued
    <2>7. Len(r.sent) \in Nat /\ Count(r) \in Nat
      BY DEF Request, Count
    <2>8. Len(r.sent) = Count(r)
      <3>1. Flown(r) = Len(r.sent)
        BY <2>7 DEF Flown
      <3>2. Len(r.upload_writes) = 0
        OBVIOUS
      <3>3. QED
        BY <2>6, <2>7, <3>1, <3>2 DEF Queued
    <2>9. Uploaded(z)
      BY <2>4, <2>5, <2>8 DEF Uploaded
    <2>10. rest \in {<<>>, <<"drain", "written">>} /\ Outer(rest)
      BY <1>2 DEF Upload, Outer
    <2>11. /\ <<"reading">> \o <<>> = <<"reading">>
           /\ <<"reading">> \o <<"drain", "written">> =
                <<"reading", "drain", "written">>
      BY Stacked
    <2>12. todo' \in {<<"reading">>, <<"reading", "drain", "written">>}
      BY <2>1, <2>10, <2>11
    <2>13. Upload(z, todo')
      BY <2>4, <2>5, <2>6, <2>9 DEF Upload, Sound
    <2>14. Waiting(todo')
      BY <2>12 DEF Waiting
    <2>15. QED
      BY <1>2, <2>1, <2>2, <2>3, <2>10, <2>13, <2>14
  <1>3. QED
    BY <1>1, <1>2

\* What the types say of an upload.
LEMMA RequestTyped ==
  ASSUME NEW r \in Request
  PROVE  /\ r.upload_writes \in Seq([id : Nat, size : Nat])
         /\ Len(r.upload_writes) \in Nat
         /\ r.sent \in Seq(Nat) /\ Len(r.sent) \in Nat
         /\ r.accepted \in Nat /\ r.content_length \in Nat
         /\ r.pending_bytes \in Nat /\ Count(r) \in Nat
         /\ r.upload_mode \in {"none", "content_length", "chunked"}
         /\ MaxWrites \in Nat /\ MaxPending \in Nat
  <1>1. /\ r.upload_writes \in Seq([id : Nat, size : Nat])
        /\ r.sent \in Seq(Nat) /\ r.accepted \in Nat
        /\ r.content_length \in Nat /\ r.pending_bytes \in Nat
        /\ r.upload_mode \in {"none", "content_length", "chunked"}
    BY DEF Request
  <1>2. MaxWrites \in Nat /\ MaxPending \in Nat
    BY StreamingAssumption
  <1>3. \A S : \A t \in Seq(S) : Len(t) \in Nat
    OBVIOUS
  <1>4. Count(r) \in Nat
    BY <1>1 DEF Count
  <1>5. QED
    BY <1>1, <1>2, <1>3, <1>4

\* One more write joins the queue.
LEMMA GrowSound ==
  ASSUME NEW a \in Request, NEW b \in Request, Sound(a),
         ~a.completed, ~b.completed, ~b.reading_response,
         NEW w \in [id : Nat, size : Nat],
         b.upload_writes = Append(a.upload_writes, w),
         b.pending_bytes = a.pending_bytes + w.size, b.sent = a.sent,
         b.upload_writing <=> a.upload_writing,
         b.backpressured <=> a.backpressured,
         b.headers_started <=> a.headers_started,
         b.headers_written <=> a.headers_written,
         Count(b) = Count(a) + 1, w = Piece(b, Count(b)),
         \A i \in 1 .. Count(a) : Piece(b, i) = Piece(a, i),
         Load(b, Len(a.upload_writes) + 1) =
           Load(a, Len(a.upload_writes)) + w.size,
         b.accepted <= IF b.upload_mode = "content_length"
                       THEN b.content_length ELSE MaxWrites,
         b.upload_mode = "content_length" /\ b.upload_ended =>
           b.accepted = b.content_length,
         b.upload_mode = "none" => b.accepted = 0
  PROVE  Sound(b)
  <1> DEFINE old == a.upload_writes
             new == b.upload_writes
             k == Len(old)
             f == Flown(a)
             t == Count(a)
             W == [id : Nat, size : Nat]
  <1>1. /\ old \in Seq(W) /\ new = Append(old, w) /\ w \in W /\ k \in Nat
        /\ a.sent \in Seq(Nat) /\ Len(a.sent) \in Nat
        /\ t \in Nat /\ MaxPending \in Nat
        /\ a.pending_bytes \in Nat
    BY RequestTyped
  <1>2. Queued(a)
    BY DEF Sound
  <1>3. f \in Nat /\ f + k = t /\ Flown(b) = f
    BY <1>2 DEF Queued, Flown
  <1>4. /\ Len(new) = k + 1 /\ new[k + 1] = w
        /\ \A i \in 1 .. k : new[i] = old[i]
    <2> HIDE DEF old, new, W, k
    <2>1. QED
      BY <1>1, AppendProperties DEF k
  <1>5. \A i \in 1 .. k : old[i] = Piece(a, f + i)
    BY <1>2 DEF Queued
  <1>6. w.size \in Nat
    OBVIOUS
  <1> HIDE DEF old, new, k, f, t, W
  <1>7. \A i \in 1 .. k : f + i \in 1 .. t
    BY <1>1, <1>3
  <1>8. \A i \in 1 .. k + 1 : new[i] = Piece(b, f + i)
    <2>1. \A i \in 1 .. k : Piece(b, f + i) = Piece(a, f + i)
      BY <1>7 DEF t
    <2>2. f + (k + 1) = Count(b)
      BY <1>1, <1>3 DEF t
    <2>3. \A i \in 1 .. k + 1 : i \in 1 .. k \/ i = k + 1
      BY <1>1
    <2>4. QED
      BY <1>4, <1>5, <2>1, <2>2, <2>3
  <1>9. b.pending_bytes = Load(b, k + 1)
    BY <1>2, <1>4 DEF Queued, k, old
  <1>10. /\ b.upload_writing => new # <<>> /\ b.headers_written
         /\ b.backpressured => b.pending_bytes > MaxPending \div 2
    <2>1. new # <<>>
      BY <1>1, <1>4, SMTT(60)
    <2>2. a.backpressured => a.pending_bytes > MaxPending \div 2
      BY <1>2 DEF Queued
    <2>3. MaxPending \div 2 \in Nat
      BY <1>1
    <2>4. a.pending_bytes > MaxPending \div 2 =>
            a.pending_bytes + w.size > MaxPending \div 2
      BY <1>1, <1>6, <2>3
    <2>5. b.backpressured => b.pending_bytes > MaxPending \div 2
      BY <2>2, <2>4
    <2>6. QED
      BY <1>2, <2>1, <2>5 DEF Queued
  <1>11. f + (k + 1) = Count(b)
    BY <1>1, <1>3 DEF t
  <1>12. Queued(b)
    BY <1>3, <1>4, <1>8, <1>9, <1>10, <1>11 DEF Queued, new
  <1>13. /\ Len(b.sent) <= Count(b)
         /\ \A i \in 1 .. Len(b.sent) : b.sent[i] = Piece(b, i).id
    <2>1. /\ Len(a.sent) <= t
          /\ \A i \in 1 .. Len(a.sent) : a.sent[i] = Piece(a, i).id
      BY DEF Sound, t
    <2>2. \A i \in 1 .. Len(a.sent) : i \in 1 .. t
      BY <1>1, <2>1
    <2>3. Len(a.sent) <= t + 1
      BY <1>1, <2>1
    <2>4. QED
      BY <2>1, <2>2, <2>3 DEF t
  <1>14. QED
    BY <1>12, <1>13 DEF Sound

\* The writer is told to wait, or is not.
LEMMA PressUpload ==
  ASSUME NEW f \in Request, NEW st, Upload(f, st), NEW wait \in BOOLEAN,
         wait => f.pending_bytes > MaxPending \div 2
  PROVE  LET g == [f EXCEPT !.backpressured = wait]
         IN g \in Request /\ Aside(f, g) /\ Upload(g, st)
  <1> DEFINE g == [f EXCEPT !.backpressured = wait]
  <1>1. g \in Request
    BY ZenonT(60) DEF Request
  <1>2. SameResponse(f, g) /\ SameEnd(f, g) /\ SameWay(f, g)
    BY DEF Request, SameResponse, SameEnd, SameWay
  <1>3. /\ g.upload_mode = f.upload_mode
        /\ g.content_length = f.content_length
        /\ g.accepted = f.accepted /\ g.upload_writes = f.upload_writes
        /\ g.pending_bytes = f.pending_bytes /\ g.sent = f.sent
        /\ g.upload_writing <=> f.upload_writing
        /\ g.upload_ended <=> f.upload_ended
        /\ g.headers_started <=> f.headers_started
        /\ g.headers_written <=> f.headers_written
        /\ g.reading_response <=> f.reading_response
        /\ g.completed <=> f.completed
        /\ g.backpressured <=> wait
        /\ g.timer = f.timer
    BY DEF Request
  <1> HIDE DEF g
  <1>4. /\ Count(g) = Count(f) /\ Flown(g) = Flown(f)
        /\ \A i : Piece(g, i) = Piece(f, i) /\ Load(g, i) = Load(f, i)
    BY <1>3 DEF Count, Flown, Piece, Load
  <1>5. (Queued(f) => Queued(g)) /\ (Uploaded(f) => Uploaded(g))
    BY <1>3, <1>4 DEF Queued, Uploaded
  <1>6. Upload(g, st)
    BY <1>3, <1>4, <1>5 DEF Upload, Sound
  <1>7. Aside(f, g)
    BY <1>2, <1>3 DEF Aside
  <1>8. QED
    BY <1>1, <1>6, <1>7 DEF g

\* While the application runs, the stack is a callback's or empty.
LEMMA CallingIs ==
  ASSUME Stack(todo), Calling
  PROVE  /\ ~Bodying(todo) /\ ~Waiting(todo) /\ todo # <<"written">>
         /\ Unwinds(todo, todo)
         /\ Heading(todo) => Top = "headers"
  BY DEF Bodying, Calling, Callbacks, Top, Heading, Waiting, Unwinds

\* What is below it.
LEMMA TailIs ==
  /\ \A x : Tail(<<x>>) = <<>>
  /\ \A x, y : Tail(<<x, y>>) = <<y>>
  /\ \A x : <<x>> \o <<>> = <<x>>
  /\ \A x, y : <<x, y>> \o <<>> = <<x, y>>
  /\ <<>> \o <<>> = <<>>
  OBVIOUS

\* write() keeps the invariant.
LEMMA WriteInv ==
  ASSUME Inv, Write
  PROVE  Inv'
  <1> DEFINE mode == IF q.upload_mode = "none" THEN "chunked"
                                               ELSE q.upload_mode
             w == [id |-> q.accepted + 1, size |-> WireBytes(mode)]
             new == Append(q.upload_writes, w)
             bytes == q.pending_bytes + w.size
             more == q.accepted + 1
             z == [q EXCEPT !.upload_mode = mode, !.accepted = more,
                            !.upload_writes = new, !.pending_bytes = bytes]
             f == FlushUploadWrites(z)
             wait == MaxPending > 0 /\ f.pending_bytes >= MaxPending
  <1>1. /\ q.accepted < MaxWrites /\ ~Rejects(q) /\ q.pending # "new"
        /\ UNCHANGED <<net, todo, peer>>
        /\ q' = [f EXCEPT !.backpressured = wait]
    BY DEF Write, Push
  <1>2. q \in Request /\ Stack(todo) /\ Upload(q, todo) /\ Sound(q)
    BY DEF Inv, Types, Upload
  <1>3. /\ ~q.completed /\ ~q.upload_ended /\ ~q.backpressured
        /\ ~(q.upload_mode = "none" /\ q.headers_started)
        /\ q.upload_mode = "content_length" => ~(more > q.content_length)
    BY <1>1 DEF Rejects
  <1>4. /\ q.accepted \in Nat /\ q.content_length \in Nat
        /\ q.pending_bytes \in Nat
        /\ mode \in {"content_length", "chunked"} /\ w.size \in Nat
        /\ w \in [id : Nat, size : Nat] /\ bytes \in Nat /\ more \in Nat
        /\ MaxWrites \in Nat /\ MaxPending \in Nat
    <2>1. /\ q.accepted \in Nat /\ q.content_length \in Nat
          /\ q.pending_bytes \in Nat
          /\ q.upload_mode \in {"none", "content_length", "chunked"}
          /\ MaxWrites \in Nat /\ MaxPending \in Nat
      BY <1>2, RequestTyped
    <2>2. mode \in {"content_length", "chunked"} /\ WireBytes(mode) \in Nat
      BY <2>1 DEF WireBytes
    <2> HIDE DEF mode
    <2>3. QED
      BY <2>1, <2>2
  <1>5. new \in Seq([id : Nat, size : Nat])
    <2> DEFINE W == [id : Nat, size : Nat]
               old == q.upload_writes
    <2>1. old \in Seq(W) /\ w \in W
      BY <1>2, <1>4 DEF Request
    <2> HIDE DEF W, old, w
    <2>2. Append(old, w) \in Seq(W)
      BY <2>1
    <2>3. QED
      BY <2>2 DEF W, old
  <1>6. z \in Request
    <2> HIDE DEF mode, new, bytes, more
    <2>1. QED
      BY <1>2, <1>4, <1>5, ZenonT(60) DEF Request
  <1>7. SameResponse(q, z) /\ SameEnd(q, z) /\ SameWay(q, z)
    <2> HIDE DEF mode, new, bytes, more
    <2>1. QED
      BY <1>2 DEF Request, SameResponse, SameEnd, SameWay
  <1>8. /\ z.upload_mode = mode /\ z.content_length = q.content_length
        /\ z.accepted = more /\ z.upload_writes = new
        /\ z.pending_bytes = bytes /\ z.sent = q.sent
        /\ z.upload_writing <=> q.upload_writing
        /\ z.upload_ended <=> q.upload_ended
        /\ z.backpressured <=> q.backpressured
        /\ z.headers_started <=> q.headers_started
        /\ z.headers_written <=> q.headers_written
        /\ z.reading_response <=> q.reading_response
        /\ z.completed <=> q.completed
        /\ z.timer = q.timer
    <2> HIDE DEF mode, new, bytes, more
    <2>1. QED
      BY <1>2 DEF Request
  <1> HIDE DEF z
  <1>9. ~q.reading_response
    BY <1>2, <1>3 DEF Sound, Uploaded
  <1>10. Count(q) = q.accepted /\ Count(z) = more
    BY <1>3, <1>4, <1>8 DEF Count
  <1>11. w = Piece(z, Count(z))
    BY <1>4, <1>8, <1>10 DEF Piece
  <1>12. q.upload_mode = "none" =>
           /\ q.accepted = 0 /\ Len(q.upload_writes) = 0
    <2> DEFINE k == Len(q.upload_writes)
    <2>1. k \in Nat
      BY <1>2 DEF Request
    <2>2. Flown(q) \in Nat /\ Flown(q) + k = q.accepted
      BY <1>2, <1>3, <1>10 DEF Sound, Queued
    <2>3. q.upload_mode = "none" => q.accepted = 0
      BY <1>2 DEF Sound
    <2> HIDE DEF k
    <2>4. q.accepted = 0 => k = 0
      BY <2>1, <2>2
    <2>5. QED
      BY <2>3, <2>4 DEF k
  <1>13. \A i \in 1 .. Count(q) : Piece(z, i) = Piece(q, i)
    <2>1. \A i \in 1 .. q.accepted : i <= q.accepted /\ i <= more
      BY <1>4
    <2>2. CASE q.upload_mode = "none"
      BY <1>10, <1>12, <2>2
    <2>3. CASE q.upload_mode # "none"
      BY <1>8, <1>10, <2>1, <2>3 DEF Piece
    <2>4. QED
      BY <2>2, <2>3
  <1>14. Load(z, Len(q.upload_writes) + 1) =
           Load(q, Len(q.upload_writes)) + w.size
    <2> DEFINE k == Len(q.upload_writes)
    <2>1. k \in Nat
      BY <1>2 DEF Request
    <2>2. q.upload_mode = "none" => k = 0
      BY <1>12
    <2> HIDE DEF k
    <2>3. Load(z, k + 1) = Load(q, k) + WireBytes(mode)
      BY <1>2, <1>3, <1>8, <2>1, <2>2, SMTT(60) DEF Load, WireBytes, Request
    <2>4. QED
      BY <2>3 DEF k
  <1>15. /\ z.accepted <= IF z.upload_mode = "content_length"
                          THEN z.content_length ELSE MaxWrites
         /\ z.upload_mode = "content_length" /\ z.upload_ended =>
              z.accepted = z.content_length
         /\ z.upload_mode = "none" => z.accepted = 0
    BY <1>1, <1>3, <1>4, <1>8
  <1>16. Sound(z)
    <2> HIDE DEF mode, new, w, bytes
    <2>1. new = Append(q.upload_writes, w) /\ bytes = q.pending_bytes + w.size
      BY DEF new, bytes
    <2>2. Count(z) = Count(q) + 1
      BY <1>10
    <2>3. QED
      BY <1>2, <1>3, <1>4, <1>6, <1>8, <1>9, <1>11, <1>13, <1>14, <1>15,
         <2>1, <2>2, GrowSound
  <1>17. f \in Request /\ Aside(z, f) /\ f.pending_bytes \in Nat
    <2>1. f \in Request /\ Aside(z, f)
      BY <1>6, FlushIs
    <2> HIDE DEF f
    <2>2. QED
      BY <2>1 DEF Request
  <1>18. Upload(f, todo)
    <2>1. /\ Written(todo) => z.headers_written
          /\ Outer(todo) \/ z.reading_response
      BY <1>2, <1>8 DEF Upload
    <2>2. QED
      BY <1>6, <1>16, <2>1, FlushSound
  <1> HIDE DEF f
  <1>19. wait \in BOOLEAN /\ (wait => f.pending_bytes > MaxPending \div 2)
    BY <1>4, <1>17
  <1> HIDE DEF wait
  <1> DEFINE g == [f EXCEPT !.backpressured = wait]
  <1>20. g \in Request /\ Aside(f, g) /\ Upload(g, todo)
    BY <1>17, <1>18, <1>19, PressUpload
  <1>21. Aside(q, z)
    BY <1>7, <1>8 DEF Aside
  <1>22. q' = g
    BY <1>1
  <1> HIDE DEF g
  <1>23. Aside(q, g)
    BY <1>17, <1>20, <1>21, AsideTrans
  <1>24. (todo # <<>> => q.headers_started) /\ Safe(q, todo)
    BY DEF Inv, Connection
  <1>25. QED
    BY <1>1, <1>2, <1>20, <1>22, <1>23, <1>24, UploadStep

\* end() with every piece taken: the upload is sound, the last chunk queued.
LEMMA EndedSound ==
  ASSUME NEW r \in Request, Sound(r), ~r.completed, ~r.upload_ended,
         r.upload_mode = "content_length" => r.accepted = r.content_length
  PROVE  LET last == IF r.upload_mode = "chunked" THEN Push(r, LastChunk)
                                                  ELSE r
             z == [last EXCEPT !.upload_ended = TRUE]
         IN /\ z \in Request /\ Aside(r, z) /\ Sound(z) /\ z.upload_ended
            /\ z.headers_written <=> r.headers_written
            /\ z.reading_response <=> r.reading_response
  <1> DEFINE last == IF r.upload_mode = "chunked" THEN Push(r, LastChunk)
                                                  ELSE r
             y == [last EXCEPT !.upload_ended = TRUE]
  <1>1. CASE r.upload_mode # "chunked"
    <2> DEFINE z == [r EXCEPT !.upload_ended = TRUE]
    <2>1. y = z
      BY <1>1
    <2>2. z \in Request
      BY ZenonT(60) DEF Request
    <2>3. /\ SameResponse(r, z) /\ SameEnd(r, z) /\ SameWay(r, z)
          /\ z.timer = r.timer
      BY DEF Request, SameResponse, SameEnd, SameWay
    <2>4. /\ z.upload_mode = r.upload_mode
          /\ z.content_length = r.content_length
          /\ z.accepted = r.accepted /\ z.upload_writes = r.upload_writes
          /\ z.pending_bytes = r.pending_bytes /\ z.sent = r.sent
          /\ z.upload_writing <=> r.upload_writing
          /\ z.backpressured <=> r.backpressured
          /\ z.headers_started <=> r.headers_started
          /\ z.headers_written <=> r.headers_written
          /\ z.reading_response <=> r.reading_response
          /\ z.completed <=> r.completed
          /\ z.upload_ended
      BY DEF Request
    <2> HIDE DEF z, y
    <2>5. /\ Count(z) = Count(r) /\ Flown(z) = Flown(r)
          /\ \A i : Piece(z, i) = Piece(r, i) /\ Load(z, i) = Load(r, i)
      BY <1>1, <2>4 DEF Count, Flown, Piece, Load
    <2>6. (Queued(r) => Queued(z)) /\ (Uploaded(r) => Uploaded(z))
      BY <2>4, <2>5 DEF Queued, Uploaded
    <2>7. Sound(z)
      BY <2>4, <2>5, <2>6 DEF Sound
    <2>8. Aside(r, z)
      BY <2>3 DEF Aside
    <2>9. QED
      BY <2>1, <2>2, <2>4, <2>7, <2>8 DEF y
  <1>2. CASE r.upload_mode = "chunked"
    <2> DEFINE w == LastChunk
               new == Append(r.upload_writes, w)
               bytes == r.pending_bytes + w.size
               z == [r EXCEPT !.upload_writes = new, !.pending_bytes = bytes,
                              !.upload_ended = TRUE]
    <2>1. y = z
      BY <1>2 DEF Push
    <2>2. /\ w \in [id : Nat, size : Nat] /\ w.size = 1 /\ w.id = 0
          /\ w = [id |-> 0, size |-> 1]
      BY DEF LastChunk
    <2>3. /\ r.upload_writes \in Seq([id : Nat, size : Nat])
          /\ Len(r.upload_writes) \in Nat
          /\ r.accepted \in Nat /\ r.pending_bytes \in Nat
      BY RequestTyped
    <2>4. bytes \in Nat
      BY <2>2, <2>3
    <2>5. new \in Seq([id : Nat, size : Nat])
      <3> DEFINE W == [id : Nat, size : Nat]
                 old == r.upload_writes
      <3>1. old \in Seq(W) /\ w \in W
        BY <2>2, <2>3
      <3> HIDE DEF W, old, w
      <3>2. Append(old, w) \in Seq(W)
        BY <3>1
      <3>3. QED
        BY <3>2 DEF W, old
    <2> HIDE DEF w, new, bytes, y
    <2>6. z \in Request
      BY <2>4, <2>5, ZenonT(60) DEF Request
    <2>7. /\ SameResponse(r, z) /\ SameEnd(r, z) /\ SameWay(r, z)
          /\ z.timer = r.timer
      BY DEF Request, SameResponse, SameEnd, SameWay
    <2>8. /\ z.upload_mode = r.upload_mode
          /\ z.content_length = r.content_length
          /\ z.accepted = r.accepted /\ z.upload_writes = new
          /\ z.pending_bytes = bytes /\ z.sent = r.sent
          /\ z.upload_writing <=> r.upload_writing
          /\ z.backpressured <=> r.backpressured
          /\ z.headers_started <=> r.headers_started
          /\ z.headers_written <=> r.headers_written
          /\ z.reading_response <=> r.reading_response
          /\ z.completed <=> r.completed
          /\ z.upload_ended
      BY DEF Request
    <2> HIDE DEF z
    <2>9. ~r.reading_response
      BY <1>2 DEF Sound, Uploaded
    <2>10. Count(r) = r.accepted /\ Count(z) = r.accepted + 1
      BY <1>2, <2>3, <2>8 DEF Count
    <2>11. w = Piece(z, Count(z))
      BY <2>2, <2>3, <2>8, <2>10 DEF Piece
    <2>12. \A i \in 1 .. Count(r) : Piece(z, i) = Piece(r, i)
      BY <2>8 DEF Piece
    <2>13. Load(z, Len(r.upload_writes) + 1) =
             Load(r, Len(r.upload_writes)) + w.size
      <3> DEFINE k == Len(r.upload_writes)
      <3>1. k \in Nat
        BY <2>3
      <3> HIDE DEF k
      <3>2. Load(z, k + 1) = Load(r, k) + 1
        BY <1>2, <2>8, <3>1 DEF Load
      <3>3. QED
        BY <2>2, <3>2 DEF k
    <2>14. /\ z.accepted <= IF z.upload_mode = "content_length"
                            THEN z.content_length ELSE MaxWrites
           /\ z.upload_mode = "content_length" /\ z.upload_ended =>
                z.accepted = z.content_length
           /\ z.upload_mode = "none" => z.accepted = 0
      BY <1>2, <2>8 DEF Sound
    <2>15. /\ new = Append(r.upload_writes, w)
           /\ bytes = r.pending_bytes + w.size
           /\ Count(z) = Count(r) + 1
      BY <2>10 DEF new, bytes
    <2>16. Sound(z)
      BY <2>2, <2>6, <2>8, <2>9, <2>11, <2>12, <2>13, <2>14, <2>15, GrowSound
    <2>17. Aside(r, z)
      BY <2>7 DEF Aside
    <2>18. QED
      BY <2>1, <2>6, <2>8, <2>16, <2>17 DEF y
  <1>3. QED
    BY <1>1, <1>2

\* What end() and on_request_headers_written() do with a sound upload.
LEMMA FlushThenRead ==
  ASSUME NEW z \in Request, Sound(z), NEW st, Written(st) => z.headers_written,
         Outer(st) \/ z.reading_response, st # <<"written">>,
         z.upload_ended \/ z.upload_mode = "none",
         LET r == FlushUploadWrites(z)
         IN IF /\ r.headers_written /\ r.upload_writes = <<>>
               /\ ~r.upload_writing
            THEN BeginResponseRead(r, st) ELSE q' = r /\ todo' = st
  PROVE  /\ q' \in Request /\ Aside(z, q') /\ Upload(q', todo')
         /\ todo' = st \/ (Waiting(todo') /\ Outer(st) /\ ~z.completed)
  <1> DEFINE r == FlushUploadWrites(z)
  <1>1. r \in Request /\ Aside(z, r) /\ r.upload_mode = z.upload_mode
        /\ (r.upload_ended <=> z.upload_ended)
    BY FlushIs
  <1>2. Upload(r, st)
    BY FlushSound
  <1>3. IF r.headers_written /\ r.upload_writes = <<>> /\ ~r.upload_writing
        THEN BeginResponseRead(r, st) ELSE q' = r /\ todo' = st
    OBVIOUS
  <1> HIDE DEF r
  <1>4. r.completed <=> z.completed
    BY <1>1 DEF Aside, SameEnd
  <1>5. CASE r.headers_written /\ r.upload_writes = <<>> /\ ~r.upload_writing
    <2>1. /\ q' \in Request /\ Aside(r, q') /\ Upload(q', todo')
          /\ todo' = st \/ (Waiting(todo') /\ Outer(st) /\ ~r.completed)
      BY <1>1, <1>2, <1>3, <1>5, BeginReadIs
    <2>2. QED
      BY <1>1, <1>4, <2>1, AsideTrans
  <1>6. CASE ~(r.headers_written /\ r.upload_writes = <<>>
               /\ ~r.upload_writing)
    BY <1>1, <1>2, <1>3, <1>6
  <1>7. QED
    BY <1>5, <1>6

\* A step of the upload in which the response may begin to be read.
LEMMA ReadStep ==
  ASSUME Types, NEW a, Response(a, peer, todo), Connection(a, net, todo),
         q' \in Request, Aside(a, q'), Upload(q', todo'),
         a.headers_started, NEW rest, Outer(rest), Outer(todo),
         todo' = rest \/ (Waiting(todo') /\ ~a.completed),
         net' = net, peer' = peer
  PROVE  Inv'
  <1>1. /\ ~Heading(todo) /\ ~Heading(todo') /\ ~Bodying(todo')
        /\ ~Emitting(todo') /\ ~Inside(todo') /\ Stack(todo')
        /\ Waiting(todo') => ~a.completed
    BY Apart
  <1>2. Safe(a, todo')
    BY <1>1 DEF Safe
  <1>3. QED
    BY <1>1, <1>2, UploadStepFrom

\* end() keeps the invariant.
LEMMA EndInv ==
  ASSUME Inv, End
  PROVE  Inv'
  <1>1. /\ Calling /\ q.pending # "new" /\ ~q.completed /\ ~q.upload_ended
        /\ peer' = peer
    BY DEF End
  <1>2. q \in Request /\ Stack(todo) /\ Upload(q, todo) /\ Sound(q)
    BY DEF Inv, Types, Upload
  <1>3. CASE q.upload_mode = "content_length" /\ q.accepted # q.content_length
    <2> DEFINE z == [q EXCEPT !.ended_in_headers = Top = "headers"]
    <2>1. /\ q' = FailRequestBody(z, net).r /\ net' = FailRequestBody(z, net).n
          /\ todo' = todo
      BY <1>3 DEF End, Becomes
    <2>2. z \in Request
      BY <1>2, ZenonT(60) DEF Request
    <2>3. /\ SameResponse(q, z) /\ SameWay(q, z) /\ SameUpload(q, z)
          /\ z.ended_in_headers <=> Top = "headers"
          /\ ~z.completed
      BY <1>1, <1>2, ZenonT(60) DEF Request, SameResponse, SameWay, SameUpload
    <2> HIDE DEF z
    <2>4. Stops(q, z)
      BY <2>3, Stopped
    <2>5. /\ Unwinds(todo, todo') /\ (Heading(todo') => z.ended_in_headers)
          /\ ~Waiting(todo')
      BY <1>1, <1>2, <2>1, <2>3, CallingIs
    <2>6. Inside(todo') => q.secure
      BY <2>1 DEF Inv, Connection, Safe
    <2>7. QED
      BY <1>1, <2>1, <2>2, <2>3, <2>4, <2>5, <2>6, FailStep
  <1>4. CASE ~(q.upload_mode = "content_length"
               /\ q.accepted # q.content_length)
    <2> DEFINE last == IF q.upload_mode = "chunked" THEN Push(q, LastChunk)
                                                    ELSE q
               z == [last EXCEPT !.upload_ended = TRUE]
               r == FlushUploadWrites(z)
    <2>1. /\ z \in Request /\ Aside(q, z) /\ Sound(z) /\ z.upload_ended
          /\ z.headers_written <=> q.headers_written
          /\ z.reading_response <=> q.reading_response
      BY <1>1, <1>2, <1>4, EndedSound
    <2>2. /\ IF /\ r.headers_written /\ r.upload_writes = <<>>
                /\ ~r.upload_writing
             THEN BeginResponseRead(r, todo) ELSE q' = r /\ todo' = todo
          /\ net' = net
      BY <1>4 DEF End
    <2> HIDE DEF z
    <2>3. /\ Written(todo) => z.headers_written
          /\ Outer(todo) \/ z.reading_response
          /\ todo # <<"written">>
      BY <1>1, <1>2, <2>1, CallingIs DEF Upload
    <2>4. /\ q' \in Request /\ Aside(z, q') /\ Upload(q', todo')
          /\ todo' = todo \/ (Waiting(todo') /\ Outer(todo) /\ ~z.completed)
      BY <2>1, <2>2, <2>3, FlushThenRead
    <2>5. Aside(q, q') /\ (z.completed <=> q.completed)
      BY <2>1, <2>4, AsideTrans DEF Aside, SameEnd
    <2>6. (todo # <<>> => q.headers_started) /\ Safe(q, todo)
      BY DEF Inv, Connection
    <2>7. CASE todo' = todo
      BY <1>1, <1>2, <2>2, <2>4, <2>5, <2>6, <2>7, UploadStep
    <2>8. CASE todo' # todo
      <3>1. q'.reading_response /\ q'.headers_started
        <4>1. ~Outer(todo')
          BY <2>4, <2>8, Apart
        <4>2. QED
          BY <2>4, <4>1 DEF Upload, Sound, Uploaded
      <3>2. q.headers_started
        BY <2>5, <3>1 DEF Aside, SameWay
      <3>3. QED
        BY <1>1, <2>2, <2>4, <2>5, <2>8, <3>2, ReadStep DEF Inv
    <2>9. QED
      BY <2>7, <2>8
  <1>5. QED
    BY <1>3, <1>4

\* on_request_headers_written() keeps the invariant.
LEMMA OnRequestHeadersWrittenInv ==
  ASSUME Inv, OnRequestHeadersWritten
  PROVE  Inv'
  <1>1. /\ todo = <<>> /\ q.pending = "headers" /\ ~q.completed
        /\ peer' = peer
    BY DEF OnRequestHeadersWritten, Live, Idle
  <1>2. /\ q \in Request /\ net \in Net /\ Types /\ Stack(todo)
        /\ Upload(q, todo) /\ Sound(q) /\ Response(q, peer, todo)
        /\ Connection(q, net, todo) /\ q.headers_started
    BY <1>1 DEF Inv, Types, Upload, Connection
  <1>3. /\ ~Heading(todo) /\ ~Written(todo) /\ ~Inside(todo)
        /\ ~Waiting(todo) /\ Outer(todo) /\ Unwinds(todo, todo)
        /\ \A x : Safe(x, todo)
    BY <1>1, Empty
  <1>4. CASE /\ Becomes(Complete([q EXCEPT !.pending = "none"], net, "left"))
             /\ todo' = todo
    <2> DEFINE z == [q EXCEPT !.pending = "none"]
    <2>1. z \in Request
      BY <1>2, ZenonT(60) DEF Request
    <2>2. /\ SameResponse(q, z) /\ SameUpload(q, z) /\ ~z.completed
          /\ z.pending = "none"
          /\ z.late <=> q.late
          /\ z.headers_started <=> q.headers_started
      BY <1>1, <1>2 DEF Request, SameResponse, SameUpload
    <2> HIDE DEF z
    <2>3. /\ SameUpload(z, Complete(z, net, "left").r)
          /\ Complete(z, net, "left").r.completed
          /\ Complete(z, net, "left").n = net
      BY <2>1, CompleteIs
    <2>4. Upload(Complete(z, net, "left").r, todo)
      BY <1>2, <2>2, <2>3, Stopped, SameStops, UploadStops
    <2>5. q' = Complete(z, net, "left").r /\ net' = net
      BY <1>4, <2>3 DEF Becomes, z
    <2>6. QED
      BY <1>1, <1>2, <1>3, <1>4, <2>1, <2>2, <2>4, <2>5, EndStep
  <1> DEFINE r == [q EXCEPT !.pending = "none", !.headers_written = TRUE]
             all == /\ r.upload_mode = "none" \/ r.upload_ended
                    /\ r.upload_writes = <<>> /\ ~r.upload_writing
  <1>5. CASE /\ IF all THEN BeginResponseRead(r, todo)
                ELSE q' = FlushUploadWrites(r) /\ todo' = todo
             /\ net' = net
    <2>1. r \in Request
      BY <1>2, ZenonT(60) DEF Request
    <2>2. SameResponse(q, r) /\ SameEnd(q, r)
      BY <1>2 DEF Request, SameResponse, SameEnd
    <2>3. /\ r.pending = "none" /\ r.stream = q.stream /\ r.lower = q.lower
          /\ r.timer = q.timer
          /\ r.late <=> q.late
          /\ r.headers_started <=> q.headers_started
          /\ r.completed <=> q.completed
          /\ r.ended_in_headers <=> q.ended_in_headers
      BY <1>2 DEF Request
    <2>4. /\ r.upload_mode = q.upload_mode
          /\ r.content_length = q.content_length
          /\ r.accepted = q.accepted /\ r.upload_writes = q.upload_writes
          /\ r.pending_bytes = q.pending_bytes /\ r.sent = q.sent
          /\ r.upload_writing <=> q.upload_writing
          /\ r.upload_ended <=> q.upload_ended
          /\ r.backpressured <=> q.backpressured
          /\ r.reading_response <=> q.reading_response
          /\ r.headers_written
      BY <1>2 DEF Request
    <2> HIDE DEF r
    <2>5. Response(r, peer, todo)
      BY <1>2, <2>2, ResponseKept
    <2>6. Connection(r, net, todo)
      <3>1. Place(q, net) /\ q.lower = NoStream /\ Mine(net, q.stream)
        BY <1>1, <1>2 DEF Connection, Place
      <3>2. Place(r, net)
        BY <2>3, <3>1 DEF Place
      <3>3. QED
        BY <1>1, <1>2, <1>3, <2>3, <3>2 DEF Connection
    <2>7. /\ Count(r) = Count(q) /\ Flown(r) = Flown(q)
          /\ \A i : Piece(r, i) = Piece(q, i) /\ Load(r, i) = Load(q, i)
      BY <2>4 DEF Count, Flown, Piece, Load
    <2>8. (Queued(q) => Queued(r)) /\ (Uploaded(q) => Uploaded(r))
      BY <2>4, <2>7 DEF Queued, Uploaded
    <2>9. Sound(r)
      BY <1>1, <1>2, <2>3, <2>4, <2>7, <2>8 DEF Sound
    <2>10. /\ q' \in Request /\ Aside(r, q') /\ Upload(q', todo')
           /\ todo' = todo \/ (Waiting(todo') /\ ~r.completed)
      <3>1. CASE all
        <4>1. Upload(r, todo)
          BY <1>3, <2>9, <3>1 DEF Upload
        <4>2. BeginResponseRead(r, todo) /\ todo # <<"written">>
          BY <1>1, <1>5, <3>1
        <4>3. QED
          BY <2>1, <2>4, <3>1, <4>1, <4>2, BeginReadIs
      <3>2. CASE ~all
        <4>1. q' = FlushUploadWrites(r) /\ todo' = todo
          BY <1>5, <3>2
        <4>2. FlushUploadWrites(r) \in Request
              /\ Aside(r, FlushUploadWrites(r))
          BY <2>1, FlushIs
        <4>3. Upload(FlushUploadWrites(r), todo)
          BY <1>3, <2>1, <2>9, FlushSound
        <4>4. QED
          BY <4>1, <4>2, <4>3
      <3>3. QED
        BY <3>1, <3>2
    <2>11. r.headers_started
      BY <1>2, <2>3
    <2>12. QED
      BY <1>1, <1>2, <1>3, <1>5, <2>5, <2>6, <2>10, <2>11, ReadStep
  <1>6. QED
    BY <1>4, <1>5 DEF OnRequestHeadersWritten

\* The bytes left when the first of so many writes is done.
LEMMA LoadOfTail ==
  ASSUME NEW r \in Request, Queued(r), r.upload_writes # <<>>
  PROVE  LET k == Len(r.upload_writes)
         IN /\ k \in Nat \ {0} /\ Load(r, k - 1) \in Nat
            /\ Head(r.upload_writes).size \in Nat
            /\ Load(r, k) = Load(r, k - 1) + Head(r.upload_writes).size
  <1> DEFINE w == r.upload_writes
             k == Len(w)
             f == Flown(r)
             x == Head(w)
             W == [id : Nat, size : Nat]
  <1>1. w \in Seq(W) /\ w # <<>> /\ r.accepted \in Nat
    BY RequestTyped
  <1>2. f \in Nat /\ f + k = Count(r)
    BY DEF Queued
  <1>3. \A i \in 1 .. k : w[i] = Piece(r, f + i)
    BY DEF Queued
  <1> HIDE DEF w, W, f
  <1>4. k \in Nat \ {0} /\ x = w[1] /\ 1 \in 1 .. k
    BY <1>1
  <1>5. x = Piece(r, f + 1)
    BY <1>3, <1>4
  <1>6. x.size = IF f + 1 <= r.accepted THEN WireBytes(r.upload_mode) ELSE 1
    BY <1>5 DEF Piece
  <1> HIDE DEF k, x
  <1>7. /\ Load(r, k - 1) \in Nat /\ x.size \in Nat
        /\ Load(r, k) = Load(r, k - 1) + x.size
    <2>1. CASE r.upload_mode # "chunked"
      <3>1. Count(r) = r.accepted
        BY <1>1, <2>1 DEF Count
      <3>2. f + 1 <= r.accepted /\ k - 1 \in Nat
        BY <1>1, <1>2, <1>4, <3>1
      <3>3. x.size = 1
        BY <1>6, <2>1 DEF WireBytes
      <3>4. QED
        BY <1>4, <2>1, <3>2, <3>3 DEF Load
    <2>2. CASE r.upload_mode = "chunked" /\ ~r.upload_ended
      <3>1. Count(r) = r.accepted
        BY <1>1, <2>2 DEF Count
      <3>2. f + 1 <= r.accepted
        BY <1>1, <1>2, <1>4, <3>1
      <3>3. x.size = 2
        BY <1>6, <2>2, <3>2 DEF WireBytes
      <3>4. QED
        BY <1>4, <2>2, <3>3 DEF Load
    <2>3. CASE r.upload_mode = "chunked" /\ r.upload_ended
      <3>1. f + k = r.accepted + 1
        BY <1>1, <1>2, <2>3 DEF Count
      <3>2. CASE k = 1
        <4>1. ~(f + 1 <= r.accepted)
          BY <1>1, <1>2, <3>1, <3>2
        <4>2. x.size = 1
          BY <1>6, <4>1
        <4>3. QED
          BY <2>3, <3>2, <4>2 DEF Load
      <3>3. CASE k # 1
        <4>1. f + 1 <= r.accepted /\ k - 1 > 0
          BY <1>1, <1>2, <1>4, <3>1, <3>3
        <4>2. x.size = 2
          BY <1>6, <2>3, <4>1 DEF WireBytes
        <4>3. QED
          BY <1>4, <2>3, <4>1, <4>2 DEF Load
      <3>4. QED
        BY <3>2, <3>3
    <2>4. QED
      BY <2>1, <2>2, <2>3
  <1>8. QED
    BY <1>4, <1>7 DEF k, x, w

\* on_upload_written() keeps the invariant.
LEMMA OnUploadWrittenInv ==
  ASSUME Inv, OnUploadWritten
  PROVE  Inv'
  <1>1. todo = <<>> /\ q.upload_writing /\ ~q.completed /\ peer' = peer
    BY DEF OnUploadWritten, Idle
  <1>2. /\ q \in Request /\ net \in Net /\ Stack(todo)
        /\ Upload(q, todo) /\ Sound(q) /\ Queued(q)
    BY <1>1 DEF Inv, Types, Upload, Sound
  <1>3. q.upload_writes # <<>> /\ q.headers_written /\ q.headers_started
    BY <1>1, <1>2 DEF Queued, Sound
  <1>4. q.pending # "new"
    BY <1>3 DEF Inv, Connection
  <1>5. /\ ~Heading(todo) /\ ~Inside(todo) /\ ~Waiting(todo)
        /\ Unwinds(todo, todo)
    BY <1>1, Empty
  <1>6. CASE /\ Becomes(FailRequestBody([q EXCEPT !.upload_writing = FALSE],
                                        net))
             /\ UNCHANGED todo
    <2> DEFINE z == [q EXCEPT !.upload_writing = FALSE]
    <2>1. q' = FailRequestBody(z, net).r /\ net' = FailRequestBody(z, net).n
      BY <1>6 DEF Becomes
    <2>2. z \in Request
      BY <1>2, ZenonT(60) DEF Request
    <2>3. SameResponse(q, z) /\ SameWay(q, z) /\ Stops(q, z) /\ ~z.completed
      BY <1>1, <1>2 DEF Request, SameResponse, SameWay, Stops
    <2> HIDE DEF z
    <2>4. /\ Unwinds(todo, todo') /\ ~Heading(todo') /\ ~Inside(todo')
          /\ ~Waiting(todo')
      BY <1>5, <1>6
    <2>5. QED
      BY <1>1, <1>4, <2>1, <2>2, <2>3, <2>4, FailStep
  <1> DEFINE rest == Tail(q.upload_writes)
             bytes == q.pending_bytes
                        - Min({q.pending_bytes, Head(q.upload_writes).size})
             r == [q EXCEPT !.upload_writing = FALSE, !.upload_writes = rest,
                            !.pending_bytes = bytes]
             z == IF Drains(r) THEN [Call(r) EXCEPT !.backpressured = FALSE]
                               ELSE r
  <1>7. CASE /\ q' = z
             /\ todo' = IF Drains(r) THEN <<"drain", "written">>
                                     ELSE <<"written">>
             /\ UNCHANGED net
    <2> DEFINE k == Len(q.upload_writes)
               wait == q.backpressured /\ ~(bytes <= MaxPending \div 2)
               y == [q EXCEPT !.upload_writing = FALSE,
                              !.upload_writes = rest,
                              !.pending_bytes = bytes,
                              !.backpressured = wait]
    <2>1. /\ k \in Nat \ {0} /\ Load(q, k - 1) \in Nat
          /\ bytes = Load(q, k - 1) /\ bytes \in Nat
      <3> DEFINE n == Head(q.upload_writes).size
      <3>1. /\ k \in Nat \ {0} /\ Load(q, k - 1) \in Nat /\ n \in Nat
            /\ Load(q, k) = Load(q, k - 1) + n
        BY <1>2, <1>3, LoadOfTail
      <3>2. q.pending_bytes = Load(q, k) /\ q.pending_bytes \in Nat
        BY <1>2, RequestTyped DEF Queued
      <3> HIDE DEF n, k
      <3>3. Min({q.pending_bytes, n}) = n
        <4>1. Min({q.pending_bytes, n}) =
                IF q.pending_bytes <= n THEN q.pending_bytes ELSE n
          BY <3>1, <3>2, LeastOfPair
        <4>2. n <= q.pending_bytes
          BY <3>1, <3>2
        <4>3. QED
          BY <3>1, <3>2, <4>1, <4>2
      <3>4. bytes = q.pending_bytes - n
        BY <3>3 DEF n
      <3> HIDE DEF bytes
      <3>5. QED
        BY <3>1, <3>2, <3>4
    <2>2. /\ rest \in Seq([id : Nat, size : Nat]) /\ Len(rest) = k - 1
          /\ \A i \in 1 .. k - 1 : rest[i] = q.upload_writes[i + 1]
      <3> DEFINE w == q.upload_writes
                 W == [id : Nat, size : Nat]
      <3>1. w \in Seq(W) /\ w # <<>>
        BY <1>2, <1>3, RequestTyped
      <3> HIDE DEF w, W
      <3>2. /\ Tail(w) \in Seq(W) /\ Len(Tail(w)) = Len(w) - 1
            /\ \A i \in 1 .. Len(w) - 1 : Tail(w)[i] = w[i + 1]
        BY <3>1
      <3>3. QED
        BY <3>2 DEF w, W
    <2> HIDE DEF bytes, rest
    <2>3. MaxPending \in Nat /\ wait \in BOOLEAN
      BY <1>2, RequestTyped DEF Request
    <2>4. /\ r.backpressured <=> q.backpressured
          /\ r.pending_bytes = bytes
          /\ r.completed <=> q.completed
      BY <1>2 DEF Request
    <2>5. z = y
      <3>1. Drains(r) <=> q.backpressured /\ bytes <= MaxPending \div 2
        BY <2>4 DEF Drains
      <3>2. CASE Drains(r)
        <4>1. wait = FALSE
          BY <3>1, <3>2
        <4>2. z = [Call(r) EXCEPT !.backpressured = FALSE]
          BY <3>2
        <4>3. [Call(r) EXCEPT !.backpressured = FALSE]
                = [r EXCEPT !.backpressured = FALSE]
          BY <1>1, <1>2, <2>4, ZenonT(60) DEF Call, Request
        <4>4. QED
          BY <4>1, <4>2, <4>3
      <3>3. CASE ~Drains(r)
        <4>1. wait = q.backpressured
          BY <1>2, <3>1, <3>3, ZenonT(30) DEF Request
        <4>2. z = r
          BY <3>3
        <4>3. r = [r EXCEPT !.backpressured = q.backpressured]
          BY <1>2, ZenonT(60) DEF Request
        <4>4. QED
          BY <4>1, <4>2, <4>3
      <3>4. QED
        BY <3>2, <3>3
    <2> HIDE DEF wait, z
    <2>6. y \in Request
      BY <1>2, <2>1, <2>2, <2>3, ZenonT(60) DEF Request
    <2>7. SameResponse(q, y) /\ SameEnd(q, y) /\ SameWay(q, y)
          /\ y.timer = q.timer
      BY <1>2 DEF Request, SameResponse, SameEnd, SameWay
    <2>8. /\ y.upload_mode = q.upload_mode
          /\ y.content_length = q.content_length
          /\ y.accepted = q.accepted /\ y.upload_writes = rest
          /\ y.pending_bytes = bytes /\ y.sent = q.sent
          /\ ~y.upload_writing
          /\ y.upload_ended <=> q.upload_ended
          /\ y.backpressured <=> wait
          /\ y.headers_started <=> q.headers_started
          /\ y.headers_written <=> q.headers_written
          /\ y.reading_response <=> q.reading_response
          /\ y.completed <=> q.completed
      BY <1>2 DEF Request
    <2> HIDE DEF y
    <2>9. /\ Count(y) = Count(q)
          /\ \A i : Piece(y, i) = Piece(q, i) /\ Load(y, i) = Load(q, i)
      BY <2>8 DEF Count, Piece, Load
    <2> DEFINE f == Flown(q)
               s == Len(q.sent)
               t == Count(q)
    <2>10. /\ s \in Nat /\ t \in Nat /\ f \in Nat /\ f = s - 1
           /\ Flown(y) = s /\ f + k = t
      <3>1. s \in Nat /\ t \in Nat
        BY <1>2, RequestTyped
      <3>2. f \in Nat /\ f + k = t
        BY <1>2 DEF Queued
      <3>3. f = s - 1
        BY <1>1 DEF Flown
      <3>4. Flown(y) = s - 0
        BY <2>8 DEF Flown
      <3> HIDE DEF s, t, f, k
      <3>5. QED
        BY <3>1, <3>2, <3>3, <3>4
    <2>11. \A i \in 1 .. k : q.upload_writes[i] = Piece(q, f + i)
      BY <1>2 DEF Queued
    <2>12. ~q.reading_response
      BY <1>2, <1>3 DEF Sound, Uploaded
    <2> HIDE DEF f, s, t, k
    <2>13. \A i \in 1 .. k - 1 : rest[i] = Piece(y, s + i)
      <3> SUFFICES ASSUME NEW i \in 1 .. k - 1
                   PROVE  rest[i] = Piece(y, s + i)
        OBVIOUS
      <3>1. i + 1 \in 1 .. k /\ f + (i + 1) = s + i
        BY <2>1, <2>10
      <3>2. rest[i] = Piece(q, f + (i + 1))
        BY <2>2, <2>11, <3>1
      <3>3. QED
        BY <2>9, <3>1, <3>2
    <2>14. s + (k - 1) = t
      BY <2>1, <2>10
    <2>15. y.backpressured => y.pending_bytes > MaxPending \div 2
      <3>1. MaxPending \div 2 \in Nat
        BY <2>3
      <3>2. wait => bytes > MaxPending \div 2
        BY <2>1, <3>1 DEF wait
      <3>3. QED
        BY <2>8, <3>2
    <2>16. Queued(y)
      BY <2>1, <2>2, <2>8, <2>9, <2>10, <2>13, <2>14, <2>15 DEF Queued, t
    <2>17. Sound(y)
      BY <1>2, <2>8, <2>9, <2>12, <2>16 DEF Sound
    <2>18. todo' \in {<<"written">>, <<"drain", "written">>}
      BY <1>7
    <2>19. /\ Written(todo') /\ Stack(todo') /\ ~Heading(todo')
           /\ ~Bodying(todo') /\ ~Emitting(todo') /\ Outer(todo')
           /\ Safe(q, todo')
      <3>1. Written(todo') /\ Outer(todo')
        BY <2>18 DEF Written, Outer
      <3>2. QED
        BY <3>1, Apart DEF Safe
    <2>20. Upload(y, todo')
      BY <1>3, <2>8, <2>17, <2>19 DEF Upload
    <2>21. Aside(q, y)
      BY <2>7 DEF Aside
    <2>22. QED
      BY <1>1, <1>3, <1>5, <1>7, <2>5, <2>6, <2>19, <2>20, <2>21, UploadStep
  <1>8. QED
    BY <1>6, <1>7 DEF OnUploadWritten

\* What follows on_drain in on_upload_written() keeps the invariant.
LEMMA AfterUploadWrittenInv ==
  ASSUME Inv, AfterUploadWritten
  PROVE  Inv'
  <1>1. todo = <<"written">> /\ Tail(todo) = <<>> /\ net' = net /\ peer' = peer
    BY TopIs, TailIs DEF AfterUploadWritten, Inv, Types
  <1>2. /\ q \in Request /\ Upload(q, todo) /\ Sound(q)
        /\ Types /\ Response(q, peer, todo) /\ Connection(q, net, todo)
    BY DEF Inv, Types, Upload
  <1>3. /\ Written(todo) /\ Outer(todo) /\ ~Written(<<>>) /\ Outer(<<>>)
    BY <1>1 DEF Written, Outer
  <1>4. q.headers_written /\ q.headers_started
    BY <1>2, <1>3 DEF Upload, Sound
  <1>5. /\ q' \in Request /\ Aside(q, q') /\ Upload(q', todo')
        /\ todo' = <<>> \/ (Waiting(todo') /\ ~q.completed)
    <2>1. CASE q.upload_writes # <<>>
      <3>1. q' = FlushUploadWrites(q) /\ todo' = <<>>
        BY <1>1, <2>1 DEF AfterUploadWritten
      <3>2. /\ FlushUploadWrites(q) \in Request
            /\ Aside(q, FlushUploadWrites(q))
        BY <1>2, FlushIs
      <3>3. Upload(FlushUploadWrites(q), <<>>)
        BY <1>2, <1>3, FlushSound
      <3>4. QED
        BY <3>1, <3>2, <3>3
    <2>2. ASSUME q.upload_writes = <<>> PROVE Upload(q, <<>>)
      BY <1>2, <1>3, <2>2 DEF Upload
    <2>3. CASE q.upload_writes = <<>> /\ q.upload_ended /\ ~q.completed
      <3>1. BeginResponseRead(q, <<>>)
        BY <1>1, <2>3 DEF AfterUploadWritten
      <3>2. ~q.upload_writing
        BY <1>2, <2>3 DEF Sound, Queued
      <3>3. <<>> # <<"written">>
        OBVIOUS
      <3>4. QED
        BY <1>2, <1>4, <2>2, <2>3, <3>1, <3>2, <3>3, BeginReadIs
    <2>4. CASE q.upload_writes = <<>> /\ (~q.upload_ended \/ q.completed)
      <3>1. q' = q /\ todo' = <<>>
        BY <1>1, <2>4 DEF AfterUploadWritten, BeginResponseRead,
                          FlushUploadWrites
      <3>2. QED
        BY <1>2, <2>2, <2>4, <3>1, AsideSelf
    <2>5. QED
      BY <2>1, <2>3, <2>4
  <1>6. QED
    BY <1>1, <1>2, <1>3, <1>4, <1>5, ReadStep

\* What follows read_start() in begin_response_read() keeps the invariant: in a
\* secure stream the timer it arms may be that of a completed request.
LEMMA ReadStartedInv ==
  ASSUME Inv, ReadStarted
  PROVE  Inv'
  <1> DEFINE time == IF "response_header" \in Timed THEN "response_header"
                                                    ELSE "none"
             z == [q EXCEPT !.timer = time]
  <1>1. /\ Waiting(todo) /\ todo' = Tail(todo) /\ q' = z
        /\ net' = net /\ peer' = peer
    BY TopIs DEF ReadStarted, StartPhaseTimeout, Inv, Types
  <1>2. /\ q \in Request /\ Upload(q, todo) /\ Response(q, peer, todo)
        /\ Connection(q, net, todo) /\ Types
    BY DEF Inv, Types
  <1>3. \/ todo = <<"reading">> /\ todo' = <<>>
        \/ /\ todo = <<"reading", "drain", "written">>
           /\ todo' = <<"drain", "written">>
    <2>1. /\ Tail(<<"reading">>) = <<>>
          /\ Tail(<<"reading", "drain", "written">>) = <<"drain", "written">>
      OBVIOUS
    <2>2. QED
      BY <1>1, <2>1 DEF Waiting
  <1>4. Outer(todo') /\ (Written(todo) <=> Written(todo')) /\ ~Heading(todo)
    BY <1>3 DEF Outer, Written, Heading
  <1>5. time \in {"response_header", "none"} /\ time \in Timed \cup {"none"}
    OBVIOUS
  <1> HIDE DEF time
  <1>6. z \in Request
    BY <1>2, <1>5, ZenonT(60) DEF Request
  <1>7. /\ SameUpload(q, z) /\ SameResponse(q, z) /\ SameEnd(q, z)
        /\ SameWay(q, z) /\ z.timer = time
    BY <1>2 DEF Request, SameUpload, SameResponse, SameEnd, SameWay
  <1> HIDE DEF z
  <1>8. z.completed => Spare(z)
    BY <1>1, <1>2, <1>5, <1>7 DEF Connection, Safe, Spare, SameEnd, SameWay
  <1>9. z.pending # "new"
    BY <1>2, <1>3, <1>7 DEF Connection, SameWay
  <1>10. Aside(q, z)
    BY <1>7, <1>8, <1>9 DEF Aside
  <1>11. Upload(z, todo')
    BY <1>2, <1>4, <1>7, UploadKept DEF SameEnd
  <1>12. /\ Stack(todo') /\ ~Heading(todo') /\ ~Bodying(todo')
         /\ ~Emitting(todo') /\ Safe(q, todo')
    BY <1>4, Apart DEF Safe
  <1>13. todo' # <<>> => q.headers_started
    BY <1>2, <1>3 DEF Connection
  <1>14. QED
    BY <1>1, <1>4, <1>6, <1>10, <1>11, <1>12, <1>13, UploadStep

-------------------------------------------------------------------------------
(***************************************************************************)
(* The response.                                                           *)
(***************************************************************************)

\* What the types say of a response.
LEMMA ResponseTyped ==
  ASSUME NEW r \in Request, NEW p \in Peer
  PROVE  /\ r.buffer \in Seq(Units) /\ Len(r.buffer) \in Nat
         /\ p.inbox \in Seq(Units) /\ Len(p.inbox) \in Nat
         /\ r.delivered \in Nat /\ r.remaining \in Nat /\ Used(r) \in Nat
         /\ p.interims \in Nat
         /\ p.shape \in Shapes /\ p.shape.body \in Nat
         /\ p.shape.framing \in {"none", "bad"} => p.shape.body = 0
         /\ p.sent \in {"nothing", "head", "body"}
         /\ MaxBody \in Nat
  <1>1. /\ r.buffer \in Seq(Units) /\ r.delivered \in Nat
        /\ r.remaining \in Nat
    BY DEF Request
  <1>2. /\ p.inbox \in Seq(Units) /\ p.shape \in Shapes /\ p.interims \in Nat
        /\ p.sent \in {"nothing", "head", "body"}
    BY DEF Peer
  <1>3. MaxBody \in Nat
    BY StreamingAssumption
  <1>4. \A S : \A t \in Seq(S) : Len(t) \in Nat
    OBVIOUS
  <1>5. Used(r) \in Nat
    BY <1>1 DEF Used
  <1>6. /\ p.shape.body \in 0 .. MaxBody + 1
        /\ p.shape.framing \in {"none", "bad"} => p.shape.body = 0
    BY <1>2 DEF Shapes
  <1>7. QED
    BY <1>1, <1>2, <1>3, <1>4, <1>5, <1>6

\* process_buffer() is done with the first units of the buffer.
LEMMA BytesConsumed ==
  ASSUME NEW a \in Request, NEW b \in Request, NEW p \in Peer, Bytes(a, p),
         NEW k \in 0 .. Len(a.buffer), Used(b) = Used(a) + k,
         Len(b.buffer) = Len(a.buffer) - k,
         \A i \in 1 .. Len(a.buffer) - k : b.buffer[i] = a.buffer[i + k]
  PROVE  Bytes(b, p)
  <1> DEFINE n == Len(a.buffer)
             m == Len(b.buffer)
             u == Used(a)
             v == Used(b)
             l == Len(p.inbox)
  <1>1. /\ n \in Nat /\ m \in Nat /\ u \in Nat /\ v \in Nat /\ l \in Nat
        /\ k \in 0 .. n
    BY ResponseTyped
  <1>2. v = u + k /\ m = n - k
    OBVIOUS
  <1>3. /\ \A i \in 1 .. n : a.buffer[i] = Unit(p, u + i)
        /\ \A i \in 1 .. l : p.inbox[i] = Unit(p, u + n + i)
    BY DEF Bytes
  <1>4. \A i \in 1 .. m : b.buffer[i] = a.buffer[i + k]
    OBVIOUS
  <1>5. Arrived(a, p) = u + n + l /\ Arrived(b, p) = v + m + l
    BY DEF Arrived
  <1> HIDE DEF n, m, u, v, l
  <1>6. v + m = u + n
    BY <1>1, <1>2
  <1>7. \A i \in 1 .. m : b.buffer[i] = Unit(p, v + i)
    <2> SUFFICES ASSUME NEW i \in 1 .. m
                 PROVE  b.buffer[i] = Unit(p, v + i)
      OBVIOUS
    <2>1. i + k \in 1 .. n /\ u + (i + k) = v + i
      BY <1>1, <1>2
    <2>2. QED
      BY <1>3, <1>4, <2>1
  <1>8. \A i \in 1 .. l : p.inbox[i] = Unit(p, v + m + i)
    BY <1>3, <1>6
  <1>9. Arrived(b, p) = Arrived(a, p)
    BY <1>5, <1>6
  <1>10. QED
    BY <1>7, <1>8, <1>9 DEF Bytes, m, v, l

\* A step that changes the response only.
LEMMA ResponseStep ==
  ASSUME Inv, NEW z \in Request, NEW p \in Peer, SameUpload(q, z),
         z.completed <=> q.completed,
         Stack(todo'), Written(todo') <=> Written(todo),
         ~Outer(todo) \/ q.reading_response,
         Response(z, p, todo'), Connection(z, net, todo'),
         q' = z, net' = net, peer' = p
  PROVE  Inv'
  <1>1. Upload(z, todo')
    BY UploadKept DEF Inv
  <1>2. net \in Net
    BY DEF Inv, Types
  <1>3. QED
    BY <1>1, <1>2, InvNext

\* process_buffer() runs, over the loop or inside read_start().
LEMMA UnderIs ==
  ASSUME Inv, NEW b \in Bases, todo \in Over(b)
  PROVE  /\ todo # <<>> /\ ~Outer(todo) /\ Unwinds(todo, b) /\ Stack(b)
         /\ Written(b) <=> Written(todo)
         /\ b # <<>> => q.secure
         /\ ~Heading(b) /\ ~Bodying(b) /\ ~Emitting(b)
         /\ Inside(b) \/ Waiting(b) => q.secure
         /\ \A st \in Over(b) :
              /\ Stack(st) /\ st # <<>> /\ ~Outer(st)
              /\ Written(st) <=> Written(todo)
         /\ \A r : \A st \in Over(b) \cup {b} :
              (r.secure <=> q.secure) => Safe(r, st)
         /\ q.headers_started /\ q.pending \in {"headers", "none"}
  <1>1. /\ Stack(b) /\ ~Heading(b) /\ ~Bodying(b) /\ ~Emitting(b)
        /\ ~Inside(b) /\ (Waiting(b) <=> b # <<>>)
        /\ \A st \in Over(b) :
             /\ Stack(st) /\ ~Outer(st) /\ ~Waiting(st) /\ st # <<>>
             /\ Written(st) <=> Written(b)
             /\ Inside(st) <=> b # <<>>
    BY OnBase
  <1>2. Connection(q, net, todo)
    BY DEF Inv
  <1>3. b # <<>> => q.secure
    BY <1>1, <1>2 DEF Connection, Safe
  <1>4. Unwinds(todo, b)
    BY <1>1 DEF Unwinds
  <1>5. \A r : \A st \in Over(b) \cup {b} :
          (r.secure <=> q.secure) => Safe(r, st)
    BY <1>1, <1>3 DEF Safe
  <1>6. q.headers_started /\ q.pending \in {"headers", "none"}
    BY <1>1, <1>2 DEF Connection
  <1>7. QED
    BY <1>1, <1>3, <1>4, <1>5, <1>6

\* ... or the stream tells of its end.
LEMMA BelowIs ==
  ASSUME Inv, NEW b \in Bases,
         \/ todo \in Over(b)
         \/ todo = b /\ q.headers_started /\ (b # <<>> => q.secure)
  PROVE  /\ Unwinds(todo, b) /\ Stack(b) /\ ~Heading(b) /\ ~Bodying(b)
         /\ ~Emitting(b)
         /\ Inside(b) \/ Waiting(b) => q.secure
         /\ \A r : (r.secure <=> q.secure) => Safe(r, b)
         /\ q.headers_started /\ q.pending \in {"headers", "none"}
  <1>1. CASE todo \in Over(b)
    BY <1>1, UnderIs
  <1>2. CASE todo = b /\ q.headers_started /\ (b # <<>> => q.secure)
    <2>1. /\ Stack(b) /\ ~Heading(b) /\ ~Bodying(b) /\ ~Emitting(b)
          /\ ~Inside(b) /\ (Waiting(b) <=> b # <<>>)
      BY OnBase
    <2>2. Unwinds(todo, b) /\ \A r : (r.secure <=> q.secure) => Safe(r, b)
      BY <1>2, <2>1 DEF Unwinds, Safe
    <2>3. q.pending \in {"headers", "none"}
      BY <1>2 DEF Inv, Connection
    <2>4. QED
      BY <1>2, <2>1, <2>2, <2>3
  <1>3. QED
    BY <1>1, <1>2

\* ... at the task on top.
LEMMA UnderTop ==
  ASSUME Inv, NEW x \in {"process", "mode", "body"}, Top = x
  PROVE  \E b \in Bases :
           /\ todo = <<x>> \o b /\ Tail(todo) = b /\ todo \in Over(b)
  <1>1. PICK b \in Bases : todo = <<x>> \o b /\ Tail(todo) = b
    BY BaseOf DEF Inv, Types
  <1>2. todo \in Over(b)
    BY <1>1 DEF Over
  <1>3. QED
    BY <1>1, <1>2

\* A step in which the request ends with success, unless it had ended before.
LEMMA SucceedStep ==
  ASSUME Inv, NEW base \in Bases,
         \/ todo \in Over(base)
         \/ todo = base /\ q.headers_started /\ (base # <<>> => q.secure),
         q.completed => q.ended_in_headers,
         NEW z \in Request, NEW m \in Net, SameUpload(q, z), SameEnd(q, z),
         z.pending = q.pending,
         z.late <=> q.late,
         z.secure <=> q.secure,
         Response(z, peer, base),
         ~q.completed =>
           /\ z.headers_seen
           /\ \/ z.interim \/ peer.shape.framing = "eof"
              \/ z.delivered = peer.shape.body,
         z.stream # NoStream => m.life[z.stream] # "open",
         ~q.ended_in_headers => Pool(m),
         q' = Complete(z, m, "success").r, net' = m, todo' = base,
         peer' = peer
  PROVE  Inv'
  <1> DEFINE b == Complete(z, m, "success").r
  <1>1. /\ b \in Request /\ b.completed
        /\ SameUpload(z, b) /\ SameResponse(z, b) /\ SameWay(z, b)
        /\ b.ended_in_headers <=> z.ended_in_headers
        /\ z.completed => b = z
        /\ ~z.completed => b.timer = "none" /\ b.result = "success"
    BY CompleteIs
  <1>2. q' = b
    OBVIOUS
  <1> HIDE DEF b
  <1>3. /\ Unwinds(todo, base) /\ ~Heading(base) /\ ~Bodying(base)
        /\ ~Emitting(base) /\ Stack(base) /\ q.headers_started
        /\ q.pending \in {"headers", "none"}
        /\ \A r : (r.secure <=> q.secure) => Safe(r, base)
    BY BelowIs
  <1>4. Upload(b, base)
    <2>1. Stops(q, b)
      BY <1>1, Stopped, SameStops
    <2>2. QED
      BY <1>1, <1>3, <2>1, UnwindsIs, UploadStops DEF Inv
  <1>5. Response(b, peer, base)
    <2>1. CASE z.completed
      BY <1>1, <2>1
    <2>2. CASE ~z.completed
      <3>1. Used(b) = Used(z) /\ Arrived(b, peer) = Arrived(z, peer)
        BY <1>1 DEF SameResponse, Used, Arrived
      <3>2. Bytes(b, peer)
        BY <1>1, <3>1 DEF Response, Bytes, SameResponse
      <3>3. /\ z.headers_seen
            /\ \/ z.interim \/ peer.shape.framing = "eof"
               \/ z.delivered = peer.shape.body
        BY <2>2 DEF SameEnd
      <3>4. QED
        BY <1>1, <1>3, <3>2, <3>3 DEF Response, SameResponse
    <2>3. QED
      BY <2>1, <2>2
  <1>6. Connection(b, m, base)
    <2>1. /\ b.stream = z.stream /\ b.pending = q.pending
          /\ b.late <=> q.late
          /\ b.secure <=> q.secure
          /\ b.headers_started <=> q.headers_started
          /\ b.ended_in_headers <=> q.ended_in_headers
      BY <1>1 DEF SameWay, SameUpload, SameEnd
    <2>2. q.completed => q.ended_in_headers
      OBVIOUS
    <2>3. ~q.ended_in_headers => b.timer = "none"
      BY <1>1, <2>2 DEF SameEnd
    <2>4. ~q.ended_in_headers => ~q.late
      BY DEF Inv, Connection
    <2>5. Safe(b, base) /\ (b.timer = "none" => Spare(b))
      BY <1>3, <2>1 DEF Spare
    <2>6. QED
      BY <1>1, <1>3, <2>1, <2>3, <2>4, <2>5 DEF Connection
  <1>7. peer \in Peer
    BY DEF Inv, Types
  <1>8. QED
    BY <1>1, <1>2, <1>3, <1>4, <1>5, <1>6, <1>7, InvNext

\* finish_response_success()
LEMMA FinishStep ==
  ASSUME Inv, NEW base \in Bases,
         \/ todo \in Over(base)
         \/ todo = base /\ q.headers_started /\ (base # <<>> => q.secure),
         q.completed => q.ended_in_headers,
         NEW z \in Request, SameUpload(q, z), SameEnd(q, z), SameWay(q, z),
         Response(z, peer, base),
         ~q.completed =>
           /\ z.headers_seen
           /\ \/ z.interim \/ peer.shape.framing = "eof"
              \/ z.delivered = peer.shape.body,
         Becomes(FinishResponseSuccess(z, net)), todo' = base, peer' = peer
  PROVE  Inv'
  <1>1. /\ q \in Request /\ net \in Net /\ z.stream = q.stream
        /\ z.stream \in Streams \cup {NoStream}
    BY DEF Inv, Types, SameWay, Request
  <1>2. ~q.completed =>
          /\ Pool(net) /\ Mine(net, z.stream)
    BY <1>1, BelowIs DEF Inv, Connection, Place
  <1>3. CASE MaxIdle > 0 /\ z.reusable /\ z.stream # NoStream
    <2> DEFINE m == Release(net, Origin, z.stream)
               y == [z EXCEPT !.stream = NoStream]
    <2>1. m \in Net /\ (~q.ended_in_headers => Pool(m))
      BY <1>1, <1>2, <1>3, ReleaseIs
    <2>2. FinishResponseSuccess(z, net) = Complete(y, m, "success")
      BY <1>3 DEF FinishResponseSuccess
    <2> HIDE DEF m
    <2>3. y \in Request
      BY ZenonT(60) DEF Request
    <2>4. SameUpload(z, y) /\ SameResponse(z, y) /\ SameEnd(z, y)
      BY DEF Request, SameUpload, SameResponse, SameEnd
    <2>5. /\ y.stream = NoStream /\ y.pending = z.pending
          /\ y.late <=> z.late
          /\ y.secure <=> z.secure
      BY DEF Request
    <2> HIDE DEF y
    <2>6. SameUpload(q, y) /\ SameEnd(q, y) /\ y.pending = q.pending
          /\ (y.late <=> q.late) /\ (y.secure <=> q.secure)
      BY <2>4, <2>5 DEF SameUpload, SameEnd, SameWay
    <2>7. Response(y, peer, base)
      BY <2>4, ResponseKept
    <2>8. /\ y.delivered = z.delivered
          /\ y.headers_seen <=> z.headers_seen
          /\ y.interim <=> z.interim
      BY <2>4 DEF SameResponse
    <2>9. Complete(y, m, "success").n = m
      BY <2>3, CompleteIs
    <2>10. q' = Complete(y, m, "success").r /\ net' = m
      BY <2>2, <2>9 DEF Becomes
    <2>11. QED
      BY <2>1, <2>3, <2>5, <2>6, <2>7, <2>8, <2>10, SucceedStep
  <1>4. CASE ~(MaxIdle > 0 /\ z.reusable /\ z.stream # NoStream)
    <2> DEFINE m == CloseStream(net, z.stream)
    <2>1. /\ m \in Net
          /\ z.stream \in Streams => m.life[z.stream] # "open"
      BY <1>1, CloseIs
    <2>2. ~q.ended_in_headers => Pool(m)
      BY <1>1, <1>2, ClosePool DEF Mine
    <2>3. FinishResponseSuccess(z, net) = Complete(z, m, "success")
      BY <1>4 DEF FinishResponseSuccess
    <2> HIDE DEF m
    <2>4. Complete(z, m, "success").n = m
      BY CompleteIs
    <2>5. q' = Complete(z, m, "success").r /\ net' = m
      BY <2>3, <2>4 DEF Becomes
    <2>6. /\ z.pending = q.pending
          /\ z.late <=> q.late
          /\ z.secure <=> q.secure
      BY DEF SameWay
    <2>7. z.stream # NoStream => m.life[z.stream] # "open"
      BY <1>1, <2>1
    <2>8. QED
      BY <2>1, <2>2, <2>5, <2>6, <2>7, SucceedStep
  <1>5. QED
    BY <1>3, <1>4

\* The stack unwinds: nothing more is asked of the response, unless
\* the framing of its body is still to be chosen.
LEMMA ResponseUnwinds ==
  ASSUME NEW a, NEW p, NEW st, NEW b \in Bases, Response(a, p, st),
         a.completed \/ ~Heading(st)
  PROVE  Response(a, p, b)
  <1>1. ~Heading(b) /\ ~Bodying(b) /\ ~Emitting(b)
    BY OnBase
  <1>2. QED
    BY <1>1 DEF Response

\* fail_request_body() out of process_buffer(), completed or not.
LEMMA FailBody ==
  ASSUME Inv, NEW base \in Bases,
         \/ todo \in Over(base)
         \/ todo = base /\ q.headers_started /\ (base # <<>> => q.secure),
         q.completed => q.ended_in_headers,
         Becomes(FailRequestBody(q, net)), todo' = base, peer' = peer
  PROVE  Inv'
  <1>1. /\ q \in Request /\ net \in Net /\ Response(q, peer, todo)
        /\ q.stream \in Streams \cup {NoStream}
        /\ q.pending \in {"headers", "none"}
    BY BelowIs DEF Inv, Types, Request
  <1>2. CASE ~q.completed
    <2>1. /\ Unwinds(todo, todo') /\ ~Heading(todo')
          /\ Inside(todo') \/ Waiting(todo') => q.secure
      BY BelowIs
    <2>2. /\ q' = FailRequestBody(q, net).r
          /\ net' = FailRequestBody(q, net).n
      BY DEF Becomes
    <2>3. Stops(q, q)
      BY SameSelf, Stopped
    <2>4. QED
      BY <1>1, <1>2, <2>1, <2>2, <2>3, SameSelf, FailStep
  <1>3. CASE q.completed
    <2> DEFINE m == CloseStream(net, q.stream)
    <2>1. m \in Net /\ (q.stream \in Streams => m.life[q.stream] # "open")
      BY <1>1, CloseIs
    <2>2. FailRequestBody(q, net) = Complete(q, m, "success")
      BY <1>3 DEF FailRequestBody, Complete
    <2> HIDE DEF m
    <2>3. Complete(q, m, "success").n = m
      BY <1>1, CompleteIs
    <2>4. q' = Complete(q, m, "success").r /\ net' = m
      BY <2>2, <2>3 DEF Becomes
    <2>5. Response(q, peer, base)
      BY <1>1, <1>3, ResponseUnwinds
    <2>6. q.stream # NoStream => m.life[q.stream] # "open"
      BY <1>1, <2>1
    <2>7. QED
      BY <1>1, <1>3, <2>1, <2>4, <2>5, <2>6, SameSelf, SucceedStep
  <1>4. QED
    BY <1>2, <1>3

\* process_buffer() returns.
LEMMA ReturnStep ==
  ASSUME Inv, NEW b \in Bases, todo \in Over(b), ~Heading(todo),
         q' = q, net' = net, peer' = peer, todo' = b
  PROVE  Inv'
  <1>1. /\ Stack(b) /\ ~Heading(b) /\ ~Bodying(b) /\ ~Emitting(b)
        /\ ~Outer(todo) /\ (Written(b) <=> Written(todo)) /\ Safe(q, b)
        /\ q.headers_started
    BY UnderIs
  <1>2. q \in Request
    BY DEF Inv, Types
  <1>3. Upload(q, b)
    BY <1>1, SameSelf, UploadKept DEF Inv
  <1>4. QED
    BY <1>1, <1>2, <1>3, AsideSelf, UploadStep

\* process_buffer() at the head of the response keeps the invariant.
LEMMA ProcessHeadInv ==
  ASSUME Inv, ProcessHead
  PROVE  Inv'
  <1>1. Top = "process" /\ ~q.headers_seen /\ ~q.completed /\ peer' = peer
    BY DEF ProcessHead
  <1>2. PICK b \in Bases :
          todo = <<"process">> \o b /\ Tail(todo) = b /\ todo \in Over(b)
    BY <1>1, UnderTop
  <1>3. /\ q \in Request /\ peer \in Peer
        /\ Response(q, peer, todo) /\ Bytes(q, peer)
        /\ Connection(q, net, todo)
    BY DEF Inv, Types, Response
  <1>4. /\ ~Heading(todo) /\ ~Outer(todo) /\ q.headers_started
        /\ q.pending \in {"headers", "none"}
    BY <1>2, UnderIs, OnBase, OneKind
  <1> DEFINE bad == Head(q.buffer) = "head" /\ peer.shape.framing = "bad"
  <1>5. CASE q.buffer = <<>>
    BY <1>1, <1>2, <1>4, <1>5, ReturnStep DEF ProcessHead
  <1>6. CASE q.buffer # <<>> /\ bad
    BY <1>1, <1>2, <1>4, <1>6, FailBody DEF ProcessHead
  <1>7. CASE q.buffer # <<>> /\ ~bad
    <2> DEFINE st == <<"headers", "mode">> \o b
               rest == Tail(q.buffer)
               early == Head(q.buffer) = "interim"
               keep == early \/ peer.shape.keep
               late == q.late \/ q.completed
               z == [q EXCEPT !.late = late, !.headers_seen = TRUE,
                              !.buffer = rest, !.interim = early,
                              !.reusable = keep]
    <2>0. /\ early \/ Head(q.buffer) = "head"
          /\ ~early => peer.interims = 0
      <3>1. q.buffer \in Seq(Units) /\ peer.interims \in Nat
        BY <1>3, ResponseTyped
      <3>2. Head(q.buffer) = q.buffer[1] /\ 1 \in 1 .. Len(q.buffer)
        BY <1>7, <3>1
      <3>3. Used(q) = 0
        BY <1>1 DEF Used
      <3>4. q.buffer[1] = Unit(peer, 0 + 1)
        BY <1>3, <3>2, <3>3 DEF Bytes
      <3>5. Head(q.buffer) = Unit(peer, 1)
        BY <3>2, <3>4
      <3>6. QED
        BY <3>1, <3>5 DEF Unit
    <2>a. early \/ peer.shape.framing # "bad"
      BY <1>7, <2>0
    <2>1. q' = z /\ net' = net /\ todo' = st
      <3> DEFINE c == [q EXCEPT !.late = late]
      <3>1. /\ q' = [c EXCEPT !.headers_seen = TRUE, !.buffer = Tail(c.buffer),
                              !.interim = early, !.reusable = keep]
            /\ net' = net /\ todo' = <<"headers", "mode">> \o Tail(todo)
        BY <1>7 DEF ProcessHead, Call
      <3>2. c.buffer = q.buffer
        BY <1>3 DEF Request
      <3>3. q' = [c EXCEPT !.headers_seen = TRUE, !.buffer = rest,
                           !.interim = early, !.reusable = keep]
        BY <3>1, <3>2
      <3>4. todo' = st
        BY <1>2, <3>1
      <3>5. QED
        BY <3>1, <3>3, <3>4
    <2>2. /\ rest \in Seq(Units) /\ Len(q.buffer) \in Nat \ {0}
          /\ Len(rest) = Len(q.buffer) - 1
          /\ \A i \in 1 .. Len(q.buffer) - 1 : rest[i] = q.buffer[i + 1]
      <3> DEFINE w == q.buffer
      <3>1. w \in Seq(Units) /\ w # <<>>
        BY <1>3, <1>7, ResponseTyped
      <3> HIDE DEF w
      <3>2. /\ Tail(w) \in Seq(Units) /\ Len(w) \in Nat \ {0}
            /\ Len(Tail(w)) = Len(w) - 1
            /\ \A i \in 1 .. Len(w) - 1 : Tail(w)[i] = w[i + 1]
        BY <3>1
      <3>3. QED
        BY <3>2 DEF w
    <2>3. keep \in BOOLEAN /\ late \in BOOLEAN /\ early \in BOOLEAN
      <3>1. peer.shape \in Shapes
        BY <1>3, ResponseTyped
      <3>2. keep \in BOOLEAN
        BY <3>1 DEF Shapes
      <3>3. QED
        BY <3>2
    <2>4. late <=> q.late
      BY <1>1
    <2> HIDE DEF rest, keep, late, early
    <2>5. z \in Request
      BY <1>3, <2>2, <2>3, ZenonT(60) DEF Request
    <2>6. SameUpload(q, z) /\ SameEnd(q, z)
      BY <1>3 DEF Request, SameUpload, SameEnd
    <2>7. SameWay(q, z)
      BY <1>3, <2>4 DEF Request, SameWay
    <2>8. /\ z.headers_seen /\ z.buffer = rest /\ z.delivered = q.delivered
          /\ z.body_mode = q.body_mode /\ z.remaining = q.remaining
          /\ z.timer = q.timer /\ z.result = q.result
          /\ z.completed <=> q.completed
          /\ z.interim <=> early
      BY <1>3 DEF Request
    <2> HIDE DEF z
    <2>9. q.body_mode = "unknown" /\ q.delivered = 0
      BY <1>1, <1>3 DEF Response
    <2>10. Used(z) = Used(q) + 1
      BY <1>1, <2>8, <2>9 DEF Used
    <2>11. Bytes(z, peer)
      <3>1. 1 \in 0 .. Len(q.buffer)
        BY <2>2
      <3>2. QED
        BY <1>3, <2>2, <2>5, <2>8, <2>10, <3>1, BytesConsumed
    <2>12. /\ Heading(st) /\ Stack(st) /\ st # <<>> /\ ~Bodying(st)
           /\ ~Emitting(st) /\ (Written(st) <=> Written(todo)) /\ Safe(z, st)
      <3>1. st \in Over(b)
        BY DEF Over
      <3>2. Heading(st)
        BY OnBase
      <3>3. z.secure <=> q.secure
        BY <2>7 DEF SameWay
      <3> HIDE DEF st
      <3>4. QED
        BY <1>2, <3>1, <3>2, <3>3, UnderIs, OneKind
    <2> HIDE DEF st
    <2>13. q.result # "success"
      BY <1>1, <1>3 DEF Response
    <2>14. Response(z, peer, st)
      BY <2>0, <2>a, <2>8, <2>9, <2>11, <2>12, <2>13 DEF Response
    <2>15. Connection(z, net, st)
      <3>1. z.headers_started
        BY <1>4, <2>7 DEF SameWay
      <3>2. QED
        BY <1>1, <1>3, <2>6, <2>7, <2>8, <2>12, <3>1, ConnectionKept
    <2>16. QED
      BY <1>1, <1>3, <1>4, <2>1, <2>5, <2>6, <2>8, <2>12, <2>14, <2>15,
         ResponseStep
  <1>8. QED
    BY <1>5, <1>6, <1>7

\* process_buffer() after on_response_headers keeps the invariant.
LEMMA BodyModeInv ==
  ASSUME Inv, BodyMode
  PROVE  Inv'
  <1> DEFINE framing == IF q.interim THEN "none" ELSE peer.shape.framing
             body == peer.shape.body
  <1>1. Top = "mode" /\ peer' = peer
    BY DEF BodyMode
  <1>2. PICK b \in Bases :
          todo = <<"mode">> \o b /\ Tail(todo) = b /\ todo \in Over(b)
    BY <1>1, UnderTop
  <1>a. /\ q \in Request /\ peer \in Peer
        /\ Response(q, peer, todo) /\ Bytes(q, peer)
        /\ Connection(q, net, todo)
    BY DEF Inv, Types, Response
  <1>3. Heading(todo) /\ ~Outer(todo)
    BY <1>2, OnBase, UnderIs
  <1>4. /\ q.headers_started /\ q.pending \in {"headers", "none"}
        /\ q.completed => q.ended_in_headers
    BY <1>2, <1>3, <1>a, UnderIs DEF Connection
  <1>5. /\ q.headers_seen /\ q.body_mode = "unknown" /\ framing # "bad"
        /\ q.delivered = 0
    BY <1>3, <1>a DEF Response
  <1>6. /\ body \in Nat /\ (framing = "none" => q.interim \/ body = 0)
        /\ framing \in {"none", "content_length", "chunked", "eof"}
    <2>1. peer.shape \in Shapes /\ body \in Nat
          /\ (peer.shape.framing \in {"none", "bad"} => body = 0)
      BY <1>a, ResponseTyped
    <2>2. peer.shape.framing \in {"none", "content_length", "chunked", "eof",
                                  "bad"}
      BY <2>1 DEF Shapes
    <2>3. QED
      BY <1>5, <2>1, <2>2
  <1>7. CASE framing = "none"
    <2> DEFINE z == [q EXCEPT !.body_mode = "none"]
    <2>1. Becomes(FinishResponseSuccess(z, net)) /\ todo' = b
      BY <1>2, <1>7 DEF BodyMode
    <2>2. z \in Request
      BY <1>a, ZenonT(60) DEF Request
    <2>3. SameUpload(q, z) /\ SameEnd(q, z) /\ SameWay(q, z)
      BY <1>a DEF Request, SameUpload, SameEnd, SameWay
    <2>4. /\ z.body_mode = "none" /\ z.delivered = q.delivered
          /\ z.buffer = q.buffer
          /\ z.headers_seen <=> q.headers_seen
          /\ z.interim <=> q.interim
      BY <1>a DEF Request
    <2> HIDE DEF z
    <2>5. Used(z) = Used(q) /\ Arrived(z, peer) = Arrived(q, peer)
      BY <2>4 DEF Used, Arrived
    <2>6. Bytes(z, peer)
      BY <1>a, <2>4, <2>5 DEF Bytes
    <2>7. Response(z, peer, b)
      <3>1. ~Heading(b) /\ ~Bodying(b) /\ ~Emitting(b)
        BY OnBase
      <3>2. q.interim \/ peer.shape.framing = "none"
        BY <1>7
      <3>3. QED
        BY <1>5, <1>6, <1>7, <1>a, <2>3, <2>4, <2>6, <3>1, <3>2
        DEF Response, SameEnd
    <2>8. /\ z.headers_seen
          /\ z.interim \/ z.delivered = body
      BY <1>5, <1>6, <1>7, <2>4
    <2>9. QED
      BY <1>1, <1>2, <1>4, <2>1, <2>2, <2>3, <2>7, <2>8, FinishStep
  <1>8. CASE framing = "content_length" /\ body > MaxBody
    <2>1. Becomes(FailRequestBody(q, net)) /\ todo' = b
      BY <1>2, <1>8 DEF BodyMode
    <2>2. QED
      BY <1>1, <1>2, <1>4, <2>1, FailBody
  <1>9. CASE framing # "none" /\ ~(framing = "content_length"
                                   /\ body > MaxBody)
    <2> DEFINE st == <<"body">> \o b
               time == IF "response_body" \in Timed THEN "response_body"
                                                    ELSE "none"
               z == [q EXCEPT !.body_mode = framing, !.remaining = body,
                              !.timer = time]
    <2>1. q' = z /\ net' = net /\ todo' = st
      BY <1>2, <1>9 DEF BodyMode, StartPhaseTimeout
    <2>2. /\ time \in Timed \cup {"none"}
          /\ ~q.interim /\ framing = peer.shape.framing
      BY <1>9
    <2> HIDE DEF framing, body, time
    <2>3. z \in Request
      BY <1>6, <1>a, <2>2, ZenonT(60) DEF Request
    <2>4. SameUpload(q, z) /\ SameEnd(q, z) /\ SameWay(q, z)
      BY <1>a DEF Request, SameUpload, SameEnd, SameWay
    <2>5. /\ z.body_mode = framing /\ z.remaining = body
          /\ z.delivered = q.delivered /\ z.buffer = q.buffer
          /\ z.headers_seen <=> q.headers_seen
          /\ z.interim <=> q.interim
          /\ z.completed <=> q.completed
          /\ z.ended_in_headers <=> q.ended_in_headers
          /\ z.result = q.result
      BY <1>a DEF Request
    <2> HIDE DEF z
    <2>6. Used(z) = Used(q) /\ Arrived(z, peer) = Arrived(q, peer)
      BY <2>5 DEF Used, Arrived
    <2>7. Bytes(z, peer)
      BY <1>a, <2>5, <2>6 DEF Bytes
    <2>8. /\ ~Heading(st) /\ Stack(st) /\ st # <<>> /\ ~Emitting(st)
          /\ (Written(st) <=> Written(todo)) /\ Safe(z, st)
      <3>1. st \in Over(b)
        BY DEF Over
      <3>2. Bodying(st)
        BY OnBase
      <3>3. z.secure <=> q.secure
        BY <2>4 DEF SameWay
      <3> HIDE DEF st
      <3>4. QED
        BY <1>2, <3>1, <3>2, <3>3, UnderIs, OneKind
    <2> HIDE DEF st
    <2>9. Response(z, peer, st)
      BY <1>4, <1>5, <1>6, <1>9, <1>a, <2>2, <2>5, <2>7, <2>8
      DEF Response, body
    <2>10. Connection(z, net, st)
      <3>1. /\ z.pending = q.pending /\ z.stream = q.stream
            /\ z.lower = q.lower
            /\ z.late <=> q.late
            /\ z.headers_started <=> q.headers_started
        BY <2>4 DEF SameWay
      <3>2. Place(q, net) => Place(z, net)
        BY <3>1 DEF Place
      <3>3. QED
        BY <1>3, <1>4, <1>a, <2>5, <2>8, <3>1, <3>2 DEF Connection
    <2>11. QED
      BY <1>1, <1>3, <1>a, <2>1, <2>3, <2>4, <2>5, <2>8, <2>9, <2>10,
         ResponseStep
  <1>10. QED
    BY <1>7, <1>8, <1>9

\* process_buffer() in the body keeps the invariant.
LEMMA ProcessBodyInv ==
  ASSUME Inv, ProcessBody
  PROVE  Inv'
  <1>1. Top = "process" /\ peer' = peer /\ q' = q /\ net' = net
    BY DEF ProcessBody
  <1>2. PICK b \in Bases :
          todo = <<"process">> \o b /\ Tail(todo) = b /\ todo \in Over(b)
    BY <1>1, UnderTop
  <1>3. /\ q \in Request /\ peer \in Peer
        /\ Response(q, peer, todo) /\ Connection(q, net, todo)
    BY DEF Inv, Types
  <1>4. ~Heading(todo) /\ ~Outer(todo) /\ q.headers_started
    BY <1>2, UnderIs, OnBase, OneKind
  <1>5. CASE q.completed
    <2>1. todo' = <<>> \o b
      BY <1>2, <1>5 DEF ProcessBody
    <2>2. <<>> \o b = b
      BY DEF Bases
    <2>3. QED
      BY <1>1, <1>2, <1>4, <2>1, <2>2, ReturnStep
  <1>6. CASE ~q.completed
    <2> DEFINE st == <<"body">> \o b
    <2>1. todo' = st
      BY <1>2, <1>6 DEF ProcessBody
    <2>2. /\ ~Heading(st) /\ Stack(st) /\ st # <<>> /\ ~Emitting(st)
          /\ (Written(st) <=> Written(todo)) /\ Safe(q, st)
      <3>1. st \in Over(b)
        BY DEF Over
      <3>2. Bodying(st)
        BY OnBase
      <3> HIDE DEF st
      <3>3. QED
        BY <1>2, <3>1, <3>2, UnderIs, OneKind
    <2> HIDE DEF st
    <2>3. Response(q, peer, st)
      BY <1>3, <1>4, <1>6, <2>2 DEF Response
    <2>4. Connection(q, net, st)
      BY <1>3, <1>4, <2>2 DEF Connection
    <2>5. QED
      BY <1>1, <1>3, <1>4, <2>1, <2>2, <2>3, <2>4, SameSelf, ResponseStep
  <1>7. QED
    BY <1>5, <1>6

\* What is left of a buffer behind its first units.
LEMMA RestIs ==
  ASSUME NEW S, NEW w \in Seq(S), NEW k \in 0 .. Len(w)
  PROVE  LET rest == SubSeq(w, k + 1, Len(w))
         IN /\ rest \in Seq(S) /\ Len(rest) = Len(w) - k
            /\ \A i \in 1 .. Len(w) - k : rest[i] = w[i + k]
            /\ k = Len(w) => rest = <<>>
  <1>1. Len(w) \in Nat
    OBVIOUS
  <1>2. SubSeq(w, k + 1, Len(w)) \in Seq(S)
    BY <1>1
  <1>3. Len(SubSeq(w, k + 1, Len(w))) = Len(w) - k
    BY <1>1
  <1>4. \A i \in 1 .. Len(w) - k : SubSeq(w, k + 1, Len(w))[i] = w[i + k]
    BY <1>1
  <1>5. k = Len(w) => SubSeq(w, k + 1, Len(w)) = <<>>
    BY <1>1
  <1>6. QED
    BY <1>2, <1>3, <1>4, <1>5

\* The body is processed while the framing is one with a body.
LEMMA AtBody ==
  ASSUME Inv, Top = "body", q.body_mode \in {"content_length", "chunked", "eof"}
  PROVE  /\ Tail(todo) \in Bases /\ todo \in Over(Tail(todo))
         /\ Bodying(todo) /\ ~Heading(todo)
         /\ q \in Request /\ peer \in Peer /\ net \in Net
         /\ Response(q, peer, todo) /\ Bytes(q, peer)
         /\ Connection(q, net, todo)
         /\ q.headers_started /\ q.pending \in {"headers", "none"}
         /\ q.headers_seen /\ q.body_mode = peer.shape.framing
         /\ ~q.interim /\ peer.interims = 0
  <1>1. PICK b \in Bases :
          todo = <<"body">> \o b /\ Tail(todo) = b /\ todo \in Over(b)
    BY UnderTop
  <1>2. Bodying(todo) /\ ~Heading(todo)
    BY <1>1, OnBase, OneKind
  <1>3. /\ q \in Request /\ peer \in Peer /\ net \in Net
        /\ Response(q, peer, todo) /\ Bytes(q, peer)
        /\ Connection(q, net, todo)
    BY DEF Inv, Types, Response
  <1>4. q.headers_started /\ q.pending \in {"headers", "none"}
    BY <1>1, UnderIs
  <1>5. /\ q.headers_seen /\ q.body_mode = peer.shape.framing
        /\ ~q.interim /\ peer.interims = 0
    BY <1>3 DEF Response
  <1>6. QED
    BY <1>1, <1>2, <1>3, <1>4, <1>5

\* emit_body() with the first units of the buffer.
LEMMA EmitStep ==
  ASSUME Inv, Top = "body", NEW k \in 1 .. Len(q.buffer), EmitBody(k),
         q.body_mode \in {"content_length", "chunked", "eof"},
         q.body_mode = "content_length" => k <= q.remaining,
         q.body_mode = "eof" => k = Len(q.buffer),
         q.completed => q.ended_in_headers /\ q.body_mode = "eof",
         peer' = peer
  PROVE  Inv'
  <1> DEFINE st == <<"data", "body">> \o Tail(todo)
             rest == SubSeq(q.buffer, k + 1, Len(q.buffer))
             late == q.late \/ q.completed
             more == q.delivered + k
             left == IF q.remaining > k THEN q.remaining - k ELSE 0
             z == [q EXCEPT !.late = late, !.delivered = more,
                            !.buffer = rest, !.remaining = left]
  <1>1. /\ Tail(todo) \in Bases /\ todo \in Over(Tail(todo))
        /\ Bodying(todo) /\ ~Heading(todo)
        /\ q \in Request /\ peer \in Peer /\ net \in Net
        /\ Response(q, peer, todo) /\ Bytes(q, peer)
        /\ Connection(q, net, todo)
        /\ q.headers_started /\ q.pending \in {"headers", "none"}
        /\ q.headers_seen /\ q.body_mode = peer.shape.framing
        /\ ~q.interim /\ peer.interims = 0
    BY AtBody
  <1>2. q' = z /\ net' = net /\ todo' = st
    <2> DEFINE c == [q EXCEPT !.late = late]
    <2>1. /\ q' = [c EXCEPT !.delivered = c.delivered + k,
                            !.buffer = SubSeq(c.buffer, k + 1, Len(q.buffer)),
                            !.remaining = IF c.remaining > k
                                          THEN c.remaining - k ELSE 0]
          /\ net' = net /\ todo' = st
      BY DEF EmitBody, Call
    <2>2. /\ c.buffer = q.buffer /\ c.delivered = q.delivered
          /\ c.remaining = q.remaining
      BY <1>1 DEF Request
    <2>3. q' = [c EXCEPT !.delivered = more, !.buffer = rest,
                         !.remaining = left]
      BY <2>1, <2>2
    <2>4. QED
      BY <2>1, <2>3
  <1>3. /\ q.buffer \in Seq(Units) /\ Len(q.buffer) \in Nat
        /\ q.delivered \in Nat /\ q.remaining \in Nat /\ Used(q) \in Nat
    BY <1>1, ResponseTyped
  <1>4. k \in 0 .. Len(q.buffer) /\ k \in Nat /\ more \in Nat /\ left \in Nat
    BY <1>3
  <1>5. /\ rest \in Seq(Units) /\ Len(rest) = Len(q.buffer) - k
        /\ \A i \in 1 .. Len(q.buffer) - k : rest[i] = q.buffer[i + k]
        /\ k = Len(q.buffer) => rest = <<>>
    BY <1>3, <1>4, RestIs
  <1>6. late \in BOOLEAN
    OBVIOUS
  <1> HIDE DEF rest, late, more, left
  <1>7. z \in Request
    BY <1>1, <1>4, <1>5, <1>6, ZenonT(60) DEF Request
  <1>8. SameUpload(q, z) /\ SameEnd(q, z)
    BY <1>1 DEF Request, SameUpload, SameEnd
  <1>9. /\ z.body_mode = q.body_mode /\ z.remaining = left
        /\ z.delivered = more /\ z.buffer = rest
        /\ z.headers_seen <=> q.headers_seen
        /\ z.completed <=> q.completed
        /\ z.ended_in_headers <=> q.ended_in_headers
        /\ z.result = q.result /\ z.timer = q.timer
        /\ z.pending = q.pending /\ z.stream = q.stream /\ z.lower = q.lower
        /\ z.headers_started <=> q.headers_started
        /\ z.late <=> late
        /\ z.secure <=> q.secure
        /\ z.interim <=> q.interim
    BY <1>1 DEF Request
  <1> HIDE DEF z
  <1>10. Used(z) = Used(q) + k
    BY <1>1, <1>3, <1>4, <1>9 DEF Used, more
  <1>11. Bytes(z, peer)
    BY <1>1, <1>4, <1>5, <1>7, <1>9, <1>10, BytesConsumed
  <1>12. q.body_mode = "content_length" => more + left = q.delivered
                                                         + q.remaining
    BY <1>3, <1>4 DEF more, left
  <1>13. /\ ~Heading(st) /\ Stack(st) /\ st # <<>> /\ ~Bodying(st)
         /\ (Written(st) <=> Written(todo)) /\ Safe(z, st) /\ ~Outer(todo)
    <2>1. st \in Over(Tail(todo))
      BY DEF Over
    <2>2. Emitting(st)
      BY <1>1, OnBase
    <2> HIDE DEF st
    <2>3. QED
      BY <1>1, <1>9, <2>1, <2>2, UnderIs, OneKind
  <1>14. Response(z, peer, st)
    <2>1. q.result = "success" => q.completed
      BY <1>1 DEF Response
    <2> HIDE DEF st
    <2>2. QED
      BY <1>1, <1>5, <1>9, <1>11, <1>12, <1>13, <2>1 DEF Response
  <1> HIDE DEF st
  <1>15. Connection(z, net, st)
    <2>1. ~q.ended_in_headers => (late <=> q.late)
      BY DEF late
    <2>2. Place(q, net) => Place(z, net)
      BY <1>9 DEF Place
    <2>3. z.timer = q.timer => (Spare(z) <=> Spare(q))
      BY <1>9 DEF Spare
    <2>4. QED
      BY <1>1, <1>9, <1>13, <2>1, <2>2, <2>3 DEF Connection
  <1>16. QED
    BY <1>1, <1>2, <1>7, <1>8, <1>9, <1>13, <1>14, <1>15, ResponseStep

\* process_content_length_body() keeps the invariant.
LEMMA ProcessContentLengthBodyInv ==
  ASSUME Inv, ProcessContentLengthBody
  PROVE  Inv'
  <1>1. /\ Top = "body" /\ q.body_mode = "content_length" /\ peer' = peer
        /\ IF q.completed THEN Return
           ELSE IF q.remaining = 0 THEN Finish
           ELSE IF q.buffer = <<>> THEN Return
           ELSE EmitBody(Min({q.remaining, Len(q.buffer)}))
    BY DEF ProcessContentLengthBody
  <1>2. /\ Tail(todo) \in Bases /\ todo \in Over(Tail(todo))
        /\ ~Heading(todo) /\ ~q.interim /\ peer.interims = 0
        /\ q \in Request /\ peer \in Peer /\ net \in Net
        /\ Response(q, peer, todo) /\ q.headers_started
        /\ q.headers_seen /\ q.body_mode = peer.shape.framing
    BY <1>1, AtBody
  <1>3. CASE Return
    BY <1>1, <1>2, <1>3, ReturnStep DEF Return
  <1>4. CASE ~q.completed /\ q.remaining = 0 /\ Finish
    <2>1. Response(q, peer, Tail(todo))
      BY <1>2, ResponseUnwinds
    <2>2. q.delivered = peer.shape.body
      <3>1. q.delivered + q.remaining = peer.shape.body /\ q.delivered \in Nat
        BY <1>1, <1>2, ResponseTyped DEF Response
      <3>2. QED
        BY <1>4, <3>1
    <2>3. QED
      BY <1>1, <1>2, <1>4, <2>1, <2>2, SameSelf, FinishStep DEF Finish
  <1>5. CASE /\ ~q.completed /\ q.remaining # 0 /\ q.buffer # <<>>
             /\ EmitBody(Min({q.remaining, Len(q.buffer)}))
    <2> DEFINE n == Len(q.buffer)
               k == Min({q.remaining, n})
    <2>1. q.remaining \in Nat /\ n \in Nat /\ n # 0
      <3>1. q.remaining \in Nat /\ q.buffer \in Seq(Units)
        BY <1>2, ResponseTyped
      <3>2. QED
        BY <1>5, <3>1
    <2> HIDE DEF n
    <2>2. k = IF q.remaining <= n THEN q.remaining ELSE n
      BY <2>1, LeastOfPair
    <2>3. k \in 1 .. n /\ k <= q.remaining
      BY <1>5, <2>1, <2>2
    <2>4. EmitBody(k)
      BY <1>5 DEF n
    <2> HIDE DEF k
    <2>5. QED
      BY <1>1, <1>5, <2>3, <2>4, EmitStep DEF n
  <1>6. QED
    BY <1>1, <1>3, <1>4, <1>5

\* process_chunked_body() keeps the invariant.
LEMMA ProcessChunkedBodyInv ==
  ASSUME Inv, ProcessChunkedBody
  PROVE  Inv'
  <1>1. /\ Top = "body" /\ q.body_mode = "chunked" /\ peer' = peer
        /\ IF q.completed \/ q.buffer = <<>> THEN Return
           ELSE IF Head(q.buffer) = "last" THEN Finish
           ELSE IF Overflows(1) THEN TooLong
           ELSE EmitBody(1)
    BY DEF ProcessChunkedBody
  <1>2. /\ Tail(todo) \in Bases /\ todo \in Over(Tail(todo))
        /\ ~Heading(todo) /\ ~q.interim /\ peer.interims = 0
        /\ q \in Request /\ peer \in Peer /\ net \in Net
        /\ Response(q, peer, todo) /\ Bytes(q, peer) /\ q.headers_started
        /\ q.headers_seen /\ q.body_mode = peer.shape.framing
    BY <1>1, AtBody
  <1>3. CASE Return
    BY <1>1, <1>2, <1>3, ReturnStep DEF Return
  <1>4. ASSUME q.buffer # <<>>
        PROVE  /\ Len(q.buffer) \in Nat \ {0} /\ 1 \in 1 .. Len(q.buffer)
               /\ Head(q.buffer) = q.buffer[1]
    <2>1. q.buffer \in Seq(Units)
      BY <1>2, ResponseTyped
    <2>2. QED
      BY <1>4, <2>1
  <1>5. CASE /\ ~q.completed /\ q.buffer # <<>> /\ Head(q.buffer) = "last"
             /\ Finish
    <2>1. Response(q, peer, Tail(todo))
      BY <1>2, ResponseUnwinds
    <2>2. q.delivered = peer.shape.body
      <3> DEFINE d == q.delivered
                 n == Len(q.buffer)
                 l == Len(peer.inbox)
                 b == peer.shape.body
      <3>1. /\ d \in Nat /\ n \in Nat \ {0} /\ l \in Nat /\ b \in Nat
            /\ peer.sent \in {"nothing", "head", "body"}
        BY <1>2, <1>4, <1>5, ResponseTyped
      <3>2. Used(q) = d + 1 /\ Arrived(q, peer) = d + 1 + n + l
        BY <1>2 DEF Used, Arrived
      <3>3. Unit(peer, d + 1 + 1) = "last"
        BY <1>2, <1>4, <1>5, <3>2 DEF Bytes
      <3>4. peer.sent = "body"
        <4>1. /\ peer.sent = "nothing" => d + 1 + n + l = 0
              /\ peer.sent = "head" => d + 1 + n + l = 0 + 1
          BY <1>2, <3>2 DEF Bytes
        <4> HIDE DEF d, n, l
        <4>2. d + 1 + n + l > 1
          BY <3>1
        <4>3. QED
          BY <3>1, <4>1, <4>2
      <3>5. d + 1 + n + l <= 0 + 1 + (b + 1)
        BY <1>1, <1>2, <3>2, <3>4 DEF Bytes, Length
      <3>6. ~(d + 1 + 1 <= 0 + 1 + b)
        BY <1>2, <3>3 DEF Unit
      <3> HIDE DEF d, n, l, b
      <3>7. d = b
        BY <3>1, <3>5, <3>6
      <3>8. QED
        BY <3>7 DEF d, b
    <2>3. QED
      BY <1>1, <1>2, <1>5, <2>1, <2>2, SameSelf, FinishStep DEF Finish
  <1>6. CASE ~q.completed /\ TooLong
    BY <1>1, <1>2, <1>6, FailBody DEF TooLong
  <1>7. CASE ~q.completed /\ q.buffer # <<>> /\ EmitBody(1)
    BY <1>1, <1>4, <1>7, EmitStep
  <1>8. QED
    BY <1>1, <1>3, <1>5, <1>6, <1>7

\* emit_buffer_as_body() keeps the invariant.
LEMMA EmitBufferAsBodyInv ==
  ASSUME Inv, EmitBufferAsBody
  PROVE  Inv'
  <1>1. /\ Top = "body" /\ q.body_mode = "eof" /\ peer' = peer
        /\ IF q.buffer = <<>> THEN Return
           ELSE IF Overflows(Len(q.buffer)) THEN TooLong
           ELSE EmitBody(Len(q.buffer))
    BY DEF EmitBufferAsBody
  <1>2. /\ Tail(todo) \in Bases /\ todo \in Over(Tail(todo))
        /\ Bodying(todo) /\ ~Heading(todo) /\ ~q.interim /\ peer.interims = 0
        /\ q \in Request /\ peer \in Peer /\ net \in Net
        /\ Response(q, peer, todo) /\ q.headers_started
        /\ q.headers_seen /\ q.body_mode = peer.shape.framing
    BY <1>1, AtBody
  <1>3. CASE Return
    BY <1>1, <1>2, <1>3, ReturnStep DEF Return
  <1>4. q.buffer # <<>> => (q.completed => q.ended_in_headers)
    BY <1>1, <1>2 DEF Response
  <1>5. CASE q.buffer # <<>> /\ TooLong
    BY <1>1, <1>2, <1>4, <1>5, FailBody DEF TooLong
  <1>6. CASE q.buffer # <<>> /\ EmitBody(Len(q.buffer))
    <2>1. q.buffer \in Seq(Units)
      BY <1>2, ResponseTyped
    <2>2. Len(q.buffer) \in 1 .. Len(q.buffer)
      BY <1>6, <2>1
    <2>3. QED
      BY <1>1, <1>4, <1>6, <2>2, EmitStep
  <1>7. QED
    BY <1>1, <1>3, <1>5, <1>6

\* While the response is read, the head was written on a stream.
LEMMA ReadingIs ==
  ASSUME Inv, Reading
  PROVE  /\ todo \in Bases /\ (todo # <<>> => q.secure)
         /\ ~q.completed /\ q.headers_started /\ q.reading_response
         /\ ~Heading(todo)
  <1>1. q.reading_response /\ ~q.completed
    BY DEF Reading
  <1>2. todo \in Bases /\ (todo # <<>> => q.secure)
    BY TopIs DEF Reading, Idle, Inv, Types, Waiting, Bases
  <1>3. q.headers_started
    BY <1>1 DEF Inv, Upload, Sound, Uploaded
  <1>4. QED
    BY <1>1, <1>2, <1>3, OnBase

\* More of what has arrived is in the buffer.
LEMMA OnReadInv ==
  ASSUME Inv, OnRead
  PROVE  Inv'
  <1>1. /\ todo \in Bases /\ (todo # <<>> => q.secure)
        /\ q.reading_response /\ ~q.completed
        /\ todo' = <<"process">> \o todo /\ net' = net
    BY ReadingIs DEF OnRead
  <1>2. PICK k \in 1 .. Len(peer.inbox) :
          /\ q' = [q EXCEPT !.buffer = @ \o SubSeq(peer.inbox, 1, k)]
          /\ peer' = [peer EXCEPT
                        !.inbox = SubSeq(@, k + 1, Len(peer.inbox))]
    BY DEF OnRead
  <1>3. /\ q \in Request /\ peer \in Peer /\ Response(q, peer, todo)
        /\ Bytes(q, peer) /\ Connection(q, net, todo) /\ Sound(q)
    BY DEF Inv, Types, Response, Upload
  <1>4. q.headers_started
    BY <1>1, <1>3 DEF Sound, Uploaded
  <1> DEFINE old == q.buffer
             box == peer.inbox
             part == SubSeq(box, 1, k)
             new == old \o part
             rest == SubSeq(box, k + 1, Len(box))
             z == [q EXCEPT !.buffer = new]
             p == [peer EXCEPT !.inbox = rest]
             n == Len(old)
             l == Len(box)
             u == Used(q)
  <1>5. q' = z /\ peer' = p
    BY <1>2
  <1>6. /\ old \in Seq(Units) /\ box \in Seq(Units) /\ n \in Nat /\ l \in Nat
        /\ u \in Nat /\ k \in 0 .. l /\ k \in Nat
    BY <1>3, ResponseTyped
  <1>7. /\ rest \in Seq(Units) /\ Len(rest) = l - k
        /\ \A i \in 1 .. l - k : rest[i] = box[i + k]
    <2> HIDE DEF box
    <2>1. QED
      BY <1>6, RestIs
  <1>8. /\ part \in Seq(Units) /\ Len(part) = k
        /\ \A i \in 1 .. k : part[i] = box[i]
    <2> HIDE DEF box
    <2>1. QED
      BY <1>6
  <1>9. /\ new \in Seq(Units) /\ Len(new) = n + k
        /\ \A i \in 1 .. n : new[i] = old[i]
        /\ \A i \in 1 .. k : new[n + i] = box[i]
    <2> HIDE DEF old, part, box
    <2>1. /\ new \in Seq(Units) /\ Len(new) = Len(old) + Len(part)
          /\ \A i \in 1 .. Len(new) :
               new[i] = IF i <= Len(old) THEN old[i] ELSE part[i - Len(old)]
      <3>1. old \in Seq(Units) /\ part \in Seq(Units)
        BY <1>6, <1>8
      <3>2. QED
        BY <3>1, ConcatProperties
    <2>2. \A i \in 1 .. n : i \in 1 .. Len(new) /\ i <= n
      BY <1>6, <1>8, <2>1
    <2>3. \A i \in 1 .. k : /\ n + i \in 1 .. Len(new) /\ ~(n + i <= n)
                            /\ n + i - n = i
      BY <1>6, <1>8, <2>1
    <2>4. QED
      BY <1>8, <2>1, <2>2, <2>3
  <1> HIDE DEF new, rest
  <1>10. z \in Request
    BY <1>3, <1>9, ZenonT(60) DEF Request
  <1>11. SameUpload(q, z) /\ SameEnd(q, z) /\ SameWay(q, z)
    BY <1>3 DEF Request, SameUpload, SameEnd, SameWay
  <1>12. /\ z.body_mode = q.body_mode /\ z.remaining = q.remaining
         /\ z.delivered = q.delivered /\ z.buffer = new
         /\ z.headers_seen <=> q.headers_seen
         /\ z.interim <=> q.interim
         /\ z.completed <=> q.completed
         /\ z.result = q.result /\ z.timer = q.timer
    BY <1>3 DEF Request
  <1>13. /\ p \in Peer /\ p.inbox = rest /\ p.shape = peer.shape
         /\ p.sent = peer.sent /\ p.interims = peer.interims
    BY <1>3, <1>7 DEF Peer
  <1> HIDE DEF z, p
  <1>14. Used(z) = u
    BY <1>12 DEF Used
  <1>15. /\ \A i \in 1 .. n : old[i] = Unit(peer, u + i)
         /\ \A i \in 1 .. l : box[i] = Unit(peer, u + n + i)
         /\ Arrived(q, peer) = u + n + l
    BY <1>3 DEF Bytes, Arrived
  <1>16. Arrived(z, p) = u + (n + k) + (l - k)
    BY <1>7, <1>9, <1>12, <1>13, <1>14 DEF Arrived
  <1> HIDE DEF n, l, u, box, old
  <1>17. \A i \in 1 .. n + k : new[i] = Unit(peer, u + i)
    <2> SUFFICES ASSUME NEW i \in 1 .. n + k
                 PROVE  new[i] = Unit(peer, u + i)
      OBVIOUS
    <2>1. CASE i <= n
      BY <1>6, <1>9, <1>15, <2>1
    <2>2. CASE ~(i <= n)
      <3>1. /\ i - n \in 1 .. k /\ n + (i - n) = i /\ i - n \in 1 .. l
            /\ u + n + (i - n) = u + i
        BY <1>6, <2>2
      <3>2. new[i] = box[i - n]
        BY <1>9, <3>1
      <3>3. QED
        BY <1>15, <3>1, <3>2
    <2>3. QED
      BY <2>1, <2>2
  <1>18. \A i \in 1 .. l - k : rest[i] = Unit(peer, u + (n + k) + i)
    <2> SUFFICES ASSUME NEW i \in 1 .. l - k
                 PROVE  rest[i] = Unit(peer, u + (n + k) + i)
      OBVIOUS
    <2>1. i + k \in 1 .. l /\ u + n + (i + k) = u + (n + k) + i
      BY <1>6
    <2>2. QED
      BY <1>7, <1>15, <2>1
  <1>19. Arrived(z, p) = Arrived(q, peer)
    BY <1>6, <1>15, <1>16
  <1>20. Bytes(z, p)
    <2>1. (\A i : Unit(p, i) = Unit(peer, i)) /\ Length(p) = Length(peer)
      BY <1>13 DEF Unit, Length
    <2>2. QED
      BY <1>3, <1>7, <1>9, <1>12, <1>13, <1>14, <1>17, <1>18, <1>19, <2>1
      DEF Bytes
  <1> DEFINE st == <<"process">> \o todo
  <1>21. /\ ~Heading(st) /\ Stack(st) /\ st # <<>> /\ ~Bodying(st)
         /\ ~Emitting(st) /\ (Written(st) <=> Written(todo)) /\ Safe(z, st)
         /\ ~Heading(todo)
    <2>1. st \in Over(todo)
      BY DEF Over
    <2>2. Processing(st) /\ ~Heading(todo)
      BY <1>1, OnBase
    <2>3. /\ Stack(st) /\ st # <<>> /\ (Written(st) <=> Written(todo))
          /\ Inside(st) <=> todo # <<>>
          /\ ~Waiting(st)
      BY <1>1, <2>1, OnBase
    <2> HIDE DEF st
    <2>4. Safe(z, st)
      BY <1>1, <1>11, <2>3 DEF Safe, SameWay
    <2>5. QED
      BY <2>2, <2>3, <2>4, OneKind
  <1>22. todo' = st
    BY <1>1
  <1> HIDE DEF st
  <1>23. Response(z, p, st)
    BY <1>3, <1>12, <1>13, <1>20, <1>21 DEF Response
  <1>24. Connection(z, net, st)
    <2>1. z.headers_started
      BY <1>4, <1>11 DEF SameWay
    <2>2. QED
      BY <1>3, <1>11, <1>12, <1>21, <2>1, ConnectionKept
  <1>25. QED
    BY <1>1, <1>5, <1>10, <1>11, <1>12, <1>13, <1>21, <1>22, <1>23, <1>24,
       ResponseStep

\* A read error keeps the invariant.
LEMMA OnReadErrorInv ==
  ASSUME Inv, OnReadError
  PROVE  Inv'
  <1>1. /\ todo \in Bases /\ (todo # <<>> => q.secure)
        /\ ~q.completed /\ q.headers_started
    BY ReadingIs DEF OnReadError
  <1>2. Becomes(FailRequestBody(q, net)) /\ todo' = todo /\ peer' = peer
    BY DEF OnReadError
  <1>3. QED
    BY <1>1, <1>2, FailBody

\* on_eof() keeps the invariant.
LEMMA OnEofInv ==
  ASSUME Inv, OnEof
  PROVE  Inv'
  <1>1. /\ todo \in Bases /\ (todo # <<>> => q.secure)
        /\ ~q.completed /\ q.headers_started /\ ~Heading(todo)
    BY ReadingIs DEF OnEof
  <1>2. /\ q \in Request /\ net \in Net /\ peer \in Peer
        /\ Response(q, peer, todo) /\ Connection(q, net, todo)
        /\ todo' = todo /\ peer' = peer
        /\ q.stream \in Streams \cup {NoStream}
    BY DEF Inv, Types, OnEof, Request
  <1>3. CASE ~EofIsEnd
    BY <1>1, <1>2, <1>3, FailBody DEF OnEof
  <1>4. CASE EofIsEnd
    <2> DEFINE m == CloseStream(net, q.stream)
    <2>1. /\ m \in Net
          /\ q.stream \in Streams => m.life[q.stream] # "open"
      BY <1>2, CloseIs
    <2>2. Mine(net, q.stream) /\ Pool(net)
      BY <1>1, <1>2 DEF Connection, Place
    <2>3. Pool(m)
      BY <1>2, <2>2, ClosePool DEF Mine
    <2>4. Becomes(Complete(q, m, "success"))
      BY <1>4 DEF OnEof
    <2> HIDE DEF m
    <2>5. Complete(q, m, "success").n = m
      BY <1>2, CompleteIs
    <2>6. q' = Complete(q, m, "success").r /\ net' = m
      BY <2>4, <2>5 DEF Becomes
    <2>7. /\ q.headers_seen /\ q.body_mode # "chunked"
          /\ q.body_mode = "content_length" => q.remaining = 0
      BY <1>4 DEF EofIsEnd
    <2>8. q.interim \/ q.body_mode = peer.shape.framing
      BY <1>1, <1>2, <2>7 DEF Response
    <2>9. q.body_mode \in {"unknown", "none", "content_length", "chunked",
                           "eof"}
      BY <1>2 DEF Request
    <2>10. \/ q.interim \/ peer.shape.framing = "eof"
           \/ q.delivered = peer.shape.body
      <3>1. q.body_mode = "none" =>
              q.interim \/ (q.delivered = 0 /\ peer.shape.body = 0)
        BY <1>2, <2>8, ResponseTyped DEF Response
      <3>2. q.body_mode = "content_length" => q.delivered = peer.shape.body
        <4>1. q.delivered \in Nat
          BY <1>2, ResponseTyped
        <4>2. q.body_mode = "content_length" =>
                q.delivered + q.remaining = peer.shape.body
          BY <1>2 DEF Response
        <4>3. QED
          BY <2>7, <4>1, <4>2
      <3>3. q.body_mode # "unknown"
        BY <1>1, <1>2, <2>7 DEF Response
      <3>4. QED
        BY <2>7, <2>8, <2>9, <3>1, <3>2, <3>3
    <2>11. q.stream # NoStream => m.life[q.stream] # "open"
      BY <1>2, <2>1
    <2>12. QED
      BY <1>1, <1>2, <2>1, <2>3, <2>6, <2>7, <2>10, <2>11, SameSelf,
         SucceedStep
  <1>5. QED
    BY <1>3, <1>4

-------------------------------------------------------------------------------
(***************************************************************************)
(* Cancellation, timers, returns of callbacks, closed streams, the server. *)
(***************************************************************************)

\* cancel() keeps the invariant.
LEMMA CancelInv ==
  ASSUME Inv, Cancel
  PROVE  Inv'
  <1> DEFINE z == [q EXCEPT !.ended_in_headers = Top = "headers"]
  <1>1. /\ Calling /\ q.pending # "new" /\ ~q.completed
        /\ todo' = todo /\ peer' = peer
        /\ q' = Abandon(z, net).r /\ net' = Abandon(z, net).n
    BY DEF Cancel, Becomes
  <1>2. q \in Request /\ Stack(todo)
    BY DEF Inv, Types
  <1>3. z \in Request
    BY <1>2, ZenonT(60) DEF Request
  <1>4. /\ SameResponse(q, z) /\ SameWay(q, z) /\ SameUpload(q, z)
        /\ z.ended_in_headers <=> Top = "headers"
        /\ ~z.completed
    BY <1>1, <1>2, ZenonT(60) DEF Request, SameResponse, SameWay, SameUpload
  <1> HIDE DEF z
  <1>5. /\ Unwinds(todo, todo') /\ (Heading(todo') => z.ended_in_headers)
        /\ ~Waiting(todo')
    BY <1>1, <1>2, <1>4, CallingIs
  <1>6. Inside(todo') => q.secure
    BY <1>1 DEF Inv, Connection, Safe
  <1>7. QED
    BY <1>1, <1>3, <1>4, <1>5, <1>6, AbandonStep

\* on_timeout() keeps the invariant.
LEMMA OnTimeoutInv ==
  ASSUME Inv, OnTimeout
  PROVE  Inv'
  <1>1. todo = <<>> /\ q.timer # "none" /\ todo' = todo /\ peer' = peer
    BY DEF OnTimeout, Idle
  <1>2. q \in Request /\ q.pending # "new" /\ Stack(todo)
    BY <1>1 DEF Inv, Types, Connection
  <1>3. /\ Unwinds(todo, todo') /\ ~Heading(todo') /\ ~Inside(todo')
        /\ ~Waiting(todo') /\ Safe(q, todo')
    BY <1>1, Empty
  <1>4. CASE ~q.completed
    <2>1. q' = Abandon(q, net).r /\ net' = Abandon(q, net).n
      BY <1>4 DEF OnTimeout, Becomes
    <2>2. QED
      BY <1>1, <1>2, <1>3, <1>4, <2>1, SameSelf, AbandonStep
  <1>5. CASE q.completed
    <2> DEFINE z == [q EXCEPT !.timer = "none"]
    <2>1. q' = z /\ net' = net
      BY <1>5 DEF OnTimeout, Becomes, Pair, StopPhaseTimeout
    <2>2. z \in Request
      BY <1>2, ZenonT(60) DEF Request
    <2>3. /\ SameUpload(q, z) /\ SameResponse(q, z) /\ SameEnd(q, z)
          /\ SameWay(q, z) /\ z.timer = "none"
      BY <1>2 DEF Request, SameUpload, SameResponse, SameEnd, SameWay
    <2> HIDE DEF z
    <2>4. Aside(q, z)
      BY <1>2, <2>3 DEF Aside, Spare, SameWay
    <2>5. Upload(z, todo)
      BY <2>3, UploadKept DEF Inv, SameEnd
    <2>6. QED
      BY <1>1, <1>2, <1>3, <2>1, <2>2, <2>4, <2>5, UploadStep
  <1>6. QED
    BY <1>4, <1>5

\* The return of a callback keeps the invariant.
LEMMA CallbackReturnsInv ==
  ASSUME Inv, CallbackReturns
  PROVE  Inv'
  <1>1. /\ q' = q /\ net' = net /\ peer' = peer /\ todo' = Tail(todo)
        /\ Top \in {"headers", "data", "drain"}
    BY DEF CallbackReturns, Callbacks
  <1>2. /\ q \in Request /\ peer \in Peer /\ net \in Net /\ Stack(todo)
        /\ Upload(q, todo) /\ Response(q, peer, todo)
        /\ Connection(q, net, todo)
    BY DEF Inv, Types
  <1>3. \/ todo = <<"headers", "mode">> /\ todo' = <<"mode">>
        \/ /\ todo = <<"headers", "mode", "reading">>
           /\ todo' = <<"mode", "reading">>
        \/ /\ todo = <<"headers", "mode", "reading", "drain", "written">>
           /\ todo' = <<"mode", "reading", "drain", "written">>
        \/ todo = <<"data", "body">> /\ todo' = <<"body">>
        \/ /\ todo = <<"data", "body", "reading">>
           /\ todo' = <<"body", "reading">>
        \/ /\ todo = <<"data", "body", "reading", "drain", "written">>
           /\ todo' = <<"body", "reading", "drain", "written">>
        \/ todo = <<"drain", "written">> /\ todo' = <<"written">>
    <2>1. CASE Top = "headers"
      <3>1. todo \in {<<"headers", "mode">>, <<"headers", "mode", "reading">>,
                      <<"headers", "mode", "reading", "drain", "written">>}
        <4>1. Heading(todo)
          BY <1>2, <2>1, TopIs
        <4>2. QED
          BY <2>1, <4>1 DEF Heading, Top
      <3>2. /\ Tail(<<"headers", "mode">>) = <<"mode">>
            /\ Tail(<<"headers", "mode", "reading">>) = <<"mode", "reading">>
            /\ Tail(<<"headers", "mode", "reading", "drain", "written">>) =
                 <<"mode", "reading", "drain", "written">>
        OBVIOUS
      <3>3. QED
        BY <1>1, <3>1, <3>2
    <2>2. CASE Top = "data"
      <3>1. todo \in {<<"data", "body">>, <<"data", "body", "reading">>,
                      <<"data", "body", "reading", "drain", "written">>}
        <4>1. Emitting(todo)
          BY <1>2, <2>2, TopIs
        <4>2. QED
          BY <4>1 DEF Emitting
      <3>2. /\ Tail(<<"data", "body">>) = <<"body">>
            /\ Tail(<<"data", "body", "reading">>) = <<"body", "reading">>
            /\ Tail(<<"data", "body", "reading", "drain", "written">>) =
                 <<"body", "reading", "drain", "written">>
        OBVIOUS
      <3>3. QED
        BY <1>1, <3>1, <3>2
    <2>3. CASE Top = "drain"
      <3>1. todo = <<"drain", "written">>
        BY <1>2, <2>3, TopIs
      <3>2. Tail(<<"drain", "written">>) = <<"written">>
        BY TailIs
      <3>3. QED
        BY <1>1, <3>1, <3>2
    <2>4. QED
      BY <1>1, <2>1, <2>2, <2>3
  <1>4. /\ Stack(todo') /\ todo # <<>> /\ todo' # <<>>
        /\ Outer(todo') <=> Outer(todo)
        /\ Inside(todo') <=> Inside(todo)
        /\ ~Waiting(todo') /\ ~Waiting(todo)
    BY <1>3 DEF Stack, Outer, Waiting, Processing, Heading, Bodying, Emitting,
                Inside
  <1>5. /\ Written(todo') <=> Written(todo)
        /\ Heading(todo') <=> Heading(todo)
        /\ ~Emitting(todo')
        /\ Bodying(todo') => Emitting(todo)
    BY <1>3 DEF Written, Heading, Bodying, Emitting
  <1>6. Response(q, peer, todo')
    BY <1>2, <1>5 DEF Response
  <1>7. Connection(q, net, todo')
    BY <1>2, <1>4, <1>5 DEF Connection, Safe
  <1>8. Upload(q, todo')
    BY <1>2, <1>4, <1>5, SameSelf, UploadKept
  <1>9. QED
    BY <1>1, <1>2, <1>4, <1>6, <1>7, <1>8, InvNext

\* A step of the connections alone.
LEMMA NetStep ==
  ASSUME Inv, NEW m \in Net, Pool(net) => Pool(m),
         \A t : Mine(net, t) => Mine(m, t),
         \A t \in Streams : m.life[t] = "open" => net.life[t] = "open",
         q' = q, net' = m, todo' = todo, peer' = peer
  PROVE  Inv'
  <1>1. /\ q \in Request /\ peer \in Peer /\ Stack(todo)
        /\ q.stream \in Streams \cup {NoStream}
        /\ Upload(q, todo) /\ Response(q, peer, todo)
        /\ Connection(q, net, todo)
    BY DEF Inv, Types, Request
  <1>2. Place(q, net) => Place(q, m)
    BY DEF Place
  <1>3. Connection(q, m, todo)
    BY <1>1, <1>2 DEF Connection
  <1>4. QED
    BY <1>1, <1>3, InvNext

\* The close callback of a stream keeps the invariant.
LEMMA OnClosedInv ==
  ASSUME Inv, OnClosed
  PROVE  Inv'
  <1>1. PICK s \in Streams : /\ net.life[s] = "closing"
                             /\ net' = [net EXCEPT !.life[s] = "closed"]
    BY DEF OnClosed
  <1>2. q' = q /\ todo' = todo /\ peer' = peer /\ net \in Net
    BY DEF OnClosed, Inv, Types
  <1> DEFINE m == [net EXCEPT !.life[s] = "closed"]
  <1>3. net.life \in [Streams -> Lives]
    BY <1>2, NetTyped
  <1>4. m \in Net
    BY <1>2, <1>3 DEF Net, Lives
  <1>5. m.idle = net.idle /\ m.life = [net.life EXCEPT ![s] = "closed"]
    BY <1>2 DEF Net
  <1>6. net' = m
    BY <1>1
  <1> HIDE DEF m
  <1>7. \A t \in Streams : m.life[t] = IF t = s THEN "closed" ELSE net.life[t]
    BY <1>3, <1>5
  <1>8. \A t : InPool(m, t) <=> InPool(net, t)
    BY <1>5 DEF InPool
  <1>9. Pool(net) => Pool(m)
    BY <1>1, <1>5, <1>7, <1>8 DEF Pool
  <1>10. \A t : Mine(net, t) => Mine(m, t)
    BY <1>1, <1>7, <1>8 DEF Mine
  <1>11. QED
    BY <1>2, <1>4, <1>6, <1>7, <1>9, <1>10, NetStep

\* The idle timer of the pool keeps the invariant.
LEMMA IdleTimeoutInv ==
  ASSUME Inv, IdleTimeout
  PROVE  Inv'
  <1>1. PICK k \in DOMAIN net.idle[Origin] : net' = Expire(net, Origin, k)
    BY DEF IdleTimeout
  <1>2. q' = q /\ todo' = todo /\ peer' = peer /\ net \in Net
    BY DEF IdleTimeout, Inv, Types
  <1> DEFINE m == Expire(net, Origin, k)
  <1>3. /\ m \in Net /\ Fades(net, m)
        /\ \A t : InPool(m, t) => InPool(net, t)
        /\ \A t \in Streams : ~InPool(net, t) => m.life[t] = net.life[t]
        /\ Pool(net) => Pool(m)
    BY <1>2, ExpireIs
  <1>4. net' = m
    BY <1>1
  <1> HIDE DEF m
  <1>5. \A t : Mine(net, t) => Mine(m, t)
    BY <1>3 DEF Mine
  <1>6. \A t \in Streams : m.life[t] = "open" => net.life[t] = "open"
    BY <1>3 DEF Fades
  <1>7. QED
    BY <1>2, <1>3, <1>4, <1>5, <1>6, NetStep

\* A step of the server alone.
LEMMA PeerStep ==
  ASSUME Inv, NEW p \in Peer, Response(q, p, todo),
         q' = q, net' = net, todo' = todo, peer' = p
  PROVE  Inv'
  <1>1. /\ q \in Request /\ net \in Net /\ Stack(todo)
        /\ Upload(q, todo) /\ Connection(q, net, todo)
    BY DEF Inv, Types
  <1>2. QED
    BY <1>1, InvNext

\* A unit of the response that is sent before its body keeps the invariant.
LEMMA SendStep ==
  ASSUME Inv, Answers, NEW x \in Units, NEW p \in Peer,
         p.inbox = Append(peer.inbox, x), Unit(p, peer.interims + 1) = x,
         \A i \in 1 .. peer.interims : Unit(p, i) = "interim",
         \/ p.sent = "nothing" /\ p.interims = peer.interims + 1
         \/ p.sent = "head" /\ p.interims = peer.interims,
         q' = q, net' = net, todo' = todo, peer' = p
  PROVE  Inv'
  <1>1. todo = <<>> /\ peer.sent = "nothing"
    BY DEF Answers, Idle
  <1>2. /\ q \in Request /\ peer \in Peer /\ Response(q, peer, todo)
        /\ Bytes(q, peer)
    BY DEF Inv, Types, Response
  <1> DEFINE u == Used(q)
             n == Len(q.buffer)
             l == Len(peer.inbox)
             k == peer.interims
  <1>3. /\ u \in Nat /\ n \in Nat /\ l \in Nat /\ q.delivered \in Nat
        /\ k \in Nat /\ peer.inbox \in Seq(Units)
    BY <1>2, ResponseTyped DEF Peer
  <1>4. u + n + l = k
    BY <1>1, <1>2 DEF Bytes, Arrived
  <1>5. q.headers_seen => u = q.delivered + 1
    BY DEF Used
  <1>6. /\ Len(p.inbox) = l + 1
        /\ \A i \in 1 .. l : p.inbox[i] = peer.inbox[i]
        /\ p.inbox[l + 1] = x
    <2> DEFINE box == peer.inbox
    <2>1. box \in Seq(Units) /\ p.inbox = Append(box, x)
      BY <1>3
    <2> HIDE DEF box
    <2>2. /\ Len(Append(box, x)) = Len(box) + 1
          /\ \A i \in 1 .. Len(box) : Append(box, x)[i] = box[i]
          /\ Append(box, x)[Len(box) + 1] = x
      BY <2>1
    <2>3. QED
      BY <2>1, <2>2 DEF box
  <1>7. /\ \A i \in 1 .. n : q.buffer[i] = Unit(peer, u + i)
        /\ \A i \in 1 .. l : peer.inbox[i] = Unit(peer, u + n + i)
    BY <1>2 DEF Bytes
  <1>8. \A i \in 1 .. k : Unit(peer, i) = "interim"
    BY <1>3 DEF Unit
  <1>9. Arrived(q, p) = u + n + (l + 1)
    BY <1>6 DEF Arrived
  <1> HIDE DEF u, n, l
  <1>10. \A i \in 1 .. k : Unit(p, i) = Unit(peer, i)
    BY <1>8
  <1>11. q.headers_seen => q.interim
    <2>1. q.headers_seen => k > 0
      BY <1>3, <1>4, <1>5
    <2>2. QED
      BY <1>2, <1>3, <2>1 DEF Response
  <1>12. Unit(p, k + 1) = x
    OBVIOUS
  <1> HIDE DEF k
  <1>13. \A i \in 1 .. n : q.buffer[i] = Unit(p, u + i)
    <2>1. \A i \in 1 .. n : u + i \in 1 .. k
      BY <1>3, <1>4
    <2>2. QED
      BY <1>7, <1>10, <2>1
  <1>14. \A i \in 1 .. l + 1 : p.inbox[i] = Unit(p, u + n + i)
    <2> SUFFICES ASSUME NEW i \in 1 .. l + 1
                 PROVE  p.inbox[i] = Unit(p, u + n + i)
      OBVIOUS
    <2>1. CASE i <= l
      <3>1. i \in 1 .. l /\ u + n + i \in 1 .. k
        BY <1>3, <1>4, <2>1
      <3>2. QED
        BY <1>6, <1>7, <1>10, <3>1
    <2>2. CASE i = l + 1
      <3>1. u + n + i = k + 1
        BY <1>3, <1>4, <2>2
      <3>2. QED
        BY <1>6, <1>12, <2>2, <3>1
    <2>3. l \in Nat
      BY <1>3
    <2>4. i <= l \/ i = l + 1
      BY <2>3
    <2>5. QED
      BY <2>1, <2>2, <2>4
  <1>15. Arrived(q, p) = k + 1
    BY <1>3, <1>4, <1>9
  <1>16. Bytes(q, p)
    <2>1. /\ p.sent = "nothing" => Arrived(q, p) = p.interims
          /\ p.sent = "head" => Arrived(q, p) = p.interims + 1
          /\ p.sent # "body"
      BY <1>15 DEF k
    <2>2. /\ \A i \in 1 .. Len(q.buffer) : q.buffer[i] = Unit(p, Used(q) + i)
          /\ \A i \in 1 .. Len(p.inbox) :
               p.inbox[i] = Unit(p, Used(q) + Len(q.buffer) + i)
      BY <1>6, <1>13, <1>14 DEF u, n
    <2>3. QED
      BY <2>1, <2>2 DEF Bytes
  <1>17. ~Heading(todo) /\ ~Emitting(todo) /\ ~Bodying(todo)
    BY <1>1 DEF Heading, Emitting, Bodying
  <1>18. Response(q, p, todo)
    BY <1>2, <1>11, <1>16, <1>17 DEF Response
  <1>19. QED
    BY <1>18, PeerStep

\* The server, announcing its answer, keeps the invariant.
LEMMA SendInterimInv ==
  ASSUME Inv, SendInterim
  PROVE  Inv'
  <1> DEFINE box == Append(peer.inbox, "interim")
             k == peer.interims
             p == [peer EXCEPT !.interims = k + 1, !.inbox = box]
  <1>1. /\ Answers /\ q' = q /\ net' = net /\ todo' = todo /\ peer' = p
        /\ peer.sent = "nothing"
    BY DEF SendInterim, Answers
  <1>2. peer \in Peer /\ peer.inbox \in Seq(Units) /\ k \in Nat
    BY ResponseTyped DEF Inv, Types, Peer
  <1>3. "interim" \in Units
    BY DEF Units
  <1>4. box \in Seq(Units) /\ k + 1 \in Nat
    BY <1>2, <1>3
  <1> HIDE DEF box, k
  <1>5. /\ p \in Peer /\ p.inbox = box /\ p.sent = "nothing"
        /\ p.interims = k + 1
    BY <1>1, <1>2, <1>4 DEF Peer
  <1> HIDE DEF p
  <1>6. \A i \in 1 .. k + 1 : Unit(p, i) = "interim"
    BY <1>2, <1>5 DEF Unit
  <1>7. Unit(p, k + 1) = "interim" /\ \A i \in 1 .. k : Unit(p, i) = "interim"
    BY <1>2, <1>6
  <1>8. p.inbox = Append(peer.inbox, "interim")
    BY <1>5 DEF box
  <1>9. QED
    BY <1>1, <1>3, <1>5, <1>7, <1>8, SendStep DEF k

\* The server, sending a head, keeps the invariant.
LEMMA SendHeadInv ==
  ASSUME Inv, SendHead
  PROVE  Inv'
  <1>1. PICK shape \in Shapes :
          peer' = [peer EXCEPT !.shape = shape, !.sent = "head",
                               !.inbox = Append(@, "head")]
    BY DEF SendHead
  <1> DEFINE box == Append(peer.inbox, "head")
             k == peer.interims
             p == [peer EXCEPT !.shape = shape, !.sent = "head",
                               !.inbox = box]
  <1>2. Answers /\ q' = q /\ net' = net /\ todo' = todo /\ peer' = p
    BY <1>1 DEF SendHead
  <1>3. peer \in Peer /\ peer.inbox \in Seq(Units) /\ k \in Nat
    BY ResponseTyped DEF Inv, Types, Peer
  <1>4. "head" \in Units
    BY DEF Units
  <1>5. box \in Seq(Units)
    BY <1>3, <1>4
  <1> HIDE DEF box
  <1>6. /\ p \in Peer /\ p.inbox = box /\ p.sent = "head"
        /\ p.interims = k
    BY <1>3, <1>5 DEF Peer
  <1> HIDE DEF p
  <1>7. Unit(p, k + 1) = "head" /\ \A i \in 1 .. k : Unit(p, i) = "interim"
    BY <1>3, <1>6 DEF Unit
  <1>8. p.inbox = Append(peer.inbox, "head")
    BY <1>6 DEF box
  <1>9. QED
    BY <1>2, <1>4, <1>6, <1>7, <1>8, SendStep

\* The body of a response, unit by unit.
LEMMA BodyUnitsAre ==
  ASSUME NEW p \in Peer
  PROVE  LET units == BodyUnits(p.shape)
         IN /\ units \in Seq(Units) /\ p.interims + 1 + Len(units) = Length(p)
            /\ \A i \in 1 .. Len(units) :
                 units[i] = Unit(p, p.interims + 1 + i)
  <1> DEFINE shape == p.shape
             c == p.interims
             b == shape.body
             data == [i \in 1 .. b |-> "data"]
             last == IF shape.framing = "chunked" THEN <<"last">> ELSE <<>>
             units == BodyUnits(shape)
  <1>1. b \in Nat /\ c \in Nat
    <2>1. b \in 0 .. MaxBody + 1 /\ MaxBody \in Nat /\ c \in Nat
      BY StreamingAssumption DEF Shapes, Peer
    <2>2. QED
      BY <2>1
  <1>2. units = data \o last
    BY DEF BodyUnits
  <1>9. Length(p) = c + 1 + IF shape.framing = "chunked" THEN b + 1 ELSE b
    BY DEF Length
  <1>10. \A i : Unit(p, i) = IF i <= c THEN "interim"
                             ELSE IF i = c + 1 THEN "head"
                             ELSE IF i <= c + 1 + b THEN "data" ELSE "last"
    BY DEF Unit
  <1> HIDE DEF b, c, shape
  <1>3. /\ data \in Seq(Units) /\ Len(data) = b
        /\ \A i \in 1 .. b : data[i] = "data"
    BY <1>1 DEF Units
  <1>4. /\ last \in Seq(Units)
        /\ Len(last) = IF shape.framing = "chunked" THEN 1 ELSE 0
        /\ \A i \in 1 .. Len(last) : last[i] = "last"
    <2>1. CASE shape.framing = "chunked"
      <3>1. last = <<"last">>
        BY <2>1
      <3> HIDE DEF last
      <3>2. QED
        BY <2>1, <3>1 DEF Units
    <2>2. CASE shape.framing # "chunked"
      <3>1. last = <<>>
        BY <2>2
      <3> HIDE DEF last
      <3>2. QED
        BY <2>2, <3>1
    <2>3. QED
      BY <2>1, <2>2
  <1> HIDE DEF data, last
  <1>5. /\ units \in Seq(Units) /\ Len(units) = b + Len(last)
        /\ \A i \in 1 .. b + Len(last) :
             units[i] = IF i <= b THEN data[i] ELSE last[i - b]
    BY <1>2, <1>3, <1>4, ConcatProperties
  <1> HIDE DEF units
  <1>6. c + 1 + Len(units) = Length(p)
    BY <1>1, <1>4, <1>5, <1>9
  <1>7. ASSUME NEW i \in 1 .. Len(units)
        PROVE  units[i] = Unit(p, c + 1 + i)
    <2>1. Len(last) \in Nat
      BY <1>4
    <2>2. i \in Nat \ {0} /\ i \in 1 .. b + Len(last)
      BY <1>1, <1>5, <2>1
    <2>3. Unit(p, c + 1 + i) = IF i <= b THEN "data" ELSE "last"
      BY <1>1, <1>10, <2>2
    <2>4. CASE i <= b
      BY <1>1, <1>3, <1>5, <2>2, <2>3, <2>4
    <2>5. CASE ~(i <= b)
      <3>1. i - b \in 1 .. Len(last)
        BY <1>1, <2>1, <2>2, <2>5
      <3>2. units[i] = "last"
        BY <1>4, <1>5, <2>2, <2>5, <3>1
      <3>3. QED
        BY <2>3, <2>5, <3>2
    <2>6. QED
      BY <2>4, <2>5
  <1>8. QED
    BY <1>5, <1>6, <1>7 DEF units, c, shape

\* The server, sending a body, keeps the invariant.
LEMMA SendBodyInv ==
  ASSUME Inv, SendBody
  PROVE  Inv'
  <1> DEFINE units == BodyUnits(peer.shape)
             part(whole) == IF whole \/ units = <<>> THEN units
                                                     ELSE Front(units)
  <1>1. PICK whole \in BOOLEAN :
          peer' = [peer EXCEPT !.inbox = @ \o part(whole), !.sent = "body",
                               !.gone = ~whole \/ ~peer.shape.keep]
    BY DEF SendBody
  <1>2. /\ todo = <<>> /\ peer.sent = "head"
        /\ q' = q /\ net' = net /\ todo' = todo
    BY DEF SendBody, Idle
  <1>3. /\ q \in Request /\ peer \in Peer /\ Response(q, peer, todo)
        /\ Bytes(q, peer) /\ peer.shape \in Shapes
    BY ResponseTyped DEF Inv, Types, Response
  <1>4. /\ units \in Seq(Units)
        /\ peer.interims + 1 + Len(units) = Length(peer)
        /\ \A i \in 1 .. Len(units) :
             units[i] = Unit(peer, peer.interims + 1 + i)
    BY <1>3, BodyUnitsAre
  <1> DEFINE sent == part(whole)
             box == peer.inbox
             new == box \o sent
             gone == ~whole \/ ~peer.shape.keep
             p == [peer EXCEPT !.inbox = new, !.sent = "body", !.gone = gone]
  <1>5. peer' = p
    BY <1>1
  <1> HIDE DEF units
  <1>6. /\ sent \in Seq(Units) /\ Len(sent) \in Nat
        /\ Len(sent) <= Len(units)
        /\ \A i \in 1 .. Len(sent) : sent[i] = units[i]
    <2>1. CASE whole \/ units = <<>>
      <3>1. sent = units
        BY <2>1
      <3> HIDE DEF sent
      <3>2. QED
        BY <1>4, <3>1
    <2>2. CASE ~(whole \/ units = <<>>)
      <3>1. sent = SubSeq(units, 1, Len(units) - 1)
        BY <2>2 DEF Front
      <3> HIDE DEF sent
      <3>2. Len(units) \in Nat \ {0}
        BY <1>4, <2>2
      <3>3. QED
        BY <1>4, <3>1, <3>2
    <2>3. QED
      BY <2>1, <2>2
  <1>7. /\ box \in Seq(Units) /\ Len(box) \in Nat /\ Len(q.buffer) \in Nat
        /\ Used(q) \in Nat
    BY <1>3, ResponseTyped
  <1> HIDE DEF sent
  <1>8. /\ new \in Seq(Units) /\ Len(new) = Len(box) + Len(sent)
        /\ \A i \in 1 .. Len(box) + Len(sent) :
             new[i] = IF i <= Len(box) THEN box[i] ELSE sent[i - Len(box)]
    <2> HIDE DEF box
    <2>1. QED
      BY <1>6, <1>7, ConcatProperties
  <1> HIDE DEF new
  <1>9. gone \in BOOLEAN
    OBVIOUS
  <1> HIDE DEF gone
  <1>10. /\ p \in Peer /\ p.shape = peer.shape /\ p.sent = "body"
         /\ p.inbox = new /\ p.interims = peer.interims
         /\ peer.interims \in Nat
    BY <1>3, <1>8, <1>9 DEF Peer
  <1> HIDE DEF p
  <1>21. Length(p) = Length(peer) /\ \A i : Unit(p, i) = Unit(peer, i)
    BY <1>10 DEF Length, Unit
  <1> DEFINE u == Used(q)
             n == Len(q.buffer)
             l == Len(box)
             k == Len(sent)
             t == Len(units)
             c == peer.interims
  <1>11. /\ u + n + l = c + 1
         /\ \A i \in 1 .. n : q.buffer[i] = Unit(p, u + i)
         /\ \A i \in 1 .. l : box[i] = Unit(p, u + n + i)
    BY <1>2, <1>3, <1>21 DEF Bytes, Arrived
  <1>12. Arrived(q, p) = u + n + (l + k)
    BY <1>8, <1>10 DEF Arrived
  <1>13. /\ u \in Nat /\ n \in Nat /\ l \in Nat /\ k \in Nat /\ t \in Nat
         /\ k <= t /\ c + 1 + t = Length(p) /\ c \in Nat
    BY <1>4, <1>6, <1>7, <1>10, <1>21
  <1>14. /\ \A i \in 1 .. l + k :
              new[i] = IF i <= l THEN box[i] ELSE sent[i - l]
         /\ \A i \in 1 .. k : sent[i] = Unit(p, c + 1 + i)
    <2>1. \A i \in 1 .. k : i \in 1 .. t
      BY <1>13
    <2>2. QED
      BY <1>4, <1>6, <1>8, <1>21, <2>1
  <1>15. Len(new) = l + k
    BY <1>8
  <1> HIDE DEF u, n, l, k, t, c, box
  <1>16. \A i \in 1 .. l + k : new[i] = Unit(p, u + n + i)
    <2> SUFFICES ASSUME NEW i \in 1 .. l + k
                 PROVE  new[i] = Unit(p, u + n + i)
      OBVIOUS
    <2>1. CASE i <= l
      BY <1>11, <1>13, <1>14, <2>1
    <2>2. CASE ~(i <= l)
      <3>1. i - l \in 1 .. k /\ c + 1 + (i - l) = u + n + i
        BY <1>11, <1>13, <2>2
      <3>2. QED
        BY <1>14, <2>2, <3>1
    <2>3. QED
      BY <2>1, <2>2
  <1>17. Arrived(q, p) <= Length(p)
    BY <1>11, <1>12, <1>13
  <1>18. Bytes(q, p)
    BY <1>10, <1>11, <1>15, <1>16, <1>17 DEF Bytes, u, n
  <1>19. Response(q, p, todo)
    BY <1>3, <1>10, <1>18 DEF Response
  <1>20. QED
    BY <1>2, <1>5, <1>10, <1>19, PeerStep

\* The server, closing the connection, keeps the invariant.
LEMMA PeerClosesInv ==
  ASSUME Inv, PeerCloses
  PROVE  Inv'
  <1> DEFINE p == [peer EXCEPT !.gone = TRUE]
  <1>1. q' = q /\ net' = net /\ todo' = todo /\ peer' = p
    BY DEF PeerCloses
  <1>2. peer \in Peer /\ Response(q, peer, todo)
    BY DEF Inv, Types
  <1>3. /\ p \in Peer /\ p.inbox = peer.inbox /\ p.shape = peer.shape
        /\ p.sent = peer.sent /\ p.interims = peer.interims
    BY <1>2 DEF Peer
  <1> HIDE DEF p
  <1>6. Length(p) = Length(peer) /\ \A i : Unit(p, i) = Unit(peer, i)
    BY <1>3 DEF Length, Unit
  <1>7. Bytes(q, p)
    BY <1>2, <1>3, <1>6 DEF Response, Bytes, Arrived
  <1>4. Response(q, p, todo)
    BY <1>2, <1>3, <1>7 DEF Response
  <1>5. QED
    BY <1>1, <1>3, <1>4, PeerStep

-------------------------------------------------------------------------------
(***************************************************************************)
(* The invariant holds, and what follows from it.                          *)
(***************************************************************************)

\* Short sequences have their type.
LEMMA ShortSeqs ==
  ASSUME NEW S
  PROVE  /\ <<>> \in Seq(S)
         /\ \A x \in S : <<x>> \in Seq(S)
         /\ \A x, y \in S : <<x, y>> \in Seq(S)
  OBVIOUS

\* The invariant holds initially.
LEMMA InitInv ==
  ASSUME Init
  PROVE  Inv
  <1>1. PICK mode \in {"none", "content_length", "chunked"},
             secure \in BOOLEAN :
          \E n \in IF mode = "content_length" THEN 0 .. MaxWrites ELSE {0} :
            q = Configured(mode, n, secure)
    BY DEF Init
  <1>2. PICK n \in IF mode = "content_length" THEN 0 .. MaxWrites ELSE {0} :
          q = Configured(mode, n, secure)
    BY <1>1
  <1>3. n \in Nat /\ MaxWrites \in Nat /\ MaxPending \in Nat /\ MaxIdle \in Nat
        /\ MaxBody \in Nat
    <2>1. MaxWrites \in Nat /\ MaxPending \in Nat /\ MaxIdle \in Nat
          /\ MaxBody \in Nat
      BY StreamingAssumption
    <2>2. QED
      BY <1>2, <2>1
  <1>4. q \in Request
    <2>1. <<>> \in Seq([id : Nat, size : Nat]) /\ <<>> \in Seq(Units)
          /\ <<>> \in Seq(Nat) /\ 0 \in Nat
      OBVIOUS
    <2>2. NoStream \in Streams \cup {NoStream} /\ "none" \in Timed \cup {"none"}
      OBVIOUS
    <2>3. QED
      BY <1>1, <1>2, <1>3, <2>1, <2>2, ZenonT(60) DEF Configured, Request
  <1>5. /\ q.upload_mode = mode /\ q.content_length = n /\ q.pending = "new"
        /\ q.timer = "none" /\ q.stream = NoStream /\ q.lower = NoStream
        /\ q.accepted = 0 /\ q.upload_writes = <<>> /\ q.pending_bytes = 0
        /\ ~q.upload_writing /\ ~q.upload_ended /\ ~q.backpressured
        /\ ~q.headers_started /\ ~q.headers_written /\ ~q.reading_response
        /\ q.sent = <<>>
    BY <1>2 DEF Configured
  <1>6. /\ ~q.headers_seen /\ q.body_mode = "unknown" /\ q.buffer = <<>>
        /\ q.delivered = 0 /\ ~q.completed /\ q.result = "none"
        /\ ~q.late /\ ~q.ended_in_headers /\ ~q.interim
    BY <1>2 DEF Configured
  <1>7. /\ todo = <<>> /\ ~Heading(todo) /\ ~Written(todo) /\ Stack(todo)
        /\ Outer(todo) /\ ~Inside(todo) /\ ~Waiting(todo)
    BY DEF Init, Heading, Written, Stack, Outer, Inside, Waiting
  <1>8. /\ peer \in Peer /\ peer.inbox = <<>> /\ peer.sent = "nothing"
        /\ peer.interims = 0
    <2> DEFINE x == [framing |-> "none", keep |-> TRUE, body |-> 0]
    <2>1. x \in Shapes
      BY <1>3 DEF Shapes
    <2>2. peer = [shape |-> x, sent |-> "nothing", interims |-> 0,
                  inbox |-> <<>>, gone |-> FALSE]
      BY DEF Init
    <2> HIDE DEF x
    <2>3. <<>> \in Seq(Units)
      OBVIOUS
    <2>4. QED
      BY <2>1, <2>2, <2>3 DEF Peer
  <1>9. net \in Net /\ Pool(net)
    <2>1. PICK pooled \in SUBSET {s \in Streams : s = 1 /\ MaxIdle > 0} :
            net = [idle |-> [o \in Origins |-> IF pooled = {} THEN <<>>
                                                             ELSE <<1>>],
                   life |-> [s \in Streams |-> IF s \in pooled THEN "open"
                                                               ELSE "none"]]
      BY DEF Init
    <2> DEFINE queue == IF pooled = {} THEN <<>> ELSE <<1>>
               idle == [o \in Origins |-> queue]
               life == [s \in Streams |-> IF s \in pooled THEN "open"
                                                          ELSE "none"]
    <2>2. net = [idle |-> idle, life |-> life]
      BY <2>1
    <2>3. \/ pooled = {} /\ queue = <<>>
          \/ /\ pooled = {1} /\ 1 \in Streams /\ MaxIdle > 0
             /\ queue = <<1>>
      OBVIOUS
    <2> HIDE DEF queue
    <2>4. queue \in Seq(Streams)
      BY <2>3, ShortSeqs
    <2>5. life \in [Streams -> Lives]
      BY DEF Lives
    <2>6. idle \in [Origins -> Seq(Streams)] /\ idle[Origin] = queue
      BY <2>4, OneOrigin
    <2>7. \A s \in Streams : life[s] = IF s \in pooled THEN "open" ELSE "none"
      OBVIOUS
    <2> HIDE DEF idle, life
    <2>8. net \in Net /\ net.idle[Origin] = queue /\ net.life = life
      BY <2>2, <2>5, <2>6 DEF Net
    <2>9. CASE pooled = {} /\ queue = <<>>
      <3>1. Len(queue) = 0
        BY <2>9
      <3>2. QED
        BY <1>3, <2>8, <3>1 DEF Pool, InPool
    <2>10. CASE /\ pooled = {1} /\ 1 \in Streams /\ MaxIdle > 0
                /\ queue = <<1>>
      <3>1. Len(queue) = 1 /\ queue[1] = 1
        BY <2>10
      <3>2. \A t : InPool(net, t) => t = 1
        BY <2>8, <3>1 DEF InPool
      <3>3. life[1] = "open"
        BY <2>7, <2>10
      <3>4. \A i, j \in 1 .. Len(queue) : queue[i] = queue[j] => i = j
        BY <3>1
      <3>5. Len(queue) <= MaxIdle
        BY <1>3, <2>10, <3>1
      <3>6. QED
        BY <2>8, <3>2, <3>3, <3>4, <3>5 DEF Pool
    <2>11. QED
      BY <2>3, <2>9, <2>10
  <1>10. Types
    BY <1>4, <1>7, <1>8, <1>9 DEF Types
  <1>11. Upload(q, todo)
    <2>1. Len(<<>>) = 0 /\ \A i \in 1 .. 0 : FALSE
      OBVIOUS
    <2>2. Count(q) = 0 /\ Flown(q) = 0 /\ Load(q, 0) = 0
      BY <1>5, <2>1 DEF Count, Flown, Load
    <2>3. Queued(q)
      BY <1>5, <2>1, <2>2 DEF Queued
    <2>4. Sound(q)
      BY <1>3, <1>5, <2>1, <2>2, <2>3 DEF Sound
    <2>5. QED
      BY <1>5, <1>7, <2>4 DEF Upload
  <1>12. Response(q, peer, todo)
    <2>1. Len(<<>>) = 0 /\ \A i \in 1 .. 0 : FALSE
      OBVIOUS
    <2>2. Used(q) = 0 /\ Arrived(q, peer) = 0
      BY <1>6, <1>8, <2>1 DEF Used, Arrived
    <2>3. Bytes(q, peer)
      BY <1>6, <1>8, <2>1, <2>2 DEF Bytes
    <2>4. QED
      BY <1>6, <1>7, <2>3 DEF Response
  <1>13. Connection(q, net, todo)
    <2>1. Place(q, net)
      BY <1>5 DEF Place
    <2>2. QED
      BY <1>5, <1>6, <1>7, <1>9, <2>1 DEF Connection, Safe
  <1>14. QED
    BY <1>10, <1>11, <1>12, <1>13 DEF Inv

\* Every step keeps the invariant.
LEMMA StepInv ==
  ASSUME Inv, [Next]_vars
  PROVE  Inv'
  <1>1. CASE UNCHANGED vars
    <2>1. /\ q' = q /\ net' = net /\ todo' = todo /\ peer' = peer
          /\ peer \in Peer /\ Response(q, peer, todo)
      BY <1>1 DEF vars, Inv, Types
    <2>2. QED
      BY <2>1, PeerStep
  <1>2. CASE Next
    <2>1. CASE Start \/ OnResolved \/ OnConnected \/ OnTlsConnected
      BY <2>1, StartInv, OnResolvedInv, OnConnectedInv, OnTlsConnectedInv
    <2>2. CASE \/ Write \/ End \/ OnRequestHeadersWritten \/ OnUploadWritten
               \/ AfterUploadWritten \/ ReadStarted
      BY <2>2, WriteInv, EndInv, OnRequestHeadersWrittenInv,
         OnUploadWrittenInv, AfterUploadWrittenInv, ReadStartedInv
    <2>3. CASE \/ OnRead \/ OnReadError \/ OnEof \/ ProcessHead \/ BodyMode
               \/ ProcessBody \/ ProcessContentLengthBody
               \/ ProcessChunkedBody \/ EmitBufferAsBody
      BY <2>3, OnReadInv, OnReadErrorInv, OnEofInv, ProcessHeadInv,
         BodyModeInv, ProcessBodyInv, ProcessContentLengthBodyInv,
         ProcessChunkedBodyInv, EmitBufferAsBodyInv
    <2>4. CASE \/ Cancel \/ OnTimeout \/ CallbackReturns \/ OnClosed
               \/ IdleTimeout
      BY <2>4, CancelInv, OnTimeoutInv, CallbackReturnsInv, OnClosedInv,
         IdleTimeoutInv
    <2>5. CASE SendInterim \/ SendHead \/ SendBody \/ PeerCloses
      BY <2>5, SendInterimInv, SendHeadInv, SendBodyInv, PeerClosesInv
    <2>6. QED
      BY <1>2, <2>1, <2>2, <2>3, <2>4, <2>5 DEF Next
  <1>3. QED
    BY <1>1, <1>2

\* The invariant always holds.
LEMMA Invariance ==
  Spec => []Inv
  <1>1. Init => Inv
    BY InitInv
  <1>2. Inv /\ [Next]_vars => Inv'
    BY StepInv
  <1>3. QED
    BY <1>1, <1>2, PTL DEF Spec

\* The response is read only once the request is on the wire whole, in order,
\* with its last chunk and as long as was announced, wherever write() and end()
\* are called from and however the writes complete
\* (flush_upload_writes() and begin_response_read() of src/http/client.cpp).
THEOREM UploadsWhole ==
  Spec => []UploadWhole
  <1>1. ASSUME Inv PROVE UploadWhole
    <2>1. q \in Request /\ Sound(q)
      BY <1>1 DEF Inv, Types, Upload
    <2>2. TypeOK
      <3>1. /\ q \in Request /\ net \in Net /\ peer \in Peer
            /\ q.accepted <= IF q.upload_mode = "content_length"
                             THEN q.content_length ELSE MaxWrites
        BY <1>1, <2>1 DEF Inv, Types, Sound
      <3>2. todo \in Seq(Callbacks \cup {"written", "reading", "process",
                                        "mode", "body"})
        <4> DEFINE S == Callbacks \cup {"written", "reading", "process",
                                        "mode", "body"}
        <4>1. /\ "headers" \in S /\ "data" \in S /\ "drain" \in S
              /\ "written" \in S /\ "reading" \in S /\ "process" \in S
              /\ "mode" \in S /\ "body" \in S
          BY DEF Callbacks
        <4> HIDE DEF S
        <4>2. Stack(todo)
          BY <1>1 DEF Inv, Types
        <4>3. todo \in Seq(S)
          <5>1. CASE Outer(todo) \/ Waiting(todo)
            <6>1. /\ <<>> \in Seq(S)
                  /\ <<"written">> \in Seq(S)
                  /\ <<"drain", "written">> \in Seq(S)
                  /\ <<"reading">> \in Seq(S)
                  /\ <<"reading", "drain", "written">> \in Seq(S)
              BY <4>1
            <6>2. QED
              BY <5>1, <6>1, Zenon DEF Outer, Waiting
          <5>2. CASE Processing(todo) \/ Bodying(todo)
            <6>1. /\ <<"process">> \in Seq(S)
                  /\ <<"process", "reading">> \in Seq(S)
                  /\ <<"process", "reading", "drain", "written">> \in Seq(S)
                  /\ <<"body">> \in Seq(S)
                  /\ <<"body", "reading">> \in Seq(S)
                  /\ <<"body", "reading", "drain", "written">> \in Seq(S)
              BY <4>1
            <6>2. QED
              BY <5>2, <6>1, Zenon DEF Processing, Bodying
          <5>3. CASE Heading(todo)
            <6>1. /\ <<"mode">> \in Seq(S)
                  /\ <<"mode", "reading">> \in Seq(S)
                  /\ <<"mode", "reading", "drain", "written">> \in Seq(S)
                  /\ <<"headers", "mode">> \in Seq(S)
                  /\ <<"headers", "mode", "reading">> \in Seq(S)
                  /\ <<"headers", "mode", "reading", "drain", "written">>
                       \in Seq(S)
              BY <4>1
            <6>2. QED
              BY <5>3, <6>1, Zenon DEF Heading
          <5>4. CASE Emitting(todo)
            <6>1. /\ <<"data", "body">> \in Seq(S)
                  /\ <<"data", "body", "reading">> \in Seq(S)
                  /\ <<"data", "body", "reading", "drain", "written">>
                       \in Seq(S)
              BY <4>1
            <6>2. QED
              BY <5>4, <6>1, Zenon DEF Emitting
          <5>5. QED
            BY <4>2, <5>1, <5>2, <5>3, <5>4 DEF Stack
        <4>4. QED
          BY <4>3 DEF S
      <3>3. QED
        BY <3>1, <3>2 DEF TypeOK
    <2>3. ASSUME q.reading_response
          PROVE  /\ q.upload_writes = <<>> /\ ~q.upload_writing
                 /\ q.upload_mode = "content_length" =>
                      q.accepted = q.content_length
                 /\ q.upload_mode = "chunked" => q.upload_ended
                 /\ Len(q.sent) = Count(q)
      BY <2>1, <2>3 DEF Sound, Uploaded
    <2>4. ASSUME q.reading_response
          PROVE  q.sent = [i \in 1 .. q.accepted |-> i]
                            \o IF q.upload_mode = "chunked" THEN <<0>>
                                                            ELSE <<>>
      <3> DEFINE n == q.accepted
                 sent == q.sent
                 pieces == [i \in 1 .. n |-> i]
                 last == IF q.upload_mode = "chunked" THEN <<0>> ELSE <<>>
      <3>1. n \in Nat /\ sent \in Seq(Nat)
        BY <2>1, RequestTyped
      <3>2. \A i \in 1 .. Len(sent) : sent[i] = IF i <= n THEN i ELSE 0
        BY <2>1 DEF Sound, Piece
      <3>3. Len(sent) = n + IF q.upload_mode = "chunked" THEN 1 ELSE 0
        BY <2>3, <2>4 DEF Count
      <3> HIDE DEF n, sent
      <3>4. /\ pieces \in Seq(Nat) /\ Len(pieces) = n
            /\ \A i \in 1 .. n : pieces[i] = i
        BY <3>1
      <3>5. /\ last \in Seq(Nat)
            /\ Len(last) = IF q.upload_mode = "chunked" THEN 1 ELSE 0
            /\ \A i \in 1 .. Len(last) : last[i] = 0
        <4>1. CASE q.upload_mode = "chunked"
          <5>1. last = <<0>>
            BY <4>1
          <5> HIDE DEF last
          <5>2. QED
            BY <4>1, <5>1
        <4>2. CASE q.upload_mode # "chunked"
          <5>1. last = <<>>
            BY <4>2
          <5> HIDE DEF last
          <5>2. QED
            BY <4>2, <5>1
        <4>3. QED
          BY <4>1, <4>2
      <3> HIDE DEF pieces, last
      <3> DEFINE all == pieces \o last
      <3>6. /\ all \in Seq(Nat) /\ Len(all) = n + Len(last)
            /\ \A i \in 1 .. n + Len(last) :
                 all[i] = IF i <= n THEN pieces[i] ELSE last[i - n]
        BY <3>4, <3>5, ConcatProperties, ZenonT(60)
      <3> HIDE DEF all
      <3>7. Len(sent) = Len(all)
        BY <3>3, <3>5, <3>6
      <3>8. ASSUME NEW i \in 1 .. Len(sent) PROVE sent[i] = all[i]
        <4>1. Len(last) \in Nat /\ i \in 1 .. n + Len(last)
          BY <3>5, <3>6, <3>7, <3>8
        <4>2. CASE i <= n
          BY <3>1, <3>2, <3>4, <3>6, <4>1, <4>2, SMTT(60)
        <4>3. CASE ~(i <= n)
          <5>1. i - n \in 1 .. Len(last)
            BY <3>1, <4>1, <4>3
          <5>2. QED
            BY <3>2, <3>5, <3>6, <4>1, <4>3, <5>1
        <4>4. QED
          BY <4>2, <4>3
      <3>9. sent = all
        BY <3>1, <3>6, <3>7, <3>8, SeqEqual
      <3>10. QED
        BY <3>9 DEF sent, all, pieces, last, n
    <2>5. QED
      BY <2>2, <2>3, <2>4 DEF UploadWhole
  <1>2. QED
    BY <1>1, Invariance, PTL

\* A writer told to wait is always called back: while it waits, bytes above the
\* watermark are queued, and once the headers are written one write is in
\* flight whose completion will look at them
\* (notify_upload_drain_if_needed() of src/http/client.cpp).
THEOREM LosesNoDrain ==
  Spec => []NoLostDrain
  <1>1. ASSUME Inv, todo = <<>>, q.backpressured, ~q.completed
        PROVE  /\ q.upload_writes # <<>>
               /\ q.pending_bytes > MaxPending \div 2
               /\ q.headers_written => q.upload_writing
    <2>1. q \in Request /\ Upload(q, todo) /\ Queued(q)
      BY <1>1 DEF Inv, Types, Upload, Sound
    <2>2. q.pending_bytes > MaxPending \div 2 /\ MaxPending \in Nat
      BY <1>1, <2>1, RequestTyped DEF Queued
    <2>3. q.upload_writes # <<>>
      <3>1. MaxPending \div 2 \in Nat /\ ~(0 > MaxPending \div 2)
        BY <2>2
      <3>2. q.upload_writes = <<>> => q.pending_bytes = Load(q, 0)
        BY <2>1 DEF Queued
      <3>3. Load(q, 0) = 0
        BY DEF Load
      <3>4. QED
        BY <2>2, <3>1, <3>2, <3>3
    <2>4. ~Written(todo)
      BY <1>1 DEF Written
    <2>5. QED
      BY <1>1, <2>1, <2>2, <2>3, <2>4 DEF Upload
  <1>2. Inv => NoLostDrain
    BY <1>1 DEF NoLostDrain, Idle
  <1>3. QED
    BY <1>2, Invariance, PTL

\* A request that reports success has delivered the whole body, wherever the
\* reads cut the response, whenever the server went away and however many 1xx
\* responses came first.  The exceptions are those of the property: a body that
\* EOF ends, and a 1xx head taken for the response, after which nothing was
\* delivered at all (response_must_not_have_body(),
\* process_content_length_body(), process_chunked_body() and on_eof() of
\* src/http/client.cpp).
THEOREM SucceedsWhole ==
  Spec => []SuccessIsWhole
  <1>1. Inv => SuccessIsWhole
    <2>1. Response(q, peer, todo) /\ q.interim => q.delivered = 0
      BY DEF Response
    <2>2. QED
      BY <2>1 DEF Inv, Response, SuccessIsWhole
  <1>2. QED
    BY <1>1, Invariance, PTL

\* After on_complete no callback runs and no timer, the connection is closed or
\* back in the pool, and the pool holds open connections, each once and no more
\* than its limit.  The exceptions are those of the property: what a request
\* ended by on_response_headers still does, and the timer that
\* begin_response_read() arms when read_start() of a secure stream completed the
\* request (complete(), begin_response_read() and finish_response_success() of
\* src/http/client.cpp).
THEOREM StaysQuiet ==
  Spec => []QuietWhenComplete
  <1>1. ASSUME Inv, Pool(net) PROVE PoolKept(net)
    <2> DEFINE queue == net.idle[Origin]
    <2>1. net \in Net /\ Origins = {Origin}
      BY <1>1, OneOrigin DEF Inv, Types
    <2>2. /\ queue \in Seq(Streams) /\ Len(queue) \in Nat
          /\ \A i \in 1 .. Len(queue) : queue[i] \in Streams
      BY <2>1, NetTyped
    <2>3. DOMAIN queue = 1 .. Len(queue)
      BY <2>2
    <2>4. ASSUME NEW s \in Streams PROVE Cardinality(Entries(net, s)) <= 1
      <3>1. \A e : e \in Entries(net, s) <=>
              \E i \in 1 .. Len(queue) : queue[i] = s /\ e = <<Origin, i>>
        BY <2>1, <2>3 DEF Entries
      <3>2. CASE ~InPool(net, s)
        <4>1. Entries(net, s) = {}
          BY <3>1, <3>2 DEF InPool
        <4>2. QED
          BY <4>1, FS_EmptySet
      <3>3. CASE InPool(net, s)
        <4>1. PICK i \in 1 .. Len(queue) : queue[i] = s
          BY <3>3 DEF InPool
        <4>2. \A e : e \in Entries(net, s) <=> e = <<Origin, i>>
          BY <1>1, <3>1, <4>1 DEF Pool
        <4>3. Entries(net, s) = {<<Origin, i>>}
          BY <4>2
        <4>4. Cardinality({<<Origin, i>>}) = 1
          BY FS_Singleton
        <4>5. QED
          BY <4>3, <4>4
      <3>4. QED
        BY <3>2, <3>3
    <2>5. \A i \in DOMAIN queue : net.life[queue[i]] = "open"
      BY <1>1, <2>2, <2>3 DEF Pool, InPool
    <2>6. Len(queue) <= MaxIdle
      BY <1>1 DEF Pool
    <2>7. QED
      BY <2>1, <2>4, <2>5, <2>6 DEF PoolKept
  <1>2. Inv => QuietWhenComplete
    BY <1>1 DEF Inv, Connection, Spare, QuietWhenComplete
  <1>3. QED
    BY <1>2, Invariance, PTL

===============================================================================
